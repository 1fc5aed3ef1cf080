-------------------------------- MODULE Fifo --------------------------------
(* What devices/intq.h promises: a bounded first-in-first-out of bytes. *)
EXTENDS Naturals, Sequences

CONSTANTS Byte, capacity

VARIABLE items

Init == items = <<>>
Put(b) == Len(items) < capacity /\ items' = Append(items, b)
Get == items # <<>> /\ items' = Tail(items)
Next == Get \/ \E b \in Byte : Put(b)

Spec == Init /\ [][Next]_items
=============================================================================
