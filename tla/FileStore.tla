------------------------------ MODULE FileStore ------------------------------
(***************************************************************************)
(* What the file system promises of the files that have a name: they       *)
(* appear full of zeros, one at a time, change where they are written and  *)
(* disappear, and nothing else, a crash included, touches them.            *)
(***************************************************************************)
EXTENDS Naturals, Sequences

CONSTANTS Name, Data, ZERO, NULL, MaxSize

VARIABLE files

Init == files = [n \in Name |-> NULL]

Create(n) ==
    /\ files[n] = NULL
    /\ \E size \in 0..MaxSize :
          files' = [files EXCEPT ![n] = [i \in 1..size |-> ZERO]]
Write(n) ==
    /\ files[n] # NULL
    /\ \E i \in 1..MaxSize, v \in Data :
          i \in DOMAIN files[n] /\ files' = [files EXCEPT ![n][i] = v]
Remove(n) == files[n] # NULL /\ files' = [files EXCEPT ![n] = NULL]

Next == \E n \in Name : Create(n) \/ Write(n) \/ Remove(n)

Spec == Init /\ [][Next]_files
=============================================================================
