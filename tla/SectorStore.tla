----------------------------- MODULE SectorStore -----------------------------
(***************************************************************************)
(* What disk_read() and disk_write() promise: sectors that are read and    *)
(* written one at a time, each call taking effect once between its start   *)
(* and its end.                                                            *)
(***************************************************************************)
CONSTANTS Thread, Sector, Data, NULL

VARIABLES
    content,    \* what each sector holds
    request,    \* the call a thread is in, NULL outside
    done        \* the threads whose call has taken effect

vars == <<content, request, done>>

Request == [sector : Sector, write : Data \cup {NULL}, got : Data \cup {NULL}]

Init ==
    /\ content \in [Sector -> Data]
    /\ request = [t \in Thread |-> NULL]
    /\ done = {}

Start(t, s, v) ==
    /\ request[t] = NULL
    /\ request' = [request EXCEPT ![t] = [sector |-> s, write |-> v, got |-> NULL]]
    /\ UNCHANGED <<content, done>>

Take(t) ==
    /\ request[t] # NULL /\ t \notin done
    /\ done' = done \cup {t}
    /\ \/ /\ request[t].write # NULL
          /\ content' = [content EXCEPT ![request[t].sector] = request[t].write]
          /\ UNCHANGED request
       \/ /\ request[t].write = NULL
          /\ request' = [request EXCEPT ![t].got = content[request[t].sector]]
          /\ UNCHANGED content

Return(t) ==
    /\ t \in done
    /\ done' = done \ {t}
    /\ request' = [request EXCEPT ![t] = NULL]
    /\ UNCHANGED content

Next ==
    \E t \in Thread :
        \/ \E s \in Sector, v \in Data \cup {NULL} : Start(t, s, v)
        \/ Take(t) \/ Return(t)

Spec == Init /\ [][Next]_vars
=============================================================================
