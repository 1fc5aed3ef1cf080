----------------------------- MODULE MCDownload -----------------------------
(* A file of seven bytes in three parts; and the programs that give a simulator a terminal. *)
EXTENDS Download, Sequences, FiniteSets

(***************************************************************************)
(* The relays of squish-pty.c and squish-unix.c: every state that four     *)
(* bytes of output, three of input and a buffer of three can lead to.      *)
(***************************************************************************)
Y == INSTANCE Relay WITH BUFSIZ <- 3
Typed == <<1, 2, 3>>
Shown(n) == [k \in 1..n |-> 10 + k]
\* What the command shows so far: on stdout, in the buffer and in the device.
Output(st) == st.stdout \o st.pipes[2].buf \o st.device
\* The command writes, ends, and then its parent is told.
Surroundings(st) ==
    (IF st.open /\ Len(Output(st)) < 4 THEN {[st EXCEPT !.device = Append(@, 11 + Len(Output(st)))]} ELSE {})
    \union (IF st.open THEN {[st EXCEPT !.open = FALSE]} ELSE IF ~st.dead THEN {[st EXCEPT !.dead = TRUE]} ELSE {})
Successors(kind, st) == IF st.end # "runs" THEN {} ELSE Surroundings(st) \union Y!relay(kind, st)
RECURSIVE Closure(_, _, _)
Closure(kind, seen, new) ==
    IF new = {} THEN seen
    ELSE LET next == UNION {Successors(kind, st) : st \in new} IN Closure(kind, seen \union new, next \ (seen \union new))
Reached == [kind \in {"pty", "unix"} |-> Closure(kind, {}, {Y!RelayStart(Typed)})]

\* Both ways bytes stay in order and none is made up or lost while the relay runs; the buffer
\* is never too small and never has to be moved; nothing is typed before something is shown.
ASSUME BytesRelayed == \A kind \in {"pty", "unix"} : \A st \in Reached[kind] :
    /\ Output(st) = Shown(Len(Output(st)))
    /\ st.sent \o st.pipes[1].buf \o st.stdin = Typed
    /\ st.sent # <<>> => st.pipes[2].active
    /\ \A p \in {st.pipes[1], st.pipes[2]} : Len(p.buf) + p.ofs <= 3 /\ (p.buf = <<>> => p.ofs = 0)

\* While there is something for stdout the relay can take a step, and what was written before
\* the device was closed is out when squish-pty has been told of the child's death.  Without
\* that, both end with bytes in the buffer: EIO, or the end of the socket, is seen first.
Lost(st) == st.end \in {"returns", "fails"} /\ (st.pipes[2].buf # <<>> \/ st.device # <<>>)
ASSUME OutputRelayed ==
    /\ \A kind \in {"pty", "unix"} : \A st \in Reached[kind] :
          /\ st.end = "runs" /\ (st.device # <<>> \/ st.pipes[2].buf # <<>>) => Y!relay(kind, st) # {}
          /\ st.end = "exits" \/ (st.end = "returns" /\ st.dead /\ kind = "pty") => ~Lost(st)
          /\ st.end = "fails" => kind = "unix" /\ ~st.open
    /\ \E st \in Reached["pty"] : Lost(st)
    /\ \E st \in Reached["unix"] : Lost(st) /\ st.end = "returns" /\ st.device = <<>>

\* squish-pty passes the limit of processor time on to the child, squish-unix drops it, and
\* squish-pty ends as a child does that can be reaped.  Input is replayed for each connection.
ASSUME ChildrenTreated ==
    /\ Y!Timers("pty", 5) = [parent |-> 0, child |-> 5] /\ Y!Timers("unix", 5).child = 0
    /\ Y!ExitStatus({}) = [how |-> "exits", value |-> 0]
    /\ Y!ExitStatus({[how |-> "signal", value |-> 26]}) = [how |-> "signal", value |-> 26]
    /\ Len(Y!sigchld_handler("pty", <<>>)) = 1 /\ Y!sigchld_handler("unix", <<>>) = <<>>
    /\ LET served == Y!squish_unix(Typed, <<"returns", "returns", "exits", "returns">>)
       IN DOMAIN served = 1..3 /\ \A k \in 1..3 : served[k].stdin = Typed
    /\ \A t \in {0, 1, 999999, 1000000, 1500000} : Y!setitimer_helper(t).tv_sec * 1000000 + Y!setitimer_helper(t).tv_usec = t
    /\ Y!setitimer_helper(-1) = Y!setitimer_helper(0)
    /\ Y!make_nonblocking({"O_RDWR"}, TRUE) = {"O_RDWR", "O_NONBLOCK"} /\ Y!make_nonblocking({"O_RDWR", "O_NONBLOCK"}, FALSE) = {"O_RDWR"}
    /\ Y!make_noncanon([isatty |-> TRUE, lflag |-> {"ICANON", "ISIG"}, VMIN |-> 4, VTIME |-> 0], 16, 1)
          = [isatty |-> TRUE, lflag |-> {"ISIG"}, VMIN |-> 16, VTIME |-> 1]
    /\ LET file == [isatty |-> FALSE, lflag |-> {}, VMIN |-> 0, VTIME |-> 0] IN Y!make_noncanon(file, 1, 0) = file
=============================================================================
