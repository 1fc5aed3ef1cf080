------------------------------- MODULE Relay -------------------------------
(***************************************************************************)
(* The programs that give a simulator a terminal: utils/squish-pty.c and   *)
(* utils/squish-unix.c, which copy between standard input and output and a *)
(* pty or a socket, the device, and utils/setitimer-helper.c.  The kind is *)
(* "pty" or "unix"; pipe 1 is from stdin to the device and 2 back.         *)
(***************************************************************************)
EXTENDS Integers, Sequences

CONSTANT BUFSIZ

make_noncanon(terminal, vmin, vtime) ==
    IF terminal.isatty THEN [terminal EXCEPT !.lflag = @ \ {"ICANON", "ECHO"}, !.VMIN = vmin, !.VTIME = vtime] ELSE terminal
make_nonblocking(flags, nonblocking) == IF nonblocking THEN flags \union {"O_NONBLOCK"} ELSE flags \ {"O_NONBLOCK"}

pty_handle_error(retval, fd_is_pty, errno) ==
    IF fd_is_pty THEN (IF retval = 0 THEN "continue" ELSE IF errno = "EIO" THEN "return" ELSE "fail_io")
    ELSE IF retval = 0 THEN "close" ELSE "fail_io"
unix_handle_error(retval, fd_is_sock) ==
    IF retval = 0 THEN (IF fd_is_sock THEN "return" ELSE "close") ELSE "fail_io"

(***************************************************************************)
(* A state of a relay.  Of its surroundings: what is left of stdin, what   *)
(* went to stdout and was sent to the device, what waits in the device,    *)
(* whether its other side is open, and whether the death of the child is   *)
(* known.                                                                  *)
(***************************************************************************)
pipe == [in |-> TRUE, out |-> TRUE, buf |-> <<>>, ofs |-> 0, active |-> FALSE]
RelayStart(input) ==
    [pipes |-> <<pipe, pipe>>, stdin |-> input, stdout |-> <<>>, sent |-> <<>>, device |-> <<>>,
     open |-> TRUE, dead |-> FALSE, end |-> "runs"]

\* Stdin has bytes, or its end, at any time.
Reads(s, i) == LET p == s.pipes[i] IN (i = 1 => s.pipes[2].active) /\ p.in /\ Len(p.buf) + p.ofs < BUFSIZ
Writes(s, i) == LET p == s.pipes[i] IN (i = 1 => s.pipes[2].active) /\ p.out /\ p.buf # <<>>
Readable(s, i) == i = 1 \/ s.device # <<>> \/ ~s.open
Source(s, i) == IF i = 1 THEN s.stdin ELSE s.device

Handled(kind, s, i, side, retval, errno) ==
    LET is_device == (side = "in") <=> (i = 2)
        verdict == IF kind = "pty" THEN pty_handle_error(retval, is_device, errno) ELSE unix_handle_error(retval, is_device)
    IN CASE verdict = "continue" -> s
         [] verdict = "close" -> [s EXCEPT !.pipes[i][side] = FALSE]
         [] verdict = "return" -> [s EXCEPT !.end = "returns"]
         [] verdict = "fail_io" -> [s EXCEPT !.end = "fails"]
\* The state after any number of bytes read, or after the end.  A pty whose slave is closed
\* gives EIO, a socket whose peer is, the end of file.
ReadPipe(kind, s, i) ==
    LET p == s.pipes[i]
        from == Source(s, i)
        room == BUFSIZ - p.ofs - Len(p.buf)
        After(n) ==
            LET full == [p EXCEPT !.active = TRUE, !.buf = @ \o SubSeq(from, 1, n)]
                moved == IF Len(full.buf) = BUFSIZ /\ full.ofs # 0 THEN [full EXCEPT !.ofs = 0] ELSE full
                rest == SubSeq(from, n + 1, Len(from))
            IN IF i = 1 THEN [s EXCEPT !.pipes[i] = moved, !.stdin = rest] ELSE [s EXCEPT !.pipes[i] = moved, !.device = rest]
    IN IF from # <<>> THEN {After(n) : n \in {k \in 1..Len(from) : k <= room}}
       ELSE {Handled(kind, s, i, "in", IF i = 2 /\ kind = "pty" THEN -1 ELSE 0, "EIO")}
WritePipe(kind, s, i) ==
    LET p == s.pipes[i]
        After(n) ==
            LET left == [p EXCEPT !.buf = SubSeq(@, n + 1, Len(@)), !.ofs = IF n = Len(p.buf) THEN 0 ELSE @ + n]
                out == SubSeq(p.buf, 1, n)
            IN IF i = 1 THEN [s EXCEPT !.pipes[i] = left, !.sent = @ \o out] ELSE [s EXCEPT !.pipes[i] = left, !.stdout = @ \o out]
    IN IF i = 1 /\ ~s.open THEN {Handled(kind, s, i, "out", -1, IF kind = "pty" THEN "EIO" ELSE "EPIPE")}
       ELSE {After(n) : n \in 1..Len(p.buf)}

\* What has been read, and everything that can still be, goes to stdout.
FinalRelaying(kind, s) ==
    LET end == IF kind = "pty" THEN "returns" ELSE "exits"
    IN IF ~s.pipes[2].out THEN [s EXCEPT !.end = end]
       ELSE [s EXCEPT !.stdout = @ \o s.pipes[2].buf \o s.device, !.pipes[2].buf = <<>>, !.pipes[2].ofs = 0, !.device = <<>>, !.end = end]

\* The states after a select and what is ready then.  Stdout may take nothing for a while.
Rounds(kind, s) ==
    LET Then(states, Step(_)) == UNION {IF t.end = "runs" THEN Step(t) ELSE {t} : t \in states}
        reads == {i \in {1, 2} : Reads(s, i) /\ Readable(s, i)}
        ready == {i \in {1, 2} : Writes(s, i)}
        Round(writes) ==
            LET Read(t, i) == IF i \in reads THEN ReadPipe(kind, t, i) ELSE {t}
                Write(t, i) == IF i \in writes THEN WritePipe(kind, t, i) ELSE {t}
                Read1(t) == Read(t, 1)  Write1(t) == Write(t, 1)
                Read2(t) == Read(t, 2)  Write2(t) == Write(t, 2)
            IN Then(Then(Then(Then({s}, Read1), Write1), Read2), Write2)
    IN UNION {Round(writes) : writes \in {w \in {ready, ready \ {2}} : reads \union w # {}}}

\* One turn of the loop.  The pty's relay is told of the child by a descriptor it selects on,
\* the socket's by a signal, which may come before what is ready or after it.
pty_relay(s) ==
    CASE s.end # "runs" -> {}
      [] s.end = "runs" /\ ~s.pipes[1].in /\ ~s.pipes[2].in -> {[s EXCEPT !.end = "returns"]}
      [] OTHER -> IF s.dead THEN {FinalRelaying("pty", s)} ELSE Rounds("pty", s)
unix_relay(s) ==
    CASE s.end # "runs" -> {}
      [] s.end = "runs" /\ ~s.pipes[1].in /\ ~s.pipes[2].in /\ (s.pipes[2].buf = <<>> \/ ~s.pipes[2].out) -> {[s EXCEPT !.end = "returns"]}
      [] OTHER -> Rounds("unix", s) \union (IF s.dead THEN {FinalRelaying("unix", s)} ELSE {})
relay(kind, s) == IF kind = "pty" THEN pty_relay(s) ELSE unix_relay(s)

(***************************************************************************)
(* main(): the descriptor for a dead child, the interval timers, what      *)
(* squish-pty exits with and the connections of squish-unix.               *)
(***************************************************************************)
sigchld_handler(kind, dead_child_fd) == IF kind = "pty" THEN Append(dead_child_fd, 0) ELSE dead_child_fd
Timers(kind, old_itimerval) == [parent |-> 0, child |-> IF kind = "pty" THEN old_itimerval ELSE 0]
\* A child that is reaped is [how, value].
ExitStatus(reaped) ==
    IF reaped = {} THEN [how |-> "exits", value |-> 0] ELSE CHOOSE child \in reaped : TRUE
\* squish-unix takes one connection after the other until a relay exits or the child dies
\* between two, each with stdin from its beginning.
Served(ends) == {i \in DOMAIN ends : \A j \in 1..(i - 1) : ends[j] # "exits"}
squish_unix(input, ends) == [i \in Served(ends) |-> RelayStart(input)]
\* The time limit, in microseconds.
setitimer_helper(timeout) ==
    IF timeout >= 0 THEN [tv_sec |-> timeout \div 1000000, tv_usec |-> timeout % 1000000] ELSE [tv_sec |-> 0, tv_usec |-> 0]
=============================================================================
