--------------------------------- MODULE Oob --------------------------------
(* The out-of-band data programs of unpv13e/oob: tcpsend01 to 06 against
   tcprecv01 to 06.  The kernel's side is that of Linux TCP: an urgent pointer
   to one byte, announced (SIGURG) before the byte can come through a full
   window; a read stops before the mark and skips the urgent byte unless
   SO_OOBINLINE is set; a new pointer replaces the old one.                   *)
EXTENDS Naturals, Sequences, FiniteSets
CONSTANTS Pairs,     \* <<sender, receiver>>
          RcvBuf,    \* bytes the receive buffer holds
          BUFF       \* bytes one Read asks for, sizeof(buff)-1
VARIABLES prog, snd, tcp, rcv
vars == <<prog, snd, tcp, rcv>>

Inline == prog[2] \in {"tcprecv04", "tcprecv06"}
Lesser(a, b) == IF a < b THEN a ELSE b

-----------------------------------------------------------------------------
(* The senders: normal data of n bytes, or one out-of-band byte. *)
Data(n) == [n |-> n, oob |-> FALSE]
Urgent == [n |-> 1, oob |-> TRUE]

tcpsend01 == <<Data(3), Urgent, Data(2), Urgent, Data(2)>>
tcpsend02 == <<Data(3), Urgent, Data(2), Urgent, Data(2)>>
tcpsend03 == <<Data(3), Urgent, Data(2), Urgent, Data(2)>>
tcpsend04 == <<Data(3), Urgent, Data(1)>>
\* 16384 bytes, four times the receive buffer of tcprecv05
tcpsend05 == <<Data(4 * RcvBuf), Urgent, Data(1)>>
tcpsend06 == <<Data(3), Urgent, Data(1), Urgent, Data(1)>>

Script ==
    CASE prog[1] = "tcpsend01" -> tcpsend01 [] prog[1] = "tcpsend02" -> tcpsend02
      [] prog[1] = "tcpsend03" -> tcpsend03 [] prog[1] = "tcpsend04" -> tcpsend04
      [] prog[1] = "tcpsend05" -> tcpsend05 [] prog[1] = "tcpsend06" -> tcpsend06

\* Write or Send: the urgent pointer is announced at once.
Sender ==
    /\ snd < Len(Script)
    /\ LET w == Script[snd + 1]
           last == tcp.sent + w.n
           skips == tcp.urg # "none" /\ tcp.mark = tcp.copied + 1 /\ ~Inline /\ tcp.copied < tcp.rcvd
       IN  tcp' = IF w.oob
                  THEN [tcp EXCEPT !.sent = last, !.mark = last, !.urg = "notyet", !.sigurg = TRUE,
                                   !.copied = IF skips THEN @ + 1 ELSE @,
                                   !.old = IF tcp.urg # "none" THEN @ \cup {tcp.mark} ELSE @,
                                   !.urgent = @ \cup {last}]
                  ELSE [tcp EXCEPT !.sent = last]
    /\ snd' = snd + 1
    /\ UNCHANGED <<prog, rcv>>

\* A byte arrives.
Arrive ==
    /\ tcp.rcvd < tcp.sent /\ tcp.rcvd - tcp.copied < RcvBuf
    /\ tcp' = [tcp EXCEPT !.rcvd = @ + 1,
                          !.urg = IF @ = "notyet" /\ tcp.rcvd + 1 = tcp.mark THEN "valid" ELSE @]
    /\ UNCHANGED <<prog, snd, rcv>>

Eof == snd = Len(Script) /\ tcp.copied = tcp.sent
AtMark == tcp.urg # "none" /\ tcp.mark = tcp.copied + 1
\* The first byte a read would return, past an urgent byte that is not inline.
First == tcp.copied + (IF AtMark /\ ~Inline THEN 2 ELSE 1)
Readable == First <= tcp.rcvd \/ Eof

-----------------------------------------------------------------------------
(* The receivers. *)

At(p) == rcv.pc = p
\* Read up to BUFF bytes, never across the mark; EOF ends the program.
Read(next) ==
    /\ Readable \/ (snd = Len(Script) /\ First > tcp.sent /\ tcp.rcvd = tcp.sent)
    /\ IF First > tcp.rcvd
       THEN /\ rcv' = [rcv EXCEPT !.pc = "eof"]
            /\ tcp' = [tcp EXCEPT !.copied = tcp.sent]
       ELSE LET stop == IF tcp.urg # "none" /\ tcp.mark > First THEN tcp.mark - 1 ELSE tcp.rcvd
                last == Lesser(Lesser(stop, tcp.rcvd), First + BUFF - 1)
            IN  /\ tcp' = [tcp EXCEPT !.copied = last, !.urg = IF last >= tcp.mark THEN "none" ELSE @]
                /\ rcv' = [rcv EXCEPT !.got = @ \o [k \in 1..(last - First + 1) |-> First + k - 1],
                                      !.just = FALSE, !.pc = next]
    /\ UNCHANGED <<prog, snd>>

\* Recv(MSG_OOB): err_sys ends the program when there is no byte to give.
RecvOob(next) ==
    /\ IF tcp.urg = "valid"
       THEN /\ rcv' = [rcv EXCEPT !.oob = Append(@, tcp.mark), !.just = TRUE, !.pc = next]
            /\ tcp' = [tcp EXCEPT !.urg = "read"]
       ELSE /\ rcv' = [rcv EXCEPT !.pc = IF tcp.urg = "notyet" THEN "EWOULDBLOCK" ELSE "EINVAL"]
            /\ UNCHANGED tcp
    /\ UNCHANGED <<prog, snd>>

\* The SIGURG handler of tcprecv01.c and tcprecv05.c
sig_urg ==
    \/ /\ At("loop") /\ tcp.sigurg
       /\ tcp' = [tcp EXCEPT !.sigurg = FALSE]
       /\ rcv' = [rcv EXCEPT !.pc = "handler"]
       /\ UNCHANGED <<prog, snd>>
    \/ At("handler") /\ RecvOob("loop")

tcprecv01 == prog[2] = "tcprecv01" /\ (sig_urg \/ (At("loop") /\ ~tcp.sigurg /\ Read("loop")))

\* tcprecv05.c only pauses.
tcprecv05 == prog[2] = "tcprecv05" /\ sig_urg

\* select or poll: the descriptor is exceptional while a byte can be read.
Select(x) ==
    /\ At("loop")
    /\ Readable \/ (x /\ tcp.urg = "valid")
    /\ rcv' = [rcv EXCEPT !.r = Readable, !.x = x /\ tcp.urg = "valid",
                          !.pc = IF x /\ tcp.urg = "valid" THEN "oob" ELSE "data"]
    /\ UNCHANGED <<prog, snd, tcp>>

\* mutation: the urgent byte is asked for without a look at xset
HandleUnasked ==
    \/ At("oob") /\ RecvOob("data")
    \/ At("data") /\ rcv.r /\ Read("oob")
    \/ At("data") /\ ~rcv.r /\ rcv' = [rcv EXCEPT !.pc = "loop"] /\ UNCHANGED <<prog, snd, tcp>>

Handle ==
    \/ At("oob") /\ RecvOob("data")
    \/ At("data") /\ rcv.r /\ Read("loop")
    \/ At("data") /\ ~rcv.r /\ rcv' = [rcv EXCEPT !.pc = "loop"] /\ UNCHANGED <<prog, snd, tcp>>

tcprecv02 == prog[2] = "tcprecv02" /\ (Select(TRUE) \/ Handle)
tcprecv03 == prog[2] = "tcprecv03" /\ (Select(~rcv.just) \/ Handle)
\* tcprecv03p.c polls for POLLRDBAND, taken here as the select of tcprecv03.c
tcprecv03p == prog[2] = "tcprecv03p" /\ (Select(~rcv.just) \/ Handle)

\* SO_OOBINLINE: sockatmark, then Read.
ReadInline ==
    \/ /\ At("loop") /\ Readable
       /\ rcv' = [rcv EXCEPT !.marks = IF AtMark THEN @ \cup {tcp.mark} ELSE @, !.pc = "data"]
       /\ UNCHANGED <<prog, snd, tcp>>
    \/ At("data") /\ Read("loop")
tcprecv04 == prog[2] = "tcprecv04" /\ ReadInline
tcprecv06 == prog[2] = "tcprecv06" /\ ReadInline

Init ==
    /\ prog \in Pairs
    /\ snd = 0
    /\ tcp = [sent |-> 0, rcvd |-> 0, copied |-> 0, mark |-> 0, urg |-> "none", sigurg |-> FALSE,
              old |-> {}, urgent |-> {}]
    /\ rcv = [pc |-> "loop", got |-> <<>>, oob |-> <<>>, just |-> FALSE, r |-> FALSE, x |-> FALSE, marks |-> {}]
Receiver ==
    \/ tcprecv01 \/ tcprecv02 \/ tcprecv03 \/ tcprecv03p \/ tcprecv04 \/ tcprecv05 \/ tcprecv06
Next == Sender \/ Arrive \/ Receiver
Spec == Init /\ [][Next]_vars /\ WF_vars(Sender) /\ WF_vars(Arrive) /\ WF_vars(Receiver)
-----------------------------------------------------------------------------
Elems(s) == {s[k] : k \in 1..Len(s)}

\* The receivers lose no normal byte and show none twice or out of order,
\* whatever urgent bytes come between: what Read has passed over without
\* returning it is urgent.  An urgent byte is missing at the end, or shown
\* in the stream too, only if a newer pointer replaced it while it was pending.
StreamKept ==
    /\ \A j, k \in 1..Len(rcv.got) : j < k => rcv.got[j] < rcv.got[k]
    /\ (1..tcp.copied) \ Elems(rcv.got) \subseteq tcp.urgent
    /\ Elems(rcv.got) \cap Elems(rcv.oob) \subseteq tcp.old
    /\ rcv.pc = "eof" => tcp.urgent \subseteq Elems(rcv.got) \cup Elems(rcv.oob) \cup tcp.old
    /\ Inline => rcv.got = [k \in 1..tcp.copied |-> k]

\* A receiver that watches for the exceptional condition never asks twice for
\* one urgent byte, and asks too early only when a newer pointer comes after
\* its select.  The SIGURG handlers may do both: the signal announces a byte
\* that a full window holds back, and two signals may announce one byte.
RecvOobReady ==
    /\ At("EINVAL") => prog[2] \in {"tcprecv01", "tcprecv05"}
    /\ At("EWOULDBLOCK") => prog[2] \in {"tcprecv01", "tcprecv05"} \/ tcp.old # {}

\* Every transfer ends: the receiver sees end of file, or fails on an urgent
\* byte that has not arrived; tcprecv05 never reads and waits for ever.
Over == rcv.pc \in {"eof", "EINVAL", "EWOULDBLOCK"} \/ prog[2] = "tcprecv05"
TransferEnds == []<>Over
=============================================================================
