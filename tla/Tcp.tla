-------------------------------- MODULE Tcp ---------------------------------
(***************************************************************************)
(* TCP: uip_tcpinput, uip_tcptimer, uip_tcppoll and the socket calls that  *)
(* they call back, at the two ends of one connection over a network that   *)
(* loses and repeats segments.                                             *)
(*                                                                         *)
(* An end is one record: the uip_conn, the socket, and the call that the   *)
(* program is waiting in.  Input and timer run with interrupts disabled,   *)
(* and a call registers its callback with interrupts disabled: each is one *)
(* step.  The callback ends the wait; the program runs again later.        *)
(* Times are left out: a timer may reach zero at any moment.               *)
(***************************************************************************)
EXTENDS Integers, Sequences, SequencesExt

CONSTANTS
  ISNs,             \* the values g_tcpsequence of each end may have
  SeqSpace,           \* 2^32 in the code
  UIP_TCP_MSS,
  UIP_MAXRTX,
  UIP_MAXSYNRTX,
  NREADAHEAD,       \* CONFIG_NET_NTCP_READAHEAD_BUFFERS
  READAHEAD_BUFSIZE,
  Programs,         \* the calls that the program of each end makes
  SendLengths,      \* how much each passes to send,
  RecvLengths,      \* and how much it asks recv for
  MaxBytes,         \* bound on the bytes that each end offers
  MaxInFlight,      \* bound on the segments on their way to an end
  MaxUnacked        \* unacked counts no further: see Outstanding

(* What uip_datahandler expects of the configuration, and uipopt.h sets if *)
(* it says nothing: a packet fits into one read-ahead buffer.  With less   *)
(* uip_dataevent may keep a part of a packet without acknowledging it, and *)
(* the part comes again.                                                   *)
ASSUME ReadAheadAssumption == READAHEAD_BUFSIZE >= UIP_TCP_MSS

Ends == {"client", "server"}
Peer == [e \in Ends |-> IF e = "client" THEN "server" ELSE "client"]

VARIABLES
  end,              \* the state of each end
  net,              \* the segments on their way to each end, in order
  offered,          \* history: bytes passed to send
  delivered,        \* history: bytes that recv returned
  lost              \* history: the program closed, or recv failed half way

vars == <<end, net, offered, delivered, lost>>

NoCall == [op |-> "none", waiting |-> FALSE]

(* A closed connection.  Nobody reads its numbers again, and the model     *)
(* forgets them.                                                           *)
Closed(h) ==
  [h EXCEPT !.tcpstate = "CLOSED", !.sndseq = 0, !.rcvseq = 0, !.unacked = 0, !.nrtx = 0]

Seqno(n) == n % SeqSpace

(* conn->unacked is an overestimate that grows with every retransmission.  *)
(* Only whether it is zero, and whether sndseq + unacked is beyond a byte  *)
(* sent, is ever asked: twice the largest buffer is as good as more.       *)
Outstanding(n) == IF n > MaxUnacked THEN MaxUnacked ELSE n

-----------------------------------------------------------------------------
(* Segments.  PSH, the window and the options are left out, and so are the *)
(* numbers of a reset, which no receiver looks at.                         *)

Reset == [flags |-> {"RST", "ACK"}, seqno |-> 0, ackno |-> 0, data |-> <<>>]

Segment(h, flags, data) ==
  IF "RST" \in flags THEN Reset
  ELSE [flags |-> flags, seqno |-> h.sndseq, ackno |-> h.rcvseq, data |-> data]

(* What a handler leaves: the end, and at most one segment in d_buf.       *)
Quiet(h)          == [h |-> h, out |-> <<>>]
Replies(h, flags) == [h |-> h, out |-> <<Segment(h, flags, <<>>)>>]
Resets(h, p)      == [h |-> h, out |-> IF "RST" \in p.flags THEN <<>> ELSE <<Reset>>]

-----------------------------------------------------------------------------
(* The read-ahead buffers of the connection.                               *)

Room(h) == IF h.readahead = <<>> THEN 0 ELSE READAHEAD_BUFSIZE - Len(Last(h.readahead))

(* The part of data that goes in a buffer with room for n bytes, and the   *)
(* rest.                                                                   *)
Fits(data, n) == SubSeq(data, 1, IF Len(data) < n THEN Len(data) ELSE n)
Rest(data, n) == SubSeq(data, n + 1, Len(data))

CanBuffer(h, data) == Room(h) > Len(data) \/ Len(h.readahead) < NREADAHEAD

(* uip_datahandler: the last buffer is filled up, and a new one is         *)
(* allocated unless all fits in it with room to spare.                     *)
uip_datahandler(h, data) ==
  LET topped == IF h.readahead = <<>> THEN <<>>
                ELSE Front(h.readahead) \o << Last(h.readahead) \o Fits(data, Room(h)) >>
      fresh  == IF Room(h) > Len(data) THEN <<>>
                ELSE << Fits(Rest(data, Room(h)), READAHEAD_BUFSIZE) >>
  IN  IF CanBuffer(h, data) THEN [h EXCEPT !.readahead = topped \o fresh] ELSE h

(* Variant: data that there is no room for is acknowledged too.            *)
uip_dataevent_AlwaysAcks(r) ==
  [r EXCEPT !.h = uip_datahandler(r.h, r.data), !.data = <<>>,
            !.flags = (@ \ {"NEWDATA"}) \cup {"SNDACK"}]

(* uip_dataevent: the data is acknowledged only if all of it is kept.      *)
uip_dataevent(r) ==
  LET kept  == CanBuffer(r.h, r.data)
                /\ Len(r.data) <= Room(r.h) + READAHEAD_BUFSIZE
      flags == r.flags \ {"NEWDATA"}
  IN  CASE r.data = <<>> -> [r EXCEPT !.flags = flags \cup {"SNDACK"}]
        [] OTHER -> [r EXCEPT !.h = uip_datahandler(r.h, r.data), !.data = <<>>,
                              !.flags = flags \cup (IF kept THEN {"SNDACK"} ELSE {})]

(* recvfrom_readahead: up to n bytes, from the first buffers on.           *)
RECURSIVE recvfrom_readahead(_, _)
recvfrom_readahead(bufs, n) ==
  IF bufs = <<>> \/ n = 0 THEN [got |-> <<>>, bufs |-> bufs]
  ELSE LET b == Head(bufs)
           r == recvfrom_readahead(Tail(bufs), n - Len(b))
       IN  IF Len(b) > n
           THEN [got |-> Fits(b, n), bufs |-> <<Rest(b, n)>> \o Tail(bufs)]
           ELSE [got |-> b \o r.got, bufs |-> r.bufs]

-----------------------------------------------------------------------------
(* The callbacks.  An event r carries the end, the flags, the incoming     *)
(* data and the data to send; elapsed tells whether recv's timeout is over *)
(* should the callback look.                                               *)

LostConnection == {"CLOSE", "ABORT", "TIMEDOUT"}

Wakes(r, call) == [r EXCEPT !.h.call = [call EXCEPT !.waiting = FALSE]]

(* The next segment of the buffer, unless there is data to be taken first. *)
SendsMore(r, c) ==
  LET left == c.buflen - c.sent
      n    == IF left < UIP_TCP_MSS THEN left ELSE UIP_TCP_MSS
  IN  IF "NEWDATA" \in r.flags \/ left <= 0 THEN [r EXCEPT !.h.call = c]
      ELSE [r EXCEPT !.h.call   = [c EXCEPT !.sent = @ + n],
                     !.h.sndseq = Seqno(c.isn + c.sent),
                     !.snd      = [i \in 1..n |-> c.base + c.sent + i]]

(* send_interrupt.  snd_isn is the sequence number of the first byte of    *)
(* the buffer.  A retransmission goes back to the last byte acknowledged.  *)
send_interrupt(r, ackno) ==
  LET ack   == "ACKDATA" \in r.flags
      rexm  == ~ack /\ "REXMIT" \in r.flags
      gone  == ~ack /\ ~rexm /\ r.flags \cap LostConnection # {}
      acked == IF ack THEN Seqno(ackno - r.h.call.isn) ELSE r.h.call.acked
      c     == [r.h.call EXCEPT !.acked  = acked,
                                !.sent   = IF rexm THEN acked ELSE @,
                                !.result = IF gone THEN "ENOTCONN" ELSE @]
  IN  IF gone \/ (ack /\ acked >= c.buflen)
      THEN [Wakes(r, c) EXCEPT !.h.unacked = 0]
      ELSE SendsMore(r, c)

(* recvfrom_tcpinterrupt: data goes to the caller's buffer and what does   *)
(* not fit to the read-ahead buffers; all of it is acknowledged.  A recv   *)
(* that has some data waits for more only for a short time.                *)
recvfrom_tcpinterrupt(r, elapsed) ==
  LET c     == r.h.call
      space == c.buflen - Len(c.buf)
      c1    == [c EXCEPT !.buf = @ \o Fits(r.data, space)]
      rest  == Rest(r.data, space)
      h1    == IF rest = <<>> THEN r.h ELSE uip_datahandler(r.h, rest)
  IN  IF "NEWDATA" \in r.flags
      THEN [r EXCEPT !.h     = [h1 EXCEPT !.call =
                                  [c1 EXCEPT !.waiting = Len(c1.buf) < c.buflen]],
                     !.data  = <<>>,
                     !.flags = (@ \ {"NEWDATA"}) \cup {"SNDACK"}]
      ELSE IF r.flags \cap LostConnection # {}
      THEN Wakes(r, [c EXCEPT !.result = IF "CLOSE" \in r.flags THEN "OK" ELSE "ENOTCONN"])
      ELSE IF elapsed /\ c.buf # <<>> THEN Wakes(r, c) ELSE r

(* tcp_connect_interrupt.  A failed connect stops the event monitor.       *)
tcp_connect_interrupt(r) ==
  IF r.flags \cap LostConnection # {}
  THEN [Wakes(r, [r.h.call EXCEPT !.result = "ENOTCONN"]) EXCEPT !.h.monitored = FALSE]
  ELSE IF "CONNECTED" \in r.flags THEN Wakes(r, r.h.call)
  ELSE [r EXCEPT !.data = <<>>, !.flags = @ \ {"NEWDATA"}]

(* netclose_interrupt: data is dropped and the answer asks for a FIN.      *)
netclose_interrupt(r) ==
  IF r.flags \cap {"CLOSE", "ABORT"} # {} THEN Wakes(r, r.h.call)
  ELSE [r EXCEPT !.data = <<>>, !.flags = (@ \ {"NEWDATA"}) \cup {"CLOSE"}]

(* The events for which each call registers its callback.                  *)
CallbackEvents ==
  [send    |-> {"ACKDATA", "REXMIT", "POLL"} \cup LostConnection,
   recv    |-> {"NEWDATA", "POLL"} \cup LostConnection,
   connect |-> {"NEWDATA", "CONNECTED"} \cup LostConnection,
   close   |-> {"NEWDATA", "POLL", "CLOSE", "ABORT"}]

uip_callbackexecute(r, ackno, elapsed) ==
  LET op == r.h.call.op
  IN  IF ~r.h.call.waiting \/ op = "accept" \/ r.flags \cap CallbackEvents[op] = {} THEN r
      ELSE CASE op = "send"    -> send_interrupt(r, ackno)
             [] op = "recv"    -> recvfrom_tcpinterrupt(r, elapsed)
             [] op = "connect" -> tcp_connect_interrupt(r)
             [] op = "close"   -> netclose_interrupt(r)

(* connection_event, the monitor, keeps the flags of the socket.           *)
connection_event(h, flags) ==
  IF ~h.monitored \/ flags \cap (LostConnection \cup {"CONNECTED"}) = {} THEN h
  ELSE [h EXCEPT !.connected = flags \cap LostConnection = {},
                 !.closed    = "CLOSE" \in flags]

(* uip_tcpcallback: the call's callback, the read-ahead buffers for data   *)
(* that it did not take, and the monitor.                                  *)
uip_tcpcallback(h, flags, data, ackno, elapsed) ==
  LET r1 == uip_callbackexecute([h |-> h, flags |-> flags, data |-> data, snd |-> <<>>],
                                ackno, elapsed)
      r2 == IF "NEWDATA" \in r1.flags THEN uip_dataevent(r1) ELSE r1
  IN  [r2 EXCEPT !.h = connection_event(r2.h, flags)]

-----------------------------------------------------------------------------
(* The answer of the application.                                          *)

uip_tcprexmit(r) ==
  IF r.snd # <<>> /\ r.h.unacked > 0
  THEN [h |-> r.h, out |-> <<Segment(r.h, {"ACK"}, r.snd)>>]
  ELSE IF "SNDACK" \in r.flags THEN Replies(r.h, {"ACK"}) ELSE Quiet(r.h)

uip_tcpappsend(r) ==
  IF "ABORT" \in r.flags
  THEN Replies(Closed(r.h), {"RST", "ACK"})
  ELSE IF "CLOSE" \in r.flags
  THEN Replies([r.h EXCEPT !.tcpstate = "FIN_WAIT_1", !.unacked = 1, !.nrtx = 0], {"FIN", "ACK"})
  ELSE uip_tcprexmit([r EXCEPT !.h.unacked = Outstanding(@ + Len(r.snd)), !.h.nrtx = 0])

-----------------------------------------------------------------------------
(* uip_tcpinput, for a segment p.                                          *)

Active(h) == h.tcpstate \notin {"CLOSED", "ALLOCATED"}

(* A SYN for a listener: uip_tcpaccept, if a program waits in accept.  The *)
(* connection is established at once; SYN_RCVD is left within the handler. *)
AcceptsSyn(h, p) ==
  LET c == [h EXCEPT !.tcpstate = "ESTABLISHED", !.sndseq = h.g_tcpsequence,
                     !.unacked = 1, !.nrtx = 0, !.rcvseq = Seqno(p.seqno + 1),
                     !.readahead = <<>>, !.call.waiting = FALSE]
  IN  IF h.call.op = "accept" /\ h.call.waiting
      THEN Replies(c, {"SYN", "ACK"})
      ELSE Quiet(h)

(* A segment for which there is no connection.                             *)
NotFound(h, p) ==
  IF p.flags = {"SYN"} /\ h.listening THEN AcceptsSyn(h, p) ELSE Resets(h, p)

(* Variant: only the control flags are checked.                            *)
OutOfSequence_Control(h, p) ==
  /\ ~(h.tcpstate = "SYN_SENT" /\ p.flags = {"SYN", "ACK"})
  /\ p.flags \cap {"SYN", "FIN"} # {}
  /\ p.seqno # h.rcvseq

(* Data, SYN or FIN that is not the next expected.                         *)
OutOfSequence(h, p) ==
  /\ ~(h.tcpstate = "SYN_SENT" /\ p.flags = {"SYN", "ACK"})
  /\ p.data # <<>> \/ p.flags \cap {"SYN", "FIN"} # {}
  /\ p.seqno # h.rcvseq

(* Any ACK while something is outstanding counts, however little it        *)
(* acknowledges.                                                           *)
AckData(h, p) == "ACK" \in p.flags /\ h.unacked > 0

(* Variant: any ACK acknowledges all that is outstanding.                  *)
Acknowledge_All(h, p) ==
  IF AckData(h, p) THEN [h EXCEPT !.unacked = 0, !.sndseq = p.ackno] ELSE h

Acknowledge(h, p) ==
  LET unackseq == Seqno(h.sndseq + h.unacked)
  IN  IF AckData(h, p)
      THEN [h EXCEPT !.unacked = IF p.ackno <= unackseq THEN Outstanding(unackseq - p.ackno) ELSE 0,
                     !.sndseq  = p.ackno]
      ELSE h

(* In SYN_SENT only a SYNACK that acknowledges the SYN will do.            *)
SynSent(h, p, ack) ==
  IF ack /\ p.flags = {"SYN", "ACK"}
  THEN LET c == [h EXCEPT !.tcpstate = "ESTABLISHED", !.rcvseq = Seqno(p.seqno + 1), !.unacked = 0]
       IN  uip_tcpappsend(uip_tcpcallback(c, {"CONNECTED", "NEWDATA"}, <<>>, p.ackno, FALSE))
  ELSE LET c == uip_tcpcallback(h, {"ABORT"}, <<>>, p.ackno, FALSE).h
       IN  Resets(Closed(c), p)

(* A FIN waits until nothing is outstanding.  Data goes to the callbacks,  *)
(* and rcvseq moves on if they keep it.                                    *)
Established(h, p, ack, elapsed) ==
  LET acked == IF ack THEN {"ACKDATA"} ELSE {}
      new   == IF p.data # <<>> THEN {"NEWDATA"} ELSE {}
      fin   == uip_tcpcallback([h EXCEPT !.rcvseq = Seqno(@ + Len(p.data) + 1)],
                               acked \cup {"CLOSE"} \cup new, p.data, p.ackno, elapsed).h
      r     == uip_tcpcallback(h, acked \cup new, p.data, p.ackno, elapsed)
  IN  IF "FIN" \in p.flags
      THEN IF h.unacked > 0 THEN Quiet(h)
           ELSE Replies([fin EXCEPT !.tcpstate = "LAST_ACK", !.unacked = 1, !.nrtx = 0],
                        {"FIN", "ACK"})
      ELSE IF acked \cup new = {} THEN Quiet(h)
      ELSE uip_tcpappsend(
             [r EXCEPT !.h.rcvseq = IF "SNDACK" \in r.flags THEN Seqno(@ + Len(p.data)) ELSE @])

LastAck(h, p, ack) ==
  IF ack THEN Quiet(uip_tcpcallback(Closed(h), {"CLOSE"}, <<>>, p.ackno, FALSE).h)
  ELSE Quiet(h)

(* After our FIN, data is acknowledged and dropped.  CLOSING is for a FIN  *)
(* that comes with no ACK while ours is outstanding; no end sends one.     *)
FinWait(h, p, ack) ==
  LET h1   == [h EXCEPT !.rcvseq = Seqno(@ + Len(p.data))]
      fin  == [h1 EXCEPT !.tcpstate = "TIME_WAIT", !.rcvseq = Seqno(@ + 1),
                         !.unacked = IF h.tcpstate = "FIN_WAIT_1" THEN 0 ELSE @]
  IN  IF "FIN" \in p.flags
      THEN Replies(uip_tcpcallback(fin, {"CLOSE"}, <<>>, p.ackno, FALSE).h, {"ACK"})
      ELSE IF h.tcpstate = "FIN_WAIT_1" /\ ack
      THEN Quiet([h1 EXCEPT !.tcpstate = "FIN_WAIT_2", !.unacked = 0])
      ELSE IF p.data # <<>> THEN Replies(h1, {"ACK"}) ELSE Quiet(h1)

uip_tcpinput(h, p, elapsed) ==
  LET ack == AckData(h, p)
      h1  == Acknowledge(h, p)
  IN  IF ~Active(h) THEN NotFound(h, p)
      ELSE IF p.flags = {"SYN"} THEN Resets(h, p)
      ELSE IF "RST" \in p.flags
      THEN Quiet(uip_tcpcallback(Closed(h), {"ABORT"}, <<>>, p.ackno, elapsed).h)
      ELSE IF OutOfSequence(h, p) THEN Replies(h, {"ACK"})
      ELSE CASE h.tcpstate = "SYN_SENT"    -> SynSent(h1, p, ack)
             [] h.tcpstate = "ESTABLISHED" -> Established(h1, p, ack, elapsed)
             [] h.tcpstate = "LAST_ACK"    -> LastAck(h1, p, ack)
             [] h.tcpstate \in {"FIN_WAIT_1", "FIN_WAIT_2"} -> FinWait(h1, p, ack)
             [] h.tcpstate = "TIME_WAIT"   -> Replies(h1, {"ACK"})

-----------------------------------------------------------------------------
(* uip_tcptimer, when the time of the connection is over.                  *)

GivesUp(h) == h.nrtx = UIP_MAXRTX \/ (h.tcpstate = "SYN_SENT" /\ h.nrtx = UIP_MAXSYNRTX)

Retransmit(h, elapsed) ==
  LET h1 == [h EXCEPT !.nrtx = @ + 1]
  IN  CASE h.tcpstate = "SYN_SENT"    -> Replies(h1, {"SYN"})
        [] h.tcpstate = "ESTABLISHED" ->
             uip_tcprexmit(uip_tcpcallback(h1, {"REXMIT"}, <<>>, 0, elapsed))
        [] h.tcpstate \in {"FIN_WAIT_1", "LAST_ACK"} -> Replies(h1, {"FIN", "ACK"})

(* uip_tcppoll, also called whenever the driver can send.                  *)
uip_tcppoll(h, elapsed) == uip_tcpappsend(uip_tcpcallback(h, {"POLL"}, <<>>, 0, elapsed))

uip_tcptimer(h, elapsed) ==
  CASE h.tcpstate \in {"TIME_WAIT", "FIN_WAIT_2"} -> Quiet(Closed(h))
    [] h.tcpstate \notin {"TIME_WAIT", "FIN_WAIT_2"} /\ h.unacked > 0 /\ GivesUp(h) ->
         Replies(uip_tcpcallback(Closed(h), {"TIMEDOUT"}, <<>>, 0, elapsed).h,
                 {"RST", "ACK"})
    [] h.tcpstate \notin {"TIME_WAIT", "FIN_WAIT_2"} /\ h.unacked > 0 /\ ~GivesUp(h) ->
         Retransmit(h, elapsed)
    [] h.tcpstate = "ESTABLISHED" /\ h.unacked = 0 -> uip_tcppoll(h, elapsed)
    [] OTHER -> Quiet(h)

-----------------------------------------------------------------------------
(* The steps of the two stacks and of the network between them.            *)

NewEnd(e, isn) ==
  [tcpstate |-> IF e = "client" THEN "ALLOCATED" ELSE "CLOSED",
   g_tcpsequence |-> isn, sndseq |-> 0, rcvseq |-> 0, unacked |-> 0, nrtx |-> 0,
   readahead |-> <<>>, listening |-> e = "server",
   open |-> TRUE, monitored |-> FALSE, connected |-> FALSE, closed |-> FALSE,
   call |-> NoCall]

Init ==
  /\ \E isn \in [Ends -> UNION {ISNs[e] : e \in Ends}] :
       (\A e \in Ends : isn[e] \in ISNs[e]) /\ end = [e \in Ends |-> NewEnd(e, isn[e])]
  /\ net       = [e \in Ends |-> <<>>]
  /\ offered   = [e \in Ends |-> 0]
  /\ delivered = [e \in Ends |-> <<>>]
  /\ lost      = [e \in Ends |-> FALSE]

(* What end e transmits is queued for its peer, or lost if the queue is    *)
(* full.                                                                   *)
Queued(q, e, out) ==
  IF Len(q[Peer[e]]) + Len(out) > MaxInFlight[Peer[e]] THEN q ELSE [q EXCEPT ![Peer[e]] = @ \o out]

Handles(e, r, q) ==
  /\ end' = [end EXCEPT ![e] = r.h]
  /\ net' = Queued(q, e, r.out)
  /\ UNCHANGED <<offered, delivered, lost>>

(* Whether the timeout of recv is over: any moment will do, but only a     *)
(* recv that has some data looks.                                          *)
Elapsed(e) == IF end[e].call.op = "recv" /\ end[e].call.buf # <<>> THEN BOOLEAN ELSE {FALSE}

(* A segment arrives; it may arrive again.                                 *)
Receive(e) ==
  /\ net[e] # <<>>
  /\ \E elapsed \in Elapsed(e) :
       Handles(e, uip_tcpinput(end[e], Head(net[e]), elapsed), [net EXCEPT ![e] = Tail(@)])

ReceiveRepeated(e) ==
  /\ net[e] # <<>>
  /\ \E elapsed \in Elapsed(e) :
       Handles(e, uip_tcpinput(end[e], Head(net[e]), elapsed), net)

Lose(e) ==
  /\ net[e] # <<>>
  /\ net' = [net EXCEPT ![e] = Tail(@)]
  /\ UNCHANGED <<end, offered, delivered, lost>>

Timer(e) ==
  /\ Active(end[e])
  /\ \E elapsed \in Elapsed(e) : Handles(e, uip_tcptimer(end[e], elapsed), net)

Poll(e) ==
  /\ end[e].tcpstate = "ESTABLISHED"
  /\ \E elapsed \in Elapsed(e) : Handles(e, uip_tcppoll(end[e], elapsed), net)

-----------------------------------------------------------------------------
(* The calls of the programs.                                              *)

Makes(e, op) == op \in Programs[e] /\ end[e].open /\ end[e].call.op = "none"

Waits(op) == [op |-> op, waiting |-> TRUE, result |-> "OK"]

Calls(e, h) ==
  /\ end' = [end EXCEPT ![e] = h]
  /\ UNCHANGED net

(* uip_tcpconnect and tcp_setup_callbacks.  The timer sends the SYN.       *)
Connect(e) ==
  /\ Makes(e, "connect") /\ end[e].tcpstate = "ALLOCATED"
  /\ Calls(e, [end[e] EXCEPT !.tcpstate = "SYN_SENT", !.sndseq = end[e].g_tcpsequence,
                             !.unacked = 1, !.nrtx = 0, !.monitored = TRUE,
                             !.call = Waits("connect")])
  /\ UNCHANGED <<offered, delivered, lost>>

(* The program accepts one connection.                                     *)
Accept(e) ==
  /\ Makes(e, "accept") /\ ~end[e].monitored
  /\ Calls(e, [end[e] EXCEPT !.call = Waits("accept")])
  /\ UNCHANGED <<offered, delivered, lost>>

(* psock_send.  A program that makes "reply" calls sends nothing before it *)
(* has received something.                                                 *)
psock_send(e, n) ==
  /\ Makes(e, "send") \/ (Makes(e, "reply") /\ delivered[e] # <<>>)
  /\ end[e].connected
  /\ offered[e] + n <= MaxBytes[e]
  /\ Calls(e, [end[e] EXCEPT !.unacked = 0,
                             !.call = [op |-> "send", waiting |-> TRUE, result |-> "OK",
                                       isn |-> end[e].sndseq, base |-> offered[e],
                                       buflen |-> n, sent |-> 0, acked |-> 0]])
  /\ offered' = [offered EXCEPT ![e] = @ + n]
  /\ UNCHANGED <<delivered, lost>>

(* tcp_recvfrom: what is buffered first; a connected socket waits for the  *)
(* rest.                                                                   *)
tcp_recvfrom(e, n) ==
  LET r == recvfrom_readahead(end[e].readahead, n)
      h == [end[e] EXCEPT !.readahead = r.bufs]
  IN  /\ Makes(e, "recv")
      /\ \/ /\ end[e].connected /\ Len(r.got) < n
            /\ Calls(e, [h EXCEPT !.call = [op |-> "recv", waiting |-> TRUE, result |-> "OK",
                                            buf |-> r.got, buflen |-> n]])
            /\ UNCHANGED delivered
         \/ /\ ~end[e].connected \/ Len(r.got) = n
            /\ r.got # <<>>
            /\ Calls(e, h)
            /\ delivered' = [delivered EXCEPT ![e] = @ \o r.got]
      /\ UNCHANGED <<offered, lost>>

(* uip_tcpfree.                                                            *)
Freed(h) ==
  [Closed(h) EXCEPT !.readahead = <<>>, !.call = NoCall, !.open = FALSE,
                    !.connected = FALSE, !.closed = FALSE]

(* psock_close: netclose_disconnect waits if the connection is up.         *)
psock_close(e) ==
  /\ Makes(e, "close") /\ end[e].monitored
  /\ \/ /\ end[e].connected /\ end[e].tcpstate = "ESTABLISHED"
        /\ Calls(e, [end[e] EXCEPT !.call = Waits("close")])
        /\ UNCHANGED lost
     \/ /\ ~(end[e].connected /\ end[e].tcpstate = "ESTABLISHED")
        /\ Calls(e, Freed(end[e]))
        /\ lost' = [lost EXCEPT ![e] = TRUE]
  /\ UNCHANGED <<offered, delivered>>

-----------------------------------------------------------------------------
(* The program runs again when its wait is over.                           *)

Resumes(e, op) == end[e].call.op = op /\ ~end[e].call.waiting

(* tcp_connect marks the socket connected whatever happened since.         *)
ConnectReturns(e) ==
  LET ok == end[e].call.result = "OK"
  IN  /\ Resumes(e, "connect")
      /\ Calls(e, [end[e] EXCEPT !.call = NoCall, !.connected = ok \/ @, !.monitored = ok /\ @])
      /\ UNCHANGED <<offered, delivered, lost>>

AcceptReturns(e) ==
  /\ Resumes(e, "accept")
  /\ Calls(e, [end[e] EXCEPT !.call = NoCall, !.connected = TRUE, !.closed = FALSE,
                             !.monitored = TRUE])
  /\ UNCHANGED <<offered, delivered, lost>>

SendReturns(e) ==
  /\ Resumes(e, "send")
  /\ Calls(e, [end[e] EXCEPT !.call = NoCall])
  /\ UNCHANGED <<offered, delivered, lost>>

(* recvfrom_result: after an error the bytes received so far are not       *)
(* reported.                                                               *)
RecvReturns(e) ==
  LET c == end[e].call
  IN  /\ Resumes(e, "recv")
      /\ Calls(e, [end[e] EXCEPT !.call = NoCall])
      /\ \/ /\ c.result = "OK"
            /\ delivered' = [delivered EXCEPT ![e] = @ \o c.buf]
            /\ UNCHANGED lost
         \/ /\ c.result # "OK"
            /\ lost' = [lost EXCEPT ![e] = @ \/ c.buf # <<>>]
            /\ UNCHANGED delivered
      /\ UNCHANGED offered

CloseReturns(e) ==
  /\ Resumes(e, "close")
  /\ Calls(e, Freed(end[e]))
  /\ lost' = [lost EXCEPT ![e] = TRUE]
  /\ UNCHANGED <<offered, delivered>>

Returns(e) ==
  ConnectReturns(e) \/ AcceptReturns(e) \/ SendReturns(e) \/ RecvReturns(e) \/ CloseReturns(e)

Program(e) ==
  \/ Connect(e) \/ Accept(e) \/ psock_close(e)
  \/ \E n \in SendLengths[e] : psock_send(e, n)
  \/ \E n \in RecvLengths[e] : tcp_recvfrom(e, n)

Next ==
  \E e \in Ends :
    Receive(e) \/ ReceiveRepeated(e) \/ Lose(e) \/ Timer(e) \/ Poll(e) \/ Program(e) \/ Returns(e)

Spec == Init /\ [][Next]_vars

-----------------------------------------------------------------------------
(* Bytes that an end has taken over and not yet given to its program.      *)
Held(e) ==
  (IF end[e].call.op = "recv" THEN end[e].call.buf ELSE <<>>) \o FlattenSeq(end[e].readahead)

Stream == INSTANCE Streams WITH held <- [e \in Ends |-> Held(e)]

(* Segments are lost, repeated and sent again, buffers fill up, and calls  *)
(* end early; each program still gets the bytes of the other one's         *)
(* buffers, each once and in order.  This needs ReadAheadAssumption: a     *)
(* packet that was kept in part is sent again as a whole.                  *)
StreamsKept == Stream!Spec

(* snd_acked counts bytes that the peer has taken over, so that a send     *)
(* that succeeds has delivered its buffer, unless the peer has closed.     *)
AckedMeansTaken ==
  \A e \in Ends :
    LET p == Peer[e]
    IN  end[e].call.op = "send" /\ ~lost[p] /\ end[p].call.op # "close" =>
          /\ end[e].call.base + end[e].call.acked <= Len(delivered[p]) + Len(Held(p))
          /\ ~end[e].call.waiting /\ end[e].call.result = "OK" =>
               end[e].call.acked = end[e].call.buflen

(* A send that waits on a connection that is up has something to bring it  *)
(* on: bytes that the next poll sends, or a retransmission timer that is   *)
(* running.  This is about sequence numbers that do not wrap.              *)
NoWrap(e) == end[e].g_tcpsequence + 1 + MaxBytes[e] + MaxUnacked < SeqSpace

SendNotStuck ==
  \A e \in Ends :
    end[e].call.op = "send" /\ end[e].call.waiting /\ Active(end[e]) /\ NoWrap(e) =>
      end[e].call.sent < end[e].call.buflen \/ end[e].unacked > 0
=============================================================================
