---------------------------- MODULE Httpc2Session ---------------------------
(***************************************************************************)
(* One HTTP/2 connection in use: httpc2_submit_request and                 *)
(* httpc2_core_run with the callbacks httpc gives nghttp2, the part of     *)
(* nghttp2 they drive (outbound queues, the active frame, streams, receive *)
(* windows), the two transports httpc_send and httpc_recv may go through,  *)
(* and a server that keeps to the protocol.                                *)
(*                                                                         *)
(* A frame is FrameLen units on the wire; a unit is <<frame, index>>.  A   *)
(* DATA frame of the server carries one unit of the window.                *)
(***************************************************************************)
EXTENDS Integers, Sequences, FiniteSets, Sums

CONSTANTS
  Streams,        \* stream ids, in the order nghttp2 gives them out: 1..n
  Attempts,       \* calls of httpc2_submit_request
  PostFrames,     \* the most DATA frames of a request body
  ReplyFrames,    \* the most DATA frames of a response
  FrameLen,       \* units of a frame
  MaxRecord,      \* the most units one TLS record takes
  SocketBuf,      \* units the socket holds until the server reads them
  Window,         \* initial window, of the connection and of each stream
  MaxConcurrent,  \* the limit the server's SETTINGS announce
  Transports      \* the values of httpc->enable_mbedtls to consider

ASSUME SessionAssumption ==
  /\ Streams = 1..Cardinality(Streams) /\ IsFiniteSet(Streams)
  /\ Attempts \in Nat /\ PostFrames \in Nat /\ ReplyFrames \in Nat
  /\ FrameLen \in Nat \ {0} /\ MaxRecord \in Nat \ {0} /\ SocketBuf \in Nat
  /\ Window \in Nat \ {0} /\ MaxConcurrent \in Nat \ {0}
  /\ Transports \subseteq BOOLEAN

Connection == 0
Windows == {Connection} \cup Streams

\* n is the increment of a WINDOW_UPDATE, and the number of a DATA frame of the
\* server on its stream; end is END_STREAM.
Frame(type, sid, n, end) == [type |-> type, sid |-> sid, n |-> n, end |-> end]
Plain(type) == Frame(type, Connection, 0, FALSE)
Magic == Plain("magic")
NoFrame == Plain("none")

VARIABLES
  tls,       \* httpc->enable_mbedtls
  pc,        \* "idle", or "send" or "recv" inside httpc2_core_run
  attempts,  \* calls of httpc2_submit_request made
  callback,  \* httpc2->write_callback: the call that set it, 0 for NULL
  own,       \* own[s] is the call that created stream s
  urgent,    \* session->ob_urgent
  reg,       \* session->ob_reg
  syn,       \* session->ob_syn: request HEADERS
  body,      \* DATA frames of each request body not yet packed
  attached,  \* streams whose DATA is scheduled
  cur,       \* session->aob.item, and how much of it is not sent yet
  left,
  record,    \* ssl->out_left: units of a TLS record not flushed
  limit,     \* remote_settings.max_concurrent_streams
  open,      \* session->streams
  shut,      \* shut[d]: streams with NGHTTP2_SHUT_RD, NGHTTP2_SHUT_WR
  flow,      \* received: recv_window_size, queued: window_update_queued
  calls,     \* <<stream, callback>> of every write_callback made
  read,      \* DATA frames received on each stream
  sending,   \* frames packed and not yet processed by the server
  torn,      \* has a frame been abandoned half sent?
  wire,      \* units on their way to the server
  down,      \* frames on their way to the client
  link,      \* "open" or "closed"
  server     \* the server, see Init

app == <<attempts, callback, own>>
queues == <<urgent, reg, syn, body, attached>>
active == <<cur, left, record, sending, torn>>
streams == <<limit, open, shut>>
input == <<flow, calls, read>>
net == <<wire, down, link, server>>
vars == <<tls, pc, app, queues, active, streams, input, net>>

InitialLimit == 100

Init ==
  /\ tls \in Transports /\ pc = "idle"
  /\ attempts = 0 /\ callback = 0 /\ own = <<>>
  /\ urgent = <<Plain("settings")>> /\ reg = <<>> /\ syn = <<>>
  /\ body = [s \in Streams |-> 0] /\ attached = {}
  /\ cur = Magic /\ left = FrameLen /\ record = <<>>
  /\ limit = InitialLimit /\ open = {} /\ shut = [rd |-> {}, wr |-> {}]
  /\ flow = [received |-> [w \in Windows |-> 0], queued |-> {}]
  /\ calls = {} /\ read = [s \in Streams |-> 0]
  /\ sending = <<Magic>> /\ torn = FALSE
  /\ wire = <<>> /\ down = <<>> /\ link = "open"
  /\ server = [phase    |-> "magic",    \* "magic", "settings", "frames", "agreed"
               hello    |-> FALSE,      \* has it sent its SETTINGS?
               asked    |-> {},         \* streams whose HEADERS it has read
               heard    |-> {},         \* ... whose END_STREAM it has read
               answered |-> {},         \* ... it has ended or refused
               refused  |-> {},
               sent     |-> [s \in Streams |-> 0],
               credit   |-> [w \in Windows |-> Window]]

-----------------------------------------------------------------------------
(* The application *)

\* httpc2_submit_request: the one write_callback of the connection is replaced
\* before nghttp2 is asked, and stays so when nghttp2 refuses.
SubmitWith(cb) ==
  /\ pc = "idle" /\ attempts < Attempts
  /\ attempts' = attempts + 1
  /\ callback' = cb
  /\ \/ UNCHANGED <<own, syn, body>>
     \/ \E s \in {Len(own) + 1} \cap Streams, frames \in 0..PostFrames :
          /\ own' = Append(own, attempts')
          /\ body' = [body EXCEPT ![s] = frames]
          /\ syn' = Append(syn, Frame("headers", s, 0, frames = 0))
  /\ UNCHANGED <<tls, pc, urgent, reg, attached, active, streams, input, net>>

\* Mutant of Submit: a callback that is set is kept.
SubmitKeepsCallback ==
  SubmitWith(IF callback = 0 THEN attempts + 1 ELSE callback)

Submit == SubmitWith(attempts + 1)

\* httpc2_core_run is called whatever its last result was.  Bound: the session
\* is followed to the first frame that is abandoned.
Run ==
  /\ pc = "idle" /\ ~torn
  /\ pc' = "send"
  /\ UNCHANGED <<tls, app, queues, active, streams, input, net>>

-----------------------------------------------------------------------------
(* Streams and windows *)

Number(set) == Cardinality(set)

\* A shut flag is set and the closed streams are dropped, with their DATA.
CloseStreams(shut2, items, closed) ==
  /\ shut' = shut2
  /\ open' = open \ closed
  /\ attached' = items \ closed

\* Mutant of Shutdown: the end of the response is taken for the end of both.
ShutdownOnRead(shut2, items) == CloseStreams(shut2, items, shut2.rd)

\* nghttp2_stream_shutdown and nghttp2_session_close_stream_if_shut_rdwr
Shutdown(shut2, items) == CloseStreams(shut2, items, shut2.rd \cap shut2.wr)

\* nghttp2_should_send_window_update
Due(n) == n > 0 /\ n >= Window \div 2

\* nghttp2_session_update_recv_connection_window_size and its twin for streams:
\* delta more received, and a WINDOW_UPDATE when one is due and none queued.
\* Mutant of Received: the count is not reset.
ReceivedKeepsCount(f, w, delta) ==
  LET n == f.received[w] + delta IN
  IF w \notin f.queued /\ Due(n)
  THEN [received |-> [f.received EXCEPT ![w] = n],
        queued   |-> f.queued \cup {w},
        reg      |-> Append(f.reg, Frame("window", w, n, FALSE))]
  ELSE [f EXCEPT !.received[w] = n]

\* Mutant of Received: a WINDOW_UPDATE that is due is never queued.
ReceivedNeverUpdates(f, w, delta) ==
  [f EXCEPT !.received[w] = @ + delta]

Received(f, w, delta) ==
  LET n == f.received[w] + delta IN
  IF w \notin f.queued /\ Due(n)
  THEN [received |-> [f.received EXCEPT ![w] = 0],
        queued   |-> f.queued \cup {w},
        reg      |-> Append(f.reg, Frame("window", w, n, FALSE))]
  ELSE [f EXCEPT !.received[w] = n]

Flow == [received |-> flow.received, queued |-> flow.queued, reg |-> reg]
SetFlow(f) ==
  /\ flow' = [received |-> f.received, queued |-> f.queued]
  /\ reg' = f.reg

-----------------------------------------------------------------------------
(* nghttp2_session_send *)

Pack(f) ==
  /\ cur' = f /\ left' = FrameLen
  /\ sending' = Append(sending, f)
  /\ UNCHANGED <<tls, pc, app, record, torn, limit, shut, input, net>>

PackUrgent ==
  /\ urgent # <<>>
  /\ Pack(Head(urgent)) /\ urgent' = Tail(urgent)
  /\ UNCHANGED <<reg, syn, body, attached, open>>

\* A WINDOW_UPDATE of a stream that is gone is dropped.
PackReg ==
  /\ reg # <<>>
  /\ reg' = Tail(reg)
  /\ IF Head(reg).sid \in open \cup {Connection}
     THEN Pack(Head(reg))
     ELSE UNCHANGED <<tls, pc, app, active, limit, shut, input, net>>
  /\ UNCHANGED <<urgent, syn, body, attached, open>>

\* Request HEADERS open their stream, when the server's limit leaves room.
SynReady == syn # <<>> /\ Number(open) < limit

PackSyn ==
  /\ SynReady
  /\ Pack(Head(syn)) /\ syn' = Tail(syn)
  /\ open' = open \cup {Head(syn).sid}
  /\ UNCHANGED <<urgent, reg, body, attached>>

\* Which of the streams with DATA is next is left open.  The data is read from
\* the application when the frame is packed.
PackData ==
  \E s \in attached :
    /\ Pack(Frame("data", s, 0, body[s] = 1))
    /\ body' = [body EXCEPT ![s] = @ - 1]
    /\ UNCHANGED <<urgent, reg, syn, attached, open>>

Popping == pc = "send" /\ cur = NoFrame

\* Mutant of PopItem: requests go before SETTINGS.
PopSynFirst ==
  /\ Popping
  /\ \/ PackSyn
     \/ ~SynReady /\ PackUrgent
     \/ ~SynReady /\ urgent = <<>> /\ PackReg
     \/ ~SynReady /\ urgent = <<>> /\ reg = <<>> /\ PackData

\* nghttp2_session_pop_next_ob_item and session_prep_frame
PopItem ==
  /\ Popping
  /\ \/ PackUrgent
     \/ urgent = <<>> /\ PackReg
     \/ urgent = <<>> /\ reg = <<>> /\ PackSyn
     \/ urgent = <<>> /\ reg = <<>> /\ ~SynReady /\ PackData

NothingToSend ==
  /\ Popping
  /\ urgent = <<>> /\ reg = <<>> /\ ~SynReady /\ attached = {}
  /\ pc' = "recv"
  /\ UNCHANGED <<tls, app, queues, active, streams, input, net>>

\* The next n units of the active frame.
Units(n) == [i \in 1..n |-> <<cur, FrameLen - left + i>>]

Sending == pc = "send" /\ cur # NoFrame /\ left > 0
SendSame == UNCHANGED <<tls, app, queues, cur, sending, streams, input, down, link, server>>

\* The socket takes what fits, and nothing when it is full.
Space == SocketBuf - Len(wire)
Least(m, n) == IF m < n THEN m ELSE n

SendPlain ==
  LET n == Least(left, Space) IN
  /\ Sending /\ ~tls /\ link = "open" /\ Space > 0
  /\ wire' = wire \o Units(n)
  /\ left' = left - n
  /\ SendSame /\ UNCHANGED <<pc, record, torn>>

\* NGHTTP2_ERR_CALLBACK_FAILURE: httpc2_core_run returns HTTPC_ERR_FAIL, and as
\* nghttp2 does not rewind its offset the rest of the frame counts as sent.
SendFails ==
  /\ Sending
  /\ link = "closed" \/ (~tls /\ Space = 0)
  /\ left' = 0 /\ torn' = TRUE
  /\ pc' = "idle"
  /\ SendSame /\ UNCHANGED <<record, wire>>

\* mbedtls_ssl_write of what is left: it takes at most one record, and nothing
\* new while an earlier record waits to be flushed.
Taken == Least(left, MaxRecord)
ThisRecord == IF record = <<>> THEN Units(Taken) ELSE record

SendTls ==
  /\ Sending /\ tls /\ link = "open" /\ Space >= Taken
  /\ wire' = wire \o ThisRecord
  /\ record' = <<>>
  /\ left' = left - Taken
  /\ SendSame /\ UNCHANGED <<pc, torn>>

\* The socket does not take the record.
RecordStays(unsent, next) ==
  /\ Sending /\ tls /\ link = "open" /\ Space < Taken
  /\ record' = ThisRecord
  /\ left' = unsent
  /\ pc' = next
  /\ SendSame /\ UNCHANGED <<torn, wire>>

\* Mutant of SendWouldBlock: MBEDTLS_ERR_SSL_WANT_WRITE is an error like others.
SendWantWriteFails == RecordStays(0, "idle")

\* MBEDTLS_ERR_SSL_WANT_WRITE becomes NGHTTP2_ERR_WOULDBLOCK: the frame stays
\* active, nghttp2_session_send returns 0 and nghttp2_session_recv is next.
SendWouldBlock == RecordStays(left, "recv")

\* session_after_frame_sent1 and session_after_frame_sent2
AfterFrameSent ==
  LET s == cur.sid
      end == [shut EXCEPT !.wr = @ \cup {s}]
      again == [Flow EXCEPT !.queued = @ \ {s}]
  IN
  /\ pc = "send" /\ cur # NoFrame /\ left = 0
  /\ cur' = NoFrame
  /\ CASE cur.type \in {"headers", "data"} /\ cur.end ->
            Shutdown(end, attached \ {s}) /\ UNCHANGED <<flow, reg>>
       [] cur.type = "headers" /\ ~cur.end ->
            /\ attached' = attached \cup ({s} \cap open)
            /\ UNCHANGED <<flow, reg, open, shut>>
       [] cur.type = "window" ->
            /\ SetFlow(IF s \in {Connection} \cup (open \ shut.rd)
                       THEN Received(again, s, 0) ELSE again)
            /\ UNCHANGED <<attached, open, shut>>
       [] OTHER -> UNCHANGED <<flow, reg, attached, open, shut>>
  /\ UNCHANGED <<tls, pc, app, urgent, syn, body, left, record, sending, torn,
                 limit, calls, read, net>>

SessionSend ==
  \/ PopItem \/ NothingToSend \/ AfterFrameSent
  \/ SendPlain \/ SendTls \/ SendWouldBlock \/ SendFails

-----------------------------------------------------------------------------
(* nghttp2_session_recv *)

\* on_data_chunk_recv_callback, after the windows have been updated: the
\* stream's, but for its last frame, and the connection's.
OnData(f) ==
  LET conn == Received(Flow, Connection, 1)
      both == IF f.end THEN [conn EXCEPT !.received[f.sid] = @ + 1]
                       ELSE Received(conn, f.sid, 1)
  IN  /\ SetFlow(both)
      /\ read' = [read EXCEPT ![f.sid] = @ + 1]
      /\ calls' = calls \cup {c \in {<<f.sid, callback>>} : callback # 0}
      /\ Shutdown([shut EXCEPT !.rd = @ \cup {s \in {f.sid} : f.end}], attached)
      /\ UNCHANGED <<urgent, limit>>

\* nghttp2_session_on_settings_received
OnSettings ==
  /\ limit' = MaxConcurrent
  /\ urgent' = Append(urgent, Plain("ack"))
  /\ UNCHANGED <<reg, attached, open, shut, flow, calls, read>>

\* A response without a body, and RST_STREAM
OnHeaders(f) ==
  /\ Shutdown([shut EXCEPT !.rd = @ \cup {f.sid}], attached)
  /\ UNCHANGED <<urgent, reg, limit, flow, calls, read>>

OnReset(f) ==
  /\ open' = open \ {f.sid} /\ attached' = attached \ {f.sid}
  /\ UNCHANGED <<urgent, reg, limit, shut, flow, calls, read>>

RecvFrame ==
  LET f == Head(down) IN
  /\ pc = "recv" /\ down # <<>>
  /\ down' = Tail(down)
  /\ CASE f.type = "settings" -> OnSettings
       [] f.type = "data"     -> OnData(f)
       [] f.type = "headers"  -> OnHeaders(f)
       [] f.type = "reset"    -> OnReset(f)
  /\ UNCHANGED <<tls, pc, app, syn, body, active, wire, link, server>>

\* Mutant of RecvFails: no data is not an error but a reason to try again.
RecvRetries ==
  /\ pc = "recv" /\ down = <<>>
  /\ link = "closed" \/ ~tls
  /\ pc' = IF link = "closed" THEN "idle" ELSE "recv"
  /\ UNCHANGED <<tls, app, queues, active, streams, input, net>>

\* The end of the stream, and EAGAIN of the non-blocking socket: both make
\* httpc2_core_run return HTTPC_ERR_FAIL.  Under TLS there is no EAGAIN:
\* mbedtls_net_recv_timeout waits in select.
RecvFails ==
  /\ pc = "recv" /\ down = <<>>
  /\ link = "closed" \/ ~tls
  /\ pc' = "idle"
  /\ UNCHANGED <<tls, app, queues, active, streams, input, net>>

\* A signal interrupts select: MBEDTLS_ERR_SSL_WANT_READ, and HTTPC_ERR_OK.
Interrupted ==
  /\ pc = "recv" /\ tls
  /\ pc' = "idle"
  /\ UNCHANGED <<tls, app, queues, active, streams, input, net>>

Client == SessionSend \/ RecvFrame \/ RecvFails

-----------------------------------------------------------------------------
(* The server and the network *)

ServerSame == UNCHANGED <<tls, pc, app, queues, active, streams, input>>

Hello ==
  /\ link = "open" /\ ~server.hello
  /\ server' = [server EXCEPT !.hello = TRUE]
  /\ down' = Append(down, Plain("settings"))
  /\ ServerSame /\ UNCHANGED <<wire, link>>

Busy == (server.asked \ (server.heard \cap server.answered)) \ server.refused

\* One frame, all of it and in order, at the head of the wire.
WholeFrame ==
  /\ Len(wire) >= FrameLen
  /\ \A i \in 1..FrameLen : wire[i] = <<wire[1][1], i>>

ServerTakes(next, answer) ==
  /\ link = "open" /\ WholeFrame
  /\ wire' = SubSeq(wire, FrameLen + 1, Len(wire))
  /\ sending' = Tail(sending)
  /\ server' = next
  /\ down' = down \o answer
  /\ UNCHANGED <<tls, pc, app, queues, cur, left, record, torn, streams, input, link>>

Heard(f) == server.heard \cup {s \in {f.sid} : f.end}

\* The preface: nothing else is taken until it is complete.
Greets(f) ==
  /\ f.type = server.phase
  /\ ServerTakes([server EXCEPT !.phase = IF @ = "magic" THEN "settings" ELSE "frames"],
                 <<>>)

\* Acknowledgements, window updates and requests.  A request beyond the limit
\* that the server has announced is refused with RST_STREAM.
Handles(f) ==
  LET s == f.sid
      over == server.hello /\ Number(Busy) >= MaxConcurrent
  IN
  \/ f.type = "ack"     /\ ServerTakes([server EXCEPT !.phase = "agreed"], <<>>)
  \/ f.type = "window"  /\ ServerTakes([server EXCEPT !.credit[s] = @ + f.n], <<>>)
  \/ f.type = "data"    /\ ServerTakes([server EXCEPT !.heard = Heard(f)], <<>>)
  \/ f.type = "headers" /\ ~over
       /\ ServerTakes([server EXCEPT !.asked = @ \cup {s}, !.heard = Heard(f)], <<>>)
  \/ f.type = "headers" /\ over
       /\ ServerTakes([server EXCEPT !.asked = @ \cup {s}, !.heard = Heard(f),
                                     !.answered = @ \cup {s}, !.refused = @ \cup {s}],
                      <<Frame("reset", s, 0, TRUE)>>)

ServerReads ==
  /\ wire # <<>>
  /\ \/ Greets(wire[1][1])
     \/ server.phase \in {"frames", "agreed"} /\ Handles(wire[1][1])

Replies(s, f, next) ==
  /\ link = "open" /\ server.hello /\ s \in server.asked \ server.answered
  /\ down' = Append(down, f)
  /\ server' = [next EXCEPT !.answered = @ \cup {t \in {s} : f.end}]
  /\ ServerSame /\ UNCHANGED <<wire, link>>

\* The credit when a DATA frame of stream s has been sent.
Spent(s) == [w \in Windows |-> server.credit[w] - (IF w \in {Connection, s} THEN 1 ELSE 0)]

\* The server may answer before it has read the request's body.
Reply(s) ==
  \/ /\ server.sent[s] = 0
     /\ Replies(s, Frame("headers", s, 0, TRUE), server)
  \/ \E end \in BOOLEAN :
       /\ server.sent[s] < ReplyFrames
       /\ \A w \in {Connection, s} : server.credit[w] > 0
       /\ server.sent[s] + 1 >= ReplyFrames => end
       /\ Replies(s, Frame("data", s, server.sent[s] + 1, end),
                  [server EXCEPT !.sent[s] = @ + 1, !.credit = Spent(s)])

\* The connection ends; what was not yet delivered may be lost.
Close ==
  /\ link = "open" /\ link' = "closed"
  /\ \E n \in {0, Len(down)} : down' = SubSeq(down, 1, n)
  /\ ServerSame /\ UNCHANGED <<wire, server>>

Server == Hello \/ ServerReads \/ \E s \in Streams : Reply(s)

Next == Submit \/ Run \/ Client \/ Interrupted \/ Server \/ Close

Spec == Init /\ [][Next]_vars

\* The application calls httpc2_core_run again and again, as httpc.h asks, and
\* the server reads what it is sent and answers.
FairSpec ==
  /\ Spec
  /\ WF_vars(Run) /\ WF_vars(Client)
  /\ WF_vars(Hello) /\ WF_vars(ServerReads)
  /\ \A s \in Streams : WF_vars(Reply(s))

-----------------------------------------------------------------------------
(* Properties *)

Frames == [type : {"magic", "settings", "ack", "headers", "data", "window", "reset"},
           sid : Windows, n : Nat, end : BOOLEAN]

TypeOK ==
  /\ tls \in Transports /\ pc \in {"idle", "send", "recv"}
  /\ attempts \in 0..Attempts /\ callback \in 0..attempts
  /\ own \in Seq(1..Attempts) /\ Len(own) <= Cardinality(Streams)
  /\ urgent \in Seq(Frames) /\ reg \in Seq(Frames) /\ syn \in Seq(Frames)
  /\ body \in [Streams -> 0..PostFrames] /\ attached \subseteq open
  /\ cur \in Frames \cup {NoFrame} /\ left \in 0..FrameLen
  /\ record \in Seq(Frames \X (1..FrameLen))
  /\ limit \in Nat /\ open \subseteq Streams
  /\ shut \in [rd : SUBSET Streams, wr : SUBSET Streams]
  /\ flow \in [received : [Windows -> 0..Window], queued : SUBSET Windows]
  /\ calls \subseteq Streams \X (1..Attempts) /\ read \in [Streams -> 0..ReplyFrames]
  /\ sending \in Seq(Frames) /\ torn \in BOOLEAN
  /\ wire \in Seq(Frames \X (1..FrameLen)) /\ down \in Seq(Frames)
  /\ link \in {"open", "closed"}
  /\ server.credit \in [Windows -> 0..Window]

\* The server finds the units of the frames in the order in which nghttp2 packed
\* them, and until a frame is abandoned every unit once, however the transport
\* took them and whatever was left in a TLS record (httpc2_send_callback).
Before(k) == (k - 1) * FrameLen    \* units of the frames before the k-th
Ordered(units, frames) ==
  \A k \in DOMAIN frames, i \in 1..FrameLen :
    Before(k) + i <= Len(units) => units[Before(k) + i] = <<frames[k], i>>
WireInOrder ==
  /\ Ordered(wire, sending)
  /\ Len(wire) <= Before(Len(sending) + 1) - left
  /\ ~torn => Len(wire) = Before(Len(sending) + 1) - left

\* The client preface comes first: the magic, then SETTINGS, however many
\* requests were submitted before the first httpc2_core_run.
PrefaceFirst ==
  server.phase \in {"magic", "settings"} /\ sending # <<>> =>
    Head(sending).type = server.phase

\* Data never goes to the callback of an earlier request than its own
\* (httpc2_on_data_chunk_recv_callback): either nobody submitted since, or the
\* callback is that of the last httpc2_submit_request, which may have failed.
OwnOrLaterCallback == \A c \in calls : c[2] >= own[c[1]]

\* A stream that was opened and is gone without having been refused was
\* answered to its end, all of it was read, and its request body was sent.
Opened == 1..(Len(own) - Len(syn))
ClosedMeansWhole ==
  \A s \in Opened \ (open \cup server.refused) :
    /\ s \in server.answered /\ read[s] = server.sent[s]
    /\ body[s] = 0 /\ s \in shut.wr

\* Once the server has seen the client acknowledge its SETTINGS, no request is
\* over the limit: the two sides count streams alike although each learns of
\* their end at another time.
RefusedOnlyBeforeAck ==
  [][server.phase = "agreed" => server'.refused = server.refused]_vars

\* No unit of a window is made, and while the connection and the stream are open
\* none is lost: what the server may still send, what is under way, what was
\* received and not yet given back, and what is being given back add up to the
\* initial window.
Datum(f, w) == IF f.type = "data" /\ w \in {Connection, f.sid} THEN 1 ELSE 0
Update(f, w) == IF f.type = "window" /\ f.sid = w THEN f.n ELSE 0
DataIn(frames, w) == Total([i \in DOMAIN frames |-> Datum(frames[i], w)])
UpdatesIn(frames, w) == Total([i \in DOMAIN frames |-> Update(frames[i], w)])
Balance(w) == server.credit[w] + DataIn(down, w)
              + flow.received[w] + UpdatesIn(reg, w) + UpdatesIn(sending, w)
WindowConserved ==
  /\ \A w \in Windows : Balance(w) <= Window
  /\ link = "open" => \A w \in {Connection} \cup open : Balance(w) = Window

\* On a non-blocking plain socket httpc2_core_run returns, whatever the server
\* does (httpc.h:187).
PlainRunReturns == ~tls /\ pc # "idle" ~> pc = "idle"

\* The same for every connection.
RunReturns == pc # "idle" ~> pc = "idle"

\* On a plain socket every request that was accepted is answered or refused,
\* also when the response is larger than the window, unless a frame was torn or
\* the connection ended.
PlainAnswered ==
  \A s \in Streams :
    ~tls /\ s \in DOMAIN own ~>
      s \in shut.rd \cup server.refused \/ torn \/ link = "closed"
=============================================================================
