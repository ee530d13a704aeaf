------------------------- MODULE Httpc2SessionProofs ------------------------
(***************************************************************************)
(* Proofs about Httpc2Session, for any number of streams, requests and     *)
(* frames, any window, and both transports.                                *)
(*                                                                         *)
(* Over a common typing, TypeInv and DownInv, two inductive invariants:    *)
(* CallbackInv says which callback DATA went to, PrefaceInv what the first *)
(* frames are.  Httpc2CloseProofs goes on from here.                       *)
(***************************************************************************)
EXTENDS Httpc2Session, FiniteSetTheorems, TLAPS

Servers == [phase : {"magic", "settings", "frames", "agreed"}, hello : BOOLEAN,
            asked : SUBSET Streams, heard : SUBSET Windows,
            answered : SUBSET Streams, refused : SUBSET Streams,
            sent : [Streams -> Nat], credit : [Windows -> Int]]

Flows == [received : [Windows -> Nat], queued : SUBSET Windows]

\* What the client sends: HEADERS are about a stream that was
\* submitted.
Sendable == {f \in Frames : /\ f.type = "headers" => f.sid \in DOMAIN own
                            /\ f.type = "data" => f.sid \in Streams}
Control == {f \in Frames : f.type \notin {"headers", "data"}}
Requests == {f \in Frames : f.type = "headers" /\ f.sid \in DOMAIN own}
Units2 == Sendable \X Int

TypeInv ==
  /\ attempts \in Nat /\ callback = attempts /\ own \in Seq(1..attempts)
  /\ Len(own) \in Nat /\ DOMAIN own \subseteq Streams
  /\ urgent \in Seq(Control) /\ reg \in Seq(Control) /\ syn \in Seq(Requests)
  /\ body \in [Streams -> Int] /\ attached \subseteq Streams
  /\ cur \in Sendable \cup {NoFrame} /\ left \in 0..FrameLen
  /\ record \in Seq(Units2) /\ wire \in Seq(Units2)
  /\ open \subseteq Streams /\ shut \in [rd : SUBSET Streams, wr : SUBSET Streams]
  /\ flow \in Flows /\ read \in [Streams -> Nat]
  /\ server \in Servers

\* What the server sends: answers to requests it was asked.
Receivable == {f \in Frames : /\ f.type \in {"settings", "data", "headers", "reset"}
                              /\ f.type # "settings" => f.sid \in Streams
                              /\ f.type = "data" => f.sid \in DOMAIN own}

DownInv == down \in Seq(Receivable) /\ server.asked \subseteq DOMAIN own

\* DATA was passed on to the callback of its own request or of a later one.
CallbackInv ==
  /\ calls \subseteq (DOMAIN own) \X (1..attempts)
  /\ \A c \in calls : c[2] >= own[c[1]]

\* The magic and the SETTINGS are at the head of what is packed, or next.
PrefaceInv ==
  /\ server.phase \in {"magic", "settings"} => sending \in Seq(Frames \cup {NoFrame})
  /\ server.phase = "magic" =>
       /\ Len(sending) >= 1 /\ sending[1].type = "magic"
       /\ Len(sending) >= 2 => sending[2].type = "settings"
       /\ Len(sending) = 1 => urgent # <<>> /\ urgent[1].type = "settings"
  /\ server.phase = "settings" =>
       /\ Len(sending) >= 1 => sending[1].type = "settings"
       /\ Len(sending) = 0 => urgent # <<>> /\ urgent[1].type = "settings"

-----------------------------------------------------------------------------
(* Types *)

\* Streams are numbered from 1; the connection is not one of them.
LEMMA StreamNumbers ==
  /\ Streams = 1..Cardinality(Streams) /\ Cardinality(Streams) \in Nat
  /\ Streams \subseteq Nat \ {0} /\ Connection \notin Streams
<1>1. Cardinality(Streams) \in Nat
  BY SessionAssumption, FS_CardinalityType
<1> QED BY <1>1, SessionAssumption DEF Connection

\* A frame made by Frame is one.
LEMMA FrameType ==
  ASSUME NEW type \in {"magic", "settings", "ack", "headers", "data", "window", "reset"},
         NEW sid \in Windows, NEW n \in Nat, NEW end \in BOOLEAN
  PROVE  /\ Frame(type, sid, n, end) \in Frames
         /\ Frame(type, sid, n, end).type = type /\ Frame(type, sid, n, end).sid = sid
         /\ Frame(type, sid, n, end).n = n /\ Frame(type, sid, n, end).end = end
BY DEF Frame, Frames

\* Facts about sequences over a set.
LEMMA SeqFacts ==
  ASSUME NEW S, NEW q \in Seq(S)
  PROVE  /\ \A e \in S : Append(q, e) \in Seq(S)
         /\ q # <<>> => Head(q) \in S /\ Tail(q) \in Seq(S)
         /\ \A i \in 1..Len(q) : q[i] \in S
OBVIOUS

FlowRegs == [received : [Windows -> Nat], queued : SUBSET Windows, reg : Seq(Control)]

\* Receiving and acknowledging keep the counts of the windows natural numbers.
LEMMA ReceivedType ==
  ASSUME NEW f \in FlowRegs, NEW w \in Windows, NEW delta \in Nat
  PROVE  Received(f, w, delta) \in FlowRegs
<1> DEFINE n == f.received[w] + delta
<1>1. n \in Nat /\ f.reg \in Seq(Control) /\ f.received \in [Windows -> Nat]
  BY DEF FlowRegs
<1>2. Frame("window", w, n, FALSE) \in Control
  BY <1>1, FrameType DEF Control
<1> HIDE DEF n
<1>3. Append(f.reg, Frame("window", w, n, FALSE)) \in Seq(Control)
  BY <1>1, <1>2, SeqFacts
<1>4. [f EXCEPT !.received[w] = n] \in FlowRegs
  BY <1>1 DEF FlowRegs
<1>5. [received |-> [f.received EXCEPT ![w] = 0], queued |-> f.queued \cup {w},
       reg |-> Append(f.reg, Frame("window", w, n, FALSE))] \in FlowRegs
  BY <1>1, <1>3 DEF FlowRegs
<1> QED BY <1>4, <1>5 DEF Received, n

\* A sequence over a set is one over a larger set.
LEMMA SeqMonotone ==
  ASSUME NEW S, NEW T, S \subseteq T
  PROVE  Seq(S) \subseteq Seq(T)
OBVIOUS

\* The order of a stream's steps with respect to this one is untouched when no
\* request is submitted.
LEMMA SendableSame ==
  ASSUME UNCHANGED own
  PROVE  /\ Sendable' = Sendable /\ Units2' = Units2 /\ Requests' = Requests
         /\ Receivable' = Receivable
BY DEF Sendable, Units2, Requests, Receivable

\* A control frame may be sent whatever was submitted.
LEMMA ControlSendable == Control \subseteq Sendable
BY DEF Control, Sendable

\* The units of the active frame that go on the wire.
LEMMA UnitsType ==
  ASSUME TypeInv, cur # NoFrame, NEW n \in Nat
  PROVE  Units(n) \in Seq(Units2) /\ Len(Units(n)) = n
<1>1. cur \in Sendable /\ left \in Int /\ FrameLen \in Int
  BY SessionAssumption DEF TypeInv
<1>2. \A i \in 1..n : <<cur, FrameLen - left + i>> \in Units2
  BY <1>1 DEF Units2
<1> QED BY <1>2 DEF Units

LEMMA SubmitType ==
  ASSUME TypeInv, Submit
  PROVE  TypeInv'
<1>1. attempts' = attempts + 1 /\ callback' = attempts + 1 /\ attempts' \in Nat
  BY DEF Submit, SubmitWith, TypeInv
<1>2. 1..attempts \subseteq 1..attempts' /\ attempts' \in 1..attempts'
  BY <1>1 DEF TypeInv
<1>3. own \in Seq(1..attempts')
  BY <1>2, SeqMonotone DEF TypeInv
<1>4. UNCHANGED <<urgent, reg, attached, cur, left, record, wire, open, shut, flow,
                  read, server>>
  BY DEF Submit, SubmitWith, active, streams, input, net
<1>5. CASE UNCHANGED <<own, syn, body>>
  BY <1>1, <1>3, <1>4, <1>5, SendableSame DEF TypeInv
<1>6. CASE \E s \in {Len(own) + 1} \cap Streams, frames \in 0..PostFrames :
             /\ own' = Append(own, attempts')
             /\ body' = [body EXCEPT ![s] = frames]
             /\ syn' = Append(syn, Frame("headers", s, 0, frames = 0))
  <2>1. PICK s \in {Len(own) + 1} \cap Streams, frames \in 0..PostFrames :
             /\ own' = Append(own, attempts')
             /\ body' = [body EXCEPT ![s] = frames]
             /\ syn' = Append(syn, Frame("headers", s, 0, frames = 0))
    BY <1>6
  <2>2. own' \in Seq(1..attempts')
    BY <1>2, <1>3, <2>1, SeqFacts
  <2>3. Len(own') = Len(own) + 1 /\ Len(own') \in Nat /\ DOMAIN own' = DOMAIN own \cup {s}
    BY <1>3, <2>1
  <2>4. /\ Sendable \subseteq Sendable' /\ Units2 \subseteq Units2'
        /\ Requests \subseteq Requests'
    BY <2>3 DEF Sendable, Units2, Requests
  <2>5. Frame("headers", s, 0, frames = 0) \in Requests'
    <3>1. s \in Windows /\ 0 \in Nat /\ (frames = 0) \in BOOLEAN
      BY DEF Windows
    <3>2. \A e \in BOOLEAN : Frame("headers", s, 0, e) \in Requests'
      BY <2>3, <3>1, FrameType DEF Requests
    <3> QED BY <3>1, <3>2, Zenon
  <2>6. syn' \in Seq(Requests')
    <3>1. syn \in Seq(Requests')
      BY <2>4, SeqMonotone DEF TypeInv
    <3> QED BY <2>1, <2>5, <3>1, SeqFacts
  <2>7. urgent' \in Seq(Control) /\ reg' \in Seq(Control)
    BY <1>4 DEF TypeInv
  <2>8. record' \in Seq(Units2') /\ wire' \in Seq(Units2')
    BY <1>4, <2>4, SeqMonotone DEF TypeInv
  <2>9. body' \in [Streams -> Int]
    BY <2>1, SessionAssumption DEF TypeInv
  <2>10. cur' \in Sendable' \cup {NoFrame}
    BY <1>4, <2>4 DEF TypeInv
  <2>11. DOMAIN own' \subseteq Streams
    BY <2>3 DEF TypeInv
  <2> QED BY <1>1, <1>4, <2>2, <2>3, <2>6, <2>7, <2>8, <2>9, <2>10, <2>11 DEF TypeInv
<1> QED BY <1>5, <1>6 DEF Submit, SubmitWith

LEMMA FlowType == TypeInv => Flow \in FlowRegs
BY DEF TypeInv, Flow, Flows, FlowRegs

\* Packing a frame of one of the queues.
LEMMA PackType ==
  ASSUME TypeInv, PopItem
  PROVE  TypeInv'
<1>0. UNCHANGED own
  BY DEF PopItem, PackUrgent, PackReg, PackSyn, PackData, Pack, app
<1>1. ASSUME NEW f \in Sendable, Pack(f)
      PROVE  /\ cur' \in Sendable /\ left' \in 0..FrameLen
             /\ UNCHANGED <<attempts, callback, own, record, wire, shut, flow, read, server>>
  BY <1>1, SessionAssumption DEF Pack, app, input, net
<1>2. CASE PackUrgent
  <2>1. Head(urgent) \in Sendable /\ urgent' \in Seq(Control)
    <3>1. Head(urgent) \in Control /\ urgent' \in Seq(Control)
      BY <1>2, SeqFacts DEF PackUrgent, TypeInv
    <3> QED BY <3>1, ControlSendable
  <2> QED BY <1>0, <1>1, <1>2, <2>1, SendableSame DEF PackUrgent, TypeInv
<1>3. CASE PackReg
  <2>1. Head(reg) \in Sendable /\ reg' \in Seq(Control)
    <3>1. Head(reg) \in Control /\ reg' \in Seq(Control)
      BY <1>3, SeqFacts DEF PackReg, TypeInv
    <3> QED BY <3>1, ControlSendable
  <2>2. CASE Pack(Head(reg))
    BY <1>0, <1>1, <1>3, <2>1, <2>2, SendableSame DEF PackReg, TypeInv
  <2>3. CASE UNCHANGED <<tls, pc, app, active, limit, shut, input, net>>
    BY <1>0, <1>3, <2>1, <2>3, SendableSame DEF PackReg, TypeInv, app, active, input, net
  <2> QED BY <1>3, <2>2, <2>3 DEF PackReg
<1>4. CASE PackSyn
  <2>1. Head(syn) \in Requests /\ syn' \in Seq(Requests)
    BY <1>4, SeqFacts DEF PackSyn, SynReady, TypeInv
  <2>2. Head(syn) \in Sendable /\ Head(syn).sid \in Streams
    BY <2>1 DEF Requests, Sendable, TypeInv
  <2> QED BY <1>0, <1>1, <1>4, <2>1, <2>2, SendableSame DEF PackSyn, TypeInv
<1>5. CASE PackData
  <2>1. PICK s \in attached :
          /\ Pack(Frame("data", s, 0, body[s] = 1))
          /\ body' = [body EXCEPT ![s] = @ - 1]
          /\ UNCHANGED <<urgent, reg, syn, attached, open>>
    BY <1>5 DEF PackData
  <2>2. Frame("data", s, 0, body[s] = 1) \in Sendable
    <3>1. s \in Windows /\ 0 \in Nat /\ (body[s] = 1) \in BOOLEAN
      BY DEF Windows, TypeInv
    <3>2. \A e \in BOOLEAN : Frame("data", s, 0, e) \in Sendable
      BY <3>1, FrameType DEF Sendable, TypeInv
    <3> QED BY <3>1, <3>2, Zenon
  <2>3. body' \in [Streams -> Int]
    BY <2>1 DEF TypeInv
  <2> QED BY <1>0, <1>1, <2>1, <2>2, <2>3, SendableSame DEF TypeInv
<1> QED BY <1>2, <1>3, <1>4, <1>5 DEF PopItem

\* Sending puts units of the active frame on the wire or into a record.
LEMMA SendType ==
  ASSUME TypeInv, SendPlain \/ SendTls \/ SendWouldBlock \/ SendFails
  PROVE  TypeInv'
<1>1. /\ UNCHANGED <<attempts, callback, own, urgent, reg, syn, body, attached, cur,
                     open, shut, flow, read, server>>
      /\ cur # NoFrame /\ left \in Nat /\ left > 0
  BY DEF SendPlain, SendTls, SendWouldBlock, RecordStays, SendFails, Sending, SendSame,
         app, queues, streams, input, TypeInv
<1>2. Space \in Int /\ FrameLen \in Nat /\ MaxRecord \in Nat /\ MaxRecord > 0
  BY SessionAssumption DEF Space, TypeInv
<1>3. ThisRecord \in Seq(Units2) /\ Taken \in 1..left
  <2>1. Taken \in 1..left
    BY <1>1, <1>2 DEF Taken, Least
  <2>2. Units(Taken) \in Seq(Units2)
    BY <1>1, <2>1, UnitsType
  <2> QED BY <2>1, <2>2 DEF ThisRecord, TypeInv
<1>4. ASSUME NEW a \in Seq(Units2), NEW b \in Seq(Units2) PROVE a \o b \in Seq(Units2)
  BY <1>4
<1>5. CASE SendPlain
  <2>1. Least(left, Space) \in 1..left
    BY <1>1, <1>2, <1>5 DEF SendPlain, Least
  <2>2. wire' \in Seq(Units2)
    <3>1. Units(Least(left, Space)) \in Seq(Units2)
      BY <1>1, <2>1, UnitsType
    <3> QED BY <1>4, <1>5, <3>1 DEF SendPlain, TypeInv
  <2>3. left' \in 0..FrameLen /\ record' = record
    BY <1>5, <1>2, <2>1 DEF SendPlain, TypeInv
  <2> QED BY <1>1, <2>2, <2>3, SendableSame DEF TypeInv
<1>6. CASE SendTls
  <2>1. wire' \in Seq(Units2)
    BY <1>3, <1>4, <1>6 DEF SendTls, TypeInv
  <2>2. record' \in Seq(Units2) /\ left' \in 0..FrameLen
    BY <1>2, <1>3, <1>6 DEF SendTls, TypeInv
  <2> QED BY <1>1, <2>1, <2>2, SendableSame DEF TypeInv
<1>7. CASE SendWouldBlock
  BY <1>1, <1>3, <1>7, SendableSame DEF SendWouldBlock, RecordStays, SendSame, TypeInv
<1>8. CASE SendFails
  BY <1>1, <1>2, <1>8, SendableSame DEF SendFails, TypeInv
<1> QED BY <1>5, <1>6, <1>7, <1>8

\* What follows a frame that was sent.
LEMMA AfterType ==
  ASSUME TypeInv, AfterFrameSent
  PROVE  TypeInv'
<1> DEFINE again == [Flow EXCEPT !.queued = @ \ {cur.sid}]
<1>1. /\ UNCHANGED <<attempts, callback, own, urgent, syn, body, left, record, wire,
                     read, server>>
      /\ cur' = NoFrame /\ cur \in Sendable /\ left = 0
  BY DEF AfterFrameSent, app, net, TypeInv
<1>2. cur.sid \in Windows
  BY <1>1 DEF Sendable, Frames
<1>3. again \in FlowRegs
  BY FlowType DEF FlowRegs
<1>4. CASE UNCHANGED <<flow, reg>>
  <2>1. open' \subseteq open
    BY <1>4 DEF AfterFrameSent, Shutdown, CloseStreams
  <2>2. CASE cur.type = "headers" /\ ~cur.end
    BY <1>1, <1>4, <2>2, SendableSame DEF AfterFrameSent, TypeInv
  <2>3. CASE cur.type \in {"headers", "data"} /\ cur.end
    <3>1. cur.sid \in Streams
      BY <1>1, <2>3 DEF Sendable, TypeInv
    <3>2. /\ shut' = [shut EXCEPT !.wr = @ \cup {cur.sid}]
          /\ attached' \subseteq attached
      BY <1>1, <2>3 DEF AfterFrameSent, Shutdown, CloseStreams
    <3>3. shut' \in [rd : SUBSET Streams, wr : SUBSET Streams]
      BY <3>1, <3>2 DEF TypeInv
    <3> QED BY <1>1, <1>4, <2>1, <3>2, <3>3, SendableSame DEF TypeInv
  <2> QED BY <1>1, <1>4, <2>1, <2>2, <2>3, SendableSame DEF AfterFrameSent, TypeInv
<1>5. CASE cur.type = "window"
  <2>1. flow' \in Flows /\ reg' \in Seq(Control)
    <3>1. Received(again, cur.sid, 0) \in FlowRegs
      BY <1>2, <1>3, ReceivedType
    <3>2. \E f \in FlowRegs : SetFlow(f)
      BY <1>3, <1>5, <3>1 DEF AfterFrameSent
    <3> QED BY <3>2 DEF SetFlow, FlowRegs, Flows
  <2> QED BY <1>1, <1>5, <2>1, SendableSame DEF AfterFrameSent, TypeInv
<1> QED BY <1>4, <1>5 DEF AfterFrameSent
\* Receiving a frame.
LEMMA RecvType ==
  ASSUME TypeInv, DownInv, RecvFrame
  PROVE  TypeInv'
<1> DEFINE f == Head(down)
<1>1. UNCHANGED <<attempts, callback, own, syn, body, cur, left, record, wire, server>>
  BY DEF RecvFrame, app, active
<1>8. f \in Receivable
  BY SeqFacts DEF RecvFrame, DownInv
<1>2. f.type # "settings" => f.sid \in Streams
  BY <1>8 DEF Receivable
<1>7. f.type \in {"settings", "data", "headers", "reset"}
  BY <1>8 DEF Receivable
<1> HIDE DEF f
<1>3. CASE f.type = "settings" /\ OnSettings
  <2>1. Plain("ack") \in Control
    BY FrameType DEF Plain, Control, Windows, Connection
  <2>2. urgent' \in Seq(Control)
    BY <1>3, <2>1, SeqFacts DEF OnSettings, TypeInv
  <2> QED BY <1>1, <1>3, <2>2, SendableSame DEF OnSettings, TypeInv
<1>4. CASE f.type = "data" /\ OnData(f)
  <2> DEFINE conn == Received(Flow, Connection, 1)
             both == IF f.end THEN [conn EXCEPT !.received[f.sid] = @ + 1]
                              ELSE Received(conn, f.sid, 1)
  <2>1. f.sid \in Windows /\ f.sid \in Streams /\ Connection \in Windows
    BY <1>2, <1>4 DEF Windows
  <2>2. conn \in FlowRegs
    BY <2>1, FlowType, ReceivedType
  <2>3. both \in FlowRegs
    <3> HIDE DEF conn
    <3>1. Received(conn, f.sid, 1) \in FlowRegs
      BY <2>1, <2>2, ReceivedType
    <3>2. [conn EXCEPT !.received[f.sid] = @ + 1] \in FlowRegs
      <4>1. conn.received \in [Windows -> Nat] /\ conn.received[f.sid] + 1 \in Nat
        BY <2>1, <2>2 DEF FlowRegs
      <4> DEFINE more == conn.received[f.sid] + 1
      <4>2. [conn EXCEPT !.received[f.sid] = more] \in FlowRegs
        <5> HIDE DEF more
        <5> QED BY <2>2, <4>1 DEF FlowRegs, more
      <4> QED BY <4>2
    <3> QED BY <3>1, <3>2
  <2>4. SetFlow(both)
    BY <1>4 DEF OnData
  <2>5. flow' \in Flows /\ reg' \in Seq(Control)
    <3> HIDE DEF both
    <3> QED BY <2>3, <2>4 DEF SetFlow, FlowRegs, Flows
  <2>6. read' \in [Streams -> Nat] /\ UNCHANGED urgent
    BY <1>4, <2>1 DEF OnData, TypeInv
  <2>7. /\ shut' = [shut EXCEPT !.rd = @ \cup {s \in {f.sid} : f.end}]
        /\ open' \subseteq open /\ attached' \subseteq attached
    BY <1>4 DEF OnData, Shutdown, CloseStreams
  <2>8. shut' \in [rd : SUBSET Streams, wr : SUBSET Streams]
    BY <2>1, <2>7 DEF TypeInv
  <2> QED BY <1>1, <2>5, <2>6, <2>7, <2>8, SendableSame DEF TypeInv
<1>5. CASE f.type = "headers" /\ OnHeaders(f)
  <2>1. /\ shut' = [shut EXCEPT !.rd = @ \cup {f.sid}]
        /\ open' \subseteq open /\ attached' \subseteq attached
        /\ UNCHANGED <<urgent, reg, flow, read>>
    BY <1>5 DEF OnHeaders, Shutdown, CloseStreams
  <2>2. shut' \in [rd : SUBSET Streams, wr : SUBSET Streams]
    BY <1>2, <1>5, <2>1 DEF TypeInv
  <2> QED BY <1>1, <2>1, <2>2, SendableSame DEF TypeInv
<1>6. CASE f.type = "reset" /\ OnReset(f)
  BY <1>1, <1>6, SendableSame DEF OnReset, TypeInv
<1> QED BY <1>3, <1>4, <1>5, <1>6, <1>7 DEF RecvFrame, f

\* The server and the network.
LEMMA ServerType ==
  ASSUME TypeInv, Server \/ Close
  PROVE  TypeInv'
<1>1. /\ UNCHANGED <<attempts, callback, own, urgent, reg, syn, body, attached, cur,
                     left, record, open, shut, flow, read>>
      /\ wire' \in Seq(Units2)
  <2>1. CASE ServerReads
    <3>1. \E next, answer : ServerTakes(next, answer)
      BY <2>1 DEF ServerReads, Greets, Handles
    <3>2. wire' = SubSeq(wire, FrameLen + 1, Len(wire))
      BY <3>1 DEF ServerTakes
    <3> QED BY <3>1, <3>2, SessionAssumption
        DEF ServerTakes, app, queues, streams, input, TypeInv
  <2>2. CASE Hello \/ Close \/ \E s \in Streams : Reply(s)
    BY <2>2 DEF Hello, Close, Reply, Replies, ServerSame, app, queues, active, streams,
         input, TypeInv
  <2> QED BY <2>1, <2>2 DEF Server
<1>2. server' \in Servers
  <2>1. CASE Hello
    BY <2>1 DEF Hello, Servers, TypeInv
  <2>2. CASE ServerReads
    <3> DEFINE f == wire[1][1]
    <3>1. f \in Sendable
      BY <2>2 DEF ServerReads, Units2, TypeInv
    <3>2. f.sid \in Windows /\ f.n \in Nat /\ (f.type = "headers" => f.sid \in Streams)
      BY <3>1 DEF Sendable, Frames, TypeInv
    <3> HIDE DEF f
    <3>3. CASE Greets(f)
      BY <3>3 DEF Greets, ServerTakes, Servers, TypeInv
    <3>4. CASE Handles(f)
      <4>1. Heard(f) \in SUBSET Windows
        BY <3>2 DEF Heard, TypeInv, Servers
      <4>3. CASE server' = [server EXCEPT !.phase = "agreed"]
        BY <4>3 DEF Servers, TypeInv
      <4>4. CASE server' = [server EXCEPT !.credit[f.sid] = @ + f.n]
        <5>1. server.credit[f.sid] + f.n \in Int
          BY <3>2 DEF Servers, TypeInv
        <5> DEFINE more == server.credit[f.sid] + f.n
        <5>2. server' = [server EXCEPT !.credit[f.sid] = more]
          BY <4>4
        <5> HIDE DEF more
        <5> QED BY <5>1, <5>2 DEF Servers, TypeInv, more
      <4>5. CASE server' = [server EXCEPT !.heard = Heard(f)]
        BY <4>1, <4>5 DEF Servers, TypeInv
      <4>6. CASE f.type = "headers" /\ server' = [server EXCEPT !.asked = @ \cup {f.sid}, !.heard = Heard(f)]
        BY <3>2, <4>1, <4>6 DEF Servers, TypeInv
      <4>7. CASE /\ f.type = "headers"
                 /\ server' = [server EXCEPT !.asked = @ \cup {f.sid}, !.heard = Heard(f),
                                             !.answered = @ \cup {f.sid},
                                             !.refused = @ \cup {f.sid}]
        BY <3>2, <4>1, <4>7 DEF Servers, TypeInv
      <4> QED BY <3>4, <4>3, <4>4, <4>5, <4>6, <4>7 DEF Handles, ServerTakes
    <3> QED BY <2>2, <3>3, <3>4 DEF ServerReads, f
  <2>3. ASSUME NEW s \in Streams, Reply(s) PROVE server' \in Servers
    <3>1. s \in Windows /\ Connection \in Windows
      BY DEF Windows
    <3>2. CASE server' = [server EXCEPT !.answered = @ \cup {t \in {s} : TRUE}]
      BY <3>2 DEF Servers, TypeInv
    <3>3. CASE \E end \in BOOLEAN :
                 server' = [[server EXCEPT !.sent[s] = @ + 1, !.credit = Spent(s)]
                            EXCEPT !.answered = @ \cup {t \in {s} : end}]
      <4>1. Spent(s) \in [Windows -> Int]
        BY DEF Spent, Servers, TypeInv
      <4>2. [server EXCEPT !.sent[s] = @ + 1, !.credit = Spent(s)] \in Servers
        <5> DEFINE sent == [server.sent EXCEPT ![s] = @ + 1]
        <5>1. sent \in [Streams -> Nat]
          BY DEF Servers, TypeInv
        <5>2. [server EXCEPT !.sent = sent, !.credit = Spent(s)] \in Servers
          <6> HIDE DEF sent
          <6> QED BY <4>1, <5>1 DEF Servers, TypeInv
        <5> QED BY <5>2
      <4>3. ASSUME NEW next \in Servers, NEW more \in SUBSET Streams
            PROVE  [next EXCEPT !.answered = @ \cup more] \in Servers
        BY DEF Servers
      <4> QED BY <3>3, <4>2, <4>3
    <3> QED BY <2>3, <3>2, <3>3 DEF Reply, Replies, Frame
  <2>4. CASE Close
    BY <2>4 DEF Close, TypeInv
  <2> QED BY <2>1, <2>2, <2>3, <2>4 DEF Server
<1> QED BY <1>1, <1>2, SendableSame DEF TypeInv
LEMMA TypeStep ==
  ASSUME TypeInv, DownInv, [Next]_vars
  PROVE  TypeInv'
<1>1. CASE Run \/ NothingToSend \/ RecvFails \/ Interrupted \/ UNCHANGED vars
  <2>1. UNCHANGED <<app, queues, active, streams, input, net>>
    BY <1>1 DEF Run, NothingToSend, RecvFails, Interrupted, vars
  <2> QED BY <2>1, SendableSame DEF TypeInv, app, queues, active, streams, input, net
<1> QED BY <1>1, SubmitType, PackType, SendType, AfterType, RecvType, ServerType
    DEF Next, Client, SessionSend

\* A frame of the server is one the client may receive.
LEMMA ReceivableFrame ==
  ASSUME NEW type \in {"settings", "data", "headers", "reset"},
         NEW sid \in Windows, NEW n \in Nat, NEW end \in BOOLEAN,
         type # "settings" => sid \in Streams,
         type = "data" => sid \in DOMAIN own
  PROVE  Frame(type, sid, n, end) \in Receivable
<1> DEFINE f == Frame(type, sid, n, end)
<1>1. f \in Frames /\ f.type = type /\ f.sid = sid
  BY FrameType
<1> HIDE DEF f
<1>2. f \in Receivable
  BY <1>1 DEF Receivable
<1> QED BY <1>2 DEF f

\* Nothing is under way to the client but answers to what the server was asked.
LEMMA DownStep ==
  ASSUME TypeInv, DownInv, [Next]_vars
  PROVE  DownInv'
<1>0. ASSUME UNCHANGED own, down' \in Seq(Receivable), server'.asked \subseteq DOMAIN own
      PROVE  DownInv'
  BY <1>0, SendableSame DEF DownInv
<1>1. /\ \A f \in Receivable : Append(down, f) \in Seq(Receivable)
      /\ down \in Seq(Receivable) /\ <<>> \in Seq(Receivable)
      /\ server.asked \subseteq DOMAIN own
      /\ \A s \in Streams : s \in Windows
      /\ Connection \in Windows
  BY SeqFacts DEF DownInv, Windows
<1>2. CASE Submit
  <2>1. Receivable \subseteq Receivable' /\ DOMAIN own \subseteq DOMAIN own'
    <3>1. DOMAIN own \subseteq DOMAIN own'
      <4>1. own' = own \/ own' = Append(own, attempts')
        BY <1>2 DEF Submit, SubmitWith
      <4>2. own \in Seq(1..attempts) /\ DOMAIN own = 1..Len(own) /\ Len(own) \in Nat
        BY DEF TypeInv
      <4>3. DOMAIN Append(own, attempts') = 1..Len(own) + 1
        BY <4>2
      <4> QED BY <4>1, <4>2, <4>3
    <3> QED BY <3>1 DEF Receivable
  <2>2. UNCHANGED <<down, server>>
    BY <1>2 DEF Submit, SubmitWith, net
  <2>3. down \in Seq(Receivable')
    BY <2>1, SeqMonotone DEF DownInv
  <2> QED BY <2>1, <2>2, <2>3 DEF DownInv
<1>3. CASE RecvFrame
  <2>1. down' = Tail(down) /\ down # <<>> /\ UNCHANGED <<own, server>>
    BY <1>3 DEF RecvFrame, app
  <2>2. down' \in Seq(Receivable)
    BY <2>1, SeqFacts DEF DownInv
  <2> QED BY <1>0, <1>1, <2>1, <2>2
<1>4. CASE Hello
  <2>1. Plain("settings") \in Receivable
    BY <1>1, ReceivableFrame DEF Plain
  <2>2. server'.asked = server.asked
    BY <1>4 DEF Hello, TypeInv, Servers
  <2>3. down' = Append(down, Plain("settings")) /\ UNCHANGED own
    BY <1>4 DEF Hello, ServerSame, app
  <2> QED BY <1>0, <1>1, <2>1, <2>2, <2>3
<1>5. CASE ServerReads
  <2> DEFINE f == wire[1][1]
  <2>1. f \in Sendable
    BY <1>5 DEF ServerReads, Units2, TypeInv
  <2>2. UNCHANGED own
    BY <1>5 DEF ServerReads, Greets, Handles, ServerTakes, app
  <2>3. f.type = "headers" => f.sid \in DOMAIN own /\ f.sid \in Streams
    BY <2>1 DEF Sendable, TypeInv
  <2>4. Greets(f) \/ Handles(f)
    BY <1>5 DEF ServerReads
  <2> HIDE DEF f
  <2>5. server'.asked \subseteq server.asked \cup {t \in {f.sid} : f.type = "headers"}
    <3>1. server \in Servers
      BY DEF TypeInv
    <3>2. CASE Greets(f)
      BY <3>1, <3>2 DEF Greets, ServerTakes, Servers
    <3>3. CASE Handles(f)
      BY <3>1, <3>3 DEF Handles, ServerTakes, Servers
    <3> QED BY <2>4, <3>2, <3>3
  <2>6. \/ down' = down
        \/ f.type = "headers" /\ down' = down \o <<Frame("reset", f.sid, 0, TRUE)>>
    <3>1. down \o <<>> = down
      BY <1>1
    <3> QED BY <2>4, <3>1 DEF Greets, Handles, ServerTakes
  <2>7. down' \in Seq(Receivable)
    <3>1. CASE f.type = "headers" /\ down' = down \o <<Frame("reset", f.sid, 0, TRUE)>>
      <4>1. Frame("reset", f.sid, 0, TRUE) \in Receivable
        BY <1>1, <2>3, <3>1, ReceivableFrame
      <4>2. \A e \in Receivable : down \o <<e>> \in Seq(Receivable)
        BY <1>1
      <4> QED BY <3>1, <4>1, <4>2
    <3> QED BY <1>1, <2>6, <3>1
  <2> QED BY <1>0, <1>1, <2>2, <2>3, <2>5, <2>7
<1>6. ASSUME NEW s \in Streams, Reply(s) PROVE DownInv'
  <2>1. s \in server.asked /\ UNCHANGED own /\ s \in DOMAIN own
    BY <1>1, <1>6 DEF Reply, Replies, ServerSame, app
  <2>2. PICK f \in Receivable : down' = Append(down, f)
    <3>1. Frame("headers", s, 0, TRUE) \in Receivable
      BY <1>1, <2>1, ReceivableFrame
    <3>2. server.sent[s] + 1 \in Nat
      BY DEF TypeInv, Servers
    <3>3. \A end \in BOOLEAN : Frame("data", s, server.sent[s] + 1, end) \in Receivable
      BY <1>1, <2>1, <3>2, ReceivableFrame
    <3> QED BY <1>6, <3>1, <3>3 DEF Reply, Replies
  <2>3. server'.asked = server.asked
    BY <1>6 DEF Reply, Replies, TypeInv, Servers
  <2> QED BY <1>0, <1>1, <2>1, <2>2, <2>3
<1>7. CASE Close
  <2>1. down' = <<>> \/ down' = down
    BY <1>7 DEF Close, DownInv
  <2>2. UNCHANGED <<own, server>>
    BY <1>7 DEF Close, ServerSame, app
  <2> QED BY <1>0, <1>1, <2>1, <2>2
<1>8. CASE Run \/ SessionSend \/ RecvFails \/ Interrupted \/ UNCHANGED vars
  <2>1. UNCHANGED <<own, down, server>>
    BY <1>8 DEF Run, RecvFails, Interrupted, vars, SessionSend, PopItem, PackUrgent,
         PackReg, PackSyn, PackData, Pack, NothingToSend, AfterFrameSent, SendPlain,
         SendTls, SendWouldBlock, RecordStays, SendFails, SendSame, app, net
  <2> QED BY <1>0, <1>1, <2>1
<1> QED BY <1>2, <1>3, <1>4, <1>5, <1>6, <1>7, <1>8 DEF Next, Client, Server

\* What was passed on was passed on rightly, and later requests do not change it.
LEMMA CallbackStep ==
  ASSUME TypeInv, DownInv, CallbackInv, [Next]_vars
  PROVE  CallbackInv'
<1>1. CASE Submit
  <2>1. attempts' = attempts + 1 /\ UNCHANGED calls
    BY <1>1 DEF Submit, SubmitWith, input
  <2>2. own' = own \/ own' = Append(own, attempts + 1)
    BY <1>1, <2>1 DEF Submit, SubmitWith
  <2>3. own \in Seq(1..attempts) /\ attempts + 1 \in Nat /\ attempts \in Nat
    BY DEF TypeInv
  <2>4. own \in Seq(Nat)
    BY ONLY <2>3
  <2>5. DOMAIN own \subseteq DOMAIN own' /\ \A s \in DOMAIN own : own'[s] = own[s]
    <3>1. CASE own' = own
      BY ONLY <3>1
    <3>2. CASE own' = Append(own, attempts + 1)
      BY ONLY <2>3, <2>4, <3>2
    <3> QED BY ONLY <2>2, <3>1, <3>2
  <2>6. 1..attempts \subseteq 1..attempts'
    BY ONLY <2>1, <2>3
  <2>7. calls' \subseteq (DOMAIN own') \X (1..attempts')
    BY <2>1, <2>5, <2>6 DEF CallbackInv
  <2>8. \A c \in calls' : c[2] >= own'[c[1]]
    <3> TAKE c \in calls'
    <3>1. c \in calls /\ c[1] \in DOMAIN own /\ c[2] >= own[c[1]]
      BY <2>1 DEF CallbackInv
    <3> QED BY ONLY <2>5, <3>1
  <2> QED BY ONLY <2>7, <2>8 DEF CallbackInv
<1>2. CASE RecvFrame
  <2> DEFINE f == Head(down)
  <2>1. f \in Receivable /\ UNCHANGED <<own, attempts>>
    BY <1>2, SeqFacts DEF RecvFrame, DownInv, app
  <2>2. f.type = "data" => f.sid \in DOMAIN own
    BY <2>1 DEF Receivable
  <2>3. f.type \in {"settings", "data", "headers", "reset"}
    BY <2>1 DEF Receivable
  <2> HIDE DEF f
  <2>4. CASE f.type = "data" /\ OnData(f)
    <3>1. calls' = calls \cup {c \in {<<f.sid, callback>>} : callback # 0}
      BY <2>4 DEF OnData
    <3>2. own[f.sid] \in 1..attempts /\ callback = attempts /\ attempts \in Nat
      BY <2>2, <2>4 DEF TypeInv
    <3>3. callback # 0 => callback \in 1..attempts /\ callback >= own[f.sid]
      BY <3>2
    <3> QED BY <2>1, <2>2, <2>4, <3>1, <3>3 DEF CallbackInv
  <2>5. CASE OnSettings \/ OnHeaders(f) \/ OnReset(f)
    BY <2>1, <2>5 DEF OnSettings, OnHeaders, OnReset, CallbackInv
  <2> QED BY <1>2, <2>3, <2>4, <2>5 DEF RecvFrame, f
<1>3. CASE Server \/ Close
  <2>1. UNCHANGED <<own, attempts, calls>>
    BY <1>3 DEF Server, Close, Hello, ServerReads, Greets, Handles, ServerTakes, Reply,
         Replies, ServerSame, app, input
  <2> QED BY <2>1 DEF CallbackInv
<1>4. CASE Run \/ SessionSend \/ RecvFails \/ Interrupted \/ UNCHANGED vars
  <2>1. UNCHANGED <<own, attempts, calls>>
    BY <1>4 DEF Run, RecvFails, Interrupted, vars, SessionSend, PopItem, PackUrgent,
         PackReg, PackSyn, PackData, Pack, NothingToSend, AfterFrameSent, SendPlain,
         SendTls, SendWouldBlock, RecordStays, SendFails, SendSame, app, input
  <2> QED BY <2>1 DEF CallbackInv
<1> QED BY <1>1, <1>2, <1>3, <1>4 DEF Next, Client

LEMMA InitTypes == Init => TypeInv /\ DownInv /\ CallbackInv
<1> SUFFICES ASSUME Init PROVE TypeInv /\ DownInv /\ CallbackInv
  OBVIOUS
<1>1. Plain("settings") \in Control /\ Magic \in Sendable
  BY FrameType DEF Plain, Magic, Sendable, Control, Windows, Connection
<1>2. urgent \in Seq(Control) /\ own = <<>>
  BY <1>1 DEF Init
<1>3. server \in Servers /\ server.asked = {}
  <2>1. [w \in Windows |-> Window] \in [Windows -> Int]
    BY SessionAssumption
  <2> QED BY <2>1 DEF Init, Servers
<1>4. flow \in Flows /\ shut \in [rd : SUBSET Streams, wr : SUBSET Streams]
  BY DEF Init, Flows
<1>5. TypeInv
  BY <1>1, <1>2, <1>3, <1>4, SessionAssumption DEF Init, TypeInv
<1> QED BY <1>2, <1>3, <1>5 DEF Init, DownInv, CallbackInv

\* The callback a DATA frame is passed to is never that of an earlier request
\* than its own, for any number of requests and streams
\* (httpc2_on_data_chunk_recv_callback, httpc2_submit_request).
THEOREM DataToOwnOrLater == Spec => []OwnOrLaterCallback
<1>1. TypeInv /\ DownInv /\ CallbackInv /\ [Next]_vars => (TypeInv /\ DownInv /\ CallbackInv)'
  BY TypeStep, DownStep, CallbackStep
<1>2. CallbackInv => OwnOrLaterCallback
  BY DEF CallbackInv, OwnOrLaterCallback
<1> QED BY <1>1, <1>2, InitTypes, PTL DEF Spec
-----------------------------------------------------------------------------
(* The preface *)

\* Whatever is packed, it comes after the magic and the SETTINGS.
LEMMA PackPreface ==
  ASSUME TypeInv, TypeInv', PrefaceInv, PopItem
  PROVE  PrefaceInv'
<1>1. UNCHANGED server
  BY DEF PopItem, PackUrgent, PackReg, PackSyn, PackData, Pack, net
<1>2. \/ /\ urgent # <<>> /\ urgent' = Tail(urgent)
         /\ sending' = Append(sending, urgent[1])
         /\ cur' = urgent[1]
      \/ /\ urgent = <<>> /\ urgent' = <<>>
         /\ sending' = Append(sending, cur') \/ sending' = sending
  BY DEF PopItem, PackUrgent, PackReg, PackSyn, PackData, Pack, active
<1>3. cur' \in Frames \cup {NoFrame}
  BY DEF TypeInv, Sendable
<1>4. CASE server.phase \in {"magic", "settings"}
  <2>1. sending \in Seq(Frames \cup {NoFrame}) /\ Len(sending) \in Nat
    BY <1>4 DEF PrefaceInv
  <2>2. ASSUME sending' = Append(sending, cur')
        PROVE  /\ sending' \in Seq(Frames \cup {NoFrame})
               /\ Len(sending') = Len(sending) + 1
               /\ \A i \in 1..Len(sending) : sending'[i] = sending[i]
               /\ sending'[Len(sending) + 1] = cur'
    BY <1>3, <2>1, <2>2
  <2>3. CASE sending' = Append(sending, cur') /\ (urgent # <<>> => cur' = urgent[1])
    <3>1. CASE server.phase = "magic"
      <4>1. Len(sending) >= 1 /\ sending[1].type = "magic" /\ sending'[1] = sending[1]
        BY <2>1, <2>2, <2>3, <3>1 DEF PrefaceInv
      <4>2. CASE Len(sending) = 1
        <5>1. sending'[2].type = "settings" /\ Len(sending') = 2
          BY <2>2, <2>3, <3>1, <4>2 DEF PrefaceInv
        <5> QED BY <1>1, <2>2, <2>3, <3>1, <4>1, <5>1 DEF PrefaceInv
      <4>3. CASE Len(sending) >= 2
        <5>1. sending'[2] = sending[2] /\ Len(sending') >= 3
          BY <2>1, <2>2, <2>3, <4>3
        <5> QED BY <1>1, <2>2, <2>3, <3>1, <4>1, <4>3, <5>1 DEF PrefaceInv
      <4>4. Len(sending) = 1 \/ Len(sending) >= 2
        <5>1. Len(sending) \in Nat /\ Len(sending) >= 1
          BY <2>1, <4>1
        <5> DEFINE n == Len(sending)
        <5>2. n \in Nat /\ n >= 1
          BY <5>1
        <5> HIDE DEF n
        <5>3. n = 1 \/ n >= 2
          BY <5>2
        <5> QED BY <5>3 DEF n
      <4> QED BY <4>2, <4>3, <4>4
    <3>2. CASE server.phase = "settings"
      <4>1. CASE Len(sending) = 0
        <5>1. sending'[1].type = "settings" /\ Len(sending') = 1
          BY <2>2, <2>3, <3>2, <4>1 DEF PrefaceInv
        <5> QED BY <1>1, <2>2, <2>3, <3>2, <5>1 DEF PrefaceInv
      <4>2. CASE Len(sending) >= 1
        <5>1. sending'[1] = sending[1] /\ Len(sending') >= 2
          BY <2>1, <2>2, <2>3, <4>2
        <5> QED BY <1>1, <2>2, <2>3, <3>2, <4>2, <5>1 DEF PrefaceInv
      <4> QED BY <2>1, <4>1, <4>2
    <3> QED BY <1>4, <3>1, <3>2
  <2>5. CASE urgent = <<>> /\ urgent' = <<>> /\ sending' = sending
    BY <1>1, <2>5 DEF PrefaceInv
  <2> QED BY <1>2, <2>3, <2>5
<1>5. CASE server.phase \notin {"magic", "settings"}
  BY <1>1, <1>5 DEF PrefaceInv
<1> QED BY <1>4, <1>5

\* The server takes the preface frame by frame.
LEMMA ReadPreface ==
  ASSUME TypeInv, PrefaceInv, ServerReads
  PROVE  PrefaceInv'
<1>1. UNCHANGED urgent /\ sending' = Tail(sending)
  BY DEF ServerReads, Greets, Handles, ServerTakes, queues
<1>2. \/ server.phase = "magic" /\ server'.phase = "settings"
      \/ server'.phase \in {"frames", "agreed"}
  <2>1. PICK f : Greets(f) \/ (server.phase \in {"frames", "agreed"} /\ Handles(f))
    BY DEF ServerReads
  <2>2. CASE Greets(f)
    BY <2>2 DEF Greets, ServerTakes, TypeInv, Servers
  <2>3. CASE server.phase \in {"frames", "agreed"} /\ Handles(f)
    BY <2>3 DEF Handles, ServerTakes, TypeInv, Servers
  <2> QED BY <2>1, <2>2, <2>3
<1>3. CASE server.phase = "magic" /\ server'.phase = "settings"
  <2>1. sending \in Seq(Frames \cup {NoFrame}) /\ Len(sending) >= 1 /\ Len(sending) \in Nat
    BY <1>3 DEF PrefaceInv
  <2>2. /\ sending' \in Seq(Frames \cup {NoFrame}) /\ Len(sending') = Len(sending) - 1
        /\ Len(sending) >= 2 => sending'[1] = sending[2]
    BY <1>1, <2>1
  <2> QED BY <1>1, <1>3, <2>1, <2>2 DEF PrefaceInv
<1>4. CASE server'.phase \in {"frames", "agreed"}
  BY <1>4 DEF PrefaceInv
<1> QED BY <1>2, <1>3, <1>4

LEMMA PrefaceStep ==
  ASSUME TypeInv, TypeInv', DownInv, PrefaceInv, [Next]_vars
  PROVE  PrefaceInv'
<1>1. ASSUME server'.phase = server.phase, UNCHANGED sending,
             urgent' = urgent \/ \E f : urgent' = Append(urgent, f)
      PROVE  PrefaceInv'
  <2>1. urgent \in Seq(Control)
    BY DEF TypeInv
  <2>2. urgent # <<>> => urgent' # <<>> /\ urgent'[1] = urgent[1]
    <3>1. CASE urgent' = urgent
      BY <3>1
    <3>2. ASSUME NEW f, urgent' = Append(urgent, f)
          PROVE  urgent # <<>> => urgent' # <<>> /\ urgent'[1] = urgent[1]
      BY <2>1, <3>2
    <3> QED BY <1>1, <3>1, <3>2
  <2> QED BY <1>1, <2>2 DEF PrefaceInv
<1>2. CASE RecvFrame
  <2>1. UNCHANGED <<server, sending>>
    BY <1>2 DEF RecvFrame, active
  <2>2. Head(down).type \in {"settings", "data", "headers", "reset"}
    <3>1. Head(down) \in Receivable
      BY <1>2, SeqFacts DEF RecvFrame, DownInv
    <3> QED BY <3>1 DEF Receivable
  <2>3. urgent' = urgent \/ \E f : urgent' = Append(urgent, f)
    BY <1>2, <2>2 DEF RecvFrame, OnSettings, OnData, OnHeaders, OnReset
  <2> QED BY <1>1, <2>1, <2>3
<1>3. CASE Hello \/ Close \/ \E s \in Streams : Reply(s)
  <2>1. server'.phase = server.phase
    BY <1>3 DEF Hello, Close, Reply, Replies, TypeInv, Servers
  <2>2. UNCHANGED <<sending, urgent>>
    BY <1>3 DEF Hello, Close, Reply, Replies, ServerSame, active, queues
  <2> QED BY <1>1, <2>1, <2>2
<1>4. CASE \/ Submit \/ Run \/ NothingToSend \/ AfterFrameSent \/ SendPlain \/ SendTls
           \/ SendWouldBlock \/ SendFails \/ RecvFails \/ Interrupted \/ UNCHANGED vars
  <2>1. UNCHANGED <<server, sending, urgent>>
    BY <1>4 DEF Submit, SubmitWith, Run, NothingToSend, AfterFrameSent, SendPlain, SendTls,
         SendWouldBlock, RecordStays, SendFails, SendSame, RecvFails, Interrupted, vars,
         active, queues, net
  <2> QED BY <1>1, <2>1
<1> QED BY <1>2, <1>3, <1>4, PackPreface, ReadPreface DEF Next, Client, SessionSend, Server

\* The server finds the magic first and SETTINGS second, for every number of
\* requests submitted before the first httpc2_core_run.
THEOREM PrefaceComesFirst == Spec => []PrefaceFirst
<1>1. Init => PrefaceInv
  <2> SUFFICES ASSUME Init PROVE PrefaceInv
    OBVIOUS
  <2>1. Magic \in Frames /\ Magic.type = "magic" /\ Plain("settings").type = "settings"
    <3>1. Connection \in Windows /\ 0 \in Nat /\ FALSE \in BOOLEAN
      BY DEF Windows
    <3>2. Magic \in Frames
      BY <3>1, FrameType DEF Magic, Plain
    <3>3. Magic.type = "magic" /\ Plain("settings").type = "settings"
      BY DEF Magic, Plain, Frame
    <3> QED BY <3>2, <3>3
  <2>2. sending = <<Magic>> /\ urgent = <<Plain("settings")>> /\ server.phase = "magic"
    BY DEF Init
  <2>3. sending \in Seq(Frames \cup {NoFrame}) /\ Len(sending) = 1 /\ sending[1] = Magic
    BY <2>1, <2>2
  <2>4. urgent # <<>> /\ urgent[1] = Plain("settings")
    BY <2>2
  <2> QED BY <2>1, <2>2, <2>3, <2>4 DEF PrefaceInv
<1>2. TypeInv /\ DownInv /\ PrefaceInv /\ [Next]_vars => (TypeInv /\ DownInv /\ PrefaceInv)'
  BY TypeStep, DownStep, PrefaceStep
<1>3. PrefaceInv => PrefaceFirst
  <2>1. ASSUME PrefaceInv, server.phase \in {"magic", "settings"}, sending # <<>>
        PROVE  sending[1].type = server.phase
    BY <2>1 DEF PrefaceInv
  <2> QED BY <2>1 DEF PrefaceFirst, PrefaceInv
<1> QED BY <1>1, <1>2, <1>3, InitTypes, PTL DEF Spec
=============================================================================
