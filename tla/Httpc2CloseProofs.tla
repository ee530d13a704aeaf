--------------------------- MODULE Httpc2CloseProofs -------------------------
(***************************************************************************)
(* A stream of Httpc2Session that is gone was answered and asked in full,  *)
(* or refused, for any number of streams and frames and both transports.   *)
(*                                                                         *)
(* Two things make it true.  On the way out, END_STREAM is sent only when  *)
(* nothing is left of the request (SynInv, SentInv).  On the way in, DATA  *)
(* frames are numbered without a gap and the last carries the highest      *)
(* number (OrderInv, EndInv), so that its END_STREAM is met only after all *)
(* the others were read.  GoneInv then says why a stream is gone.          *)
(***************************************************************************)
EXTENDS Httpc2SessionProofs

\* Requests wait in the order of their streams, and end at once without a body.
SynInv ==
  \A i \in DOMAIN syn :
    /\ syn[i].type = "headers" /\ syn[i].sid = Len(own) - Len(syn) + i
    /\ syn[i].end => body[syn[i].sid] = 0

\* Once END_STREAM is sent there is nothing left of the request.
SentInv ==
  /\ attached \subseteq Opened \ shut.wr
  /\ shut.wr \subseteq Opened
  /\ \A s \in shut.wr : body[s] = 0
  /\ cur.type \in {"headers", "data"} =>
       /\ cur.sid \in Opened \ shut.wr
       /\ cur.end => body[cur.sid] = 0

IsData(i, s) == down[i].type = "data" /\ down[i].sid = s

\* DATA frames under way carry the numbers from read + 1 on, in order; none is
\* missing before the connection ends, which may lose all of them.
OrderInv ==
  \A s \in Streams :
    /\ read[s] <= server.sent[s]
    /\ \A i \in DOMAIN down : IsData(i, s) => down[i].n \in read[s] + 1..server.sent[s]
    /\ \A i, j \in DOMAIN down :
         IsData(i, s) /\ IsData(j, s) /\ i < j => down[i].n < down[j].n
    /\ link = "open" \/ down # <<>> =>
         \A m \in read[s] + 1..server.sent[s] :
           \E j \in DOMAIN down : IsData(j, s) /\ down[j].n = m

\* The frame that ends a stream is its last one, and RST_STREAM is a refusal.
EndInv ==
  /\ \A i \in DOMAIN down :
       /\ down[i].type = "data" /\ down[i].end =>
            down[i].sid \in server.answered /\ down[i].n = server.sent[down[i].sid]
       /\ down[i].type = "headers" =>
            down[i].sid \in server.answered /\ server.sent[down[i].sid] = 0
       /\ down[i].type = "reset" => down[i].sid \in server.refused
  /\ \A s \in shut.rd : s \in server.answered /\ read[s] = server.sent[s]

\* A stream is gone because both sides ended it or because it was refused.
GoneInv ==
  \A s \in Opened \ (open \cup server.refused) : s \in shut.rd \cap shut.wr

CloseInv == SynInv /\ SentInv /\ OrderInv /\ EndInv /\ GoneInv

-----------------------------------------------------------------------------
(* On the way in *)

LEMMA AppendFacts ==
  ASSUME NEW S, NEW q \in Seq(S), NEW e
  PROVE  /\ DOMAIN Append(q, e) = DOMAIN q \cup {Len(q) + 1}
         /\ \A i \in DOMAIN q : Append(q, e)[i] = q[i] /\ i < Len(q) + 1
         /\ Append(q, e)[Len(q) + 1] = e
<1>1. q \in Seq(S \cup {e}) /\ e \in S \cup {e}
  BY SeqMonotone
<1> QED BY <1>1

\* A step that adds nothing but SETTINGS or a refusal.
LEMMA OtherFrame ==
  ASSUME TypeInv, DownInv, OrderInv, EndInv,
         \/ down' = down
         \/ \E f : /\ down' = Append(down, f) /\ f.type \in {"settings", "reset"}
                   /\ f.type = "reset" => f.sid \in server'.refused
                   /\ link = "open",
         UNCHANGED <<read, link>>, shut'.rd = shut.rd, server'.sent = server.sent,
         server.answered \subseteq server'.answered,
         server.refused \subseteq server'.refused
  PROVE  OrderInv' /\ EndInv'
<1>1. down \in Seq(Receivable) /\ Len(down) \in Nat /\ DOMAIN down = 1..Len(down)
  BY DEF DownInv
<1>2. CASE down' = down
  BY <1>2 DEF OrderInv, EndInv, IsData
<1>3. ASSUME NEW f, down' = Append(down, f), f.type \in {"settings", "reset"},
             f.type = "reset" => f.sid \in server'.refused, link = "open"
      PROVE  OrderInv' /\ EndInv'
  <2>1. /\ DOMAIN down' = DOMAIN down \cup {Len(down) + 1}
        /\ \A i \in DOMAIN down : down'[i] = down[i]
        /\ down'[Len(down) + 1] = f
    <3>1. down \in Seq(Receivable) /\ down' = Append(down, f)
      BY ONLY <1>1, <1>3
    <3> QED BY ONLY <3>1, AppendFacts
  <2>2. f.type # "data" /\ f.type # "headers"
    BY <1>3
  <2>3. OrderInv'
    <3> SUFFICES ASSUME NEW s \in Streams
                 PROVE  /\ read[s] <= server.sent[s]
                        /\ \A i \in DOMAIN down' : IsData(i, s)' => down'[i].n \in read[s] + 1..server.sent[s]
                        /\ \A i, j \in DOMAIN down' :
                             IsData(i, s)' /\ IsData(j, s)' /\ i < j => down'[i].n < down'[j].n
                        /\ \A m \in read[s] + 1..server.sent[s] :
                             \E j \in DOMAIN down' : IsData(j, s)' /\ down'[j].n = m
      BY <1>3 DEF OrderInv
    <3>1. \A i \in DOMAIN down' : IsData(i, s)' => i \in DOMAIN down /\ IsData(i, s)
      BY <2>1, <2>2 DEF IsData
    <3>2. \A i \in DOMAIN down : IsData(i, s) => IsData(i, s)'
      BY <2>1 DEF IsData
    <3> QED BY <1>3, <2>1, <3>1, <3>2 DEF OrderInv
  <2>4. EndInv'
    BY <1>3, <2>1, <2>2 DEF EndInv
  <2> QED BY <2>3, <2>4
<1> QED BY <1>2, <1>3

\* A step of the server's answer to stream s.
LEMMA ReplyOrder ==
  ASSUME TypeInv, DownInv, OrderInv, EndInv, NEW s \in Streams, Reply(s)
  PROVE  OrderInv' /\ EndInv'
<1>1. down \in Seq(Receivable) /\ Len(down) \in Nat /\ DOMAIN down = 1..Len(down)
  BY DEF DownInv
<1>2. UNCHANGED <<read, shut, link>> /\ link = "open" /\ s \notin server.answered
  BY DEF Reply, Replies, ServerSame, streams, input
<1>3. read \in [Streams -> Nat] /\ server.sent \in [Streams -> Nat]
  BY DEF TypeInv, Servers
<1> DEFINE Answer(f, end) ==
             /\ down' = Append(down, f) /\ f.sid = s /\ f.end = end
             /\ server'.answered = server.answered \cup {t \in {s} : end}
             /\ server'.refused = server.refused
             /\ \/ f.type = "headers" /\ end /\ server.sent[s] = 0 /\ server'.sent = server.sent
                \/ /\ f.type = "data" /\ f.n = server.sent[s] + 1
                   /\ server'.sent = [server.sent EXCEPT ![s] = @ + 1]
<1>4. PICK f, end : end \in BOOLEAN /\ Answer(f, end)
  <2>1. CASE server.sent[s] = 0 /\ Replies(s, Frame("headers", s, 0, TRUE), server)
    <3>1. /\ server'.answered = server.answered \cup {t \in {s} : TRUE}
          /\ server'.refused = server.refused /\ server'.sent = server.sent
      BY <2>1 DEF Replies, Frame, TypeInv, Servers
    <3>2. Answer(Frame("headers", s, 0, TRUE), TRUE)
      BY <2>1, <3>1 DEF Replies, Frame
    <3> HIDE DEF Answer
    <3> QED BY <3>2
  <2>2. ASSUME NEW end \in BOOLEAN,
               Replies(s, Frame("data", s, server.sent[s] + 1, end),
                       [server EXCEPT !.sent[s] = @ + 1, !.credit = Spent(s)])
        PROVE  Answer(Frame("data", s, server.sent[s] + 1, end), end)
    <3>1. /\ server'.answered = server.answered \cup {t \in {s} : end}
          /\ server'.refused = server.refused
          /\ server'.sent = [server.sent EXCEPT ![s] = @ + 1]
      BY <2>2 DEF Replies, Frame, TypeInv, Servers
    <3> QED BY <2>2, <3>1 DEF Replies, Frame
  <2> HIDE DEF Answer
  <2> QED BY <2>1, <2>2 DEF Reply
<1>5. /\ DOMAIN down' = DOMAIN down \cup {Len(down) + 1}
      /\ \A i \in DOMAIN down : down'[i] = down[i] /\ i < Len(down) + 1
      /\ down'[Len(down) + 1] = f
  BY <1>1, <1>4, AppendFacts
<1>6. CASE f.type = "headers" /\ end /\ server.sent[s] = 0 /\ server'.sent = server.sent
  <2>1. OrderInv'
    <3> SUFFICES ASSUME NEW t \in Streams
                 PROVE  /\ read[t] <= server.sent[t]
                        /\ \A i \in DOMAIN down' : IsData(i, t)' => down'[i].n \in read[t] + 1..server.sent[t]
                        /\ \A i, j \in DOMAIN down' :
                             IsData(i, t)' /\ IsData(j, t)' /\ i < j => down'[i].n < down'[j].n
                        /\ \A m \in read[t] + 1..server.sent[t] :
                             \E j \in DOMAIN down' : IsData(j, t)' /\ down'[j].n = m
      BY <1>2, <1>6 DEF OrderInv
    <3>1. \A i \in DOMAIN down' : IsData(i, t)' => i \in DOMAIN down /\ IsData(i, t)
      BY <1>5, <1>6 DEF IsData
    <3>2. \A i \in DOMAIN down : IsData(i, t) => IsData(i, t)'
      BY <1>5 DEF IsData
    <3> QED BY <1>2, <1>5, <3>1, <3>2 DEF OrderInv
  <2>2. EndInv'
    BY <1>2, <1>4, <1>5, <1>6 DEF EndInv
  <2> QED BY <2>1, <2>2
<1>7. CASE /\ f.type = "data" /\ f.n = server.sent[s] + 1
           /\ server'.sent = [server.sent EXCEPT ![s] = @ + 1]
  <2>1. server'.sent[s] = server.sent[s] + 1 /\ \A t \in Streams \ {s} : server'.sent[t] = server.sent[t]
    BY <1>3, <1>7
  <2>2. ASSUME NEW t \in Streams, t # s
        PROVE  /\ read[t] <= server'.sent[t]
               /\ \A i \in DOMAIN down' : IsData(i, t)' => down'[i].n \in read[t] + 1..server'.sent[t]
               /\ \A i, j \in DOMAIN down' :
                    IsData(i, t)' /\ IsData(j, t)' /\ i < j => down'[i].n < down'[j].n
               /\ \A m \in read[t] + 1..server'.sent[t] :
                    \E j \in DOMAIN down' : IsData(j, t)' /\ down'[j].n = m
    <3>1. \A i \in DOMAIN down' : IsData(i, t)' => i \in DOMAIN down /\ IsData(i, t)
      BY <1>4, <1>5, <2>2 DEF IsData
    <3>2. \A i \in DOMAIN down : IsData(i, t) => IsData(i, t)'
      BY <1>5 DEF IsData
    <3> QED BY <1>2, <1>5, <2>1, <2>2, <3>1, <3>2 DEF OrderInv
  <2>3. /\ read[s] <= server'.sent[s]
        /\ \A i \in DOMAIN down' : IsData(i, s)' => down'[i].n \in read[s] + 1..server'.sent[s]
        /\ \A i, j \in DOMAIN down' :
             IsData(i, s)' /\ IsData(j, s)' /\ i < j => down'[i].n < down'[j].n
        /\ \A m \in read[s] + 1..server'.sent[s] :
             \E j \in DOMAIN down' : IsData(j, s)' /\ down'[j].n = m
    <3> PICK last : last = Len(down) + 1
      OBVIOUS
    <3>1. \A i \in DOMAIN down : IsData(i, s)' <=> IsData(i, s)
      BY <1>5 DEF IsData
    <3>2. IsData(last, s)' /\ down'[last].n = server.sent[s] + 1 /\ last \in DOMAIN down'
      BY <1>4, <1>5, <1>7 DEF IsData
    <3>3. /\ read[s] <= server.sent[s]
          /\ \A i \in DOMAIN down : IsData(i, s) => down[i].n \in read[s] + 1..server.sent[s]
          /\ \A i, j \in DOMAIN down : IsData(i, s) /\ IsData(j, s) /\ i < j => down[i].n < down[j].n
          /\ \A m \in read[s] + 1..server.sent[s] : \E j \in DOMAIN down : IsData(j, s) /\ down[j].n = m
      BY <1>2 DEF OrderInv
    <3>4. read[s] \in Nat /\ server.sent[s] \in Nat
      BY <1>3
    <3>5. \A i \in DOMAIN down' : i \in DOMAIN down \/ i = last
      BY <1>5
    <3>6. \A i \in DOMAIN down' : IsData(i, s)' => down'[i].n \in read[s] + 1..server'.sent[s]
      BY <1>5, <2>1, <3>1, <3>2, <3>3, <3>4, <3>5
    <3>7. \A i, j \in DOMAIN down' :
            IsData(i, s)' /\ IsData(j, s)' /\ i < j => down'[i].n < down'[j].n
      <4>1. \A j \in DOMAIN down' : ~(last < j)
        BY <1>1, <1>5
      <4> QED BY <1>5, <3>1, <3>2, <3>3, <3>4, <3>5, <4>1
    <3>8. \A m \in read[s] + 1..server'.sent[s] :
             \E j \in DOMAIN down' : IsData(j, s)' /\ down'[j].n = m
      BY <1>5, <2>1, <3>1, <3>2, <3>3, <3>4
    <3> QED BY <2>1, <3>3, <3>4, <3>6, <3>7, <3>8
  <2>4. OrderInv'
    BY <1>2, <2>2, <2>3 DEF OrderInv
  <2>5. EndInv'
    BY <1>2, <1>4, <1>5, <1>7, <2>1 DEF EndInv
  <2> QED BY <2>4, <2>5
<1> QED BY <1>4, <1>6, <1>7

\* Reading a frame: DATA comes in the order of its numbers.
LEMMA RecvOrder ==
  ASSUME TypeInv, DownInv, OrderInv, EndInv, RecvFrame
  PROVE  OrderInv' /\ EndInv'
<1>1. /\ down \in Seq(Receivable) /\ Len(down) \in Nat /\ Len(down) >= 1 /\ down # <<>>
      /\ DOMAIN down = 1..Len(down) /\ down' = Tail(down)
      /\ Head(down) = down[1] /\ Head(down) \in Receivable
  BY DEF DownInv, RecvFrame
<1>2. /\ DOMAIN down' = 1..(Len(down) - 1)
      /\ \A i \in DOMAIN down' : i + 1 \in DOMAIN down /\ down'[i] = down[i + 1]
  BY <1>1
<1>3. UNCHANGED <<server, link>> /\ read \in [Streams -> Nat] /\ server.sent \in [Streams -> Nat]
  BY DEF RecvFrame, TypeInv, Servers
<1>4. PICK f : f = down[1]
  OBVIOUS
<1>5. /\ f.type \in {"settings", "data", "headers", "reset"}
      /\ f.type # "settings" => f.sid \in Streams
  BY <1>1, <1>4 DEF Receivable
<1>6. /\ f.type = "data" => OnData(f)
      /\ f.type = "headers" => OnHeaders(f)
      /\ f.type = "settings" => OnSettings
      /\ f.type = "reset" => OnReset(f)
  BY <1>1, <1>4, <1>5 DEF RecvFrame
<1>7. /\ f.type = "data" => read' = [read EXCEPT ![f.sid] = @ + 1]
      /\ f.type # "data" => read' = read
      /\ shut'.rd = shut.rd \cup {s \in {f.sid} : f.type = "headers" \/ (f.type = "data" /\ f.end)}
  <2>1. shut \in [rd : SUBSET Streams, wr : SUBSET Streams]
    BY DEF TypeInv
  <2> QED BY <1>5, <1>6, <2>1 DEF OnData, OnHeaders, OnSettings, OnReset, Shutdown, CloseStreams
<1>8. ASSUME NEW t \in Streams
      PROVE  /\ read'[t] <= server.sent[t]
             /\ \A i \in DOMAIN down' : IsData(i, t)' => down'[i].n \in read'[t] + 1..server.sent[t]
             /\ \A i, j \in DOMAIN down' :
                  IsData(i, t)' /\ IsData(j, t)' /\ i < j => down'[i].n < down'[j].n
             /\ \A m \in read'[t] + 1..server.sent[t] :
                  \E j \in DOMAIN down' : IsData(j, t)' /\ down'[j].n = m
             /\ f.type = "data" /\ f.sid = t => f.n = read'[t]
             /\ ~(f.type = "data" /\ f.sid = t) => read'[t] = read[t]
  <2>1. \A i \in DOMAIN down' : IsData(i, t)' <=> IsData(i + 1, t)
    BY <1>2 DEF IsData
  <2>2. /\ read[t] <= server.sent[t]
        /\ \A i \in DOMAIN down : IsData(i, t) => down[i].n \in read[t] + 1..server.sent[t]
        /\ \A i, j \in DOMAIN down : IsData(i, t) /\ IsData(j, t) /\ i < j => down[i].n < down[j].n
        /\ \A m \in read[t] + 1..server.sent[t] : \E j \in DOMAIN down : IsData(j, t) /\ down[j].n = m
    BY <1>1 DEF OrderInv
  <2>3. read[t] \in Nat /\ server.sent[t] \in Nat
    BY <1>3
  <2>4. \A j \in DOMAIN down : j # 1 => j - 1 \in DOMAIN down' /\ (j - 1) + 1 = j
    BY <1>1, <1>2
  <2>5. \A i, j \in DOMAIN down' :
          IsData(i, t)' /\ IsData(j, t)' /\ i < j => down'[i].n < down'[j].n
    <3>1. \A i, j \in DOMAIN down' : i < j => i + 1 < j + 1
      BY <1>2
    <3> QED BY <1>2, <2>1, <2>2, <3>1
  <2>6. IsData(1, t) <=> (f.type = "data" /\ f.sid = t)
    BY <1>4 DEF IsData
  <2>7. CASE ~IsData(1, t)
    <3>1. read'[t] = read[t]
      BY <1>3, <1>5, <1>7, <2>6, <2>7
    <3>2. \A m \in read[t] + 1..server.sent[t] :
            \E j \in DOMAIN down' : IsData(j, t)' /\ down'[j].n = m
      <4> SUFFICES ASSUME NEW m \in read[t] + 1..server.sent[t]
                   PROVE  \E j \in DOMAIN down' : IsData(j, t)' /\ down'[j].n = m
        OBVIOUS
      <4>1. PICK j \in DOMAIN down : IsData(j, t) /\ down[j].n = m
        BY <2>2
      <4>2. j # 1
        BY <2>7, <4>1
      <4>3. PICK k \in DOMAIN down' : k + 1 = j
        BY <2>4, <4>2
      <4> QED BY <1>2, <2>1, <4>1, <4>3
    <3>3. \A i \in DOMAIN down' : IsData(i, t)' => down'[i].n \in read[t] + 1..server.sent[t]
      BY <1>2, <2>1, <2>2
    <3> QED BY <2>2, <2>5, <2>6, <2>7, <3>1, <3>2, <3>3
  <2>8. CASE IsData(1, t)
    <3>1. f.n \in read[t] + 1..server.sent[t] /\ 1 \in DOMAIN down
      BY <1>1, <1>4, <2>2, <2>8
    <3>2. \A j \in DOMAIN down : j # 1 /\ IsData(j, t) => f.n < down[j].n
      <4>1. \A j \in DOMAIN down : j # 1 => 1 < j
        BY <1>1
      <4> QED BY <1>4, <2>2, <2>8, <3>1, <4>1
    <3>3. f.n = read[t] + 1
      <4>1. read[t] + 1 \in read[t] + 1..server.sent[t]
        BY <2>3, <3>1
      <4>2. PICK j \in DOMAIN down : IsData(j, t) /\ down[j].n = read[t] + 1
        BY <2>2, <4>1
      <4>3. CASE j = 1
        BY <1>4, <4>2, <4>3
      <4>4. CASE j # 1
        BY <2>3, <3>1, <3>2, <4>2, <4>4
      <4> QED BY <4>3, <4>4
    <3>4. read'[t] = read[t] + 1
      BY <1>3, <1>7, <2>6, <2>8
    <3>5. \A m \in read'[t] + 1..server.sent[t] :
            \E j \in DOMAIN down' : IsData(j, t)' /\ down'[j].n = m
      <4> SUFFICES ASSUME NEW m \in read'[t] + 1..server.sent[t]
                   PROVE  \E j \in DOMAIN down' : IsData(j, t)' /\ down'[j].n = m
        OBVIOUS
      <4>1. m \in read[t] + 1..server.sent[t] /\ m # read[t] + 1
        BY <2>3, <3>4
      <4>2. PICK j \in DOMAIN down : IsData(j, t) /\ down[j].n = m
        BY <2>2, <4>1
      <4>3. j # 1
        BY <1>4, <3>3, <4>1, <4>2
      <4>4. PICK k \in DOMAIN down' : k + 1 = j
        BY <2>4, <4>3
      <4> QED BY <1>2, <2>1, <4>2, <4>4
    <3>6. \A i \in DOMAIN down' : IsData(i, t)' => down'[i].n \in read'[t] + 1..server.sent[t]
      <4> SUFFICES ASSUME NEW i \in DOMAIN down', IsData(i, t)'
                   PROVE  down'[i].n \in read'[t] + 1..server.sent[t]
        OBVIOUS
      <4>1. i + 1 \in DOMAIN down /\ i + 1 # 1 /\ IsData(i + 1, t) /\ down'[i] = down[i + 1]
        BY <1>2, <2>1
      <4>2. down[i + 1].n \in read[t] + 1..server.sent[t] /\ f.n < down[i + 1].n
        BY <2>2, <3>2, <4>1
      <4> QED BY <2>3, <3>3, <3>4, <4>1, <4>2
    <3>7. read'[t] <= server.sent[t]
      BY <2>3, <3>1, <3>3, <3>4
    <3> QED BY <2>5, <2>6, <2>8, <3>3, <3>4, <3>5, <3>6, <3>7
  <2> QED BY <2>7, <2>8
<1>9. OrderInv'
  BY <1>3, <1>8 DEF OrderInv
<1>10. EndInv'
  <2>1. \A i \in DOMAIN down' :
          /\ down'[i].type = "data" /\ down'[i].end =>
               down'[i].sid \in server.answered /\ down'[i].n = server.sent[down'[i].sid]
          /\ down'[i].type = "headers" =>
               down'[i].sid \in server.answered /\ server.sent[down'[i].sid] = 0
          /\ down'[i].type = "reset" => down'[i].sid \in server.refused
    BY <1>2 DEF EndInv
  <2>2. ASSUME NEW t \in shut'.rd
        PROVE  t \in server.answered /\ read'[t] = server.sent[t]
    <3>1. t \in Streams
      BY <1>5, <1>7 DEF TypeInv
    <3>2. 1 \in DOMAIN down
      BY <1>1
    <3>3. CASE t \in shut.rd
      <4>1. t \in server.answered /\ read[t] = server.sent[t]
        BY <3>3 DEF EndInv
      <4>2. read'[t] <= server.sent[t] /\ read'[t] >= read[t]
        BY <1>3, <1>7, <1>8, <3>1
      <4> QED BY <1>3, <1>7, <1>8, <3>1, <4>1, <4>2
    <3>4. CASE t = f.sid /\ f.type = "headers"
      <4>1. t \in server.answered /\ server.sent[t] = 0
        BY <1>4, <3>2, <3>4 DEF EndInv
      <4> QED BY <1>3, <1>7, <1>8, <3>1, <3>4, <4>1
    <3>5. CASE t = f.sid /\ f.type = "data" /\ f.end
      <4>1. t \in server.answered /\ f.n = server.sent[t]
        BY <1>4, <3>2, <3>5 DEF EndInv
      <4> QED BY <1>8, <3>1, <3>5, <4>1
    <3> QED BY <1>7, <2>2, <3>3, <3>4, <3>5
  <2> QED BY <1>3, <2>1, <2>2 DEF EndInv
<1> QED BY <1>9, <1>10

\* Every step keeps the order of the answers.
LEMMA OrderStep ==
  ASSUME TypeInv, DownInv, OrderInv, EndInv, [Next]_vars
  PROVE  OrderInv' /\ EndInv'
<1>1. CASE Hello
  <2>1. /\ down' = Append(down, Plain("settings")) /\ link = "open"
        /\ UNCHANGED <<read, link, shut>>
    BY <1>1 DEF Hello, ServerSame, streams, input
  <2>2. Plain("settings").type = "settings"
    BY DEF Plain, Frame
  <2>3. /\ server'.sent = server.sent /\ server'.answered = server.answered
        /\ server'.refused = server.refused
    BY <1>1 DEF Hello, TypeInv, Servers
  <2> QED BY <2>1, <2>2, <2>3, OtherFrame
<1>2. CASE ServerReads
  <2> DEFINE f == wire[1][1]
  <2>1. Greets(f) \/ Handles(f)
    BY <1>2 DEF ServerReads
  <2> HIDE DEF f
  <2>2. UNCHANGED <<read, link, shut>> /\ link = "open"
    BY <2>1 DEF Greets, Handles, ServerTakes, streams, input
  <2>3. \/ \E phase : server' = [server EXCEPT !.phase = phase]
        \/ \E credit : server' = [server EXCEPT !.credit = credit]
        \/ server' = [server EXCEPT !.heard = Heard(f)]
        \/ server' = [server EXCEPT !.asked = @ \cup {f.sid}, !.heard = Heard(f)]
        \/ server' = [server EXCEPT !.asked = @ \cup {f.sid}, !.heard = Heard(f),
                                    !.answered = @ \cup {f.sid},
                                    !.refused = @ \cup {f.sid}]
    BY <2>1 DEF Greets, Handles, ServerTakes
  <2>4. /\ server'.sent = server.sent /\ server.answered \subseteq server'.answered
        /\ server.refused \subseteq server'.refused
    <3>1. server \in Servers
      BY DEF TypeInv
    <3>2. ASSUME NEW phase, server' = [server EXCEPT !.phase = phase]
          PROVE  UNCHANGED <<server.sent, server.answered, server.refused>>
      BY <3>1, <3>2 DEF Servers
    <3>3. ASSUME NEW credit, server' = [server EXCEPT !.credit = credit]
          PROVE  UNCHANGED <<server.sent, server.answered, server.refused>>
      BY <3>1, <3>3 DEF Servers
    <3>4. CASE server' = [server EXCEPT !.heard = Heard(f)]
      BY <3>1, <3>4 DEF Servers
    <3>5. CASE server' = [server EXCEPT !.asked = @ \cup {f.sid}, !.heard = Heard(f)]
      BY <3>1, <3>5 DEF Servers
    <3>6. CASE server' = [server EXCEPT !.asked = @ \cup {f.sid}, !.heard = Heard(f),
                                        !.answered = @ \cup {f.sid},
                                        !.refused = @ \cup {f.sid}]
      BY <3>1, <3>6 DEF Servers
    <3> QED BY <2>3, <3>2, <3>3, <3>4, <3>5, <3>6
  <2>5. \/ down' = down
        \/ /\ down' = Append(down, Frame("reset", f.sid, 0, TRUE))
           /\ f.sid \in server'.refused
    <3>1. down \in Seq(Receivable) /\ down \o <<>> = down
      BY DEF DownInv
    <3>2. \A e : down \o <<e>> = Append(down, e)
      BY <3>1
    <3>3. \/ down' = down \o <<>>
          \/ /\ down' = down \o <<Frame("reset", f.sid, 0, TRUE)>>
             /\ server' = [server EXCEPT !.asked = @ \cup {f.sid}, !.heard = Heard(f),
                                         !.answered = @ \cup {f.sid},
                                         !.refused = @ \cup {f.sid}]
      BY <2>1 DEF Greets, Handles, ServerTakes
    <3>4. server' = [server EXCEPT !.asked = @ \cup {f.sid}, !.heard = Heard(f),
                                   !.answered = @ \cup {f.sid},
                                   !.refused = @ \cup {f.sid}]
            => f.sid \in server'.refused
      BY DEF TypeInv, Servers
    <3> QED BY <3>1, <3>2, <3>3, <3>4
  <2>6. /\ Frame("reset", f.sid, 0, TRUE).type = "reset"
        /\ Frame("reset", f.sid, 0, TRUE).sid = f.sid
    BY DEF Frame
  <2> QED BY <2>2, <2>4, <2>5, <2>6, OtherFrame
<1>3. CASE Close
  <2>1. /\ down' = <<>> \/ down' = down
        /\ link' = "closed" /\ UNCHANGED <<read, shut, server>>
    BY <1>3 DEF Close, ServerSame, streams, input, DownInv
  <2>2. CASE down' = <<>>
    BY <2>1, <2>2 DEF OrderInv, EndInv, IsData
  <2>3. CASE down' = down
    BY <2>1, <2>3 DEF OrderInv, EndInv, IsData
  <2> QED BY <2>1, <2>2, <2>3
<1>4. CASE Submit \/ Run \/ SessionSend \/ RecvFails \/ Interrupted \/ UNCHANGED vars
  <2>1. UNCHANGED <<down, read, link, server>>
    BY <1>4 DEF Submit, SubmitWith, Run, RecvFails, Interrupted, vars, SessionSend,
         PopItem, PackUrgent, PackReg, PackSyn, PackData, Pack, NothingToSend,
         AfterFrameSent, SendPlain, SendTls, SendWouldBlock, RecordStays, SendFails,
         SendSame, input, net
  <2>2. shut'.rd = shut.rd
    <3>1. CASE AfterFrameSent
      BY <3>1 DEF AfterFrameSent, Shutdown, CloseStreams, TypeInv
    <3>2. CASE ~AfterFrameSent
      BY <1>4, <3>2 DEF Submit, SubmitWith, Run, RecvFails, Interrupted, vars, SessionSend,
           PopItem, PackUrgent, PackReg, PackSyn, PackData, Pack, NothingToSend,
           SendPlain, SendTls, SendWouldBlock, RecordStays, SendFails, SendSame, streams
    <3> QED BY <3>1, <3>2
  <2> QED BY <2>1, <2>2, OtherFrame
<1> QED BY <1>1, <1>2, <1>3, <1>4, RecvOrder, ReplyOrder DEF Next, Client, Server

-----------------------------------------------------------------------------
(* On the way out *)

LEMMA OpenedFacts ==
  ASSUME TypeInv
  PROVE  /\ Len(own) \in Nat /\ syn \in Seq(Requests) /\ Len(syn) \in Nat
         /\ DOMAIN syn = 1..Len(syn) /\ Opened = 1..(Len(own) - Len(syn))
         /\ body \in [Streams -> Int] /\ attached \subseteq Streams
         /\ shut \in [rd : SUBSET Streams, wr : SUBSET Streams]
BY DEF TypeInv, Opened

LEMMA SynFrame ==
  ASSUME TypeInv, SynInv, NEW i \in DOMAIN syn
  PROVE  /\ syn[i].sid \in Streams /\ syn[i].sid \in Nat \ {0} /\ syn[i].type = "headers"
         /\ syn[i].sid = Len(own) - Len(syn) + i
         /\ syn[i].end => body[syn[i].sid] = 0
<1>1. syn[i] \in Requests
  BY OpenedFacts
<1>2. syn[i].sid \in Streams
  BY <1>1 DEF Requests, TypeInv
<1> QED BY <1>2, StreamNumbers DEF SynInv

\* A new request is behind all others, and its stream is not open yet.
LEMMA SubmitOut ==
  ASSUME TypeInv, SynInv, SentInv, Submit
  PROVE  SynInv' /\ SentInv'
<1>1. UNCHANGED <<attached, cur, shut>>
  BY DEF Submit, SubmitWith, active, streams
<1>2. CASE UNCHANGED <<own, syn, body>>
  BY <1>1, <1>2 DEF SynInv, SentInv, Opened
<1>3. ASSUME NEW s \in {Len(own) + 1} \cap Streams, NEW frames \in 0..PostFrames,
             own' = Append(own, attempts'), body' = [body EXCEPT ![s] = frames],
             syn' = Append(syn, Frame("headers", s, 0, frames = 0))
      PROVE  SynInv' /\ SentInv'
  <2>1. /\ Len(own') = Len(own) + 1 /\ Len(syn') = Len(syn) + 1
        /\ DOMAIN syn' = DOMAIN syn \cup {Len(syn) + 1}
        /\ \A i \in DOMAIN syn : syn'[i] = syn[i]
        /\ syn'[Len(syn) + 1] = Frame("headers", s, 0, frames = 0)
    <3>1. own \in Seq(1..attempts)
      BY DEF TypeInv
    <3>2. Len(own') = Len(own) + 1
      BY <1>3, <3>1
    <3>3. syn \in Seq(Requests) /\ Len(syn') = Len(syn) + 1
      BY <1>3, OpenedFacts
    <3> QED BY <1>3, <3>2, <3>3, AppendFacts
  <2>2. Opened' = Opened /\ s \notin Opened
    BY <1>3, <2>1, OpenedFacts DEF Opened
  <2>3. body'[s] = frames /\ \A t \in Streams \ {s} : body'[t] = body[t]
    BY <1>3, OpenedFacts
  <2>4. SynInv'
    <3>1. ASSUME NEW i \in DOMAIN syn
          PROVE  /\ syn'[i].type = "headers" /\ syn'[i].sid = Len(own') - Len(syn') + i
                 /\ syn'[i].end => body'[syn'[i].sid] = 0
      <4>1. syn[i].sid \in Streams /\ syn[i].sid = Len(own) - Len(syn) + i
        BY <3>1, SynFrame
      <4>2. syn[i].sid # s
        BY <1>3, <4>1, OpenedFacts
      <4>3. body'[syn[i].sid] = body[syn[i].sid] /\ syn'[i] = syn[i]
        BY <2>1, <2>3, <3>1, <4>1, <4>2
      <4> QED BY <2>1, <3>1, <4>1, <4>3, SynFrame, OpenedFacts
    <3>2. /\ Frame("headers", s, 0, frames = 0).type = "headers"
          /\ Frame("headers", s, 0, frames = 0).sid = s
          /\ Frame("headers", s, 0, frames = 0).end = (frames = 0)
      BY DEF Frame
    <3>3. s = Len(own') - Len(syn') + (Len(syn) + 1)
      BY <1>3, <2>1, OpenedFacts
    <3>4. ASSUME NEW i, i = Len(syn) + 1
          PROVE  /\ syn'[i].type = "headers" /\ syn'[i].sid = Len(own') - Len(syn') + i
                 /\ syn'[i].end => body'[syn'[i].sid] = 0
      <4>1. syn'[i].type = "headers" /\ syn'[i].sid = s
        BY <2>1, <3>2, <3>4
      <4>2. CASE frames = 0
        BY <2>3, <3>3, <3>4, <4>1, <4>2
      <4>3. CASE frames # 0
        <5>1. ~syn'[i].end
          BY <2>1, <3>2, <3>4, <4>3
        <5> QED BY <3>3, <3>4, <4>1, <5>1
      <4> QED BY <4>2, <4>3
    <3> QED BY <2>1, <3>1, <3>4 DEF SynInv
  <2>5. SentInv'
    <3>1. \A t \in Opened \cap Streams : body'[t] = body[t]
      BY <2>2, <2>3
    <3>2. shut.wr \subseteq Opened \cap Streams
      BY OpenedFacts DEF SentInv
    <3>3. cur.type \in {"headers", "data"} => cur.sid \in Opened \cap Streams
      <4>1. cur.type \in {"headers", "data"} => cur \in Sendable
        BY DEF TypeInv, NoFrame, Plain, Frame
      <4> QED BY <4>1 DEF SentInv, TypeInv, Sendable
    <3> QED BY <1>1, <2>2, <3>1, <3>2, <3>3 DEF SentInv
  <2> QED BY <2>4, <2>5
<1> QED BY <1>2, <1>3 DEF Submit, SubmitWith

\* HEADERS open the next stream; with END_STREAM there is no body.
LEMMA SynOut ==
  ASSUME TypeInv, SynInv, SentInv, PackSyn
  PROVE  SynInv' /\ SentInv' /\ Opened' = Opened \cup (open' \ open) \cup {cur'.sid}
         /\ cur'.sid \in open'
<1>1. /\ UNCHANGED <<own, body, attached, shut>> /\ cur' = syn[1] /\ syn # <<>>
      /\ syn' = Tail(syn) /\ open' = open \cup {cur'.sid}
  BY DEF PackSyn, SynReady, Pack, app
<1>2. /\ Len(syn) >= 1 /\ 1 \in DOMAIN syn /\ Len(syn') = Len(syn) - 1
      /\ DOMAIN syn' = 1..(Len(syn) - 1)
      /\ \A i \in DOMAIN syn' : i + 1 \in DOMAIN syn /\ syn'[i] = syn[i + 1]
  BY <1>1, OpenedFacts
<1>3. cur'.sid = Len(own) - Len(syn) + 1 /\ (cur'.end => body[cur'.sid] = 0)
  BY <1>1, <1>2, SynFrame
<1>4. cur'.sid \in Nat \ {0}
  BY <1>1, <1>2, SynFrame
<1>5. Opened' = 1..(Len(own) - Len(syn) + 1)
  BY <1>1, <1>2, OpenedFacts DEF Opened
<1>6. Opened' = Opened \cup {cur'.sid} /\ cur'.sid \notin Opened
  <2>1. \A n \in Int : n + 1 \in Nat \ {0} => 1..(n + 1) = 1..n \cup {n + 1} /\ n + 1 \notin 1..n
    OBVIOUS
  <2>2. Len(own) - Len(syn) \in Int
    BY OpenedFacts
  <2> QED BY <1>3, <1>4, <1>5, <2>1, <2>2, OpenedFacts
<1>7. SynInv'
  <2> SUFFICES ASSUME NEW i \in DOMAIN syn'
               PROVE  /\ syn'[i].type = "headers" /\ syn'[i].sid = Len(own) - Len(syn') + i
                      /\ syn'[i].end => body[syn'[i].sid] = 0
    BY <1>1 DEF SynInv
  <2> QED BY <1>2, OpenedFacts DEF SynInv
<1>8. SentInv'
  BY <1>1, <1>3, <1>6 DEF SentInv
<1> QED BY <1>1, <1>6, <1>7, <1>8

\* DATA is packed from what is left, and says so when it is the last.
LEMMA DataOut ==
  ASSUME TypeInv, SynInv, SentInv, PackData
  PROVE  SynInv' /\ SentInv'
<1>1. PICK s \in attached :
          /\ Pack(Frame("data", s, 0, body[s] = 1))
          /\ body' = [body EXCEPT ![s] = @ - 1]
          /\ UNCHANGED <<urgent, reg, syn, attached, open>>
  BY DEF PackData
<1>2. /\ UNCHANGED <<own, shut>> /\ cur'.sid = s /\ cur'.type = "data"
      /\ cur'.end = (body[s] = 1)
  BY <1>1 DEF Pack, app, Frame
<1>3. s \in Streams /\ s \in Opened \ shut.wr /\ Opened' = Opened
  BY <1>1, <1>2, OpenedFacts DEF SentInv, Opened
<1>4. body'[s] = body[s] - 1 /\ \A t \in Streams \ {s} : body'[t] = body[t]
  BY <1>1, <1>3, OpenedFacts
<1>5. SynInv'
  <2>1. ASSUME NEW i \in DOMAIN syn
        PROVE  syn[i].sid \in Streams /\ syn[i].sid # s
    <3>1. syn[i].sid \in Streams /\ syn[i].sid = Len(own) - Len(syn) + i
      BY SynFrame
    <3> QED BY <1>3, <3>1, OpenedFacts
  <2> QED BY <1>1, <1>2, <1>4, <2>1 DEF SynInv
<1>6. SentInv'
  <2>1. shut.wr \subseteq Streams \ {s}
    BY <1>3, OpenedFacts
  <2>2. cur'.end => body'[s] = 0
    <3>1. CASE body[s] = 1
      BY <1>4, <3>1
    <3>2. CASE body[s] # 1
      BY <1>2, <3>2
    <3> QED BY <3>1, <3>2
  <2> QED BY <1>1, <1>2, <1>3, <1>4, <2>1, <2>2 DEF SentInv
<1> QED BY <1>5, <1>6

\* END_STREAM was sent: the stream is shut for writing and has no DATA left.
LEMMA AfterOut ==
  ASSUME TypeInv, SynInv, SentInv, AfterFrameSent
  PROVE  SynInv' /\ SentInv'
<1>1. UNCHANGED <<own, syn, body>> /\ cur'.type = "none"
  BY DEF AfterFrameSent, app, NoFrame, Plain, Frame
<1>2. SynInv' /\ Opened' = Opened
  BY <1>1 DEF SynInv, Opened
<1>3. CASE cur.type \in {"headers", "data"} /\ cur.end
  <2>1. /\ shut' = [shut EXCEPT !.wr = @ \cup {cur.sid}]
        /\ attached' \subseteq attached \ {cur.sid}
    BY <1>3 DEF AfterFrameSent, Shutdown, CloseStreams
  <2>2. shut'.wr = shut.wr \cup {cur.sid}
    BY <2>1, OpenedFacts
  <2> QED BY <1>1, <1>2, <1>3, <2>1, <2>2 DEF SentInv
<1>4. CASE cur.type = "headers" /\ ~cur.end
  <2>1. UNCHANGED shut /\ attached' \subseteq attached \cup {cur.sid}
    BY <1>4 DEF AfterFrameSent
  <2> QED BY <1>1, <1>2, <1>4, <2>1 DEF SentInv
<1>5. CASE UNCHANGED <<attached, shut>>
  BY <1>1, <1>2, <1>5 DEF SentInv
<1>6. UNCHANGED <<attached, shut>> \/ (cur.type \in {"headers", "data"} /\ cur.end)
        \/ (cur.type = "headers" /\ ~cur.end)
  BY DEF AfterFrameSent
<1> QED BY <1>2, <1>3, <1>4, <1>5, <1>6

\* Every step keeps the requests in order and their ends at their end.
LEMMA OutStep ==
  ASSUME TypeInv, DownInv, SynInv, SentInv, [Next]_vars
  PROVE  SynInv' /\ SentInv'
<1>1. ASSUME UNCHANGED <<own, syn, body>>, shut'.wr = shut.wr,
             attached' \subseteq attached,
             cur' = cur \/ cur'.type \notin {"headers", "data"}
      PROVE  SynInv' /\ SentInv'
  <2>1. Opened' = Opened
    BY <1>1 DEF Opened
  <2> QED BY <1>1, <2>1 DEF SynInv, SentInv
<1>2. CASE PackUrgent \/ PackReg
  <2>1. UNCHANGED <<own, syn, body, shut, attached>>
    BY <1>2 DEF PackUrgent, PackReg, Pack, app
  <2>2. cur' = cur \/ cur' \in Control
    <3>1. CASE PackUrgent
      BY <3>1, SeqFacts DEF PackUrgent, Pack, TypeInv
    <3>2. CASE PackReg
      BY <3>2, SeqFacts DEF PackReg, Pack, TypeInv, active
    <3> QED BY <1>2, <3>1, <3>2
  <2> QED BY <1>1, <2>1, <2>2 DEF Control
<1>3. CASE RecvFrame
  <2>1. Head(down) \in Receivable /\ Head(down).type \in {"settings", "data", "headers", "reset"}
    <3>1. Head(down) \in Receivable
      BY <1>3, SeqFacts DEF RecvFrame, DownInv
    <3> QED BY <3>1 DEF Receivable
  <2>2. UNCHANGED <<own, syn, body, cur>>
    BY <1>3 DEF RecvFrame, app, active
  <2>3. shut'.wr = shut.wr /\ attached' \subseteq attached
    BY <1>3, <2>1, OpenedFacts
       DEF RecvFrame, OnSettings, OnData, OnHeaders, OnReset, Shutdown, CloseStreams
  <2> QED BY <1>1, <2>2, <2>3
<1>4. CASE \/ Run \/ NothingToSend \/ SendPlain \/ SendTls \/ SendWouldBlock \/ SendFails
           \/ RecvFails \/ Interrupted \/ UNCHANGED vars
  <2>1. UNCHANGED <<own, syn, body, shut, attached, cur>>
    BY <1>4 DEF Run, NothingToSend, SendPlain, SendTls, SendWouldBlock, RecordStays,
         SendFails, SendSame, RecvFails, Interrupted, vars, app, queues, active, streams
  <2> QED BY <1>1, <2>1
<1>5. CASE Server \/ Close
  <2>1. UNCHANGED <<own, syn, body, shut, attached, cur>>
    BY <1>5 DEF Server, Close, Hello, ServerReads, Greets, Handles, ServerTakes, Reply,
         Replies, ServerSame, app, queues, active, streams
  <2> QED BY <1>1, <2>1
<1> QED BY <1>2, <1>3, <1>4, <1>5, SubmitOut, SynOut, DataOut, AfterOut
    DEF Next, Client, SessionSend, PopItem

-----------------------------------------------------------------------------
(* Why a stream is gone *)

LEMMA GoneStep ==
  ASSUME TypeInv, DownInv, CloseInv, [Next]_vars
  PROVE  GoneInv'
<1>1. ASSUME Opened' = Opened, open' = open, shut' = shut,
             server.refused \subseteq server'.refused
      PROVE  GoneInv'
  BY <1>1 DEF CloseInv, GoneInv
<1>2. ASSUME Opened' = Opened, UNCHANGED server,
             shut.rd \subseteq shut'.rd, shut.wr \subseteq shut'.wr,
             open \ open' \subseteq (shut'.rd \cap shut'.wr) \cup server.refused
      PROVE  GoneInv'
  BY <1>2 DEF CloseInv, GoneInv
<1>3. CASE PackSyn
  <2>1. Opened' = Opened \cup (open' \ open) \cup {cur'.sid} /\ cur'.sid \in open'
    BY <1>3, SynOut DEF CloseInv
  <2>2. UNCHANGED <<shut, server>> /\ open \subseteq open'
    BY <1>3 DEF PackSyn, Pack, net
  <2> QED BY <2>1, <2>2 DEF CloseInv, GoneInv
<1>4. CASE AfterFrameSent
  <2>1. Opened' = Opened /\ UNCHANGED server
    BY <1>4 DEF AfterFrameSent, Opened, app, net
  <2>2. \/ UNCHANGED <<open, shut>>
        \/ \E shut2, items : /\ shut2 = [shut EXCEPT !.wr = @ \cup {cur.sid}]
                             /\ Shutdown(shut2, items)
    BY <1>4 DEF AfterFrameSent
  <2> QED BY <1>2, <2>1, <2>2, OpenedFacts DEF Shutdown, CloseStreams
<1>5. CASE RecvFrame
  <2> DEFINE f == Head(down)
  <2>1. f \in Receivable /\ down \in Seq(Receivable) /\ f = down[1] /\ 1 \in DOMAIN down
    BY <1>5, SeqFacts DEF RecvFrame, DownInv
  <2>2. Opened' = Opened /\ UNCHANGED server
    BY <1>5 DEF RecvFrame, Opened, app
  <2>3. /\ f.type \in {"settings", "data", "headers", "reset"}
        /\ f.type = "reset" => f.sid \in server.refused
    BY <2>1 DEF Receivable, CloseInv, EndInv
  <2>4. \/ f.type = "settings" /\ OnSettings
        \/ f.type = "data" /\ OnData(f)
        \/ f.type = "headers" /\ OnHeaders(f)
        \/ f.type = "reset" /\ OnReset(f)
    BY <1>5, <2>3 DEF RecvFrame
  <2> HIDE DEF f
  <2>5. \/ UNCHANGED <<open, shut>>
        \/ \E more, items : Shutdown([shut EXCEPT !.rd = @ \cup more], items)
        \/ UNCHANGED shut /\ open' = open \ {f.sid} /\ f.type = "reset"
    BY <2>4 DEF OnSettings, OnData, OnHeaders, OnReset
  <2> QED BY <1>2, <2>2, <2>3, <2>5, OpenedFacts DEF Shutdown, CloseStreams
<1>6. CASE Submit
  <2>1. UNCHANGED <<open, shut, server>>
    BY <1>6 DEF Submit, SubmitWith, streams, net
  <2>2. Opened' = Opened
    <3>1. CASE UNCHANGED <<own, syn>>
      BY <3>1 DEF Opened
    <3>2. CASE \E e, g : own' = Append(own, e) /\ syn' = Append(syn, g)
      <4>1. PICK e, g : own' = Append(own, e) /\ syn' = Append(syn, g)
        BY <3>2
      <4>2. own \in Seq(1..attempts \cup {e}) /\ syn \in Seq(Requests \cup {g})
        BY SeqMonotone DEF TypeInv
      <4>3. Len(own') = Len(own) + 1 /\ Len(syn') = Len(syn) + 1
        BY <4>1, <4>2
      <4> QED BY <4>3, OpenedFacts DEF Opened
    <3> QED BY <1>6, <3>1, <3>2 DEF Submit, SubmitWith
  <2> QED BY <1>1, <2>1, <2>2
<1>7. CASE Server \/ Close
  <2>1. UNCHANGED <<own, syn, open, shut>>
    BY <1>7 DEF Server, Close, Hello, ServerReads, Greets, Handles, ServerTakes, Reply,
         Replies, ServerSame, app, queues, streams
  <2>2. server.refused \subseteq server'.refused
    <3>1. server \in Servers
      BY DEF TypeInv
    <3>2. CASE Hello \/ Close
      BY <3>1, <3>2 DEF Hello, Close, Servers
    <3>3. CASE ServerReads
      <4>1. \/ server'.refused = server.refused
            \/ \E f : server' = [server EXCEPT !.asked = @ \cup {f.sid}, !.heard = Heard(f),
                                    !.answered = @ \cup {f.sid},
                                    !.refused = @ \cup {f.sid}]
        BY <3>1, <3>3 DEF ServerReads, Greets, Handles, ServerTakes, Servers
      <4> QED BY <3>1, <4>1 DEF Servers
    <3>4. ASSUME NEW s \in Streams, Reply(s) PROVE server'.refused = server.refused
      BY <3>1, <3>4 DEF Reply, Replies, Servers
    <3> QED BY <1>7, <3>2, <3>3, <3>4 DEF Server
  <2> QED BY <1>1, <2>1, <2>2 DEF Opened
<1>8. CASE \/ Run \/ PackUrgent \/ PackReg \/ PackData \/ NothingToSend \/ SendPlain
           \/ SendTls \/ SendWouldBlock \/ SendFails \/ RecvFails \/ Interrupted
           \/ UNCHANGED vars
  <2>1. UNCHANGED <<own, syn, open, shut, server>>
    BY <1>8 DEF Run, PackUrgent, PackReg, PackData, Pack, NothingToSend, SendPlain,
         SendTls, SendWouldBlock, RecordStays, SendFails, SendSame, RecvFails,
         Interrupted, vars, app, queues, active, streams, net
  <2> QED BY <1>1, <2>1 DEF Opened
<1> QED BY <1>3, <1>4, <1>5, <1>6, <1>7, <1>8 DEF Next, Client, SessionSend, PopItem

LEMMA InitClose == Init => CloseInv
<1> SUFFICES ASSUME Init PROVE CloseInv
  OBVIOUS
<1>1. Magic.type = "magic"
  BY DEF Magic, Plain, Frame
<1>2. Opened = {} /\ syn = <<>> /\ down = <<>>
  BY DEF Init, Opened
<1>3. SynInv /\ SentInv /\ GoneInv
  BY <1>1, <1>2 DEF Init, SynInv, SentInv, GoneInv
<1>4. OrderInv /\ EndInv
  BY <1>2 DEF Init, OrderInv, EndInv, IsData
<1> QED BY <1>3, <1>4 DEF CloseInv

\* A stream that was opened and is gone without a refusal was answered to its
\* end, all its DATA was read and its request body was sent
\* (nghttp2_session_close_stream_if_shut_rdwr, httpc2_on_data_chunk_recv_callback).
THEOREM GoneIsWhole == Spec => []ClosedMeansWhole
<1>1. Init => CloseInv
  BY InitClose
<1>2. TypeInv /\ DownInv /\ CloseInv /\ [Next]_vars => (TypeInv /\ DownInv /\ CloseInv)'
  BY TypeStep, DownStep, OutStep, OrderStep, GoneStep DEF CloseInv
<1>3. TypeInv /\ CloseInv => ClosedMeansWhole
  BY DEF CloseInv, GoneInv, EndInv, SentInv, ClosedMeansWhole
<1> QED BY <1>1, <1>2, <1>3, InitTypes, PTL DEF Spec
=============================================================================
