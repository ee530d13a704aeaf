--------------------------- MODULE Httpc2WireProofs --------------------------
(***************************************************************************)
(* What Httpc2Session puts on the wire, and the windows, for any number of *)
(* streams, requests and frames, any frame length, record size, socket     *)
(* buffer and window, and both transports.                                 *)
(*                                                                         *)
(* UnitInv relates the wire to the frames that were packed and to the      *)
(* frame and the TLS record that are half sent; OpenedInv says that frames *)
(* are of streams that were opened; BalanceInv follows a unit of a window  *)
(* to the server and back; AgreeInv counts the streams the server takes    *)
(* for active when it reads the next frame, and RangeInv has the types.    *)
(***************************************************************************)
EXTENDS Httpc2CloseProofs, SumsProofs

\* The active frame is the last that was packed, and a record that waits to be
\* flushed holds its next units.
UnitInv ==
  /\ sending \in Seq(Sendable)
  /\ cur = NoFrame => left = 0
  /\ torn => pc = "idle" /\ left = 0
  /\ left > 0 => sending # <<>> /\ sending[Len(sending)] = cur
  /\ record # <<>> => tls
  /\ record # <<>> /\ ~torn => cur # NoFrame /\ left > 0 /\ record = Units(Taken)
  /\ WireInOrder

-----------------------------------------------------------------------------
(* The order of the units *)

\* Each frame takes FrameLen units.
LEMMA BeforeFacts ==
  /\ FrameLen \in Nat \ {0} /\ Before(1) = 0
  /\ \A k \in Nat \ {0} : Before(k) \in Nat /\ Before(k + 1) = Before(k) + FrameLen
  /\ \A k, m \in Nat \ {0} : k < m => Before(k + 1) <= Before(m)
<1>1. FrameLen \in Nat \ {0}
  BY SessionAssumption
<1>2. Before(1) = 0
  BY <1>1 DEF Before
<1>3. ASSUME NEW k \in Nat \ {0} PROVE Before(k) \in Nat /\ Before(k + 1) = Before(k) + FrameLen
  <2>1. ASSUME NEW a \in Nat, NEW F \in Nat PROVE a * F \in Nat /\ ((a + 1) + 1 - 1) * F = a * F + F
    OBVIOUS
  <2>2. k - 1 \in Nat /\ k = (k - 1) + 1
    OBVIOUS
  <2> QED BY <1>1, <2>1, <2>2 DEF Before
<1>4. ASSUME NEW k \in Nat \ {0}, NEW m \in Nat \ {0}, k < m PROVE Before(k + 1) <= Before(m)
  <2>1. PICK d \in Nat : m = (k + 1) + d
    <3>1. m - (k + 1) \in Nat /\ m = (k + 1) + (m - (k + 1))
      BY <1>4
    <3> QED BY <3>1
  <2>2. d * FrameLen \in Nat /\ k * FrameLen \in Nat
    BY <1>1
  <2>3. (m - 1) * FrameLen = k * FrameLen + d * FrameLen
    BY <1>1, <2>1
  <2>4. (k + 1) - 1 = k
    OBVIOUS
  <2> QED BY <2>2, <2>3, <2>4 DEF Before
<1> QED BY <1>1, <1>2, <1>3, <1>4

\* One sequence after another.
LEMMA ConcatFacts ==
  ASSUME NEW T, NEW w \in Seq(T), NEW u \in Seq(T)
  PROVE  /\ w \o u \in Seq(T) /\ Len(w \o u) = Len(w) + Len(u)
         /\ \A n \in 1..Len(w) : (w \o u)[n] = w[n]
         /\ \A n \in 1..Len(u) : (w \o u)[Len(w) + n] = u[n]
OBVIOUS

\* A frame more, none of whose units is on the wire.
LEMMA OrderedPack ==
  ASSUME NEW S, NEW T, NEW w \in Seq(T), NEW q \in Seq(S), NEW f \in S,
         Ordered(w, q), Len(w) <= Before(Len(q) + 1)
  PROVE  Ordered(w, Append(q, f))
<1>1. Len(q) \in Nat /\ Len(w) \in Nat
  OBVIOUS
<1> SUFFICES ASSUME NEW k \in DOMAIN Append(q, f), NEW i \in 1..FrameLen,
                    Before(k) + i <= Len(w)
             PROVE  w[Before(k) + i] = <<Append(q, f)[k], i>>
  BY DEF Ordered
<1>2. CASE k \in DOMAIN q
  <2>1. Append(q, f)[k] = q[k]
    BY <1>2
  <2> QED BY <1>2, <2>1 DEF Ordered
<1>3. CASE k = Len(q) + 1
  <2>1. k \in Nat \ {0}
    BY <1>1, <1>3
  <2>2. Before(k) \in Nat
    BY <2>1, BeforeFacts, Zenon
  <2> QED BY <1>1, <1>3, <2>2
<1>4. k \in DOMAIN q \/ k = Len(q) + 1
  OBVIOUS
<1> QED BY <1>2, <1>3, <1>4

\* Units more of the last frame, of which all but l were there.
LEMMA OrderedSend ==
  ASSUME NEW S, NEW T, NEW w \in Seq(T), NEW q \in Seq(S), NEW u \in Seq(T),
         NEW l \in 1..FrameLen, Len(u) <= l, q # <<>>,
         \A j \in 1..Len(u) : u[j] = <<q[Len(q)], FrameLen - l + j>>,
         Ordered(w, q), Len(w) = Before(Len(q) + 1) - l
  PROVE  Ordered(w \o u, q)
<1>1. Len(q) \in Nat \ {0} /\ Len(w) \in Nat /\ Len(u) \in Nat /\ DOMAIN q = 1..Len(q)
  OBVIOUS
<1>2. Len(w \o u) = Len(w) + Len(u)
  BY ConcatFacts
<1> SUFFICES ASSUME NEW k \in DOMAIN q, NEW i \in 1..FrameLen,
                    Before(k) + i <= Len(w) + Len(u)
             PROVE  (w \o u)[Before(k) + i] = <<q[k], i>>
  BY <1>2 DEF Ordered
<1>3. k \in Nat \ {0} /\ k <= Len(q) /\ Before(k) \in Nat
  <2>1. k \in Nat \ {0} /\ k <= Len(q)
    BY <1>1
  <2> QED BY <2>1, BeforeFacts, Zenon
<1>4. FrameLen \in Nat /\ Before(Len(q)) \in Nat /\ Before(Len(q) + 1) = Before(Len(q)) + FrameLen
  BY <1>1, BeforeFacts
<1>5. CASE Before(k) + i <= Len(w)
  <2>1. w[Before(k) + i] = <<q[k], i>>
    BY <1>5 DEF Ordered
  <2>2. Before(k) + i \in 1..Len(w)
    BY <1>1, <1>3, <1>5
  <2> QED BY <2>1, <2>2, ConcatFacts
<1>6. CASE Before(k) + i > Len(w)
  <2>1. k = Len(q)
    <3> SUFFICES ASSUME k < Len(q) PROVE FALSE
      BY <1>1, <1>3
    <3>1. Before(k) + FrameLen <= Before(Len(q))
      BY <1>1, <1>3, BeforeFacts
    <3>2. Before(k) + i <= Before(Len(q))
      BY ONLY <1>3, <1>4, <3>1, i \in 1..FrameLen
    <3>3. Len(w) = Before(Len(q)) + FrameLen - l
      BY <1>4
    <3> QED BY ONLY <1>1, <1>3, <1>4, <1>6, <3>2, <3>3, l \in 1..FrameLen, i \in 1..FrameLen
  <2> DEFINE j == i - FrameLen + l
  <2>2. Len(w) = Before(k) + FrameLen - l
    BY <1>4, <2>1
  <2>3. j \in 1..Len(u) /\ Before(k) + i = Len(w) + j /\ FrameLen - l + j = i
    <3>1. Before(k) + i <= Len(w) + Len(u)
      OBVIOUS
    <3> QED BY ONLY <1>1, <1>3, <1>4, <1>6, <2>2, <3>1, l \in 1..FrameLen, i \in 1..FrameLen
  <2> HIDE DEF j
  <2>4. (w \o u)[Len(w) + j] = u[j]
    BY ONLY <2>3, ConcatFacts, w \in Seq(T), u \in Seq(T)
  <2> QED BY <2>1, <2>3, <2>4
<1>7. Before(k) + i <= Len(w) \/ Before(k) + i > Len(w)
  BY <1>1, <1>3
<1> QED BY <1>5, <1>6, <1>7

\* The first frame is taken.
LEMMA OrderedTake ==
  ASSUME NEW S, NEW T, NEW w \in Seq(T), NEW q \in Seq(S), q # <<>>,
         Ordered(w, q), Len(w) >= FrameLen
  PROVE  Ordered(SubSeq(w, FrameLen + 1, Len(w)), Tail(q))
<1> DEFINE v == SubSeq(w, FrameLen + 1, Len(w))
<1>1. FrameLen \in Nat \ {0} /\ Len(q) \in Nat \ {0} /\ Len(w) \in Nat
  <2>1. Len(q) \in Nat \ {0} /\ Len(w) \in Nat
    OBVIOUS
  <2> QED BY <2>1, BeforeFacts
<1>2. Len(v) = Len(w) - FrameLen /\ \A n \in 1..Len(v) : v[n] = w[n + FrameLen]
  BY <1>1
<1>3. DOMAIN Tail(q) = 1..(Len(q) - 1) /\ \A k \in DOMAIN Tail(q) : Tail(q)[k] = q[k + 1]
  OBVIOUS
<1> HIDE DEF v
<1> SUFFICES ASSUME NEW k \in DOMAIN Tail(q), NEW i \in 1..FrameLen,
                    Before(k) + i <= Len(v)
             PROVE  v[Before(k) + i] = <<Tail(q)[k], i>>
  BY DEF Ordered, v
<1>4. k + 1 \in DOMAIN q /\ k \in Nat \ {0}
  BY <1>1, <1>3
<1>5. Before(k) \in Nat /\ Before(k + 1) = Before(k) + FrameLen
  BY <1>4, BeforeFacts
<1>6. Before(k) + i \in 1..Len(v) /\ Before(k + 1) + i <= Len(w)
  BY <1>1, <1>2, <1>5
<1>7. w[Before(k + 1) + i] = <<q[k + 1], i>>
  BY <1>4, <1>6 DEF Ordered
<1>8. v[Before(k) + i] = w[(Before(k) + i) + FrameLen]
  BY <1>2, <1>6
<1>9. (Before(k) + i) + FrameLen = Before(k + 1) + i
  BY <1>1, <1>5
<1> QED BY <1>3, <1>7, <1>8, <1>9

-----------------------------------------------------------------------------
(* Every step keeps the order *)

\* What is packed is a frame that may be sent, and the steps that pack nothing
\* leave the active frame alone.
LEMMA PackedFrame ==
  ASSUME TypeInv, PopItem
  PROVE  \/ \E f \in Sendable : Pack(f)
         \/ UNCHANGED <<pc, active, net>>
<1>1. CASE PackUrgent
  <2>1. Head(urgent) \in Control
    BY <1>1, SeqFacts DEF PackUrgent, TypeInv
  <2> QED BY <1>1, <2>1, ControlSendable DEF PackUrgent
<1>2. CASE PackReg
  <2>1. Head(reg) \in Control
    BY <1>2, SeqFacts DEF PackReg, TypeInv
  <2> QED BY <1>2, <2>1, ControlSendable DEF PackReg
<1>3. CASE PackSyn
  <2>1. Head(syn) \in Requests
    BY <1>3, SeqFacts DEF PackSyn, SynReady, TypeInv
  <2>2. Head(syn) \in Sendable
    BY <2>1 DEF Requests, Sendable
  <2> QED BY <1>3, <2>2 DEF PackSyn
<1>4. CASE PackData
  <2>1. PICK s \in attached : Pack(Frame("data", s, 0, body[s] = 1))
    BY <1>4 DEF PackData
  <2>2. \A e \in BOOLEAN : Frame("data", s, 0, e) \in Sendable
    <3>1. s \in Windows /\ s \in Streams
      BY DEF Windows, TypeInv
    <3> QED BY <3>1, FrameType DEF Sendable
  <2>3. (body[s] = 1) \in BOOLEAN
    OBVIOUS
  <2> QED BY <2>1, <2>2, <2>3, Zenon
<1> QED BY <1>1, <1>2, <1>3, <1>4 DEF PopItem

LEMMA PackUnits ==
  ASSUME TypeInv, UnitInv, PopItem
  PROVE  UnitInv'
<1>1. UNCHANGED own /\ Sendable' = Sendable
  BY SendableSame DEF PopItem, PackUrgent, PackReg, PackSyn, PackData, Pack, app
<1>2. cur = NoFrame /\ left = 0 /\ pc = "send" /\ ~torn /\ record = <<>>
  BY DEF PopItem, Popping, UnitInv
<1>3. ASSUME NEW f \in Sendable, Pack(f) PROVE UnitInv'
  <2>1. /\ sending' = Append(sending, f) /\ cur' = f /\ left' = FrameLen
        /\ UNCHANGED <<pc, record, torn, wire>>
    BY <1>3 DEF Pack, net
  <2>2. sending \in Seq(Sendable) /\ wire \in Seq(Units2) /\ Len(sending) \in Nat
    BY DEF UnitInv, TypeInv
  <2>3. sending' \in Seq(Sendable) /\ Len(sending') = Len(sending) + 1 /\ sending' # <<>>
        /\ sending'[Len(sending')] = cur'
    BY <2>1, <2>2
  <2>4. FrameLen \in Nat \ {0} /\ Before(Len(sending) + 1) \in Nat
        /\ Before((Len(sending) + 1) + 1) = Before(Len(sending) + 1) + FrameLen
    <3>1. Len(sending) + 1 \in Nat \ {0}
      BY <2>2
    <3> QED BY <3>1, BeforeFacts, Zenon
  <2>5. Len(wire) = Before(Len(sending) + 1)
    BY <1>2, <2>4 DEF UnitInv, WireInOrder
  <2>6. WireInOrder'
    <3>1. Ordered(wire, Append(sending, f))
      BY <2>2, <2>4, <2>5, OrderedPack DEF UnitInv, WireInOrder
    <3>2. Len(wire) = Before(Len(sending') + 1) - FrameLen /\ Len(wire) \in Nat
      BY <2>3, <2>4, <2>5
    <3> QED BY <2>1, <3>1, <3>2 DEF WireInOrder
  <2>7. cur' # NoFrame
    BY <2>1 DEF Sendable, Frames, NoFrame, Plain, Frame
  <2> QED BY <1>1, <1>2, <2>1, <2>3, <2>6, <2>7 DEF UnitInv
<1>4. CASE UNCHANGED <<pc, active, net>>
  <2>1. UNCHANGED <<pc, cur, left, record, sending, torn, wire>>
    BY <1>4 DEF active, net
  <2>2. WireInOrder'
    BY <2>1 DEF UnitInv, WireInOrder
  <2> QED BY <1>1, <1>2, <2>1, <2>2 DEF UnitInv
<1> QED BY <1>3, <1>4, PackedFrame

\* Units of the active frame are put on the wire.
LEMMA WireGrows ==
  ASSUME TypeInv, UnitInv, left > 0, ~torn, cur # NoFrame, NEW n \in 1..left,
         UNCHANGED <<own, sending, cur, torn>>, record' = <<>>, left' = left - n,
         wire' = wire \o Units(n)
  PROVE  UnitInv'
<1>1. /\ left \in 1..FrameLen /\ FrameLen \in Nat /\ sending \in Seq(Sendable)
      /\ wire \in Seq(Units2) /\ sending # <<>> /\ sending[Len(sending)] = cur
  BY SessionAssumption DEF TypeInv, UnitInv
<1>2. Units(n) \in Seq(Units2) /\ Len(Units(n)) = n
  BY UnitsType
<1>3. \A j \in 1..n : Units(n)[j] = <<cur, FrameLen - left + j>>
  BY DEF Units
<1>4. Ordered(wire \o Units(n), sending)
  <2>1. Ordered(wire, sending) /\ Len(wire) = Before(Len(sending) + 1) - left
    BY DEF UnitInv, WireInOrder
  <2>2. Len(Units(n)) <= left
    BY <1>1, <1>2
  <2> DEFINE u == Units(n)
  <2>3. /\ u \in Seq(Units2) /\ Len(u) <= left
        /\ \A j \in 1..Len(u) : u[j] = <<sending[Len(sending)], FrameLen - left + j>>
    BY <1>1, <1>2, <1>3, <2>2
  <2> HIDE DEF u
  <2>4. Ordered(wire \o u, sending)
    BY <1>1, <2>1, <2>3, OrderedSend, Zenon
  <2> QED BY <2>4 DEF u
<1>5. Len(wire') = Len(wire) + n
  <2>1. Len(wire \o Units(n)) = Len(wire) + Len(Units(n))
    BY <1>1, <1>2, ConcatFacts, Zenon
  <2> QED BY <1>2, <2>1
<1>6. Len(sending) + 1 \in Nat \ {0}
  BY <1>1
<1>7. Before(Len(sending) + 1) \in Nat /\ Len(wire) \in Nat
  BY <1>1, <1>6, BeforeFacts
<1>8. WireInOrder'
  <2>1. Len(wire) = Before(Len(sending) + 1) - left
    BY DEF UnitInv, WireInOrder
  <2>2. Len(wire') = Before(Len(sending) + 1) - left'
    BY <1>1, <1>5, <1>7, <2>1
  <2>3. Len(wire') <= Before(Len(sending) + 1) - left'
    BY <1>1, <1>5, <1>7, <2>2
  <2> QED BY <1>4, <2>2, <2>3 DEF WireInOrder
<1>9. Sendable' = Sendable
  BY SendableSame
<1> QED BY <1>1, <1>8, <1>9 DEF UnitInv

LEMMA SendUnits ==
  ASSUME TypeInv, UnitInv, SendPlain \/ SendTls \/ SendWouldBlock \/ SendFails
  PROVE  UnitInv'
<1>1. /\ UNCHANGED <<own, sending, cur>> /\ pc = "send" /\ cur # NoFrame /\ left > 0
      /\ left \in 1..FrameLen /\ FrameLen \in Nat
  BY SessionAssumption DEF SendPlain, SendTls, SendWouldBlock, RecordStays, SendFails, Sending,
     SendSame, app, TypeInv
<1>2. ~torn /\ Sendable' = Sendable
  BY <1>1, SendableSame DEF UnitInv
<1>3. Space \in Int /\ SocketBuf \in Nat
  BY SessionAssumption DEF Space, TypeInv
<1>4. Taken \in 1..left
  BY <1>1, SessionAssumption DEF Taken, Least
<1>5. record = <<>> \/ record = Units(Taken)
  BY <1>2 DEF UnitInv
<1>6. ThisRecord = Units(Taken)
  BY <1>5 DEF ThisRecord
<1>7. CASE SendPlain
  <2>1. Least(left, Space) \in 1..left
    BY <1>1, <1>3, <1>7 DEF SendPlain, Least
  <2> DEFINE n == Least(left, Space)
  <2>2. wire' = wire \o Units(n) /\ left' = left - n /\ UNCHANGED <<torn, record>> /\ ~tls
    BY <1>7 DEF SendPlain
  <2>3. record' = <<>>
    BY <2>2 DEF UnitInv
  <2> HIDE DEF n
  <2>4. n \in 1..left
    BY <2>1 DEF n
  <2> QED BY <1>1, <1>2, <2>2, <2>3, <2>4, WireGrows
<1>8. CASE SendTls
  <2>1. wire' = wire \o Units(Taken) /\ record' = <<>> /\ left' = left - Taken /\ UNCHANGED torn
    BY <1>6, <1>8 DEF SendTls
  <2> QED BY <1>1, <1>2, <1>4, <2>1, WireGrows
<1>9. CASE SendWouldBlock
  <2>1. record' = Units(Taken) /\ left' = left /\ UNCHANGED <<torn, wire, tls>> /\ tls
    BY <1>6, <1>9 DEF SendWouldBlock, RecordStays, SendSame
  <2>2. Units(Taken)' = Units(Taken)
    BY <1>1, <2>1 DEF Units, Taken
  <2> QED BY <1>1, <1>2, <2>1, <2>2 DEF UnitInv, WireInOrder
<1>10. CASE SendFails
  <2>1. left' = 0 /\ torn' = TRUE /\ pc' = "idle" /\ UNCHANGED <<record, wire, tls>>
    BY <1>10 DEF SendFails, SendSame
  <2>2. Len(sending) + 1 \in Nat \ {0} /\ Len(wire) \in Nat
    BY DEF UnitInv, TypeInv
  <2>3. Before(Len(sending) + 1) \in Nat
    BY <2>2, BeforeFacts
  <2>4. WireInOrder'
    BY <1>1, <2>1, <2>2, <2>3 DEF UnitInv, WireInOrder
  <2> QED BY <1>1, <1>2, <2>1, <2>4 DEF UnitInv
<1> QED BY <1>7, <1>8, <1>9, <1>10

\* The head of the wire belongs to the frame packed first.
LEMMA HeadOfWire ==
  ASSUME TypeInv, UnitInv, wire # <<>>
  PROVE  sending # <<>> /\ wire[1] = <<sending[1], 1>> /\ sending[1] \in Sendable
<1>1. /\ Len(wire) \in Nat /\ Len(wire) >= 1 /\ sending \in Seq(Sendable)
      /\ left \in Nat /\ Len(sending) \in Nat
  BY DEF TypeInv, UnitInv
<1>2. sending # <<>>
  <2> SUFFICES ASSUME sending = <<>> PROVE FALSE
    OBVIOUS
  <2>1. Before(Len(sending) + 1) = 0
    BY BeforeFacts
  <2> QED BY <1>1, <2>1 DEF UnitInv, WireInOrder
<1>3. 1 \in DOMAIN sending /\ sending[1] \in Sendable
  BY <1>1, <1>2
<1>4. 1 \in 1..FrameLen /\ Before(1) + 1 = 1
  BY BeforeFacts
<1>5. wire[1] = <<sending[1], 1>>
  BY <1>1, <1>3, <1>4 DEF UnitInv, WireInOrder, Ordered
<1> QED BY <1>2, <1>3, <1>5

LEMMA ReadUnits ==
  ASSUME TypeInv, UnitInv, ServerReads
  PROVE  UnitInv'
<1>1. /\ WholeFrame /\ wire' = SubSeq(wire, FrameLen + 1, Len(wire)) /\ sending' = Tail(sending)
      /\ UNCHANGED <<tls, pc, own, cur, left, record, torn>>
  BY DEF ServerReads, Greets, Handles, ServerTakes, app
<1>2. /\ sending # <<>> /\ sending \in Seq(Sendable) /\ wire \in Seq(Units2)
      /\ Len(sending) \in Nat \ {0} /\ Len(wire) \in Nat /\ left \in Nat
  <2>1. sending # <<>>
    BY HeadOfWire DEF ServerReads
  <2> QED BY <2>1 DEF UnitInv, TypeInv
<1>3. Len(wire) >= FrameLen /\ FrameLen \in Nat \ {0}
  BY <1>1, BeforeFacts DEF WholeFrame
<1>4. Ordered(wire', sending')
  BY <1>1, <1>2, <1>3, OrderedTake DEF UnitInv, WireInOrder
<1>5. Len(wire') = Len(wire) - FrameLen /\ Len(sending') = Len(sending) - 1
  BY <1>1, <1>2, <1>3
<1>6. /\ Before(Len(sending) + 1) = Before(Len(sending)) + FrameLen
      /\ Before(Len(sending)) \in Nat /\ Len(sending') + 1 = Len(sending)
  BY <1>2, <1>5, BeforeFacts
<1>7. WireInOrder'
  <2>1. Before(Len(sending') + 1) = Before(Len(sending))
    BY <1>6
  <2>2. Len(wire') <= Before(Len(sending')+ 1) - left
    BY <1>2, <1>3, <1>5, <1>6, <2>1 DEF UnitInv, WireInOrder
  <2>3. ~torn => Len(wire') = Before(Len(sending') + 1) - left
    BY <1>2, <1>3, <1>5, <1>6, <2>1 DEF UnitInv, WireInOrder
  <2> QED BY <1>1, <1>4, <2>2, <2>3 DEF WireInOrder
<1>8. sending' \in Seq(Sendable) /\ Sendable' = Sendable
  BY <1>1, <1>2, SendableSame
<1>9. left > 0 => sending' # <<>> /\ sending'[Len(sending')] = cur
  <2> SUFFICES ASSUME left > 0 PROVE sending' # <<>> /\ sending'[Len(sending')] = cur
    OBVIOUS
  <2>1. Len(sending) >= 2
    <3>1. Len(sending) # 1
      <4> SUFFICES ASSUME Len(sending) = 1 PROVE FALSE
        OBVIOUS
      <4>1. Before(Len(sending) + 1) = FrameLen
        BY <1>3, <1>6, BeforeFacts
      <4> QED BY <1>2, <1>3, <4>1 DEF UnitInv, WireInOrder
    <3> DEFINE n == Len(sending)
    <3>2. n \in Nat \ {0} /\ n # 1
      BY <1>2, <3>1
    <3> HIDE DEF n
    <3>3. n >= 2
      BY <3>2
    <3> QED BY <3>3 DEF n
  <2>2. sending'[Len(sending')] = sending[Len(sending)]
    BY <1>1, <1>2, <2>1
  <2> QED BY <1>2, <1>5, <2>1, <2>2 DEF UnitInv
<1>10. Units(Taken)' = Units(Taken)
  BY <1>1 DEF Units, Taken
<1> QED BY <1>1, <1>7, <1>8, <1>9, <1>10 DEF UnitInv

\* Nothing else touches the wire, the frames packed or the active frame's rest.
LEMMA UnitStep ==
  ASSUME TypeInv, UnitInv, [Next]_vars
  PROVE  UnitInv'
<1>1. ASSUME UNCHANGED <<tls, cur, left, record, sending, torn, wire>>,
             Len(own) <= Len(own'), DOMAIN own \subseteq DOMAIN own',
             torn => pc' = "idle"
      PROVE  UnitInv'
  <2>1. Sendable \subseteq Sendable'
    BY <1>1 DEF Sendable
  <2>2. sending' \in Seq(Sendable')
    BY <1>1, <2>1, SeqMonotone DEF UnitInv
  <2>3. Units(Taken)' = Units(Taken)
    BY <1>1 DEF Units, Taken
  <2>4. WireInOrder'
    BY <1>1 DEF UnitInv, WireInOrder
  <2> QED BY <1>1, <2>2, <2>3, <2>4 DEF UnitInv
<1>2. CASE Submit
  <2>1. /\ UNCHANGED <<tls, pc, cur, left, record, sending, torn, wire>>
        /\ own' = own \/ \E e : own' = Append(own, e)
    BY <1>2 DEF Submit, SubmitWith, active, net
  <2>2. own \in Seq(1..attempts)
    BY DEF TypeInv
  <2>3. Len(own) <= Len(own') /\ DOMAIN own \subseteq DOMAIN own'
    BY <2>1, <2>2
  <2> QED BY <1>1, <2>1, <2>3 DEF UnitInv
<1>3. CASE AfterFrameSent
  <2>1. /\ UNCHANGED <<tls, pc, own, left, record, sending, torn, wire>>
        /\ cur' = NoFrame /\ left = 0 /\ pc = "send"
    BY <1>3 DEF AfterFrameSent, app, net
  <2>2. ~torn /\ record = <<>> /\ Sendable' = Sendable
    BY <2>1, SendableSame DEF UnitInv
  <2>3. WireInOrder'
    BY <2>1 DEF UnitInv, WireInOrder
  <2> QED BY <2>1, <2>2, <2>3 DEF UnitInv
<1>4. CASE \/ Run \/ NothingToSend \/ RecvFrame \/ RecvFails \/ Interrupted
           \/ Hello \/ Close \/ (\E s \in Streams : Reply(s)) \/ UNCHANGED vars
  <2>1. UNCHANGED <<tls, own, cur, left, record, sending, torn, wire>>
    BY <1>4 DEF Run, NothingToSend, RecvFrame, RecvFails, Interrupted, Hello, Close, Reply,
         Replies, ServerSame, vars, app, active, net
  <2>2. torn => pc' = "idle"
    BY <1>4 DEF UnitInv, Run, NothingToSend, Popping, RecvFrame, RecvFails, Interrupted, Hello,
         Close, Reply, Replies, ServerSame, vars
  <2>3. Len(own) <= Len(own)
    BY DEF TypeInv
  <2> QED BY <1>1, <2>1, <2>2, <2>3
<1> QED BY <1>2, <1>3, <1>4, PackUnits, SendUnits, ReadUnits
     DEF Next, Client, SessionSend, Server

LEMMA InitUnits == Init => UnitInv
<1> SUFFICES ASSUME Init PROVE UnitInv
  OBVIOUS
<1>1. sending = <<Magic>> /\ cur = Magic /\ left = FrameLen /\ wire = <<>> /\ ~torn /\ record = <<>>
  BY DEF Init
<1>2. Magic \in Sendable
  BY FrameType DEF Plain, Magic, Sendable, Windows, Connection
<1>3. sending \in Seq(Sendable) /\ Len(sending) = 1 /\ sending[1] = Magic /\ sending # <<>>
  BY <1>1, <1>2
<1>4. /\ FrameLen \in Nat \ {0} /\ Before(1) = 0 /\ Before(1) \in Nat
      /\ Before(1 + 1) = Before(1) + FrameLen
  <2>1. 1 \in Nat \ {0}
    OBVIOUS
  <2> QED BY <2>1, BeforeFacts, Zenon
<1>5. Ordered(wire, sending)
  <2> SUFFICES ASSUME NEW k \in DOMAIN sending, NEW i \in 1..FrameLen
               PROVE  ~(Before(k) + i <= Len(wire))
    BY DEF Ordered
  <2>1. k = 1
    BY <1>3
  <2> QED BY <1>1, <1>4, <2>1
<1>6. WireInOrder
  BY <1>1, <1>3, <1>4, <1>5 DEF WireInOrder
<1>7. Magic # NoFrame
  BY DEF Magic, NoFrame, Plain, Frame
<1> QED BY <1>1, <1>3, <1>6, <1>7 DEF UnitInv

\* The server finds every unit once and in order, until a frame is abandoned, on
\* both transports and for every size of records and of the socket buffer
\* (httpc2_send_callback, nghttp2_session_send).
THEOREM UnitsInOrder == Spec => []WireInOrder
<1>1. Init => UnitInv
  BY InitUnits
<1>2. TypeInv /\ DownInv /\ UnitInv /\ [Next]_vars => (TypeInv /\ DownInv /\ UnitInv)'
  BY TypeStep, DownStep, UnitStep
<1>3. UnitInv => WireInOrder
  BY DEF UnitInv
<1> QED BY <1>1, <1>2, <1>3, InitTypes, PTL DEF Spec

-----------------------------------------------------------------------------
(* Which streams frames are about *)

Known == {Connection} \cup Opened
KnownSendable == {f \in Sendable : f.type = "headers" => f.sid \in Opened}
KnownReceivable == {f \in Receivable : f.type = "data" => f.sid \in Opened}
Increments(K) == {f \in Control : f.type = "window" /\ f.sid \in K}
KnownControl == Increments(Known)
Urgent == {f \in Control : f.type # "window"}

\* No frame but the HEADERS that wait is about a stream not opened yet.
OpenedInv ==
  /\ open \subseteq Opened /\ server.asked \subseteq Opened
  /\ sending \in Seq(KnownSendable) /\ down \in Seq(KnownReceivable)
  /\ reg \in Seq(KnownControl) /\ urgent \in Seq(Urgent)

\* PackSyn opens the next stream.
LEMMA SynOpens ==
  ASSUME TypeInv, SynInv, SentInv, PackSyn
  PROVE  /\ cur'.sid \in Streams \ Opened /\ Opened' = Opened \cup {cur'.sid}
         /\ open' = open \cup {cur'.sid} /\ cur'.type = "headers"
<1>1. /\ UNCHANGED own /\ cur' = syn[1] /\ syn # <<>> /\ syn' = Tail(syn)
      /\ open' = open \cup {cur'.sid}
  BY DEF PackSyn, SynReady, Pack, app
<1>2. 1 \in DOMAIN syn /\ Len(syn') = Len(syn) - 1 /\ Len(own) \in Nat /\ Len(syn) \in Nat
  BY <1>1, OpenedFacts
<1>3. /\ cur'.sid = Len(own) - Len(syn) + 1 /\ cur'.sid \in Streams /\ cur'.sid \in Nat \ {0}
      /\ cur'.type = "headers"
  BY <1>1, <1>2, SynFrame
<1>4. Opened' = 1..(Len(own) - Len(syn) + 1)
  BY <1>1, <1>2 DEF Opened
<1>5. Opened' = Opened \cup {cur'.sid} /\ cur'.sid \notin Opened
  <2>1. \A n \in Int : n + 1 \in Nat \ {0} => 1..(n + 1) = 1..n \cup {n + 1} /\ n + 1 \notin 1..n
    OBVIOUS
  <2>2. Len(own) - Len(syn) \in Int
    BY <1>2
  <2> QED BY <1>3, <1>4, <2>1, <2>2 DEF Opened
<1> QED BY <1>1, <1>3, <1>5

\* A request that is submitted waits: its stream is not opened.
LEMMA SubmitOpens ==
  ASSUME TypeInv, Submit
  PROVE  Opened' = Opened /\ UNCHANGED open
<1>1. CASE UNCHANGED <<own, syn>>
  BY <1>1 DEF Opened, Submit, SubmitWith, streams
<1>2. ASSUME NEW e, NEW f, own' = Append(own, e), syn' = Append(syn, f)
      PROVE  Opened' = Opened
  <2>1. own \in Seq(1..attempts) /\ syn \in Seq(Requests)
    BY DEF TypeInv
  <2>2. Len(own') = Len(own) + 1 /\ Len(syn') = Len(syn) + 1
    BY <1>2, <2>1
  <2> QED BY <2>1, <2>2 DEF Opened
<1> QED BY <1>1, <1>2 DEF Submit, SubmitWith, streams

\* What is received closes streams and opens none.
LEMMA RecvOpens ==
  ASSUME TypeInv, DownInv, RecvFrame
  PROVE  /\ Opened' = Opened /\ open' \subseteq open
         /\ \/ UNCHANGED urgent \/ urgent' = Append(urgent, Plain("ack"))
         /\ \/ OnData(Head(down)) /\ Head(down).type = "data"
            \/ UNCHANGED <<reg, flow>> /\ Head(down).type # "data"
<1> DEFINE f == Head(down)
<1>1. f \in Receivable /\ UNCHANGED <<own, syn>>
  BY SeqFacts DEF RecvFrame, DownInv, app
<1>2. f.type \in {"settings", "data", "headers", "reset"}
  BY <1>1 DEF Receivable
<1> HIDE DEF f
<1>3. \/ f.type = "settings" /\ OnSettings
      \/ f.type = "data" /\ OnData(f)
      \/ f.type = "headers" /\ OnHeaders(f)
      \/ f.type = "reset" /\ OnReset(f)
  BY <1>2 DEF RecvFrame, f
<1>4. open' \subseteq open
  BY <1>3 DEF OnSettings, OnData, OnHeaders, OnReset, Shutdown, CloseStreams
<1>5. f.type # "data" => UNCHANGED <<reg, flow>>
  BY <1>3 DEF OnSettings, OnHeaders, OnReset
<1>6. UNCHANGED urgent \/ urgent' = Append(urgent, Plain("ack"))
  BY <1>3 DEF OnSettings, OnData, OnHeaders, OnReset
<1> QED BY <1>1, <1>3, <1>4, <1>5, <1>6 DEF Opened, f

\* The increments a step of the windows queues are about the window in question.
LEMMA ReceivedKnown ==
  ASSUME NEW f \in FlowRegs, NEW w \in Windows, NEW delta \in Nat,
         NEW K, w \in K, f.reg \in Seq(Increments(K))
  PROVE  Received(f, w, delta).reg \in Seq(Increments(K))
<1> DEFINE n == f.received[w] + delta
<1>1. n \in Nat
  BY DEF FlowRegs
<1> HIDE DEF n
<1>2. Frame("window", w, n, FALSE) \in Increments(K)
  <2>1. \A e \in BOOLEAN : Frame("window", w, n, e) \in Increments(K)
    BY <1>1, FrameType DEF Control, Increments
  <2> QED BY <2>1, Zenon
<1>3. Append(f.reg, Frame("window", w, n, FALSE)) \in Seq(Increments(K))
  BY <1>2, SeqFacts
<1>4. Received(f, w, delta).reg \in {f.reg, Append(f.reg, Frame("window", w, n, FALSE))}
  BY DEF Received, n
<1> QED BY <1>3, <1>4

\* A step that opens no stream and puts only known frames in a queue.
LEMMA OpenedSame ==
  ASSUME OpenedInv, Opened' = Opened, Len(own) <= Len(own'), DOMAIN own \subseteq DOMAIN own',
         open' \subseteq open, server'.asked \subseteq Opened,
         sending' = sending \/ sending' \in Seq(KnownSendable),
         down' = down \/ down' \in Seq(KnownReceivable),
         reg' = reg \/ reg' \in Seq(KnownControl),
         urgent' = urgent \/ urgent' \in Seq(Urgent)
  PROVE  OpenedInv'
<1>1. /\ KnownSendable \subseteq KnownSendable' /\ KnownReceivable \subseteq KnownReceivable'
      /\ KnownControl' = KnownControl
  BY DEF KnownSendable, KnownReceivable, KnownControl, Increments, Known, Sendable, Receivable
<1>2. sending' \in Seq(KnownSendable') /\ down' \in Seq(KnownReceivable')
  BY <1>1, SeqMonotone DEF OpenedInv
<1>3. reg' \in Seq(KnownControl') /\ urgent' \in Seq(Urgent')
  <2>1. Urgent' = Urgent
    BY DEF Urgent, Control
  <2> QED BY <1>1, <2>1 DEF OpenedInv
<1>4. open' \subseteq Opened' /\ server'.asked \subseteq Opened'
  BY DEF OpenedInv
<1> QED BY ONLY <1>2, <1>3, <1>4 DEF OpenedInv

LEMMA OpenedPack ==
  ASSUME TypeInv, SynInv, SentInv, OpenedInv, PopItem
  PROVE  OpenedInv'
<1>1. /\ UNCHANGED <<own, down, server>> /\ sending \in Seq(KnownSendable)
      /\ urgent \in Seq(Urgent) /\ reg \in Seq(KnownControl)
      /\ open \subseteq Opened /\ server.asked \subseteq Opened /\ Len(own) <= Len(own)
  <2>1. UNCHANGED <<own, down, server>>
    BY DEF PopItem, PackUrgent, PackReg, PackSyn, PackData, Pack, app, net
  <2>2. Len(own) <= Len(own)
    BY DEF TypeInv
  <2> QED BY <2>1, <2>2 DEF OpenedInv
<1>2. Control \subseteq KnownSendable /\ Urgent \subseteq Control /\ KnownControl \subseteq Control
  BY ControlSendable DEF KnownSendable, Control, Urgent, KnownControl, Increments
<1>3. CASE PackUrgent
  <2>1. Head(urgent) \in Urgent /\ Tail(urgent) \in Seq(Urgent)
    BY <1>1, <1>3, SeqFacts DEF PackUrgent
  <2>2. Append(sending, Head(urgent)) \in Seq(KnownSendable)
    BY <1>1, <1>2, <2>1, SeqFacts
  <2>3. UNCHANGED <<reg, open, syn>> /\ urgent' = Tail(urgent) /\ sending' = Append(sending, Head(urgent))
    BY <1>3 DEF PackUrgent, Pack
  <2> QED BY <1>1, <2>1, <2>2, <2>3, OpenedSame DEF Opened
<1>4. CASE PackReg
  <2>1. Head(reg) \in KnownControl /\ Tail(reg) \in Seq(KnownControl)
    BY <1>1, <1>4, SeqFacts DEF PackReg
  <2>2. Append(sending, Head(reg)) \in Seq(KnownSendable)
    BY <1>1, <1>2, <2>1, SeqFacts
  <2>3. /\ UNCHANGED <<urgent, open, syn>> /\ reg' = Tail(reg)
        /\ sending' = sending \/ sending' = Append(sending, Head(reg))
    BY <1>4 DEF PackReg, Pack, active
  <2> QED BY <1>1, <2>1, <2>2, <2>3, OpenedSame DEF Opened
<1>5. CASE PackData
  <2>1. PICK s \in attached : Pack(Frame("data", s, 0, body[s] = 1))
    BY <1>5 DEF PackData
  <2>2. \A e \in BOOLEAN : Frame("data", s, 0, e) \in KnownSendable
    <3>1. s \in Windows /\ s \in Streams
      BY DEF Windows, TypeInv
    <3> QED BY <3>1, FrameType DEF Sendable, KnownSendable
  <2>3. Frame("data", s, 0, body[s] = 1) \in KnownSendable
    <3>1. (body[s] = 1) \in BOOLEAN
      OBVIOUS
    <3> QED BY <2>2, <3>1, Zenon
  <2> DEFINE f == Frame("data", s, 0, body[s] = 1)
  <2>4. f \in KnownSendable /\ sending' = Append(sending, f)
    BY <2>1, <2>3 DEF Pack
  <2> HIDE DEF f
  <2>5. sending' \in Seq(KnownSendable)
    BY <1>1, <2>4, SeqFacts
  <2>6. UNCHANGED <<urgent, reg, syn, open>>
    BY <1>5 DEF PackData
  <2> QED BY <1>1, <2>5, <2>6, OpenedSame DEF Opened
<1>6. CASE PackSyn
  <2>1. /\ cur'.sid \in Streams \ Opened /\ Opened' = Opened \cup {cur'.sid}
        /\ open' = open \cup {cur'.sid}
    BY <1>6, SynOpens
  <2>2. /\ cur' = Head(syn) /\ sending' = Append(sending, cur') /\ syn # <<>> /\ UNCHANGED <<urgent, reg>>
    BY <1>6 DEF PackSyn, SynReady, Pack
  <2>3. /\ KnownSendable \subseteq KnownSendable' /\ KnownReceivable \subseteq KnownReceivable'
        /\ KnownControl \subseteq KnownControl'
    BY <1>1, <2>1, SendableSame DEF KnownSendable, KnownReceivable, KnownControl, Increments, Known
  <2>4. cur' \in KnownSendable'
    <3>1. cur' \in Sendable
      <4>1. Head(syn) \in Requests
        BY <2>2, SeqFacts DEF TypeInv
      <4> QED BY <2>2, <4>1 DEF Requests, Sendable
    <3> QED BY <1>1, <2>1, <3>1, SendableSame DEF KnownSendable
  <2>5. sending' \in Seq(KnownSendable')
    <3>1. sending \in Seq(KnownSendable')
      BY <1>1, <2>3, SeqMonotone
    <3> QED BY <2>2, <2>4, <3>1, SeqFacts
  <2>6. down' \in Seq(KnownReceivable') /\ reg' \in Seq(KnownControl')
    BY <1>1, <2>2, <2>3, SeqMonotone DEF OpenedInv
  <2> QED BY <1>1, <2>1, <2>2, <2>5, <2>6 DEF OpenedInv, Urgent
<1> QED BY <1>3, <1>4, <1>5, <1>6 DEF PopItem

LEMMA OpenedAfter ==
  ASSUME TypeInv, OpenedInv, AfterFrameSent
  PROVE  OpenedInv'
<1> DEFINE again == [Flow EXCEPT !.queued = @ \ {cur.sid}]
<1>1. /\ UNCHANGED <<own, syn, urgent, sending, down, server>> /\ Len(own) <= Len(own)
      /\ server.asked \subseteq Opened /\ reg \in Seq(KnownControl)
  BY DEF AfterFrameSent, app, net, TypeInv, OpenedInv
<1>2. open' \subseteq open
  BY DEF AfterFrameSent, Shutdown, CloseStreams
<1>3. reg' = reg \/ reg' \in Seq(KnownControl)
  <2>1. again \in FlowRegs /\ again.reg = reg
    BY FlowType DEF FlowRegs, Flow
  <2>2. \/ UNCHANGED reg \/ reg' = again.reg
        \/ cur.sid \in {Connection} \cup open /\ reg' = Received(again, cur.sid, 0).reg
    <3>1. CASE cur.type = "window"
      <4>1. SetFlow(IF cur.sid \in {Connection} \cup (open \ shut.rd)
                    THEN Received(again, cur.sid, 0) ELSE again)
        BY <3>1 DEF AfterFrameSent
      <4> HIDE DEF again
      <4> QED BY <4>1 DEF SetFlow
    <3>2. CASE UNCHANGED <<flow, reg>>
      BY <3>2
    <3> HIDE DEF again
    <3> QED BY <3>1, <3>2 DEF AfterFrameSent
  <2> HIDE DEF again
  <2>3. ASSUME cur.sid \in {Connection} \cup open PROVE Received(again, cur.sid, 0).reg \in Seq(KnownControl)
    <3>1. cur.sid \in Known /\ cur.sid \in Windows
      BY <2>3 DEF Known, OpenedInv, Windows, TypeInv
    <3> QED BY <1>1, <2>1, <3>1, ReceivedKnown DEF KnownControl, Increments
  <2> QED BY <2>1, <2>2, <2>3
<1>4. Opened' = Opened
  BY <1>1 DEF Opened
<1> QED BY <1>1, <1>2, <1>3, <1>4, OpenedSame

LEMMA OpenedRecv ==
  ASSUME TypeInv, DownInv, OpenedInv, RecvFrame
  PROVE  OpenedInv'
<1> DEFINE f == Head(down)
<1>1. /\ UNCHANGED <<own, sending, server>> /\ Len(own) <= Len(own) /\ down # <<>> /\ down' = Tail(down)
      /\ server.asked \subseteq Opened /\ reg \in Seq(KnownControl)
      /\ urgent \in Seq(Urgent) /\ down \in Seq(KnownReceivable)
  BY DEF RecvFrame, app, active, TypeInv, OpenedInv
<1>2. f \in KnownReceivable /\ down' \in Seq(KnownReceivable)
  BY <1>1, SeqFacts
<1> HIDE DEF f
<1>3. /\ Opened' = Opened /\ open' \subseteq open
      /\ UNCHANGED urgent \/ urgent' = Append(urgent, Plain("ack"))
      /\ (OnData(f) /\ f.type = "data") \/ UNCHANGED reg
  BY RecvOpens DEF f
<1>4. urgent' \in Seq(Urgent)
  <2>1. Plain("ack") \in Urgent
    BY FrameType DEF Urgent, Control, Plain, Windows
  <2> QED BY <1>1, <1>3, <2>1, SeqFacts
<1>5. CASE OnData(f) /\ f.type = "data"
  <2> DEFINE conn == Received(Flow, Connection, 1)
  <2>1. /\ f.sid \in Opened /\ f.sid \in Windows /\ Connection \in Windows
        /\ Connection \in Known /\ f.sid \in Known
    BY <1>2, <1>5 DEF KnownReceivable, Receivable, Known, Windows
  <2>2. Flow \in FlowRegs /\ Flow.reg = reg
    BY FlowType DEF Flow
  <2>3. conn \in FlowRegs /\ conn.reg \in Seq(KnownControl)
    BY <1>1, <2>1, <2>2, ReceivedType, ReceivedKnown DEF KnownControl, Increments
  <2>4. reg' = conn.reg \/ reg' = Received(conn, f.sid, 1).reg
    BY <1>5, <2>3 DEF OnData, SetFlow, FlowRegs
  <2> HIDE DEF conn
  <2>5. Received(conn, f.sid, 1).reg \in Seq(KnownControl)
    BY <2>1, <2>3, ReceivedKnown DEF KnownControl, Increments
  <2>6. reg' \in Seq(KnownControl)
    BY <2>3, <2>4, <2>5
  <2> QED BY <1>1, <1>2, <1>3, <1>4, <2>6, OpenedSame
<1>6. CASE UNCHANGED reg
  BY <1>1, <1>2, <1>3, <1>4, <1>6, OpenedSame
<1> QED BY <1>3, <1>5, <1>6

\* What the server reads and answers.
LEMMA OpenedServer ==
  ASSUME TypeInv, DownInv, UnitInv, OpenedInv, Server \/ Close
  PROVE  OpenedInv'
<1>1. /\ UNCHANGED <<own, syn, open, urgent, reg>> /\ Opened' = Opened /\ Len(own) <= Len(own)
      /\ server.asked \subseteq Opened /\ down \in Seq(KnownReceivable) /\ sending \in Seq(KnownSendable)
      /\ server \in Servers
  <2>1. UNCHANGED <<own, syn, open, urgent, reg>>
    BY DEF Server, Close, Hello, ServerReads, Greets, Handles, ServerTakes, Reply, Replies, ServerSame,
       app, queues, streams
  <2>2. Opened' = Opened
    BY <2>1 DEF Opened
  <2> QED BY <2>1, <2>2 DEF TypeInv, OpenedInv
<1>2. CASE ServerReads
  <2> DEFINE f == wire[1][1]
  <2>1. sending # <<>> /\ f = sending[1] /\ f \in KnownSendable /\ sending' = Tail(sending)
        /\ sending' \in Seq(KnownSendable)
    <3>1. sending # <<>> /\ f = sending[1]
      BY <1>2, HeadOfWire DEF ServerReads
    <3>2. sending' = Tail(sending)
      BY <1>2 DEF ServerReads, Greets, Handles, ServerTakes
    <3> QED BY <1>1, <3>1, <3>2, SeqFacts
  <2>2. Greets(f) \/ Handles(f)
    BY <1>2 DEF ServerReads
  <2> HIDE DEF f
  <2>3. server'.asked \subseteq server.asked \cup {s \in {f.sid} : f.type = "headers"}
    BY <1>1, <2>2 DEF Greets, Handles, ServerTakes, Servers
  <2>4. server'.asked \subseteq Opened
    BY <1>1, <2>1, <2>3 DEF KnownSendable
  <2>5. \/ down' = down
        \/ f.type = "headers" /\ down' = down \o <<Frame("reset", f.sid, 0, TRUE)>>
    <3>1. down \in Seq(KnownReceivable)
      BY <1>1
    <3>2. down \o <<>> = down
      BY <3>1
    <3> QED BY <2>2, <3>2 DEF Greets, Handles, ServerTakes
  <2>6. down' = down \/ down' \in Seq(KnownReceivable)
    <3>1. ASSUME f.type = "headers" PROVE Frame("reset", f.sid, 0, TRUE) \in KnownReceivable
      <4>1. f.sid \in Streams
        BY <2>1, <3>1 DEF KnownSendable, Sendable, TypeInv
      <4>2. f.sid \in Windows
        BY <4>1 DEF Windows
      <4>3. \A e \in BOOLEAN : Frame("reset", f.sid, 0, e) \in KnownReceivable
        BY <4>1, <4>2, FrameType DEF KnownReceivable, Receivable
      <4> QED BY <4>3, Zenon
    <3>2. \A e \in KnownReceivable : down \o <<e>> \in Seq(KnownReceivable)
      BY <1>1
    <3> QED BY <2>5, <3>1, <3>2
  <2> QED BY <1>1, <2>1, <2>4, <2>6, OpenedSame
<1>3. CASE Hello
  <2>1. Plain("settings") \in KnownReceivable
    <3>1. Connection \in Windows
      BY DEF Windows
    <3>2. \A e \in BOOLEAN : Frame("settings", Connection, 0, e) \in KnownReceivable
      BY <3>1, FrameType DEF KnownReceivable, Receivable
    <3> QED BY <3>2, Zenon DEF Plain
  <2>2. down' \in Seq(KnownReceivable) /\ UNCHANGED sending
    BY <1>1, <1>3, <2>1, SeqFacts DEF Hello, ServerSame, active
  <2>3. server'.asked = server.asked
    BY <1>1, <1>3 DEF Hello, Servers
  <2> QED BY <1>1, <2>2, <2>3, OpenedSame
<1>4. ASSUME NEW s \in Streams, Reply(s) PROVE OpenedInv'
  <2>1. s \in Opened /\ UNCHANGED sending /\ server'.asked = server.asked
    <3>1. s \in server.asked /\ UNCHANGED sending
      BY <1>4 DEF Reply, Replies, ServerSame, active
    <3>2. server'.asked = server.asked
      BY <1>1, <1>4 DEF Reply, Replies, Servers
    <3> QED BY <1>1, <3>1, <3>2
  <2>2. s \in DOMAIN own /\ s \in Windows /\ server.sent[s] + 1 \in Nat
    <3>1. s \in server.asked
      BY <1>4 DEF Reply, Replies
    <3>2. server.sent \in [Streams -> Nat]
      BY <1>1 DEF Servers
    <3>3. server.sent[s] + 1 \in Nat
      BY <3>2
    <3> QED BY <3>1, <3>3 DEF DownInv, Windows
  <2>3. \A n \in Nat, e \in BOOLEAN, t \in {"headers", "data"} : Frame(t, s, n, e) \in KnownReceivable
    BY <2>1, <2>2, FrameType DEF KnownReceivable, Receivable
  <2>4. PICK f \in KnownReceivable : down' = Append(down, f)
    BY <1>4, <2>2, <2>3 DEF Reply, Replies
  <2>5. down' \in Seq(KnownReceivable)
    BY <1>1, <2>4, SeqFacts
  <2> QED BY <1>1, <2>1, <2>5, OpenedSame
<1>5. CASE Close
  <2>1. down' = <<>> \/ down' = down
    BY <1>5 DEF Close, DownInv
  <2>2. UNCHANGED <<server, sending>>
    BY <1>5 DEF Close, ServerSame, active
  <2>3. <<>> \in Seq(KnownReceivable)
    OBVIOUS
  <2> QED BY <1>1, <2>1, <2>2, <2>3, OpenedSame
<1> QED BY <1>2, <1>3, <1>4, <1>5 DEF Server

LEMMA OpenedStep ==
  ASSUME TypeInv, DownInv, SynInv, SentInv, UnitInv, OpenedInv, [Next]_vars
  PROVE  OpenedInv'
<1>1. CASE Submit
  <2>1. /\ Opened' = Opened /\ UNCHANGED <<open, server, sending, down, reg, urgent>>
        /\ own' = own \/ \E e : own' = Append(own, e)
    BY <1>1, SubmitOpens DEF Submit, SubmitWith, net, active
  <2>2. own \in Seq(1..attempts)
    BY DEF TypeInv
  <2>3. Len(own) <= Len(own') /\ DOMAIN own \subseteq DOMAIN own'
    BY <2>1, <2>2
  <2> QED BY <2>1, <2>3, OpenedSame DEF OpenedInv
<1>2. CASE \/ Run \/ NothingToSend \/ SendPlain \/ SendTls \/ SendWouldBlock \/ SendFails
           \/ RecvFails \/ Interrupted \/ UNCHANGED vars
  <2>1. UNCHANGED <<own, syn, open, server, sending, down, reg, urgent>>
    BY <1>2 DEF Run, NothingToSend, SendPlain, SendTls, SendWouldBlock, RecordStays, SendFails,
       SendSame, RecvFails, Interrupted, vars, app, queues, active, streams, net
  <2>2. Opened' = Opened /\ Len(own) <= Len(own)
    BY <2>1 DEF Opened, TypeInv
  <2> QED BY <2>1, <2>2, OpenedSame DEF OpenedInv
<1> QED BY <1>1, <1>2, OpenedPack, OpenedAfter, OpenedRecv, OpenedServer
     DEF Next, Client, SessionSend, Server

-----------------------------------------------------------------------------
(* Sums over frames *)

\* The sum of the weights of the elements.
Weigh(W, q) == Total([i \in DOMAIN q |-> W[q[i]]])

LEMMA WeighFacts ==
  ASSUME NEW S, NEW W \in [S -> Nat], NEW q \in Seq(S)
  PROVE  /\ Weigh(W, q) \in Nat /\ (q = <<>> => Weigh(W, q) = 0)
         /\ \A f \in S : Weigh(W, Append(q, f)) = Weigh(W, q) + W[f]
         /\ q # <<>> => Weigh(W, q) = W[q[1]] + Weigh(W, Tail(q))
<1> DEFINE v == [i \in DOMAIN q |-> W[q[i]]]
<1>1. v \in Seq(Nat) /\ Len(v) = Len(q) /\ \A i \in 1..Len(q) : v[i] = W[q[i]]
  OBVIOUS
<1>2. q = <<>> => v = <<>>
  OBVIOUS
<1>3. ASSUME NEW f \in S
      PROVE  [i \in DOMAIN Append(q, f) |-> W[Append(q, f)[i]]] = Append(v, W[f])
  OBVIOUS
<1>4. ASSUME q # <<>>
      PROVE  /\ v # <<>> /\ v[1] = W[q[1]]
             /\ [i \in DOMAIN Tail(q) |-> W[Tail(q)[i]]] = Tail(v)
  BY <1>4
<1>5. \A f \in S : W[f] \in Nat
  OBVIOUS
<1>6. Weigh(W, q) = Total(v)
  BY DEF Weigh
<1> HIDE DEF v
<1>7. Total(v) \in Nat /\ \A f \in S : Total(Append(v, W[f])) = Total(v) + W[f]
  BY <1>1, <1>5, TotalType, TotalAppend
<1>8. v # <<>> => Total(v) = v[1] + Total(Tail(v))
  BY <1>1, TotalTail
<1>9. q = <<>> => Total(v) = 0
  BY <1>2, TotalEmpty
<1>10. ASSUME q # <<>> PROVE Weigh(W, q) = W[q[1]] + Weigh(W, Tail(q))
  BY <1>4, <1>6, <1>8, <1>10 DEF Weigh
<1>11. ASSUME NEW f \in S PROVE Weigh(W, Append(q, f)) = Weigh(W, q) + W[f]
  BY <1>3, <1>6, <1>7 DEF Weigh
<1> QED BY <1>6, <1>7, <1>9, <1>10, <1>11

\* The DATA units and the increments among frames.
LEMMA DataInFacts ==
  ASSUME NEW q \in Seq(Frames), NEW w \in Windows
  PROVE  /\ DataIn(q, w) \in Nat /\ (q = <<>> => DataIn(q, w) = 0)
         /\ \A f \in Frames : DataIn(Append(q, f), w) = DataIn(q, w) + Datum(f, w)
         /\ q # <<>> => DataIn(q, w) = Datum(q[1], w) + DataIn(Tail(q), w)
<1> DEFINE W == [f \in Frames |-> Datum(f, w)]
<1>1. W \in [Frames -> Nat] /\ \A f \in Frames : W[f] = Datum(f, w)
  BY DEF Datum
<1>2. ASSUME NEW p \in Seq(Frames) PROVE DataIn(p, w) = Weigh(W, p)
  <2>1. [i \in DOMAIN p |-> W[p[i]]] = [i \in DOMAIN p |-> Datum(p[i], w)]
    BY <1>1
  <2> HIDE DEF W
  <2> QED BY <2>1 DEF DataIn, Weigh
<1> HIDE DEF W
<1>3. /\ \A f \in Frames : Append(q, f) \in Seq(Frames)
      /\ q # <<>> => Tail(q) \in Seq(Frames) /\ q[1] \in Frames
  OBVIOUS
<1>4. /\ Weigh(W, q) \in Nat /\ (q = <<>> => Weigh(W, q) = 0)
      /\ \A f \in Frames : Weigh(W, Append(q, f)) = Weigh(W, q) + W[f]
      /\ q # <<>> => Weigh(W, q) = W[q[1]] + Weigh(W, Tail(q))
  BY <1>1, WeighFacts
<1> QED BY <1>1, <1>2, <1>3, <1>4

LEMMA UpdatesInFacts ==
  ASSUME NEW q \in Seq(Frames), NEW w \in Windows
  PROVE  /\ UpdatesIn(q, w) \in Nat /\ (q = <<>> => UpdatesIn(q, w) = 0)
         /\ \A f \in Frames : UpdatesIn(Append(q, f), w) = UpdatesIn(q, w) + Update(f, w)
         /\ q # <<>> => UpdatesIn(q, w) = Update(q[1], w) + UpdatesIn(Tail(q), w)
<1> DEFINE W == [f \in Frames |-> Update(f, w)]
<1>1. W \in [Frames -> Nat] /\ \A f \in Frames : W[f] = Update(f, w)
  BY DEF Update, Frames
<1>2. ASSUME NEW p \in Seq(Frames) PROVE UpdatesIn(p, w) = Weigh(W, p)
  <2>1. [i \in DOMAIN p |-> W[p[i]]] = [i \in DOMAIN p |-> Update(p[i], w)]
    BY <1>1
  <2> HIDE DEF W
  <2> QED BY <2>1 DEF UpdatesIn, Weigh
<1> HIDE DEF W
<1>3. /\ \A f \in Frames : Append(q, f) \in Seq(Frames)
      /\ q # <<>> => Tail(q) \in Seq(Frames) /\ q[1] \in Frames
  OBVIOUS
<1>4. /\ Weigh(W, q) \in Nat /\ (q = <<>> => Weigh(W, q) = 0)
      /\ \A f \in Frames : Weigh(W, Append(q, f)) = Weigh(W, q) + W[f]
      /\ q # <<>> => Weigh(W, q) = W[q[1]] + Weigh(W, Tail(q))
  BY <1>1, WeighFacts
<1> QED BY <1>1, <1>2, <1>3, <1>4

\* What a window has received and what of it is in a WINDOW_UPDATE that waits.
Held(f, v) == f.received[v] + UpdatesIn(f.reg, v)

\* Receiving adds to one window, and queueing an update moves all of it.
LEMMA ReceivedHeld ==
  ASSUME NEW f \in FlowRegs, NEW w \in Windows, NEW delta \in Nat, NEW v \in Windows
  PROVE  Held(Received(f, w, delta), v) = Held(f, v) + (IF v = w THEN delta ELSE 0)
<1> DEFINE n == f.received[w] + delta
           u == Frame("window", w, n, FALSE)
<1>1. /\ n \in Nat /\ f.reg \in Seq(Control) /\ f.received \in [Windows -> Nat]
      /\ f.received[v] \in Nat
  BY DEF FlowRegs
<1>2. u \in Frames /\ Update(u, v) = IF v = w THEN n ELSE 0
  <2>1. u \in Frames
    BY <1>1 DEF Frame, Frames
  <2>2. Update(u, v) = IF v = w THEN n ELSE 0
    BY DEF Frame, Update
  <2> QED BY <2>1, <2>2
<1>3. f.reg \in Seq(Frames)
  <2>1. Control \subseteq Frames
    BY DEF Control
  <2> QED BY <1>1, <2>1, SeqMonotone
<1> HIDE DEF u, n
<1>4. UpdatesIn(f.reg, v) \in Nat /\ UpdatesIn(Append(f.reg, u), v) = UpdatesIn(f.reg, v) + Update(u, v)
  BY <1>2, <1>3, UpdatesInFacts
<1>5. CASE w \notin f.queued /\ Due(n)
  <2>1. /\ Received(f, w, delta).received = [f.received EXCEPT ![w] = 0]
        /\ Received(f, w, delta).reg = Append(f.reg, u)
    BY <1>5 DEF Received, n, u
  <2>2. CASE v = w
    <3>1. Received(f, w, delta).received[v] = 0 /\ Update(u, v) = f.received[v] + delta
      BY <1>1, <1>2, <2>1, <2>2 DEF n
    <3> QED BY <1>1, <1>4, <2>1, <2>2, <3>1 DEF Held
  <2>3. CASE v # w
    <3>1. Received(f, w, delta).received[v] = f.received[v] /\ Update(u, v) = 0
      BY <1>1, <1>2, <2>1, <2>3
    <3> QED BY <1>1, <1>4, <2>1, <2>3, <3>1 DEF Held
  <2> QED BY <2>2, <2>3
<1>6. CASE ~(w \notin f.queued /\ Due(n))
  <2>1. Received(f, w, delta) = [f EXCEPT !.received[w] = n]
    BY <1>6 DEF Received, n
  <2>2. /\ Received(f, w, delta).received = [f.received EXCEPT ![w] = n]
        /\ Received(f, w, delta).reg = f.reg
    BY <2>1 DEF FlowRegs
  <2>3. CASE v = w
    <3>1. Received(f, w, delta).received[v] = f.received[v] + delta
      BY <1>1, <2>2, <2>3 DEF n
    <3> QED BY <1>1, <1>4, <2>2, <2>3, <3>1 DEF Held
  <2>4. CASE v # w
    <3>1. Received(f, w, delta).received[v] = f.received[v]
      BY <1>1, <2>2, <2>4
    <3> QED BY <1>1, <1>4, <2>2, <2>4, <3>1 DEF Held
  <2> QED BY <2>3, <2>4
<1> QED BY <1>5, <1>6

-----------------------------------------------------------------------------
(* The windows *)

Tracked == {Connection} \cup open \cup (Streams \ Opened)

\* No unit of a window is made, and none lost of the connection's, of an open
\* stream's, or of a stream's that is still to be opened.
BalanceInv ==
  /\ \A w \in Windows : server.credit[w] >= 0 /\ Balance(w) <= Window
  /\ link = "open" => \A w \in Tracked : Balance(w) = Window

LEMMA FrameSeqs ==
  ASSUME TypeInv, OpenedInv
  PROVE  /\ sending \in Seq(Frames) /\ down \in Seq(Frames)
         /\ reg \in Seq(Frames) /\ urgent \in Seq(Frames)
<1>1. /\ KnownSendable \subseteq Frames /\ KnownReceivable \subseteq Frames
      /\ KnownControl \subseteq Frames /\ Urgent \subseteq Frames
  BY DEF KnownSendable, Sendable, KnownReceivable, Receivable, KnownControl, Increments, Control, Urgent
<1> QED BY <1>1, SeqMonotone DEF OpenedInv

\* The parts of the balance.
LEMMA BalanceParts ==
  ASSUME TypeInv, OpenedInv, NEW w \in Windows
  PROVE  /\ server.credit[w] \in Int /\ DataIn(down, w) \in Nat
         /\ flow.received[w] \in Nat /\ UpdatesIn(reg, w) \in Nat
         /\ Held(Flow, w) \in Nat /\ UpdatesIn(sending, w) \in Nat
         /\ Held(Flow, w) = flow.received[w] + UpdatesIn(reg, w)
         /\ Balance(w) = server.credit[w] + DataIn(down, w) + Held(Flow, w) + UpdatesIn(sending, w)
<1>1. server.credit[w] \in Int /\ flow.received[w] \in Nat
  BY DEF TypeInv, Servers, Flows
<1>2. DataIn(down, w) \in Nat /\ UpdatesIn(reg, w) \in Nat /\ UpdatesIn(sending, w) \in Nat
  BY FrameSeqs, DataInFacts, UpdatesInFacts
<1>3. Held(Flow, w) = flow.received[w] + UpdatesIn(reg, w)
  BY DEF Held, Flow
<1> QED BY <1>1, <1>2, <1>3 DEF Balance

LEMMA TrackedWindows ==
  ASSUME TypeInv
  PROVE  Tracked \subseteq Windows
BY DEF Tracked, Windows, TypeInv

\* A step that keeps every balance.
LEMMA BalanceSame ==
  ASSUME TypeInv, BalanceInv, link' = link \/ link' = "closed", Tracked' \subseteq Tracked,
         \A w \in Windows : server'.credit[w] >= 0 /\ Balance(w)' = Balance(w)
  PROVE  BalanceInv'
<1>1. \A w \in Windows : server'.credit[w] >= 0 /\ Balance(w)' <= Window
  BY DEF BalanceInv
<1>2. link' = "open" => \A w \in Tracked : Balance(w) = Window
  BY DEF BalanceInv
<1>3. link' = "open" => \A w \in Tracked' : w \in Windows => Balance(w)' = Window
  BY <1>2
<1> QED BY <1>1, <1>3, TrackedWindows DEF BalanceInv

\* The balance when a frame is packed that is no WINDOW_UPDATE.
LEMMA PackBalance ==
  ASSUME TypeInv, OpenedInv, NEW f \in Frames, f.type # "window", NEW w \in Windows,
         sending' = Append(sending, f), UNCHANGED <<server, down, flow, reg>>
  PROVE  Balance(w)' = Balance(w)
<1>1. UpdatesIn(Append(sending, f), w) = UpdatesIn(sending, w) + Update(f, w)
  BY FrameSeqs, UpdatesInFacts
<1>2. Update(f, w) = 0
  BY DEF Update
<1>3. UpdatesIn(sending', w) = UpdatesIn(sending, w)
  BY <1>1, <1>2, BalanceParts
<1> QED BY <1>3 DEF Balance

LEMMA PackWindows ==
  ASSUME TypeInv, SynInv, SentInv, OpenedInv, BalanceInv, PopItem
  PROVE  BalanceInv'
<1>1. UNCHANGED <<server, down, flow, link>>
  BY DEF PopItem, PackUrgent, PackReg, PackSyn, PackData, Pack, input, net
<1>2. \A w \in Windows : server'.credit[w] >= 0
  BY <1>1 DEF BalanceInv
<1>3. CASE PackUrgent
  <2>1. UNCHANGED <<reg, open, own, syn>> /\ sending' = Append(sending, Head(urgent)) /\ urgent # <<>>
    BY <1>3 DEF PackUrgent, Pack, app
  <2>2. Head(urgent) \in Frames /\ Head(urgent).type # "window"
    <3>1. Head(urgent) \in Urgent
      BY <2>1, SeqFacts DEF OpenedInv
    <3> QED BY <3>1 DEF Urgent, Control
  <2>3. \A w \in Windows : Balance(w)' = Balance(w)
    BY <1>1, <2>1, <2>2, PackBalance
  <2>4. Tracked' = Tracked
    BY <2>1 DEF Tracked, Opened
  <2> QED BY <1>1, <1>2, <2>3, <2>4, BalanceSame
<1>4. CASE PackSyn
  <2>1. UNCHANGED reg /\ sending' = Append(sending, Head(syn)) /\ syn # <<>> /\ cur' = Head(syn)
    BY <1>4 DEF PackSyn, SynReady, Pack
  <2>2. Head(syn) \in Frames /\ Head(syn).type # "window"
    <3>1. Head(syn) \in Requests
      BY <2>1, SeqFacts DEF TypeInv
    <3> QED BY <3>1 DEF Requests
  <2>3. \A w \in Windows : Balance(w)' = Balance(w)
    BY <1>1, <2>1, <2>2, PackBalance
  <2>4. Tracked' \subseteq Tracked
    BY <1>4, SynOpens DEF Tracked
  <2> QED BY <1>1, <1>2, <2>3, <2>4, BalanceSame
<1>5. CASE PackData
  <2>1. PICK s \in attached : Pack(Frame("data", s, 0, body[s] = 1))
    BY <1>5 DEF PackData
  <2> DEFINE f == Frame("data", s, 0, body[s] = 1)
  <2>2. f \in Frames /\ f.type # "window"
    <3>1. s \in Windows
      BY DEF Windows, TypeInv
    <3>2. \A e \in BOOLEAN : Frame("data", s, 0, e) \in Frames /\ Frame("data", s, 0, e).type = "data"
      BY <3>1, FrameType
    <3>3. (body[s] = 1) \in BOOLEAN
      OBVIOUS
    <3>4. f \in Frames /\ f.type = "data"
      BY <3>2, <3>3, Zenon
    <3> QED BY <3>4
  <2>3. UNCHANGED <<reg, open, own, syn>> /\ sending' = Append(sending, f)
    BY <1>5, <2>1 DEF PackData, Pack, app
  <2> HIDE DEF f
  <2>4. \A w \in Windows : Balance(w)' = Balance(w)
    BY <1>1, <2>2, <2>3, PackBalance
  <2>5. Tracked' = Tracked
    BY <2>3 DEF Tracked, Opened
  <2> QED BY <1>1, <1>2, <2>4, <2>5, BalanceSame
<1>6. CASE PackReg
  <2> DEFINE f == Head(reg)
  <2>1. /\ UNCHANGED <<open, own, syn>> /\ reg # <<>> /\ reg' = Tail(reg) /\ f = reg[1]
        /\ f \in KnownControl /\ f \in Frames
    <3>1. f \in KnownControl /\ f = reg[1]
      BY <1>6, SeqFacts DEF PackReg, OpenedInv
    <3> QED BY <1>6, <3>1 DEF PackReg, Pack, app, KnownControl, Increments, Control
  <2>2. Tracked' = Tracked
    BY <2>1 DEF Tracked, Opened
  <2>3. \/ f.sid \in open \cup {Connection} /\ sending' = Append(sending, f)
        \/ f.sid \notin open \cup {Connection} /\ sending' = sending
    BY <1>6 DEF PackReg, Pack, active
  <2> HIDE DEF f
  <2>4. ASSUME NEW w \in Windows
        PROVE  /\ UpdatesIn(reg, w) = Update(f, w) + UpdatesIn(reg', w) /\ UpdatesIn(reg', w) \in Nat
               /\ UpdatesIn(Append(sending, f), w) = UpdatesIn(sending, w) + Update(f, w)
               /\ Update(f, w) \in Nat
    <3>1. reg' \in Seq(Frames)
      BY <2>1, FrameSeqs, SeqFacts
    <3>2. UpdatesIn(reg', w) \in Nat
      BY <3>1, UpdatesInFacts
    <3>3. UpdatesIn(reg, w) = Update(f, w) + UpdatesIn(reg', w)
      BY <2>1, FrameSeqs, UpdatesInFacts
    <3>4. UpdatesIn(Append(sending, f), w) = UpdatesIn(sending, w) + Update(f, w)
      BY <2>1, FrameSeqs, UpdatesInFacts
    <3>5. Update(f, w) \in Nat
      BY <2>1 DEF Update, Frames
    <3> QED BY <3>2, <3>3, <3>4, <3>5
  <2>5. CASE f.sid \in open \cup {Connection} /\ sending' = Append(sending, f)
    <3>1. ASSUME NEW w \in Windows PROVE Balance(w)' = Balance(w)
      <4>1. UpdatesIn(reg', w) + UpdatesIn(sending', w) = UpdatesIn(reg, w) + UpdatesIn(sending, w)
        BY <2>4, <2>5, BalanceParts
      <4>2. UpdatesIn(reg', w) \in Nat /\ UpdatesIn(sending', w) \in Nat
        BY <2>4, <2>5, BalanceParts
      <4> QED BY <1>1, <4>1, <4>2, BalanceParts DEF Balance
    <3> QED BY <1>1, <1>2, <2>2, <3>1, BalanceSame
  <2>6. CASE f.sid \notin open \cup {Connection} /\ sending' = sending
    <3>1. ASSUME NEW w \in Windows
          PROVE  Balance(w)' = Balance(w) - Update(f, w)
      BY <1>1, <2>4, <2>6, BalanceParts DEF Balance
    <3>2. \A w \in Tracked : Update(f, w) = 0
      BY <2>1, <2>6 DEF Tracked, Update, KnownControl, Increments, Known
    <3>3. \A w \in Windows : Balance(w) \in Int
      BY BalanceParts
    <3>4. \A w \in Windows : Balance(w)' <= Window
      BY <2>4, <3>1, <3>3, SessionAssumption DEF BalanceInv
    <3>5. link = "open" => \A w \in Tracked : Balance(w)' = Window
      BY <3>1, <3>2, <3>3, TrackedWindows DEF BalanceInv
    <3> QED BY <1>1, <1>2, <2>2, <3>4, <3>5 DEF BalanceInv
  <2> QED BY <2>3, <2>5, <2>6
<1> QED BY <1>3, <1>4, <1>5, <1>6 DEF PopItem

\* What is set for the windows is what they hold next.
LEMMA HeldNext ==
  ASSUME NEW f \in FlowRegs, SetFlow(f), NEW w \in Windows
  PROVE  /\ flow'.received[w] + UpdatesIn(reg', w) = Held(f, w)
         /\ flow'.received[w] \in Nat /\ UpdatesIn(reg', w) \in Nat
<1>1. flow'.received = f.received /\ reg' = f.reg
  BY DEF SetFlow
<1>2. Control \subseteq Frames
  BY DEF Control
<1>3. f.reg \in Seq(Frames) /\ f.received[w] \in Nat
  BY <1>2, SeqMonotone DEF FlowRegs
<1>4. UpdatesIn(f.reg, w) \in Nat
  BY <1>3, UpdatesInFacts
<1> QED BY <1>1, <1>3, <1>4 DEF Held

\* An update that was sent may be followed by the next: nothing is lost.
LEMMA AfterWindows ==
  ASSUME TypeInv, OpenedInv, BalanceInv, AfterFrameSent
  PROVE  BalanceInv'
<1> DEFINE again == [Flow EXCEPT !.queued = @ \ {cur.sid}]
<1>1. UNCHANGED <<own, syn, sending, down, server, link>> /\ open' \subseteq open
  BY DEF AfterFrameSent, Shutdown, CloseStreams, app, net
<1>2. Tracked' \subseteq Tracked
  BY <1>1 DEF Tracked, Opened
<1>3. again \in FlowRegs /\ again.received = Flow.received /\ again.reg = Flow.reg
  BY FlowType DEF FlowRegs
<1>4. \A w \in Windows : Held(again, w) = Held(Flow, w)
  BY <1>3 DEF Held
<1>5. CASE UNCHANGED <<flow, reg>>
  <2>1. \A w \in Windows : server'.credit[w] >= 0 /\ Balance(w)' = Balance(w)
    BY <1>1, <1>5 DEF Balance, BalanceInv
  <2> QED BY <1>1, <1>2, <2>1, BalanceSame
<1>6. CASE cur.type = "window"
  <2>1. PICK f \in FlowRegs : SetFlow(f) /\ \A w \in Windows : Held(f, w) = Held(Flow, w)
    <3>1. cur.sid \in Windows
      <4>1. cur \in Sendable
        BY <1>6 DEF TypeInv, AfterFrameSent
      <4> QED BY <4>1 DEF Sendable, Frames
    <3>2. SetFlow(IF cur.sid \in {Connection} \cup (open \ shut.rd)
                  THEN Received(again, cur.sid, 0) ELSE again)
      BY <1>6 DEF AfterFrameSent
    <3> HIDE DEF again
    <3>3. Received(again, cur.sid, 0) \in FlowRegs
      BY <1>3, <3>1, ReceivedType
    <3>4. ASSUME NEW w \in Windows PROVE Held(Received(again, cur.sid, 0), w) = Held(Flow, w)
      <4>1. Held(Received(again, cur.sid, 0), w) = Held(again, w) + (IF w = cur.sid THEN 0 ELSE 0)
        BY <1>3, <3>1, ReceivedHeld
      <4>2. Held(Flow, w) \in Nat
        BY BalanceParts
      <4> QED BY <1>4, <4>1, <4>2
    <3>5. SetFlow(Received(again, cur.sid, 0)) \/ SetFlow(again)
      BY <3>2
    <3> QED BY <1>3, <1>4, <3>3, <3>4, <3>5
  <2>2. ASSUME NEW w \in Windows PROVE Balance(w)' = Balance(w)
    BY <1>1, <2>1, HeldNext, BalanceParts DEF Balance
  <2>3. \A w \in Windows : server'.credit[w] >= 0
    BY <1>1 DEF BalanceInv
  <2> QED BY <1>1, <1>2, <2>2, <2>3, BalanceSame
<1> QED BY <1>5, <1>6 DEF AfterFrameSent

\* A DATA frame that is received leaves the way and is held by its windows.
LEMMA RecvWindows ==
  ASSUME TypeInv, DownInv, OpenedInv, BalanceInv, RecvFrame
  PROVE  BalanceInv'
<1> DEFINE f == Head(down)
<1>1. /\ UNCHANGED <<sending, server, link>> /\ down # <<>> /\ f = down[1] /\ down' = Tail(down)
      /\ f \in Receivable /\ f \in Frames
  <2>1. f \in Receivable /\ f = down[1]
    BY SeqFacts DEF RecvFrame, DownInv
  <2> QED BY <2>1 DEF RecvFrame, active, Receivable
<1> HIDE DEF f
<1>2. /\ Opened' = Opened /\ open' \subseteq open
      /\ \/ OnData(f) /\ f.type = "data"
         \/ UNCHANGED <<reg, flow>> /\ f.type # "data"
  BY RecvOpens DEF f
<1>3. Tracked' \subseteq Tracked
  BY <1>2 DEF Tracked
<1>4. ASSUME NEW w \in Windows
      PROVE  /\ DataIn(down, w) = Datum(f, w) + DataIn(down', w)
             /\ DataIn(down', w) \in Nat /\ Datum(f, w) \in Nat
  <2>1. down' \in Seq(Frames)
    BY <1>1, FrameSeqs, SeqFacts
  <2> QED BY <1>1, <2>1, FrameSeqs, DataInFacts DEF Datum
<1>5. \A w \in Windows : server'.credit[w] >= 0
  BY <1>1 DEF BalanceInv
<1>6. CASE OnData(f) /\ f.type = "data"
  <2> DEFINE conn == Received(Flow, Connection, 1)
             last == [conn EXCEPT !.received[f.sid] = @ + 1]
  <2>1. f.sid \in Windows /\ f.sid # Connection /\ Connection \in Windows
    BY <1>1, <1>6, StreamNumbers DEF Receivable, Windows
  <2>2. conn \in FlowRegs
    BY <2>1, FlowType, ReceivedType
  <2>3. ASSUME NEW w \in Windows
        PROVE  Held(conn, w) = Held(Flow, w) + (IF w = Connection THEN 1 ELSE 0) /\ Held(Flow, w) \in Nat
    BY <2>1, FlowType, ReceivedHeld, BalanceParts
  <2>4. SetFlow(IF f.end THEN last ELSE Received(conn, f.sid, 1))
    BY <1>6 DEF OnData
  <2> HIDE DEF conn
  <2>5. last \in FlowRegs /\ \A w \in Windows : Held(last, w) = Held(conn, w) + (IF w = f.sid THEN 1 ELSE 0)
    <3> DEFINE more == conn.received[f.sid] + 1
    <3>1. conn.received \in [Windows -> Nat] /\ more \in Nat /\ conn.reg \in Seq(Control)
      BY <2>1, <2>2 DEF FlowRegs
    <3>2. last = [conn EXCEPT !.received[f.sid] = more]
      OBVIOUS
    <3>3. /\ last \in FlowRegs /\ last.reg = conn.reg
          /\ last.received = [conn.received EXCEPT ![f.sid] = more]
      <4> HIDE DEF more, last
      <4> QED BY <2>2, <3>1, <3>2 DEF FlowRegs
    <3> HIDE DEF last
    <3>4. ASSUME NEW w \in Windows
          PROVE  last.received[w] = conn.received[w] + (IF w = f.sid THEN 1 ELSE 0) /\ conn.received[w] \in Nat
      BY <3>1, <3>3
    <3>5. ASSUME NEW w \in Windows PROVE UpdatesIn(conn.reg, w) \in Nat
      <4>1. conn.reg \in Seq(Frames)
        <5>1. Control \subseteq Frames
          BY DEF Control
        <5> QED BY <3>1, <5>1, SeqMonotone
      <4> QED BY <4>1, UpdatesInFacts
    <3> QED BY <3>3, <3>4, <3>5 DEF Held
  <2> HIDE DEF last
  <2>6. PICK g \in FlowRegs : SetFlow(g) /\ \A w \in Windows : Held(g, w) = Held(conn, w) + (IF w = f.sid THEN 1 ELSE 0)
    <3>1. /\ Received(conn, f.sid, 1) \in FlowRegs
          /\ \A w \in Windows : Held(Received(conn, f.sid, 1), w) = Held(conn, w) + (IF w = f.sid THEN 1 ELSE 0)
      BY <2>1, <2>2, ReceivedType, ReceivedHeld
    <3> QED BY <2>4, <2>5, <3>1
  <2>7. ASSUME NEW w \in Windows PROVE Balance(w)' = Balance(w)
    <3>1. Datum(f, w) = (IF w = Connection THEN 1 ELSE 0) + (IF w = f.sid THEN 1 ELSE 0)
      BY <1>6, <2>1 DEF Datum
    <3>2. flow'.received[w] + UpdatesIn(reg', w) = Held(Flow, w) + Datum(f, w)
      BY <2>3, <2>6, <3>1, HeldNext
    <3>3. flow'.received[w] \in Nat /\ UpdatesIn(reg', w) \in Nat
      BY <2>6, HeldNext
    <3>4. /\ server.credit[w] \in Int /\ Held(Flow, w) \in Nat /\ UpdatesIn(sending, w) \in Nat
          /\ Balance(w) = server.credit[w] + DataIn(down, w) + Held(Flow, w) + UpdatesIn(sending, w)
      BY BalanceParts
    <3>5. Balance(w)' = server.credit[w] + DataIn(down', w) + flow'.received[w]
                        + UpdatesIn(reg', w) + UpdatesIn(sending, w)
      BY <1>1 DEF Balance
    <3> QED BY <1>4, <3>2, <3>3, <3>4, <3>5
  <2> QED BY <1>1, <1>3, <1>5, <2>7, BalanceSame
<1>7. CASE UNCHANGED <<reg, flow>> /\ f.type # "data"
  <2>1. ASSUME NEW w \in Windows PROVE Balance(w)' = Balance(w)
    <3>1. Datum(f, w) = 0
      BY <1>7 DEF Datum
    <3> QED BY <1>1, <1>4, <1>7, <3>1, BalanceParts DEF Balance
  <2> QED BY <1>1, <1>3, <1>5, <2>1, BalanceSame
<1> QED BY <1>2, <1>6, <1>7

\* What the server reads of the increments it may send again, and what it sends
\* it may not send again.
LEMMA ServerWindows ==
  ASSUME TypeInv, DownInv, UnitInv, OpenedInv, BalanceInv, Server \/ Close
  PROVE  BalanceInv'
<1>1. UNCHANGED <<own, syn, open, flow, reg>> /\ server \in Servers /\ down \in Seq(Frames)
  BY FrameSeqs DEF Server, Close, Hello, ServerReads, Greets, Handles, ServerTakes, Reply, Replies, ServerSame,
     app, queues, streams, input, TypeInv
<1>2. Tracked' = Tracked
  BY <1>1 DEF Tracked, Opened
<1>3. ASSUME NEW w \in Windows
      PROVE  /\ server.credit[w] \in Int /\ server.credit[w] >= 0 /\ DataIn(down, w) \in Nat
             /\ flow.received[w] \in Nat /\ UpdatesIn(reg, w) \in Nat /\ UpdatesIn(sending, w) \in Nat
             /\ Balance(w) = server.credit[w] + DataIn(down, w)
                             + flow.received[w] + UpdatesIn(reg, w) + UpdatesIn(sending, w)
  BY BalanceParts DEF Balance, BalanceInv
<1>4. ASSUME NEW w \in Windows
      PROVE  Balance(w)' = server'.credit[w] + DataIn(down', w)
                           + flow.received[w] + UpdatesIn(reg, w) + UpdatesIn(sending', w)
  BY <1>1 DEF Balance
<1>5. CASE ServerReads
  <2> DEFINE f == wire[1][1]
  <2>1. sending # <<>> /\ f = sending[1] /\ f \in Frames /\ sending' = Tail(sending) /\ UNCHANGED link
    <3>1. sending # <<>> /\ f = sending[1] /\ f \in Sendable
      BY <1>5, HeadOfWire DEF ServerReads
    <3>2. sending' = Tail(sending) /\ UNCHANGED link
      BY <1>5 DEF ServerReads, Greets, Handles, ServerTakes
    <3> QED BY <3>1, <3>2 DEF Sendable
  <2>2. Greets(f) \/ Handles(f)
    BY <1>5 DEF ServerReads
  <2> HIDE DEF f
  <2>3. ASSUME NEW w \in Windows
        PROVE  /\ UpdatesIn(sending, w) = Update(f, w) + UpdatesIn(sending', w)
               /\ UpdatesIn(sending', w) \in Nat /\ Update(f, w) \in Nat
    <3>1. sending' \in Seq(Frames)
      BY <2>1, FrameSeqs, SeqFacts
    <3> QED BY <2>1, <3>1, FrameSeqs, UpdatesInFacts DEF Update, Frames
  <2>4. ASSUME NEW w \in Windows PROVE server'.credit[w] = server.credit[w] + Update(f, w)
    <3>1. CASE f.type = "window" /\ server' = [server EXCEPT !.credit[f.sid] = @ + f.n]
      <4>1. f.sid \in Windows /\ f.n \in Nat /\ server.credit \in [Windows -> Int]
        BY <1>1, <2>1 DEF Frames, Servers
      <4>2. server'.credit = [server.credit EXCEPT ![f.sid] = @ + f.n]
        BY <1>1, <3>1 DEF Servers
      <4> QED BY <3>1, <4>1, <4>2 DEF Update
    <3>2. CASE f.type # "window" /\ server'.credit = server.credit
      BY <1>3, <3>2 DEF Update
    <3>3. CASE Greets(f)
      <4>1. f.type # "window"
        BY <1>1, <3>3 DEF Greets, Servers
      <4>2. server'.credit = server.credit
        BY <1>1, <3>3 DEF Greets, ServerTakes, Servers
      <4> QED BY <3>2, <4>1, <4>2
    <3>4. CASE Handles(f)
      <4>1. \/ f.type = "window" /\ server' = [server EXCEPT !.credit[f.sid] = @ + f.n]
            \/ f.type # "window" /\ server'.credit = server.credit
        BY <1>1, <3>4 DEF Handles, ServerTakes, Servers
      <4> QED BY <3>1, <3>2, <4>1
    <3> QED BY <2>2, <3>3, <3>4
  <2>5. ASSUME NEW w \in Windows PROVE DataIn(down', w) = DataIn(down, w)
    <3>1. \/ down' = down
          \/ f.type = "headers" /\ down' = Append(down, Frame("reset", f.sid, 0, TRUE))
      <4>1. down \o <<>> = down /\ \A e : down \o <<e>> = Append(down, e)
        BY <1>1
      <4> QED BY <2>2, <4>1 DEF Greets, Handles, ServerTakes
    <3>2. Frame("reset", f.sid, 0, TRUE) \in Frames /\ Datum(Frame("reset", f.sid, 0, TRUE), w) = 0
      <4>1. \A e \in BOOLEAN : /\ Frame("reset", f.sid, 0, e) \in Frames
                               /\ Frame("reset", f.sid, 0, e).type = "reset"
        BY <2>1, FrameType DEF Frames
      <4>2. Frame("reset", f.sid, 0, TRUE) \in Frames /\ Frame("reset", f.sid, 0, TRUE).type = "reset"
        BY <4>1, Zenon
      <4> QED BY <4>2 DEF Datum
    <3> DEFINE g == Frame("reset", f.sid, 0, TRUE)
    <3>3. g \in Frames /\ Datum(g, w) = 0 /\ (down' = down \/ down' = Append(down, g))
      BY <3>1, <3>2
    <3> HIDE DEF g
    <3>4. DataIn(Append(down, g), w) = DataIn(down, w) + Datum(g, w)
      BY <1>1, <3>3, DataInFacts
    <3>5. DataIn(Append(down, g), w) = DataIn(down, w)
      BY <1>3, <3>3, <3>4
    <3> QED BY <3>3, <3>5
  <2>6. ASSUME NEW w \in Windows PROVE server'.credit[w] >= 0 /\ Balance(w)' = Balance(w)
    BY <1>3, <1>4, <2>3, <2>4, <2>5
  <2> QED BY <1>2, <2>1, <2>6, BalanceSame
<1>6. CASE Hello
  <2>1. UNCHANGED <<sending, link>> /\ down' = Append(down, Plain("settings")) /\ server'.credit = server.credit
    BY <1>1, <1>6 DEF Hello, ServerSame, active, Servers
  <2>2. Plain("settings") \in Frames /\ Plain("settings").type = "settings"
    <3>1. Connection \in Windows
      BY DEF Windows
    <3>2. \A e \in BOOLEAN : /\ Frame("settings", Connection, 0, e) \in Frames
                             /\ Frame("settings", Connection, 0, e).type = "settings"
      BY <3>1, FrameType
    <3> QED BY <3>2, Zenon DEF Plain
  <2>3. ASSUME NEW w \in Windows PROVE server'.credit[w] >= 0 /\ Balance(w)' = Balance(w)
    <3>1. DataIn(down', w) = DataIn(down, w)
      BY <1>1, <1>3, <2>1, <2>2, DataInFacts DEF Datum
    <3> QED BY <1>3, <1>4, <2>1, <3>1
  <2> QED BY <1>2, <2>1, <2>3, BalanceSame
<1>7. ASSUME NEW s \in Streams, Reply(s) PROVE BalanceInv'
  <2>1. UNCHANGED <<sending, link>> /\ s \in Windows /\ Connection \in Windows
    BY <1>7 DEF Reply, Replies, ServerSame, active, Windows
  <2>2. PICK f \in Frames :
          /\ down' = Append(down, f)
          /\ \A w \in Windows : /\ server'.credit[w] = server.credit[w] - Datum(f, w)
                                /\ Datum(f, w) = 1 => server.credit[w] > 0
    <3>1. CASE Replies(s, Frame("headers", s, 0, TRUE), server)
      <4>1. \A e \in BOOLEAN : /\ Frame("headers", s, 0, e) \in Frames
                               /\ Frame("headers", s, 0, e).type = "headers"
        BY <2>1, FrameType
      <4>2. Frame("headers", s, 0, TRUE) \in Frames /\ Frame("headers", s, 0, TRUE).type = "headers"
        BY <4>1, Zenon
      <4>3. \A w : Datum(Frame("headers", s, 0, TRUE), w) = 0
        BY <4>2 DEF Datum
      <4>4. server'.credit = server.credit /\ down' = Append(down, Frame("headers", s, 0, TRUE))
        BY <1>1, <3>1 DEF Replies, Servers
      <4>5. \A w \in Windows : server.credit[w] = server.credit[w] - 0
        BY <1>3
      <4>6. PICK g \in Frames : down' = Append(down, g) /\ \A w : Datum(g, w) = 0
        BY <4>2, <4>3, <4>4
      <4>7. \A w \in Windows : /\ server'.credit[w] = server.credit[w] - Datum(g, w)
                               /\ Datum(g, w) = 1 => server.credit[w] > 0
        BY <4>4, <4>5, <4>6
      <4> QED BY <4>6, <4>7
    <3>2. ASSUME NEW end \in BOOLEAN, \A w \in {Connection, s} : server.credit[w] > 0,
                 Replies(s, Frame("data", s, server.sent[s] + 1, end),
                         [server EXCEPT !.sent[s] = @ + 1, !.credit = Spent(s)])
          PROVE  \E f \in Frames :
                   /\ down' = Append(down, f)
                   /\ \A w \in Windows : /\ server'.credit[w] = server.credit[w] - Datum(f, w)
                                         /\ Datum(f, w) = 1 => server.credit[w] > 0
      <4> DEFINE f == Frame("data", s, server.sent[s] + 1, end)
      <4>1. f \in Frames /\ f.type = "data" /\ f.sid = s
        <5>1. server.sent[s] + 1 \in Nat
          BY <1>1 DEF Servers
        <5> QED BY <2>1, <5>1, FrameType
      <4>2. down' = Append(down, f) /\ server'.credit = Spent(s)
        BY <1>1, <3>2 DEF Replies, Servers
      <4> HIDE DEF f
      <4>3. \A w : Datum(f, w) = IF w \in {Connection, s} THEN 1 ELSE 0
        BY <4>1 DEF Datum
      <4>4. \A w \in Windows : server'.credit[w] = server.credit[w] - Datum(f, w)
        BY <4>2, <4>3 DEF Spent
      <4>5. \A w \in Windows : Datum(f, w) = 1 => server.credit[w] > 0
        BY <3>2, <4>3
      <4> QED BY <4>1, <4>2, <4>4, <4>5
    <3> QED BY <1>7, <3>1, <3>2 DEF Reply
  <2>3. ASSUME NEW w \in Windows PROVE server'.credit[w] >= 0 /\ Balance(w)' = Balance(w)
    <3>1. DataIn(down', w) = DataIn(down, w) + Datum(f, w) /\ Datum(f, w) \in {0, 1}
      BY <1>1, <2>2, DataInFacts DEF Datum
    <3>2. /\ server'.credit[w] = server.credit[w] - Datum(f, w)
          /\ Datum(f, w) = 1 => server.credit[w] > 0
      BY <2>2
    <3>3. UpdatesIn(sending', w) = UpdatesIn(sending, w)
      BY <2>1
    <3> QED BY <1>3, <1>4, <3>1, <3>2, <3>3
  <2> QED BY <1>2, <2>1, <2>3, BalanceSame
<1>8. CASE Close
  <2>1. /\ UNCHANGED <<sending, server>> /\ link' = "closed"
        /\ down' = <<>> \/ down' = down
    BY <1>8 DEF Close, ServerSame, active, DownInv
  <2>2. ASSUME NEW w \in Windows PROVE server'.credit[w] >= 0 /\ Balance(w)' <= Window
    <3>1. DataIn(down', w) \in Nat /\ DataIn(down', w) <= DataIn(down, w)
      <4>1. <<>> \in Seq(Frames)
        OBVIOUS
      <4>2. DataIn(<<>>, w) = 0
        BY <4>1, DataInFacts
      <4> QED BY <1>3, <2>1, <4>2
    <3>2. Balance(w) <= Window /\ Window \in Nat
      BY SessionAssumption DEF BalanceInv
    <3>3. UpdatesIn(sending', w) = UpdatesIn(sending, w) /\ server'.credit[w] = server.credit[w]
      BY <2>1
    <3> QED BY <1>3, <1>4, <3>1, <3>2, <3>3
  <2> QED BY <2>1, <2>2 DEF BalanceInv
<1> QED BY <1>5, <1>6, <1>7, <1>8 DEF Server

LEMMA BalanceStep ==
  ASSUME TypeInv, DownInv, SynInv, SentInv, UnitInv, OpenedInv, BalanceInv, [Next]_vars
  PROVE  BalanceInv'
<1>1. CASE \/ Submit \/ Run \/ NothingToSend \/ SendPlain \/ SendTls \/ SendWouldBlock \/ SendFails
           \/ RecvFails \/ Interrupted \/ UNCHANGED vars
  <2>1. UNCHANGED <<open, server, down, flow, reg, sending, link>>
    BY <1>1 DEF Submit, SubmitWith, Run, NothingToSend, SendPlain, SendTls, SendWouldBlock, RecordStays,
       SendFails, SendSame, RecvFails, Interrupted, vars, queues, active, streams, input, net
  <2>2. Opened' = Opened
    <3>1. CASE Submit
      BY <3>1, SubmitOpens
    <3>2. CASE UNCHANGED <<own, syn>>
      BY <3>2 DEF Opened
    <3> QED BY <1>1, <3>1, <3>2 DEF Run, NothingToSend, SendPlain, SendTls, SendWouldBlock, RecordStays,
         SendFails, SendSame, RecvFails, Interrupted, vars, app, queues
  <2>3. Tracked' = Tracked
    BY <2>1, <2>2 DEF Tracked
  <2>4. \A w \in Windows : server'.credit[w] >= 0 /\ Balance(w)' = Balance(w)
    BY <2>1 DEF Balance, BalanceInv
  <2> QED BY <2>1, <2>3, <2>4, BalanceSame
<1> QED BY <1>1, PackWindows, AfterWindows, RecvWindows, ServerWindows DEF Next, Client, SessionSend

LEMMA InitBalance == Init => OpenedInv /\ BalanceInv
<1> SUFFICES ASSUME Init PROVE OpenedInv /\ BalanceInv
  OBVIOUS
<1>1. TypeInv /\ Connection \in Windows /\ Opened = {}
  BY InitTypes DEF Init, Opened, Windows
<1>2. /\ Magic \in KnownSendable /\ Magic \in Frames /\ Magic.type = "magic"
      /\ Plain("settings") \in Urgent
  <2>1. \A e \in BOOLEAN, t \in {"magic", "settings"} :
          Frame(t, Connection, 0, e) \in Frames /\ Frame(t, Connection, 0, e).type = t
    BY <1>1, FrameType
  <2>2. \A t \in {"magic", "settings"} : Plain(t) \in Frames /\ Plain(t).type = t
    BY <2>1, Zenon DEF Plain
  <2> QED BY <2>2 DEF Magic, KnownSendable, Sendable, Urgent, Control
<1>3. OpenedInv
  <2>1. sending \in Seq(KnownSendable) /\ urgent \in Seq(Urgent)
    BY <1>2 DEF Init
  <2> QED BY <1>1, <2>1 DEF Init, OpenedInv
<1>4. ASSUME NEW w \in Windows PROVE server.credit[w] >= 0 /\ Balance(w) = Window
  <2>1. DataIn(down, w) = 0 /\ UpdatesIn(reg, w) = 0 /\ flow.received[w] = 0 /\ server.credit[w] = Window
    <3>1. down = <<>> /\ reg = <<>> /\ <<>> \in Seq(Frames)
      BY DEF Init
    <3> QED BY <3>1, DataInFacts, UpdatesInFacts DEF Init
  <2>2. UpdatesIn(sending, w) = 0
    <3>1. sending = Append(<<>>, Magic) /\ <<>> \in Seq(Frames)
      BY DEF Init
    <3>2. UpdatesIn(Append(<<>>, Magic), w) = UpdatesIn(<<>>, w) + Update(Magic, w) /\ UpdatesIn(<<>>, w) = 0
      BY <1>2, <3>1, UpdatesInFacts
    <3> QED BY <1>2, <3>1, <3>2 DEF Update
  <2> QED BY <2>1, <2>2, SessionAssumption DEF Balance
<1>5. BalanceInv
  BY <1>4, TrackedWindows, <1>1, SessionAssumption DEF BalanceInv
<1> QED BY <1>3, <1>5

\* What the client has received, what is under way and what is being given back
\* make up the window with what the server may still send: nothing is made, and
\* nothing is lost of a window that still counts, for every size of the window
\* and every number of streams (nghttp2_session_update_recv_connection_window_size,
\* nghttp2_session_update_recv_stream_window_size, session_after_frame_sent1).
THEOREM WindowsConserved == Spec => []WindowConserved
<1>1. Init => UnitInv /\ CloseInv /\ OpenedInv /\ BalanceInv
  BY InitUnits, InitClose, InitBalance
<1>2. TypeInv /\ DownInv /\ UnitInv /\ CloseInv /\ OpenedInv /\ BalanceInv /\ [Next]_vars
        => (TypeInv /\ DownInv /\ UnitInv /\ CloseInv /\ OpenedInv /\ BalanceInv)'
  BY TypeStep, DownStep, UnitStep, OutStep, OrderStep, GoneStep, OpenedStep, BalanceStep DEF CloseInv
<1>3. BalanceInv => WindowConserved
  BY DEF BalanceInv, WindowConserved, Tracked
<1> QED BY <1>1, <1>2, <1>3, InitTypes, PTL DEF Spec

-----------------------------------------------------------------------------
(* The limit on concurrent streams *)

\* What the server will know when it comes to the k-th of the frames under way.
AckAt(k) == server.phase = "agreed" \/ \E j \in 1..(k - 1) : sending[j].type = "ack"
AskedAt(k) ==
  server.asked \cup {s \in Streams : \E j \in 1..(k - 1) : sending[j].type = "headers" /\ sending[j].sid = s}
Ends(f, s) == f.type \in {"headers", "data"} /\ f.end /\ f.sid = s
HeardAt(k) == server.heard \cup {s \in Streams : \E j \in 1..(k - 1) : Ends(sending[j], s)}
BusyAt(k) == (AskedAt(k) \ (HeardAt(k) \cap server.answered)) \ server.refused

Upcoming == Len(sending) + 1

\* The limit is in force before the SETTINGS are acknowledged.
LimitInv ==
  AckAt(Upcoming) \/ (\E i \in DOMAIN urgent : urgent[i].type = "ack") => limit = MaxConcurrent

\* END_STREAM was packed before the client takes its side for closed.
WrInv ==
  /\ shut.wr \subseteq HeardAt(Upcoming)
  /\ \A s \in Streams : Ends(cur, s) => s \in HeardAt(Upcoming)

\* A request behind the acknowledgement meets fewer busy streams than the limit.
BusyInv ==
  \A k \in DOMAIN sending :
    sending[k].type = "headers" /\ AckAt(k) => Cardinality(BusyAt(k)) < MaxConcurrent

AgreeInv == LimitInv /\ WrInv /\ BusyInv

\* A frame that is packed says nothing to the frames before it.
LEMMA KnownAppend ==
  ASSUME UnitInv, NEW f, sending' = Append(sending, f), UNCHANGED server
  PROVE  /\ \A k \in 1..Upcoming : /\ AckAt(k)' = AckAt(k) /\ BusyAt(k)' = BusyAt(k)
                                /\ HeardAt(k)' = HeardAt(k)
         /\ AckAt(Upcoming)' => AckAt(Upcoming) \/ f.type = "ack"
         /\ HeardAt(Upcoming)' = HeardAt(Upcoming) \cup {s \in Streams : Ends(f, s)}
<1>1. /\ Len(sending) \in Nat /\ Len(sending') = Len(sending) + 1 /\ sending'[Len(sending) + 1] = f
      /\ \A j \in 1..Len(sending) : sending'[j] = sending[j]
  <2>1. sending \in Seq(Sendable \cup {f})
    BY SeqMonotone DEF UnitInv
  <2> QED BY <2>1
<1>2. ASSUME NEW k \in 1..Upcoming
      PROVE  /\ AckAt(k)' = AckAt(k) /\ BusyAt(k)' = BusyAt(k) /\ HeardAt(k)' = HeardAt(k)
             /\ AskedAt(k)' = AskedAt(k)
  <2>1. \A j \in 1..(k - 1) : sending'[j] = sending[j]
    BY <1>1 DEF Upcoming
  <2>2. AckAt(k)' = AckAt(k) /\ HeardAt(k)' = HeardAt(k) /\ AskedAt(k)' = AskedAt(k)
    BY <2>1 DEF AckAt, HeardAt, AskedAt
  <2> QED BY <2>2 DEF BusyAt
<1>3. Upcoming' = Upcoming + 1 /\ Upcoming \in Nat
  BY <1>1 DEF Upcoming
<1>4. \A j \in 1..(Upcoming' - 1) : j \in 1..(Upcoming - 1) \/ j = Len(sending) + 1
  BY <1>1, <1>3 DEF Upcoming
<1>5. Len(sending) + 1 \in 1..(Upcoming' - 1) /\ \A j \in 1..(Upcoming - 1) : j \in 1..(Upcoming' - 1) /\ j \in 1..Len(sending)
  BY <1>1, <1>3 DEF Upcoming
<1>6. AckAt(Upcoming)' => AckAt(Upcoming) \/ f.type = "ack"
  BY <1>1, <1>4, <1>5 DEF AckAt
<1>7. HeardAt(Upcoming)' = HeardAt(Upcoming) \cup {s \in Streams : Ends(f, s)}
  BY <1>1, <1>4, <1>5 DEF HeardAt
<1> QED BY <1>2, <1>6, <1>7

\* When the server reads a frame it knows what was to be known behind it.
LEMMA KnownTake ==
  ASSUME TypeInv, UnitInv, ServerReads
  PROVE  /\ sending # <<>> /\ sending' = Tail(sending) /\ sending \in Seq(Sendable) /\ Upcoming = Upcoming' + 1
         /\ \A k \in Nat \ {0} :
              k <= Upcoming' => /\ AckAt(k)' => AckAt(k + 1)
                             /\ BusyAt(k)' \subseteq BusyAt(k + 1)
                             /\ HeardAt(k)' = HeardAt(k + 1)
<1> DEFINE f == wire[1][1]
<1>1. /\ sending # <<>> /\ f = sending[1] /\ f \in Sendable /\ sending' = Tail(sending)
      /\ sending \in Seq(Sendable) /\ server \in Servers
  <2>1. sending # <<>> /\ f = sending[1] /\ f \in Sendable
    BY HeadOfWire DEF ServerReads
  <2>2. sending' = Tail(sending)
    BY DEF ServerReads, Greets, Handles, ServerTakes
  <2> QED BY <2>1, <2>2 DEF UnitInv, TypeInv
<1>2. Greets(f) \/ (server.phase \in {"frames", "agreed"} /\ Handles(f))
  BY DEF ServerReads
<1> HIDE DEF f
<1>3. /\ server'.phase = "agreed" => server.phase = "agreed" \/ f.type = "ack"
      /\ server'.asked = server.asked \cup {s \in {f.sid} : f.type = "headers"}
      /\ server'.heard = server.heard \cup {s \in {f.sid} : f.type \in {"headers", "data"} /\ f.end}
      /\ server.answered \subseteq server'.answered /\ server.refused \subseteq server'.refused
  <2>1. CASE Greets(f)
    <3>1. server' = [server EXCEPT !.phase = IF @ = "magic" THEN "settings" ELSE "frames"]
      BY <2>1 DEF Greets, ServerTakes
    <3>2. f.type = server.phase
      BY <2>1 DEF Greets
    <3>3. f.type \notin {"headers", "data"}
      BY <1>1, <3>2 DEF Servers
    <3> QED BY <1>1, <3>1, <3>3 DEF Servers
  <2>2. CASE Handles(f)
    <3>1. CASE f.type = "ack" /\ ServerTakes([server EXCEPT !.phase = "agreed"], <<>>)
      BY <1>1, <3>1 DEF ServerTakes, Servers
    <3>2. CASE f.type = "window" /\ ServerTakes([server EXCEPT !.credit[f.sid] = @ + f.n], <<>>)
      BY <1>1, <3>2 DEF ServerTakes, Servers
    <3>3. CASE f.type = "data" /\ ServerTakes([server EXCEPT !.heard = Heard(f)], <<>>)
      BY <1>1, <3>3 DEF ServerTakes, Servers, Heard
    <3>4. CASE /\ f.type = "headers"
               /\ ServerTakes([server EXCEPT !.asked = @ \cup {f.sid}, !.heard = Heard(f)], <<>>)
      BY <1>1, <3>4 DEF ServerTakes, Servers, Heard
    <3>5. CASE /\ f.type = "headers"
               /\ ServerTakes([server EXCEPT !.asked = @ \cup {f.sid}, !.heard = Heard(f),
                                             !.answered = @ \cup {f.sid}, !.refused = @ \cup {f.sid}],
                              <<Frame("reset", f.sid, 0, TRUE)>>)
      BY <1>1, <3>5 DEF ServerTakes, Servers, Heard
    <3> QED BY <2>2, <3>1, <3>2, <3>3, <3>4, <3>5 DEF Handles
  <2> QED BY <1>2, <2>1, <2>2
<1>4. Len(sending) \in Nat \ {0} /\ Len(sending') = Len(sending) - 1 /\ Upcoming = Upcoming' + 1
      /\ Upcoming' = Len(sending) /\ \A j \in 1..Len(sending') : sending'[j] = sending[j + 1]
  BY <1>1 DEF Upcoming
<1>5. f.type = "headers" => f.sid \in Streams
  BY <1>1 DEF Sendable, TypeInv
<1>6. f.type = "data" => f.sid \in Streams
  BY <1>1 DEF Sendable
<1>7. ASSUME NEW k \in Nat \ {0}, k <= Upcoming'
      PROVE  /\ AckAt(k)' => AckAt(k + 1)
             /\ BusyAt(k)' \subseteq BusyAt(k + 1)
             /\ HeardAt(k)' = HeardAt(k + 1)
  <2>1. /\ \A j \in 1..(k - 1) : j + 1 \in 1..((k + 1) - 1) /\ sending'[j] = sending[j + 1]
        /\ 1 \in 1..((k + 1) - 1) /\ sending[1] = f
    BY <1>1, <1>4, <1>7
  <2>2. \A j \in 1..((k + 1) - 1) : j = 1 \/ (j - 1 \in 1..(k - 1) /\ sending[j] = sending'[j - 1])
    <3>1. \A j \in 1..((k + 1) - 1) : j = 1 \/ (j - 1 \in 1..(k - 1) /\ (j - 1) + 1 = j)
      OBVIOUS
    <3> QED BY <2>1, <3>1
  <2>3. AckAt(k)' => AckAt(k + 1)
    BY <1>3, <2>1 DEF AckAt
  <2>4. HeardAt(k)' = HeardAt(k + 1)
    BY <1>3, <1>5, <1>6, <2>1, <2>2 DEF HeardAt, Ends
  <2>5. AskedAt(k)' = AskedAt(k + 1)
    BY <1>3, <1>5, <2>1, <2>2 DEF AskedAt
  <2> QED BY <1>3, <2>3, <2>4, <2>5 DEF BusyAt
<1> QED BY <1>1, <1>4, <1>7

\* A stream that will still be busy when the server comes to the next frame is
\* open on the client's side.
LEMMA BusyIsOpen ==
  ASSUME TypeInv, UnitInv, EndInv, GoneInv, OpenedInv, WrInv
  PROVE  BusyAt(Upcoming) \subseteq open
<1> SUFFICES ASSUME NEW s \in BusyAt(Upcoming), s \notin open PROVE FALSE
  OBVIOUS
<1>1. s \in AskedAt(Upcoming) /\ s \notin HeardAt(Upcoming) \cap server.answered /\ s \notin server.refused
  BY DEF BusyAt
<1>2. \A j \in 1..(Upcoming - 1) : sending[j] \in KnownSendable
  <2>1. sending \in Seq(KnownSendable)
    BY DEF OpenedInv
  <2> QED BY <2>1 DEF Upcoming
<1>3. s \in Opened
  BY <1>1, <1>2 DEF AskedAt, KnownSendable, OpenedInv
<1>4. s \in shut.rd \cap shut.wr
  BY <1>1, <1>3 DEF GoneInv
<1> QED BY <1>1, <1>4 DEF EndInv, WrInv

LEMMA AgreePacked ==
  ASSUME TypeInv, UnitInv, EndInv, GoneInv, OpenedInv, AgreeInv,
         NEW f, sending' = Append(sending, f), cur' = f, UNCHANGED <<server, shut, limit>>,
         \A i \in DOMAIN urgent' : \E j \in DOMAIN urgent : urgent'[i] = urgent[j],
         f.type = "ack" => \E j \in DOMAIN urgent : urgent[j] = f,
         f.type = "headers" => Number(open) < limit
  PROVE  AgreeInv'
<1>1. /\ \A k \in 1..Upcoming : /\ AckAt(k)' = AckAt(k) /\ BusyAt(k)' = BusyAt(k)
                                /\ HeardAt(k)' = HeardAt(k)
      /\ AckAt(Upcoming)' => AckAt(Upcoming) \/ f.type = "ack"
      /\ HeardAt(Upcoming)' = HeardAt(Upcoming) \cup {s \in Streams : Ends(f, s)}
  BY KnownAppend
<1>2. LimitInv'
  BY <1>1 DEF AgreeInv, LimitInv
<1>3. WrInv'
  BY <1>1 DEF AgreeInv, WrInv
<1>4. BusyInv'
  <2>1. /\ DOMAIN sending' = 1..Upcoming /\ Upcoming = Len(sending) + 1 /\ DOMAIN sending = 1..Len(sending)
        /\ \A k \in DOMAIN sending : sending'[k] = sending[k] /\ k \in 1..Upcoming
        /\ sending'[Upcoming] = f /\ Upcoming \in 1..Upcoming
        /\ \A k \in 1..Upcoming : k \in DOMAIN sending \/ k = Upcoming
    <3>1. sending \in Seq(Sendable \cup {f})
      BY SeqMonotone DEF UnitInv
    <3> QED BY <3>1 DEF Upcoming
  <2> SUFFICES ASSUME NEW k \in 1..Upcoming, sending'[k].type = "headers", AckAt(k)'
               PROVE  Cardinality(BusyAt(k)') < MaxConcurrent
    BY <2>1 DEF BusyInv
  <2>2. AckAt(k) /\ BusyAt(k)' = BusyAt(k)
    BY <1>1
  <2>3. CASE k \in DOMAIN sending
    BY <2>1, <2>2, <2>3 DEF AgreeInv, BusyInv
  <2>4. CASE k = Upcoming
    <3>1. limit = MaxConcurrent /\ Cardinality(open) < limit
      BY <2>1, <2>2, <2>4 DEF AgreeInv, LimitInv, Number
    <3>2. BusyAt(k) \subseteq open /\ open \subseteq Streams
      BY <2>4, BusyIsOpen DEF AgreeInv, TypeInv
    <3>3. IsFiniteSet(open)
      BY <3>2, SessionAssumption, FS_Subset
    <3>4. /\ Cardinality(BusyAt(k)) <= Cardinality(open)
          /\ Cardinality(BusyAt(k)) \in Nat /\ Cardinality(open) \in Nat
      BY <3>2, <3>3, FS_Subset, FS_CardinalityType
    <3> QED BY <2>2, <3>1, <3>4, SessionAssumption
  <2> QED BY <2>1, <2>3, <2>4
<1> QED BY <1>2, <1>3, <1>4 DEF AgreeInv

\* Nothing is packed, and the server has only answered more.
LEMMA AgreeSame ==
  ASSUME TypeInv, UnitInv, AgreeInv, UNCHANGED <<sending, urgent, limit>>,
         server'.phase = server.phase, server'.asked = server.asked, server'.heard = server.heard,
         server.answered \subseteq server'.answered, server.refused \subseteq server'.refused,
         shut'.wr \subseteq shut.wr \cup {s \in Streams : Ends(cur, s)},
         cur' = cur \/ cur' = NoFrame
  PROVE  AgreeInv'
<1>1. Upcoming' = Upcoming /\ \A k : AckAt(k)' = AckAt(k) /\ HeardAt(k)' = HeardAt(k)
                                     /\ BusyAt(k)' \subseteq BusyAt(k) /\ BusyAt(k) \subseteq Streams
  BY DEF Upcoming, AckAt, HeardAt, BusyAt, AskedAt, TypeInv, Servers
<1>2. LimitInv'
  BY <1>1 DEF AgreeInv, LimitInv
<1>3. WrInv'
  <2>1. \A s \in Streams : ~Ends(NoFrame, s)
    BY DEF Ends, NoFrame, Plain, Frame
  <2> QED BY <1>1, <2>1 DEF AgreeInv, WrInv
<1>4. BusyInv'
  <2> SUFFICES ASSUME NEW k \in DOMAIN sending, sending[k].type = "headers", AckAt(k)
               PROVE  Cardinality(BusyAt(k)') < MaxConcurrent
    BY <1>1 DEF BusyInv
  <2>1. Cardinality(BusyAt(k)) < MaxConcurrent
    BY DEF AgreeInv, BusyInv
  <2>2. IsFiniteSet(BusyAt(k))
    BY <1>1, SessionAssumption, FS_Subset
  <2>3. /\ Cardinality(BusyAt(k)') <= Cardinality(BusyAt(k))
        /\ Cardinality(BusyAt(k)') \in Nat /\ Cardinality(BusyAt(k)) \in Nat
    BY <1>1, <2>2, FS_Subset, FS_CardinalityType
  <2> QED BY <2>1, <2>3, SessionAssumption
<1> QED BY <1>2, <1>3, <1>4 DEF AgreeInv

LEMMA AgreePack ==
  ASSUME TypeInv, UnitInv, EndInv, GoneInv, OpenedInv, AgreeInv, PopItem
  PROVE  AgreeInv'
<1>1. UNCHANGED <<server, shut, limit>> /\ urgent \in Seq(Urgent)
  BY DEF PopItem, PackUrgent, PackReg, PackSyn, PackData, Pack, net, OpenedInv
<1>2. CASE PackUrgent
  <2>1. /\ urgent # <<>> /\ urgent' = Tail(urgent) /\ cur' = Head(urgent)
        /\ sending' = Append(sending, Head(urgent))
    BY <1>2 DEF PackUrgent, Pack
  <2>2. Head(urgent) = urgent[1] /\ 1 \in DOMAIN urgent /\ Head(urgent) \in Urgent
    BY <1>1, <2>1
  <2>3. \A i \in DOMAIN urgent' : i + 1 \in DOMAIN urgent /\ urgent'[i] = urgent[i + 1]
    BY <1>1, <2>1
  <2>4. Head(urgent).type # "headers"
    BY <2>2 DEF Urgent, Control
  <2> QED BY <1>1, <2>1, <2>2, <2>3, <2>4, AgreePacked
<1>3. CASE PackReg
  <2>1. UNCHANGED urgent /\ Head(reg) \in KnownControl
    BY <1>3, SeqFacts DEF PackReg, OpenedInv
  <2>2. Head(reg).type = "window"
    BY <2>1 DEF KnownControl, Increments
  <2>3. CASE Pack(Head(reg))
    BY <1>1, <2>1, <2>2, <2>3, AgreePacked DEF Pack
  <2>4. CASE UNCHANGED active
    <3>1. UNCHANGED <<sending, cur>>
      BY <2>4 DEF active
    <3> QED BY <1>1, <2>1, <3>1, AgreeSame
  <2> QED BY <1>3, <2>3, <2>4 DEF PackReg
<1>4. CASE PackSyn
  <2>1. UNCHANGED urgent /\ cur' = Head(syn) /\ sending' = Append(sending, Head(syn)) /\ Number(open) < limit
        /\ syn # <<>>
    BY <1>4 DEF PackSyn, SynReady, Pack
  <2>2. Head(syn).type = "headers"
    <3>1. Head(syn) \in Requests
      BY <2>1, SeqFacts DEF TypeInv
    <3> QED BY <3>1 DEF Requests
  <2> QED BY <1>1, <2>1, <2>2, AgreePacked
<1>5. CASE PackData
  <2>1. PICK s \in attached : Pack(Frame("data", s, 0, body[s] = 1)) /\ UNCHANGED urgent
    BY <1>5 DEF PackData
  <2>2. \A e : Frame("data", s, 0, e).type = "data"
    BY DEF Frame
  <2>3. PICK f : Pack(f) /\ f.type = "data"
    BY <2>1, <2>2
  <2> QED BY <1>1, <2>1, <2>3, AgreePacked DEF Pack
<1> QED BY <1>2, <1>3, <1>4, <1>5 DEF PopItem

LEMMA AgreeRead ==
  ASSUME TypeInv, UnitInv, AgreeInv, ServerReads
  PROVE  AgreeInv'
<1>1. /\ sending # <<>> /\ sending' = Tail(sending) /\ sending \in Seq(Sendable) /\ Upcoming = Upcoming' + 1
      /\ \A k \in Nat \ {0} :
           k <= Upcoming' => /\ AckAt(k)' => AckAt(k + 1)
                             /\ BusyAt(k)' \subseteq BusyAt(k + 1)
                             /\ HeardAt(k)' = HeardAt(k + 1)
  BY KnownTake
<1>2. UNCHANGED <<urgent, limit, shut, cur>>
  BY DEF ServerReads, Greets, Handles, ServerTakes, queues, streams
<1>3. Upcoming' \in Nat \ {0} /\ Upcoming' <= Upcoming' /\ Upcoming' = Len(sending)
  <2>1. Len(sending') + 1 = Len(sending) /\ Len(sending) \in Nat \ {0}
    BY <1>1
  <2> QED BY <2>1 DEF Upcoming
<1>4. (AckAt(Upcoming)' => AckAt(Upcoming)) /\ HeardAt(Upcoming)' = HeardAt(Upcoming)
  BY <1>1, <1>3
<1>5. LimitInv'
  BY <1>2, <1>4 DEF AgreeInv, LimitInv
<1>6. WrInv'
  BY <1>2, <1>4 DEF AgreeInv, WrInv
<1>7. BusyInv'
  <2> SUFFICES ASSUME NEW k \in DOMAIN sending', sending'[k].type = "headers", AckAt(k)'
               PROVE  Cardinality(BusyAt(k)') < MaxConcurrent
    BY DEF BusyInv
  <2>1. k \in Nat \ {0} /\ k <= Upcoming' /\ k + 1 \in DOMAIN sending /\ sending'[k] = sending[k + 1]
    BY <1>1, <1>3
  <2>2. AckAt(k + 1) /\ BusyAt(k)' \subseteq BusyAt(k + 1)
    BY <1>1, <2>1
  <2>3. Cardinality(BusyAt(k + 1)) < MaxConcurrent
    BY <2>1, <2>2 DEF AgreeInv, BusyInv
  <2>4. BusyAt(k + 1) \subseteq Streams
    BY DEF BusyAt, AskedAt, TypeInv, Servers
  <2>5. IsFiniteSet(BusyAt(k + 1))
    BY <2>4, SessionAssumption, FS_Subset
  <2>6. /\ Cardinality(BusyAt(k)') <= Cardinality(BusyAt(k + 1))
        /\ Cardinality(BusyAt(k)') \in Nat /\ Cardinality(BusyAt(k + 1)) \in Nat
    BY <2>2, <2>5, FS_Subset, FS_CardinalityType
  <2> QED BY <2>3, <2>6, SessionAssumption
<1> QED BY <1>5, <1>6, <1>7 DEF AgreeInv

LEMMA AgreeRecv ==
  ASSUME TypeInv, DownInv, UnitInv, AgreeInv, RecvFrame
  PROVE  AgreeInv'
<1> DEFINE f == Head(down)
<1>1. f \in Receivable /\ UNCHANGED <<sending, cur, server>>
  BY SeqFacts DEF RecvFrame, DownInv, active
<1>2. \/ f.type = "settings" /\ OnSettings
      \/ f.type = "data" /\ OnData(f)
      \/ f.type = "headers" /\ OnHeaders(f)
      \/ f.type = "reset" /\ OnReset(f)
  BY <1>1 DEF RecvFrame, Receivable
<1> HIDE DEF f
<1>3. CASE OnSettings
  <2>1. limit' = MaxConcurrent /\ UNCHANGED shut
    BY <1>3 DEF OnSettings
  <2>2. Upcoming' = Upcoming /\ \A k : AckAt(k)' = AckAt(k) /\ HeardAt(k)' = HeardAt(k) /\ BusyAt(k)' = BusyAt(k)
    BY <1>1 DEF Upcoming, AckAt, HeardAt, BusyAt, AskedAt
  <2> QED BY <1>1, <2>1, <2>2 DEF AgreeInv, LimitInv, WrInv, BusyInv
<1>4. CASE OnData(f) \/ OnHeaders(f) \/ OnReset(f)
  <2>1. UNCHANGED <<urgent, limit>>
    BY <1>4 DEF OnData, OnHeaders, OnReset
  <2>2. shut'.wr = shut.wr
    BY <1>4, OpenedFacts DEF OnData, OnHeaders, OnReset, Shutdown, CloseStreams
  <2> QED BY <1>1, <2>1, <2>2, AgreeSame
<1> QED BY <1>2, <1>3, <1>4

LEMMA AgreeStep ==
  ASSUME TypeInv, DownInv, UnitInv, CloseInv, OpenedInv, AgreeInv, [Next]_vars
  PROVE  AgreeInv'
<1>1. CASE AfterFrameSent
  <2>1. UNCHANGED <<sending, urgent, limit, server>> /\ cur' = NoFrame /\ cur \in Sendable
    BY <1>1 DEF AfterFrameSent, net, TypeInv
  <2>2. shut'.wr \subseteq shut.wr \cup {s \in Streams : Ends(cur, s)}
    <3>1. CASE cur.type \in {"headers", "data"} /\ cur.end
      <4>1. shut' = [shut EXCEPT !.wr = @ \cup {cur.sid}]
        BY <1>1, <3>1 DEF AfterFrameSent, Shutdown, CloseStreams
      <4>2. cur.sid \in Streams
        BY <2>1, <3>1 DEF Sendable, TypeInv
      <4> QED BY <3>1, <4>1, <4>2, OpenedFacts DEF Ends
    <3>2. CASE UNCHANGED shut
      BY <3>2
    <3> QED BY <1>1, <3>1, <3>2 DEF AfterFrameSent
  <2> QED BY <2>1, <2>2, AgreeSame
<1>2. CASE Hello \/ \E s \in Streams : Reply(s)
  <2>1. UNCHANGED <<sending, urgent, limit, shut, cur>>
    BY <1>2 DEF Hello, Reply, Replies, ServerSame, active, queues, streams
  <2>2. /\ server'.phase = server.phase /\ server'.asked = server.asked /\ server'.heard = server.heard
        /\ server.answered \subseteq server'.answered /\ server.refused \subseteq server'.refused
    <3>1. server \in Servers
      BY DEF TypeInv
    <3>2. CASE Hello
      BY <3>1, <3>2 DEF Hello, Servers
    <3>3. ASSUME NEW s \in Streams, Reply(s)
          PROVE  /\ server'.phase = server.phase /\ server'.asked = server.asked
                 /\ server'.heard = server.heard /\ server'.refused = server.refused
                 /\ server.answered \subseteq server'.answered
      <4>1. PICK sent, credit, more :
              server' = [server EXCEPT !.sent = sent, !.credit = credit, !.answered = @ \cup more]
        <5>1. CASE Replies(s, Frame("headers", s, 0, TRUE), server)
          <6>1. PICK more : server' = [server EXCEPT !.answered = @ \cup more]
            BY <5>1 DEF Replies
          <6>2. server' = [server EXCEPT !.sent = server.sent, !.credit = server.credit, !.answered = @ \cup more]
            BY <3>1, <6>1 DEF Servers
          <6> QED BY <6>2
        <5>2. ASSUME NEW end \in BOOLEAN,
                     Replies(s, Frame("data", s, server.sent[s] + 1, end),
                             [server EXCEPT !.sent[s] = @ + 1, !.credit = Spent(s)])
              PROVE  \E sent, credit, more :
                       server' = [server EXCEPT !.sent = sent, !.credit = credit, !.answered = @ \cup more]
          <6>1. PICK more : server' = [[server EXCEPT !.sent[s] = @ + 1, !.credit = Spent(s)]
                                       EXCEPT !.answered = @ \cup more]
            BY <5>2 DEF Replies
          <6>2. server' = [server EXCEPT !.sent = [server.sent EXCEPT ![s] = @ + 1], !.credit = Spent(s),
                                         !.answered = @ \cup more]
            BY <3>1, <6>1 DEF Servers
          <6> QED BY <6>2
        <5> QED BY <3>3, <5>1, <5>2 DEF Reply
      <4> QED BY <3>1, <4>1 DEF Servers
    <3> QED BY <1>2, <3>2, <3>3
  <2> QED BY <2>1, <2>2, AgreeSame
<1>3. CASE \/ Submit \/ Run \/ NothingToSend \/ SendPlain \/ SendTls \/ SendWouldBlock \/ SendFails
           \/ RecvFails \/ Interrupted \/ Close \/ UNCHANGED vars
  <2>1. UNCHANGED <<sending, urgent, limit, server, shut, cur>>
    BY <1>3 DEF Submit, SubmitWith, Run, NothingToSend, SendPlain, SendTls, SendWouldBlock, RecordStays,
       SendFails, SendSame, RecvFails, Interrupted, Close, ServerSame, vars, queues, active, streams, net
  <2> QED BY <2>1, AgreeSame
<1> QED BY <1>1, <1>2, <1>3, AgreePack, AgreeRead, AgreeRecv DEF Next, Client, SessionSend, Server, CloseInv

LEMMA InitAgree == Init => AgreeInv
<1> SUFFICES ASSUME Init PROVE AgreeInv
  OBVIOUS
<1>1. Len(sending) = 1 /\ sending[1] = Magic /\ Upcoming = 2 /\ DOMAIN sending = 1..1
  BY DEF Init, Upcoming
<1>2. urgent = <<Plain("settings")>> /\ cur = Magic /\ shut.wr = {} /\ server.phase = "magic"
  BY DEF Init
<1>3. Magic.type = "magic" /\ Plain("settings").type = "settings"
  BY DEF Magic, Plain, Frame
<1>4. ~AckAt(Upcoming) /\ \A i \in DOMAIN urgent : urgent[i].type # "ack"
  BY <1>1, <1>2, <1>3 DEF AckAt
<1>5. LimitInv
  BY <1>4 DEF LimitInv
<1>6. WrInv /\ BusyInv
  BY <1>1, <1>2, <1>3 DEF WrInv, BusyInv, Ends
<1> QED BY <1>5, <1>6 DEF AgreeInv

\* No request is refused for being one too many once the server has seen the
\* client acknowledge its limit, for every limit, and however late each side
\* learns that a stream has ended (nghttp2_session_on_settings_received,
\* session_is_outgoing_concurrent_streams_max).
THEOREM RefusedBeforeAckOnly == Spec => RefusedOnlyBeforeAck
<1> DEFINE All == TypeInv /\ DownInv /\ UnitInv /\ CloseInv /\ OpenedInv /\ AgreeInv
<1>1. Init => All
  BY InitTypes, InitUnits, InitClose, InitBalance, InitAgree
<1>2. All /\ [Next]_vars => All'
  BY TypeStep, DownStep, UnitStep, OutStep, OrderStep, GoneStep, OpenedStep, AgreeStep DEF CloseInv
<1>3. All /\ [Next]_vars => [server.phase = "agreed" => server'.refused = server.refused]_vars
  <2> SUFFICES ASSUME All, Next, server.phase = "agreed"
               PROVE  server'.refused = server.refused
    OBVIOUS
  <2>1. ASSUME Handles(wire[1][1]), wire # <<>> PROVE server'.refused = server.refused
    <3> DEFINE f == wire[1][1]
    <3>1. sending # <<>> /\ f = sending[1] /\ 1 \in DOMAIN sending
      <4>1. sending # <<>> /\ f = sending[1]
        BY <2>1, HeadOfWire
      <4> QED BY <4>1 DEF UnitInv
    <3> HIDE DEF f
    <3>2. ~(f.type = "headers" /\ server.hello /\ Number(Busy) >= MaxConcurrent)
      <4> SUFFICES ASSUME f.type = "headers" PROVE ~(Number(Busy) >= MaxConcurrent)
        OBVIOUS
      <4>1. Cardinality(BusyAt(1)) < MaxConcurrent
        BY <3>1 DEF AgreeInv, BusyInv, AckAt
      <4>2. BusyAt(1) = Busy
        BY DEF BusyAt, AskedAt, HeardAt, Busy
      <4>3. Busy \subseteq Streams
        BY DEF Busy, TypeInv, Servers
      <4>4. Cardinality(Busy) \in Nat
        BY <4>3, SessionAssumption, FS_Subset, FS_CardinalityType
      <4> QED BY <4>1, <4>2, <4>4, SessionAssumption DEF Number
    <3>3. Handles(f)
      BY <2>1 DEF f
    <3> QED BY <3>2, <3>3 DEF Handles, ServerTakes, TypeInv, Servers
  <2>2. CASE ServerReads
    <3>1. CASE Greets(wire[1][1])
      BY <3>1 DEF Greets, ServerTakes, TypeInv, Servers
    <3> QED BY <2>1, <2>2, <3>1 DEF ServerReads
  <2>3. CASE Hello \/ \E s \in Streams : Reply(s)
    BY <2>3 DEF Hello, Reply, Replies, TypeInv, Servers
  <2>4. CASE Submit \/ Run \/ Client \/ Interrupted \/ Close
    <3>1. UNCHANGED server
      BY <2>4 DEF Submit, SubmitWith, Run, Client, SessionSend, PopItem, PackUrgent, PackReg, PackSyn, PackData,
         Pack, NothingToSend, AfterFrameSent, SendPlain, SendTls, SendWouldBlock, RecordStays, SendFails,
         SendSame, RecvFrame, RecvFails, Interrupted, Close, ServerSame, net
    <3> QED BY <3>1
  <2> QED BY <2>2, <2>3, <2>4 DEF Next, Server
<1> QED BY <1>1, <1>2, <1>3, PTL DEF Spec, RefusedOnlyBeforeAck

-----------------------------------------------------------------------------
(* Types and bounds *)

\* Nothing is read from a request's body after its end: DATA is scheduled only
\* while something is left, and the frame that took the last says so.
BodyInv ==
  /\ body \in [Streams -> 0..PostFrames] /\ attached \subseteq open
  /\ \A i \in DOMAIN syn : body[syn[i].sid] = 0 => syn[i].end
  /\ cur.type \in {"headers", "data"} /\ body[cur.sid] = 0 => cur.end
  /\ \A s \in attached : body[s] = 0 => Ends(cur, s)

LEMMA BodySubmit ==
  ASSUME TypeInv, SynInv, SentInv, BodyInv, Submit
  PROVE  BodyInv'
<1>1. UNCHANGED <<attached, open, cur>>
  BY DEF Submit, SubmitWith, active, streams
<1>2. CASE UNCHANGED <<syn, body>>
  BY <1>1, <1>2 DEF BodyInv
<1>3. ASSUME NEW s \in {Len(own) + 1} \cap Streams, NEW frames \in 0..PostFrames,
             body' = [body EXCEPT ![s] = frames], syn' = Append(syn, Frame("headers", s, 0, frames = 0))
      PROVE  BodyInv'
  <2>1. body' \in [Streams -> 0..PostFrames] /\ body'[s] = frames /\ \A t \in Streams \ {s} : body'[t] = body[t]
    BY <1>3 DEF BodyInv
  <2>2. s \notin Opened /\ Opened \subseteq Nat
    BY <1>3, OpenedFacts
  <2>3. /\ DOMAIN syn' = DOMAIN syn \cup {Len(syn) + 1} /\ \A i \in DOMAIN syn : syn'[i] = syn[i]
        /\ syn'[Len(syn) + 1] = Frame("headers", s, 0, frames = 0)
    BY <1>3, OpenedFacts, AppendFacts
  <2>4. ASSUME NEW i \in DOMAIN syn PROVE body'[syn'[i].sid] = 0 => syn'[i].end
    <3>1. syn[i].sid \in Streams /\ syn[i].sid = Len(own) - Len(syn) + i
      BY SynFrame
    <3>2. syn[i].sid # s
      BY <1>3, <3>1, OpenedFacts
    <3> QED BY <2>1, <2>3, <3>1, <3>2 DEF BodyInv
  <2>5. ASSUME NEW i, i = Len(syn) + 1 PROVE body'[syn'[i].sid] = 0 => syn'[i].end
    <3>1. syn'[i].sid = s /\ syn'[i].end = (frames = 0)
      BY <2>3, <2>5 DEF Frame
    <3> QED BY <2>1, <3>1
  <2>6. cur.type \in {"headers", "data"} /\ body'[cur.sid] = 0 => cur.end
    <3> SUFFICES ASSUME cur.type \in {"headers", "data"} PROVE body'[cur.sid] = 0 => cur.end
      OBVIOUS
    <3>1. cur.sid \in Streams /\ cur.sid \in Opened
      <4>1. cur \in Sendable
        BY DEF TypeInv, NoFrame, Plain, Frame
      <4> QED BY <4>1 DEF SentInv, TypeInv, Sendable
    <3> QED BY <2>1, <2>2, <3>1 DEF BodyInv
  <2>7. \A t \in attached : body'[t] = 0 => Ends(cur, t)
    <3>1. \A t \in attached : t \in Streams /\ t # s
      BY <2>2, OpenedFacts DEF SentInv
    <3> QED BY <2>1, <3>1 DEF BodyInv
  <2>8. \A i \in DOMAIN syn' : body'[syn'[i].sid] = 0 => syn'[i].end
    BY <2>3, <2>4, <2>5
  <2> QED BY <1>1, <2>1, <2>6, <2>7, <2>8 DEF BodyInv, Ends
<1> QED BY <1>2, <1>3 DEF Submit, SubmitWith

LEMMA BodyPack ==
  ASSUME TypeInv, SynInv, SentInv, BodyInv, PopItem
  PROVE  BodyInv'
<1>1. cur = NoFrame /\ \A s \in attached : body[s] # 0
  BY DEF PopItem, Popping, BodyInv, Ends, NoFrame, Plain, Frame
<1>2. CASE PackUrgent \/ PackReg
  <2>1. UNCHANGED <<syn, body, attached, open>>
    BY <1>2 DEF PackUrgent, PackReg
  <2>2. cur' = cur \/ cur' \in Control
    <3>1. CASE PackUrgent
      BY <3>1, SeqFacts DEF PackUrgent, Pack, TypeInv
    <3>2. CASE PackReg
      BY <3>2, SeqFacts DEF PackReg, Pack, TypeInv, active
    <3> QED BY <1>2, <3>1, <3>2
  <2> QED BY <1>1, <2>1, <2>2 DEF BodyInv, Control
<1>3. CASE PackSyn
  <2>1. /\ UNCHANGED <<body, attached>> /\ cur' = syn[1] /\ syn # <<>> /\ syn' = Tail(syn)
        /\ open \subseteq open'
    BY <1>3 DEF PackSyn, SynReady, Pack
  <2>2. 1 \in DOMAIN syn /\ \A i \in DOMAIN syn' : i + 1 \in DOMAIN syn /\ syn'[i] = syn[i + 1]
    BY <2>1, OpenedFacts
  <2>3. \A i \in DOMAIN syn' : body[syn'[i].sid] = 0 => syn'[i].end
    BY <2>2 DEF BodyInv
  <2>4. body[cur'.sid] = 0 => cur'.end
    BY <2>1, <2>2 DEF BodyInv
  <2> QED BY <1>1, <2>1, <2>3, <2>4 DEF BodyInv
<1>4. CASE PackData
  <2>1. PICK s \in attached :
          /\ Pack(Frame("data", s, 0, body[s] = 1))
          /\ body' = [body EXCEPT ![s] = @ - 1]
          /\ UNCHANGED <<urgent, reg, syn, attached, open>>
    BY <1>4 DEF PackData
  <2>2. cur'.sid = s /\ cur'.type = "data" /\ cur'.end = (body[s] = 1)
    BY <2>1 DEF Pack, Frame
  <2>3. s \in Streams /\ s \in Opened /\ body[s] \in 1..PostFrames
    BY <1>1, <2>1, OpenedFacts, SessionAssumption DEF SentInv, BodyInv
  <2>4. /\ body' \in [Streams -> 0..PostFrames] /\ body'[s] = body[s] - 1
        /\ \A t \in Streams \ {s} : body'[t] = body[t]
    BY <2>1, <2>3, SessionAssumption DEF BodyInv
  <2>5. \A i \in DOMAIN syn : syn[i].sid \in Streams /\ syn[i].sid # s
    <3> SUFFICES ASSUME NEW i \in DOMAIN syn PROVE syn[i].sid \in Streams /\ syn[i].sid # s
      OBVIOUS
    <3>1. syn[i].sid \in Streams /\ syn[i].sid = Len(own) - Len(syn) + i
      BY SynFrame
    <3> QED BY <2>3, <3>1, OpenedFacts
  <2>6. body'[s] = 0 => cur'.end
    <3>1. body'[s] = 0 => body[s] = 1
      BY <2>3, <2>4
    <3> QED BY <2>2, <3>1
  <2>7. \A t \in attached : body'[t] = 0 => Ends(cur, t)'
    BY <1>1, <2>2, <2>4, <2>6, OpenedFacts DEF Ends
  <2> QED BY <2>1, <2>2, <2>4, <2>5, <2>6, <2>7 DEF BodyInv
<1> QED BY <1>2, <1>3, <1>4 DEF PopItem

LEMMA BodyAfter ==
  ASSUME TypeInv, BodyInv, AfterFrameSent
  PROVE  BodyInv'
<1>1. UNCHANGED <<syn, body>> /\ cur' = NoFrame
  BY DEF AfterFrameSent
<1>2. \A s : ~Ends(cur, s)' /\ cur'.type \notin {"headers", "data"}
  BY <1>1 DEF Ends, NoFrame, Plain, Frame
<1>3. attached' \subseteq open' /\ \A s \in attached' : body[s] # 0
  <2>1. CASE cur.type \in {"headers", "data"} /\ cur.end
    <3>1. PICK closed : open' = open \ closed /\ attached' = (attached \ {cur.sid}) \ closed
      BY <2>1 DEF AfterFrameSent, Shutdown, CloseStreams
    <3>2. \A s \in attached : s # cur.sid => body[s] # 0
      BY DEF BodyInv, Ends
    <3> QED BY <3>1, <3>2 DEF BodyInv
  <2>2. CASE cur.type = "headers" /\ ~cur.end
    <3>1. attached' = attached \cup ({cur.sid} \cap open) /\ UNCHANGED open
      BY <2>2 DEF AfterFrameSent
    <3> QED BY <2>2, <3>1 DEF BodyInv, Ends
  <2>3. CASE ~(cur.type \in {"headers", "data"} /\ cur.end) /\ UNCHANGED <<attached, open>>
    BY <2>3 DEF BodyInv, Ends
  <2> QED BY <2>1, <2>2, <2>3 DEF AfterFrameSent
<1> QED BY <1>1, <1>2, <1>3 DEF BodyInv

LEMMA BodyStep ==
  ASSUME TypeInv, DownInv, SynInv, SentInv, BodyInv, [Next]_vars
  PROVE  BodyInv'
<1>1. CASE RecvFrame
  <2> DEFINE f == Head(down)
  <2>1. f \in Receivable /\ UNCHANGED <<syn, body, cur>>
    BY <1>1, SeqFacts DEF RecvFrame, DownInv, active
  <2>2. OnSettings \/ OnData(f) \/ OnHeaders(f) \/ OnReset(f)
    BY <1>1, <2>1 DEF RecvFrame, Receivable
  <2> HIDE DEF f
  <2>3. UNCHANGED <<attached, open>> \/ \E closed : open' = open \ closed /\ attached' = attached \ closed
    BY <2>2 DEF OnSettings, OnData, OnHeaders, OnReset, Shutdown, CloseStreams
  <2> QED BY <2>1, <2>3 DEF BodyInv, Ends
<1>2. CASE \/ Run \/ NothingToSend \/ SendPlain \/ SendTls \/ SendWouldBlock \/ SendFails
           \/ RecvFails \/ Interrupted \/ Server \/ Close \/ UNCHANGED vars
  <2>1. UNCHANGED <<syn, body, attached, open, cur>>
    BY <1>2 DEF Run, NothingToSend, SendPlain, SendTls, SendWouldBlock, RecordStays, SendFails, SendSame,
       RecvFails, Interrupted, Server, Close, Hello, ServerReads, Greets, Handles, ServerTakes, Reply, Replies,
       ServerSame, vars, queues, active, streams
  <2> QED BY <2>1 DEF BodyInv, Ends
<1> QED BY <1>1, <1>2, BodySubmit, BodyPack, BodyAfter DEF Next, Client, SessionSend

Unit == Frames \X (1..FrameLen)

\* Numbers that are bounded by the constants, and the flags.
RangeInv ==
  /\ tls \in Transports /\ pc \in {"idle", "send", "recv"} /\ attempts <= Attempts
  /\ limit \in Nat /\ link \in {"open", "closed"} /\ torn \in BOOLEAN
  /\ \A s \in Streams : server.sent[s] <= ReplyFrames
  /\ record \in Seq(Unit) /\ wire \in Seq(Unit)

LEMMA RangeSend ==
  ASSUME TypeInv, RangeInv, SendPlain \/ SendTls \/ SendWouldBlock \/ SendFails
  PROVE  RangeInv'
<1>1. /\ UNCHANGED <<tls, attempts, limit, link, server>> /\ pc' \in {"idle", "send", "recv"}
      /\ torn' \in BOOLEAN
      /\ cur # NoFrame /\ left > 0 /\ left \in 1..FrameLen /\ FrameLen \in Nat
  <2>1. UNCHANGED <<tls, attempts, limit, link, server>> /\ cur # NoFrame /\ left > 0
    BY DEF SendPlain, SendTls, SendWouldBlock, RecordStays, SendFails, Sending, SendSame, app, streams
  <2>2. pc' \in {"idle", "send", "recv"} /\ torn' \in BOOLEAN
    BY DEF SendPlain, SendTls, SendWouldBlock, RecordStays, SendFails, RangeInv
  <2>3. left \in 1..FrameLen /\ FrameLen \in Nat
    BY <2>1, SessionAssumption DEF TypeInv
  <2> QED BY <2>1, <2>2, <2>3
<1>2. ASSUME NEW n \in 1..left PROVE Units(n) \in Seq(Unit)
  <2>1. cur \in Frames
    BY <1>1 DEF TypeInv, Sendable
  <2>2. \A i \in 1..n : <<cur, FrameLen - left + i>> \in Unit
    BY <1>1, <2>1 DEF Unit
  <2> QED BY <2>2 DEF Units
<1>3. Taken \in 1..left
  BY <1>1, SessionAssumption DEF Taken, Least
<1>4. ThisRecord \in Seq(Unit)
  BY <1>2, <1>3 DEF ThisRecord, RangeInv
<1>5. \A a, b \in Seq(Unit) : a \o b \in Seq(Unit)
  OBVIOUS
<1>6. record' \in Seq(Unit) /\ wire' \in Seq(Unit)
  <2>1. CASE SendPlain
    <3>1. Space \in Int
      BY SessionAssumption DEF Space, TypeInv
    <3>2. Least(left, Space) \in 1..left
      BY <1>1, <2>1, <3>1 DEF SendPlain, Least
    <3> QED BY <1>2, <1>5, <2>1, <3>2 DEF SendPlain, RangeInv
  <2>2. CASE SendTls
    <3>1. <<>> \in Seq(Unit)
      OBVIOUS
    <3> QED BY <1>4, <1>5, <2>2, <3>1 DEF SendTls, RangeInv
  <2>3. CASE SendWouldBlock
    BY <1>4, <2>3 DEF SendWouldBlock, RecordStays, RangeInv
  <2>4. CASE SendFails
    BY <2>4 DEF SendFails, RangeInv
  <2> QED BY <2>1, <2>2, <2>3, <2>4
<1> QED BY <1>1, <1>6 DEF RangeInv

LEMMA RangeServer ==
  ASSUME TypeInv, RangeInv, Server \/ Close
  PROVE  RangeInv'
<1>1. UNCHANGED <<tls, pc, attempts, limit, record, torn>> /\ server \in Servers
  BY DEF Server, Close, Hello, ServerReads, Greets, Handles, ServerTakes, Reply, Replies, ServerSame,
     app, active, streams, TypeInv
<1>2. wire' \in Seq(Unit) /\ link' \in {"open", "closed"}
  <2>1. CASE ServerReads
    <3>1. wire' = SubSeq(wire, FrameLen + 1, Len(wire)) /\ UNCHANGED link
      BY <2>1 DEF ServerReads, Greets, Handles, ServerTakes
    <3> QED BY <3>1, SessionAssumption DEF RangeInv
  <2>2. CASE Hello \/ Close \/ \E s \in Streams : Reply(s)
    BY <2>2 DEF Hello, Close, Reply, Replies, RangeInv
  <2> QED BY <2>1, <2>2 DEF Server
<1>3. \A s \in Streams : server'.sent[s] <= ReplyFrames
  <2>1. CASE Hello \/ Close \/ ServerReads
    <3>1. server'.sent = server.sent
      BY <1>1, <2>1 DEF Hello, Close, ServerReads, Greets, Handles, ServerTakes, Servers
    <3> QED BY <3>1 DEF RangeInv
  <2>2. ASSUME NEW s \in Streams, Reply(s) PROVE \A t \in Streams : server'.sent[t] <= ReplyFrames
    <3>1. CASE Replies(s, Frame("headers", s, 0, TRUE), server)
      <4>1. server'.sent = server.sent
        BY <1>1, <3>1 DEF Replies, Servers
      <4> QED BY <4>1 DEF RangeInv
    <3>2. ASSUME NEW end \in BOOLEAN, server.sent[s] < ReplyFrames,
                 Replies(s, Frame("data", s, server.sent[s] + 1, end),
                         [server EXCEPT !.sent[s] = @ + 1, !.credit = Spent(s)])
          PROVE  \A t \in Streams : server'.sent[t] <= ReplyFrames
      <4>1. server'.sent = [server.sent EXCEPT ![s] = @ + 1]
        BY <1>1, <3>2 DEF Replies, Servers
      <4>2. server.sent \in [Streams -> Nat]
        BY <1>1 DEF Servers
      <4>3. \A t \in Streams : server'.sent[t] = IF t = s THEN server.sent[t] + 1 ELSE server.sent[t]
        BY <4>1, <4>2
      <4>4. ReplyFrames \in Nat /\ server.sent[s] + 1 <= ReplyFrames
        BY <3>2, <4>2, SessionAssumption
      <4> QED BY <4>3, <4>4 DEF RangeInv
    <3> QED BY <2>2, <3>1, <3>2 DEF Reply
  <2> QED BY <2>1, <2>2 DEF Server
<1> QED BY <1>1, <1>2, <1>3 DEF RangeInv

LEMMA RangeStep ==
  ASSUME TypeInv, DownInv, RangeInv, [Next]_vars
  PROVE  RangeInv'
<1>1. CASE Submit
  <2>1. UNCHANGED <<tls, pc, limit, link, torn, server, record, wire>> /\ attempts' = attempts + 1 /\ attempts < Attempts
    BY <1>1 DEF Submit, SubmitWith, active, streams, net
  <2> QED BY <2>1, SessionAssumption DEF RangeInv, TypeInv
<1>2. CASE RecvFrame
  <2>1. UNCHANGED <<tls, pc, attempts, link, torn, server, record, wire>>
    BY <1>2 DEF RecvFrame, app, active
  <2>2. limit' = limit \/ limit' = MaxConcurrent
    <3>1. Head(down) \in Receivable
      BY <1>2, SeqFacts DEF RecvFrame, DownInv
    <3> QED BY <1>2, <3>1 DEF RecvFrame, Receivable, OnSettings, OnData, OnHeaders, OnReset
  <2> QED BY <2>1, <2>2, SessionAssumption DEF RangeInv
<1>3. CASE \/ Run \/ PopItem \/ NothingToSend \/ AfterFrameSent \/ RecvFails \/ Interrupted \/ UNCHANGED vars
  <2>1. UNCHANGED <<tls, attempts, limit, link, torn, server, record, wire>>
    BY <1>3 DEF Run, PopItem, PackUrgent, PackReg, PackSyn, PackData, Pack, NothingToSend, AfterFrameSent,
       RecvFails, Interrupted, vars, app, active, streams, net
  <2>2. pc' = pc \/ pc' \in {"idle", "send", "recv"}
    BY <1>3 DEF Run, PopItem, PackUrgent, PackReg, PackSyn, PackData, Pack, NothingToSend, AfterFrameSent,
       RecvFails, Interrupted, vars
  <2> QED BY <2>1, <2>2 DEF RangeInv
<1> QED BY <1>1, <1>2, <1>3, RangeSend, RangeServer DEF Next, Client, SessionSend

\* The typing the proofs start from, the invariants above and the bounds give
\* the type invariant.
LEMMA TypeFollows ==
  ASSUME TypeInv, DownInv, CallbackInv, OrderInv, OpenedInv, BalanceInv, BodyInv, RangeInv
  PROVE  TypeOK
<1>1. /\ attempts \in 0..Attempts /\ callback \in 0..attempts /\ own \in Seq(1..Attempts)
      /\ Len(own) <= Cardinality(Streams) /\ 1..attempts \subseteq 1..Attempts
  <2>1. attempts \in 0..Attempts /\ callback \in 0..attempts
    BY SessionAssumption DEF TypeInv, RangeInv
  <2>2. 1..attempts \subseteq 1..Attempts
    BY <2>1, SessionAssumption
  <2>3. own \in Seq(1..Attempts)
    BY <2>2, SeqMonotone DEF TypeInv
  <2>4. Len(own) <= Cardinality(Streams)
    <3>1. DOMAIN own = 1..Len(own) /\ Len(own) \in Nat
      BY DEF TypeInv
    <3>2. 1..Len(own) \subseteq 1..Cardinality(Streams) /\ Cardinality(Streams) \in Nat
      BY <3>1, StreamNumbers DEF TypeInv
    <3>3. \A m, n \in Nat : 1..m \subseteq 1..n => m <= n
      <4> SUFFICES ASSUME NEW m \in Nat, NEW n \in Nat, 1..m \subseteq 1..n, m > n PROVE FALSE
        OBVIOUS
      <4>1. m \in 1..m
        OBVIOUS
      <4> QED BY <4>1
    <3> QED BY <3>1, <3>2, <3>3
  <2> QED BY <2>1, <2>2, <2>3, <2>4
<1>2. urgent \in Seq(Frames) /\ reg \in Seq(Frames) /\ sending \in Seq(Frames) /\ down \in Seq(Frames)
  BY FrameSeqs
<1>3. syn \in Seq(Frames)
  <2>1. Requests \subseteq Frames
    BY DEF Requests
  <2> QED BY <2>1, SeqMonotone DEF TypeInv
<1>4. ASSUME NEW w \in Windows
      PROVE  flow.received[w] \in 0..Window /\ server.credit[w] \in 0..Window
  <2>1. server.credit[w] >= 0 /\ Balance(w) <= Window
    BY DEF BalanceInv
  <2>2. /\ server.credit[w] \in Int /\ DataIn(down, w) \in Nat /\ flow.received[w] \in Nat
        /\ UpdatesIn(reg, w) \in Nat /\ UpdatesIn(sending, w) \in Nat /\ Window \in Nat
    BY BalanceParts, SessionAssumption
  <2>3. Balance(w) = server.credit[w] + DataIn(down, w)
                     + flow.received[w] + UpdatesIn(reg, w) + UpdatesIn(sending, w)
    BY DEF Balance
  <2> QED BY <2>1, <2>2, <2>3
<1>5. /\ flow \in [received : [Windows -> 0..Window], queued : SUBSET Windows]
      /\ server.credit \in [Windows -> 0..Window]
  <2>1. flow \in Flows /\ server.credit \in [Windows -> Int]
    BY DEF TypeInv, Servers
  <2>2. flow.received \in [Windows -> 0..Window]
    BY <1>4, <2>1 DEF Flows
  <2> QED BY <1>4, <2>1, <2>2 DEF Flows
<1>6. calls \subseteq Streams \X (1..Attempts)
  <2>1. calls \subseteq (DOMAIN own) \X (1..attempts) /\ DOMAIN own \subseteq Streams
    BY DEF CallbackInv, TypeInv
  <2> QED BY <1>1, <2>1
<1>7. read \in [Streams -> 0..ReplyFrames]
  <2>1. read \in [Streams -> Nat] /\ server.sent \in [Streams -> Nat]
    BY DEF TypeInv, Servers
  <2>2. \A s \in Streams : read[s] <= server.sent[s] /\ server.sent[s] <= ReplyFrames
    BY DEF OrderInv, RangeInv
  <2>3. \A s \in Streams : read[s] \in 0..ReplyFrames
    BY <2>1, <2>2, SessionAssumption
  <2> QED BY <2>1, <2>3
<1>8. cur \in Frames \cup {NoFrame}
  BY DEF TypeInv, Sendable
<1> QED BY <1>1, <1>2, <1>3, <1>5, <1>6, <1>7, <1>8 DEF TypeOK, TypeInv, BodyInv, RangeInv, Unit

LEMMA InitRange == Init => BodyInv /\ RangeInv
<1> SUFFICES ASSUME Init PROVE BodyInv /\ RangeInv
  OBVIOUS
<1>1. cur.type = "magic" /\ attached = {} /\ syn = <<>> /\ body = [s \in Streams |-> 0]
  BY DEF Init, Magic, Plain, Frame
<1>2. BodyInv
  BY <1>1, SessionAssumption DEF BodyInv
<1>3. RangeInv
  <2>1. /\ tls \in Transports /\ pc = "idle" /\ attempts = 0 /\ link = "open" /\ torn = FALSE
        /\ record = <<>> /\ wire = <<>> /\ limit = 100
    BY DEF Init, InitialLimit
  <2>2. \A s \in Streams : server.sent[s] = 0
    BY DEF Init
  <2>3. attempts <= Attempts /\ limit \in Nat /\ \A s \in Streams : server.sent[s] <= ReplyFrames
    BY <2>1, <2>2, SessionAssumption
  <2>4. record \in Seq(Unit) /\ wire \in Seq(Unit)
    BY <2>1
  <2>5. torn \in BOOLEAN /\ link \in {"open", "closed"} /\ pc \in {"idle", "send", "recv"}
    BY <2>1, Zenon
  <2> QED BY <2>1, <2>3, <2>4, <2>5, Zenon DEF RangeInv
<1> QED BY <1>2, <1>3

\* Every variable has its type for any number of streams, requests, frames and
\* units: among others, no window goes below zero or above its initial size, and
\* nothing is read from a request's body beyond its end.
THEOREM SessionTypes == Spec => []TypeOK
<1> DEFINE All == /\ TypeInv /\ DownInv /\ CallbackInv /\ UnitInv /\ CloseInv /\ OpenedInv
                  /\ BalanceInv /\ BodyInv /\ RangeInv
<1>1. Init => All
  BY InitTypes, InitUnits, InitClose, InitBalance, InitRange
<1>2. All /\ [Next]_vars => All'
  BY TypeStep, DownStep, CallbackStep, UnitStep, OutStep, OrderStep, GoneStep, OpenedStep, BalanceStep,
     BodyStep, RangeStep DEF CloseInv
<1>3. All => TypeOK
  BY TypeFollows DEF CloseInv
<1> QED BY <1>1, <1>2, <1>3, PTL DEF Spec
=============================================================================
