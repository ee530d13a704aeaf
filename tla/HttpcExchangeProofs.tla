------------------------- MODULE HttpcExchangeProofs ------------------------
(***************************************************************************)
(* Proofs about HttpcExchange, for every set of responses and all sizes.   *)
(*                                                                         *)
(* ResetInv follows a reset from the socket to the application; SendInv    *)
(* follows the bytes of the request from one httpc_send to the next.       *)
(*                                                                         *)
(* ExchangeInv is what the properties of the response rest on:             *)
(*   TypeInv    the types, and what ties the sizes together;               *)
(*   WireInv    what has arrived is the beginning of the response;         *)
(*   HeaderInv  the header buffer is the header read so far, with a NUL    *)
(*              for every CRLF;                                            *)
(*   FieldsInv  the three fields are those of the response;                *)
(*   BodyInv    how much of the body was handed out, and where the client  *)
(*              stands in it, or in which chunk.                           *)
(* The last section maps every step to a step of BodyService.              *)
(***************************************************************************)
EXTENDS HttpcExchange, SumsProofs

-----------------------------------------------------------------------------
(* SO_ERROR *)

\* A reset is pending only on a connection that has ended, and not after it has
\* been told.
ResetInv ==
  /\ err \in BOOLEAN /\ told \in {0, 1}
  /\ err => link = "closed" /\ told = 0
  /\ told = 1 => link = "closed"

\* A call that fails takes the reset with it.
LEMMA ReportKeeps ==
  ASSUME ResetInv, NEW fails, Report(fails), UNCHANGED link
  PROVE  ResetInv'
<1>1. CASE err = TRUE /\ fails
  <2>1. told' = 0 + 1 /\ err' = FALSE
    BY <1>1 DEF Report, ResetInv
  <2>2. told' = 1
    BY <2>1
  <2> QED BY <1>1, <2>1, <2>2 DEF ResetInv
<1>2. CASE err = TRUE /\ ~fails
  BY <1>2 DEF Report, ResetInv
<1>3. CASE err = FALSE
  BY <1>3 DEF Report, ResetInv
<1> QED BY <1>1, <1>2, <1>3 DEF ResetInv

\* The calls of an exchange: each reports at most once.
LEMMA ClientKeepsReset ==
  ASSUME ResetInv, Client
  PROVE  ResetInv'
<1>1. ASSUME NEW n, NEW next, SendThen(n, next) PROVE ResetInv'
  <2>1. Report(n < 0) /\ UNCHANGED link
    BY <1>1 DEF SendThen, wire
  <2> QED BY <2>1, ReportKeeps
<1>2. CASE SendHeader
  BY <1>1, <1>2 DEF SendHeader
<1>3. CASE SendData
  BY <1>1, <1>3 DEF SendData
<1>4. CASE ReadHeaderLine
  <2>1. PICK l \in ReadOneLine(BufLen - Len(hdr)) : Report(l.fails) /\ UNCHANGED link
    BY <1>4 DEF ReadHeaderLine, StoreLine, wire
  <2> QED BY <2>1, ReportKeeps
<1>5. CASE Parse \/ NoLineBuffer
  <2>1. UNCHANGED <<status, wire>>
    BY <1>5 DEF Parse, Understand, NoLineBuffer
  <2> QED BY <2>1 DEF status, wire, ResetInv
<1>6. ASSUME NEW n, NEW asked, Deliver(n, asked) PROVE ResetInv'
  <2>1. Report(n <= 0 /\ Available = 0) /\ UNCHANGED link
    BY <1>6 DEF Deliver, wire
  <2> QED BY <2>1, ReportKeeps
<1>7. CASE RecvNormal
  BY <1>6, <1>7 DEF RecvNormal, NormalUntil
<1>8. CASE ChunkLine
  <2>1. PICK l \in ReadOneLine(LineLen) : Report(l.fails) /\ UNCHANGED link
    BY <1>8 DEF ChunkLine, wire
  <2> QED BY <2>1, ReportKeeps
<1>9. CASE ChunkData
  BY <1>6, <1>9 DEF ChunkData, ChunkBytes
<1>10. CASE ChunkCrlf
  <2>1. PICK n : Report(n <= 0 /\ Available = 0) /\ UNCHANGED link
    BY <1>10 DEF ChunkCrlf, wire
  <2> QED BY <2>1, ReportKeeps
<1> QED BY <1>2, <1>3, <1>4, <1>5, <1>7, <1>8, <1>9, <1>10 DEF Client

\* The application hears of a reset at most once, and after that
\* httpc_connection_status_get says that all is well.
THEOREM ToldOnce == Spec => []ResetToldOnce
<1>1. Init => ResetInv
  <2>1. ASSUME Init PROVE err = FALSE /\ told = 0
    BY <2>1 DEF Init
  <2>2. ASSUME Init PROVE told \in {0, 1} /\ ~(told = 1)
    BY <2>1, <2>2
  <2> QED BY <2>1, <2>2 DEF ResetInv
<1>2. ASSUME ResetInv, [Next]_vars PROVE ResetInv'
  <2>1. CASE Client
    BY <1>2, <2>1, ClientKeepsReset
  <2>2. CASE StatusGet
    <3>1. told' = told + 1 /\ err' = ~TRUE /\ err /\ link' = link
      BY <2>2 DEF StatusGet, StatusReads, wire
    <3>2. told' = 0 + 1
      BY <1>2, <3>1 DEF ResetInv
    <3>3. told' = 1
      BY <3>2
    <3> QED BY <1>2, <3>1, <3>3 DEF ResetInv
  <2>3. CASE Close
    BY <1>2, <2>3, SizesAssumption DEF Close, ResetInv
  <2>4. CASE StartRequest \/ Answer \/ UNCHANGED vars
    BY <1>2, <2>4 DEF StartRequest, Answer, vars, status, wire, ResetInv
  <2> QED BY <1>2, <2>1, <2>2, <2>3, <2>4 DEF Next
<1>3. ResetInv => ResetToldOnce
  <2>1. ASSUME ResetInv PROVE told <= 1
    <3>1. told = 0 \/ told = 1
      BY <2>1 DEF ResetInv
    <3> QED BY <3>1
  <2> QED BY <2>1 DEF ResetInv, ResetToldOnce
<1> QED BY <1>1, <1>2, <1>3, PTL DEF Spec

-----------------------------------------------------------------------------
(* The request *)

\* What each step of the request finds already sent.
SendInv ==
  /\ data \in BOOLEAN
  /\ pc = "send_header" => out = 0
  /\ pc = "send_data" => data = TRUE /\ out = HeaderLen
  /\ pc = "header" => out = RequestLen

\* mbedtls_ssl_write takes all of what fits a record, or fails.
LEMMA RecordTakesAll ==
  ASSUME Tls, NEW n \in Nat \ {0}, n <= MaxWrite, NEW k \in Write(n), k >= 0
  PROVE  k = n
<1>1. MaxWrite \in Nat /\ -1 < 0
  BY SizesAssumption
<1>2. k = Min({n, MaxWrite})
  BY <1>1 DEF Write
<1>3. Min({n, MaxWrite}) = n
  <2>1. \A x \in {n, MaxWrite} : (\A y \in {n, MaxWrite} : x <= y) => x = n
    BY <1>1
  <2>2. \A y \in {n, MaxWrite} : n <= y
    BY <1>1
  <2> QED BY <2>1, <2>2 DEF Min
<1> QED BY <1>2, <1>3

\* A write that does not fail puts all of n bytes on the way.
LEMMA SendThenTakesAll ==
  ASSUME Tls, NEW n \in Nat \ {0}, n <= MaxWrite, NEW k \in Write(n), NEW next,
         SendThen(k, next)
  PROVE  /\ UNCHANGED data
         /\ pc' = "failed" \/ (pc' = next /\ out' = out + n)
<1>1. UNCHANGED data
  BY DEF SendThen
<1>2. k \in Int
  BY SizesAssumption DEF Write
<1>3. CASE k < 0
  BY <1>1, <1>3 DEF SendThen
<1>4. CASE k >= 0
  <2>1. k = n
    BY <1>4, RecordTakesAll
  <2>2. Taken(k) = n /\ ~(k < 0)
    BY <2>1 DEF Taken
  <2> QED BY <1>1, <2>2 DEF SendThen
<1> QED BY <1>2, <1>3, <1>4

\* Steps outside httpc_send_header and httpc_send_data begin no send and do not
\* touch what was sent.
LEMMA OthersSendNothing ==
  ASSUME [Next]_vars, ~StartRequest, ~SendHeader, ~SendData
  PROVE  /\ UNCHANGED <<data, out>>
         /\ pc' \in {"send_header", "send_data", "header"} => pc' = pc
<1>1. CASE ReadHeaderLine
  BY <1>1 DEF ReadHeaderLine, StoreLine
<1>2. CASE Parse
  BY <1>2 DEF Parse, Understand
<1>3. CASE RecvNormal
  BY <1>3 DEF RecvNormal, NormalUntil, Deliver
<1>4. CASE NoLineBuffer \/ ChunkLine
  BY <1>4 DEF NoLineBuffer, ChunkLine
<1>5. CASE ChunkData
  BY <1>5 DEF ChunkData, ChunkBytes, Deliver
<1>6. CASE ChunkCrlf
  BY <1>6 DEF ChunkCrlf
<1>7. CASE StatusGet \/ Answer \/ Close \/ UNCHANGED vars
  BY <1>7 DEF StatusGet, StatusReads, Answer, Close, vars
<1> QED BY <1>1, <1>2, <1>3, <1>4, <1>5, <1>6, <1>7 DEF Next, Client

\* When header and data each fit a TLS record, the client waits for the response
\* only with all of the request sent (httpc_send_header, httpc_send_data).
THEOREM RequestSentWhole ==
  ASSUME Tls, HeaderLen <= MaxWrite, DataLen <= MaxWrite
  PROVE  Spec => []RequestWhole
<1> USE SizesAssumption
<1>1. Init => SendInv
  BY DEF Init, SendInv
<1>2. ASSUME SendInv, [Next]_vars PROVE SendInv'
  <2>1. CASE StartRequest
    BY <2>1 DEF StartRequest, SendInv
  <2>2. CASE SendHeader
    <3>1. PICK k \in Write(HeaderLen) :
            SendThen(k, IF data THEN "send_data" ELSE "header")
      BY <2>2 DEF SendHeader
    <3>2. UNCHANGED data
      BY <3>1, SendThenTakesAll
    <3>3. \/ pc' = "failed"
          \/ pc' = (IF data THEN "send_data" ELSE "header") /\ out' = out + HeaderLen
      BY <3>1, SendThenTakesAll
    <3>4. out = 0 /\ 0 + HeaderLen = HeaderLen /\ HeaderLen + 0 = HeaderLen
      BY <1>2, <2>2 DEF SendHeader, SendInv
    <3>5. CASE data = TRUE
      BY <1>2, <3>2, <3>3, <3>4, <3>5 DEF SendInv
    <3>6. CASE data = FALSE
      <4>1. RequestLen' = HeaderLen
        BY <3>2, <3>4, <3>6 DEF RequestLen
      <4> QED BY <1>2, <3>2, <3>3, <3>4, <3>6, <4>1 DEF SendInv
    <3> QED BY <1>2, <3>5, <3>6 DEF SendInv
  <2>3. CASE SendData
    <3>1. PICK k \in Write(DataLen) : SendThen(k, "header")
      BY <2>3 DEF SendData
    <3>2. UNCHANGED data
      BY <3>1, SendThenTakesAll
    <3>3. pc' = "failed" \/ (pc' = "header" /\ out' = out + DataLen)
      BY <3>1, SendThenTakesAll
    <3>4. data = TRUE /\ out = HeaderLen
      BY <1>2, <2>3 DEF SendData, SendInv
    <3>5. RequestLen' = HeaderLen + DataLen
      BY <3>2, <3>4 DEF RequestLen
    <3> QED BY <3>2, <3>3, <3>4, <3>5 DEF SendInv
  <2>4. CASE ~StartRequest /\ ~SendHeader /\ ~SendData
    BY <1>2, <2>4, OthersSendNothing DEF SendInv, RequestLen
  <2> QED BY <2>1, <2>2, <2>3, <2>4
<1>3. SendInv => RequestWhole
  BY DEF SendInv, RequestWhole
<1> QED BY <1>1, <1>2, <1>3, PTL DEF Spec

-----------------------------------------------------------------------------
(* Numbers and searches *)

\* A set of numbers has a least element, and Min is it.
LEMMA MinIsLeast ==
  ASSUME NEW S \in SUBSET Nat, S # {}
  PROVE  Min(S) \in S /\ \A y \in S : Min(S) <= y
<1>1. PICK m \in S : \A k \in S : <<k, m>> \notin NatLess
  <2>1. S \subseteq Nat
    OBVIOUS
  <2>2. \E m \in S : \A k \in S : <<k, m>> \notin NatLess
    BY ONLY S # {}, <2>1, NatLessWellFounded, WFMin
  <2> QED BY <2>2
<1>2. ASSUME NEW k \in S PROVE m <= k
  <2>1. k \in Nat /\ m \in Nat
    OBVIOUS
  <2>2. k < m => <<k, m>> \in NatLess
    BY <2>1 DEF NatLess
  <2>3. ~(k < m)
    BY <1>1, <2>2
  <2> QED BY <2>1, <2>3
<1> QED BY <1>1, <1>2 DEF Min

IsValue(f, s, n) ==
  f = [k \in 0..n |-> IF k = 0 THEN 0 ELSE 2 * f[k - 1] + Digit[s[k]]]

\* The recursion of Value, for every string of digits.
LEMMA ValueType ==
  ASSUME NEW s \in Seq(DOMAIN Digit)
  PROVE  Value(s) \in Nat
<1> DEFINE T == {n \in Nat : n <= Len(s) => \E f \in [0..n -> Nat] : IsValue(f, s, n)}
<1>1. \A k \in 1..Len(s) : Digit[s[k]] \in Nat
  BY DEF Digit
<1>2. 0 \in T
  <2> DEFINE f == [k \in 0..0 |-> 0]
  <2>1. f \in [0..0 -> Nat] /\ IsValue(f, s, 0)
    BY DEF IsValue
  <2> QED BY <2>1
<1>3. ASSUME NEW n \in Nat, n \in T PROVE n + 1 \in T
  <2> SUFFICES ASSUME n + 1 <= Len(s)
               PROVE \E f \in [0..n + 1 -> Nat] : IsValue(f, s, n + 1)
    OBVIOUS
  <2>1. PICK f \in [0..n -> Nat] : IsValue(f, s, n)
    BY <1>3
  <2> DEFINE d == Digit[s[n + 1]]
  <2>2. d \in Nat
    BY <1>1
  <2> HIDE DEF d
  <2> DEFINE g == [k \in 0..n + 1 |-> IF k <= n THEN f[k] ELSE 2 * f[n] + d]
  <2>3. g \in [0..n + 1 -> Nat]
    BY <2>1, <2>2
  <2>4. ASSUME NEW k \in 0..n + 1
        PROVE  g[k] = IF k = 0 THEN 0 ELSE 2 * g[k - 1] + Digit[s[k]]
    <3>1. CASE k <= n
      <4>1. f[k] = IF k = 0 THEN 0 ELSE 2 * f[k - 1] + Digit[s[k]]
        BY <2>1, <3>1 DEF IsValue
      <4> QED BY <3>1, <4>1
    <3>2. CASE k = n + 1
      <4>1. g[k] = 2 * f[n] + Digit[s[k]]
        BY <2>1, <3>2 DEF d
      <4>2. g[k - 1] = f[n]
        BY <3>2
      <4> QED BY <3>2, <4>1, <4>2
    <3> QED BY <3>1, <3>2
  <2>5. IsValue(g, s, n + 1)
    BY <2>4 DEF IsValue
  <2> QED BY <2>3, <2>5
<1> HIDE DEF T
<1>4. \A n \in Nat : n \in T
  BY <1>2, <1>3, SetInduction
<1>5. PICK f \in [0..Len(s) -> Nat] : IsValue(f, s, Len(s))
  BY <1>4 DEF T
<1> DEFINE value == CHOOSE g : IsValue(g, s, Len(s))
<1>6. IsValue(value, s, Len(s))
  BY <1>5
<1> DEFINE U == {n \in Nat : n <= Len(s) => value[n] \in Nat}
<1> HIDE DEF value
<1>7. ASSUME NEW k \in 0..Len(s)
      PROVE  value[k] = IF k = 0 THEN 0 ELSE 2 * value[k - 1] + Digit[s[k]]
  BY <1>6 DEF IsValue
<1>8. 0 \in U
  BY <1>7
<1>9. ASSUME NEW n \in Nat, n \in U PROVE n + 1 \in U
  BY <1>1, <1>7, <1>9
<1> HIDE DEF U
<1>10. Len(s) \in U
  BY <1>8, <1>9, SetInduction
<1>11. value[Len(s)] \in Nat
  BY <1>10 DEF U
<1> QED BY <1>11 DEF Value, value, IsValue

\* The first place that holds t.
LEMMA FirstOf ==
  ASSUME NEW s \in Seq(Byte), NEW t, NEW i, i = SelectInSeq(s, LAMBDA x : x = t)
  PROVE  \/ i = 0 /\ \A j \in 1..Len(s) : s[j] # t
         \/ i \in 1..Len(s) /\ s[i] = t /\ \A j \in 1..i - 1 : s[j] # t
<1> DEFINE I == {j \in 1..Len(s) : s[j] = t}
<1>1. i = IF I # {} THEN Min(I) ELSE 0
  BY DEF SelectInSeq
<1>2. I \in SUBSET Nat
  OBVIOUS
<1>3. CASE I = {}
  BY <1>1, <1>3
<1>4. CASE I # {}
  <2>1. i \in I /\ \A y \in I : i <= y
    BY <1>1, <1>2, <1>4, MinIsLeast
  <2>2. ASSUME NEW j \in 1..i - 1, s[j] = t PROVE FALSE
    <3>1. j \in I
      BY <2>1, <2>2
    <3>2. i <= j /\ i \in Nat
      BY ONLY <2>1, <1>2, <3>1
    <3> QED BY <2>2, <3>2
  <2> QED BY <2>1, <2>2
<1> QED BY <1>3, <1>4

\* An unsigned long given to an int: it fits, and a number that fitted stays.
LEMMA IntOf ==
  ASSUME NEW n \in Nat
  PROVE  /\ ToInt(n) \in -IntHalf..IntHalf - 1
         /\ n < IntHalf => ToInt(n) = n
BY SizesAssumption DEF ToInt

\* The first place that holds none of A.
LEMMA FirstOutside ==
  ASSUME NEW s \in Seq(Byte), NEW A, NEW i, i = SelectInSeq(s, LAMBDA x : x \notin A)
  PROVE  \/ i = 0 /\ \A j \in 1..Len(s) : s[j] \in A
         \/ i \in 1..Len(s) /\ s[i] \notin A /\ \A j \in 1..i - 1 : s[j] \in A
<1> DEFINE I == {j \in 1..Len(s) : s[j] \notin A}
<1>1. i = IF I # {} THEN Min(I) ELSE 0
  BY DEF SelectInSeq
<1>2. I \in SUBSET Nat
  OBVIOUS
<1>3. CASE I = {}
  BY <1>1, <1>3
<1>4. CASE I # {}
  <2>1. i \in I /\ \A y \in I : i <= y
    BY <1>1, <1>2, <1>4, MinIsLeast
  <2>2. ASSUME NEW j \in 1..i - 1, s[j] \notin A PROVE FALSE
    <3>1. j \in I
      BY <2>1, <2>2
    <3>2. i <= j /\ i \in Nat
      BY ONLY <2>1, <1>2, <3>1
    <3> QED BY <2>2, <3>2
  <2> QED BY <2>1, <2>2
<1> QED BY <1>3, <1>4

\* What strtoul skips, what it has left after that, and the digits it takes of it.
Space == White \cup {"CR", "LF"}
AfterSpace(s) ==
  LET first == SelectInSeq(s, LAMBDA t : t \notin Space)
  IN  IF first = 0 THEN <<>> ELSE SubSeq(s, first, Len(s))
LeadingDigits(rest) ==
  LET stop == SelectInSeq(rest, LAMBDA t : t \notin DOMAIN Digit)
  IN  IF stop = 0 THEN rest ELSE SubSeq(rest, 1, stop - 1)

LEMMA NumberIs ==
  ASSUME NEW s
  PROVE  Number(s) = Value(LeadingDigits(AfterSpace(s)))
BY DEF Number, AfterSpace, LeadingDigits, Space

LEMMA LeadingDigitsType ==
  ASSUME NEW s \in Seq(Byte)
  PROVE  LeadingDigits(s) \in Seq(DOMAIN Digit)
<1> DEFINE stop == SelectInSeq(s, LAMBDA t : t \notin DOMAIN Digit)
<1>1. \/ stop = 0 /\ \A j \in 1..Len(s) : s[j] \in DOMAIN Digit
      \/ stop \in 1..Len(s) /\ \A j \in 1..stop - 1 : s[j] \in DOMAIN Digit
  BY FirstOutside
<1>2. LeadingDigits(s) = IF stop = 0 THEN s ELSE SubSeq(s, 1, stop - 1)
  BY DEF LeadingDigits
<1> HIDE DEF stop
<1>3. CASE stop = 0
  BY <1>1, <1>2, <1>3
<1>4. CASE stop # 0
  <2>1. stop - 1 \in 0..Len(s)
    BY <1>1, <1>4
  <2>2. \A j \in 1..stop - 1 : s[j] \in DOMAIN Digit
    BY <1>1, <1>4
  <2> QED BY <1>2, <1>4, <2>1, <2>2
<1> QED BY <1>3, <1>4

LEMMA AfterSpaceType ==
  ASSUME NEW s \in Seq(Byte)
  PROVE  AfterSpace(s) \in Seq(Byte)
<1> DEFINE first == SelectInSeq(s, LAMBDA t : t \notin Space)
<1>1. \/ first = 0 /\ \A j \in 1..Len(s) : s[j] \in Space
      \/ /\ first \in 1..Len(s) /\ s[first] \notin Space
         /\ \A j \in 1..first - 1 : s[j] \in Space
  BY FirstOutside
<1>2. AfterSpace(s) = IF first = 0 THEN <<>> ELSE SubSeq(s, first, Len(s))
  BY DEF AfterSpace
<1> HIDE DEF first
<1>3. CASE first = 0
  BY <1>2, <1>3
<1>4. CASE first \in 1..Len(s)
  <2>1. SubSeq(s, first, Len(s)) \in Seq(Byte)
    BY ONLY <1>4, s \in Seq(Byte)
  <2> QED BY <1>2, <1>4, <2>1
<1> QED BY <1>1, <1>3, <1>4

LEMMA NumberType ==
  ASSUME NEW s \in Seq(Byte)
  PROVE  Number(s) \in Nat
BY NumberIs, AfterSpaceType, LeadingDigitsType, ValueType

\* A numeral is read as the number it spells.
LEMMA DigitsSpell ==
  ASSUME NEW s \in Seq(Byte), NEW n, Spells(s, n)
  PROVE  Value(LeadingDigits(s)) = n
<1> DEFINE stop == SelectInSeq(s, LAMBDA t : t \notin DOMAIN Digit)
<1>1. PICK k \in 1..Len(s) :
        /\ \A i \in 1..k : s[i] \in DOMAIN Digit
        /\ k < Len(s) => s[k + 1] \notin DOMAIN Digit
        /\ n = Value(SubSeq(s, 1, k))
  BY DEF Spells
<1>2. \/ stop = 0 /\ \A j \in 1..Len(s) : s[j] \in DOMAIN Digit
      \/ /\ stop \in 1..Len(s) /\ s[stop] \notin DOMAIN Digit
         /\ \A j \in 1..stop - 1 : s[j] \in DOMAIN Digit
  BY FirstOutside
<1>3. LeadingDigits(s) = IF stop = 0 THEN s ELSE SubSeq(s, 1, stop - 1)
  BY DEF LeadingDigits
<1> HIDE DEF stop
<1>4. CASE stop = 0
  <2>1. k = Len(s)
    BY <1>1, <1>2, <1>4
  <2>2. SubSeq(s, 1, Len(s)) = s
    OBVIOUS
  <2> QED BY <1>1, <1>3, <1>4, <2>1, <2>2
<1>5. CASE stop # 0
  <2>1. k < stop
    BY <1>1, <1>2, <1>5
  <2>2. ~(k < stop - 1)
    <3>1. ASSUME k < stop - 1 PROVE k + 1 \in 1..stop - 1 /\ k < Len(s)
      BY <1>1, <1>2, <1>5, <3>1
    <3> QED BY <1>1, <1>2, <1>5, <3>1
  <2>3. k = stop - 1
    BY <1>1, <1>2, <1>5, <2>1, <2>2
  <2> QED BY <1>1, <1>3, <1>5, <2>3
<1> QED BY <1>4, <1>5

\* strtoul reads a numeral, also behind white space, or behind the LF that the CRLF
\* after a chunk may leave when only its CR was read.
LEMMA NumberReads ==
  ASSUME NEW w \in Seq(Byte), NEW s \in Seq(Byte), NEW d \in Nat, NEW n,
         Len(w) = Len(s) + d, Spells(s, n),
         \A i \in 1..d : w[i] \in Space, \A i \in 1..Len(s) : w[i + d] = s[i]
  PROVE  Number(w) = n
<1> DEFINE first == SelectInSeq(w, LAMBDA t : t \notin Space)
<1>1. \/ first = 0 /\ \A j \in 1..Len(w) : w[j] \in Space
      \/ /\ first \in 1..Len(w) /\ w[first] \notin Space
         /\ \A j \in 1..first - 1 : w[j] \in Space
  BY FirstOutside
<1>2. AfterSpace(w) = IF first = 0 THEN <<>> ELSE SubSeq(w, first, Len(w))
  BY DEF AfterSpace
<1> HIDE DEF first
<1>3. Len(s) \in Nat /\ Len(s) > 0 /\ s[1] \notin Space
  BY DEF Spells, Digit, Space, White
<1>4. w[1 + d] \notin Space /\ 1 + d \in 1..Len(w)
  BY <1>3
<1>5. first # 0
  BY <1>1, <1>4
<1>6. first <= 1 + d
  <2>1. ASSUME first > 1 + d PROVE 1 + d \in 1..first - 1
    BY <1>1, <1>5, <2>1
  <2> QED BY <1>1, <1>4, <1>5, <2>1
<1>7. first = 1 + d
  BY <1>1, <1>5, <1>6
<1>8. SubSeq(w, 1 + d, Len(w)) = s
  <2> DEFINE v == SubSeq(w, 1 + d, Len(w))
  <2>1. v \in Seq(Byte) /\ Len(v) = Len(s)
    BY <1>3
  <2>2. \A i \in 1..Len(s) : v[i] = s[i]
    BY <1>3
  <2> HIDE DEF v
  <2>3. v = s
    BY ONLY <2>1, <2>2, s \in Seq(Byte)
  <2> QED BY <2>3 DEF v
<1>9. AfterSpace(w) = s
  BY <1>2, <1>5, <1>7, <1>8
<1> QED BY <1>9, NumberIs, DigitsSpell

-----------------------------------------------------------------------------
(* Types *)

\* Besides the types: what was handed out has been read, there is room while the
\* header is read, and what is sent is counted from 0.
TypeInv ==
  /\ TypeOK
  /\ got \in Seq(1..pos)
  /\ pc = "header" => Len(hdr) < BufLen
  /\ pc = "send_header" => out = 0
  /\ pc = "send_data" => data = TRUE /\ out <= HeaderLen

\* Where the next line ends.
LEMMA LineEndIs ==
  ASSUME stream \in Seq(Byte), pos \in 0..Len(stream)
  PROVE  \/ /\ LineEnd = 0
            /\ \A q \in pos + 2..Len(stream) : ~(stream[q] = "LF" /\ stream[q - 1] = "CR")
         \/ /\ LineEnd \in pos + 2..Len(stream)
            /\ stream[LineEnd] = "LF" /\ stream[LineEnd - 1] = "CR"
            /\ \A q \in pos + 2..LineEnd - 1 : ~(stream[q] = "LF" /\ stream[q - 1] = "CR")
<1> DEFINE ends == {q \in pos + 2..Len(stream) : stream[q] = "LF" /\ stream[q - 1] = "CR"}
           e == LineEnd
<1>1. e = IF ends = {} THEN 0 ELSE Min(ends)
  BY DEF LineEnd
<1>2. ends \in SUBSET Nat
  OBVIOUS
<1> HIDE DEF e
<1>3. CASE ends = {}
  BY <1>1, <1>3 DEF e
<1>4. CASE ends # {}
  <2>1. e \in ends /\ \A y \in ends : e <= y
    BY <1>1, <1>2, <1>4, MinIsLeast
  <2>2. ASSUME NEW q \in pos + 2..e - 1, stream[q] = "LF", stream[q - 1] = "CR" PROVE FALSE
    <3>1. q \in ends
      BY <2>1, <2>2
    <3>2. e <= q /\ e \in Nat
      BY ONLY <2>1, <1>2, <3>1
    <3> QED BY <2>2, <3>2
  <2>3. e \in pos + 2..Len(stream) /\ stream[e] = "LF" /\ stream[e - 1] = "CR"
    BY <2>1
  <2> QED BY <2>2, <2>3 DEF e
<1> QED BY <1>3, <1>4

\* What httpc_read_one_line returns: never more than it was given room for, never
\* more than there is, and a line only when it was read to its end.
LEMMA LineRead ==
  ASSUME stream \in Seq(Byte), pos \in 0..Len(stream), NEW size \in Nat \ {0},
         NEW l \in ReadOneLine(size)
  PROVE  /\ l.count \in 0..size /\ l.count <= Len(stream) - pos
         /\ l.pos \in pos..Len(stream)
         /\ l.whole \in BOOLEAN /\ l.fails \in BOOLEAN
         /\ l.whole => LineEnd # 0 /\ l.pos = LineEnd /\ l.count = LineEnd - pos - 1
<1> DEFINE end  == LineEnd
           len  == end - pos - 1
           fits == end # 0 /\ len < size
           most == IF fits THEN len ELSE Min({Available, size - 1})
<1>1. Available \in Nat /\ Available = Len(stream) - pos
  BY DEF Available
<1>2. end = 0 \/ end \in pos + 2..Len(stream)
  BY LineEndIs
<1>3. most \in 0..Len(stream) - pos /\ most < size
  <2>1. CASE fits
    BY <1>2, <2>1
  <2>2. CASE ~fits
    <3> DEFINE S == {Available, size - 1}
    <3>1. S \in SUBSET Nat /\ S # {}
      BY <1>1
    <3>2. Min(S) \in S /\ \A y \in S : Min(S) <= y
      BY <3>1, MinIsLeast
    <3>3. Min(S) \in Nat /\ Min(S) <= Available /\ Min(S) <= size - 1
      BY <3>1, <3>2
    <3>4. most = Min(S)
      BY <2>2
    <3> HIDE DEF S, most
    <3> QED BY <1>1, <3>3, <3>4
  <2> QED BY <2>1, <2>2
<1>4. \/ /\ fits
         /\ l = [count |-> len, pos |-> end, whole |-> TRUE, fails |-> FALSE]
      \/ /\ ~fits /\ Available >= size
         /\ l = [count |-> size, pos |-> pos + size, whole |-> FALSE, fails |-> FALSE]
      \/ \E r \in 0..most : l = [count |-> r, pos |-> pos + r, whole |-> FALSE,
                                 fails |-> r = Available]
  BY DEF ReadOneLine
<1> HIDE DEF most
<1>5. CASE fits /\ l = [count |-> len, pos |-> end, whole |-> TRUE, fails |-> FALSE]
  <2>1. end \in pos + 2..Len(stream) /\ len \in 1..size - 1 /\ len <= Len(stream) - pos
    BY <1>2, <1>5
  <2> HIDE DEF end, len
  <2>2. l.count = len /\ l.pos = end /\ l.whole = TRUE /\ l.fails = FALSE
    BY <1>5
  <2>3. /\ l.count \in 0..size /\ l.count <= Len(stream) - pos
        /\ l.pos \in pos..Len(stream)
    <3>1. len \in 0..size /\ len <= Len(stream) - pos /\ end \in pos..Len(stream)
      BY <2>1
    <3> QED BY <2>2, <3>1
  <2>4. l.whole \in BOOLEAN /\ l.fails \in BOOLEAN
    BY <2>2
  <2>5. end # 0
    BY <2>1
  <2> QED BY <2>2, <2>3, <2>4, <2>5 DEF end, len
<1>6. CASE Available >= size /\ l = [count |-> size, pos |-> pos + size,
                                     whole |-> FALSE, fails |-> FALSE]
  BY <1>1, <1>6
<1>7. ASSUME NEW r \in 0..most,
             l = [count |-> r, pos |-> pos + r, whole |-> FALSE, fails |-> r = Available]
      PROVE  /\ l.count \in 0..size /\ l.count <= Len(stream) - pos
             /\ l.pos \in pos..Len(stream)
             /\ l.whole = FALSE /\ l.fails \in BOOLEAN
  <2>1. l.count = r /\ l.pos = pos + r /\ l.whole = FALSE /\ l.fails = (r = Available)
    BY <1>7
  <2>2. r \in Nat /\ r <= Len(stream) - pos /\ r < size
    BY <1>3
  <2>3. l.fails \in BOOLEAN
    BY <2>1
  <2> QED BY <2>1, <2>2, <2>3
<1> QED BY <1>4, <1>5, <1>6, <1>7

\* The line as it is stored.
LEMMA StoredType ==
  ASSUME stream \in Seq(Byte), pos \in 0..Len(stream), NEW l,
         l.count \in Nat, l.count <= Len(stream) - pos
  PROVE  /\ Stored(l) \in Seq(Byte)
         /\ Len(Stored(l)) = (IF l.count = 0 THEN 0 ELSE l.count - 1)
         /\ \A i \in 1..l.count - 1 : Stored(l)[i] = stream[pos + i]
<1> DEFINE n == l.count
<1>1. \A i \in pos + 1..pos + n - 1 : stream[i] \in Byte
  OBVIOUS
<1>2. Stored(l) = SubSeq(stream, pos + 1, pos + n - 1)
  BY DEF Stored
<1>3. pos + 1 \in Int /\ pos + n - 1 \in Int
  OBVIOUS
<1> DEFINE s == SubSeq(stream, pos + 1, pos + n - 1)
<1>4. /\ s \in Seq(Byte)
      /\ Len(s) = (IF pos + 1 <= pos + n - 1 THEN (pos + n - 1) - (pos + 1) + 1 ELSE 0)
      /\ \A i \in 1..(pos + n - 1) - (pos + 1) + 1 : s[i] = stream[pos + 1 + i - 1]
  BY ONLY <1>1, <1>3, SubSeqProperties
<1> HIDE DEF s
<1>5. Len(s) = IF n = 0 THEN 0 ELSE n - 1
  BY <1>4
<1>6. \A i \in 1..n - 1 : s[i] = stream[pos + i]
  <2> TAKE i \in 1..n - 1
  <2>1. i \in 1..(pos + n - 1) - (pos + 1) + 1 /\ pos + 1 + i - 1 = pos + i
    OBVIOUS
  <2> QED BY <1>4, <2>1
<1> QED BY <1>2, <1>4, <1>5, <1>6 DEF s

\* Two sequences and an element after one another.
LEMMA Joined ==
  ASSUME NEW S, NEW s \in Seq(S), NEW t \in Seq(S), NEW e \in S
  PROVE  /\ s \o t \o <<e>> \in Seq(S)
         /\ Len(s \o t \o <<e>>) = Len(s) + Len(t) + 1
         /\ \A i \in 1..Len(s) : (s \o t \o <<e>>)[i] = s[i]
         /\ \A i \in 1..Len(t) : (s \o t \o <<e>>)[Len(s) + i] = t[i]
         /\ (s \o t \o <<e>>)[Len(s) + Len(t) + 1] = e
<1> DEFINE u == s \o t
           v == <<e>>
           w == u \o v
<1>1. v \in Seq(S) /\ Len(v) = 1 /\ v[1] = e
  OBVIOUS
<1> HIDE DEF v
<1>2. /\ u \in Seq(S) /\ Len(u) = Len(s) + Len(t)
      /\ \A i \in 1..Len(s) + Len(t) : u[i] = IF i <= Len(s) THEN s[i] ELSE t[i - Len(s)]
  BY ConcatProperties
<1> HIDE DEF u
<1>3. /\ w \in Seq(S) /\ Len(w) = Len(u) + 1
      /\ \A i \in 1..Len(u) + 1 : w[i] = IF i <= Len(u) THEN u[i] ELSE v[i - Len(u)]
  <2>1. /\ w \in Seq(S) /\ Len(w) = Len(u) + Len(v)
        /\ \A i \in 1..Len(u) + Len(v) : w[i] = IF i <= Len(u) THEN u[i] ELSE v[i - Len(u)]
    <3>1. u \in Seq(S) /\ v \in Seq(S)
      BY <1>1, <1>2
    <3> QED BY ONLY <3>1, ConcatProperties
  <2> QED BY <1>1, <2>1
<1> HIDE DEF w
<1>4. Len(s) \in Nat /\ Len(t) \in Nat
  OBVIOUS
<1>5. \A i \in 1..Len(s) : w[i] = s[i]
  BY <1>2, <1>3, <1>4
<1>6. \A i \in 1..Len(t) : w[Len(s) + i] = t[i]
  <2> TAKE i \in 1..Len(t)
  <2>1. Len(s) + i \in 1..Len(u) /\ (Len(s) + i) - Len(s) = i /\ ~(Len(s) + i <= Len(s))
    BY <1>2, <1>4
  <2> QED BY <1>2, <1>3, <1>4, <2>1
<1>7. w[Len(s) + Len(t) + 1] = e
  <2>1. /\ Len(s) + Len(t) + 1 \in 1..Len(u) + 1 /\ ~(Len(s) + Len(t) + 1 <= Len(u))
        /\ (Len(s) + Len(t) + 1) - Len(u) = 1
    BY <1>2, <1>4
  <2> QED BY <1>1, <1>3, <2>1
<1>8. Len(w) = Len(s) + Len(t) + 1
  BY <1>2, <1>3
<1> QED BY <1>3, <1>5, <1>6, <1>7, <1>8 DEF u, v, w

LEMMA ReportType ==
  ASSUME err \in BOOLEAN, told \in Nat, NEW fails \in BOOLEAN, Report(fails)
  PROVE  err' \in BOOLEAN /\ told' \in Nat
<1>1. err' = (err /\ ~fails) /\ told' = IF err /\ fails THEN told + 1 ELSE told
  BY DEF Report
<1>2. told' = told \/ told' = told + 1
  BY <1>1
<1> QED BY <1>1, <1>2

\* A sequence of numbers up to m is one of numbers up to more.
LEMMA UpTo ==
  ASSUME NEW m \in Nat, NEW n \in Nat, m <= n, NEW s \in Seq(1..m)
  PROVE  s \in Seq(1..n)
<1>1. \A i \in 1..Len(s) : s[i] \in 1..n
  OBVIOUS
<1> QED BY <1>1

LEMMA InitTypes == Init => TypeInv
<1> SUFFICES ASSUME Init PROVE TypeInv
  OBVIOUS
<1>1. 0 \in -IntHalf..IntHalf - 1 /\ 0 \in 0..Rounds /\ 0 < BufLen /\ BufLen \in Nat
  BY SizesAssumption
<1>2. RequestLen \in Nat
  BY SizesAssumption DEF Init, RequestLen
<1>3. /\ <<>> \in Seq(Byte) /\ Len(<<>>) = 0 /\ <<>> \in Seq(1..0)
      /\ <<>> \in Seq(1..Len(<<>>))
  OBVIOUS
<1>4. data \in BOOLEAN /\ chunked \in BOOLEAN /\ err \in BOOLEAN
  <2>1. data = FALSE /\ chunked = FALSE /\ err = FALSE
    BY DEF Init
  <2> QED BY <2>1
<1>5. /\ pc = "idle" /\ round = 0 /\ out = 0 /\ link = "open" /\ stream = <<>> /\ pos = 0
      /\ hdr = <<>> /\ code = 0 /\ clen = 0 /\ want = 0 /\ got = <<>> /\ told = 0
      /\ truth = NoResponse /\ base = 0 /\ flaws = {}
  BY DEF Init
<1>6. TypeOK
  <2>1. round \in 0..Rounds /\ out \in 0..RequestLen /\ base \in Nat /\ told \in Nat
    BY <1>1, <1>2, <1>5
  <2>2. /\ stream \in Seq(Byte) /\ pos \in 0..Len(stream) /\ hdr \in Seq(Byte)
        /\ Len(hdr) <= BufLen /\ got \in Seq(1..Len(stream))
    BY <1>1, <1>3, <1>5
  <2>3. /\ code \in -IntHalf..IntHalf - 1 /\ clen \in -IntHalf..IntHalf - 1
        /\ want \in -IntHalf..IntHalf - 1
    BY <1>1, <1>5
  <2>4. /\ pc = "idle" /\ link = "open" /\ truth \in Responses \cup {NoResponse} /\ flaws = {}
    BY <1>5
  <2> QED BY <1>4, <2>1, <2>2, <2>3, <2>4 DEF TypeOK
<1> QED BY <1>1, <1>3, <1>5, <1>6 DEF TypeInv

\* What the steps of sending leave.
LEMMA SendTypes ==
  ASSUME TypeInv, pc \in {"send_header", "send_data"},
         NEW size, size = (IF pc = "send_header" THEN HeaderLen ELSE DataLen),
         NEW next, next = (IF pc = "send_header" /\ data THEN "send_data" ELSE "header"),
         NEW n \in Write(size), SendThen(n, next)
  PROVE  TypeInv'
<1> USE DEF TypeInv, TypeOK
<1>1. size \in Nat /\ HeaderLen \in Nat /\ DataLen \in Nat /\ BufLen \in Nat /\ BufLen > 0
  BY SizesAssumption
<1>2. n = -1 \/ n \in 1..size
  BY DEF Write
<1>3. Taken(n) \in 0..size /\ (n < 0) \in BOOLEAN /\ (n < 0 => Taken(n) = 0)
  BY <1>1, <1>2 DEF Taken
<1>4. /\ out' = out + Taken(n) /\ pc' = (IF n < 0 THEN "failed" ELSE next)
      /\ hdr' = (IF pc' = "header" THEN <<>> ELSE hdr) /\ Report(n < 0)
      /\ UNCHANGED <<round, data, link, stream, truth, base, pos, code, clen, chunked,
                     want, got, flaws>>
  BY DEF SendThen, wire, fields
<1>5. err' \in BOOLEAN /\ told' \in Nat
  BY <1>3, <1>4, ReportType
<1>6. RequestLen' = RequestLen /\ RequestLen = HeaderLen + (IF data THEN DataLen ELSE 0)
  BY <1>4 DEF RequestLen
<1>7. /\ out' \in 0..RequestLen' /\ pc' # "send_header"
      /\ pc' = "send_data" => data' = TRUE /\ out' <= HeaderLen
  <2>1. CASE pc = "send_header"
    <3>1. out = 0 /\ out' = Taken(n) /\ Taken(n) \in 0..HeaderLen
      BY <1>1, <1>3, <1>4, <2>1
    <3>2. out' \in 0..RequestLen
      BY <1>1, <1>6, <3>1
    <3>3. pc' \in {"failed", "send_data", "header"} /\ (pc' = "send_data" => data' = TRUE)
      BY <1>4, <2>1
    <3> QED BY <1>6, <3>1, <3>2, <3>3
  <2>2. CASE pc = "send_data"
    <3>1. data = TRUE /\ out \in 0..HeaderLen /\ Taken(n) \in 0..DataLen
      BY <1>1, <1>3, <2>2
    <3>2. RequestLen = HeaderLen + DataLen
      BY <1>6, <3>1
    <3>3. out' \in 0..RequestLen
      BY <1>1, <1>4, <3>1, <3>2
    <3>4. pc' \in {"failed", "header"}
      BY <1>4, <2>2
    <3> QED BY <1>6, <3>3, <3>4
  <2> QED BY <2>1, <2>2
<1>8. hdr' \in Seq(Byte) /\ Len(hdr') <= BufLen /\ (pc' = "header" => Len(hdr') < BufLen)
  BY <1>1, <1>4
<1>9. pc' \in {"failed", "send_data", "header"}
  BY <1>4
<1> QED BY <1>4, <1>5, <1>7, <1>8, <1>9

\* The application, the server and the status leave the types alone.
LEMMA OutsideTypes ==
  ASSUME TypeInv, StartRequest \/ StatusGet \/ Answer \/ Close
  PROVE  TypeInv'
<1> USE DEF TypeInv, TypeOK
<1>1. CASE StartRequest
  <2>1. PICK withData \in BOOLEAN :
          /\ round < Rounds /\ round' = round + 1 /\ pc' = "send_header"
          /\ data' = withData /\ out' = 0 /\ truth' = NoResponse /\ got' = <<>> /\ flaws' = {}
          /\ UNCHANGED <<link, stream, base, pos, hdr, code, clen, chunked, want, err, told>>
    BY <1>1 DEF StartRequest, fields, status
  <2>2. round' \in 0..Rounds /\ 0 \in 0..RequestLen'
    BY <2>1, SizesAssumption DEF RequestLen
  <2>3. <<>> \in Seq(1..pos) /\ <<>> \in Seq(1..Len(stream))
    OBVIOUS
  <2> QED BY <2>1, <2>2, <2>3
<1>2. CASE StatusGet
  <2>1. /\ told' = told + 1 /\ err' = ~TRUE
        /\ UNCHANGED <<pc, round, data, out, link, stream, truth, base, pos, hdr, code, clen,
                       chunked, want, got, flaws>>
    BY <1>2 DEF StatusGet, StatusReads, wire, fields
  <2>2. told' \in Nat /\ err' \in BOOLEAN /\ RequestLen' = RequestLen
    BY <2>1 DEF RequestLen
  <2> QED BY <2>1, <2>2
<1>3. CASE Answer
  <2>1. PICK r \in Responses :
          /\ truth' = r /\ base' = Len(stream) /\ stream' = stream \o r.bytes
          /\ UNCHANGED <<pc, round, data, out, link, pos, hdr, code, clen, chunked, want, got,
                         err, told, flaws>>
    BY <1>3 DEF Answer, fields, status
  <2>2. r.bytes \in Seq(Byte)
    BY ResponsesAssumption DEF ResponseType
  <2>3. stream' \in Seq(Byte) /\ Len(stream') = Len(stream) + Len(r.bytes)
    BY <2>1, <2>2
  <2>4. pos \in 0..Len(stream') /\ Len(stream) \in Nat /\ pos \in Nat /\ pos <= Len(stream')
    BY <2>2, <2>3
  <2>5. got \in Seq(1..Len(stream'))
    BY <2>3, <2>4, UpTo
  <2>6. RequestLen' = RequestLen
    BY <2>1 DEF RequestLen
  <2> QED BY <2>1, <2>3, <2>4, <2>5, <2>6
<1>4. CASE Close
  <2>1. PICK n \in pos..Len(stream) :
          /\ stream' = SubSeq(stream, 1, n) /\ link' = "closed" /\ err' \in Endings
          /\ UNCHANGED <<pc, round, data, out, truth, base, pos, hdr, code, clen, chunked, want,
                         got, told, flaws>>
    BY <1>4 DEF Close, fields
  <2>2. n \in Nat /\ n <= Len(stream) /\ pos <= n
    BY <2>1
  <2>3. stream' \in Seq(Byte) /\ Len(stream') = n
    BY <2>1, <2>2
  <2>4. got \in Seq(1..Len(stream'))
    BY <2>2, <2>3, UpTo
  <2>5. err' \in BOOLEAN
    BY <2>1, SizesAssumption
  <2>6. RequestLen' = RequestLen
    BY <2>1 DEF RequestLen
  <2>7. pos \in 0..Len(stream')
    BY <2>2, <2>3
  <2> QED BY <2>1, <2>3, <2>4, <2>5, <2>6, <2>7
<1> QED BY <1>1, <1>2, <1>3, <1>4

\* What one read can return.
LEMMA Received ==
  ASSUME stream \in Seq(Byte), pos \in 0..Len(stream), NEW size \in Nat, NEW n \in Recv(size)
  PROVE  /\ n \in Int
         /\ n = -1 \/ n = 0 \/ (n \in 1..size /\ n <= Len(stream) - pos)
         /\ Taken(n) \in 0..Len(stream) - pos
<1>1. n = -1 \/ n = 0 \/ (n \in 1..size /\ n <= Len(stream) - pos)
  BY DEF Recv, EndOfStream, Available
<1> QED BY <1>1 DEF Taken

\* The first NUL from an index on.
LEMMA FirstNul ==
  ASSUME hdr \in Seq(Byte), NEW a \in Nat \ {0}, NEW i,
         i = SelectInSubSeq(hdr, a, Len(hdr), LAMBDA t : t = "NUL")
  PROVE  \/ i = 0 /\ \A j \in a..Len(hdr) : hdr[j] # "NUL"
         \/ i \in a..Len(hdr) /\ hdr[i] = "NUL" /\ \A j \in a..i - 1 : hdr[j] # "NUL"
<1> DEFINE I == {j \in a..Len(hdr) : hdr[j] = "NUL"}
<1>1. i = IF I # {} THEN Min(I) ELSE 0
  BY DEF SelectInSubSeq
<1>2. I \in SUBSET Nat
  OBVIOUS
<1>3. CASE I = {}
  BY <1>1, <1>3
<1>4. CASE I # {}
  <2>1. i \in I /\ \A y \in I : i <= y
    BY <1>1, <1>2, <1>4, MinIsLeast
  <2>2. ASSUME NEW j \in a..i - 1, hdr[j] = "NUL" PROVE FALSE
    <3>1. j \in I
      BY <2>1, <2>2
    <3>2. i <= j /\ i \in Nat
      BY ONLY <2>1, <1>2, <3>1
    <3> QED BY <2>2, <3>2
  <2> QED BY <2>1, <2>2
<1> QED BY <1>3, <1>4

\* The string that begins at an index ends before the next NUL, or with the buffer.
LEMMA StringAtIs ==
  ASSUME hdr \in Seq(Byte), NEW i \in 1..Len(hdr) + 1
  PROVE  \E e \in i..Len(hdr) + 1 :
           /\ e = Len(hdr) + 1 \/ hdr[e] = "NUL"
           /\ \A j \in i..e - 1 : hdr[j] # "NUL"
           /\ StringAt(i) \in Seq(Byte) /\ Len(StringAt(i)) = e - i
           /\ \A j \in 1..e - i : StringAt(i)[j] = hdr[i + j - 1]
<1> DEFINE nul == SelectInSubSeq(hdr, i, Len(hdr), LAMBDA t : t = "NUL")
           e   == IF nul = 0 THEN Len(hdr) + 1 ELSE nul
<1>1. \/ nul = 0 /\ \A j \in i..Len(hdr) : hdr[j] # "NUL"
      \/ nul \in i..Len(hdr) /\ hdr[nul] = "NUL" /\ \A j \in i..nul - 1 : hdr[j] # "NUL"
  <2>1. i \in Nat \ {0}
    OBVIOUS
  <2> QED BY <2>1, FirstNul
<1>2. StringAt(i) = SubSeq(hdr, i, IF nul = 0 THEN Len(hdr) ELSE nul - 1)
  BY DEF StringAt
<1> HIDE DEF nul
<1>3. /\ e \in i..Len(hdr) + 1 /\ (e = Len(hdr) + 1 \/ hdr[e] = "NUL")
      /\ \A j \in i..e - 1 : hdr[j] # "NUL"
  BY <1>1
<1>4. StringAt(i) = SubSeq(hdr, i, e - 1)
  BY <1>1, <1>2
<1> HIDE DEF e
<1>5. i \in Int /\ e - 1 \in Int /\ \A j \in i..e - 1 : hdr[j] \in Byte
  BY <1>3
<1> DEFINE s == SubSeq(hdr, i, e - 1)
<1>6. /\ s \in Seq(Byte)
      /\ Len(s) = (IF i <= e - 1 THEN (e - 1) - i + 1 ELSE 0)
      /\ \A j \in 1..(e - 1) - i + 1 : s[j] = hdr[i + j - 1]
  BY ONLY <1>5, SubSeqProperties
<1> HIDE DEF s
<1>7. Len(s) = e - i /\ \A j \in 1..e - i : s[j] = hdr[i + j - 1]
  BY <1>3, <1>6
<1> QED BY <1>3, <1>4, <1>6, <1>7 DEF s

LEMMA HeaderGetType ==
  ASSUME hdr \in Seq(Byte), NEW field, NEW v \in HeaderGet(field)
  PROVE  v = Absent \/ v \in Seq(Byte)
<1> DEFINE i == SelectInSeq(hdr, LAMBDA t : t = field)
           begin == IF i + 2 <= Len(hdr) /\ hdr[i + 2] = "SP" THEN i + 3 ELSE i + 2
<1>1. i = 0 \/ i \in 1..Len(hdr)
  <2>1. \/ i = 0 /\ \A j \in 1..Len(hdr) : hdr[j] # field
        \/ i \in 1..Len(hdr) /\ hdr[i] = field /\ \A j \in 1..i - 1 : hdr[j] # field
    BY FirstOf
  <2> QED BY <2>1
<1>2. v \in IF i = 0 THEN {Absent} \cup (Behind \ {<<>>})
            ELSE IF i + 2 > Len(hdr) THEN Behind ELSE {StringAt(begin)}
  BY DEF HeaderGet
<1>3. Behind \subseteq Seq(Byte)
  <2>1. <<>> \in Seq(Byte) /\ <<"1">> \in Seq(Byte)
    BY DEF Byte
  <2>2. \A s \in Behind : s = <<>> \/ s = <<"1">>
    BY DEF Behind
  <2> QED BY <2>1, <2>2
<1> HIDE DEF i
<1>4. ASSUME i # 0, ~(i + 2 > Len(hdr)) PROVE StringAt(begin) \in Seq(Byte)
  <2>1. begin \in 1..Len(hdr) + 1
    BY <1>1, <1>4
  <2> HIDE DEF begin
  <2> QED BY <2>1, StringAtIs
<1> QED BY <1>2, <1>3, <1>4

\* Body bytes handed out.
LEMMA DeliverTypes ==
  ASSUME TypeInv, NEW size \in Nat, NEW n \in Recv(size), NEW asked, Deliver(n, asked),
         pc' \in {"done", "failed", "body", "chunk_line", "chunk_crlf"}
  PROVE  TypeInv'
<1> USE DEF TypeInv, TypeOK
<1>1. n \in Int /\ Taken(n) \in 0..Len(stream) - pos
  BY Received
<1> DEFINE k == Taken(n)
<1>2. /\ got' = got \o Positions(k) /\ pos' = pos + k
      /\ flaws' \subseteq {"cut", "fault", "torn", "small", "wrapped", "misled"}
      /\ Report(n <= 0 /\ Available = 0)
      /\ UNCHANGED <<round, data, out, link, stream, truth, base, hdr, code, clen, chunked, want>>
  BY DEF Deliver, wire, fields
<1> HIDE DEF k
<1>3. k \in Nat /\ pos + k <= Len(stream) /\ pos \in Nat
  BY <1>1 DEF k
<1>4. Positions(k) \in Seq(1..pos + k)
  <2>1. \A i \in 1..k : pos + i \in 1..pos + k
    BY <1>3
  <2> QED BY <1>3, <2>1 DEF Positions
<1>5. got \in Seq(1..pos + k)
  BY <1>3, UpTo
<1>6. got' \in Seq(1..pos') /\ got' \in Seq(1..Len(stream))
  <2>1. got' \in Seq(1..pos + k)
    BY <1>2, <1>4, <1>5
  <2>2. got' \in Seq(1..Len(stream))
    BY <1>3, <2>1, UpTo
  <2> QED BY <1>2, <2>1, <2>2
<1>7. err' \in BOOLEAN /\ told' \in Nat
  <2>1. (n <= 0 /\ Available = 0) \in BOOLEAN
    OBVIOUS
  <2> QED BY <1>2, <2>1, ReportType
<1>8. RequestLen' = RequestLen
  BY <1>2 DEF RequestLen
<1>9. pos' \in 0..Len(stream)
  BY <1>2, <1>3
<1> QED BY <1>2, <1>6, <1>7, <1>8, <1>9

LEMMA ReceivingTypes ==
  ASSUME TypeInv, RecvNormal \/ NoLineBuffer \/ ChunkData \/ ChunkCrlf
  PROVE  TypeInv'
<1> USE DEF TypeInv, TypeOK
<1>1. CASE RecvNormal
  <2>1. PICK n \in Recv(BodySize) :
          Deliver(n, BodySize) /\ pc' \in {"failed", "done", "body"}
    BY <1>1 DEF RecvNormal, NormalUntil
  <2>2. BodySize \in Nat
    BY SizesAssumption
  <2> QED BY <2>1, <2>2, DeliverTypes
<1>2. CASE NoLineBuffer
  <2>1. RequestLen' = RequestLen
    BY <1>2 DEF NoLineBuffer, RequestLen
  <2> QED BY <1>2, <2>1 DEF NoLineBuffer, wire, fields, status
<1>3. CASE ChunkData
  <2>1. PICK n \in Recv(want) : Deliver(n, want) /\ pc' \in {"done", "chunk_crlf"}
    BY <1>3 DEF ChunkData, ChunkBytes
  <2>2. CASE want \in Nat
    BY <2>1, <2>2, DeliverTypes
  <2>3. CASE want \notin Nat
    <3>1. n \in Recv(0)
      BY <2>1, <2>3, SizesAssumption DEF Recv
    <3>2. 0 \in Nat
      OBVIOUS
    <3> QED BY <2>1, <3>1, <3>2, DeliverTypes
  <2> QED BY <2>2, <2>3
<1>4. CASE ChunkCrlf
  <2>1. PICK n \in Recv(2) :
          /\ pos' = pos + Taken(n) /\ pc' = "chunk_line"
          /\ flaws' \subseteq {"cut", "fault", "torn", "small", "wrapped", "misled"}
          /\ Report(n <= 0 /\ Available = 0)
          /\ UNCHANGED <<round, data, out, link, stream, truth, base, hdr, code, clen, chunked,
                         want, got>>
    BY <1>4 DEF ChunkCrlf, wire, fields
  <2>2. Taken(n) \in 0..Len(stream) - pos
    BY <2>1, Received
  <2>3. err' \in BOOLEAN /\ told' \in Nat
    <3>1. (n <= 0 /\ Available = 0) \in BOOLEAN
      OBVIOUS
    <3> QED BY <2>1, <3>1, ReportType
  <2>4. pos' \in 0..Len(stream) /\ pos \in Nat /\ pos' \in Nat /\ pos <= pos'
    BY <2>1, <2>2
  <2>5. got \in Seq(1..pos')
    BY <2>4, UpTo
  <2>6. RequestLen' = RequestLen
    BY <2>1 DEF RequestLen
  <2> QED BY <2>1, <2>3, <2>4, <2>5, <2>6
<1> QED BY <1>1, <1>2, <1>3, <1>4

LEMMA ReadingTypes ==
  ASSUME TypeInv, ReadHeaderLine \/ ChunkLine
  PROVE  TypeInv'
<1> USE DEF TypeInv, TypeOK
<1>1. CASE ReadHeaderLine
  <2> DEFINE room == BufLen - Len(hdr)
  <2>1. PICK l \in ReadOneLine(room) :
          /\ pc = "header" /\ pos' = l.pos
          /\ hdr' = (IF l.count = 0 \/ IsBlank(l) THEN hdr ELSE hdr \o Stored(l) \o <<"NUL">>)
          /\ pc' \in {"parse", "header"} /\ (pc' = "header" => Len(hdr') < BufLen)
          /\ flaws' \subseteq {"cut", "fault", "torn", "small", "wrapped", "misled"}
          /\ Report(l.fails)
          /\ UNCHANGED <<round, data, out, link, stream, truth, base, code, clen, chunked, want,
                         got>>
    <3>1. PICK l \in ReadOneLine(room) :
            LET ends == l.count = 0 \/ IsBlank(l) IN
            /\ pc = "header" /\ pos' = l.pos
            /\ hdr' = (IF ends THEN hdr ELSE hdr \o Stored(l) \o <<"NUL">>)
            /\ pc' = (IF ends \/ Len(hdr') >= BufLen THEN "parse" ELSE "header")
            /\ flaws' = flaws \cup {f \in {"cut"} : ~l.whole \/ (hdr = <<>> /\ ~AtItsBeginning)}
            /\ Report(l.fails)
            /\ UNCHANGED <<round, data, out, wire, fields, want, got>>
      BY <1>1 DEF ReadHeaderLine, StoreLine
    <3>2. /\ pc' \in {"parse", "header"} /\ (pc' = "header" => ~(Len(hdr') >= BufLen))
          /\ hdr' = IF l.count = 0 \/ IsBlank(l) THEN hdr ELSE hdr \o Stored(l) \o <<"NUL">>
      BY <3>1
    <3>5. flaws' \subseteq {"cut", "fault", "torn", "small", "wrapped", "misled"}
      BY <3>1
    <3>3. hdr' \in Seq(Byte)
      <4>1. <<"NUL">> \in Seq(Byte)
        BY DEF Byte
      <4>2. room \in Nat \ {0}
        BY <3>1, SizesAssumption
      <4>3. l.count \in Nat /\ l.count <= Len(stream) - pos
        BY <3>1, <4>2, LineRead
      <4> QED BY <3>1, <4>1, <4>3, StoredType
    <3>4. Len(hdr') \in Nat /\ BufLen \in Nat
      BY <3>3, SizesAssumption
    <3> QED BY <3>1, <3>2, <3>4, <3>5 DEF wire, fields
  <2>2. room \in Nat \ {0} /\ BufLen \in Nat
    BY <2>1, SizesAssumption
  <2>3. /\ l.count \in 0..room /\ l.count <= Len(stream) - pos
        /\ l.pos \in pos..Len(stream) /\ l.fails \in BOOLEAN
    BY <2>1, <2>2, LineRead
  <2>4. Stored(l) \in Seq(Byte) /\ Len(Stored(l)) = IF l.count = 0 THEN 0 ELSE l.count - 1
    BY <2>3, StoredType
  <2>5. hdr' \in Seq(Byte) /\ Len(hdr') <= BufLen
    <3>1. CASE l.count = 0 \/ IsBlank(l)
      BY <2>1, <3>1
    <3>2. CASE ~(l.count = 0 \/ IsBlank(l))
      <4>1. hdr' = hdr \o Stored(l) \o <<"NUL">>
        BY <2>1, <3>2
      <4>2. Len(Stored(l)) = l.count - 1 /\ l.count \in 1..room
        BY <2>3, <2>4, <3>2
      <4>3. "NUL" \in Byte
        BY DEF Byte
      <4>4. /\ hdr \o Stored(l) \o <<"NUL">> \in Seq(Byte)
            /\ Len(hdr \o Stored(l) \o <<"NUL">>) = Len(hdr) + Len(Stored(l)) + 1
        <5>1. hdr \in Seq(Byte) /\ Stored(l) \in Seq(Byte)
          BY <2>4
        <5> QED BY ONLY <4>3, <5>1, Joined
      <4>5. hdr' \in Seq(Byte) /\ Len(hdr') = Len(hdr) + l.count
        <5>1. Len(hdr) \in Nat /\ l.count \in Nat
          BY <4>2, <2>2
        <5>2. hdr' \in Seq(Byte) /\ Len(hdr') = Len(hdr) + Len(Stored(l)) + 1
          BY ONLY <4>1, <4>4
        <5> QED BY ONLY <5>1, <5>2, <4>2
      <4>6. Len(hdr) \in Nat /\ l.count \in 1..BufLen - Len(hdr)
        BY <2>2, <4>2
      <4> QED BY ONLY <2>2, <4>5, <4>6
    <3> QED BY <3>1, <3>2
  <2>6. err' \in BOOLEAN /\ told' \in Nat
    BY <2>1, <2>3, ReportType
  <2>7. pos' \in 0..Len(stream) /\ pos \in Nat /\ pos' \in Nat /\ pos <= pos'
    BY <2>1, <2>3
  <2>8. got \in Seq(1..pos')
    BY <2>7, UpTo
  <2>9. RequestLen' = RequestLen
    BY <2>1 DEF RequestLen
  <2> QED BY <2>1, <2>5, <2>6, <2>7, <2>8, <2>9
<1>2. CASE ChunkLine
  <2>1. PICK l \in ReadOneLine(LineLen) :
          /\ pos' = l.pos /\ want' = ToInt(Number(Stored(l)))
          /\ pc' \in {"done", "chunk_data"}
          /\ flaws' \subseteq {"cut", "fault", "torn", "small", "wrapped", "misled"}
          /\ Report(l.fails)
          /\ UNCHANGED <<round, data, out, link, stream, truth, base, hdr, code, clen, chunked,
                         got>>
    BY <1>2 DEF ChunkLine, wire, fields
  <2>2. LineLen \in Nat \ {0}
    BY SizesAssumption
  <2>3. /\ l.count \in 0..LineLen /\ l.count <= Len(stream) - pos
        /\ l.pos \in pos..Len(stream) /\ l.fails \in BOOLEAN
    BY <2>1, <2>2, LineRead
  <2>4. want' \in -IntHalf..IntHalf - 1
    <3>1. l.count \in Nat
      BY <2>2, <2>3
    <3>2. Stored(l) \in Seq(Byte)
      BY <2>3, <3>1, StoredType
    <3> QED BY <2>1, <3>2, NumberType, IntOf
  <2>5. err' \in BOOLEAN /\ told' \in Nat
    BY <2>1, <2>3, ReportType
  <2>6. pos' \in 0..Len(stream) /\ pos \in Nat /\ pos' \in Nat /\ pos <= pos'
    BY <2>1, <2>3
  <2>7. got \in Seq(1..pos')
    BY <2>6, UpTo
  <2>8. RequestLen' = RequestLen
    BY <2>1 DEF RequestLen
  <2> QED BY <2>1, <2>4, <2>5, <2>6, <2>7, <2>8
<1> QED BY <1>1, <1>2

LEMMA ParseTypes ==
  ASSUME TypeInv, Parse
  PROVE  TypeInv'
<1> USE DEF TypeInv, TypeOK
<1>1. /\ pc' \in {"failed", "body", "done", "chunk_line"}
      /\ flaws' \subseteq {"cut", "fault", "torn", "small", "wrapped", "misled"}
      /\ UNCHANGED <<round, data, out, link, stream, truth, base, pos, hdr, want, got, err, told>>
  BY DEF Parse, Understand, wire, status
<1>2. /\ code' \in -IntHalf..IntHalf - 1 /\ clen' \in -IntHalf..IntHalf - 1
      /\ chunked' \in BOOLEAN
  <2>1. CASE UNCHANGED fields
    BY <2>1 DEF fields
  <2>2. CASE ~UNCHANGED fields
    <3> DEFINE h == SelectInSeq(hdr, LAMBDA t : t = "H")
    <3>1. PICK cl \in HeaderGet("CL"), te \in HeaderGet("TE") :
            /\ code' = ToInt(Number(StringAt(1 + h)))
            /\ clen' = IF cl = Absent THEN 0 ELSE ToInt(Number(cl))
            /\ chunked' = (clen' = 0 /\ te = <<"chunked">>)
      BY <2>2 DEF Parse, Understand
    <3>2. h = 0 \/ h \in 1..Len(hdr)
      <4>1. \/ h = 0 /\ \A j \in 1..Len(hdr) : hdr[j] # "H"
            \/ h \in 1..Len(hdr) /\ hdr[h] = "H" /\ \A j \in 1..h - 1 : hdr[j] # "H"
        BY FirstOf
      <4> QED BY <4>1
    <3>3. code' \in -IntHalf..IntHalf - 1
      <4>1. 1 + h \in 1..Len(hdr) + 1
        BY <3>2
      <4>2. StringAt(1 + h) \in Seq(Byte)
        BY <4>1, StringAtIs
      <4>3. Number(StringAt(1 + h)) \in Nat
        BY ONLY <4>2, NumberType
      <4>4. ToInt(Number(StringAt(1 + h))) \in -IntHalf..IntHalf - 1
        BY <4>3, IntOf
      <4>5. code' = ToInt(Number(StringAt(1 + h)))
        BY <3>1
      <4> HIDE DEF h
      <4> QED BY ONLY <4>4, <4>5
    <3>4. clen' \in -IntHalf..IntHalf - 1
      <4>1. CASE cl = Absent
        <5>1. clen' = 0
          BY <3>1, <4>1
        <5>2. 0 \in -IntHalf..IntHalf - 1
          BY SizesAssumption
        <5> QED BY ONLY <5>1, <5>2
      <4>2. CASE cl # Absent
        <5>1. cl \in Seq(Byte)
          BY <4>2, HeaderGetType
        <5> QED BY <3>1, <4>2, <5>1, NumberType, IntOf
      <4> QED BY <4>1, <4>2
    <3>5. chunked' \in BOOLEAN
      BY <3>1
    <3> QED BY <3>3, <3>4, <3>5
  <2> QED BY <2>1, <2>2
<1>3. RequestLen' = RequestLen
  BY <1>1 DEF RequestLen
<1> QED BY <1>1, <1>2, <1>3

LEMMA TypesKept ==
  ASSUME TypeInv, [Next]_vars
  PROVE  TypeInv'
<1>1. CASE SendHeader
  <2>1. pc = "send_header" /\ data \in BOOLEAN
    BY <1>1 DEF SendHeader, TypeInv, TypeOK
  <2>2. PICK n \in Write(HeaderLen) : SendThen(n, IF data THEN "send_data" ELSE "header")
    BY <1>1 DEF SendHeader
  <2>3. /\ HeaderLen = IF pc = "send_header" THEN HeaderLen ELSE DataLen
        /\ (IF data THEN "send_data" ELSE "header")
             = IF pc = "send_header" /\ data THEN "send_data" ELSE "header"
    BY <2>1
  <2> QED BY <2>1, <2>2, <2>3, SendTypes
<1>2. CASE SendData
  <2>1. pc = "send_data"
    BY <1>2 DEF SendData
  <2>2. PICK n \in Write(DataLen) : SendThen(n, "header")
    BY <1>2 DEF SendData
  <2>3. /\ DataLen = IF pc = "send_header" THEN HeaderLen ELSE DataLen
        /\ "header" = IF pc = "send_header" /\ data THEN "send_data" ELSE "header"
    BY <2>1
  <2> QED BY <2>1, <2>2, <2>3, SendTypes
<1>3. CASE UNCHANGED vars
  <2>1. RequestLen' = RequestLen
    BY <1>3 DEF vars, RequestLen
  <2> QED BY <1>3, <2>1 DEF TypeInv, TypeOK, vars, wire, fields, status
<1> QED BY <1>1, <1>2, <1>3, OutsideTypes, ReceivingTypes, ReadingTypes, ParseTypes
        DEF Next, Client

\* Every field keeps its type: the buffer is never written past its end
\* (httpc_read_one_line), the int fields stay ints, and nothing is handed out
\* that was not read.
THEOREM ExchangeTypes == Spec => []TypeOK
<1>1. TypeInv => TypeOK
  BY DEF TypeInv
<1> QED BY <1>1, InitTypes, TypesKept, PTL DEF Spec

-----------------------------------------------------------------------------
(* What a response in progress looks like *)

\* The stream ends with what has arrived of the response, and with all of it
\* while the connection is open.
WireInv ==
  truth # NoResponse =>
    /\ Len(stream) <= base + Len(truth.bytes)
    /\ link = "open" => Len(stream) = base + Len(truth.bytes)
    /\ \A i \in base + 1..Len(stream) : stream[i] = truth.bytes[i - base]

\* src tells for every place of the buffer which byte of the header it was copied
\* from: the buffer is the header read so far without its LFs, with a NUL for every
\* CR, in the same order, and runs with it from one NUL to the next.
Copied(src) ==
  LET b == truth.bytes IN
  /\ src[1] = 1 /\ hdr[Len(hdr)] = "NUL"
  /\ \A i, j \in 1..Len(hdr) : i < j => src[i] < src[j]
  /\ \A i \in 1..Len(hdr) : src[i] <= pos - base
  /\ \A i \in 1..Len(hdr) : hdr[i] = IF b[src[i]] = "CR" THEN "NUL" ELSE b[src[i]]
  /\ \A i, j \in 1..Len(hdr) :
       i <= j /\ (\A k \in i..j - 1 : hdr[k] # "NUL") => src[j] = src[i] + (j - i)
  /\ \A q \in 1..pos - base : b[q] \notin {"CR", "LF"} => \E i \in 1..Len(hdr) : src[i] = q

\* The buffer while the header is read and nothing has gone wrong; what is read
\* beyond the header is not looked into.  A buffer that is full ends the reading
\* before the empty line.
HeaderInv ==
  "cut" \notin flaws /\ (pc = "parse" \/ (pc = "header" /\ hdr # <<>>)) =>
    /\ truth \in Responses /\ hdr # <<>> /\ pos > base
    /\ pc = "parse" /\ pos = base + truth.head => Len(hdr) < BufLen
    /\ pos - base <= truth.head =>
         /\ truth.bytes[pos - base] = "LF"
         /\ \E src \in [1..Len(hdr) -> 1..truth.head] : Copied(src)

Sound(excuses) == flaws \cap excuses = {}

\* After the header the fields are the response's: the status always, the others
\* when the search finds them, and the length is what an int makes of it.
FieldsInv ==
  pc \in {"body", "chunk_line", "chunk_data", "chunk_crlf", "done"} /\ Sound({"cut"}) =>
    /\ truth \in Responses /\ code = truth.code
    /\ AsSearched(truth) => clen = ToInt(truth.length) /\ chunked = truth.chunked
    /\ Sound({"wrapped", "misled"}) => clen = truth.length /\ chunked = truth.chunked

\* The application has the first m bytes of the body.
Given(m) == Len(got) = m /\ \A i \in 1..m : got[i] = base + truth.body[i]

\* Where in the k-th chunk the client is.  Of the CRLF before a chunk's line the
\* LF may still be unread.
InChunk(k) ==
  LET c == truth.chunks[k] IN
  /\ pc = "chunk_line" =>
       Given(c.before) /\ (pos = base + c.line \/ (k > 1 /\ pos = base + c.line - 1))
  /\ pc = "chunk_data" =>
       c.size > 0 /\ want = c.size /\ Given(c.before) /\ pos = base + c.data
  /\ pc = "chunk_crlf" =>
       c.size > 0 /\ Given(c.before + c.size) /\ pos = base + c.data + c.size

\* What the application has of the body, and where the client stands in it.
BodyInv ==
  Sound({"cut", "torn", "fault", "wrapped", "misled"}) =>
    /\ pc \in {"idle", "send_header", "send_data", "header", "parse", "failed"} =>
         got = <<>>
    /\ pc = "body" =>
         /\ ~truth.chunked /\ Given(Len(got)) /\ Len(got) <= truth.length
         /\ pos = base + truth.head + Len(got)
    /\ pc \in {"chunk_line", "chunk_data", "chunk_crlf"} =>
         truth.chunked /\ \E k \in 1..Len(truth.chunks) : InChunk(k)
    /\ pc = "done" =>
         /\ Len(got) <= Len(truth.body) /\ Given(Len(got))
         /\ flaws = {} =>
              /\ Len(got) = Len(truth.body)
              /\ pos = base + Len(truth.bytes) - (IF truth.chunked THEN 2 ELSE 0)

LEMMA NoResponseIsNone == NoResponse \notin Responses
<1>1. Len(NoResponse.bytes) = 0
  BY DEF NoResponse
<1>2. \A r \in Responses : r.head \in 1..Len(r.bytes)
  BY ResponsesAssumption DEF ResponseType
<1> QED BY <1>1, <1>2

LEMMA ResponseFacts ==
  ASSUME NEW r \in Responses
  PROVE  /\ r.bytes \in Seq(Byte) /\ Len(r.bytes) \in Nat /\ r.head \in 1..Len(r.bytes)
         /\ r.code \in 0..IntHalf - 1 /\ r.length \in Nat /\ r.chunked \in BOOLEAN
         /\ r.body \in Seq(1..Len(r.bytes)) /\ r.chunks \in Seq(Chunk)
         /\ HeaderFormed(r)
         /\ r.chunked => ChunksFormed(r)
         /\ ~r.chunked => PlainFormed(r)
<1>1. ResponseType(r) /\ HeaderFormed(r) /\ IF r.chunked THEN ChunksFormed(r) ELSE PlainFormed(r)
  BY ResponsesAssumption
<1>2. Len(r.bytes) \in Nat
  BY <1>1 DEF ResponseType
<1> QED BY <1>1, <1>2 DEF ResponseType

LEMMA HeaderFacts ==
  ASSUME NEW r \in Responses
  PROVE  /\ r.bytes[1] = "H" /\ r.head \in Nat
         /\ \A p \in 1..r.head : r.bytes[p] # "NUL"
         /\ \A p \in 1..r.head - 1 : r.bytes[p] = "CR" <=> r.bytes[p + 1] = "LF"
         /\ r.bytes[r.head] = "LF" /\ r.bytes[r.head - 2] = "LF"
         /\ Field(r, "CL") = {} => r.length = 0
         /\ r.chunked = (Field(r, "TE") # {})
         /\ r.chunked => r.length = 0
<1>1. HeaderFormed(r) /\ r.head \in Nat
  BY ResponseFacts
<1> QED BY <1>1 DEF HeaderFormed

\* What the status line says, and a Content-Length line.
LEMMA LineFacts ==
  ASSUME NEW r \in Responses, NEW p \in 1..r.head, NEW q \in 1..r.head,
         LineEndsAt(r.bytes, p, q)
  PROVE  /\ p = 1 => Spells(SubSeq(r.bytes, 2, q - 1), r.code)
         /\ p \in Field(r, "CL") =>
              \E i \in 1..q - 1 :
                TextAt(r.bytes, p, i) /\ Spells(SubSeq(r.bytes, i, q - 1), r.length)
<1>1. HeaderFormed(r)
  BY ResponseFacts
<1> QED BY <1>1 DEF HeaderFormed

\* The client only reads from the wire.
LEMMA ClientKeepsWire ==
  ASSUME Client \/ StatusGet \/ UNCHANGED vars
  PROVE  UNCHANGED <<link, stream, truth, base>>
<1>1. CASE SendHeader \/ SendData
  BY <1>1 DEF SendHeader, SendData, SendThen, wire
<1>2. CASE ReadHeaderLine \/ Parse
  BY <1>2 DEF ReadHeaderLine, StoreLine, Parse, Understand, wire
<1>3. CASE RecvNormal \/ NoLineBuffer
  BY <1>3 DEF RecvNormal, NormalUntil, Deliver, NoLineBuffer, wire
<1>4. CASE ChunkLine \/ ChunkCrlf
  BY <1>4 DEF ChunkLine, ChunkCrlf, wire
<1>5. CASE ChunkData
  BY <1>5 DEF ChunkData, ChunkBytes, Deliver, wire
<1>6. CASE StatusGet \/ UNCHANGED vars
  BY <1>6 DEF StatusGet, StatusReads, vars, wire
<1> QED BY <1>1, <1>2, <1>3, <1>4, <1>5, <1>6 DEF Client

LEMMA WireKept ==
  ASSUME TypeInv, WireInv, [Next]_vars
  PROVE  WireInv'
<1>0. /\ stream \in Seq(Byte) /\ pos \in 0..Len(stream) /\ base \in Nat
      /\ truth \in Responses \cup {NoResponse}
  BY DEF TypeInv, TypeOK
<1>1. CASE StartRequest
  BY <1>1 DEF StartRequest, WireInv
<1>2. CASE Answer
  <2>1. PICK r \in Responses : truth' = r /\ base' = Len(stream) /\ stream' = stream \o r.bytes
    BY <1>2 DEF Answer
  <2>2. r.bytes \in Seq(Byte)
    BY ResponseFacts
  <2> DEFINE b == r.bytes
  <2> HIDE DEF b
  <2>3. b \in Seq(Byte) /\ stream' = stream \o b
    BY <2>1, <2>2 DEF b
  <2>4. /\ Len(stream') = Len(stream) + Len(b)
        /\ \A i \in 1..Len(stream) + Len(b) :
             stream'[i] = IF i <= Len(stream) THEN stream[i] ELSE b[i - Len(stream)]
    BY <1>0, <2>3, ConcatProperties
  <2>5. Len(stream) \in Nat /\ Len(b) \in Nat
    BY <1>0, <2>3
  <2>6. \A i \in Len(stream) + 1..Len(stream') : stream'[i] = b[i - Len(stream)]
    BY <2>4, <2>5
  <2>7. Len(stream') <= Len(stream) + Len(b)
    BY <2>4, <2>5
  <2>8. truth'.bytes = b
    BY <2>1 DEF b
  <2> QED BY <2>1, <2>4, <2>6, <2>7, <2>8 DEF WireInv
<1>3. CASE Close
  <2>1. PICK n \in pos..Len(stream) :
          stream' = SubSeq(stream, 1, n) /\ link' = "closed" /\ UNCHANGED <<truth, base>>
    BY <1>3 DEF Close
  <2>2. Len(stream') = n /\ \A i \in 1..n : stream'[i] = stream[i]
    BY <1>0, <2>1
  <2>3. ASSUME truth # NoResponse
        PROVE  /\ Len(stream') <= base + Len(truth.bytes)
               /\ \A i \in base + 1..Len(stream') : stream'[i] = truth.bytes[i - base]
    <3>1. truth \in Responses
      BY <1>0, <2>3
    <3>2. Len(truth.bytes) \in Nat
      BY <3>1, ResponseFacts
    <3>3. n \in Nat /\ n <= Len(stream) /\ Len(stream) <= base + Len(truth.bytes)
      BY <1>0, <2>1, <2>3 DEF WireInv
    <3>4. \A i \in base + 1..n : stream[i] = truth.bytes[i - base]
      BY <1>0, <2>3, <3>3 DEF WireInv
    <3>5. Len(stream') <= base + Len(truth.bytes)
      <4> DEFINE x == Len(truth.bytes)
                 y == Len(stream)
      <4>1. n <= y /\ y <= base + x /\ x \in Nat /\ y \in Nat /\ n \in Nat /\ base \in Nat
        BY <1>0, <3>2, <3>3
      <4> HIDE DEF x, y
      <4>2. n <= base + x
        BY ONLY <4>1
      <4> QED BY <2>2, <4>2 DEF x
    <3>6. ASSUME NEW i \in base + 1..Len(stream') PROVE stream'[i] = truth.bytes[i - base]
      <4>1. i \in base + 1..n /\ i \in 1..n
        BY <1>0, <2>2, <3>3, <3>6
      <4> QED BY <2>2, <3>4, <4>1
    <3> QED BY <3>5, <3>6
  <2> QED BY <2>1, <2>3 DEF WireInv
<1>4. CASE Client \/ StatusGet \/ UNCHANGED vars
  BY <1>4, ClientKeepsWire DEF WireInv
<1> QED BY <1>1, <1>2, <1>3, <1>4 DEF Next

-----------------------------------------------------------------------------
(* The header *)

\* The line the client is about to read, when all went well so far: it is the
\* response's, it is not empty at the beginning, and it holds neither CR nor LF.
LEMMA NextLine ==
  ASSUME TypeInv, WireInv, HeaderInv, pc = "header", "cut" \notin flaws,
         hdr = <<>> => AtItsBeginning, LineEnd # 0
  PROVE  /\ truth \in Responses /\ base <= pos /\ LineEnd \in pos + 2..Len(stream)
         /\ hdr = <<>> => stream[pos + 1] # "CR" /\ pos = base
         /\ hdr # <<>> => pos > base
         /\ \A i \in pos + 1..Len(stream) : stream[i] = truth.bytes[i - base]
         /\ LineEnd - base <= truth.head =>
              /\ truth.bytes[LineEnd - base] = "LF" /\ truth.bytes[LineEnd - 1 - base] = "CR"
              /\ \A q \in pos + 1..LineEnd - 2 : truth.bytes[q - base] \notin {"CR", "LF"}
<1> DEFINE e == LineEnd
           b == truth.bytes
<1>0. /\ stream \in Seq(Byte) /\ pos \in 0..Len(stream) /\ base \in Nat
      /\ truth \in Responses \cup {NoResponse}
  BY DEF TypeInv, TypeOK
<1>1. /\ e \in pos + 2..Len(stream) /\ stream[e] = "LF" /\ stream[e - 1] = "CR"
      /\ \A q \in pos + 2..e - 1 : ~(stream[q] = "LF" /\ stream[q - 1] = "CR")
  BY <1>0, LineEndIs
<1> HIDE DEF e
<1>2. truth \in Responses /\ base <= pos
  BY <1>0 DEF AtItsBeginning, HeaderInv
<1>3. hdr = <<>> => pos = base
  BY DEF AtItsBeginning
<1>4. hdr # <<>> => pos > base
  BY DEF HeaderInv
<1>5. \A i \in pos + 1..Len(stream) : stream[i] = b[i - base]
  BY <1>0, <1>2, NoResponseIsNone DEF WireInv
<1>6. /\ b[1] = "H" /\ truth.head \in Nat
      /\ \A p \in 1..truth.head - 1 : b[p] = "CR" <=> b[p + 1] = "LF"
  BY <1>2, HeaderFacts
<1>7. hdr = <<>> => stream[pos + 1] # "CR"
  <2> SUFFICES ASSUME hdr = <<>> PROVE stream[pos + 1] # "CR"
    OBVIOUS
  <2>1. pos + 1 \in pos + 1..Len(stream) /\ pos + 1 - base = 1
    <3>1. pos + 2 <= Len(stream) /\ pos = base
      BY <1>0, <1>1, <1>3
    <3> QED BY ONLY <1>0, <3>1
  <2> DEFINE j == pos + 1
  <2>2. stream[j] = b[j - base]
    <3>1. j \in pos + 1..Len(stream)
      BY <2>1
    <3> HIDE DEF j
    <3> QED BY <1>5, <3>1
  <2>3. j - base = 1
    BY <1>0, <1>3
  <2>4. stream[j] = "H"
    BY ONLY <1>6, <2>2, <2>3
  <2> QED BY <2>4
<1>8. ASSUME e - base <= truth.head
      PROVE  /\ b[e - base] = "LF" /\ b[e - 1 - base] = "CR"
             /\ \A q \in pos + 1..e - 2 : b[q - base] \notin {"CR", "LF"}
  <2>1. b[e - base] = "LF" /\ b[e - 1 - base] = "CR"
    BY <1>0, <1>1, <1>5
  <2>2. ASSUME NEW q \in pos + 1..e - 2, b[q - base] = "CR" PROVE FALSE
    <3>1. q - base \in 1..truth.head - 1
      BY <1>0, <1>1, <1>2, <1>6, <1>8, <2>2
    <3>2. b[q - base + 1] = "LF"
      BY <1>6, <2>2, <3>1
    <3>3. q + 1 \in pos + 2..e - 1 /\ q + 1 \in pos + 1..Len(stream) /\ q \in pos + 1..Len(stream)
      BY <1>0, <1>1, <2>2
    <3>4. stream[q] = b[q - base] /\ stream[q + 1] = b[q + 1 - base]
      <4>1. stream[q] = b[q - base]
        BY <1>5, <3>3
      <4> DEFINE j == q + 1
      <4>2. stream[j] = b[j - base]
        <5>1. j \in pos + 1..Len(stream)
          BY <3>3
        <5> HIDE DEF j
        <5> QED BY <1>5, <5>1
      <4>3. stream[q + 1] = b[q + 1 - base]
        BY ONLY <1>0, q \in Int, <4>2
      <4> QED BY <4>1, <4>3
    <3>5. q + 1 - base = q - base + 1 /\ (q + 1) - 1 = q
      BY <1>0, <2>2
    <3> QED BY <1>1, <2>2, <3>2, <3>3, <3>4, <3>5
  <2>3. ASSUME NEW q \in pos + 1..e - 2, b[q - base] = "LF" PROVE FALSE
    <3>1. q \in Int /\ e \in Int /\ truth.head \in Nat
      BY <1>0, <1>1, <1>6, <2>3
    <3>2. CASE q - base = 1
      BY <1>6, <2>3, <3>2
    <3>3. CASE q - base # 1
      <4> DEFINE h == truth.head
      <4>0. /\ h \in Nat /\ q \in Int /\ e \in Int /\ base \in Nat /\ pos \in Nat
            /\ q \in pos + 1..e - 2 /\ e - base <= h /\ base <= pos
        BY <1>0, <1>2, <1>8, <2>3, <3>1
      <4> HIDE DEF h
      <4>1. q - 1 - base \in 1..h - 1 /\ q - 1 - base + 1 = q - base
        BY ONLY <4>0, <3>3
      <4>2. b[q - 1 - base] = "CR"
        BY <1>6, <2>3, <4>1 DEF h
      <4>3. CASE q = pos + 1
        <5>1. pos > base
          BY <1>0, <1>2, <3>3, <4>3
        <5>2. hdr # <<>>
          BY <1>0, <1>3, <5>1
        <5>3. pos - base <= truth.head
          BY <1>0, <1>1, <1>8, <3>1
        <5>4. b[pos - base] = "LF"
          BY <5>2, <5>3 DEF HeaderInv
        <5>5. q - 1 - base = pos - base
          BY <1>0, <4>3
        <5> QED BY <4>2, <5>4, <5>5
      <4>4. CASE q # pos + 1
        <5>1. q - 1 \in pos + 1..e - 2
          BY <1>0, <2>3, <3>1, <4>4
        <5> QED BY <2>2, <4>2, <5>1
      <4> QED BY <4>3, <4>4
    <3> QED BY <3>2, <3>3
  <2> QED BY <2>1, <2>2, <2>3
<1> QED BY <1>1, <1>2, <1>3, <1>4, <1>5, <1>7, <1>8 DEF e

\* A line copied into the buffer keeps the correspondence with the header.
LEMMA LineCopied ==
  ASSUME TypeInv, WireInv, HeaderInv, pc = "header", "cut" \notin flaws,
         hdr = <<>> => AtItsBeginning, LineEnd # 0,
         NEW l, l.count = LineEnd - pos - 1, l.count # 1, pos' = LineEnd,
         hdr' = hdr \o Stored(l) \o <<"NUL">>, UNCHANGED <<truth, base>>,
         pos' - base <= truth.head
  PROVE  hdr' # <<>> /\ \E src \in [1..Len(hdr') -> 1..truth.head] : Copied(src)'
<1> DEFINE b == truth.bytes
           h == truth.head
           n == Len(hdr)
           m == pos - base
           c == l.count
           s == Stored(l)
<1>0. /\ stream \in Seq(Byte) /\ pos \in 0..Len(stream) /\ base \in Nat /\ hdr \in Seq(Byte)
      /\ n \in Nat
  BY DEF TypeInv, TypeOK
<1>1. /\ truth \in Responses /\ base <= pos /\ LineEnd \in pos + 2..Len(stream)
      /\ hdr = <<>> => pos = base
      /\ hdr # <<>> => pos > base
      /\ \A i \in pos + 1..Len(stream) : stream[i] = b[i - base]
      /\ b[LineEnd - base] = "LF" /\ b[LineEnd - 1 - base] = "CR"
      /\ \A q \in pos + 1..LineEnd - 2 : b[q - base] \notin {"CR", "LF"}
  BY NextLine
<1>2. h \in Nat /\ \A p \in 1..h : b[p] # "NUL"
  BY <1>1, HeaderFacts
<1>3. c \in Nat /\ c >= 2 /\ m \in Nat /\ m + c + 1 <= h /\ LineEnd = base + m + c + 1
      /\ pos = base + m /\ c <= Len(stream) - pos
  <2> DEFINE e == LineEnd
  <2>1. /\ e \in pos + 2..Len(stream) /\ c = e - pos - 1 /\ c # 1 /\ e - base <= h
        /\ base <= pos
    BY <1>1
  <2> HIDE DEF e, c, h
  <2>2. e \in Int /\ e >= pos + 2 /\ e <= Len(stream) /\ Len(stream) \in Nat /\ pos \in Nat
    BY <1>0, <2>1
  <2>3. c \in Nat /\ c >= 2 /\ e = base + m + c + 1 /\ pos = base + m /\ m \in Nat
    BY <1>0, <2>1, <2>2
  <2>4. m + c + 1 <= h
    BY <1>0, <1>2, <2>1, <2>3
  <2>5. c <= Len(stream) - pos
    BY <1>0, <2>1, <2>2
  <2> QED BY <2>3, <2>4, <2>5 DEF e
<1>4. /\ s \in Seq(Byte) /\ Len(s) = c - 1
      /\ \A i \in 1..c - 1 : s[i] = stream[pos + i]
  <2>1. /\ s \in Seq(Byte) /\ Len(s) = (IF c = 0 THEN 0 ELSE c - 1)
        /\ \A i \in 1..c - 1 : s[i] = stream[pos + i]
    BY <1>0, <1>3, StoredType
  <2> HIDE DEF s, c
  <2> QED BY <1>3, <2>1
<1>5. \A i \in 1..c - 1 : s[i] = b[m + i] /\ b[m + i] \notin {"CR", "LF", "NUL"}
  <2> TAKE i \in 1..c - 1
  <2>1. pos + i \in pos + 1..Len(stream) /\ pos + i \in pos + 1..LineEnd - 2
        /\ (pos + i) - base = m + i /\ m + i \in 1..h
    BY <1>0, <1>2, <1>3
  <2>2. stream[pos + i] = b[(pos + i) - base] /\ b[(pos + i) - base] \notin {"CR", "LF"}
    BY ONLY <1>1, <2>1
  <2>3. b[m + i] # "NUL"
    BY ONLY <1>2, <2>1
  <2>4. s[i] = stream[pos + i]
    BY <1>4
  <2> QED BY ONLY <2>1, <2>2, <2>3, <2>4
<1>6. b[m + c] = "CR" /\ b[m + c + 1] = "LF"
  <2>1. LineEnd - 1 - base = m + c /\ LineEnd - base = m + c + 1
    BY <1>0, <1>3
  <2> QED BY <1>1, <2>1
<1>7. /\ hdr' \in Seq(Byte) /\ Len(hdr') = n + c
      /\ \A i \in 1..n : hdr'[i] = hdr[i]
      /\ \A i \in 1..c - 1 : hdr'[n + i] = b[m + i]
      /\ hdr'[n + c] = "NUL"
  <2>1. "NUL" \in Byte
    BY DEF Byte
  <2> HIDE DEF s
  <2> DEFINE w == hdr \o s \o <<"NUL">>
  <2>2. /\ w \in Seq(Byte) /\ Len(w) = n + Len(s) + 1
        /\ \A i \in 1..n : w[i] = hdr[i]
        /\ \A i \in 1..Len(s) : w[n + i] = s[i]
        /\ w[n + Len(s) + 1] = "NUL"
    <3>1. hdr \in Seq(Byte) /\ s \in Seq(Byte)
      BY <1>0, <1>4
    <3> QED BY ONLY <2>1, <3>1, Joined
  <2>3. hdr' = w
    BY DEF s
  <2> HIDE DEF w, n, c
  <2>4. Len(s) = c - 1 /\ n + Len(s) + 1 = n + c
    BY ONLY <1>0, <1>3, <1>4
  <2>5. \A i \in 1..c - 1 : w[n + i] = b[m + i]
    BY <1>5, <2>2, <2>4
  <2> QED BY <2>2, <2>3, <2>4, <2>5
<1> HIDE DEF s, n, m, c, h
<1>8. \E src \in [1..n -> 1..h] : n # 0 => Copied(src)
  <2>1. CASE n = 0
    <3>1. [i \in 1..n |-> 1] \in [1..n -> 1..h]
      BY <2>1
    <3> QED BY <2>1, <3>1
  <2>2. CASE n # 0
    <3>1. hdr # <<>>
      BY <2>2 DEF n
    <3>2. pos - base <= truth.head
      BY <1>0, <1>2, <1>3 DEF h
    <3> QED BY <3>1, <3>2 DEF HeaderInv, n, h
  <2> QED BY <2>1, <2>2
<1>9. PICK src \in [1..n -> 1..h] : n # 0 => Copied(src)
  BY <1>8
<1>10. n = 0 => m = 0
  BY <1>0, <1>1 DEF n, m
<1>11. \E f \in [1..n + c -> 1..h] :
          (\A i \in 1..n : f[i] = src[i]) /\ (\A i \in 1..c : f[n + i] = m + i)
  <2> DEFINE f == [i \in 1..n + c |-> IF i <= n THEN src[i] ELSE m + (i - n)]
  <2>1. \A i \in 1..n + c : (IF i <= n THEN src[i] ELSE m + (i - n)) \in 1..h
    BY <1>0, <1>2, <1>3, <1>9
  <2>2. f \in [1..n + c -> 1..h]
    BY <2>1
  <2>3. (\A i \in 1..n : f[i] = src[i]) /\ (\A i \in 1..c : f[n + i] = m + i)
    BY <1>0, <1>3
  <2> HIDE DEF f
  <2> QED BY <2>2, <2>3
<1>12. PICK new \in [1..n + c -> 1..h] :
          (\A i \in 1..n : new[i] = src[i]) /\ (\A i \in 1..c : new[n + i] = m + i)
  BY <1>11
<1>13. new[1] = 1
  <2>1. CASE n = 0
    BY <1>3, <1>10, <1>12, <2>1
  <2>2. CASE n # 0
    BY <1>0, <1>9, <1>12, <2>2 DEF Copied
  <2> QED BY <2>1, <2>2
<1>14. \A i \in 1..n + c : hdr'[i] = IF b[new[i]] = "CR" THEN "NUL" ELSE b[new[i]]
  <2> TAKE i \in 1..n + c
  <2>1. CASE i <= n
    <3>1. hdr[i] = IF b[src[i]] = "CR" THEN "NUL" ELSE b[src[i]]
      BY <1>0, <1>9, <2>1 DEF Copied, n
    <3>2. i \in 1..n
      BY <1>0, <1>3, <2>1
    <3>3. hdr'[i] = hdr[i] /\ new[i] = src[i]
      BY ONLY <1>7, <1>12, <3>2
    <3> QED BY ONLY <3>1, <3>3
  <2>2. CASE i > n /\ i < n + c
    <3> DEFINE j == i - n
    <3>1. j \in 1..c - 1 /\ j \in 1..c /\ i = n + j
      BY <1>0, <1>3, <2>2
    <3> HIDE DEF j
    <3> QED BY <1>5, <1>7, <1>12, <3>1
  <2>3. CASE i = n + c
    <3>1. new[n + c] = m + c
      BY <1>3, <1>12
    <3> QED BY <1>6, <1>7, <2>3, <3>1
  <2>4. i <= n \/ (i > n /\ i < n + c) \/ i = n + c
    BY ONLY i \in 1..n + c, <1>0, <1>3
  <2> QED BY ONLY <2>1, <2>2, <2>3, <2>4
<1>15. \A i, j \in 1..n + c :
         i <= j /\ (\A k \in i..j - 1 : hdr'[k] # "NUL") => new[j] = new[i] + (j - i)
  <2> TAKE i, j \in 1..n + c
  <2> HAVE i <= j /\ (\A k \in i..j - 1 : hdr'[k] # "NUL")
  <2>1. CASE j <= n
    <3>1. i \in 1..n /\ j \in 1..n /\ n # 0
      BY <1>0, <2>1
    <3>2. \A k \in i..j - 1 : hdr[k] # "NUL"
      <4> TAKE k \in i..j - 1
      <4>1. k \in 1..n
        BY <1>0, <3>1
      <4>2. hdr'[k] = hdr[k]
        BY ONLY <1>7, <4>1
      <4> QED BY <4>2
    <3>3. src[j] = src[i] + (j - i)
      BY <1>9, <3>1, <3>2 DEF Copied, n
    <3> QED BY <1>12, <3>1, <3>3
  <2>2. CASE i > n
    <3>1. i - n \in 1..c /\ j - n \in 1..c /\ i = n + (i - n) /\ j = n + (j - n)
      BY <1>0, <1>3, <2>2
    <3>2. new[i] = m + (i - n) /\ new[j] = m + (j - n)
      BY <1>12, <3>1
    <3> QED BY <1>0, <1>3, <3>2
  <2>3. CASE i <= n /\ j > n
    <3>1. n \in i..j - 1 /\ n \in 1..n /\ n # 0
      BY <1>0, <2>3
    <3>2. hdr'[n] = "NUL"
      BY <1>7, <1>9, <3>1 DEF Copied, n
    <3> QED BY <3>1, <3>2
  <2> QED BY <1>0, <2>1, <2>2, <2>3
<1>16. /\ \A i, j \in 1..n + c : i < j => new[i] < new[j]
       /\ \A i \in 1..n + c : new[i] <= m + c + 1
  <2>1. \A i \in 1..n : new[i] \in 1..m
    <3> TAKE i \in 1..n
    <3>1. n # 0 /\ pos - base = m
      BY <1>0, <1>3
    <3>2. src[i] <= m /\ src[i] \in 1..h
      BY <1>9, <3>1 DEF Copied, n
    <3>3. new[i] = src[i]
      BY <1>12
    <3>4. src[i] \in 1..m
      <4>1. h \in Nat /\ m \in Nat
        BY <1>2, <1>3
      <4> QED BY ONLY <3>2, <4>1
    <3> QED BY <3>3, <3>4
  <2>2. \A i \in n + 1..n + c : new[i] = m + (i - n)
    <3> TAKE i \in n + 1..n + c
    <3>1. i - n \in 1..c /\ n + (i - n) = i
      BY <1>0, <1>3
    <3> QED BY <1>12, <3>1
  <2>3. \A i \in 1..n + c : i \in 1..n \/ i \in n + 1..n + c
    BY <1>0, <1>3
  <2>4. ASSUME NEW i \in 1..n + c, NEW j \in 1..n + c, i < j PROVE new[i] < new[j]
    <3>1. CASE j <= n
      <4>1. i \in 1..n /\ j \in 1..n /\ n # 0
        BY <1>0, <1>3, <2>4, <3>1
      <4>2. src[i] < src[j]
        BY <1>9, <2>4, <4>1 DEF Copied, n
      <4> QED BY <1>12, <4>1, <4>2
    <3>2. CASE j > n /\ i <= n
      <4>1. new[i] \in 1..m /\ new[j] = m + (j - n)
        BY <1>0, <1>3, <2>1, <2>2, <3>2
      <4> QED BY <1>0, <1>3, <3>2, <4>1
    <3>3. CASE j > n /\ i > n
      <4>1. new[i] = m + (i - n) /\ new[j] = m + (j - n)
        BY <1>0, <1>3, <2>2, <3>3
      <4> QED BY <1>0, <1>3, <2>4, <4>1
    <3> QED BY <1>0, <1>3, <3>1, <3>2, <3>3
  <2>5. ASSUME NEW i \in 1..n + c PROVE new[i] <= m + c + 1
    <3>1. CASE i \in 1..n
      BY <1>3, <2>1, <3>1
    <3>2. CASE i \in n + 1..n + c
      BY <1>0, <1>3, <2>2, <3>2
    <3> QED BY <2>3, <3>1, <3>2
  <2> QED BY <2>4, <2>5
<1>17. \A q \in 1..m + c + 1 : b[q] \notin {"CR", "LF"} => \E i \in 1..n + c : new[i] = q
  <2> TAKE q \in 1..m + c + 1
  <2> HAVE b[q] \notin {"CR", "LF"}
  <2>1. CASE q <= m
    <3>1. q \in 1..pos - base /\ n # 0
      BY <1>0, <1>3, <1>10, <2>1
    <3>2. PICK i \in 1..n : src[i] = q
      BY <1>9, <3>1 DEF Copied, n
    <3>3. new[i] = q /\ i \in 1..n + c
      <4>1. i \in 1..n + c
        BY ONLY <1>0, <1>3, i \in 1..n
      <4>2. new[i] = src[i]
        BY ONLY <1>12, i \in 1..n
      <4> QED BY <3>2, <4>1, <4>2
    <3> QED BY <3>3
  <2>2. CASE q > m
    <3>1. q # m + c /\ q # m + c + 1
      BY <1>6
    <3>2. q - m \in 1..c /\ m + (q - m) = q /\ n + (q - m) \in 1..n + c
      BY <1>0, <1>3, <2>2, <3>1
    <3>3. new[n + (q - m)] = q
      BY <1>12, <3>2
    <3> QED BY <3>2, <3>3
  <2> QED BY <1>3, <2>1, <2>2
<1>18. pos' - base' = m + c + 1 /\ truth'.bytes = b
  BY <1>0, <1>3
<1>19. Len(hdr') = n + c /\ hdr'[Len(hdr')] = "NUL"
  BY <1>7
<1>20. Copied(new)'
  <2> DEFINE N == Len(hdr')
             B == truth'.bytes
  <2>1. N = n + c /\ B = b /\ hdr'[N] = "NUL"
    BY <1>18, <1>19
  <2> HIDE DEF N, B
  <2>2. \A i \in 1..N : hdr'[i] = IF B[new[i]] = "CR" THEN "NUL" ELSE B[new[i]]
    BY <1>14, <2>1
  <2>3. \A i, j \in 1..N :
          i <= j /\ (\A k \in i..j - 1 : hdr'[k] # "NUL") => new[j] = new[i] + (j - i)
    BY <1>15, <2>1
  <2>4. \A q \in 1..pos' - base' : B[q] \notin {"CR", "LF"} => \E i \in 1..N : new[i] = q
    BY <1>17, <1>18, <2>1
  <2>5. /\ \A i, j \in 1..N : i < j => new[i] < new[j]
        /\ \A i \in 1..N : new[i] <= pos' - base'
    BY <1>18, <1>16, <2>1
  <2> QED BY ONLY <1>13, <2>1, <2>2, <2>3, <2>4, <2>5 DEF Copied, N, B
<1>21. hdr' # <<>>
  BY <1>0, <1>3, <1>19
<1>22. new \in [1..Len(hdr') -> 1..truth.head]
  BY <1>12, <1>19 DEF h
<1> QED BY <1>20, <1>21, <1>22

\* What one line does to the buffer, when it was read whole.
LEMMA WholeLine ==
  ASSUME TypeInv, ReadHeaderLine, "cut" \notin flaws'
  PROVE  /\ pc = "header" /\ "cut" \notin flaws /\ (hdr = <<>> => AtItsBeginning)
         /\ LineEnd # 0 /\ pos' = LineEnd /\ pos' \in Nat
         /\ UNCHANGED <<truth, base>>
         /\ \/ LineEnd = pos + 2 /\ stream[pos + 1] = "CR" /\ hdr' = hdr
            \/ \E l : /\ l.count = LineEnd - pos - 1 /\ l.count # 1
                      /\ hdr' = hdr \o Stored(l) \o <<"NUL">>
<1> DEFINE room == BufLen - Len(hdr)
<1>0. stream \in Seq(Byte) /\ pos \in 0..Len(stream) /\ hdr \in Seq(Byte)
  BY DEF TypeInv, TypeOK
<1>1. PICK l \in ReadOneLine(room) :
        LET ends == l.count = 0 \/ IsBlank(l) IN
        /\ pc = "header" /\ pos' = l.pos
        /\ hdr' = (IF ends THEN hdr ELSE hdr \o Stored(l) \o <<"NUL">>)
        /\ pc' = (IF ends \/ Len(hdr') >= BufLen THEN "parse" ELSE "header")
        /\ flaws' = flaws \cup {f \in {"cut"} : ~l.whole \/ (hdr = <<>> /\ ~AtItsBeginning)}
        /\ UNCHANGED wire
  BY DEF ReadHeaderLine, StoreLine
<1>2. room \in Nat \ {0}
  BY <1>0, <1>1, SizesAssumption DEF TypeInv
<1>3. l.whole /\ (hdr = <<>> => AtItsBeginning) /\ "cut" \notin flaws
  BY <1>1
<1>4. LineEnd # 0 /\ l.pos = LineEnd /\ l.count = LineEnd - pos - 1
  BY <1>0, <1>1, <1>2, <1>3, LineRead
<1>5. LineEnd \in pos + 2..Len(stream) /\ stream[LineEnd - 1] = "CR"
  BY <1>0, <1>4, LineEndIs
<1>6. UNCHANGED <<truth, base>>
  BY <1>1 DEF wire
<1>7. pos' \in Nat
  <2> DEFINE e == LineEnd
  <2>1. e \in pos + 2..Len(stream)
    BY <1>5
  <2> HIDE DEF e
  <2>2. e \in Nat
    BY <1>0, <2>1
  <2> QED BY <1>1, <1>4, <2>2 DEF e
<1>8. CASE l.count = 1
  <2>1. LineEnd = pos + 2 /\ LineEnd - 1 = pos + 1
    <3> DEFINE e == LineEnd
    <3>1. e \in pos + 2..Len(stream) /\ 1 = e - pos - 1
      BY <1>4, <1>5, <1>8
    <3> HIDE DEF e
    <3>2. e = pos + 2 /\ e - 1 = pos + 1
      BY <1>0, <3>1
    <3> QED BY <3>2 DEF e
  <2>2. IsBlank(l) /\ stream[pos + 1] = "CR"
    BY <1>5, <1>8, <2>1 DEF IsBlank
  <2>3. hdr' = hdr
    BY <1>1, <2>2
  <2> QED BY <1>1, <1>3, <1>4, <1>6, <1>7, <2>1, <2>2, <2>3
<1>9. CASE l.count # 1
  <2>1. l.count # 0
    <3> DEFINE e == LineEnd
    <3>1. e \in pos + 2..Len(stream) /\ l.count = e - pos - 1
      BY <1>4, <1>5
    <3> HIDE DEF e
    <3> QED BY <1>0, <3>1
  <2>2. ~(l.count = 0 \/ IsBlank(l))
    BY <1>9, <2>1 DEF IsBlank
  <2>3. hdr' = hdr \o Stored(l) \o <<"NUL">>
    BY <1>1, <2>2
  <2>4. \E k : /\ k.count = LineEnd - pos - 1 /\ k.count # 1
               /\ hdr' = hdr \o Stored(k) \o <<"NUL">>
    BY <1>4, <1>9, <2>3
  <2> QED BY <1>1, <1>3, <1>4, <1>6, <1>7, <2>4
<1> QED BY <1>8, <1>9

\* The empty line adds nothing to the buffer.
LEMMA CopiedFurther ==
  ASSUME NEW src, Copied(src), UNCHANGED <<hdr, truth, base>>,
         \A i \in 1..Len(hdr) : src[i] <= pos' - base',
         \A q \in 1..pos' - base' :
           truth.bytes[q] \notin {"CR", "LF"} => \E i \in 1..Len(hdr) : src[i] = q
  PROVE  Copied(src)'
BY DEF Copied

\* Reading a line, empty or not, keeps what is known of the buffer.
LEMMA LineKeepsHeader ==
  ASSUME TypeInv, WireInv, HeaderInv, ReadHeaderLine, "cut" \notin flaws'
  PROVE  /\ truth' \in Responses /\ hdr' # <<>> /\ pos' > base'
         /\ pos' = base' + truth'.head => Len(hdr') < BufLen
         /\ pos' - base' <= truth'.head =>
              /\ truth'.bytes[pos' - base'] = "LF"
              /\ (\E src \in [1..Len(hdr) -> 1..truth.head] : Copied(src))'
<1> DEFINE e == LineEnd
           b == truth.bytes
<1>0. /\ stream \in Seq(Byte) /\ pos \in 0..Len(stream) /\ base \in Nat /\ hdr \in Seq(Byte)
  BY DEF TypeInv, TypeOK
<1>1. /\ pc = "header" /\ "cut" \notin flaws /\ (hdr = <<>> => AtItsBeginning)
      /\ e # 0 /\ pos' = e /\ pos' \in Nat /\ UNCHANGED <<truth, base>>
      /\ \/ e = pos + 2 /\ stream[pos + 1] = "CR" /\ hdr' = hdr
         \/ \E l : /\ l.count = e - pos - 1 /\ l.count # 1
                   /\ hdr' = hdr \o Stored(l) \o <<"NUL">>
  BY WholeLine
<1>2. /\ truth \in Responses /\ base <= pos /\ e \in pos + 2..Len(stream)
      /\ hdr = <<>> => stream[pos + 1] # "CR"
      /\ hdr # <<>> => pos > base
      /\ \A i \in pos + 1..Len(stream) : stream[i] = b[i - base]
      /\ e - base <= truth.head =>
           /\ b[e - base] = "LF" /\ b[e - 1 - base] = "CR"
           /\ \A q \in pos + 1..e - 2 : b[q - base] \notin {"CR", "LF"}
  BY <1>1, NextLine
<1> HIDE DEF e
<1>3. truth.head \in Nat /\ b[truth.head - 2] = "LF"
  BY <1>2, HeaderFacts
<1>4. pos' > base'
  BY <1>0, <1>1, <1>2
<1>5. CASE e = pos + 2 /\ stream[pos + 1] = "CR" /\ hdr' = hdr
  <2>1. hdr # <<>>
    BY <1>2, <1>5
  <2> SUFFICES ASSUME pos' - base' <= truth'.head
               PROVE  /\ truth'.bytes[pos' - base'] = "LF"
                      /\ (\E src \in [1..Len(hdr) -> 1..truth.head] : Copied(src))'
    BY <1>1, <1>2, <1>4, <1>5, <2>1 DEF TypeInv
  <2>2. e - base <= truth.head /\ pos - base <= truth.head /\ pos' - base' = e - base
    <3>1. e - base <= truth.head /\ pos' - base' = e - base
      BY <1>1
    <3> QED BY <1>0, <1>2, <1>3, <1>5, <3>1
  <2>3. b[e - base] = "LF" /\ b[e - 1 - base] = "CR"
    BY <1>2, <2>2
  <2>4. PICK src \in [1..Len(hdr) -> 1..truth.head] : Copied(src)
    BY <1>1, <2>1, <2>2 DEF HeaderInv
  <2>5. \A q \in 1..e - base : b[q] \notin {"CR", "LF"} => \E i \in 1..Len(hdr) : src[i] = q
    <3> TAKE q \in 1..e - base
    <3> HAVE b[q] \notin {"CR", "LF"}
    <3>1. q # e - base /\ q # e - 1 - base
      BY <2>3
    <3>2. pos \in Int /\ e = pos + 2 /\ base \in Nat
      BY <1>0, <1>5
    <3>3. q \in 1..pos - base
      BY ONLY q \in 1..e - base, <3>1, <3>2
    <3> QED BY <2>4, <3>3 DEF Copied
  <2>6. Copied(src)'
    <3>1. UNCHANGED <<hdr, truth, base>> /\ pos' - base' = e - base
      BY <1>1, <1>5, <2>2
    <3>2. \A i \in 1..Len(hdr) : src[i] <= pos' - base'
      <4> TAKE i \in 1..Len(hdr)
      <4>1. src[i] <= pos - base /\ src[i] \in 1..truth.head
        BY <2>4 DEF Copied
      <4>2. pos \in Int /\ base \in Nat /\ src[i] \in Int /\ e = pos + 2
        BY <1>0, <1>3, <1>5, <4>1
      <4>3. src[i] <= e - base
        BY ONLY <4>1, <4>2
      <4> QED BY <3>1, <4>3
    <3> QED BY <2>4, <2>5, <3>1, <3>2, CopiedFurther
  <2> QED BY <1>1, <1>5, <2>2, <2>3, <2>4, <2>6
<1>6. CASE \E l : /\ l.count = e - pos - 1 /\ l.count # 1
                  /\ hdr' = hdr \o Stored(l) \o <<"NUL">>
  <2>1. PICK l : l.count = e - pos - 1 /\ l.count # 1 /\ hdr' = hdr \o Stored(l) \o <<"NUL">>
    BY <1>6
  <2>2. hdr' # <<>>
    <3>1. l.count \in Nat /\ l.count <= Len(stream) - pos
      BY <1>0, <1>2, <2>1
    <3>2. Stored(l) \in Seq(Byte)
      BY <1>0, <3>1, StoredType
    <3> DEFINE s == Stored(l)
    <3> HIDE DEF s
    <3>3. "NUL" \in Byte
      BY DEF Byte
    <3>4. Len(hdr \o s \o <<"NUL">>) = Len(hdr) + Len(s) + 1
      BY <1>0, <3>2, <3>3, Joined DEF s
    <3>5. Len(hdr) \in Nat /\ Len(s) \in Nat
      BY <1>0, <3>2 DEF s
    <3>6. Len(hdr') # 0
      BY <2>1, <3>4, <3>5 DEF s
    <3> QED BY <3>6
  <2>3. ASSUME pos' - base' <= truth'.head
        PROVE  /\ truth'.bytes[pos' - base'] = "LF"
               /\ (\E src \in [1..Len(hdr) -> 1..truth.head] : Copied(src))'
    <3>1. pos' - base <= truth.head
      BY <1>1, <2>3
    <3>2. \E src \in [1..Len(hdr') -> 1..truth.head] : Copied(src)'
      BY <1>1, <2>1, <3>1, LineCopied DEF e
    <3>3. b[e - base] = "LF"
      BY <1>1, <1>2, <3>1
    <3> QED BY <1>1, <3>2, <3>3
  <2>4. pos' # base' + truth'.head
    <3> SUFFICES ASSUME pos' = base' + truth'.head PROVE FALSE
      OBVIOUS
    <3>1. e = base + truth.head /\ e - base <= truth.head
      BY <1>0, <1>1, <1>3
    <3>2. e - 2 \in pos + 1..e - 2
      <4>1. Len(stream) \in Nat /\ e \in Nat
        BY <1>0, <1>2
      <4>2. e - pos - 1 # 1 /\ e >= pos + 2
        BY <1>2, <2>1
      <4> QED BY <1>0, <4>1, <4>2
    <3>3. b[(e - 2) - base] \notin {"CR", "LF"}
      BY <1>2, <3>1, <3>2
    <3>4. (e - 2) - base = truth.head - 2
      BY <1>0, <1>3, <3>1
    <3> QED BY <1>3, <3>3, <3>4
  <2> QED BY <1>1, <1>2, <1>4, <2>2, <2>3, <2>4
<1> QED BY <1>1, <1>5, <1>6

LEMMA HeaderKept ==
  ASSUME TypeInv, WireInv, HeaderInv, [Next]_vars
  PROVE  HeaderInv'
<1>1. CASE ReadHeaderLine
  BY <1>1, LineKeepsHeader DEF HeaderInv
<1>2. CASE SendHeader \/ SendData
  <2>1. pc' # "parse" /\ (pc' = "header" => hdr' = <<>>)
    BY <1>2 DEF SendHeader, SendData, SendThen
  <2> QED BY <2>1 DEF HeaderInv
<1>3. CASE StartRequest \/ StatusGet \/ Parse \/ NoLineBuffer \/ ChunkLine \/ ChunkCrlf
  <2>1. pc' \notin {"header", "parse"}
    BY <1>3 DEF StartRequest, StatusGet, StatusReads, Parse, Understand, NoLineBuffer, ChunkLine,
                ChunkCrlf
  <2> QED BY <2>1 DEF HeaderInv
<1>4. CASE RecvNormal \/ ChunkData
  <2>1. pc' \notin {"header", "parse"}
    BY <1>4 DEF RecvNormal, NormalUntil, ChunkData, ChunkBytes
  <2> QED BY <2>1 DEF HeaderInv
<1>5. CASE Answer
  <2>1. truth = NoResponse /\ UNCHANGED <<pc, hdr, flaws>>
    BY <1>5 DEF Answer
  <2> QED BY <2>1, NoResponseIsNone DEF HeaderInv
<1>6. CASE Close \/ UNCHANGED vars
  <2>1. UNCHANGED <<pc, hdr, flaws, truth, base, pos>>
    BY <1>6 DEF Close, vars, wire
  <2> QED BY <2>1 DEF HeaderInv, Copied
<1> QED BY <1>1, <1>2, <1>3, <1>4, <1>5, <1>6 DEF Next, Client

\* A string of the buffer is what the header has on a line behind the byte before.
LEMMA StringIsLine ==
  ASSUME TypeInv, truth \in Responses, pos = base + truth.head,
         NEW src \in [1..Len(hdr) -> 1..truth.head], Copied(src),
         NEW i \in 1..Len(hdr), hdr[i] # "NUL"
  PROVE  \E q \in 1..truth.head :
           /\ LineEndsAt(truth.bytes, src[i], q)
           /\ StringAt(i + 1) = SubSeq(truth.bytes, src[i] + 1, q - 1)
<1> DEFINE b == truth.bytes
           h == truth.head
           n == Len(hdr)
<1>0. hdr \in Seq(Byte) /\ n \in Nat /\ base \in Nat
  BY DEF TypeInv, TypeOK
<1>1. /\ b \in Seq(Byte) /\ h \in Nat /\ h \in 1..Len(b) /\ Len(b) \in Nat
      /\ \A p \in 1..h : b[p] # "NUL"
      /\ \A p \in 1..h - 1 : b[p] = "CR" <=> b[p + 1] = "LF"
      /\ b[h] = "LF"
  BY ResponseFacts, HeaderFacts
<1>2. /\ hdr[n] = "NUL"
      /\ \A j \in 1..n : hdr[j] = IF b[src[j]] = "CR" THEN "NUL" ELSE b[src[j]]
      /\ \A j \in 1..n :
           i <= j /\ (\A k \in i..j - 1 : hdr[k] # "NUL") => src[j] = src[i] + (j - i)
  BY DEF Copied
<1> DEFINE a == i + 1
<1>3. a \in 1..n + 1
  BY <1>0
<1>4. PICK e \in a..n + 1 :
        /\ e = n + 1 \/ hdr[e] = "NUL"
        /\ \A j \in a..e - 1 : hdr[j] # "NUL"
        /\ StringAt(a) \in Seq(Byte) /\ Len(StringAt(a)) = e - a
        /\ \A j \in 1..e - a : StringAt(a)[j] = hdr[a + j - 1]
  <2> HIDE DEF a
  <2> QED BY <1>0, <1>3, StringAtIs
<1>5. e \in i + 1..n /\ hdr[e] = "NUL" /\ \A j \in i..e - 1 : hdr[j] # "NUL"
  <2>1. i # n
    BY <1>2
  <2>2. \A j \in i..e - 1 : hdr[j] # "NUL"
    <3> TAKE j \in i..e - 1
    <3>1. j = i \/ j \in a..e - 1
      BY <1>0
    <3> QED BY <1>4, <3>1
  <2>3. e # n + 1
    <3> SUFFICES ASSUME e = n + 1 PROVE FALSE
      OBVIOUS
    <3>1. n \in i..e - 1
      BY <1>0
    <3> QED BY <1>2, <2>2, <3>1
  <2>4. hdr[e] = "NUL"
    BY ONLY <1>4, <2>3
  <2>5. e \in i + 1..n
    BY ONLY <1>0, <2>3, e \in a..n + 1, i \in 1..n
  <2> QED BY ONLY <2>2, <2>4, <2>5
<1>6. \A j \in i..e : src[j] = src[i] + (j - i) /\ j \in 1..n /\ src[j] \in 1..h
  <2> TAKE j \in i..e
  <2>1. j \in 1..n /\ i <= j
    BY <1>0, <1>5
  <2>2. \A k \in i..j - 1 : hdr[k] # "NUL"
    <3> TAKE k \in i..j - 1
    <3>1. k \in i..e - 1
      BY <1>0, <1>5
    <3> QED BY <1>5, <3>1
  <2> QED BY <1>2, <2>1, <2>2
<1> DEFINE p == src[i]
           q == p + (e - i)
<1>7. /\ e \in Int /\ i \in Int /\ e > i /\ p \in 1..h
      /\ q \in 1..h /\ q = src[e] /\ p < q
  <2>1. e \in i..e /\ i \in i..e
    BY <1>0, <1>5
  <2>2. src[e] = p + (e - i) /\ src[e] \in 1..h /\ p \in 1..h
    BY <1>6, <2>1
  <2> QED BY <1>0, <1>5, <2>2
<1>8. \A j \in 1..e - i - 1 : hdr[i + j] = b[p + j] /\ b[p + j] # "CR"
  <2> TAKE j \in 1..e - i - 1
  <2> DEFINE k == i + j
  <2>1. k \in i..e /\ k \in i..e - 1 /\ k - i = j /\ k \in 1..n
    BY <1>0, <1>5
  <2>2. src[k] = p + j
    BY <1>6, <2>1
  <2>3. hdr[k] # "NUL"
    BY <1>5, <2>1
  <2>4. hdr[k] = IF b[src[k]] = "CR" THEN "NUL" ELSE b[src[k]]
    BY <1>2, <2>1
  <2> HIDE DEF k, p
  <2>5. hdr[k] = b[p + j] /\ b[p + j] # "CR"
    BY ONLY <2>2, <2>3, <2>4
  <2> QED BY <2>5 DEF k
<1>9. b[q] = "CR"
  <2>1. hdr[e] = IF b[q] = "CR" THEN "NUL" ELSE b[q]
    BY <1>0, <1>2, <1>5, <1>7
  <2>2. b[q] # "NUL"
    BY <1>1, <1>7
  <2> QED BY <1>5, <2>1, <2>2
<1>10. b[q + 1] = "LF"
  <2>1. q # h
    BY <1>1, <1>9
  <2>2. q \in 1..h - 1
    BY <1>1, <1>7, <2>1
  <2> QED BY <1>1, <1>9, <2>2
<1>11. b[p] # "CR"
  <2>1. hdr[i] = IF b[p] = "CR" THEN "NUL" ELSE b[p]
    BY <1>2
  <2> QED BY <2>1
<1>12. \A j \in p + 1..q - 1 : b[j] \notin {"CR", "LF"}
  <2>1. \A j \in p..q - 1 : b[j] # "CR"
    <3> TAKE j \in p..q - 1
    <3>1. CASE j = p
      BY <1>11, <3>1
    <3>2. CASE j # p
      <4> DEFINE k == j - p
      <4>1. p \in Int /\ j \in p..p + (e - i) - 1 /\ e \in Int /\ i \in Int
        BY <1>1, <1>7
      <4> HIDE DEF p
      <4>2. k \in 1..e - i - 1 /\ p + k = j
        BY ONLY <3>2, <4>1
      <4> HIDE DEF k
      <4> QED BY <1>8, <4>2
    <3> QED BY <3>1, <3>2
  <2> TAKE j \in p + 1..q - 1
  <2>2. b[j] # "CR"
    BY <1>1, <1>7, <2>1
  <2>3. b[j] # "LF"
    <3> SUFFICES ASSUME b[j] = "LF" PROVE FALSE
      OBVIOUS
    <3> DEFINE k == j - 1
    <3>0. /\ h \in Nat /\ p \in Nat /\ q \in Nat /\ p >= 1 /\ q <= h
          /\ j \in p + 1..q - 1
      BY <1>1, <1>7
    <3> HIDE DEF h, p, q
    <3>1. k \in 1..h - 1 /\ k \in p..q - 1 /\ k + 1 = j
      BY ONLY <3>0
    <3> HIDE DEF k
    <3>2. b[k] = "CR"
      BY <1>1, <3>1
    <3> QED BY <2>1, <3>1, <3>2
  <2> QED BY <2>2, <2>3
<1>13. LineEndsAt(b, p, q)
  BY <1>7, <1>9, <1>10, <1>12 DEF LineEndsAt
<1>14. StringAt(a) = SubSeq(b, p + 1, q - 1)
  <2> DEFINE s == StringAt(a)
             t == SubSeq(b, p + 1, q - 1)
  <2>1. /\ t \in Seq(Byte) /\ Len(t) = e - i - 1
        /\ \A j \in 1..e - i - 1 : t[j] = b[p + j]
    <3> DEFINE x == p + 1
               y == q - 1
               d == e - i - 1
    <3>1. x \in 1..Len(b) + 1 /\ y \in x - 1..Len(b) /\ y - x + 1 = d /\ d \in Nat
      <4> DEFINE m == Len(b)
                 z == p + (e - i)
      <4>1. m \in Nat /\ h \in 1..m /\ p \in 1..h /\ z \in 1..h /\ p < z
        BY <1>1, <1>7
      <4>2. e \in Int /\ i \in Int
        BY <1>7
      <4>3. x = p + 1 /\ y = z - 1 /\ d = e - i - 1 /\ z = p + (e - i)
        OBVIOUS
      <4> HIDE DEF m, z, x, y, d, p, h, q
      <4>4. x \in 1..m + 1 /\ y \in x - 1..m /\ y - x + 1 = d /\ d \in Nat
        BY ONLY <4>1, <4>2, <4>3
      <4> QED BY <4>4 DEF m
    <3>2. \A j \in 1..d : x + j - 1 = p + j
      BY <1>1, <1>7
    <3> HIDE DEF x, y, d, b, p
    <3>3. /\ SubSeq(b, x, y) \in Seq(Byte) /\ Len(SubSeq(b, x, y)) = d
          /\ \A j \in 1..d : SubSeq(b, x, y)[j] = b[x + j - 1]
      BY <1>1, <3>1
    <3> QED BY <3>2, <3>3 DEF x, y, d
  <2>2. /\ s \in Seq(Byte) /\ Len(s) = e - i - 1
        /\ \A j \in 1..e - i - 1 : s[j] = hdr[i + j]
    <3>1. e - a = e - i - 1
      BY <1>0, <1>7
    <3>2. \A j \in 1..e - i - 1 : a + j - 1 = i + j
      BY <1>0, <1>7
    <3> HIDE DEF a
    <3> QED BY <1>4, <3>1, <3>2
  <2> HIDE DEF s, t, p, q
  <2>3. \A j \in 1..e - i - 1 : s[j] = t[j]
    BY <1>8, <2>1, <2>2
  <2>4. s = t
    BY <2>1, <2>2, <2>3
  <2> QED BY <2>4 DEF s, t
<1> QED BY <1>7, <1>13, <1>14

\* The number that stands on a line, or behind the LF of the line before.
LEMMA LineNumber ==
  ASSUME NEW b \in Seq(Byte), NEW p \in Nat, NEW q \in 1..Len(b), LineEndsAt(b, p, q),
         NEW n, Spells(SubSeq(b, p + 1, q - 1), n)
  PROVE  LET text == SubSeq(b, p + 1, q - 1) IN
         /\ text \in Seq(Byte) /\ Len(text) = q - 1 - p
         /\ \A i \in 1..q - 1 - p : text[i] = b[p + i]
         /\ Number(text) = n /\ Number(<<"LF">> \o text) = n
<1> DEFINE text == SubSeq(b, p + 1, q - 1)
           x == p + 1
           y == q - 1
           d == q - 1 - p
<1>1. p < q /\ \A i \in p + 1..q - 1 : b[i] \notin {"CR", "LF"}
  BY DEF LineEndsAt
<1>2. Len(b) \in Nat /\ x \in 1..Len(b) + 1 /\ y \in x - 1..Len(b) /\ y - x + 1 = d /\ d \in Nat
  BY <1>1
<1>3. \A i \in 1..d : x + i - 1 = p + i /\ p + i \in p + 1..q - 1
  BY <1>1
<1>4. text \in Seq(Byte) /\ Len(text) = d /\ \A i \in 1..d : text[i] = b[p + i]
  <2> HIDE DEF x, y, d
  <2>1. /\ SubSeq(b, x, y) \in Seq(Byte) /\ Len(SubSeq(b, x, y)) = d
        /\ \A i \in 1..d : SubSeq(b, x, y)[i] = b[x + i - 1]
    BY <1>2
  <2> QED BY <1>3, <2>1 DEF x, y
<1>5. Spells(text, n)
  OBVIOUS
<1> HIDE DEF text, d
<1>6. Number(text) = n
  <2>1. text \in Seq(Byte) /\ Len(text) = Len(text) + 0 /\ \A i \in 1..Len(text) : i + 0 = i
    BY <1>4
  <2> QED BY <1>5, <2>1, NumberReads
<1>7. Number(<<"LF">> \o text) = n
  <2> DEFINE w == <<"LF">> \o text
  <2>1. w \in Seq(Byte) /\ Len(w) = Len(text) + 1 /\ w[1] = "LF"
    <3>1. <<"LF">> \in Seq(Byte) /\ Len(<<"LF">>) = 1 /\ <<"LF">>[1] = "LF"
      BY DEF Byte
    <3> QED BY <1>4, <3>1
  <2>2. \A i \in 1..Len(text) : w[i + 1] = text[i]
    BY <1>4
  <2>3. \A i \in 1..1 : w[i] \in Space
    BY <2>1 DEF Space
  <2> HIDE DEF w
  <2>4. Number(w) = n
    BY <1>4, <1>5, <2>1, <2>2, <2>3, NumberReads
  <2> QED BY <2>4 DEF w
<1> QED BY <1>4, <1>6, <1>7 DEF text, d

\* The buffer goes on behind a byte that is no CR, as the header does.
LEMMA NextByte ==
  ASSUME TypeInv, truth \in Responses, NEW src \in [1..Len(hdr) -> 1..truth.head],
         Copied(src), NEW i \in 1..Len(hdr), hdr[i] # "NUL"
  PROVE  LET c == truth.bytes[src[i] + 1] IN
         /\ i + 1 \in 1..Len(hdr) /\ src[i + 1] = src[i] + 1
         /\ hdr[i + 1] = IF c = "CR" THEN "NUL" ELSE c
<1>1. Len(hdr) \in Nat /\ hdr[Len(hdr)] = "NUL"
  BY DEF TypeInv, TypeOK, Copied
<1> DEFINE j == i + 1
<1>2. j \in 1..Len(hdr) /\ i <= j /\ j - i = 1 /\ \A k \in i..j - 1 : k = i
  BY <1>1
<1> HIDE DEF j
<1>3. src[j] = src[i] + 1
  BY <1>2 DEF Copied
<1>4. hdr[j] = IF truth.bytes[src[j]] = "CR" THEN "NUL" ELSE truth.bytes[src[j]]
  BY <1>2 DEF Copied
<1> QED BY <1>2, <1>3, <1>4 DEF j

\* Where httpc_header_get takes the text of the field that begins at p to begin.
TextBegins(b, p) == IF b[p + 2] = "SP" THEN p + 3 ELSE p + 2

\* What httpc_header_get finds in a buffer that holds the whole header of a response
\* that is as the search counts on.
LEMMA FieldFound ==
  ASSUME TypeInv, truth \in Responses, pos = base + truth.head, Len(hdr) < BufLen,
         NEW src \in [1..Len(hdr) -> 1..truth.head], Copied(src), AsSearched(truth),
         NEW field \in {"CL", "TE"}, NEW v \in HeaderGet(field)
  PROVE  \/ v = Absent /\ Field(truth, field) = {}
         \/ \E p \in Field(truth, field), q \in 1..truth.head :
              /\ LineEndsAt(truth.bytes, p, q) /\ p + 1 < q
              /\ v = SubSeq(truth.bytes, TextBegins(truth.bytes, p), q - 1)
<1> DEFINE b == truth.bytes
           n == Len(hdr)
           i == SelectInSeq(hdr, LAMBDA t : t = field)
           begin == IF i + 2 <= n /\ hdr[i + 2] = "SP" THEN i + 3 ELSE i + 2
<1>0. /\ hdr \in Seq(Byte) /\ base \in Nat /\ truth.head \in Nat /\ BufLen \in Nat
      /\ n \in Nat
  <2>1. truth.head \in Nat
    BY HeaderFacts
  <2>2. hdr \in Seq(Byte) /\ base \in Nat
    BY DEF TypeInv, TypeOK
  <2> QED BY <2>1, <2>2, SizesAssumption
<1>1. \/ i = 0 /\ \A j \in 1..n : hdr[j] # field
      \/ i \in 1..n /\ hdr[i] = field /\ \A j \in 1..i - 1 : hdr[j] # field
  BY <1>0, FirstOf
<1>2. v \in IF i = 0 THEN {Absent} \cup (Behind \ {<<>>})
            ELSE IF i + 2 > n THEN Behind ELSE {StringAt(begin)}
  BY DEF HeaderGet
<1> HIDE DEF i
<1>3. \A j \in 1..n : hdr[j] = IF b[src[j]] = "CR" THEN "NUL" ELSE b[src[j]]
  BY DEF Copied
<1>4. \A p \in Field(truth, field) : p \in 1..truth.head /\ b[p] = field /\ b[p + 1] = ":"
  <2> TAKE p \in Field(truth, field)
  <2>1. p \in 2..truth.head /\ b[p + 1] = ":"
    BY DEF Field
  <2>2. b[p] = field
    BY DEF AsSearched
  <2> QED BY <1>0, <2>1, <2>2
\* Every field of this name was copied.
<1>5. ASSUME NEW p \in Field(truth, field) PROVE \E j \in 1..n : src[j] = p /\ hdr[j] = field
  <2>1. p \in 1..pos - base /\ b[p] \notin {"CR", "LF"}
    BY <1>0, <1>4
  <2>2. PICK j \in 1..n : src[j] = p
    BY <2>1 DEF Copied
  <2> QED BY <1>3, <1>4, <2>1, <2>2
<1>6. CASE i = 0
  <2>1. Behind = {<<>>}
    BY <1>0 DEF Behind
  <2>2. v = Absent
    BY <1>2, <1>6, <2>1
  <2>3. Field(truth, field) = {}
    BY <1>1, <1>5, <1>6
  <2> QED BY <2>2, <2>3
<1>7. CASE i # 0
  <2>1. i \in 1..n /\ hdr[i] = field /\ \A j \in 1..i - 1 : hdr[j] # field
    BY <1>1, <1>7
  <2>2. b[src[i]] = field /\ src[i] \in 1..truth.head
    BY <1>3, <2>1
  <2>3. PICK p \in Field(truth, field) : p <= src[i]
    BY <2>2 DEF AsSearched
  <2>4. PICK j \in 1..n : src[j] = p /\ hdr[j] = field
    BY <1>5
  <2>5. j = i
    <3>1. ~(j < i)
      BY <2>1, <2>4
    <3>2. i < j => src[i] < src[j]
      BY <2>1 DEF Copied
    <3>3. ~(i < j)
      BY <2>2, <2>3, <2>4, <3>2
    <3> QED BY <2>1, <3>1, <3>3
  <2>6. src[i] = p /\ p \in Nat /\ b[p + 1] = ":"
    BY <1>4, <2>4, <2>5
  <2> DEFINE x == i + 1
             y == i + 2
  <2>7. x \in 1..n /\ src[x] = p + 1 /\ hdr[x] = ":"
    <3>1. hdr[i] # "NUL"
      BY <2>1
    <3> QED BY <2>1, <2>6, <3>1, NextByte
  <2>8. /\ y \in 1..n /\ src[y] = p + 2
        /\ hdr[y] = IF b[p + 2] = "CR" THEN "NUL" ELSE b[p + 2]
    <3>1. x + 1 = y /\ p + 1 + 1 = p + 2
      BY <2>1, <2>6
    <3> HIDE DEF x, y
    <3> QED BY <2>7, <3>1, NextByte
  <2>9. v = StringAt(begin)
    BY <1>0, <1>2, <1>7, <2>8
  <2>10. PICK q \in 1..truth.head :
           LineEndsAt(b, p + 1, q) /\ StringAt(x + 1) = SubSeq(b, p + 1 + 1, q - 1)
    <3> HIDE DEF x
    <3> QED BY <2>7, StringIsLine
  <2>11. LineEndsAt(b, p, q) /\ p + 1 < q
    <3>1. ASSUME NEW k \in p + 1..q - 1 PROVE b[k] \notin {"CR", "LF"}
      <4>1. CASE k = p + 1
        BY <2>6, <4>1
      <4>2. CASE k # p + 1
        <5>1. k \in p + 1 + 1..q - 1
          BY <2>6, <4>2
        <5> QED BY <2>10, <5>1 DEF LineEndsAt
      <4> QED BY <4>1, <4>2
    <3>2. p + 1 < q /\ b[q] = "CR" /\ b[q + 1] = "LF"
      BY <2>10 DEF LineEndsAt
    <3>3. p < q
      BY <2>6, <3>2
    <3> QED BY <3>1, <3>2, <3>3 DEF LineEndsAt
  <2>12. CASE b[p + 2] # "SP"
    <3>1. begin = x + 1 /\ p + 1 + 1 = p + 2
      <4>1. hdr[i + 2] # "SP"
        BY <2>8, <2>12
      <4> QED BY <2>1, <2>6, <4>1
    <3>2. v = SubSeq(b, p + 2, q - 1)
      BY <2>9, <2>10, <3>1
    <3> QED BY <2>11, <2>12, <3>2 DEF TextBegins
  <2>13. CASE b[p + 2] = "SP"
    <3>1. hdr[y] = "SP"
      BY <2>8, <2>13
    <3>2. PICK z \in 1..truth.head :
            LineEndsAt(b, p + 2, z) /\ StringAt(y + 1) = SubSeq(b, p + 2 + 1, z - 1)
      <4> HIDE DEF y
      <4> QED BY <2>8, <3>1, StringIsLine
    <3>3. z = q
      <4>1. /\ p + 2 < z /\ b[z] = "CR" /\ \A k \in p + 2 + 1..z - 1 : b[k] \notin {"CR", "LF"}
            /\ p + 1 < q /\ b[q] = "CR" /\ \A k \in p + 1 + 1..q - 1 : b[k] \notin {"CR", "LF"}
        BY <2>10, <3>2 DEF LineEndsAt
      <4>2. q # p + 2
        BY <2>13, <4>1
      <4>3. z < q => z \in p + 1 + 1..q - 1
        BY <2>6, <4>1
      <4>4. q < z => q \in p + 2 + 1..z - 1
        BY <2>6, <4>1, <4>2
      <4>5. ~(z < q) /\ ~(q < z)
        BY <4>1, <4>3, <4>4
      <4> QED BY <1>0, <4>5
    <3>4. begin = y + 1 /\ p + 2 + 1 = p + 3
      BY <2>1, <2>6, <2>8, <3>1
    <3>5. v = SubSeq(b, p + 3, q - 1)
      BY <2>9, <3>2, <3>3, <3>4
    <3> QED BY <2>11, <2>13, <3>5 DEF TextBegins
  <2> QED BY <2>12, <2>13
<1> QED BY <1>6, <1>7

\* The beginnings of a string.
LEMMA TailIs ==
  ASSUME NEW b \in Seq(Byte), NEW x \in 1..Len(b) + 1, NEW y \in x - 1..Len(b)
  PROVE  /\ SubSeq(b, x, y) \in Seq(Byte) /\ Len(SubSeq(b, x, y)) = y - x + 1
         /\ \A i \in 1..y - x + 1 : SubSeq(b, x, y)[i] = b[x + i - 1]
<1>1. Len(b) \in Nat /\ x \in Int /\ y \in Int /\ \A i \in x..y : b[i] \in Byte
  OBVIOUS
<1>2. /\ SubSeq(b, x, y) \in Seq(Byte)
      /\ Len(SubSeq(b, x, y)) = (IF x <= y THEN y - x + 1 ELSE 0)
      /\ \A i \in 1..y - x + 1 : SubSeq(b, x, y)[i] = b[x + i - 1]
  BY <1>1, SubSeqProperties
<1> QED BY <1>1, <1>2

\* A Content-Length is read as it stands, wherever the white space around it ends.
LEMMA LengthRead ==
  ASSUME NEW r \in Responses, NEW p \in Field(r, "CL"), NEW q \in 1..r.head,
         LineEndsAt(r.bytes, p, q), p + 1 < q
  PROVE  LET text == SubSeq(r.bytes, TextBegins(r.bytes, p), q - 1) IN
         text \in Seq(Byte) /\ Number(text) = r.length
<1> DEFINE b == r.bytes
           x == TextBegins(b, p)
<1>1. b \in Seq(Byte) /\ Len(b) \in Nat /\ r.head \in 1..Len(b)
  BY ResponseFacts
<1>2. p \in 1..r.head /\ p \in Nat
  BY <1>1 DEF Field
<1>3. PICK i \in 1..q - 1 : TextAt(b, p, i) /\ Spells(SubSeq(b, i, q - 1), r.length)
  BY <1>2, LineFacts
<1> DEFINE s == SubSeq(b, i, q - 1)
           w == SubSeq(b, x, q - 1)
<1>4. i > p + 1 /\ \A j \in p + 2..i - 1 : b[j] \in White
  BY <1>3 DEF TextAt
<1>5. /\ s \in Seq(Byte) /\ Len(s) = q - i
      /\ \A j \in 1..q - i : s[j] = b[i + j - 1]
  <2> DEFINE y == q - 1
  <2>1. i \in 1..Len(b) + 1 /\ y \in i - 1..Len(b) /\ y - i + 1 = q - i
    BY <1>1
  <2> HIDE DEF y
  <2>2. /\ SubSeq(b, i, y) \in Seq(Byte) /\ Len(SubSeq(b, i, y)) = y - i + 1
        /\ \A j \in 1..y - i + 1 : SubSeq(b, i, y)[j] = b[i + j - 1]
    BY <1>1, <2>1, TailIs
  <2> QED BY <2>1, <2>2 DEF y
<1>6. b[i] # "SP"
  <2>1. Len(s) >= 1 /\ s[1] \in DOMAIN Digit
    BY <1>3, <1>5 DEF Spells
  <2>2. s[1] = b[i]
    BY <1>5
  <2> QED BY <2>1, <2>2 DEF Digit
<1>7. x \in Nat /\ x >= p + 2 /\ x <= i
  <2>1. CASE b[p + 2] # "SP"
    BY <1>2, <1>4, <2>1 DEF TextBegins
  <2>2. CASE b[p + 2] = "SP"
    <3>1. i # p + 2
      BY <1>6, <2>2
    <3> QED BY <1>2, <1>4, <2>2, <3>1 DEF TextBegins
  <2> QED BY <2>1, <2>2
<1> HIDE DEF x, s
<1>8. /\ w \in Seq(Byte) /\ Len(w) = q - x
      /\ \A j \in 1..q - x : w[j] = b[x + j - 1]
  <2> DEFINE y == q - 1
  <2>1. x \in 1..Len(b) + 1 /\ y \in x - 1..Len(b) /\ y - x + 1 = q - x
    BY <1>1, <1>2, <1>7
  <2> HIDE DEF y
  <2>2. /\ SubSeq(b, x, y) \in Seq(Byte) /\ Len(SubSeq(b, x, y)) = y - x + 1
        /\ \A j \in 1..y - x + 1 : SubSeq(b, x, y)[j] = b[x + j - 1]
    BY <1>1, <2>1, TailIs
  <2> QED BY <2>1, <2>2 DEF y
<1> HIDE DEF w
<1> DEFINE d == i - x
<1>9. d \in Nat /\ Len(w) = Len(s) + d
  BY <1>5, <1>7, <1>8
<1>10. \A j \in 1..d : w[j] \in Space
  <2> TAKE j \in 1..d
  <2>1. x + j - 1 \in p + 2..i - 1 /\ j \in 1..q - x
    BY <1>2, <1>7
  <2> QED BY <1>4, <1>8, <2>1 DEF Space
<1>11. \A j \in 1..Len(s) : w[j + d] = s[j]
  <2> TAKE j \in 1..Len(s)
  <2>1. j \in 1..q - i /\ j + d \in 1..q - x /\ x + (j + d) - 1 = i + j - 1
    BY <1>5, <1>7
  <2>2. w[j + d] = b[x + (j + d) - 1]
    <3> HIDE DEF d
    <3> QED BY <1>8, <2>1
  <2> QED BY <1>5, <2>1, <2>2
<1> HIDE DEF d
<1>12. Number(w) = r.length
  BY <1>3, <1>5, <1>8, <1>9, <1>10, <1>11, NumberReads DEF s
<1> QED BY <1>8, <1>12 DEF w, x

\* A Transfer-Encoding is compared with "chunked" as it stands.
LEMMA CodingRead ==
  ASSUME NEW r \in Responses, AsSearched(r), NEW p \in Field(r, "TE"), NEW q \in 1..r.head,
         LineEndsAt(r.bytes, p, q), p + 1 < q
  PROVE  SubSeq(r.bytes, TextBegins(r.bytes, p), q - 1) = <<"chunked">>
<1> DEFINE b == r.bytes
           x == p + 1
           y == q - 1
           s == SubSeq(b, x, y)
<1>1. b \in Seq(Byte) /\ Len(b) \in Nat /\ r.head \in 1..Len(b)
  BY ResponseFacts
<1>2. p \in 1..r.head /\ p \in Nat
  BY <1>1 DEF Field
<1>3. s \in {<<":", "chunked">>, <<":", "SP", "chunked">>}
  BY DEF AsSearched
<1>4. x \in 1..Len(b) + 1 /\ y \in x - 1..Len(b) /\ y \in Int /\ x \in Nat
  BY <1>1, <1>2
<1>5. /\ Len(s) = y - x + 1 /\ \A i \in 1..y - x + 1 : s[i] = b[x + i - 1]
  <2> HIDE DEF x, y
  <2> QED BY <1>1, <1>4, TailIs
<1>6. ASSUME NEW i \in 1..Len(b), i = y, b[i] = "chunked"
      PROVE SubSeq(b, i, y) = <<"chunked">>
  <2>1. y \in i - 1..Len(b) /\ i \in 1..Len(b) + 1 /\ y - i + 1 = 1
    BY <1>1, <1>4, <1>6
  <2> HIDE DEF y
  <2> DEFINE t == SubSeq(b, i, y)
  <2>2. t \in Seq(Byte) /\ Len(t) = 1 /\ \A j \in 1..1 : t[j] = b[i + j - 1]
    BY <1>1, <2>1, TailIs
  <2>3. t[1] = "chunked"
    BY <1>6, <2>2
  <2> HIDE DEF t
  <2>4. t = <<"chunked">>
    BY <2>2, <2>3
  <2> QED BY <2>4 DEF t
<1> HIDE DEF s
<1>7. \A d \in Nat : Len(s) = d => y = p + d /\ p + d \in 1..Len(b) /\ y - x + 1 = d
  <2> TAKE d \in Nat
  <2> HAVE Len(s) = d
  <2>1. y - x + 1 = d
    BY <1>5
  <2>2. y = p + d
    BY <1>2, <1>4, <2>1
  <2>3. y \in 1..Len(b)
    BY <1>1, <1>2
  <2> QED BY <2>1, <2>2, <2>3
<1>8. \A d \in 1..y - x + 1 : s[d] = b[p + d]
  <2> TAKE d \in 1..y - x + 1
  <2>1. x + d - 1 = p + d
    BY <1>2, <1>4
  <2> QED BY <1>5, <2>1
<1>9. CASE s = <<":", "chunked">>
  <2>1. Len(s) = 2 /\ s[2] = "chunked"
    BY <1>9
  <2>2. y = p + 2 /\ p + 2 \in 1..Len(b) /\ y - x + 1 = 2
    BY <1>7, <2>1
  <2>3. b[p + 2] = "chunked"
    <3>1. 2 \in 1..y - x + 1
      BY <2>2
    <3> HIDE DEF x, y
    <3> QED BY <1>8, <2>1, <3>1
  <2>4. TextBegins(b, p) = p + 2
    BY <2>3 DEF TextBegins
  <2> HIDE DEF y
  <2>5. SubSeq(b, p + 2, y) = <<"chunked">>
    BY <1>6, <2>2, <2>3
  <2> QED BY <2>4, <2>5 DEF y
<1>10. CASE s = <<":", "SP", "chunked">>
  <2>1. Len(s) = 3 /\ s[2] = "SP" /\ s[3] = "chunked"
    BY <1>10
  <2>2. y = p + 3 /\ p + 3 \in 1..Len(b) /\ y - x + 1 = 3
    BY <1>7, <2>1
  <2>3. b[p + 2] = "SP" /\ b[p + 3] = "chunked"
    <3>1. 2 \in 1..y - x + 1 /\ 3 \in 1..y - x + 1
      BY <2>2
    <3> HIDE DEF x, y
    <3> QED BY <1>8, <2>1, <3>1
  <2>4. TextBegins(b, p) = p + 3
    BY <2>3 DEF TextBegins
  <2> HIDE DEF y
  <2>5. SubSeq(b, p + 3, y) = <<"chunked">>
    BY <1>6, <2>2, <2>3
  <2> QED BY <2>4, <2>5 DEF y
<1> QED BY <1>3, <1>9, <1>10

\* A header that was read whole, as it lies in the buffer.
LEMMA WholeHeader ==
  ASSUME TypeInv, HeaderInv, Parse, "cut" \notin flaws'
  PROVE  /\ truth \in Responses /\ pos = base + truth.head /\ Len(hdr) < BufLen
         /\ hdr \in Seq(Byte) /\ hdr # <<>>
         /\ \E src \in [1..Len(hdr) -> 1..truth.head] : Copied(src)
<1>1. /\ pc = "parse" /\ "cut" \notin flaws
      /\ truth # NoResponse /\ pos = base + truth.head
  BY DEF Parse, Understand
<1>2. truth \in Responses /\ hdr # <<>> /\ Len(hdr) < BufLen
  BY <1>1 DEF HeaderInv
<1>3. hdr \in Seq(Byte) /\ base \in Nat /\ truth.head \in Nat
  BY <1>2, HeaderFacts DEF TypeInv, TypeOK
<1>4. pos - base <= truth.head
  BY <1>1, <1>3
<1>5. \E src \in [1..Len(hdr) -> 1..truth.head] : Copied(src)
  BY <1>1, <1>2, <1>4 DEF HeaderInv
<1> QED BY <1>1, <1>2, <1>3, <1>5

\* httpc_handle_response finds the status of a header that was read whole.
LEMMA StatusRead ==
  ASSUME TypeInv, HeaderInv, Parse, "cut" \notin flaws'
  PROVE  /\ HasStatus
         /\ ToInt(Number(StringAt(1 + SelectInSeq(hdr, LAMBDA t : t = "H")))) = truth.code
<1> DEFINE b == truth.bytes
           h == SelectInSeq(hdr, LAMBDA t : t = "H")
<1>1. /\ truth \in Responses /\ pos = base + truth.head
      /\ hdr \in Seq(Byte) /\ hdr # <<>> /\ Len(hdr) \in Nat
  BY WholeHeader
<1>2. PICK src \in [1..Len(hdr) -> 1..truth.head] : Copied(src)
  BY WholeHeader
<1>3. /\ b \in Seq(Byte) /\ truth.head \in 1..Len(b) /\ truth.head \in Nat /\ b[1] = "H"
      /\ truth.code \in 0..IntHalf - 1 /\ Len(b) \in Nat
  BY <1>1, ResponseFacts, HeaderFacts
<1>4. 1 \in 1..Len(hdr) /\ hdr[1] = "H" /\ src[1] = 1
  <2>1. 1 \in 1..Len(hdr)
    BY <1>1
  <2>2. src[1] = 1 /\ hdr[1] = IF b[src[1]] = "CR" THEN "NUL" ELSE b[src[1]]
    BY <1>2, <2>1 DEF Copied
  <2> QED BY <1>3, <2>1, <2>2
<1>5. h = 1
  <2>1. \/ h = 0 /\ \A j \in 1..Len(hdr) : hdr[j] # "H"
        \/ h \in 1..Len(hdr) /\ hdr[h] = "H" /\ \A j \in 1..h - 1 : hdr[j] # "H"
    BY <1>1, FirstOf
  <2> HIDE DEF h
  <2> QED BY <1>1, <1>4, <2>1
<1>6. HasStatus
  <2>1. PICK e \in 1..Len(hdr) + 1 :
          (e = Len(hdr) + 1 \/ hdr[e] = "NUL") /\ Len(StringAt(1)) = e - 1
    BY <1>1, <1>4, StringAtIs
  <2>2. e # 1
    BY <1>1, <1>4, <2>1
  <2>3. 1 \in 1..Len(StringAt(1))
    BY <1>1, <2>1, <2>2
  <2> QED BY <1>4, <2>3 DEF HasStatus
<1> HIDE DEF h
<1>7. PICK q \in 1..truth.head :
        LineEndsAt(b, 1, q) /\ StringAt(1 + 1) = SubSeq(b, 1 + 1, q - 1)
  BY <1>1, <1>2, <1>4, StringIsLine
<1>8. Number(StringAt(1 + 1)) = truth.code
  <2>1. 1 \in 1..truth.head /\ q \in 1..Len(b) /\ 1 + 1 = 2
    BY <1>3
  <2>2. Spells(SubSeq(b, 1 + 1, q - 1), truth.code)
    BY <1>1, <1>7, <2>1, LineFacts
  <2> DEFINE x == 1
  <2>3. x \in Nat /\ LineEndsAt(b, x, q) /\ Spells(SubSeq(b, x + 1, q - 1), truth.code)
    BY <1>7, <2>2
  <2> HIDE DEF x
  <2>4. Number(SubSeq(b, x + 1, q - 1)) = truth.code
    BY <1>3, <2>1, <2>3, LineNumber
  <2> QED BY <1>7, <2>4 DEF x
<1>9. ToInt(truth.code) = truth.code
  BY <1>3, SizesAssumption, IntOf
<1> QED BY <1>5, <1>6, <1>8, <1>9 DEF h

\* httpc_header_get finds the other two fields, when the header is as its search
\* counts on.
LEMMA FieldsRead ==
  ASSUME TypeInv, HeaderInv, Parse, "cut" \notin flaws', AsSearched(truth),
         NEW cl \in HeaderGet("CL"), NEW te \in HeaderGet("TE")
  PROVE  /\ (IF cl = Absent THEN 0 ELSE ToInt(Number(cl))) = ToInt(truth.length)
         /\ te = IF truth.chunked THEN <<"chunked">> ELSE Absent
<1>1. truth \in Responses /\ pos = base + truth.head /\ Len(hdr) < BufLen
  BY WholeHeader
<1>2. PICK src \in [1..Len(hdr) -> 1..truth.head] : Copied(src)
  BY WholeHeader
<1>3. /\ Field(truth, "CL") = {} => truth.length = 0
      /\ truth.chunked = (Field(truth, "TE") # {})
  BY <1>1, HeaderFacts
<1>4. Absent \notin Seq(Byte)
  BY DEF Absent, Byte
<1>5. ToInt(0) = 0
  BY SizesAssumption, IntOf
<1>6. \/ cl = Absent /\ Field(truth, "CL") = {}
      \/ cl \in Seq(Byte) /\ Number(cl) = truth.length
  <2>1. \/ cl = Absent /\ Field(truth, "CL") = {}
        \/ \E p \in Field(truth, "CL"), q \in 1..truth.head :
             /\ LineEndsAt(truth.bytes, p, q) /\ p + 1 < q
             /\ cl = SubSeq(truth.bytes, TextBegins(truth.bytes, p), q - 1)
    BY <1>1, <1>2, FieldFound
  <2>2. ASSUME NEW p \in Field(truth, "CL"), NEW q \in 1..truth.head,
               LineEndsAt(truth.bytes, p, q), p + 1 < q,
               cl = SubSeq(truth.bytes, TextBegins(truth.bytes, p), q - 1)
        PROVE  cl \in Seq(Byte) /\ Number(cl) = truth.length
    BY <1>1, <2>2, LengthRead
  <2> QED BY <2>1, <2>2
<1>7. \/ te = Absent /\ Field(truth, "TE") = {}
      \/ te = <<"chunked">> /\ Field(truth, "TE") # {}
  <2>1. \/ te = Absent /\ Field(truth, "TE") = {}
        \/ \E p \in Field(truth, "TE"), q \in 1..truth.head :
             /\ LineEndsAt(truth.bytes, p, q) /\ p + 1 < q
             /\ te = SubSeq(truth.bytes, TextBegins(truth.bytes, p), q - 1)
    BY <1>1, <1>2, FieldFound
  <2>2. ASSUME NEW p \in Field(truth, "TE"), NEW q \in 1..truth.head,
               LineEndsAt(truth.bytes, p, q), p + 1 < q,
               te = SubSeq(truth.bytes, TextBegins(truth.bytes, p), q - 1)
        PROVE  te = <<"chunked">>
    BY <1>1, <2>2, CodingRead
  <2> QED BY <2>1, <2>2
<1> QED BY <1>3, <1>4, <1>5, <1>6, <1>7

\* httpc_handle_response understands a header that was read whole: the status
\* always, the two fields when its search finds them.
LEMMA ParsedRight ==
  ASSUME TypeInv, HeaderInv, Parse, "cut" \notin flaws'
  PROVE  /\ truth \in Responses /\ pos = base + truth.head /\ code' = truth.code
         /\ AsSearched(truth) =>
              /\ clen' = ToInt(truth.length) /\ chunked' = truth.chunked
              /\ pc' = CASE clen' > 0 -> "body"
                         [] clen' < 0 -> "done"
                         [] clen' = 0 /\ ~truth.chunked -> "failed"
                         [] truth.chunked -> "chunk_line"
                         [] OTHER -> "done"
<1>1. truth \in Responses /\ pos = base + truth.head
  BY WholeHeader
<1>2. PICK cl \in HeaderGet("CL"), te \in HeaderGet("TE") :
        /\ code' = ToInt(Number(StringAt(1 + SelectInSeq(hdr, LAMBDA t : t = "H"))))
        /\ clen' = IF cl = Absent THEN 0 ELSE ToInt(Number(cl))
        /\ chunked' = (clen' = 0 /\ te = <<"chunked">>)
        /\ pc' = CASE clen' > 0 -> "body"
                   [] clen' < 0 -> "done"
                   [] clen' = 0 /\ te = Absent -> "failed"
                   [] chunked' -> "chunk_line"
                   [] OTHER -> "done"
  BY StatusRead DEF Parse, Understand
<1>3. code' = truth.code
  BY <1>2, StatusRead
<1>4. ASSUME AsSearched(truth)
      PROVE  /\ clen' = ToInt(truth.length) /\ chunked' = truth.chunked
             /\ te = Absent <=> ~truth.chunked
  <2>1. clen' = ToInt(truth.length)
    BY <1>2, <1>4, FieldsRead
  <2>2. te = IF truth.chunked THEN <<"chunked">> ELSE Absent
    BY <1>4, FieldsRead
  <2>3. Absent # <<"chunked">>
    BY DEF Absent
  <2>4. truth.chunked \in BOOLEAN /\ (truth.chunked => truth.length = 0)
    BY <1>1, ResponseFacts, HeaderFacts
  <2>5. ToInt(0) = 0
    BY SizesAssumption, IntOf
  <2>6. truth.chunked => clen' = 0
    BY <2>1, <2>4, <2>5
  <2> QED BY <1>2, <2>1, <2>2, <2>3, <2>4, <2>6
<1>5. ASSUME AsSearched(truth)
      PROVE  pc' = CASE clen' > 0 -> "body"
                     [] clen' < 0 -> "done"
                     [] clen' = 0 /\ ~truth.chunked -> "failed"
                     [] truth.chunked -> "chunk_line"
                     [] OTHER -> "done"
  BY <1>2, <1>4, <1>5
<1> QED BY <1>1, <1>3, <1>4, <1>5

\* What reading goes on with, when nothing stands in the way.
LEMMA ParsedWhole ==
  ASSUME TypeInv, HeaderInv, Parse, flaws' \cap {"cut", "wrapped", "misled"} = {}
  PROVE  /\ clen' = truth.length /\ chunked' = truth.chunked
         /\ pc' = IF truth.length > 0 THEN "body"
                  ELSE IF truth.chunked THEN "chunk_line" ELSE "failed"
<1>1. "cut" \notin flaws' /\ ~(truth.length >= IntHalf) /\ AsSearched(truth)
  BY DEF Parse, Understand
<1>2. truth \in Responses
  BY <1>1, ParsedRight
<1>3. /\ truth.length \in Nat /\ truth.chunked \in BOOLEAN /\ IntHalf \in Nat
      /\ truth.chunked => truth.length = 0
  BY <1>2, SizesAssumption, ResponseFacts, HeaderFacts
<1> DEFINE n == truth.length
<1>4. n \in Nat /\ n < IntHalf
  BY <1>1, <1>3
<1>5. ToInt(n) = n
  <2> HIDE DEF n
  <2> QED BY <1>4, IntOf
<1>6. clen' = n /\ chunked' = truth.chunked
  BY <1>1, <1>5, ParsedRight
<1>7. pc' = CASE n > 0 -> "body"
              [] n < 0 -> "done"
              [] n = 0 /\ ~truth.chunked -> "failed"
              [] truth.chunked -> "chunk_line"
              [] OTHER -> "done"
  BY <1>1, <1>6, ParsedRight
<1> HIDE DEF n
<1>8. CASE n > 0
  <2>1. ~(n < 0) /\ ~(n = 0) /\ ~truth.chunked
    BY <1>3, <1>4, <1>8 DEF n
  <2>2. pc' = "body"
    BY <1>7, <1>8, <2>1
  <2> QED BY <1>6, <1>8, <2>2 DEF n
<1>9. CASE n = 0
  <2>1. ~(n > 0) /\ ~(n < 0)
    BY <1>9
  <2>2. pc' = IF truth.chunked THEN "chunk_line" ELSE "failed"
    <3>1. CASE truth.chunked = TRUE
      BY <1>7, <1>9, <2>1, <3>1
    <3>2. CASE truth.chunked = FALSE
      BY <1>7, <1>9, <2>1, <3>2
    <3> QED BY <1>3, <3>1, <3>2
  <2> QED BY <1>6, <2>1, <2>2 DEF n
<1> QED BY <1>4, <1>8, <1>9

LEMMA FieldsKept ==
  ASSUME TypeInv, HeaderInv, FieldsInv, [Next]_vars
  PROVE  FieldsInv'
<1>1. CASE StartRequest \/ SendHeader \/ SendData \/ ReadHeaderLine
  <2>1. pc' \in {"send_header", "failed", "send_data", "header", "parse"}
    BY <1>1 DEF StartRequest, SendHeader, SendData, SendThen, ReadHeaderLine, StoreLine
  <2> QED BY <2>1 DEF FieldsInv
<1>2. CASE Parse
  <2>1. truth' = truth
    BY <1>2 DEF Parse, Understand, wire
  <2>2. ASSUME "cut" \notin flaws'
        PROVE  /\ truth' \in Responses /\ code' = truth'.code
               /\ AsSearched(truth)' =>
                    clen' = ToInt(truth.length)' /\ chunked' = truth'.chunked
    BY <1>2, <2>1, <2>2, ParsedRight DEF AsSearched, Field, ToInt, LineEndsAt
  <2>3. ASSUME "cut" \notin flaws', flaws' \cap {"wrapped", "misled"} = {}
        PROVE  clen' = truth'.length /\ chunked' = truth'.chunked
    <3>1. flaws' \cap {"cut", "wrapped", "misled"} = {}
      BY <2>3
    <3> QED BY <1>2, <2>1, <3>1, ParsedWhole
  <2> QED BY <2>2, <2>3 DEF FieldsInv, Sound
<1>3. CASE Answer
  <2>1. truth = NoResponse /\ UNCHANGED <<pc, flaws>>
    BY <1>3 DEF Answer
  <2> QED BY <2>1, NoResponseIsNone DEF FieldsInv, Sound
<1>4. CASE StatusGet \/ Close \/ UNCHANGED vars
  <2>1. UNCHANGED <<pc, flaws, truth, code, clen, chunked>>
    BY <1>4 DEF StatusGet, StatusReads, Close, vars, wire, fields
  <2> QED BY <2>1 DEF FieldsInv, Sound
<1>5. CASE RecvNormal \/ NoLineBuffer \/ ChunkLine \/ ChunkData \/ ChunkCrlf
  <2>1. /\ pc \in {"body", "chunk_line", "chunk_data", "chunk_crlf"}
        /\ flaws \subseteq flaws'
        /\ UNCHANGED <<truth, code, clen, chunked>>
    <3>1. CASE RecvNormal
      BY <3>1 DEF RecvNormal, NormalUntil, Deliver, wire, fields
    <3>2. CASE NoLineBuffer
      BY <3>2 DEF NoLineBuffer, wire, fields
    <3>3. CASE ChunkLine
      BY <3>3 DEF ChunkLine, wire, fields
    <3>4. CASE ChunkData
      BY <3>4 DEF ChunkData, ChunkBytes, Deliver, wire, fields
    <3>5. CASE ChunkCrlf
      BY <3>5 DEF ChunkCrlf, wire, fields
    <3> QED BY <1>5, <3>1, <3>2, <3>3, <3>4, <3>5
  <2> QED BY <2>1 DEF FieldsInv, Sound
<1> QED BY <1>1, <1>2, <1>3, <1>4, <1>5 DEF Next, Client

-----------------------------------------------------------------------------
(* The body *)

\* What a read adds to what the application has.
LEMMA Appended ==
  ASSUME TypeInv, NEW n \in Nat, got' = got \o Positions(n)
  PROVE  /\ Len(got) \in Nat /\ Len(got') = Len(got) + n
         /\ \A i \in 1..Len(got) : got'[i] = got[i]
         /\ \A i \in 1..n : got'[Len(got) + i] = pos + i
<1> DEFINE p == Positions(n)
<1>1. got \in Seq(Nat) /\ pos \in Nat
  BY DEF TypeInv, TypeOK
<1>2. p \in Seq(Nat) /\ Len(p) = n /\ \A i \in 1..n : p[i] = pos + i
  <2>1. \A i \in 1..n : pos + i \in Nat
    BY <1>1
  <2> QED BY <2>1 DEF Positions
<1> HIDE DEF p
<1>3. got' = got \o p
  BY DEF p
<1>4. /\ Len(got') = Len(got) + Len(p)
      /\ \A i \in 1..Len(got) + Len(p) :
           got'[i] = IF i <= Len(got) THEN got[i] ELSE p[i - Len(got)]
  <2>1. got \in Seq(Nat) /\ p \in Seq(Nat)
    BY <1>1, <1>2
  <2>2. /\ Len(got \o p) = Len(got) + Len(p)
        /\ \A i \in 1..Len(got) + Len(p) :
             (got \o p)[i] = IF i <= Len(got) THEN got[i] ELSE p[i - Len(got)]
    BY ONLY <2>1, ConcatProperties
  <2> QED BY ONLY <1>3, <2>2
<1> DEFINE m == Len(got)
<1>5. m \in Nat
  BY <1>1
<1> HIDE DEF m
<1>6. Len(got') = m + n /\ \A i \in 1..m + n : got'[i] = IF i <= m THEN got[i] ELSE p[i - m]
  BY <1>2, <1>4 DEF m
<1>7. \A i \in 1..m : got'[i] = got[i]
  BY <1>5, <1>6
<1>8. \A i \in 1..n : got'[m + i] = pos + i
  <2> TAKE i \in 1..n
  <2>1. m + i \in 1..m + n /\ ~(m + i <= m) /\ (m + i) - m = i
    BY <1>5
  <2>2. got'[m + i] = p[(m + i) - m]
    BY ONLY <1>6, <2>1
  <2> QED BY <1>2, <2>1, <2>2
<1> QED BY <1>5, <1>6, <1>7, <1>8 DEF m

\* Bytes handed out in their place keep the order.
LEMMA GivenMore ==
  ASSUME TypeInv, NEW n \in Nat, got' = got \o Positions(n), UNCHANGED <<base, truth>>,
         NEW m \in Nat, Given(m),
         \A i \in 1..n : pos + i = base + truth.body[m + i]
  PROVE  Given(m + n)'
<1>1. /\ Len(got) = m /\ Len(got') = m + n
      /\ \A i \in 1..m : got'[i] = got[i]
      /\ \A i \in 1..n : got'[m + i] = pos + i
  BY Appended DEF Given
<1>2. \A i \in 1..m + n : got'[i] = base + truth.body[i]
  <2> TAKE i \in 1..m + n
  <2>1. CASE i <= m
    BY <1>1, <2>1 DEF Given
  <2>2. CASE i > m
    <3> DEFINE j == i - m
    <3>1. j \in 1..n /\ m + j = i
      BY <2>2
    <3> HIDE DEF j
    <3>2. got'[m + j] = base + truth.body[m + j]
      BY <1>1, <3>1
    <3> QED BY ONLY <3>1, <3>2
  <2>3. i <= m \/ i > m
    OBVIOUS
  <2> QED BY ONLY <2>1, <2>2, <2>3
<1> QED BY <1>1, <1>2 DEF Given

LEMMA BodyOutside ==
  ASSUME TypeInv, FieldsInv, BodyInv,
         \/ StartRequest \/ SendHeader \/ SendData \/ ReadHeaderLine \/ StatusGet
         \/ NoLineBuffer \/ Answer \/ Close \/ UNCHANGED vars
  PROVE  BodyInv'
<1>1. CASE StartRequest
  <2>1. pc' = "send_header" /\ got' = <<>>
    BY <1>1 DEF StartRequest
  <2> QED BY <2>1 DEF BodyInv
<1>2. CASE SendHeader \/ SendData \/ ReadHeaderLine
  <2>1. /\ pc \in {"send_header", "send_data", "header"}
        /\ pc' \in {"send_header", "send_data", "header", "parse", "failed"}
        /\ got' = got /\ flaws \subseteq flaws'
    BY <1>2 DEF SendHeader, SendData, SendThen, ReadHeaderLine, StoreLine
  <2> QED BY <2>1 DEF BodyInv, Sound
<1>3. CASE NoLineBuffer
  <2>1. "fault" \in flaws'
    BY <1>3 DEF NoLineBuffer
  <2> QED BY <2>1 DEF BodyInv, Sound
<1>4. CASE Answer
  <2>1. truth = NoResponse /\ UNCHANGED <<pc, flaws, got>>
    BY <1>4 DEF Answer
  <2>2. pc \notin {"body", "chunk_line", "chunk_data", "chunk_crlf", "done"}
          \/ ~Sound({"cut", "torn", "fault", "wrapped", "misled"})
    BY <2>1, NoResponseIsNone DEF FieldsInv, Sound
  <2> QED BY <2>1, <2>2 DEF BodyInv, Sound
<1>5. CASE StatusGet \/ Close \/ UNCHANGED vars
  <2>1. UNCHANGED <<pc, flaws, truth, base, pos, got, want>>
    BY <1>5 DEF StatusGet, StatusReads, Close, vars, wire
  <2> QED BY <2>1 DEF BodyInv, Sound, Given, InChunk
<1> QED BY <1>1, <1>2, <1>3, <1>4, <1>5

LEMMA BodyAtParse ==
  ASSUME TypeInv, HeaderInv, BodyInv, Parse
  PROVE  BodyInv'
<1> SUFFICES ASSUME Sound({"cut", "torn", "fault", "wrapped", "misled"})'
             PROVE  BodyInv'
  BY DEF BodyInv
<1>1. pc = "parse" /\ flaws \subseteq flaws' /\ UNCHANGED <<truth, base, pos, got>>
  BY DEF Parse, Understand, wire
<1>2. got = <<>>
  BY <1>1 DEF BodyInv, Sound
<1>3. flaws' \cap {"cut", "wrapped", "misled"} = {} /\ "cut" \notin flaws'
  BY DEF Sound
<1>4. /\ truth \in Responses /\ pos = base + truth.head
      /\ pc' = IF truth.length > 0 THEN "body"
               ELSE IF truth.chunked THEN "chunk_line" ELSE "failed"
  BY <1>3, ParsedRight, ParsedWhole
<1>5. /\ truth.length \in Nat /\ truth.head \in Nat /\ (truth.chunked => truth.length = 0)
      /\ base \in Nat
  BY <1>4, ResponseFacts, HeaderFacts DEF TypeInv, TypeOK
<1>6. Len(got') = 0 /\ Given(0)'
  BY <1>1, <1>2 DEF Given
<1>7. CASE truth.length > 0
  <2>1. pc' = "body" /\ ~truth.chunked /\ 0 <= truth.length /\ pos = base + truth.head + 0
    BY <1>4, <1>5, <1>7
  <2>2. Given(Len(got))'
    BY <1>6
  <2> QED BY <1>1, <1>6, <2>1, <2>2 DEF BodyInv
<1>8. CASE ~(truth.length > 0) /\ truth.chunked
  <2>1. pc' = "chunk_line"
    BY <1>4, <1>8
  <2>2. /\ truth.chunks \in Seq(Chunk) /\ truth.chunks # <<>>
        /\ truth.chunks[1].line = truth.head /\ truth.chunks[1].before = 0
    BY <1>4, <1>8, ResponseFacts DEF ChunksFormed
  <2>3. 1 \in 1..Len(truth.chunks)
    BY <2>2
  <2>4. InChunk(1)'
    BY <1>1, <1>4, <1>6, <2>1, <2>2 DEF InChunk
  <2> QED BY <1>1, <1>8, <2>1, <2>3, <2>4 DEF BodyInv
<1>9. CASE ~(truth.length > 0) /\ ~truth.chunked
  <2>1. pc' = "failed" /\ got' = <<>>
    BY <1>1, <1>2, <1>4, <1>9
  <2> QED BY <2>1 DEF BodyInv
<1> QED BY <1>7, <1>8, <1>9

LEMMA BodyAtNormal ==
  ASSUME TypeInv, WireInv, FieldsInv, BodyInv, RecvNormal
  PROVE  BodyInv'
<1> SUFFICES ASSUME Sound({"cut", "torn", "fault", "wrapped", "misled"})'
             PROVE  BodyInv'
  BY DEF BodyInv
<1> DEFINE t == truth
<1>0. Len(got) \in Nat
  BY DEF TypeInv, TypeOK
<1>m. PICK m \in Nat : m = Len(got)
  BY <1>0
<1>1. PICK n \in Recv(BodySize) :
        /\ pc = "body"
        /\ got' = got \o Positions(Taken(n)) /\ pos' = pos + Taken(n)
        /\ pc' = IF n <= 0 THEN "failed" ELSE IF Len(got') >= clen THEN "done" ELSE "body"
        /\ flaws' = flaws \cup {f \in {"fault"} : n <= 0} \cup {f \in {"torn"} : FALSE}
        /\ UNCHANGED <<truth, base>>
  BY DEF RecvNormal, NormalUntil, Deliver, wire
<1>2. flaws \subseteq flaws' /\ ~(n <= 0)
  <2>1. "fault" \notin flaws'
    BY DEF Sound
  <2> QED BY <1>1, <2>1
<1>3. Sound({"cut", "torn", "fault", "wrapped", "misled"}) /\ Sound({"cut"}) /\ Sound({"wrapped", "misled"})
  BY <1>2 DEF Sound
<1>4. /\ t \in Responses /\ clen = t.length
      /\ ~t.chunked /\ Given(m) /\ m <= t.length /\ pos = base + t.head + m
  BY <1>1, <1>3, <1>m DEF FieldsInv, BodyInv
<1>5. /\ t.length \in Nat /\ t.head \in Nat /\ Len(t.bytes) = t.head + t.length
      /\ Len(t.body) = t.length /\ \A i \in 1..t.length : t.body[i] = t.head + i
  BY <1>4, ResponseFacts, HeaderFacts DEF PlainFormed
<1>6. /\ stream \in Seq(Byte) /\ base \in Nat /\ pos \in 0..Len(stream)
      /\ BodySize \in Nat
  BY SizesAssumption DEF TypeInv, TypeOK
<1>7. Len(stream) <= base + Len(t.bytes)
  BY <1>4, NoResponseIsNone DEF WireInv
<1>8. n \in Nat /\ n > 0 /\ n <= Len(stream) - pos /\ Taken(n) = n
  BY <1>1, <1>2, <1>6, Received DEF Taken
<1>9. m + n <= t.length
  <2> DEFINE k == Len(stream)
             h == t.head
             x == t.length
             y == Len(t.bytes)
  <2>1. /\ k \in Nat /\ h \in Nat /\ x \in Nat /\ y = h + x /\ k <= base + y
        /\ pos = base + h + m /\ n <= k - pos /\ pos \in Nat
    BY <1>4, <1>5, <1>6, <1>7, <1>8
  <2> HIDE DEF k, h, x, y
  <2>2. m + n <= x
    BY ONLY <1>6, <1>8, <2>1
  <2> QED BY <2>2 DEF x
<1>10. Given(m + n)'
  <2>1. \A i \in 1..n : pos + i = base + truth.body[m + i]
    <3> TAKE i \in 1..n
    <3>1. m + i \in 1..t.length
      BY <1>5, <1>6, <1>8, <1>9
    <3>2. t.body[m + i] = t.head + (m + i)
      BY <1>5, <3>1
    <3>3. pos + i = base + (t.head + (m + i))
      <4> DEFINE x == t.head
      <4>1. x \in Nat /\ pos = base + x + m /\ base \in Nat /\ n \in Nat
        BY <1>4, <1>5, <1>6, <1>8
      <4> HIDE DEF x
      <4>2. pos + i = base + (x + (m + i))
        BY ONLY <4>1, m \in Nat, i \in 1..n
      <4> QED BY <4>2 DEF x
    <3> QED BY ONLY <3>2, <3>3
  <2> QED BY <1>1, <1>4, <1>6, <1>8, <2>1, GivenMore
<1>11. Len(got') = m + n /\ pos' = base + t.head + (m + n)
  <2>1. Len(got') = m + n
    BY <1>10 DEF Given
  <2> DEFINE h == t.head
  <2>2. h \in Nat /\ pos = base + h + m /\ pos' = pos + n /\ base \in Nat /\ n \in Nat
    BY <1>1, <1>4, <1>5, <1>6, <1>8
  <2> HIDE DEF h
  <2>3. pos' = base + h + (m + n)
    BY ONLY <2>2, m \in Nat
  <2> QED BY <2>1, <2>3 DEF h
<1>12. Given(Len(got))'
  BY <1>10, <1>11 DEF Given
<1>13. CASE m + n >= t.length
  <2>1. pc' = "done"
    BY <1>1, <1>2, <1>4, <1>11, <1>13
  <2>2. m + n = t.length
    <3> DEFINE x == t.length
    <3>1. x \in Nat /\ m + n <= x /\ m + n >= x /\ n \in Nat
      BY <1>5, <1>8, <1>9, <1>13
    <3> HIDE DEF x
    <3>2. m + n = x
      BY ONLY <3>1, m \in Nat
    <3> QED BY <3>2 DEF x
  <2>3. Len(got') = Len(truth'.body) /\ Len(got') <= Len(truth'.body)
    BY <1>1, <1>5, <1>11, <2>2
  <2>4. pos' = base' + Len(truth'.bytes) - (IF truth'.chunked THEN 2 ELSE 0)
    <3>1. base + t.head + (m + n) = base + Len(t.bytes) - 0
      <4> DEFINE x == t.head
                 y == t.length
                 z == Len(t.bytes)
      <4>1. x \in Nat /\ y \in Nat /\ z = x + y /\ m + n = y
        BY <1>5, <2>2
      <4> HIDE DEF x, y, z
      <4>2. base + x + (m + n) = base + z - 0
        BY ONLY <1>6, <4>1
      <4> QED BY <4>2 DEF x, z
    <3>2. (IF truth'.chunked THEN 2 ELSE 0) = 0 /\ base' = base /\ truth' = t
      BY <1>1, <1>4
    <3> QED BY <1>11, <3>1, <3>2
  <2> QED BY <1>12, <2>1, <2>3, <2>4 DEF BodyInv
<1>14. CASE ~(m + n >= t.length)
  <2>1. pc' = "body"
    BY <1>1, <1>2, <1>4, <1>11, <1>14
  <2> QED BY <1>1, <1>4, <1>9, <1>11, <1>12, <2>1 DEF BodyInv
<1> QED BY <1>13, <1>14

\* What is known of the chunk the client is in.
LEMMA ChunkFacts ==
  ASSUME NEW r \in Responses, r.chunked, NEW k \in 1..Len(r.chunks)
  PROVE  LET b == r.bytes
             c == r.chunks[k] IN
         /\ Len(r.chunks) \in Nat /\ k \in Nat /\ k <= Len(r.chunks)
         /\ b \in Seq(Byte) /\ Len(b) \in Nat
         /\ c.line \in Nat /\ c.data \in Nat /\ c.size \in Nat /\ c.before \in Nat
         /\ c.data <= Len(b) /\ LineEndsAt(b, c.line, c.data - 1)
         /\ Spells(SubSeq(b, c.line + 1, c.data - 2), c.size)
         /\ c.size = 0 <=> k = Len(r.chunks)
         /\ \A i \in 1..c.size : r.body[c.before + i] = c.data + i
         /\ k > 1 => b[c.line] = "LF" /\ c.line > 0
         /\ k = Len(r.chunks) => c.before = Len(r.body) /\ c.data + c.size + 2 = Len(b)
         /\ k < Len(r.chunks) =>
              /\ r.chunks[k + 1].line = c.data + c.size + 2
              /\ r.chunks[k + 1].before = c.before + c.size
<1> DEFINE b == r.bytes
           c == r.chunks
<1>1. /\ b \in Seq(Byte) /\ Len(b) \in Nat /\ c \in Seq(Chunk) /\ ChunksFormed(r)
  BY ResponseFacts
<1>2. Len(c) \in Nat /\ k \in Nat /\ k <= Len(c) /\ c[k] \in Chunk /\ k \in DOMAIN c
  BY <1>1
<1>3. /\ c[k].line \in Nat /\ c[k].data \in Nat /\ c[k].size \in Nat /\ c[k].before \in Nat
  BY <1>2 DEF Chunk
<1>4. /\ c[k].data <= Len(b) /\ LineEndsAt(b, c[k].line, c[k].data - 1)
      /\ Spells(SubSeq(b, c[k].line + 1, c[k].data - 2), c[k].size)
      /\ c[k].size = 0 <=> k = Len(c)
      /\ \A i \in 1..c[k].size : r.body[c[k].before + i] = c[k].data + i
  BY <1>1, <1>2 DEF ChunksFormed
<1>5. ASSUME k > 1 PROVE b[c[k].line] = "LF" /\ c[k].line > 0
  <2> DEFINE j == k - 1
  <2>1. j \in 1..Len(c) - 1 /\ j \in DOMAIN c /\ j + 1 = k
    BY <1>1, <1>2, <1>5
  <2> HIDE DEF j
  <2>2. c[j + 1].line = c[j].data + c[j].size + 2 /\ b[c[j].data + c[j].size + 2] = "LF"
    BY <1>1, <2>1 DEF ChunksFormed
  <2>3. c[j] \in Chunk
    BY <1>1, <2>1
  <2>4. c[j].data \in Nat /\ c[j].size \in Nat
    BY <2>3 DEF Chunk
  <2>5. c[j].data + c[j].size + 2 > 0
    BY ONLY <2>4
  <2> QED BY ONLY <2>1, <2>2, <2>5
<1>6. ASSUME k = Len(c) PROVE c[k].before = Len(r.body) /\ c[k].data + c[k].size + 2 = Len(b)
  BY <1>1, <1>6 DEF ChunksFormed
<1>7. ASSUME k < Len(c)
      PROVE  /\ c[k + 1].line = c[k].data + c[k].size + 2
             /\ c[k + 1].before = c[k].before + c[k].size
  <2>1. k \in 1..Len(c) - 1
    BY <1>2, <1>7
  <2> QED BY <1>1, <2>1 DEF ChunksFormed
<1> QED BY <1>1, <1>2, <1>3, <1>4, <1>5, <1>6, <1>7

LEMMA BodyAtChunkData ==
  ASSUME TypeInv, FieldsInv, BodyInv, ChunkData
  PROVE  BodyInv'
<1> SUFFICES ASSUME Sound({"cut", "torn", "fault", "wrapped", "misled"})'
             PROVE  BodyInv'
  BY DEF BodyInv
<1>1. PICK n \in Recv(want) :
        /\ pc = "chunk_data"
        /\ got' = got \o Positions(Taken(n)) /\ pos' = pos + Taken(n)
        /\ pc' = IF n < 0 THEN "done" ELSE "chunk_crlf"
        /\ flaws' = flaws \cup {f \in {"fault"} : n <= 0}
                          \cup {f \in {"torn"} : pc = "chunk_data" /\ 0 < n /\ n < want}
        /\ UNCHANGED <<truth, base>>
  BY DEF ChunkData, ChunkBytes, Deliver, wire
<1>2. flaws \subseteq flaws' /\ ~(n <= 0) /\ ~(0 < n /\ n < want)
  <2>1. "fault" \notin flaws' /\ "torn" \notin flaws'
    BY DEF Sound
  <2> QED BY <1>1, <2>1
<1>3. Sound({"cut", "torn", "fault", "wrapped", "misled"}) /\ Sound({"cut"}) /\ Sound({"wrapped", "misled"})
  BY <1>2 DEF Sound
<1>4. truth \in Responses /\ truth.chunked /\ \E k \in 1..Len(truth.chunks) : InChunk(k)
  BY <1>1, <1>3 DEF FieldsInv, BodyInv
<1>5. PICK k \in 1..Len(truth.chunks) : InChunk(k)
  BY <1>4
<1> DEFINE c == truth.chunks[k]
<1>6. c.size > 0 /\ want = c.size /\ Given(c.before) /\ pos = base + c.data
  BY <1>1, <1>5 DEF InChunk
<1>7. /\ c.data \in Nat /\ c.size \in Nat /\ c.before \in Nat
      /\ \A i \in 1..c.size : truth.body[c.before + i] = c.data + i
  BY <1>4, ChunkFacts
<1>8. stream \in Seq(Byte) /\ pos \in 0..Len(stream) /\ base \in Nat
  BY DEF TypeInv, TypeOK
<1>9. n = c.size /\ Taken(n) = c.size
  <2>1. want \in Nat
    BY <1>6, <1>7
  <2>2. n \in Int /\ (n = -1 \/ n = 0 \/ n \in 1..want)
    BY <1>1, <1>8, <2>1, Received
  <2>3. n = want
    BY <1>2, <2>1, <2>2
  <2> QED BY <1>6, <2>3 DEF Taken
<1>10. PICK before \in Nat, size \in Nat : before = c.before /\ size = c.size
  BY <1>7
<1>11. Given(before + size)'
  <2>1. \A i \in 1..size : pos + i = base + truth.body[before + i]
    <3> TAKE i \in 1..size
    <3>1. truth.body[before + i] = c.data + i
      BY <1>7, <1>10
    <3> DEFINE d == c.data
    <3>2. pos = base + d /\ d \in Nat /\ base \in Nat
      BY <1>6, <1>7, <1>8
    <3> HIDE DEF d
    <3>3. pos + i = base + (d + i)
      BY ONLY <3>2, i \in 1..size
    <3> QED BY <3>1, <3>3 DEF d
  <2>2. got' = got \o Positions(size) /\ Given(before)
    BY <1>1, <1>6, <1>9, <1>10
  <2> QED BY <1>1, <2>1, <2>2, GivenMore
<1>12. pc' = "chunk_crlf" /\ pos' = base + c.data + c.size
  BY <1>1, <1>2, <1>6, <1>7, <1>8, <1>9
<1>13. InChunk(k)'
  <2>1. truth' = truth /\ base' = base
    BY <1>1
  <2>2. Given(truth.chunks[k].before + truth.chunks[k].size)'
    BY <1>10, <1>11, <2>1
  <2> QED BY <1>6, <1>12, <2>1, <2>2 DEF InChunk
<1> QED BY <1>1, <1>4, <1>12, <1>13 DEF BodyInv

LEMMA BodyAtChunkCrlf ==
  ASSUME TypeInv, FieldsInv, BodyInv, ChunkCrlf
  PROVE  BodyInv'
<1> SUFFICES ASSUME Sound({"cut", "torn", "fault", "wrapped", "misled"})'
             PROVE  BodyInv'
  BY DEF BodyInv
<1>1. PICK n \in Recv(2) :
        /\ pc = "chunk_crlf" /\ pos' = pos + Taken(n) /\ pc' = "chunk_line"
        /\ flaws' = flaws \cup {f \in {"fault"} : n <= 0}
        /\ UNCHANGED <<truth, base, got>>
  BY DEF ChunkCrlf, wire
<1>2. flaws \subseteq flaws' /\ ~(n <= 0)
  <2>1. "fault" \notin flaws'
    BY DEF Sound
  <2> QED BY <1>1, <2>1
<1>3. Sound({"cut", "torn", "fault", "wrapped", "misled"}) /\ Sound({"cut"}) /\ Sound({"wrapped", "misled"})
  BY <1>2 DEF Sound
<1>4. truth \in Responses /\ truth.chunked /\ \E k \in 1..Len(truth.chunks) : InChunk(k)
  BY <1>1, <1>3 DEF FieldsInv, BodyInv
<1>5. PICK k \in 1..Len(truth.chunks) : InChunk(k)
  BY <1>4
<1> DEFINE c == truth.chunks[k]
           j == k + 1
<1>6. c.size > 0 /\ Given(c.before + c.size) /\ pos = base + c.data + c.size
  BY <1>1, <1>5 DEF InChunk
<1>7. /\ c.data \in Nat /\ c.size \in Nat /\ c.before \in Nat /\ k \in Nat
      /\ k < Len(truth.chunks) /\ Len(truth.chunks) \in Nat
      /\ truth.chunks[k + 1].line = c.data + c.size + 2
      /\ truth.chunks[k + 1].before = c.before + c.size
  <2>1. /\ c.data \in Nat /\ c.size \in Nat /\ c.before \in Nat /\ k \in Nat
        /\ k <= Len(truth.chunks) /\ Len(truth.chunks) \in Nat
        /\ c.size = 0 <=> k = Len(truth.chunks)
        /\ k < Len(truth.chunks) =>
              /\ truth.chunks[k + 1].line = c.data + c.size + 2
              /\ truth.chunks[k + 1].before = c.before + c.size
    BY <1>4, ChunkFacts
  <2>2. k # Len(truth.chunks)
    BY <1>6, <2>1
  <2>3. k < Len(truth.chunks)
    BY <2>1, <2>2
  <2> QED BY <2>1, <2>3
<1>8. stream \in Seq(Byte) /\ pos \in 0..Len(stream) /\ base \in Nat
  BY DEF TypeInv, TypeOK
<1>9. (n = 1 \/ n = 2) /\ Taken(n) = n
  <2>1. n \in Int /\ (n = -1 \/ n = 0 \/ n \in 1..2)
    BY <1>1, <1>8, Received
  <2> QED BY <1>2, <2>1 DEF Taken
<1>10. j \in 1..Len(truth.chunks) /\ j > 1
  BY <1>7
<1> HIDE DEF c
<1>11. /\ truth.chunks[j].before = c.before + c.size
       /\ truth.chunks[j].line = c.data + c.size + 2
  BY <1>7
<1> HIDE DEF j
<1>12. pos' = base + truth.chunks[j].line \/ pos' = base + truth.chunks[j].line - 1
  <2>1. CASE n = 1
    <3>1. pos' = base + c.data + c.size + 1
      BY <1>1, <1>6, <1>9, <2>1
    <3>2. base + (c.data + c.size + 2) - 1 = base + c.data + c.size + 1
      <4>1. \A x, y, z \in Nat : x + (y + z + 2) - 1 = x + y + z + 1
        OBVIOUS
      <4> QED BY ONLY <1>7, <1>8, <4>1
    <3> QED BY <1>11, <3>1, <3>2
  <2>2. CASE n = 2
    <3>1. pos' = base + c.data + c.size + 2
      BY <1>1, <1>6, <1>9, <2>2
    <3>2. base + (c.data + c.size + 2) = base + c.data + c.size + 2
      BY <1>7, <1>8
    <3> QED BY <1>11, <3>1, <3>2
  <2> QED BY <1>9, <2>1, <2>2
<1>13. Given(truth.chunks[j].before)
  BY <1>6, <1>11
<1>14. InChunk(j)'
  <2>1. Given(truth.chunks[j].before)'
    BY <1>1, <1>13 DEF Given
  <2>2. pc' = "chunk_line" /\ truth' = truth /\ base' = base
    BY <1>1
  <2> QED BY <1>10, <1>12, <2>1, <2>2 DEF InChunk
<1> QED BY <1>1, <1>4, <1>10, <1>14 DEF BodyInv

\* Where the client may stand before it reads the line of the k-th chunk.
AtChunk(k) ==
  LET c == truth.chunks[k] IN
  pos = base + c.line \/ (k > 1 /\ pos = base + c.line - 1)

\* The line read is the chunk's.
LEMMA ChunkLineEnds ==
  ASSUME TypeInv, WireInv, truth \in Responses, truth.chunked,
         NEW k \in 1..Len(truth.chunks), AtChunk(k), LineEnd # 0
  PROVE  LineEnd = base + truth.chunks[k].data
<1> DEFINE e == LineEnd
           b == truth.bytes
           line == truth.chunks[k].line
           data_ == truth.chunks[k].data
<1>0. stream \in Seq(Byte) /\ Len(stream) \in Nat /\ pos \in 0..Len(stream) /\ base \in Nat
  BY DEF TypeInv, TypeOK
<1>1. /\ line \in Nat /\ data_ \in Nat /\ LineEndsAt(b, line, data_ - 1) /\ (k > 1 => line > 0)
      /\ data_ <= Len(b) /\ Len(b) \in Nat
  BY ChunkFacts
<1>2. /\ e \in pos + 2..Len(stream) /\ stream[e] = "LF" /\ stream[e - 1] = "CR"
      /\ \A q \in pos + 2..e - 1 : ~(stream[q] = "LF" /\ stream[q - 1] = "CR")
  BY <1>0, LineEndIs
<1>3. \A i \in base + 1..Len(stream) : stream[i] = b[i - base]
  BY NoResponseIsNone DEF WireInv
<1>4. pos = base + line \/ (line > 0 /\ pos = base + line - 1)
  BY <1>1 DEF AtChunk
<1> HIDE DEF e, line, data_, b
<1>5. /\ line < data_ - 1 /\ b[data_ - 1] = "CR" /\ b[data_] = "LF"
      /\ \A i \in line + 1..data_ - 2 : b[i] \notin {"CR", "LF"}
  <2>1. (data_ - 1) + 1 = data_ /\ (data_ - 1) - 1 = data_ - 2
    BY <1>1
  <2> QED BY <1>1, <2>1 DEF LineEndsAt
<1>6. e \in Nat /\ pos \in Nat /\ e >= pos + 2 /\ e <= Len(stream) /\ pos >= base
  BY <1>0, <1>1, <1>2, <1>4
<1>7. b[e - base] = "LF"
  <2>1. e \in base + 1..Len(stream)
    BY <1>0, <1>6
  <2> QED BY <1>2, <1>3, <2>1
<1>8. e - base >= data_
  <2> DEFINE i == e - base
  <2>1. i \in Nat /\ i >= line + 1
    BY <1>0, <1>1, <1>4, <1>6
  <2> HIDE DEF i
  <2>2. i \notin line + 1..data_ - 2 /\ i # data_ - 1
    BY <1>5, <1>7 DEF i
  <2>3. i >= data_
    BY ONLY <1>1, <2>1, <2>2
  <2> QED BY <2>3 DEF i
<1>9. ~(e - base > data_)
  <2> SUFFICES ASSUME e - base > data_ PROVE FALSE
    OBVIOUS
  <2> DEFINE q == base + data_
             p == base + data_ - 1
  <2>1. /\ q \in pos + 2..e - 1 /\ q \in base + 1..Len(stream) /\ p \in base + 1..Len(stream)
        /\ q - base = data_ /\ p - base = data_ - 1 /\ q - 1 = p
    BY <1>0, <1>1, <1>4, <1>5, <1>6
  <2> HIDE DEF q, p
  <2>2. stream[q] = "LF" /\ stream[p] = "CR"
    BY <1>3, <1>5, <2>1
  <2> QED BY <1>2, <2>1, <2>2
<1>10. e = base + data_
  BY <1>0, <1>1, <1>6, <1>8, <1>9
<1> QED BY <1>10 DEF e, data_

\* strtol finds the chunk's size on it, with or without the LF in front.
LEMMA ChunkSizeRead ==
  ASSUME TypeInv, WireInv, truth \in Responses, truth.chunked,
         NEW k \in 1..Len(truth.chunks), AtChunk(k), LineEnd # 0,
         NEW l, l.count = LineEnd - pos - 1
  PROVE  Number(Stored(l)) = truth.chunks[k].size
<1> DEFINE e == LineEnd
           b == truth.bytes
           c == truth.chunks[k]
           line == c.line
           d == c.data
           s == Stored(l)
           m == l.count
<1>0. stream \in Seq(Byte) /\ Len(stream) \in Nat /\ pos \in 0..Len(stream) /\ base \in Nat
  BY DEF TypeInv, TypeOK
<1>1. /\ line \in Nat /\ d \in Nat /\ LineEndsAt(b, line, d - 1) /\ d <= Len(b)
      /\ Len(b) \in Nat /\ b \in Seq(Byte)
      /\ k > 1 => line > 0 /\ b[line] = "LF"
      /\ Spells(SubSeq(b, line + 1, d - 2), c.size)
  BY ChunkFacts
<1>2. e = base + d /\ e \in pos + 2..Len(stream) /\ m = e - pos - 1
  BY <1>0, ChunkLineEnds, LineEndIs
<1>3. \A i \in base + 1..Len(stream) : stream[i] = b[i - base]
  BY NoResponseIsNone DEF WireInv
<1>4. pos = base + line \/ (k > 1 /\ pos = base + line - 1)
  BY DEF AtChunk
<1>5. line < d - 1
  BY <1>1 DEF LineEndsAt
<1> DEFINE q == d - 1
           text == SubSeq(b, line + 1, q - 1)
<1>6. q \in 1..Len(b) /\ q - 1 = d - 2 /\ q - 1 - line = d - 2 - line
  <2> HIDE DEF line, d, b
  <2> QED BY <1>1, <1>5
<1>7. Spells(text, c.size) /\ LineEndsAt(b, line, q)
  BY <1>1, <1>6
<1>8. /\ text \in Seq(Byte) /\ Len(text) = q - 1 - line
      /\ \A i \in 1..q - 1 - line : text[i] = b[line + i]
      /\ Number(text) = c.size /\ Number(<<"LF">> \o text) = c.size
  <2> HIDE DEF q, line, b, c
  <2> QED BY <1>1, <1>6, <1>7, LineNumber
<1>9. m \in Nat /\ m > 0 /\ m <= Len(stream) - pos
  <2>1. e \in pos + 2..Len(stream) /\ m = e - pos - 1
    BY <1>2
  <2> HIDE DEF e, m
  <2> QED BY ONLY <1>0, <2>1
<1>10. s \in Seq(Byte) /\ Len(s) = m - 1 /\ \A i \in 1..m - 1 : s[i] = stream[pos + i]
  <2>1. /\ s \in Seq(Byte) /\ Len(s) = (IF m = 0 THEN 0 ELSE m - 1)
        /\ \A i \in 1..m - 1 : s[i] = stream[pos + i]
    BY <1>0, <1>9, StoredType
  <2> HIDE DEF s, m
  <2> QED BY <1>9, <2>1
<1> HIDE DEF text, s, m, e, b
<1>11. \A i \in 1..m - 1 : s[i] = b[(pos + i) - base]
  <2> TAKE i \in 1..m - 1
  <2> DEFINE j == pos + i
  <2>1. j \in base + 1..Len(stream)
    <3> HIDE DEF line
    <3>1. base <= pos
      BY ONLY <1>0, <1>1, <1>4
    <3> QED BY ONLY <1>0, <1>9, <3>1, i \in 1..m - 1
  <2>2. s[i] = stream[j]
    BY <1>10
  <2> HIDE DEF j
  <2>3. s[i] = b[j - base]
    BY <1>3, <2>1, <2>2
  <2>4. j = pos + i
    BY DEF j
  <2> QED BY ONLY <2>3, <2>4
<1>12. CASE pos = base + line
  <2>1. m - 1 = q - 1 - line /\ \A i \in 1..m - 1 : (pos + i) - base = line + i
    <3> HIDE DEF line, d
    <3> QED BY <1>0, <1>1, <1>2, <1>12
  <2> HIDE DEF q, line
  <2>2. Len(s) = Len(text) /\ \A i \in 1..Len(s) : s[i] = text[i]
    BY <1>8, <1>10, <1>11, <2>1
  <2>3. s = text
    BY <1>8, <1>10, <2>2
  <2> QED BY <1>8, <2>3 DEF s
<1>13. CASE k > 1 /\ pos = base + line - 1
  <2>1. m - 1 = 1 + (q - 1 - line) /\ \A i \in 1..m - 1 : (pos + i) - base = line + (i - 1)
    <3> HIDE DEF line, d
    <3> QED BY <1>0, <1>1, <1>2, <1>13
  <2> DEFINE w == <<"LF">> \o text
  <2>2. w \in Seq(Byte) /\ Len(w) = 1 + Len(text)
        /\ \A i \in 1..1 + Len(text) : w[i] = IF i = 1 THEN "LF" ELSE text[i - 1]
    <3>1. "LF" \in Byte
      BY DEF Byte
    <3>2. <<"LF">> \in Seq(Byte) /\ Len(<<"LF">>) = 1 /\ <<"LF">>[1] = "LF"
      BY <3>1
    <3> DEFINE v == <<"LF">>
    <3> HIDE DEF v
    <3>3. /\ v \o text \in Seq(Byte) /\ Len(v \o text) = Len(v) + Len(text)
          /\ \A i \in 1..Len(v) + Len(text) :
               (v \o text)[i] = IF i <= Len(v) THEN v[i] ELSE text[i - Len(v)]
      BY <1>8, <3>2, ConcatProperties DEF v
    <3>4. v \in Seq(Byte) /\ Len(v) = 1 /\ v[1] = "LF" /\ Len(text) \in Nat
      BY <1>8, <3>2 DEF v
    <3>5. /\ v \o text \in Seq(Byte) /\ Len(v \o text) = 1 + Len(text)
          /\ \A i \in 1..1 + Len(text) :
               (v \o text)[i] = IF i = 1 THEN "LF" ELSE text[i - 1]
      BY ONLY <3>3, <3>4
    <3> QED BY <3>5 DEF v
  <2> HIDE DEF w, q, line
  <2>3. \A i \in 1..m - 1 : s[i] = w[i]
    <3> TAKE i \in 1..m - 1
    <3>1. s[i] = b[line + (i - 1)]
      BY <1>11, <2>1
    <3>2. CASE i = 1
      <4>1. s[i] = "LF"
        BY <1>1, <1>13, <3>1, <3>2 DEF b, line
      <4>2. 1 \in 1..1 + Len(text)
        BY <1>8
      <4> QED BY <2>2, <3>2, <4>1, <4>2
    <3>3. CASE i # 1
      <4>1. i - 1 \in 1..q - 1 - line /\ i \in 1..1 + Len(text)
        BY <1>8, <2>1, <3>3
      <4>2. text[i - 1] = b[line + (i - 1)]
        BY <1>8, <4>1
      <4>3. w[i] = text[i - 1]
        BY <2>2, <3>3, <4>1
      <4> QED BY <3>1, <4>2, <4>3
    <3> QED BY <3>2, <3>3
  <2>4. s = w
    <3>1. s \in Seq(Byte) /\ w \in Seq(Byte) /\ Len(s) = m - 1 /\ Len(w) = m - 1
      BY <1>8, <1>10, <2>1, <2>2
    <3>2. \A i \in 1..Len(s) : s[i] = w[i]
      BY <2>3, <3>1
    <3> QED BY ONLY <3>1, <3>2
  <2> QED BY <1>8, <2>4 DEF s, w
<1> QED BY <1>4, <1>12, <1>13

\* No chunk holds more than the body.
LEMMA ChunksFit ==
  ASSUME NEW r \in Responses, r.chunked, NEW k \in 1..Len(r.chunks)
  PROVE  r.chunks[k].before + r.chunks[k].size <= Len(r.body)
<1> DEFINE c == r.chunks
           n == Len(c)
           size == Len(r.body)
           Over(i) == c[i].before + c[i].size > size
           S == {i \in 0..n : n - i \in 1..n /\ Over(n - i)}
<1>1. n \in Nat /\ size \in Nat
  BY ResponseFacts, ChunkFacts
<1>2. \A i \in 1..n : c[i].before \in Nat /\ c[i].size \in Nat
  BY ChunkFacts
<1> HIDE DEF c, n, size
<1>3. S = {}
  <2> SUFFICES ASSUME S # {} PROVE FALSE
    OBVIOUS
  <2>1. S \in SUBSET Nat
    BY <1>1
  <2>2. PICK i \in S : \A j \in S : i <= j
    BY <2>1, MinIsLeast
  <2> DEFINE m == n - i
  <2>3. m \in 1..n /\ Over(m)
    BY <2>2
  <2>4. /\ c[m].size = 0 <=> m = n
        /\ m = n => c[m].before = size
        /\ m < n => c[m + 1].before = c[m].before + c[m].size
    <3> HIDE DEF m
    <3> QED BY <2>3, ChunkFacts DEF c, n, size
  <2>5. m # n
    <3> HIDE DEF m
    <3> QED BY <1>1, <1>2, <2>3, <2>4
  <2>6. m + 1 \in 1..n /\ Over(m + 1)
    <3>1. m + 1 \in 1..n /\ m < n
      BY <1>1, <2>3, <2>5
    <3> HIDE DEF m
    <3>2. c[m + 1].before = c[m].before + c[m].size
      BY <2>4, <3>1
    <3> DEFINE x == c[m + 1].before
               y == c[m + 1].size
    <3>3. x \in Nat /\ y \in Nat
      BY <1>2, <3>1
    <3>4. x > size
      BY <2>3, <3>2
    <3> HIDE DEF x, y
    <3>5. x + y > size
      BY ONLY <1>1, <3>3, <3>4
    <3> QED BY <3>1, <3>5 DEF x, y
  <2>7. i - 1 \in 0..n /\ n - (i - 1) = m + 1
    BY <1>1, <2>2, <2>6
  <2>8. i - 1 \in S
    BY <2>6, <2>7
  <2>9. i <= i - 1
    BY <2>2, <2>8
  <2> QED BY <2>2, <2>9
<1>4. n - k \in 0..n /\ n - (n - k) = k /\ k \in 1..n
  BY <1>1 DEF n, c
<1>5. ~Over(k)
  BY <1>3, <1>4
<1>6. c[k].before \in Nat /\ c[k].size \in Nat
  BY <1>2, <1>4
<1>7. c[k].before + c[k].size <= size
  BY <1>1, <1>5, <1>6
<1> QED BY <1>7 DEF c, size

LEMMA BodyAtChunkLine ==
  ASSUME TypeInv, WireInv, FieldsInv, BodyInv, ChunkLine
  PROVE  BodyInv'
<1> SUFFICES ASSUME Sound({"cut", "torn", "fault", "wrapped", "misled"})'
             PROVE  BodyInv'
  BY DEF BodyInv
<1>1. PICK l \in ReadOneLine(LineLen) :
        LET len == ToInt(Number(Stored(l))) IN
        /\ pc = "chunk_line" /\ pos' = l.pos /\ want' = len
        /\ pc' = IF len <= 0 \/ len > BodySize THEN "done" ELSE "chunk_data"
        /\ flaws' = flaws \cup {f \in {"fault"} : ~l.whole}
                          \cup {f \in {"small"} : len > BodySize}
                          \cup {f \in {"wrapped"} : Number(Stored(l)) >= IntHalf}
        /\ UNCHANGED <<truth, base, got>>
  BY DEF ChunkLine, wire
<1>2. flaws \subseteq flaws' /\ l.whole /\ ~(Number(Stored(l)) >= IntHalf)
  <2>1. "fault" \notin flaws' /\ "wrapped" \notin flaws'
    BY DEF Sound
  <2> QED BY <1>1, <2>1
<1>3. Sound({"cut", "torn", "fault", "wrapped", "misled"}) /\ Sound({"cut"}) /\ Sound({"wrapped", "misled"})
  BY <1>2 DEF Sound
<1>4. truth \in Responses /\ truth.chunked /\ \E k \in 1..Len(truth.chunks) : InChunk(k)
  BY <1>1, <1>3 DEF FieldsInv, BodyInv
<1>5. PICK k \in 1..Len(truth.chunks) : InChunk(k)
  BY <1>4
<1> DEFINE c == truth.chunks[k]
<1>6. Given(c.before) /\ AtChunk(k)
  BY <1>1, <1>5 DEF InChunk, AtChunk
<1>7. /\ stream \in Seq(Byte) /\ pos \in 0..Len(stream) /\ base \in Nat /\ LineLen \in Nat \ {0}
      /\ IntHalf \in Nat /\ BodySize \in Nat
  BY SizesAssumption DEF TypeInv, TypeOK
<1>8. LineEnd # 0 /\ l.pos = LineEnd /\ l.count = LineEnd - pos - 1
  BY <1>1, <1>2, <1>7, LineRead
<1>9. LineEnd = base + c.data
  BY <1>4, <1>6, <1>8, ChunkLineEnds
<1>10. Number(Stored(l)) = c.size
  BY <1>4, <1>6, <1>8, ChunkSizeRead
<1>11. /\ c.size \in Nat /\ c.data \in Nat /\ c.before \in Nat
       /\ c.size = 0 => k = Len(truth.chunks)
       /\ k = Len(truth.chunks) =>
            c.before = Len(truth.body) /\ c.data + c.size + 2 = Len(truth.bytes)
  BY <1>4, ChunkFacts
<1>12. c.before + c.size <= Len(truth.body) /\ Len(truth.body) \in Nat /\ Len(truth.bytes) \in Nat
  BY <1>4, ChunksFit, ResponseFacts
<1>13. ToInt(Number(Stored(l))) = c.size
  <2> DEFINE x == c.size
  <2>1. x \in Nat /\ ~(x >= IntHalf)
    BY <1>2, <1>10, <1>11
  <2> HIDE DEF x
  <2>2. x < IntHalf
    BY ONLY <1>7, <2>1
  <2>3. ToInt(x) = x
    BY <2>1, <2>2, IntOf
  <2> QED BY <1>10, <2>3 DEF x
<1>14. /\ want' = c.size /\ pos' = base + c.data
       /\ pc' = IF c.size <= 0 \/ c.size > BodySize THEN "done" ELSE "chunk_data"
       /\ c.size > BodySize => "small" \in flaws'
  BY <1>1, <1>8, <1>9, <1>13
<1>15. truth' = truth /\ base' = base /\ got' = got
  BY <1>1
<1>16. CASE c.size <= 0 \/ c.size > BodySize
  <2>1. pc' = "done"
    BY <1>14, <1>16
  <2>2. Len(got) = c.before
    BY <1>6 DEF Given
  <2>3. Len(got') <= Len(truth'.body)
    <3> DEFINE x == c.before
               y == c.size
               z == Len(truth.body)
    <3>1. x \in Nat /\ y \in Nat /\ z \in Nat /\ x + y <= z
      BY <1>11, <1>12
    <3> HIDE DEF x, y, z
    <3>2. x <= z
      BY ONLY <3>1
    <3> QED BY <1>15, <2>2, <3>2 DEF x, z
  <2>4. Given(Len(got))'
    <3>1. Given(Len(got))
      BY <1>6, <2>2
    <3> QED BY <1>15, <3>1 DEF Given
  <2>5. ASSUME flaws' = {}
        PROVE  /\ Len(got') = Len(truth'.body)
               /\ pos' = base' + Len(truth'.bytes) - (IF truth'.chunked THEN 2 ELSE 0)
    <3>1. c.size = 0
      BY <1>11, <1>14, <1>16, <2>5
    <3>2. c.before = Len(truth.body) /\ c.data + 0 + 2 = Len(truth.bytes)
      BY <1>11, <3>1
    <3>3. base + c.data = base + Len(truth.bytes) - 2
      <4> DEFINE x == c.data
                 y == Len(truth.bytes)
      <4>1. x \in Nat /\ y \in Nat /\ base \in Nat /\ x + 0 + 2 = y
        BY <1>7, <1>11, <1>12, <3>2
      <4> HIDE DEF x, y
      <4>2. base + x = base + y - 2
        BY ONLY <4>1
      <4> QED BY <4>2 DEF x, y
    <3>4. (IF truth'.chunked THEN 2 ELSE 0) = 2
      BY <1>4, <1>15
    <3> QED BY <1>14, <1>15, <2>2, <3>2, <3>3, <3>4
  <2> QED BY <2>1, <2>3, <2>4, <2>5 DEF BodyInv
<1>17. CASE ~(c.size <= 0 \/ c.size > BodySize)
  <2>1. pc' = "chunk_data" /\ c.size > 0
    BY <1>11, <1>14, <1>17
  <2>2. Given(truth.chunks[k].before)'
    BY <1>6, <1>15 DEF Given
  <2>3. InChunk(k)'
    BY <1>14, <1>15, <2>1, <2>2 DEF InChunk
  <2> QED BY <1>4, <1>15, <2>1, <2>3 DEF BodyInv
<1> QED BY <1>16, <1>17

\* Everything that is known of an exchange.
ExchangeInv == TypeInv /\ WireInv /\ HeaderInv /\ FieldsInv /\ BodyInv

LEMMA ExchangeInit == Init => ExchangeInv
<1>1. Init => TypeInv
  BY InitTypes
<1>2. Init => WireInv /\ HeaderInv /\ FieldsInv /\ BodyInv
  BY DEF Init, WireInv, HeaderInv, FieldsInv, BodyInv
<1> QED BY <1>1, <1>2 DEF ExchangeInv

LEMMA ExchangeKept == ExchangeInv /\ [Next]_vars => ExchangeInv'
<1> SUFFICES ASSUME ExchangeInv, [Next]_vars PROVE ExchangeInv'
  OBVIOUS
<1> USE DEF ExchangeInv
<1>1. TypeInv' /\ WireInv' /\ HeaderInv' /\ FieldsInv'
  BY TypesKept, WireKept, HeaderKept, FieldsKept
<1>2. BodyInv'
  BY BodyOutside, BodyAtParse, BodyAtNormal, BodyAtChunkLine, BodyAtChunkData,
     BodyAtChunkCrlf DEF Next, Client
<1> QED BY <1>1, <1>2

THEOREM Exchanges == Spec => []ExchangeInv
BY ExchangeInit, ExchangeKept, PTL DEF Spec

\* After a header that was read whole, the fields are those of this response and
\* of no earlier one (httpc_handle_response): the status for every response that
\* HTTP/1.1 allows, and the length, as an int, and chunked for every one in which
\* httpc_header_get meets the names first where the fields are.
THEOREM FieldsAreTheResponses == Spec => []HeaderTruth
<1>1. ExchangeInv => HeaderTruth
  BY DEF ExchangeInv, FieldsInv, Sound, HeaderTruth, HeaderRead
<1> QED BY <1>1, Exchanges, PTL

LEMMA PrefixIs ==
  ASSUME NEW S, NEW s \in Seq(S), NEW t \in Seq(S), Len(s) <= Len(t),
         \A i \in 1..Len(s) : s[i] = t[i]
  PROVE  IsPrefix(s, t)
<1> DEFINE n == Len(s)
<1>1. n \in Nat /\ Len(t) \in Nat /\ n <= Len(t)
  OBVIOUS
<1>2. /\ SubSeq(s, 1, n) \in Seq(S) /\ Len(SubSeq(s, 1, n)) = n
      /\ \A i \in 1..n : SubSeq(s, 1, n)[i] = s[i]
  OBVIOUS
<1>3. /\ SubSeq(t, 1, n) \in Seq(S) /\ Len(SubSeq(t, 1, n)) = n
      /\ \A i \in 1..n : SubSeq(t, 1, n)[i] = t[i]
  BY <1>1
<1>4. SubSeq(s, 1, n) = SubSeq(t, 1, n)
  <2> DEFINE u == SubSeq(s, 1, n)
             v == SubSeq(t, 1, n)
  <2>1. u \in Seq(S) /\ v \in Seq(S) /\ Len(u) = Len(v) /\ \A i \in 1..Len(u) : u[i] = v[i]
    BY <1>2, <1>3
  <2> HIDE DEF u, v
  <2>2. u = v
    BY ONLY <2>1
  <2> QED BY <2>2 DEF u, v
<1> QED BY <1>1, <1>4 DEF IsPrefix

LEMMA BodyType ==
  ASSUME ExchangeInv
  PROVE  /\ Body \in Seq(Nat) /\ Len(Body) = Len(truth.body) /\ Len(truth.body) \in Nat
         /\ \A i \in 1..Len(truth.body) : Body[i] = base + truth.body[i]
         /\ got \in Seq(Nat) /\ Len(got) \in Nat
<1>1. base \in Nat /\ truth \in Responses \cup {NoResponse} /\ got \in Seq(Nat)
  BY DEF ExchangeInv, TypeInv, TypeOK
<1>2. truth.body \in Seq(Nat)
  <2>1. CASE truth \in Responses
    <3>1. truth.body \in Seq(1..Len(truth.bytes)) /\ Len(truth.bytes) \in Nat
      BY <2>1, ResponseFacts
    <3> QED BY <3>1
  <2>2. CASE truth = NoResponse
    BY <2>2 DEF NoResponse
  <2> QED BY <1>1, <2>1, <2>2
<1> DEFINE n == Len(truth.body)
<1>3. n \in Nat /\ \A i \in 1..n : base + truth.body[i] \in Nat
  BY <1>1, <1>2
<1>4. Body = [i \in 1..n |-> base + truth.body[i]]
  BY DEF Body
<1> HIDE DEF n
<1>5. Body \in Seq(Nat) /\ Len(Body) = n /\ \A i \in 1..n : Body[i] = base + truth.body[i]
  BY <1>3, <1>4
<1> QED BY <1>1, <1>3, <1>5 DEF n

\* How much of the body the application may have.
LEMMA GivenFits ==
  ASSUME ExchangeInv, Sound({"cut", "torn", "fault", "wrapped", "misled"})
  PROVE  got = <<>> \/ (Given(Len(got)) /\ Len(got) <= Len(truth.body))
<1> USE DEF ExchangeInv
<1>1. CASE pc \in {"idle", "send_header", "send_data", "header", "parse", "failed"}
  BY <1>1 DEF BodyInv
<1>2. CASE pc = "body"
  <2>1. truth \in Responses
    BY <1>2 DEF FieldsInv, Sound
  <2>2. ~truth.chunked /\ Given(Len(got)) /\ Len(got) <= truth.length
    BY <1>2 DEF BodyInv
  <2>3. Len(truth.body) = truth.length
    BY <2>1, <2>2, ResponseFacts DEF PlainFormed
  <2> QED BY <2>2, <2>3
<1>3. CASE pc \in {"chunk_line", "chunk_data", "chunk_crlf"}
  <2>1. truth \in Responses
    BY <1>3 DEF FieldsInv, Sound
  <2>2. truth.chunked /\ \E k \in 1..Len(truth.chunks) : InChunk(k)
    BY <1>3 DEF BodyInv
  <2>3. PICK k \in 1..Len(truth.chunks) : InChunk(k)
    BY <2>2
  <2> DEFINE x == truth.chunks[k].before
             y == truth.chunks[k].size
             z == Len(truth.body)
  <2>4. x + y <= z /\ x \in Nat /\ y \in Nat /\ z \in Nat
    BY <2>1, <2>2, ChunksFit, ChunkFacts, ResponseFacts
  <2>5. Given(x) \/ Given(x + y)
    BY <1>3, <2>3 DEF InChunk
  <2> HIDE DEF x, y, z
  <2>6. Given(Len(got)) /\ (Len(got) = x \/ Len(got) = x + y)
    BY <2>5 DEF Given
  <2>7. Len(got) <= z
    BY ONLY <2>4, <2>6
  <2> QED BY <2>6, <2>7 DEF z
<1>4. CASE pc = "done"
  BY <1>4 DEF BodyInv
<1>5. pc \in {"idle", "send_header", "send_data", "header", "parse", "failed", "body",
              "chunk_line", "chunk_data", "chunk_crlf", "done"}
  BY DEF TypeInv, TypeOK
<1> QED BY <1>1, <1>2, <1>3, <1>4, <1>5

LEMMA GotIsPrefix ==
  ASSUME ExchangeInv, Sound({"cut", "torn", "fault", "wrapped", "misled"})
  PROVE  IsPrefix(got, Body)
<1> DEFINE b == Body
<1>1. /\ b \in Seq(Nat) /\ Len(b) = Len(truth.body) /\ Len(b) \in Nat
      /\ \A i \in 1..Len(truth.body) : b[i] = base + truth.body[i]
      /\ got \in Seq(Nat) /\ Len(got) \in Nat
  BY BodyType
<1> HIDE DEF b
<1>2. CASE got = <<>>
  <2>1. Len(got) = 0
    BY <1>2
  <2>2. Len(got) <= Len(b) /\ \A i \in 1..Len(got) : got[i] = b[i]
    BY <1>1, <2>1
  <2> QED BY <1>1, <2>2, PrefixIs DEF b
<1>3. CASE Given(Len(got)) /\ Len(got) <= Len(truth.body)
  <2>1. Len(got) <= Len(b) /\ \A i \in 1..Len(got) : got[i] = b[i]
    BY <1>1, <1>3 DEF Given
  <2> QED BY <1>1, <2>1, PrefixIs DEF b
<1> QED BY <1>2, <1>3, GivenFits

\* Whatever the sizes of the reads, the application is handed the body's bytes
\* and no others, in order and once each (httpc_recv_response).
THEOREM BodyHandedOutInOrder == Spec => []BodyInOrder
<1>1. ExchangeInv => BodyInOrder
  BY GotIsPrefix DEF BodyInOrder, Sound
<1> QED BY <1>1, Exchanges, PTL

LEMMA DoneIsWhole ==
  ASSUME ExchangeInv, pc = "done", flaws = {}
  PROVE  got = Body
<1> DEFINE b == Body
<1>1. /\ b \in Seq(Nat) /\ Len(b) = Len(truth.body)
      /\ \A i \in 1..Len(truth.body) : b[i] = base + truth.body[i]
      /\ got \in Seq(Nat)
  BY BodyType
<1> HIDE DEF b
<1>2. Given(Len(got)) /\ Len(got) = Len(truth.body)
  BY DEF ExchangeInv, BodyInv, Sound
<1>3. Len(got) = Len(b) /\ \A i \in 1..Len(got) : got[i] = b[i]
  BY <1>1, <1>2 DEF Given
<1>4. got \in Seq(Nat) /\ b \in Seq(Nat)
  BY <1>1
<1>5. got = b
  BY ONLY <1>3, <1>4, SeqEqual
<1> QED BY <1>5 DEF b

\* When an exchange ends well and nothing excuses it, the body was delivered to
\* its last byte.
THEOREM DoneIsWholeBody == Spec => []DoneMeansWhole
<1>1. ExchangeInv => DoneMeansWhole
  BY DoneIsWhole DEF DoneMeansWhole
<1> QED BY <1>1, Exchanges, PTL

LEMMA RestOfStream ==
  ASSUME ExchangeInv, pc = "done", flaws = {}, link = "open"
  PROVE  SubSeq(stream, pos + 1, Len(stream)) = IF chunked THEN <<"CR", "LF">> ELSE <<>>
<1> DEFINE b == truth.bytes
           L == Len(stream)
<1>1. /\ truth \in Responses /\ chunked = truth.chunked
      /\ pos = base + Len(b) - (IF truth.chunked THEN 2 ELSE 0)
  BY DEF ExchangeInv, FieldsInv, BodyInv, Sound
<1>2. stream \in Seq(Byte) /\ base \in Nat /\ L \in Nat
  BY DEF ExchangeInv, TypeInv, TypeOK
<1>3. L = base + Len(b) /\ \A i \in base + 1..L : stream[i] = b[i - base]
  BY <1>1, NoResponseIsNone DEF ExchangeInv, WireInv
<1>4. Len(b) \in Nat /\ truth.chunked \in BOOLEAN
  BY <1>1, ResponseFacts
<1>5. CASE ~truth.chunked
  <2>1. pos + 1 = L + 1
    BY <1>1, <1>2, <1>3, <1>4, <1>5
  <2> HIDE DEF L
  <2>2. SubSeq(stream, L + 1, L) = <<>>
    BY <1>2
  <2> QED BY <1>1, <1>5, <2>1, <2>2 DEF L
<1>6. CASE truth.chunked
  <2>1. /\ truth.chunks \in Seq(Chunk) /\ truth.chunks # <<>>
        /\ ChunksFormed(truth)
    BY <1>1, <1>6, ResponseFacts DEF ChunksFormed
  <2> DEFINE k == Len(truth.chunks)
             c == truth.chunks[k]
             e == c.data + c.size + 2
  <2>2. k \in DOMAIN truth.chunks /\ k \in 1..k
    BY <2>1
  <2>3. c.data \in Nat /\ c.size \in Nat
    BY <1>1, <1>6, <2>2, ChunkFacts
  <2>4. b[e - 1] = "CR" /\ b[e] = "LF" /\ e = Len(b)
    BY <2>1, <2>2 DEF ChunksFormed
  <2>5. e >= 2 /\ e \in Nat
    <3> DEFINE x == c.data
               y == c.size
    <3>1. x \in Nat /\ y \in Nat
      BY <2>3
    <3> HIDE DEF x, y
    <3>2. x + y + 2 >= 2 /\ x + y + 2 \in Nat
      BY ONLY <3>1
    <3> QED BY <3>2 DEF x, y
  <2> HIDE DEF e, b, L
  <2>6. L \in base + 1..L /\ L - 1 \in base + 1..L /\ L - base = e /\ (L - 1) - base = e - 1
    BY <1>2, <1>3, <2>4, <2>5
  <2>7. stream[L] = "LF" /\ stream[L - 1] = "CR"
    BY <1>3, <2>4, <2>6
  <2>8. pos + 1 = L - 1 /\ L >= 2
    BY <1>1, <1>2, <1>3, <1>6, <2>4, <2>5
  <2>9. SubSeq(stream, L - 1, L) = <<stream[L - 1], stream[L]>>
    <3> DEFINE s == SubSeq(stream, L - 1, L)
               x == L - 1
    <3>1. x \in 1..L /\ L - x + 1 = 2 /\ L = Len(stream) /\ x + 1 - 1 = x /\ x + 2 - 1 = L
      BY <1>2, <2>8 DEF L
    <3> HIDE DEF x
    <3>2. SubSeq(stream, x, L) \in Seq(Byte) /\ Len(SubSeq(stream, x, L)) = 2
      BY <1>2, <3>1
    <3>3. SubSeq(stream, x, L)[1] = stream[x] /\ SubSeq(stream, x, L)[2] = stream[L]
      BY <1>2, <3>1
    <3> DEFINE u == SubSeq(stream, x, L)
               v == <<stream[x], stream[L]>>
    <3>4. stream[x] \in Byte /\ stream[L] \in Byte
      BY <1>2, <3>1
    <3>5. v \in Seq(Byte) /\ Len(v) = 2 /\ v[1] = stream[x] /\ v[2] = stream[L]
      BY <3>4
    <3> HIDE DEF u, v
    <3>6. u \in Seq(Byte) /\ Len(u) = 2 /\ u[1] = stream[x] /\ u[2] = stream[L]
      BY <3>2, <3>3 DEF u
    <3>7. u = v
      <4>1. \A i \in 1..2 : i = 1 \/ i = 2
        OBVIOUS
      <4>2. \A i \in 1..2 : u[i] = v[i]
        BY <3>5, <3>6, <4>1
      <4> QED BY <3>5, <3>6, <4>2
    <3> QED BY <3>7 DEF u, v, x
  <2> QED BY <1>1, <1>6, <2>7, <2>8, <2>9 DEF L
<1> QED BY <1>4, <1>5, <1>6

\* A connection kept alive after such an exchange stands at the end of the
\* response, or before the CRLF after the last chunk.
THEOREM ConnectionLeftAtEnd == Spec => []KeepAlive
<1>1. ExchangeInv => KeepAlive
  BY RestOfStream DEF KeepAlive
<1> QED BY <1>1, Exchanges, PTL

-----------------------------------------------------------------------------
(* The service *)

\* An application that has made no request has had no answer.
IdleInv == pc = "idle" => round = 0

LEMMA IdleAlways == Spec => []IdleInv
<1>1. Init => IdleInv
  BY DEF Init, IdleInv
<1>2. IdleInv /\ [Next]_vars => IdleInv'
  <2> SUFFICES ASSUME IdleInv, [Next]_vars PROVE IdleInv'
    OBVIOUS
  <2>1. CASE Client
    <3>1. pc' # "idle"
      BY <2>1 DEF Client, SendHeader, SendData, SendThen, ReadHeaderLine, StoreLine, Parse,
                  Understand, RecvNormal, NormalUntil, NoLineBuffer, ChunkLine, ChunkData,
                  ChunkBytes, ChunkCrlf
    <3> QED BY <3>1 DEF IdleInv
  <2>2. CASE StartRequest
    BY <2>2 DEF StartRequest, IdleInv
  <2>3. CASE StatusGet \/ Answer \/ Close \/ UNCHANGED vars
    BY <2>3 DEF StatusGet, StatusReads, Answer, Close, vars, IdleInv
  <2> QED BY <2>1, <2>2, <2>3 DEF Next
<1> QED BY <1>1, <1>2, PTL DEF Spec

\* A step of a call puts at most more of the stream behind what was handed out.
LEMMA CallStep ==
  ASSUME TypeInv, Client
  PROVE  /\ pc \notin {"idle", "done", "failed"} /\ pc' # "idle"
         /\ flaws \subseteq flaws' /\ UNCHANGED <<truth, base>>
         /\ got' = got \/ \E n \in Nat : got' = got \o Positions(n)
<1>0. UNCHANGED <<truth, base>>
  BY ClientKeepsWire
<1>1. CASE SendHeader \/ SendData
  BY <1>0, <1>1 DEF SendHeader, SendData, SendThen
<1>2. CASE ReadHeaderLine
  BY <1>0, <1>2 DEF ReadHeaderLine, StoreLine
<1>3. CASE Parse
  BY <1>0, <1>3 DEF Parse, Understand
<1>4. CASE NoLineBuffer \/ ChunkLine \/ ChunkCrlf
  BY <1>0, <1>4 DEF NoLineBuffer, ChunkLine, ChunkCrlf
<1>5. CASE RecvNormal \/ ChunkData
  <2>0. stream \in Seq(Byte) /\ pos \in 0..Len(stream) /\ BodySize \in Nat /\ want \in Int
    BY SizesAssumption DEF TypeInv, TypeOK
  <2>1. \A n : n \in Int => Taken(n) \in Nat
    BY DEF Taken
  <2>2. CASE RecvNormal
    <3>1. PICK n \in Recv(BodySize) :
            pc = "body" /\ got' = got \o Positions(Taken(n)) /\ flaws \subseteq flaws'
              /\ pc' # "idle"
      BY <2>2 DEF RecvNormal, NormalUntil, Deliver
    <3>2. n \in Int
      BY <2>0, <3>1, Received
    <3> QED BY <1>0, <2>1, <3>1, <3>2
  <2>3. CASE ChunkData
    <3>1. PICK n \in Recv(want) :
            pc = "chunk_data" /\ got' = got \o Positions(Taken(n)) /\ flaws \subseteq flaws'
              /\ pc' # "idle"
      BY <2>3 DEF ChunkData, ChunkBytes, Deliver
    <3>2. n \in Int
      BY <2>0, <3>1 DEF Recv, EndOfStream
    <3> QED BY <1>0, <2>1, <3>1, <3>2
  <2> QED BY <1>5, <2>2, <2>3
<1> QED BY <1>1, <1>2, <1>3, <1>4, <1>5 DEF Client

LEMMA GotGrows ==
  ASSUME TypeInv, NEW n \in Nat, got' = got \o Positions(n)
  PROVE  IsPrefix(got, got')
<1>1. /\ Len(got) \in Nat /\ Len(got') = Len(got) + n
      /\ \A i \in 1..Len(got) : got'[i] = got[i]
  BY Appended
<1>2. got \in Seq(Nat) /\ got' \in Seq(Nat)
  <2>1. got \in Seq(Nat) /\ pos \in Nat
    BY DEF TypeInv, TypeOK
  <2>2. Positions(n) \in Seq(Nat)
    <3>1. \A i \in 1..n : pos + i \in Nat
      BY <2>1
    <3> QED BY <3>1 DEF Positions
  <2> QED BY <2>1, <2>2
<1> DEFINE g == got'
<1>3. g \in Seq(Nat) /\ Len(got) <= Len(g) /\ \A i \in 1..Len(got) : got[i] = g[i]
  BY <1>1, <1>2
<1> HIDE DEF g
<1>4. IsPrefix(got, g)
  BY <1>2, <1>3, PrefixIs
<1> QED BY <1>4 DEF g

\* The three variables of BodyService, of an exchange.
Answered == IF flaws = {} THEN Body ELSE <<>>
HandedOut == IF flaws = {} THEN got ELSE <<>>

ServiceStep ==
  \/ Service!Request \/ Service!Answer \/ Service!Deliver \/ Service!Finish \/ Service!Fail
  \/ UNCHANGED <<Outcome, Answered, HandedOut>>

LEMMA CallRefines ==
  ASSUME ExchangeInv, ExchangeInv', BodyInOrder', DoneMeansWhole', Client
  PROVE  ServiceStep
<1>0. TypeInv
  BY DEF ExchangeInv
<1>1. /\ pc \notin {"idle", "done", "failed"} /\ pc' # "idle"
      /\ flaws \subseteq flaws' /\ UNCHANGED <<truth, base>>
      /\ got' = got \/ \E n \in Nat : got' = got \o Positions(n)
  BY <1>0, CallStep
<1>2. Body' = Body
  BY <1>1 DEF Body
<1>3. CASE flaws # {}
  <2>1. flaws' # {}
    BY <1>1, <1>3
  <2>2. /\ Outcome = "failed" /\ Outcome' = "failed" /\ Answered = <<>> /\ Answered' = <<>>
        /\ HandedOut = <<>> /\ HandedOut' = <<>>
    BY <1>3, <2>1 DEF Outcome, InCall, Answered, HandedOut
  <2> QED BY <2>2 DEF ServiceStep
<1>4. CASE flaws = {} /\ flaws' # {}
  <2>1. Outcome = "open" /\ Outcome' = "failed"
    BY <1>1, <1>4 DEF Outcome, InCall
  <2>2. Service!Fail
    BY <1>4, <2>1 DEF Service!Fail
  <2> QED BY <2>2 DEF ServiceStep
<1>5. CASE flaws = {} /\ flaws' = {}
  <2>1. Outcome = "open"
    BY <1>1, <1>5 DEF Outcome, InCall
  <2>2. CASE pc' = "done"
    <3>1. Outcome' = "done"
      BY <1>5, <2>2 DEF Outcome, InCall
    <3>2. got' = Body'
      BY <1>5, <2>2 DEF DoneMeansWhole
    <3>3. Service!Finish
      BY <1>2, <1>5, <2>1, <3>1, <3>2 DEF Service!Finish
    <3> QED BY <3>3 DEF ServiceStep
  <2>3. CASE pc' = "failed"
    <3>1. Outcome' = "failed"
      BY <1>5, <2>3 DEF Outcome, InCall
    <3>2. got' = <<>>
      BY <1>5, <2>3 DEF ExchangeInv, BodyInv, Sound
    <3>3. Service!Fail
      BY <1>2, <1>5, <2>1, <3>1, <3>2 DEF Service!Fail
    <3> QED BY <3>3 DEF ServiceStep
  <2>4. CASE pc' \notin {"done", "failed"}
    <3>1. Outcome' = "open"
      BY <1>1, <1>5, <2>4 DEF Outcome, InCall
    <3>2. CASE got' = got
      BY <1>2, <1>5, <2>1, <3>1, <3>2 DEF ServiceStep, Answered, HandedOut
    <3>3. CASE got' # got
      <4>1. IsPrefix(got, got')
        BY <1>0, <1>1, <3>3, GotGrows
      <4>2. IsPrefix(got', Body')
        BY <1>5 DEF BodyInOrder
      <4>3. Service!Deliver
        BY <1>2, <1>5, <2>1, <3>1, <3>3, <4>1, <4>2
           DEF Service!Deliver, Service!IsStrictPrefix, Service!IsPrefix, IsPrefix
      <4> QED BY <4>3 DEF ServiceStep
    <3> QED BY <3>2, <3>3
  <2> QED BY <2>2, <2>3, <2>4
<1> QED BY <1>3, <1>4, <1>5

LEMMA OutsideRefines ==
  ASSUME ExchangeInv, IdleInv, StartRequest \/ StatusGet \/ Answer \/ Close \/ UNCHANGED vars
  PROVE  ServiceStep
<1>1. CASE StartRequest
  <2>1. /\ pc \in {"idle", "done", "failed"} /\ pc' = "send_header"
        /\ truth' = NoResponse /\ got' = <<>> /\ flaws' = {}
    BY <1>1 DEF StartRequest
  <2>2. Outcome # "open" /\ Outcome' = "open"
    BY <2>1 DEF Outcome, InCall
  <2>3. Body' = <<>>
    BY <2>1 DEF Body, NoResponse
  <2>4. Service!Request
    BY <2>1, <2>2, <2>3 DEF Service!Request
  <2> QED BY <2>4 DEF ServiceStep
<1>2. CASE StatusGet \/ Close \/ UNCHANGED vars
  <2>1. UNCHANGED <<pc, flaws, truth, base, got>>
    BY <1>2 DEF StatusGet, StatusReads, Close, vars, wire
  <2> QED BY <2>1 DEF ServiceStep, Outcome, InCall, Answered, HandedOut, Body
<1>3. CASE Answer
  <2>1. truth = NoResponse /\ round > 0 /\ UNCHANGED <<pc, flaws, got>>
    BY <1>3 DEF Answer
  <2>2. CASE flaws # {}
    BY <2>1, <2>2 DEF ServiceStep, Outcome, InCall, Answered, HandedOut
  <2>3. CASE flaws = {}
    <3>1. /\ pc \in {"idle", "send_header", "send_data", "header", "parse", "body",
                     "chunk_line", "chunk_data", "chunk_crlf", "done", "failed"}
      BY DEF ExchangeInv, TypeInv, TypeOK
    <3>2. pc \notin {"body", "chunk_line", "chunk_data", "chunk_crlf", "done"}
      BY <2>1, <2>3, NoResponseIsNone DEF ExchangeInv, FieldsInv, Sound
    <3>3. pc # "idle"
      BY <2>1 DEF IdleInv
    <3>4. got = <<>>
      BY <2>3, <3>1, <3>2, <3>3 DEF ExchangeInv, BodyInv, Sound
    <3>5. Body = <<>>
      BY <2>1 DEF Body, NoResponse
    <3>6. Outcome \in {"open", "failed"} /\ Outcome' = Outcome
      BY <2>1, <2>3, <3>1, <3>2, <3>3 DEF Outcome, InCall
    <3>7. Service!Answer
      BY <2>1, <2>3, <3>4, <3>5, <3>6 DEF Service!Answer
    <3> QED BY <3>7 DEF ServiceStep
  <2> QED BY <2>2, <2>3
<1> QED BY <1>1, <1>2, <1>3

\* The exchange, with all its lines, chunks and reads, implements BodyService:
\* longer and longer beginnings of one body, and the word that it is complete
\* only with all of it.
THEOREM ExchangeRefinesService == Spec => ImplementsService
<1>1. Init => Service!Init
  <2> SUFFICES ASSUME Init PROVE Service!Init
    OBVIOUS
  <2>1. Outcome = "idle" /\ got = <<>> /\ Body = <<>>
    BY DEF Init, Outcome, InCall, Body, NoResponse
  <2> QED BY <2>1 DEF Service!Init
<1>2. ExchangeInv /\ ExchangeInv' /\ BodyInOrder' /\ DoneMeansWhole' /\ IdleInv /\ [Next]_vars
        => [Service!Next]_Service!vars
  <2>1. ServiceStep => [Service!Next]_Service!vars
    BY DEF ServiceStep, Service!Next, Service!vars, Answered, HandedOut
  <2> QED BY <2>1, CallRefines, OutsideRefines DEF Next
<1> QED BY <1>1, <1>2, Exchanges, BodyHandedOutInOrder, DoneIsWholeBody, IdleAlways, PTL
        DEF Spec, ImplementsService, Service!Spec
=============================================================================
