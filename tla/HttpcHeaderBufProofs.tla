------------------------ MODULE HttpcHeaderBufProofs ------------------------
(***************************************************************************)
(* Proofs about HttpcHeaderBuf, for every size of the buffer and every set *)
(* of line lengths.                                                        *)
(***************************************************************************)
EXTENDS HttpcHeaderBuf, TLAPS

USE BufLenAssumption, LengthsAssumption, MaxUsedAssumption

\* Inside the buffer vsnprintf stays inside it, and cuts a text only when the
\* text and its '\0' do not fit.
LEMMA WrittenFits ==
  ASSUME used \in Nat, used <= BufLen, NEW n \in Nat
  PROVE  /\ Written(n) \in Nat
         /\ used + Written(n) <= BufLen
         /\ Written(n) > n <=> used + n < BufLen
BY DEF Written, Min

\* Everywhere else the result is still a length.
LEMMA WrittenType ==
  ASSUME used \in Nat, NEW n \in Nat
  PROVE  Written(n) \in Nat
BY DEF Written, Min

\* httpc_header_set keeps the invariant.
LEMMA HeaderSetInv ==
  ASSUME IInv, HeaderSet
  PROVE  IInv'
<1> USE DEF IInv, TypeOK
<1>1. PICK n \in Lengths :
        /\ used' = used + n
        /\ reach' = IF Written(n) = 0 THEN reach ELSE Max(reach, used + Written(n))
        /\ fill' = IF fill = used /\ Written(n) > n THEN fill + n ELSE fill
        /\ marks' = IF used' >= BufLen THEN marks \cup {"refused", "warned"} ELSE marks
        /\ UNCHANGED sent
  BY DEF HeaderSet, FormatLine
<1>2. n \in Nat /\ Written(n) \in Nat
  BY WrittenType
<1>3. TypeOK'
  BY <1>1, <1>2 DEF Max
<1>4. WholeLines'
  <2> SUFFICES ASSUME "refused" \notin marks', "stale" \notin marks' PROVE fill' = used' /\ used' < BufLen
    BY DEF WholeLines
  <2>1. "refused" \notin marks /\ "stale" \notin marks /\ used' < BufLen
    BY <1>1, <1>2
  <2>2. fill = used /\ used + n < BufLen
    BY <1>1, <1>2, <2>1 DEF WholeLines
  <2> QED BY <1>1, <1>2, <2>1, <2>2, WrittenFits
<1>5. (reach > BufLen => "warned" \in marks)'
  <2>1. CASE used <= BufLen
    BY <1>1, <1>2, <2>1, WrittenFits DEF Max
  <2>2. CASE used > BufLen
    BY <1>1, <2>2
  <2> QED BY <2>1, <2>2
<1>6. SentWithinBuffer' /\ (used' > BufLen => "warned" \in marks')
  BY <1>1, <1>2 DEF SentWithinBuffer
<1> QED BY <1>3, <1>4, <1>5, <1>6

\* Emptying the buffer, a request that fails and one that is answered keep it.
LEMMA EmptyInv ==
  ASSUME IInv, Reset \/ SendFails \/ Exchange
  PROVE  IInv'
<1> USE DEF IInv, TypeOK, WholeLines, SentWithinBuffer, Max
<1>1. CASE Reset
  BY <1>1 DEF Reset
<1>2. CASE SendFails
  BY <1>2 DEF SendFails
<1>3. CASE Exchange
  BY <1>3 DEF Exchange, SendRequest
<1> QED BY <1>1, <1>2, <1>3

\* For every buffer size: successes of httpc_header_set mean the lines are
\* there, and nothing is written or sent beyond the buffer without a warning.
THEOREM BufferSafe == Spec => []IInv
<1>1. Init => IInv
  BY DEF Init, IInv, TypeOK, WholeLines, SentWithinBuffer
<1>2. IInv /\ [Next]_vars => IInv'
  <2> SUFFICES ASSUME IInv, [Next]_vars PROVE IInv'
    OBVIOUS
  <2>1. CASE UNCHANGED vars
    BY <2>1 DEF vars, IInv, TypeOK, WholeLines, SentWithinBuffer
  <2> QED BY <2>1, HeaderSetInv, EmptyInv DEF Next
<1> QED BY <1>1, <1>2, PTL DEF Spec

\* No more of the buffer counts as text of this request than buf_used says.
THEOREM BufferTypes == Spec => []TypeOK
<1>1. IInv => TypeOK
  BY DEF IInv
<1> QED BY <1>1, BufferSafe, PTL

\* What httpc_send_header sends after successful calls is this request's lines.
THEOREM LinesWhole == Spec => []WholeLines
<1>1. IInv => WholeLines
  BY DEF IInv
<1> QED BY <1>1, BufferSafe, PTL

\* httpc_header_set writes beyond the buffer only if it began beyond it.
LEMMA WriteBeyond ==
  ASSUME IInv, HeaderSet, reach' > BufLen
  PROVE  "warned" \in marks
<1> USE DEF IInv, TypeOK
<1>1. PICK n \in Lengths :
        reach' = IF Written(n) = 0 THEN reach ELSE Max(reach, used + Written(n))
  BY DEF HeaderSet, FormatLine
<1>2. CASE used <= BufLen
  BY <1>1, <1>2, WrittenFits DEF Max
<1>3. CASE used > BufLen
  BY <1>3
<1> QED BY <1>2, <1>3

\* What the application was told comes before any write beyond the buffer.
THEOREM BeyondAfterWarning == Spec => BeyondOnlyAfterWarning
<1>1. IInv /\ [Next]_vars => [reach' > BufLen => "warned" \in marks]_vars
  <2> SUFFICES ASSUME IInv, Next, reach' > BufLen PROVE "warned" \in marks
    OBVIOUS
  <2>1. CASE HeaderSet
    BY <2>1, WriteBeyond
  <2>2. CASE Reset
    BY <2>2 DEF Reset, IInv, TypeOK, Max
  <2>3. CASE SendFails
    BY <2>3 DEF SendFails, IInv
  <2>4. CASE Exchange
    BY <2>4 DEF Exchange, SendRequest, IInv, TypeOK, Max
  <2> QED BY <2>1, <2>2, <2>3, <2>4 DEF Next
<1> QED BY <1>1, BufferSafe, PTL DEF Spec, BeyondOnlyAfterWarning

\* And before any request longer than the buffer.
THEOREM SendsWithin == Spec => []SentWithinBuffer
<1>1. IInv => SentWithinBuffer
  BY DEF IInv
<1> QED BY <1>1, BufferSafe, PTL
=============================================================================
