------------------------- MODULE HttpcConnectProofs -------------------------
(***************************************************************************)
(* Proofs about HttpcConnect, for every set of URIs: the invariant of the  *)
(* life cycle survives the parsing of a URI in detail, an address is told  *)
(* from a name, and a connection that was not resolved goes where the URI  *)
(* says.                                                                   *)
(***************************************************************************)
EXTENDS HttpcConnect, HttpcLifecycleProofs, SumsProofs, FiniteSetTheorems

\* Every step of the composition is one of the life cycle, or ends the process
\* inside httpc_parse_uri.
LEMMA StepIsLifecycle ==
  ASSUME [ConnectNext]_<<vars, seen>>
  PROVE  \/ [Next]_vars
         \/ \E u \in Uris : Overrun(u)
<1>1. CASE Parsing
  <2>1. PICK u \in Uris : Rejected(u) \/ Literal(u) \/ Name(u) \/ Overrun(u)
    BY <1>1 DEF Parsing
  <2>2. Rejected(u) \/ Literal(u) \/ Name(u) => ParseUri
    BY DEF Rejected, Literal, Name
  <2> QED BY <2>1, <2>2 DEF Next, Library
<1>2. CASE GoingOn
  BY <1>2 DEF GoingOn, Next
<1>3. CASE (App \/ OtherThread) /\ UNCHANGED seen
  BY <1>3 DEF Next
<1>4. CASE UNCHANGED <<vars, seen>>
  BY <1>4
<1> QED BY <1>1, <1>2, <1>3, <1>4 DEF ConnectNext

\* A process that is aborted holds what it held: the invariant says nothing of
\* its blocks, and the socket stays the library's.
LEMMA OverrunInv ==
  ASSUME IInv, NEW u \in Uris, Overrun(u)
  PROVE  IInv'
<1> USE DEF IInv, Overrun, Scheme
<1>1. TypeOK'
  BY DEF TypeOK
<1>2. ControlInv'
  BY DEF ControlInv, InitOnly
<1>3. OwnInv'
  BY DEF OwnInv, Destroying
<1>4. FdInv'
  BY DEF FdInv, HoldsSocket
<1> QED BY <1>1, <1>2, <1>3, <1>4

\* What is held at each point of control (OwnInv, FdInv) holds whatever URIs
\* httpc_init is called with.
THEOREM ConnectInvariant == ConnectSpec => []IInv
<1>1. ConnectInit => IInv
  BY InitInv DEF ConnectInit
<1>2. IInv /\ [ConnectNext]_<<vars, seen>> => IInv'
  BY StepIsLifecycle, OverrunInv, NextInv
<1> QED BY <1>1, <1>2, PTL DEF ConnectSpec

\* No descriptor, TLS context, session or handle survives the call that ends
\* the handle, whatever URI it was called with.
THEOREM ConnectNothingLeft == ConnectSpec => []NothingOutlivesTheCall
<1>1. IInv => NothingOutlivesTheCall
  BY DEF IInv, OwnInv, FdInv, HoldsSocket, NothingOutlivesTheCall
<1> QED BY <1>1, ConnectInvariant, PTL

LEMMA PortLength ==
  ASSUME NEW u \in Uris
  PROVE  u.port.len \in Nat
<1>1. \A p \in PortText : p.len \in Nat
  BY ONLY DEF PortText
<1> QED BY <1>1, PortAssumption

\* A dotted quad is at most 15 characters long.
LEMMA QuadFits ==
  ASSUME NEW u \in Uris, IsDottedQuad(u)
  PROVE  AddrLen(u) \in 7..15
<1> DEFINE lens == [i \in DOMAIN u.labels |-> u.labels[i].len]
           sums == PartialSums(lens)
<1>1. u.labels \in Seq(Label) /\ Len(u.labels) = 4 /\ DOMAIN u.labels = 1..4
  BY UriAssumption DEF IsDottedQuad
<1>2. \A i \in 1..4 : DecimalOctet(u.labels[i])
  BY <1>1, UriAssumption DEF IsDottedQuad
<1>3. \A i \in 1..4 : lens[i] \in 1..3
  BY ONLY <1>1, <1>2 DEF DecimalOctet
<1>4. lens \in Seq(Nat) /\ Len(lens) = 4
  BY <1>1, <1>3
<1>5. /\ sums \in [0..4 -> Nat] /\ sums[0] = 0
      /\ \A k \in 1..4 : sums[k] = sums[k - 1] + lens[k]
  BY <1>4, PartialSumsAre
<1>6. AddrLen(u) = 3 + sums[4]
  BY <1>1, <1>4, <1>5 DEF AddrLen, Total
<1> HIDE DEF lens, sums
<1>7. sums[1] = 0 + lens[1] /\ sums[2] = sums[1] + lens[2]
      /\ sums[3] = sums[2] + lens[3] /\ sums[4] = sums[3] + lens[4]
  <2>1. sums[1] = sums[1 - 1] + lens[1]
    BY <1>5
  <2>2. sums[2] = sums[2 - 1] + lens[2]
    BY <1>5
  <2>3. sums[3] = sums[3 - 1] + lens[3]
    BY <1>5
  <2>4. sums[4] = sums[4 - 1] + lens[4]
    BY <1>5
  <2> QED BY <2>1, <2>2, <2>3, <2>4, <1>5
<1>8. lens[1] \in 1..3 /\ lens[2] \in 1..3 /\ lens[3] \in 1..3 /\ lens[4] \in 1..3
  BY <1>3
<1>9. sums[4] \in 4..12
  BY <1>7, <1>8
<1> QED BY <1>6, <1>9

LEMMA DecimalIsOctet ==
  ASSUME NEW l, DecimalOctet(l)
  PROVE  Octet(l)
BY DEF DecimalOctet, Octet

\* What inet_pton takes passes the coarser test of httpc_ipv4_address_check,
\* whatever its digits, and with a port of up to five characters behind it.
LEMMA QuadLooksLiteral ==
  ASSUME NEW u \in Uris, IsDottedQuad(u), u.port # NoPort => u.port.len <= 5
  PROVE  LooksLiteral(u)
<1>1. Len(u.labels) = 4 /\ DOMAIN u.labels = 1..4
  BY UriAssumption DEF IsDottedQuad
<1>2. \A i \in 1..4 : DecimalOctet(u.labels[i])
  BY <1>1, UriAssumption DEF IsDottedQuad
<1>3. Tokens(u) = 1..4
  BY <1>1, <1>2 DEF Tokens, DecimalOctet
<1>4. Cardinality(1..4) = 4
  <2>1. 1 \in Int /\ 4 \in Int
    OBVIOUS
  <2>2. Cardinality(1..4) = IF 1 > 4 THEN 0 ELSE 4 - 1 + 1
    BY ONLY <2>1, FS_Interval, Zenon
  <2> QED BY <2>2
<1>5. \A i \in 1..4 : Octet(u.labels[i])
  BY <1>2, DecimalIsOctet, Zenon
<1>6. HostLen(u) <= 15 + 5 + 1
  <2>1. u.port.len \in Nat
    BY PortLength
  <2>2. AddrLen(u) \in 7..15
    BY QuadFits
  <2>3. CASE u.port = NoPort
    BY <2>2, <2>3 DEF HostLen
  <2>4. CASE u.port # NoPort
    <3>1. HostLen(u) = AddrLen(u) + 1 + u.port.len
      BY <2>1, <2>2, <2>4 DEF HostLen
    <3> QED BY <2>1, <2>2, <2>4, <3>1
  <2> QED BY <2>3, <2>4
<1> QED BY <1>3, <1>4, <1>5, <1>6 DEF LooksLiteral

\* A label that atoi reads as 0 and that does not begin with "0" stops the test.
LEMMA WordIsNoLiteral ==
  ASSUME NEW u \in Uris, LooksLiteral(u)
  PROVE  ~HasWord(u)
BY DEF LooksLiteral, HasWord, Tokens, Octet

\* An address with a port of at most five characters is never sent to the
\* resolver, and a host with a word in it never taken for an address
\* (httpc_ipv4_address_check), for every URI.
THEOREM AddressToldFromName == ConnectSpec => []RouteByShape
<1>1. ConnectInit => RouteByShape
  BY DEF ConnectInit, RouteByShape
<1>2. ASSUME RouteByShape, [ConnectNext]_<<vars, seen>> PROVE RouteByShape'
  <2>1. CASE Parsing
    <3>1. PICK u \in Uris : Rejected(u) \/ Literal(u) \/ Name(u) \/ Overrun(u)
      BY <2>1 DEF Parsing
    <3>2. /\ uri' = u
          /\ route' = "name" => ~LooksLiteral(u)
          /\ route' = "literal" => LooksLiteral(u)
      BY <3>1 DEF Rejected, Literal, Name, Overrun, Scheme
    <3> QED BY <3>2, QuadLooksLiteral, WordIsNoLiteral DEF RouteByShape
  <2>2. CASE GoingOn
    BY <2>2 DEF GoingOn, RouteByShape
  <2>3. CASE UNCHANGED seen
    BY <1>2, <2>3 DEF seen, RouteByShape
  <2> QED BY <1>2, <2>1, <2>2, <2>3 DEF ConnectNext
<1> QED BY <1>1, <1>2, PTL DEF ConnectSpec

\* The port httpc_ipv4_address_check reads is the one that is written, for every
\* port a URI may have.
LEMMA PortAsWritten ==
  ASSUME NEW u \in Uris
  PROVE  /\ IsPort(u.port) => Port(u) = u.port.value
         /\ u.port = NoPort => Port(u) = CallerPort
<1>1. u.port.value \in Nat
  <2>1. \A p \in PortText : p.value \in Nat
    BY ONLY DEF PortText
  <2> QED BY <2>1, PortAssumption
<1>2. ASSUME IsPort(u.port) PROVE Port(u) = u.port.value
  BY <1>1, <1>2 DEF IsPort, Port
<1>3. ASSUME u.port = NoPort PROVE Port(u) = CallerPort
  BY <1>3 DEF Port, NoPort
<1> QED BY <1>2, <1>3

\* Without the resolver the socket is connected to an address the URI spells
\* out, on the port it spells out (httpc_parse_uri).
THEOREM PeerAsNamed == ConnectSpec => []NamedPeer
<1>1. ConnectInit => NamedPeer
  BY DEF ConnectInit, NamedPeer
<1>2. ASSUME NamedPeer, [ConnectNext]_<<vars, seen>> PROVE NamedPeer'
  <2>1. CASE Parsing
    <3>1. PICK u \in Uris : Rejected(u) \/ Literal(u) \/ Name(u) \/ Overrun(u)
      BY <2>1 DEF Parsing
    <3>2. ASSUME peer' # NoPeer
          PROVE  uri' = u /\ peer' = Port(u) /\ InetPton(u)
      BY <3>1, <3>2 DEF Rejected, Literal, Name, Overrun, Failing, Scheme
    <3>3. ASSUME peer' # NoPeer PROVE IsDottedQuad(u)
      BY <3>2, <3>3 DEF InetPton, IsDottedQuad
    <3> QED BY <3>2, <3>3, PortAsWritten DEF NamedPeer
  <2>2. CASE GoingOn
    BY <2>2 DEF GoingOn, NamedPeer
  <2>3. CASE UNCHANGED seen
    BY <1>2, <2>3 DEF seen, NamedPeer
  <2> QED BY <1>2, <2>1, <2>2, <2>3 DEF ConnectNext
<1> QED BY <1>1, <1>2, PTL DEF ConnectSpec
=============================================================================
