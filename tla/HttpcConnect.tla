---------------------------- MODULE HttpcConnect ----------------------------
(***************************************************************************)
(* httpc_parse_uri and httpc_ipv4_address_check inside the life cycle of a *)
(* client: which URIs are taken for IPv4 addresses, which are resolved as  *)
(* names, and where the socket is connected to.                            *)
(*                                                                         *)
(* A host is a sequence of labels (what stands between its dots) and,      *)
(* after a colon, the text of a port.  Of a text the model keeps its       *)
(* length and what atoi, strncmp and inet_pton make of it.                 *)
(***************************************************************************)
EXTENDS HttpcLifecycle, Sums, FiniteSets

CONSTANTS
  Uris,        \* what httpc_init may be called with, see UriAssumption
  CallerPort   \* atoi(port), the port argument of httpc_init

\* len: strlen; value: atoi; zero: begins with "0"; decimal: inet_pton takes it.
Label == [len : Nat, value : Int, zero : BOOLEAN, decimal : BOOLEAN]
\* digits: nothing but digits; value: the number they are.
PortText == [len : Nat, digits : BOOLEAN, value : Nat]
NoPort == [len |-> 0, digits |-> FALSE, value |-> 0]
\* What atoi and strncmp make of what inet_pton takes: 0 to 255, in as many
\* digits as it needs.
DecimalOctet(l) ==
  l.len \in 1..3 /\ l.value \in 0..255 /\ (l.zero <=> l.value = 0)

ASSUME UriAssumption ==
  \A u \in Uris :
    /\ u.scheme \in {"http", "https", "other"}
    /\ u.labels \in Seq(Label) /\ u.labels # <<>>
    /\ \A i \in DOMAIN u.labels : u.labels[i].decimal => DecimalOctet(u.labels[i])
ASSUME PortAssumption == \A u \in Uris : u.port \in PortText
ASSUME CallerPortAssumption == CallerPort \in 0..65535

VARIABLES
  uri,    \* the URI just parsed, until the library goes on
  route,  \* how its host was taken: "none", "literal", "name"
  peer    \* the port connect was called with for a literal, NoPeer otherwise

seen == <<uri, route, peer>>
NoPeer == -1
NoUri == [scheme |-> "other", labels |-> <<>>, port |-> NoPort]

-----------------------------------------------------------------------------
(* httpc_ipv4_address_check *)

\* Characters before the colon, and strlen(httpc->host).
AddrLen(u) == Len(u.labels) - 1 + Total([i \in DOMAIN u.labels |-> u.labels[i].len])
HostLen(u) == AddrLen(u) + (IF u.port = NoPort THEN 0 ELSE 1 + u.port.len)

\* strtok_r skips empty labels.
Tokens(u) == {i \in DOMAIN u.labels : u.labels[i].len > 0}

\* atoi accepts signs and what follows the digits.
Octet(l) == (l.value = 0 => l.zero) /\ l.value <= 255

\* Mutant of LooksLiteral: the colon is not counted.
LooksLiteralNoColon(u) ==
  /\ HostLen(u) <= 15 + 5
  /\ Cardinality(Tokens(u)) = 4 /\ \A i \in Tokens(u) : Octet(u.labels[i])

LooksLiteral(u) ==
  /\ HostLen(u) <= 15 + 5 + 1
  /\ Cardinality(Tokens(u)) = 4 /\ \A i \in Tokens(u) : Octet(u.labels[i])

\* Mutant of Port: ip_port is one byte too short.
PortFour(u) ==
  IF u.port # NoPort /\ u.port.len \in 1..4 /\ u.port.digits
  THEN u.port.value % 65536 ELSE CallerPort

\* A port that is no number, or longer than ip_port, is replaced by the
\* caller's; htons keeps 16 bits of it.
Port(u) ==
  IF u.port # NoPort /\ u.port.len \in 1..5 /\ u.port.digits
  THEN u.port.value % 65536 ELSE CallerPort

InetPton(u) == Len(u.labels) = 4 /\ \A i \in 1..4 : u.labels[i].decimal

-----------------------------------------------------------------------------
(* httpc_parse_uri *)

Scheme(u) ==
  /\ u.scheme # "other" /\ secure' = (u.scheme = "https")
  /\ uri' = u

Failing == pc' = "parse_fail" /\ peer' = NoPeer
Connecting == pc' # "parse_fail"

\* An unknown scheme, or no memory for host or path.
Rejected(u) ==
  /\ ParseUri /\ Failing /\ uri' = u /\ route' = "none"
  /\ secure' = (u.scheme = "https")

\* An address that inet_pton does not take, or that cannot be connected.
Literal(u) ==
  /\ ParseUri /\ Scheme(u)
  /\ LooksLiteral(u) /\ route' = "literal"
  /\ \/ Failing
     \/ Connecting /\ InetPton(u) /\ link' = "tcp" /\ peer' = Port(u)

\* getaddrinfo is given httpc->host, port and all: with a port in it the name
\* is unknown.
Name(u) ==
  /\ ParseUri /\ Scheme(u)
  /\ ~LooksLiteral(u) /\ route' = "name"
  /\ \/ Failing
     \/ Connecting /\ u.port = NoPort /\ peer' = NoPeer

\* ip_addr has room for 15 characters and is given up to 21: beyond the 15 the
\* stack protector may end the process.
Overrun(u) ==
  /\ pc = "parse" /\ Scheme(u)
  /\ HostLen(u) <= 15 + 5 + 1 /\ AddrLen(u) > 15
  /\ pc' = "aborted" /\ route' = "none" /\ peer' = NoPeer
  /\ UNCHANGED <<call, version, own, fd, sock, netfd, link, cont>>

Parsing == \E u \in Uris : Rejected(u) \/ Literal(u) \/ Name(u) \/ Overrun(u)

GoingOn ==
  /\ Library /\ pc # "parse"
  /\ uri' = NoUri /\ route' = "none" /\ peer' = NoPeer

ConnectInit == Init /\ uri = NoUri /\ route = "none" /\ peer = NoPeer

ConnectNext == Parsing \/ GoingOn \/ ((App \/ OtherThread) /\ UNCHANGED seen)

ConnectSpec == ConnectInit /\ [][ConnectNext]_<<vars, seen>>

-----------------------------------------------------------------------------
(* Properties *)

\* The definitions of RFC 3986 and of TCP: what the URI names.
IsDottedQuad(u) == Len(u.labels) = 4 /\ \A i \in 1..4 : u.labels[i].decimal
IsPort(p) == p # NoPort /\ p.digits /\ p.len \in 1..5 /\ p.value <= 65535

\* Whatever its length, an address with a port of at most five characters is
\* never sent to the resolver, and a host with a label that begins with a letter
\* is never taken for an address (httpc_ipv4_address_check).
HasWord(u) == \E i \in DOMAIN u.labels :
                LET l == u.labels[i] IN l.len > 0 /\ l.value = 0 /\ ~l.zero
RouteByShape ==
  /\ route = "name" => ~(IsDottedQuad(uri) /\ (uri.port # NoPort => uri.port.len <= 5))
  /\ route = "literal" => ~HasWord(uri)

\* A connection without the resolver is one to an address the URI spells out,
\* on the port it spells out if that is one, and on the caller's if it has none
\* (httpc_parse_uri): the sloppy reading of octets never connects elsewhere.
NamedPeer ==
  peer # NoPeer =>
    /\ IsDottedQuad(uri)
    /\ IsPort(uri.port) => peer = uri.port.value
    /\ uri.port = NoPort => peer = CallerPort
=============================================================================
