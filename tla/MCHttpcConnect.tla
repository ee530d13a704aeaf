-------------------------- MODULE MCHttpcConnect ---------------------------
(* URIs for model checking HttpcConnect. *)
EXTENDS HttpcConnect

L(len, value, zero, decimal) ==
  [len |-> len, value |-> value, zero |-> zero, decimal |-> decimal]
Ports == {[len |-> 0, digits |-> TRUE, value |-> 0],        \* "1.2.3.4:"
          [len |-> 4, digits |-> TRUE, value |-> 8080],
          [len |-> 5, digits |-> TRUE, value |-> 65535],
          [len |-> 5, digits |-> TRUE, value |-> 65536],
          [len |-> 6, digits |-> TRUE, value |-> 443],      \* 000443
          [len |-> 3, digits |-> FALSE, value |-> 0],       \* 80x
          NoPort}

\* 0, 9, 255, 256, 012, 1a, -1, abc and nothing
Labels == {L(1, 0, TRUE, TRUE), L(1, 9, FALSE, TRUE), L(3, 255, FALSE, TRUE),
           L(3, 256, FALSE, FALSE), L(3, 12, TRUE, FALSE), L(2, 1, FALSE, FALSE),
           L(2, -1, FALSE, FALSE), L(3, 0, FALSE, FALSE), L(0, 0, FALSE, FALSE)}
Wide == L(3, 255, FALSE, TRUE)

\* All quads that differ from 255.255.255.255 in at most two places, a name of
\* three labels and one of five, and a name longer than ip_addr.
Hosts == {[i \in 1..4 |-> CASE i = 1 -> a [] i = 3 -> b [] OTHER -> Wide] :
            a \in Labels, b \in Labels}
         \cup {[i \in 1..n |-> L(k, 0, FALSE, FALSE)] : n \in {3, 5}, k \in {3, 6}}
         \cup {[i \in 1..n |-> Wide] : n \in {3, 5}}

MCUris == [scheme : {"http"}, labels : Hosts, port : Ports]
          \cup [scheme : {"https", "other"}, labels : {[i \in 1..4 |-> Wide], <<L(3, 0, FALSE, FALSE)>>}, port : {NoPort}]
=============================================================================
