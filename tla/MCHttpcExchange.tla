-------------------------- MODULE MCHttpcExchange ---------------------------
(* Responses for model checking HttpcExchange. *)
EXTENDS HttpcExchange

CRLF == <<"CR", "LF">>
Line(s) == s \o CRLF
Status(c) == Line(<<"H">> \o c)

Plain(head, c, body) ==
  [bytes |-> head \o body, head |-> Len(head), code |-> c, length |-> Len(body),
   chunked |-> FALSE, body |-> [i \in 1..Len(body) |-> Len(head) + i], chunks |-> <<>>]
InChunks(head, c, rest, body, chunks) ==
  [bytes |-> head \o rest, head |-> Len(head), code |-> c, length |-> 0, chunked |-> TRUE,
   body |-> [i \in 1..Len(body) |-> Len(head) + body[i]],
   chunks |-> [k \in 1..Len(chunks) |->
     [chunks[k] EXCEPT !.line = @ + Len(head), !.data = @ + Len(head)]]]
C(p, q, size, before) == [line |-> p, data |-> q, size |-> size, before |-> before]

\* Two bytes of body, one of them a CR, after a Content-Length between white space;
\* the name stands once more behind it.
Sized ==
  Plain(Status(<<"1">>) \o Line(<<"CL", ":", "SP", "HT", "1", "0", "SP">>)
          \o Line(<<"b", ":", "CL", "1">>) \o CRLF, 1, <<"CR", "b">>)

\* A chunk of two bytes, a chunk of one, the last chunk; no trailer.
Chunks ==
  InChunks(Status(<<"1", "0">>) \o Line(<<"TE", ":", "SP", "chunked">>) \o CRLF, 2,
           Line(<<"1", "0">>) \o Line(<<"b", "1">>) \o Line(<<"1">>) \o Line(<<"b">>)
             \o Line(<<"0">>) \o CRLF,
           <<5, 6, 12>>, <<C(0, 4, 2, 0), C(8, 11, 1, 2), C(14, 17, 0, 3)>>)

\* No body is announced (a 204, or a body that ends with the connection).
Bare == Plain(Status(<<"1", "1">>) \o CRLF, 3, <<>>)

\* The body of Sized, and one chunk of two bytes, with the shortest of headers.
Short == Plain(Status(<<"1">>) \o Line(<<"CL", ":", "1", "0">>) \o CRLF, 1, <<"CR", "b">>)
OneChunk ==
  InChunks(Status(<<"1">>) \o Line(<<"TE", ":", "chunked">>) \o CRLF, 1,
           Line(<<"1", "0">>) \o Line(<<"b", "b">>) \o Line(<<"0">>) \o CRLF,
           <<5, 6>>, <<C(0, 4, 2, 0), C(8, 11, 0, 2)>>)

\* A Content-Length that does not fit an int, and a chunk larger than the
\* application's buffer.
Wide ==
  Plain(Status(<<"1">>) \o Line(<<"CL", ":", "SP", "1", "0", "0", "0">>) \o CRLF, 1,
        [i \in 1..8 |-> "b"])
BigChunk ==
  InChunks(Status(<<"1">>) \o Line(<<"TE", ":", "SP", "chunked">>) \o CRLF, 1,
           Line(<<"1", "1">>) \o Line(<<"b", "b", "b">>) \o Line(<<"0">>) \o CRLF,
           <<5, 6, 7>>, <<C(0, 4, 3, 0), C(9, 12, 0, 3)>>)

\* What HTTP allows and the search does not count on: a longer name that ends in
\* Content-Length before the field itself (X-Original-Content-Length), the name as
\* the last word of a value, so that the next line is taken for what it says, and
\* the coding in other letters.
Longer ==
  Plain(Status(<<"1">>) \o Line(<<"b", "CL", ":", "SP", "1", "1">>)
          \o Line(<<"CL", ":", "SP", "1", "0">>) \o CRLF, 1, <<"b", "b">>)
InValue ==
  InChunks(Status(<<"1">>) \o Line(<<"b", ":", "CL">>) \o Line(<<"1", ":", "b">>)
             \o Line(<<"te", ":", "chunked">>) \o CRLF, 1,
           Line(<<"1">>) \o Line(<<"b">>) \o Line(<<"0">>) \o CRLF,
           <<4>>, <<C(0, 3, 1, 0), C(6, 9, 0, 1)>>)
Capital ==
  InChunks(Status(<<"1">>) \o Line(<<"TE", ":", "SP", "Chunked">>) \o CRLF, 1,
           Line(<<"1">>) \o Line(<<"b">>) \o Line(<<"0">>) \o CRLF,
           <<4>>, <<C(0, 3, 1, 0), C(6, 9, 0, 1)>>)

MCShort == {Short, OneChunk}
MCResponses == {Sized, Chunks, Bare, Wide, BigChunk, Longer, InValue, Capital}
MCLonger == {Longer}
=============================================================================
