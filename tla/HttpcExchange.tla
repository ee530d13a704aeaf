--------------------------- MODULE HttpcExchange ----------------------------
(***************************************************************************)
(* One HTTP/1.1 connection in use: httpc_send_request with what it calls   *)
(* (httpc_send_header, httpc_send_data, httpc_handle_response,             *)
(* httpc_read_one_line, httpc_header_get) and httpc_recv_response with     *)
(* httpc_chunked_recv, driven by an application that keeps the connection  *)
(* alive, against a server that answers each whole request with one of     *)
(* Responses and may close the connection at any byte.                     *)
(*                                                                         *)
(* A byte of the wire is a token: "CR", "LF", "SP", "HT", ":", a digit "0" *)
(* or "1" (numbers are binary here), "b" for any other byte.  "H" stands   *)
(* for "HTTP/1.1 ", "CL" for the text Content-Length and "TE" for          *)
(* Transfer-Encoding, wherever they stand, "cl" and "te" for them in other *)
(* letters (HTTP does not tell them apart), and "chunked" and "Chunked"    *)
(* likewise.  "NUL" is the '\0' the client stores.                         *)
(***************************************************************************)
EXTENDS Integers, Sequences, SequencesExt

CONSTANTS
  Responses,  \* what the server may answer, see ResponsesAssumption
  Rounds,     \* how many requests the application makes
  HeaderLen,  \* header_node->buf_used when httpc_send_request is called
  DataLen,    \* send_size, when there is a send_buf
  MaxWrite,   \* the most one mbedtls_ssl_write takes: a record
  BufLen,     \* header_node->buf_len
  LineLen,    \* size of httpc_chunked_recv's tmp_buf
  BodySize,   \* size the application passes to httpc_recv_response
  IntHalf,    \* an int holds -IntHalf .. IntHalf - 1
  Tls,        \* httpc->enable_mbedtls
  Signals,    \* the reads whose wait a signal may end, each by its step
  Endings     \* how the server may close early: with a reset (TRUE) or without

ASSUME SizesAssumption ==
  /\ Rounds \in Nat \ {0} /\ HeaderLen \in Nat \ {0} /\ DataLen \in Nat \ {0}
  /\ MaxWrite \in Nat \ {0} /\ BufLen \in Nat \ {0} /\ LineLen \in Nat \ {0}
  /\ BodySize \in Nat \ {0} /\ IntHalf \in Nat \ {0}
  /\ Tls \in BOOLEAN /\ Endings \subseteq BOOLEAN
  /\ Signals \subseteq {"header", "body", "chunk_line", "chunk_data", "chunk_crlf"}

-----------------------------------------------------------------------------
(* Responses, as HTTP/1.1 defines them *)

Byte == {"CR", "LF", "SP", "HT", ":", "0", "1", "b", "H", "CL", "cl", "TE", "te",
         "chunked", "Chunked", "NUL"}
White == {"SP", "HT"}
Digit == [d \in {"0", "1"} |-> IF d = "1" THEN 1 ELSE 0]

\* The number a string of digits stands for.
Value(digits) ==
  LET value[k \in 0..Len(digits)] ==
        IF k = 0 THEN 0 ELSE 2 * value[k - 1] + Digit[digits[k]]
  IN  value[Len(digits)]

\* s begins with a numeral, and its value is n.
Spells(s, n) ==
  \E k \in 1..Len(s) :
    /\ \A i \in 1..k : s[i] \in DOMAIN Digit
    /\ k < Len(s) => s[k + 1] \notin DOMAIN Digit
    /\ n = Value(SubSeq(s, 1, k))

\* What follows byte p on its line ends before byte q.
LineEndsAt(bytes, p, q) ==
  /\ p < q /\ bytes[q] = "CR" /\ bytes[q + 1] = "LF"
  /\ \A i \in p + 1..q - 1 : bytes[i] \notin {"CR", "LF"}

\* bytes: the response as sent; head: where its header ends; code, length,
\* chunked: what the header says; body: the positions of the body's bytes;
\* chunks: the chunks it comes in, the last one empty.  Of a chunk, line and data
\* are the positions before its first line and before its data, size is its size
\* and before counts the body's bytes that precede it.
Chunk == [line : Nat, data : Nat, size : Nat, before : Nat]
ResponseType(r) ==
  /\ r.bytes \in Seq(Byte) /\ r.head \in 1..Len(r.bytes)
  /\ r.code \in 0..IntHalf - 1 /\ r.length \in Nat /\ r.chunked \in BOOLEAN
  /\ r.body \in Seq(1..Len(r.bytes)) /\ r.chunks \in Seq(Chunk)

\* Where a field of this name begins: at the beginning of a line, the name in any
\* letters, then a colon.
Field(r, name) ==
  {p \in 2..r.head : /\ r.bytes[p - 1] = "LF" /\ r.bytes[p + 1] = ":"
                     /\ r.bytes[p] \in IF name = "CL" THEN {"CL", "cl"} ELSE {"TE", "te"}}

\* The field that begins at p says, between white space, what begins at i.
TextAt(bytes, p, i) ==
  i > p + 1 /\ bytes[p + 1] = ":" /\ \A j \in p + 2..i - 1 : bytes[j] \in White

\* A header line ends in CRLF and holds neither CR nor LF, and the last one is
\* empty; there is one Content-Length at most, and none of use beside
\* Transfer-Encoding; no coding but chunked, which would have to be asked for.
\* What the other lines say is free, the two names included.
HeaderFormed(r) ==
  LET b == r.bytes IN
  /\ b[1] = "H" /\ \A p \in 1..r.head : b[p] # "NUL"
  /\ \A p \in 1..r.head - 1 : b[p] = "CR" <=> b[p + 1] = "LF"
  /\ b[r.head] = "LF" /\ b[r.head - 2] = "LF"
  /\ \A name \in {"CL", "TE"} : \A p, q \in Field(r, name) : p = q
  /\ \A p, q \in 1..r.head :
       LineEndsAt(b, p, q) =>
         /\ p = 1 => Spells(SubSeq(b, 2, q - 1), r.code)
         /\ p \in Field(r, "CL") =>
              \E i \in 1..q - 1 : TextAt(b, p, i) /\ Spells(SubSeq(b, i, q - 1), r.length)
         /\ p \in Field(r, "TE") =>
              \E i \in 1..q - 1 : /\ TextAt(b, p, i) /\ b[i] \in {"chunked", "Chunked"}
                                 /\ \A j \in i + 1..q - 1 : b[j] \in White
  /\ Field(r, "CL") = {} => r.length = 0
  /\ r.chunked = (Field(r, "TE") # {}) /\ (r.chunked => r.length = 0)

PlainFormed(r) ==
  /\ Len(r.bytes) = r.head + r.length /\ Len(r.body) = r.length
  /\ \A i \in 1..r.length : r.body[i] = r.head + i

\* A chunk's first line, its data and a CRLF; after the last chunk, which has no
\* data, a CRLF and no trailer.
ChunksFormed(r) ==
  LET b == r.bytes
      c == r.chunks
      After(k) == c[k].data + c[k].size + 2 IN
  /\ c # <<>> /\ c[1].line = r.head /\ c[1].before = 0
  /\ c[Len(c)].before = Len(r.body) /\ After(Len(c)) = Len(b)
  /\ \A k \in DOMAIN c :
       /\ c[k].data <= Len(b) /\ LineEndsAt(b, c[k].line, c[k].data - 1)
       /\ Spells(SubSeq(b, c[k].line + 1, c[k].data - 2), c[k].size)
       /\ b[After(k) - 1] = "CR" /\ b[After(k)] = "LF"
       /\ c[k].size = 0 <=> k = Len(c)
       /\ \A i \in 1..c[k].size : r.body[c[k].before + i] = c[k].data + i
  /\ \A k \in 1..Len(c) - 1 :
       c[k + 1].line = After(k) /\ c[k + 1].before = c[k].before + c[k].size

ASSUME ResponsesAssumption ==
  \A r \in Responses :
    /\ ResponseType(r) /\ HeaderFormed(r)
    /\ IF r.chunked THEN ChunksFormed(r) ELSE PlainFormed(r)

VARIABLES
  pc,       \* the step of the call in progress; "idle", "done" and "failed"
            \* are the application's
  round,    \* requests begun
  data,     \* does this request have a send_buf?
  out,      \* bytes of this request the transport has taken
  link,     \* "open", or "closed" by the server
  stream,   \* every byte that arrives on this connection, in order
  pos,      \* how many of them the client has read
  hdr,      \* header_node->buf; its length is header_node->buf_used
  code,     \* httpc->response_code
  clen,     \* httpc->content_length
  chunked,  \* httpc->chunked
  want,     \* len of the chunk httpc_chunked_recv is reading
  got,      \* the positions of stream handed to the application as body
  err,      \* is a reset pending in SO_ERROR?
  told,     \* how often the application was told of a reset
  truth,    \* the response being answered, and base, where it starts
  base,
  flaws     \* what has gone wrong on the way in this exchange

wire == <<link, stream, truth, base>>
fields == <<code, clen, chunked>>
status == <<err, told>>
vars == <<pc, round, data, out, wire, pos, hdr, fields, want, got, status, flaws>>

NoResponse == [bytes |-> <<>>, head |-> 0, code |-> 0, length |-> 0,
               chunked |-> FALSE, body |-> <<>>, chunks |-> <<>>]

Init ==
  /\ pc = "idle" /\ round = 0 /\ data = FALSE /\ out = 0
  /\ link = "open" /\ stream = <<>> /\ pos = 0
  /\ hdr = <<>> /\ code = 0 /\ clen = 0 /\ chunked = FALSE
  /\ want = 0 /\ got = <<>> /\ err = FALSE /\ told = 0
  /\ truth = NoResponse /\ base = 0 /\ flaws = {}

-----------------------------------------------------------------------------
(* The transport *)

RequestLen == HeaderLen + (IF data THEN DataLen ELSE 0)
Available == Len(stream) - pos

\* A blocking send takes everything, or less when SO_SNDTIMEO expires;
\* mbedtls_ssl_write takes at most one record.  -1 is any failure.
Write(n) ==
  {-1} \cup {k \in 1..n : ~err /\ (Tls => k = Min({n, MaxWrite}))}

\* Mutant of TimesOut: SO_RCVTIMEO is not set.
NeverTimesOut == FALSE

\* SO_RCVTIMEO bounds recv.  It does nothing under TLS, where
\* mbedtls_net_recv_timeout first waits in select() without a timeout.
TimesOut == ~Tls

\* recv returns 0 at the end of the stream and -1 after a reset;
\* mbedtls_ssl_read an error for close_notify and for a reset, 0 for a bare FIN.
EndOfStream == IF err THEN {-1} ELSE IF Tls THEN {0, -1} ELSE {0}

\* A read ends without a byte and with the connection as it was.  A signal ends
\* recv, and select() under TLS, whose MBEDTLS_ERR_SSL_WANT_READ is a failure here.
GivesUp == TimesOut \/ pc \in Signals

\* The results of one httpc_recv(buf, size).
Recv(size) ==
  {n \in 1..size : n <= Available}
    \cup {n \in {-1} : GivesUp}
    \cup {n \in EndOfStream : link = "closed" /\ Available = 0}

\* A call that fails at the end of a connection that was reset reports the
\* reset, and the kernel forgets it.
Report(fails) ==
  /\ err' = (err /\ ~fails)
  /\ told' = IF err /\ fails THEN told + 1 ELSE told

\* What httpc_recv copied out, given its result.
Taken(n) == IF n > 0 THEN n ELSE 0

-----------------------------------------------------------------------------
(* The server *)

Answer ==
  \E r \in Responses :
    /\ link = "open" /\ round > 0 /\ out = RequestLen
    /\ truth = NoResponse
    /\ truth' = r /\ base' = Len(stream)
    /\ stream' = stream \o r.bytes
    /\ UNCHANGED <<pc, round, data, out, link, pos, hdr, fields, want, got, status, flaws>>

\* The connection ends, in order or with a reset; what was not yet delivered may
\* be lost.
Close ==
  /\ link = "open" /\ link' = "closed"
  /\ err' \in Endings
  /\ \E n \in pos..Len(stream) : stream' = SubSeq(stream, 1, n)
  /\ UNCHANGED <<pc, round, data, out, truth, base, pos, hdr, fields, want, got, told, flaws>>

-----------------------------------------------------------------------------
(* httpc_send_request: sending *)

\* The application fills header_node and calls httpc_send_request, also after
\* an exchange that failed.
StartRequest ==
  \E withData \in BOOLEAN :
    /\ pc \in {"idle", "done", "failed"} /\ round < Rounds
    /\ pc' = "send_header" /\ round' = round + 1
    /\ data' = withData /\ out' = 0
    /\ truth' = NoResponse /\ got' = <<>> /\ flaws' = {}
    /\ UNCHANGED <<link, stream, base, pos, hdr, fields, want, status>>

\* httpc_connection_status_get between two calls.  Reading SO_ERROR clears it.
StatusReads(clears) ==
  /\ pc \in {"idle", "done", "failed"} /\ err
  /\ told' = told + 1
  /\ err' = ~clears
  /\ UNCHANGED <<pc, round, data, out, wire, pos, hdr, fields, want, got, flaws>>

SendThen(n, next) ==
  /\ out' = out + Taken(n)
  /\ pc' = IF n < 0 THEN "failed" ELSE next
  /\ hdr' = IF pc' = "header" THEN <<>> ELSE hdr
  /\ Report(n < 0)
  /\ UNCHANGED <<round, data, wire, pos, fields, want, got, flaws>>

\* Mutant of SendHeader: send_buf is forgotten.
SendHeaderOnly ==
  pc = "send_header" /\ \E n \in Write(HeaderLen) : SendThen(n, "header")

\* The number of bytes taken is compared with 0 and not with the size.
SendHeader ==
  /\ pc = "send_header"
  /\ \E n \in Write(HeaderLen) : SendThen(n, IF data THEN "send_data" ELSE "header")

SendData ==
  pc = "send_data" /\ \E n \in Write(DataLen) : SendThen(n, "header")

-----------------------------------------------------------------------------
(* httpc_read_one_line *)

\* Where the line that begins at pos + 1 ends: the place of its LF, or 0.
LineEnd ==
  LET ends == {q \in pos + 2..Len(stream) : stream[q] = "LF" /\ stream[q - 1] = "CR"}
  IN  IF ends = {} THEN 0 ELSE Min(ends)

\* Its results: count, the bytes stored (CR included, LF not), pos, where the
\* stream stands then, and whether a line was read.  It stops at CR LF, when
\* size bytes are stored, or when a byte cannot be read.
ReadOneLine(size) ==
  LET len   == LineEnd - pos - 1
      fits  == LineEnd # 0 /\ len < size
      most  == IF fits THEN len ELSE Min({Available, size - 1})
      line  == [count |-> len, pos |-> LineEnd, whole |-> TRUE, fails |-> FALSE]
      full  == [count |-> size, pos |-> pos + size, whole |-> FALSE, fails |-> FALSE]
      short(r) == [count |-> r, pos |-> pos + r, whole |-> FALSE,
                   fails |-> r = Available]
  IN  {l \in {line} : fits}
        \cup {l \in {full} : ~fits /\ Available >= size}
        \cup {short(r) : r \in {r \in 0..most :
                GivesUp \/ (link = "closed" /\ r = Available)}}

\* The line with its last byte, normally the CR, overwritten by '\0'.
Stored(l) == SubSeq(stream, pos + 1, pos + l.count - 1)

-----------------------------------------------------------------------------
(* httpc_handle_response and httpc_header_get *)

\* An empty line, and nothing else, is a lone CR at the front of the buffer.
IsBlank(l) == l.count = 1 /\ stream[pos + 1] = "CR"

\* Reading begins where the response does: the bytes of an earlier exchange have
\* all been read.
AtItsBeginning == truth # NoResponse /\ pos = base

\* One line into the buffer, given the room httpc_read_one_line is told of.
StoreLine(room) ==
  \E l \in ReadOneLine(room) :
    LET ends == l.count = 0 \/ IsBlank(l) IN
    /\ pc = "header"
    /\ pos' = l.pos
    /\ hdr' = IF ends THEN hdr ELSE hdr \o Stored(l) \o <<"NUL">>
    /\ pc' = IF ends \/ Len(hdr') >= BufLen THEN "parse" ELSE "header"
    /\ flaws' = flaws \cup {f \in {"cut"} : ~l.whole \/ (hdr = <<>> /\ ~AtItsBeginning)}
    /\ Report(l.fails)
    /\ UNCHANGED <<round, data, out, wire, fields, want, got>>

\* Mutant of ReadHeaderLine: the room left is not reduced by what is stored.
ReadHeaderLineNoRoom == StoreLine(BufLen)

ReadHeaderLine == StoreLine(BufLen - Len(hdr))

\* strtoul: white space, then digits up to the first byte that is none.
Number(s) ==
  LET first  == SelectInSeq(s, LAMBDA t : t \notin White \cup {"CR", "LF"})
      rest   == IF first = 0 THEN <<>> ELSE SubSeq(s, first, Len(s))
      stop   == SelectInSeq(rest, LAMBDA t : t \notin DOMAIN Digit)
      digits == IF stop = 0 THEN rest ELSE SubSeq(rest, 1, stop - 1)
  IN  Value(digits)

\* The unsigned long assigned to an int.
ToInt(n) == ((n + IntHalf) % (2 * IntHalf)) - IntHalf

\* The C string of the buffer that begins at index i.
StringAt(i) ==
  LET nul == SelectInSubSeq(hdr, i, Len(hdr), LAMBDA t : t = "NUL")
  IN  SubSeq(hdr, i, (IF nul = 0 THEN Len(hdr) ELSE nul - 1))

Absent == <<"absent">>

\* What may stand behind the strings of the buffer: nothing, or, when it is full,
\* anything.
Behind == {<<>>} \cup {s \in {<<"1">>} : Len(hdr) >= BufLen}

\* What httpc_header_get may return for a name.  It takes the first place that
\* holds the name, be it in another name or in a value, skips one character,
\* which it takes for the colon, and a space.  When the buffer is full the search
\* runs one string past its end.
HeaderGet(name) ==
  LET i     == SelectInSeq(hdr, LAMBDA t : t = name)
      begin == IF i + 2 <= Len(hdr) /\ hdr[i + 2] = "SP" THEN i + 3 ELSE i + 2
  IN  IF i = 0 THEN {Absent} \cup (Behind \ {<<>>})
      ELSE IF i + 2 > Len(hdr) THEN Behind
      ELSE {StringAt(begin)}

HasStatus == \E i \in 1..Len(StringAt(1)) : hdr[i] = "H"

\* What the search counts on and HTTP does not promise: each of the two names
\* stands first where its field is, in these letters, and the coding is "chunked"
\* to the letter, behind the colon and one space at most.
AsSearched(r) ==
  LET b == r.bytes IN
  /\ \A name \in {"CL", "TE"} :
       /\ \A p \in Field(r, name) : b[p] = name
       /\ \A m \in 1..r.head : b[m] = name => \E p \in Field(r, name) : p <= m
  /\ \A p \in Field(r, "TE"), q \in 1..r.head :
       LineEndsAt(b, p, q) =>
         SubSeq(b, p + 1, q - 1) \in {<<":", "chunked">>, <<":", "SP", "chunked">>}

\* The response is understood from the buffer, whatever was read into it;
\* unset is content_length when the field is missing.  A buffer without a
\* status line leaves the three fields as they were.
Understand(unset) ==
  /\ pc = "parse"
  /\ \/ ~HasStatus /\ pc' = "failed" /\ UNCHANGED fields
     \/ \E cl \in HeaderGet("CL"), te \in HeaderGet("TE") :
          /\ HasStatus
          /\ code' = ToInt(Number(StringAt(1 + SelectInSeq(hdr, LAMBDA t : t = "H"))))
          /\ clen' = IF cl = Absent THEN unset ELSE ToInt(Number(cl))
          /\ chunked' = (clen' = 0 /\ te = <<"chunked">>)
          /\ pc' = CASE clen' > 0 -> "body"
                     [] clen' < 0 -> "done"
                     [] clen' = 0 /\ te = Absent -> "failed"
                     [] chunked' -> "chunk_line"
                     [] OTHER -> "done"
  /\ flaws' = flaws \cup {f \in {"cut"} : truth = NoResponse \/ pos # base + truth.head}
                    \cup {f \in {"wrapped"} : truth.length >= IntHalf}
                    \cup {f \in {"misled"} : ~AsSearched(truth)}
  /\ UNCHANGED <<round, data, out, wire, pos, hdr, want, got, status>>

\* Mutant of Parse: content_length is not reset before the search.
ParseKeepsLength == Understand(clen)

Parse == Understand(0)

-----------------------------------------------------------------------------
(* httpc_recv_response *)

Positions(n) == [i \in 1..n |-> pos + i]

\* What one httpc_recv(buf, asked) of body bytes leaves behind.
Deliver(n, asked) ==
  /\ got' = got \o Positions(Taken(n))
  /\ pos' = pos + Taken(n)
  /\ flaws' = flaws \cup {f \in {"fault"} : n <= 0}
                    \cup {f \in {"torn"} : pc = "chunk_data" /\ 0 < n /\ n < asked}
  /\ Report(n <= 0 /\ Available = 0)
  /\ UNCHANGED <<round, data, out, wire, hdr, fields, want>>

\* HTTPC_MODE_NORMAL.  The application calls again until it has enough, that
\* is content_length bytes, and gives up on 0 or an error.
NormalUntil(enough) ==
  \E n \in Recv(BodySize) :
    /\ pc = "body"
    /\ Deliver(n, BodySize)
    /\ pc' = IF n <= 0 THEN "failed" ELSE IF Len(got') >= enough THEN "done" ELSE "body"

\* Mutant of RecvNormal: one read is taken for the whole body.
RecvNormalOnce == NormalUntil(1)

RecvNormal == NormalUntil(clen)

\* httpc_chunked_recv finds no memory for tmp_buf.
NoLineBuffer ==
  /\ pc = "chunk_line"
  /\ pc' = "done"
  /\ flaws' = flaws \cup {"fault"}
  /\ UNCHANGED <<round, data, out, wire, pos, hdr, fields, want, got, status>>

\* HTTPC_MODE_CHUNK, in the three reads of httpc_chunked_recv.  The application
\* calls again until a negative result, which is the end of the body and every
\* error alike.
ChunkLine ==
  \E l \in ReadOneLine(LineLen) :
    LET len == ToInt(Number(Stored(l))) IN
    /\ pc = "chunk_line"
    /\ pos' = l.pos
    /\ want' = len
    /\ pc' = IF len <= 0 \/ len > BodySize THEN "done" ELSE "chunk_data"
    /\ flaws' = flaws \cup {f \in {"fault"} : ~l.whole}
                      \cup {f \in {"small"} : len > BodySize}
                      \cup {f \in {"wrapped"} : Number(Stored(l)) >= IntHalf}
    /\ Report(l.fails)
    /\ UNCHANGED <<round, data, out, wire, hdr, fields, got>>

ChunkBytes(asked, next) ==
  \E n \in Recv(asked) :
    /\ pc = "chunk_data"
    /\ Deliver(n, want)
    /\ pc' = IF n < 0 THEN "done" ELSE next

\* Mutant of ChunkData: size is passed to httpc_recv where len belongs.
ChunkDataReadsSize == ChunkBytes(BodySize, "chunk_crlf")

\* Mutant of ChunkData: the CRLF after the data is not read.
ChunkDataNoCrlf == ChunkBytes(want, "chunk_line")

ChunkData == ChunkBytes(want, "chunk_crlf")

\* Two bytes are asked for and dropped; a failure is only logged.
ChunkCrlf ==
  \E n \in Recv(2) :
    /\ pc = "chunk_crlf"
    /\ pos' = pos + Taken(n)
    /\ pc' = "chunk_line"
    /\ flaws' = flaws \cup {f \in {"fault"} : n <= 0}
    /\ Report(n <= 0 /\ Available = 0)
    /\ UNCHANGED <<round, data, out, wire, hdr, fields, want, got>>

Client ==
  \/ SendHeader \/ SendData \/ ReadHeaderLine \/ Parse
  \/ RecvNormal \/ NoLineBuffer \/ ChunkLine \/ ChunkData \/ ChunkCrlf

\* Mutant of StatusGet: SO_ERROR is not read but looked at.
StatusGetKeeps == StatusReads(FALSE)

StatusGet == StatusReads(TRUE)

Next == StartRequest \/ StatusGet \/ Client \/ Answer \/ Close

Spec == Init /\ [][Next]_vars

\* The calls run to their end: nothing is assumed of the server or of the
\* application.  It is meant for Signals = {}: a signal is not owed.
FairSpec == Spec /\ WF_vars(Client)

-----------------------------------------------------------------------------
(* Properties *)

InCall == pc \notin {"idle", "done", "failed"}

TypeOK ==
  /\ pc \in {"idle", "send_header", "send_data", "header", "parse", "body",
             "chunk_line", "chunk_data", "chunk_crlf", "done", "failed"}
  /\ round \in 0..Rounds /\ data \in BOOLEAN /\ out \in 0..RequestLen
  /\ link \in {"open", "closed"}
  /\ stream \in Seq(Byte) /\ pos \in 0..Len(stream) /\ base \in Nat
  /\ hdr \in Seq(Byte) /\ Len(hdr) <= BufLen
  /\ code \in -IntHalf..IntHalf - 1 /\ clen \in -IntHalf..IntHalf - 1
  /\ chunked \in BOOLEAN
  /\ want \in -IntHalf..IntHalf - 1
  /\ got \in Seq(1..Len(stream))
  /\ err \in BOOLEAN /\ told \in Nat
  /\ truth \in Responses \cup {NoResponse}
  /\ flaws \subseteq {"cut", "fault", "torn", "small", "wrapped", "misled"}

Body == [i \in 1..Len(truth.body) |-> base + truth.body[i]]

\* Whatever the sizes of the reads, the application is handed the body's bytes
\* and no others, in order and once each, provided the header was read whole,
\* the search for its fields found them, and no chunk came in more than one read
\* (httpc_recv_response).
BodyInOrder ==
  flaws \cap {"cut", "torn", "fault", "wrapped", "misled"} = {} => IsPrefix(got, Body)

\* When an exchange ends well for the application and nothing is on record to
\* excuse it, the body was delivered to its last byte.
DoneMeansWhole == pc = "done" /\ flaws = {} => got = Body

\* A connection that is kept alive after such an exchange stands at the end of
\* the response, or before the CRLF that follows the last chunk.
KeepAlive ==
  pc = "done" /\ flaws = {} /\ link = "open" =>
    SubSeq(stream, pos + 1, Len(stream)) = IF chunked THEN <<"CR", "LF">> ELSE <<>>

\* After a header that was read whole, the fields are those of this response
\* and not of an earlier one on the connection (httpc_handle_response): the
\* status always, the other two when the names stand where the search looks for
\* them first.  A length is what an int makes of it.
HeaderRead == pc \in {"body", "chunk_line", "done"} /\ round > 0 /\ "cut" \notin flaws
HeaderTruth ==
  HeaderRead =>
    /\ code = truth.code
    /\ AsSearched(truth) => clen = ToInt(truth.length) /\ chunked = truth.chunked

\* A plain connection has SO_RCVTIMEO: every call returns, whatever the server
\* does or fails to do.
EveryCallReturns == InCall ~> ~InCall

\* What the chunked receiver drops after the data of a chunk is CRLF, as the
\* comment at httpc.c:435 says.
DropsOnlyCrlf ==
  [][pc = "chunk_crlf" =>
       \A i \in pos + 1..pos' : stream[i] = <<"CR", "LF">>[i - pos]]_vars

\* A reset is told to the application once, by whatever call comes first: after
\* a send or receive that failed because of it, httpc_connection_status_get says
\* HTTPC_ERR_OK.
ResetToldOnce == told <= 1 /\ (told = 1 => link = "closed" /\ ~err)

\* The exchange implements BodyService: everything the three modes of reading
\* do amounts to handing out longer and longer beginnings of the body and then
\* saying so, or to a failure.  An exchange with a flaw on record counts as
\* failed, although the code does not tell.
Outcome ==
  IF flaws # {} THEN "failed" ELSE IF InCall THEN "open" ELSE pc
Service == INSTANCE BodyService WITH
  phase <- Outcome,
  body  <- IF flaws = {} THEN Body ELSE <<>>,
  given <- IF flaws = {} THEN got ELSE <<>>
ImplementsService == Service!Spec

\* httpc_send_request returns HTTPC_ERR_OK when it has received the header of the
\* response and parsed it (httpc.h:110): to its end, with content_length the length
\* of the text and chunked whether the transfer is in chunks (httpc.h:84-85).
OkMeansHeaderRead ==
  [][pc = "parse" /\ pc' \notin {"parse", "failed"} =>
       /\ truth # NoResponse /\ pos = base + truth.head
       /\ clen' = truth.length /\ chunked' = truth.chunked]_vars

\* httpc_send_header and httpc_send_data succeed when they have sent the
\* request: the wait for the response begins with all of it sent.
RequestWhole == pc = "header" => out = RequestLen
=============================================================================
