# A formal model of httpc

`src/httpc` is a small HTTP client library in C: one source file
(`src/httpc/src/httpc.c`, 1166 lines) and one public header.  It speaks
HTTP/1.1 over plain sockets or mbed TLS, and HTTP/2 through nghttp2.  This
directory holds TLA+ models of it, TLC configurations that check them on small
instances, and proofs checked by TLAPS.  Everything is translated from the C
source; `PROJECT.json` gives the source lines of every definition.

## 1. Inventory

The library has no threads of its own and keeps no files.  What makes it hard
is the world around it: descriptor numbers shared with the rest of the process,
a byte stream that arrives in pieces or stops, libraries that take part of what
they are given, and many error exits.

| Part | State | Operations | Works with |
|---|---|---|---|
| Life cycle | heap blocks, `socket`, `mbedtls_ctx`, the connection | `httpc_init`, `httpc_deinit`, `httpc_parse_uri`, `httpc_tls_init`, `httpc_tls_deinit`, `httpc2_init`, `httpc2_deinit` | sockets, mbed TLS, nghttp2; other threads through the descriptor table |
| HTTP/1.1 exchange | `header_node`, `content_length`, `chunked`, `response_code`, the stream | `httpc_send_request`, `httpc_handle_response`, `httpc_read_one_line`, `httpc_header_get`, `httpc_recv_response`, `httpc_chunked_recv` | `httpc_send`/`httpc_recv` over a socket or TLS; the application's calls; the server |
| Header buffer | `buf`, `buf_len`, `buf_used` | `httpc_header_set`, `httpc_mem_node_reset` | filled by the application, sent by the exchange and overwritten with the response |
| URI parsing | none (pure) | `httpc_ipv4_address_check`, the scheme/host/path split | called by `httpc_init` |
| HTTP/2 session | `session` (nghttp2's queues and windows), `write_callback` | `httpc2_submit_request`, `httpc2_core_run`, send/receive/data callbacks | nghttp2 calls back into the library and through it into the application |
| Connection status | `SO_ERROR` | `httpc_connection_status_get` | the socket |
| Vendored code | queues, streams, windows; records | mbed TLS 3.4.0, nghttp2 1.53.0 | the parts `httpc.c` reaches; see section 5 |
| Tests, examples, build files | | | not modelled; the tests need a network, and show how applications call the library |

What each part has to get right:

* Life cycle: every exit frees and closes what it acquired, once; no descriptor
  of another owner is closed; a handle that is returned stands for a
  connection of the kind the URI asked for.
* Exchange: the bytes handed out are the body of *this* response, in order and
  once, whatever the sizes of the reads; the fields are those of this response;
  a whole request is sent; every call returns when receive timeouts are set; a
  kept connection stands where the next response begins.
* Header buffer: after calls that succeeded the lines are all there; nothing is
  written or sent beyond the buffer unless a call has failed before.
* URI parsing: an address in the URI never goes to the resolver, and the socket is
  connected to the address and the port that the URI spells out.
* Connection status: a reset is told to the application once.
* HTTP/2: frames arrive whole and in order, a stream lives until both sides have
  ended it, the windows are given back, received data never goes to the callback
  of an earlier request, every request is answered, `httpc2_core_run` does not block.

The behaviours that are hard to test are the list `hazards` of `PROJECT.json`,
each at its line with the properties that watch over it.

## 2. Modules

### HttpcLifecycle

One action per step of the constructors and destructors (allocation, socket,
URI and connect, TLS set-up, handshake, TLS teardown, the exits, `fcntl`, the
session).  `own` is the set of live heap blocks, `fd` the descriptor table of
the process, `sock` and `netfd` the two copies the library keeps of its
descriptor number, `link` what the connection really is.  `call` and `cont` are
the return addresses (which public call is in progress, where
`httpc_tls_deinit` returns to).  `AppOpen`/`AppClose` are another thread of
the application: descriptors are handed out lowest free number first, so a
number closed by the library can be somebody else's an instant later.
Abstracted: the URI's text (scheme, and whether the host is a literal), the
contents of certificates (accepted, rejected, never received), logging.
`H2FreeAgain` is a `free` of a freed block: the allocator aborts, or nothing
happens.  A block lost by one handle (`host` and `path` after a TLS failure) is
not followed once another handle is created.

### HttpcConnect (and MCHttpcConnect, which gives the URIs)

Extends `HttpcLifecycle` with the texts that `httpc_parse_uri` and
`httpc_ipv4_address_check` look at; it is the module whose runs check the life
cycle.  A host is the sequence of labels between its dots and the text of a
port; of each the model keeps its length and what `atoi`, `strncmp` and
`inet_pton` make of it (`Label`, `PortText`).  `Parsing` replaces the life cycle's
`ParseUri` by four cases: `Rejected` (scheme, memory), `Literal` (connected
without the resolver), `Name` (`getaddrinfo`, which is given the port's text as
part of the name) and `Overrun`: `ip_addr` has room for 15 characters and is
given up to 21, which may end the process (the stack protector) or
go unnoticed.  Every other step is the life cycle's own (`GoingOn`).

### HttpcExchange (and MCHttpcExchange, which gives the responses)

One connection, one application, one server.  `stream` is every byte that
arrives, `pos` how many were read; a byte is a token (`CR`, `LF`, white space, a
colon, a binary digit, any other byte).  The texts the client searches for are one
token each, wherever they stand: `CL` and `TE` for the two field names, in a name,
in a longer name or in a value, `cl` and `te` for the same names in other letters,
`chunked` and `Chunked` likewise.  `hdr` is the used part of
`header_node`, `clen`, `chunked` and `code` the three fields of `httpc_t`.
`got` is history: the *positions* of the stream that were handed out as body, so that
`got = Body` says which bytes, not just how many.  `truth` and `base` are the
response that is being answered and where it begins.  `flaws` is history of the things that
excuse a result: `cut` (the header was not read whole or a read in it failed),
`torn` (a chunk came in more than one read), `fault` (a read of the body
failed), `small` (a chunk larger than the caller's buffer), `wrapped` (a number
beyond `int`), `misled` (the response is one whose fields the search need not find).

* `ReadOneLine` is the loop of single-byte reads of `httpc_read_one_line` as
  the set of its results.  Nothing the client writes changes during the loop,
  and the server can only append or close, so a whole line is one step; the
  results include a timeout after any byte and the end of the stream.
* `Recv` returns any size from one byte to what was asked for.  A plain
  connection may time out at any moment (`SO_RCVTIMEO`); TLS never does,
  because `mbedtls_net_recv_timeout` waits in `select` without a timeout.  A signal
  may end either wait (`GivesUp`): of `select`, `EINTR` becomes
  `MBEDTLS_ERR_SSL_WANT_READ`, which to `httpc_recv` is a failure with
  the connection as it was.  `Signals` is the set of reads that may meet one.
* `httpc_chunked_recv` is three steps (length line, data, CRLF), its three
  kinds of read.
* The application asks for a body as long as `content_length` or `chunked`
  say, treats a result `<= 0` in normal mode as a failure and a negative one in
  chunked mode as the end, as `src/test/get_example.c` does, and then
  sends its next request on the same connection, also after a failure.
* A connection ends in order or with a reset (`Endings`).  `err` is the reset
  pending in the kernel: the call that fails because of it reports it and
  clears it (`Report`), and so does `httpc_connection_status_get`
  (`StatusGet`).  `told` counts how often the application heard of it.
* `ResponsesAssumption` says what a response is, as HTTP/1.1 defines it:
  header lines that end in CRLF and hold neither, the last one empty; one
  `Content-Length` at most and none beside `Transfer-Encoding`, their names in any letters
  and what they say between white space; no transfer coding but
  `chunked`, in any letters, no trailer; a body of the announced length, or chunks with their
  lengths.  What the other lines say is free: they may hold the two names as well.
  `head`, `code`, `length`, `chunked`, `body` and `chunks` say where the parts are,
  so that `Body` is not computed by a second parser but given with the bytes.
  TLC evaluates the assumption for every response of the runs; the proofs
  use nothing else of them.  A trailer, or a coding that was not asked for, would be
  left in the stream or taken for a body without length (section 5).
* `cut` is also on record when reading began anywhere but at the first byte
  of the response (`AtItsBeginning`): the application may send its next request
  while bytes of the answer before are unread, and they are then read as
  this answer.
* `HeaderGet` is the search of `httpc_header_get`: the first place of the buffer
  that holds the name (`strstr`, in no more than the letters it was given, and at any
  place of any line), then one character that is taken for the colon, and one space.
  HTTP promises nothing of that order and of those letters.  `AsSearched` says of which
  responses the search finds what they say: each name stands first where its field
  begins and in these letters, and the coding is `chunked` to the letter, as
  the `strcmp` at `httpc.c:725` wants it.  It is not an assumption: the
  runs answer with other responses too (`Longer`, `InValue`, `Capital`), and `misled` is
  then on record.
* Abstracted: all other text, numbers in base 2, white space other than space and tab
  within a line.  What `httpc_header_get` finds behind a full
  buffer is any of absent, nothing or a number.

* `NoLineBuffer` is the allocation at the head of `httpc_chunked_recv` failing;
  to the application it looks like the end of the body.

### BodyService

What `httpc_send_request` and `httpc_recv_response` amount to for an
application: a request is answered with one body, of which it is given longer
and longer beginnings, and it is told that it is complete only when it has all
of it; or the request fails.  `HttpcExchange` implements it
(`ImplementsService`) under the mapping `Service`: an exchange with a flaw on
record counts as failed, because what the code tells the application then cannot
be relied on.  The mapping takes nothing from `BodyInOrder` or
`DoneMeansWhole`: it also says that what was handed out is never taken back, and
that no exchange resumes after its end.

### HttpcHeaderBuf

The arithmetic of `header_node`: `buf_used` (`used`), the last byte anybody
wrote (`reach`), how much of the buffer from its start is text of this
request's lines (`fill`), and the length last given to `httpc_send` (`sent`).
A line is its length.  `Written` is `vsnprintf` with the room
`buf_len - buf_used`: nothing when it is 0, cut when the text does not fit,
unbounded when it is negative, because an `int` becomes a `size_t`.  The
application calls in any order and ignores results; `marks` remembers what it
was told (`refused` since the buffer was emptied, `warned` ever) and whether
the buffer begins with a response (`stale`).  In `HttpcExchange` the same buffer
is a sequence of tokens and only the response side fills it.  Not modelled:
`vsnprintf` failing with -1, and `buf_used` beyond `int`.

### Httpc2Session

One HTTP/2 connection in use, in one module because the library's callbacks,
nghttp2's loop and the transport step on the same few variables.

* The application: `Submit` is `httpc2_submit_request`, at any time between two
  runs; nghttp2 may refuse it, and `callback` (`httpc2->write_callback`) is
  overwritten all the same.  `Run` is `httpc2_core_run`, called again whatever it
  returned, as `httpc.h` asks for.
* `nghttp2_session_send`: the queues `urgent`, `reg`, `syn` and the streams with
  `DATA` (`attached`) in the order of `nghttp2_session_pop_next_ob_item`;
  `cur`/`left` is the active frame and how much of it is unsent; `AfterFrameSent`
  is what happens when it has gone.
* The transports: a plain non-blocking socket takes what fits (`SendPlain`), and
  with no room at all `httpc2_send_callback` fails, nghttp2 takes the rest of the frame
  for sent, and `torn` is set (`SendFails`).  `mbedtls_ssl_write` makes records
  of at most `MaxRecord`; a record the socket does not take stays in `record`,
  and `WANT_WRITE` becomes `WOULDBLOCK`, after which nghttp2 returns 0 and the
  run goes on to receive (`SendWouldBlock`).
* `nghttp2_session_recv`: `RecvFrame`; with nothing to read, `RecvFails` on a
  plain socket (EAGAIN is `HTTPC_ERR_FAIL`) and no step at all under TLS, where
  `select` waits; `Interrupted` is a signal during that wait, so no fairness is
  assumed of it.
* `flow` is `recv_window_size` and `window_update_queued` of the connection and
  of each stream; `Received` queues a `WINDOW_UPDATE` at half a window.
* The server keeps to the protocol, reads frames whole and in order, takes
  nothing before the preface, announces its limit at any time, answers a
  request before or after it has read its body, in as many DATA frames as its
  windows allow, and refuses requests beyond the limit it announced.  `Close`
  ends the connection at any moment.

Abstracted: a frame is `FrameLen` units whatever its kind; a DATA frame of the
server arrives in one read and spends one unit of the window; response HEADERS
before DATA travel with the first DATA frame; header fields; which stream's
DATA is scheduled next (any).  `own`, `calls`, `read`, `sending` and `torn` are history;
`server.phase` to `server.credit` are the server's own.

### Sums

The sum of a sequence of numbers, as a function recursive in the index: lengths
of URIs (`HttpcConnect`) and what is under way of a window (`Httpc2Session`).

### The proof modules

| Module | About | Builds on |
|---|---|---|
| `HttpcLifecycleProofs` | `HttpcLifecycle` | |
| `HttpcConnectProofs` | `HttpcConnect` | `HttpcLifecycleProofs`, `SumsProofs` |
| `HttpcHeaderBufProofs` | `HttpcHeaderBuf` | |
| `HttpcExchangeProofs` | `HttpcExchange`, `BodyService` | `SumsProofs` |
| `Httpc2SessionProofs`, `Httpc2CloseProofs`, `Httpc2WireProofs` | `Httpc2Session` | each on the one before, the last on `SumsProofs` |
| `SumsProofs` | `Sums`, induction | |

See section 4.

## 3. Runs

| Run | Bounds | Shows |
|---|---|---|
| `lifecycle` | `HttpcConnect`: two descriptors, both schemes, both versions, some 600 URIs | `TypeOK`, `OwnInv`, `FdInv`, `NothingOutlivesTheCall`, `PlainLeavesNothing`, `RouteByShape`, `NamedPeer`, `DeinitReleasesAll`, `PlainClosesOnlyItsOwn` |
| `lifecycle_ready` | https, HTTP/1.1 | violation of `ReadyIsConnected` |
| `lifecycle_fd` | https, HTTP/1.1 | violation of `ClosesOnlyItsOwn` |
| `lifecycle_free` | HTTP/2 | violation of `FreesLiveBlock` |
| `exchange_plain` | plain socket, one request, two responses, a buffer of 10, close at any byte, timeout at any read | `BodyInOrder`, `DoneMeansWhole`, `EveryCallReturns` |
| `exchange_keepalive` | TLS, three requests, eight responses, close or reset at any byte, signals in reads of body bytes | `TypeOK`, `BodyInOrder`, `DoneMeansWhole`, `KeepAlive`, `HeaderTruth`, `RequestWhole`, `ResetToldOnce`, `ImplementsService` |
| `header_buf` | a buffer of 4, lines of 0 to 5, calls up to `buf_used` = 7 | `TypeOK`, `WholeLines`, `BeyondOnlyAfterWarning`, `SentWithinBuffer` |
| `exchange_crlf` | TLS, chunked response | violation of `DropsOnlyCrlf` |
| `exchange_header` | TLS, one response with a longer name in front of `Content-Length` | violation of `OkMeansHeaderRead` |
| `exchange_write` | a record of 2 bytes, requests of 3 and 5 | violation of `RequestWhole` |
| `h2_session` | two streams, both transports, a socket of 3 units for frames of 2, records of 1, windows of 2, responses of up to 3, one stream at a time | `TypeOK`, `WireInOrder`, `PrefaceFirst`, `OwnOrLaterCallback`, `ClosedMeansWhole`, `WindowConserved`, `RefusedOnlyBeforeAck`, `PlainRunReturns`, `PlainAnswered` |
| `h2_blocks` | one request over TLS | violation of `RunReturns` |

Bounds.  Two descriptors are enough for one the library holds and one another
thread opens, in either order; the proofs cover every number.  The responses
are the shapes the parser tells apart: a Content-Length between white space, two chunks of
different sizes, neither, a length beyond `int`, a chunk beyond the buffer; and
three on which the search goes astray: a longer name that ends in `Content-Length`,
the name as the last word of a value (the next line is then taken for what it says),
and a coding with a capital letter.
Bodies contain a CR and a digit, so that a reader which loses its place meets
bytes it may take for framing.  Three requests let each response follow each
kind of predecessor, which is what stale fields need.  `IntHalf = 8` puts the
int boundary at eight.  `BufLen = 20` holds every header of the responses with
room to spare (10 in `exchange_plain`, whose headers take 8), and `MaxWrite = 5` a whole request;
`exchange_write` lowers it.  Signals are left to the reads of body bytes: in a read
of a line they have the results of a timeout, which `exchange_plain` has at every byte, and a
failure at every byte of every header, over three requests, is beyond TLC.  The
proofs cover every set of reads.

The lengths of `header_buf` are an empty line, lines that fit one, two or three
times, one that fills the buffer but for the `\0`, and one longer than the whole
buffer; `MaxUsed = 7` lets two more calls follow a refusal, when the
room is negative.  The proofs cover every length.

The hosts of `lifecycle` are quads that differ from 255.255.255.255 in up to two places by every
kind of label (`0`, `256`, `012`, `1a`, `-1`, a word, nothing), names of other shapes and lengths, and seven ports around the
limits; the longest of them is one character over what is taken for an
address.

In `h2_session` the socket holds one frame and a half, so that frames are cut on
both transports; a record is half a frame, so that TLS stops between the two; a
response of three frames overruns a window of two, so that it ends only if the window
is given back; and two requests under a limit of one make the second wait in
`syn`, or be refused when it was sent before the limit was known.  The session
is followed to the first frame torn on a plain socket.

Deadlock is not checked (but in `header_buf`): the process may abort in
`HttpcLifecycle`; the application stops after its last request in
`HttpcExchange`, and a TLS client waits for ever for bytes that do not come; a
session of `Httpc2Session` ends after its first torn frame.

Fairness.  `EveryCallReturns` assumes weak fairness of the client's own steps
only: the thread in a call keeps running, and a read that can time out
eventually does.  The server need not answer, close or send anything, and no signal is owed
(`Signals = {}`).  The constant `Tls = FALSE` is what makes it true.

`PlainRunReturns`, `RunReturns` and `PlainAnswered` assume weak fairness of the
library's steps (a thread in a call keeps running) and of `Run`
(`httpc.h:188` asks the caller to call `httpc2_core_run` again and again), and of
the server's steps: it says hello, reads and answers.  Nothing is assumed of `Submit`,
`Close` and `Interrupted`.  `PlainAnswered` excuses a torn frame
and the end of the connection, nothing else.

### Disagreements with the documentation

Each violation run is an entry of `findings`, with the line it quotes.

1. `httpc_init` may return a handle whose connection or TLS session does not
   exist (`httpc.c:567`, `httpc.c:313`).
2. Under TLS the socket is closed twice (`httpc.c:473` and `httpc.c:899`).
3. `httpc2_init` frees its `httpc2_t` twice on failure (`httpc.c:1151`).
4. A chunk that arrives in two reads loses bytes (`httpc.c:429`).
5. A request succeeds with fields that are not the response's.  The run shows a field that was
   taken for another one because the search looks for the bare name
   (`httpc.c:604`).  The same promise, `OkMeansHeaderRead`, is broken in more ways, which
   other constants show: a header longer than the buffer is accepted
   cut (`httpc.c:689`; `BufLen = 6`), so is one whose reading failed within a
   line (`httpc.c:356`; `Tls = FALSE`), a length beyond `int` is
   stored as another number (`httpc.c:714`; `Wide`), and `Chunked` is not
   `chunked` (`httpc.c:725`; `Capital`).
6. A request longer than one write is sent in part (`httpc.c:747`).
7. Under TLS `httpc2_core_run` blocks (`httpc.c:1088`, `net_sockets.c:617`).

The passing properties are stated so as to say what holds in spite of these:
`PlainClosesOnlyItsOwn` and `PlainLeavesNothing` are restricted to `http://`;
`NothingOutlivesTheCall` leaves out `host` and `path`, which are lost when TLS
initialisation fails (`httpc.c:882-886`); the properties of the exchange are
restricted by `flaws`.  `KeepAlive` records that the CRLF after the last chunk
stays in the stream, so that a connection cannot be reused after a chunked
response.  `HeaderTruth` says what holds of the fields: the status is always the
response's, the others are where the search can find them.
`OwnOrLaterCallback` says what is left of "each request has its
callback": data may go to the callback of a later request (`httpc.c:1053`).  `WireInOrder` and
`PlainAnswered` stop at a frame that a full plain socket tore apart (`httpc.c:918`).
What the code does in such cases is in the models; `hazards` names, without a property,
those of which no document says what should happen or which the properties leave out.

## 4. Proofs

Every invariant, action property and refinement of the passing runs is also a theorem, for
every value of the constants that the modules' named assumptions allow (`RequestWhole`
with two hypotheses, see below).  What is left to TLC alone is liveness.

### Life cycle and URIs

`HttpcLifecycleProofs` proves, for every finite or infinite set `Fd` of natural
numbers and every choice of schemes and entry points:

* `LifecycleInvariant`: `Spec => []IInv`, where `IInv` is `TypeOK`,
  `ControlInv`, `OwnInv` and `FdInv`;
* the invariants `TypeOK`, `OwnInv` (`BlocksByControl`), `FdInv`
  (`DescriptorByControl`), `NothingOutlivesTheCall`, `PlainLeavesNothing`;
* the action properties `DeinitReleasesAll` and `PlainClosesOnlyItsOwn`.

`NothingOutlivesTheCall` speaks of the idle states only and says nothing of how
a call got there, so it is not inductive.  `IInv` adds for each point of control
which blocks exist (`OwnInv`), whose the descriptor is (`FdInv`), and
which call is running (`ControlInv`: an exit that may leave `host` behind is
reached in a constructor only, never in a destructor).  The induction has one
lemma per part (`TypeStep`, `ControlStep`, `OwnStep`, `FdStep`) with one step
per action, and one lemma for the other thread.  The assumptions are the three
on the constants.

`HttpcConnectProofs` proves for every set of URIs that the life cycle's `IInv`
still holds (`ConnectInvariant`; every parsing step is a `ParseUri` step or the
overrun, `StepIsLifecycle`), with it `ConnectNothingLeft`, and of the texts
`AddressToldFromName` (`RouteByShape`) and `PeerAsNamed` (`NamedPeer`).  The first rests
on `QuadLooksLiteral`: four labels that `inet_pton` takes have 4 to 12 characters
in all, so that with the dots and a port of five the host has at most
21, which is exactly what `httpc_ipv4_address_check` lets through.

### Header buffer

`HttpcHeaderBufProofs` proves, for every buffer size and every set of line
lengths, `BufferSafe` (`Spec => []IInv`) and from it `BufferTypes` (`TypeOK`), `LinesWhole`
(`WholeLines`), `SendsWithin` (`SentWithinBuffer`) and `BeyondAfterWarning`
(the action property `BeyondOnlyAfterWarning`).  The properties do not say when
`buf_used` may exceed `buf_len`, which decides whether the next call writes
within the buffer; `IInv` adds that it does so after a warning only.  The
argument rests on `WrittenFits`: inside the buffer `vsnprintf` stays inside it,
and the text is whole exactly when the sum of the lengths stays below
`buf_len`, the condition `httpc_header_set` tests.

### HTTP/1.1 exchange

`HttpcExchangeProofs` proves, for every set of responses that satisfies
`ResponsesAssumption`, all sizes and any number of rounds:

| Theorem | Property |
|---|---|
| `ExchangeTypes` | `TypeOK` |
| `FieldsAreTheResponses` | `HeaderTruth` |
| `BodyHandedOutInOrder` | `BodyInOrder` |
| `DoneIsWholeBody` | `DoneMeansWhole` |
| `ConnectionLeftAtEnd` | `KeepAlive` |
| `ExchangeRefinesService` | `ImplementsService`, the refinement of `BodyService` |
| `ToldOnce` | `ResetToldOnce` |
| `RequestSentWhole` | `RequestWhole`, over TLS, when header and data each fit a record |

The two hypotheses of `RequestSentWhole` are in the theorem because the code does not
provide them (finding 6).  The inductive part of `ToldOnce` is that a reset still
pending has not been told.

The others follow from `Exchanges`, `Spec => []ExchangeInv`.  The properties say
what an application is given at the end; `ExchangeInv` says why, step by step:

* `WireInv`: what has arrived since `base` is the beginning of the
  response, and all of it while the connection is open.
* `HeaderInv`: while the header is read, the buffer corresponds to the header read so far.
  `Copied(src)` names for every place of the buffer the byte it was copied
  from, in the order of the response: CRLF has become one NUL, between two NULs the two run in
  step, and every other byte is there.  One line keeps this (`NextLine`, `LineCopied`), because a
  line read whole ends at the next CRLF of the response.
* `FieldsInv`: after `Parse` the status is the response's, and so are the other two fields when the
  response is `AsSearched` (`ParsedRight`).  The first place of the buffer that holds a
  field name is a copy of the first in the response, because `Copied` keeps the order; if that is
  where the field begins, the string behind it is what the field says
  (`StringIsLine`, `FieldFound`), and what `strtoul` makes of it behind white
  space is the number that it spells (`NumberReads`, `LengthRead`), or it is
  `chunked` (`CodingRead`); a missing field is the zero `httpc_handle_response` resets to.
* `BodyInv`: with a Content-Length, the client stands as far behind the header as
  bytes were handed out.  In chunks there is a chunk `k` for which `InChunk(k)`
  says where the client stands and how much it has given out; after a read of one
  byte of the CRLF that may be before the LF, which the next length line then
  takes along (`ChunkLineEnds`, `ChunkSizeRead`).  `ChunksFit` (the data of every
  chunk lies within the body) is shown by the least chunk for which it fails.

The refinement has one lemma for the client's steps (`CallRefines`) and one for the
application's, the server's and the network's (`OutsideRefines`); a step of a
call delivers, finishes, fails or stutters, and the mapping's `flaws` never
shrink within a call.  `IdleInv` is needed for the first request.

What the attempts to prove these changed in the model:

* With a response that is only what HTTP promises, the two fields cannot be proved and are in fact
  wrong for some: `AsSearched` is what the proof of `ParsedRight` needs beyond it, and finding 5
  is one way to miss it.
* `HeaderTruth` and `BodyInOrder` were not inductive, and for some responses false, as long as
  the bytes of an earlier exchange could stand in front of a response: a line of
  them may hold a field name.  The code cannot tell (it reads what comes);
  `cut` now records that reading did not begin at the response.
* `KeepAlive` needs that the last header line is empty, not just that the header
  ends in CRLF; `ResponsesAssumption` now says so.
* `Outcome`, the mapping of `pc`, was a `CASE` with two arms that overlapped in states
  with flaws outside a call; TLC took the first, the logic takes any.

### HTTP/2 session

For any number of streams, attempts, windows, limits, frame, record and socket buffer sizes.
`Httpc2SessionProofs`:

* `DataToOwnOrLater` (`OwnOrLaterCallback`).  `CallbackInv` adds that callbacks are
  numbered upwards, and that the frames under way are of streams that exist
  (`DownInv`);
* `PrefaceComesFirst` (`PrefaceFirst`).  `PrefaceInv` says for each phase of
  the server what may be at the head of `sending` and what still waits in `urgent`.

`Httpc2CloseProofs` builds on it and proves `GoneIsWhole` (`ClosedMeansWhole`): a stream
disappears by a refusal, or when both flags of `shut` are set.  That this means
all was read needs that the DATA frames under way of one stream are numbered
consecutively from `read` to `server.sent` and only the last one ends the
stream (`OrderInv`, `EndInv`), that a flag for writing means an exhausted body
(`SentInv`, `SynInv`), and that a reset comes from a refusal (`GoneInv`).

`Httpc2WireProofs` builds on both:

* `UnitsInOrder` (`WireInOrder`).  The property says nothing of what nghttp2 and mbed TLS hold
  half sent.  `UnitInv` adds that the active frame is the last one packed,
  and that a record that waits is its next units, the same that the
  retried `mbedtls_ssl_write` is taken to have sent.
* `WindowsConserved` (`WindowConserved`).  The sum changes its parts at every read and every
  `WINDOW_UPDATE`, so each step is a fact about sums (`DataInFacts`,
  `UpdatesInFacts`, `ReceivedHeld`).  The property speaks of open streams;
  `BalanceInv` needs the streams not opened yet as well, and `OpenedInv`, that no frame
  under way is about those, so that a stream begins with a whole window.
* `RefusedBeforeAckOnly` (the action property `RefusedOnlyBeforeAck`).  Client and server learn of a
  stream's end at different times.  `AgreeInv` compares the client's open streams
  with those the server *will* take for active when it comes to the k-th frame under way
  (`BusyAt(k)`): a HEADERS frame behind the acknowledgement meets fewer than
  the limit.  The client closes a stream only after it has sent END_STREAM
  and received the server's, so its count is never below the server's.
* `SessionTypes` (`TypeOK`), last because its bounds rest on the others: `flow` stays within
  `Window` by `BalanceInv`, `body` above zero by `BodyInv`.

### Sums and induction

`SumsProofs` has the facts about `Total` that URIs and windows need.  Sums, the value of
a string of digits and the first place of a byte are defined by recursion or by
search.  The induction is stated for a set (`SetInduction`: a set that holds 0 and with
every number the next holds all of them), which follows from the least element of a
well-founded relation, and each use names the set of the numbers for which its
claim holds.  That the recursive function exists is proved the same way (`SumsUpTo`).

### What is left to TLC

* `EveryCallReturns`, `PlainRunReturns` and `PlainAnswered`: liveness under fairness.
* The violated properties, of course: they are false.

The named assumptions of the modules are all the proofs use.

## 5. Not modelled

* nghttp2 beyond what a request needs: the send window for request bodies,
  PING, GOAWAY, push, priorities, padding, HPACK, a callback that submits
  requests or defers its data, DATA frames that arrive in pieces (each piece makes
  one `write_callback` with the same callback), `httpc2_submit_request` with a
  NULL `write_callback`.  The response's HEADERS before DATA change nothing
  the model keeps.
* A session after a torn frame: the server reads garbage and what it does is its own.
* A server that breaks the protocol; of HTTP/1.1, trailers after the last chunk,
  transfer codings other than `chunked`, and a `Content-Length` beside
  `Transfer-Encoding`.
* mbed TLS beyond its results: the handshake is one step with three outcomes,
  a record is whole or not there.
* `vsnprintf` failing, allocation failing inside the C library, more than one
  thread using one handle (the library has no locks and promises nothing).
* The contents of header fields, certificates and paths; logging.
* Building, generated documentation, and the tests, which need a network.

Almost all of the repository's lines are the two vendored libraries, with their
tools, servers, ciphers and tests, which `httpc.c` never calls.  The models cover
the public operations of `httpc.c` itself and, of the libraries, the functions
listed in `PROJECT.json`.
