--------------------------- MODULE HttpcLifecycle ---------------------------
(***************************************************************************)
(* Creation and destruction of a client handle: httpc_init, httpc2_init,   *)
(* httpc_deinit, httpc2_deinit and what they call (httpc_parse_uri,        *)
(* httpc_tls_init, httpc_tls_deinit).  The state is what those functions   *)
(* own: heap blocks, the socket, the TLS context, and the connection the   *)
(* socket stands for.  Every error exit is a disjunct.  The steps of the   *)
(* library interleave with another thread of the application that opens    *)
(* and closes descriptors of its own, because descriptor numbers are       *)
(* shared by the whole process and are handed out again once closed.       *)
(***************************************************************************)
EXTENDS Integers

CONSTANTS
  Fd,        \* descriptor numbers the process may use
  Schemes,   \* the values enable_mbedtls may take: TRUE for https://
  Versions   \* the entry points in use: "1.1" httpc_init, "2" httpc2_init

ASSUME FdAssumption == Fd \subseteq Nat
ASSUME SchemesAssumption == Schemes \subseteq BOOLEAN
ASSUME VersionsAssumption == Versions \subseteq {"1.1", "2"}

VARIABLES
  pc,        \* where the library is; "idle" and "ready" are the caller's
  call,      \* the API call in progress: "none", "init", "deinit"
  version,   \* which entry point created the handle
  secure,    \* httpc->enable_mbedtls
  own,       \* live heap blocks reachable from, or lost by, this handle
  fd,        \* the descriptor table: fd[f] is "free", "httpc" or "app"
  sock,      \* httpc->socket
  netfd,     \* httpc->mbedtls_ctx->net_ctx.fd
  link,      \* what the socket really is: "none", "tcp", "tls"
  cont       \* where httpc_tls_deinit returns to

vars == <<pc, call, version, secure, own, fd, sock, netfd, link, cont>>

NoFd == -1
Uri == {"host", "path"}
Session == {"httpc2", "session"}
Block == {"httpc", "tls"} \cup Uri \cup Session

Init ==
  /\ pc = "idle" /\ call = "none" /\ cont = "close"
  /\ version = "1.1" /\ secure = FALSE
  /\ own = {} /\ fd = [f \in Fd |-> "free"]
  /\ sock = NoFd /\ netfd = NoFd /\ link = "none"

-----------------------------------------------------------------------------
(* Operating system and callers *)

\* open()/socket() hand out the lowest free number.
Lowest(f) == fd[f] = "free" /\ \A g \in Fd : fd[g] = "free" => f <= g

\* close(f); EBADF on a number that is not open changes nothing.
Closed(f) == IF f \in Fd THEN [fd EXCEPT ![f] = "free"] ELSE fd

AppOpen ==
  \E f \in Fd :
    /\ Lowest(f)
    /\ fd' = [fd EXCEPT ![f] = "app"]
    /\ UNCHANGED <<pc, call, version, secure, own, sock, netfd, link, cont>>

AppClose ==
  \E f \in Fd :
    /\ fd[f] = "app"
    /\ fd' = Closed(f)
    /\ UNCHANGED <<pc, call, version, secure, own, sock, netfd, link, cont>>

StartInit ==
  \E v \in Versions :
    /\ pc = "idle"
    /\ call' = "init" /\ version' = v
    /\ pc' = IF v = "2" THEN "h2_alloc" ELSE "alloc"
    /\ own' = {}  \* what an earlier call lost is lost: not followed further
    /\ secure' = FALSE /\ sock' = NoFd /\ netfd' = NoFd /\ link' = "none"
    /\ UNCHANGED <<fd, cont>>

StartDeinit ==
  /\ pc = "ready"
  /\ call' = "deinit"
  /\ pc' = IF version = "2" THEN "h2_deinit" ELSE "deinit"
  /\ UNCHANGED <<version, secure, own, fd, sock, netfd, link, cont>>

\* httpc_send/httpc_recv reach through mbedtls_ctx whenever enable_mbedtls is
\* set, and never ask whether the context exists.
UseWithoutTls ==
  /\ pc = "ready" /\ secure /\ "tls" \notin own
  /\ pc' = "aborted"
  /\ UNCHANGED <<call, version, secure, own, fd, sock, netfd, link, cont>>

-----------------------------------------------------------------------------
(* httpc_init *)

Idle == pc' = "idle" /\ call' = "none"
Ready == pc' = "ready" /\ call' = "none"

\* httpc_init returns NULL: to the application, or to httpc2_init, whose
\* httpc_init_fail exit calls httpc2_deinit.
ReturnNull ==
  \/ version = "1.1" /\ Idle
  \/ version = "2" /\ pc' = "h2_deinit" /\ UNCHANGED call

AllocHttpc ==
  /\ pc = "alloc"
  /\ \/ ReturnNull /\ UNCHANGED own
     \/ pc' = "socket" /\ own' = own \cup {"httpc"} /\ UNCHANGED call
  /\ UNCHANGED <<version, secure, fd, sock, netfd, link, cont>>

OpenSocket ==
  /\ pc = "socket"
  /\ \/ /\ ReturnNull
        /\ own' = own \ {"httpc"}
        /\ UNCHANGED <<fd, sock>>
     \/ \E f \in Fd :
          /\ Lowest(f)
          /\ fd' = [fd EXCEPT ![f] = "httpc"]
          /\ sock' = f
          /\ pc' = "parse"
          /\ UNCHANGED <<own, call>>
  /\ UNCHANGED <<version, secure, netfd, link, cont>>

\* The exit label of httpc_parse_uri, with what it leaves allocated.
UriFails(left) == pc' = "parse_fail" /\ own' = own \cup left /\ UNCHANGED link

UriConnects ==
  \E host \in {"literal", "name"}, connected \in BOOLEAN :
    /\ host = "literal" => connected
    /\ own' = own \cup Uri
    /\ link' = IF connected THEN "tcp" ELSE "none"
    /\ pc' = IF secure' THEN "tls_setup" ELSE "opened"

\* Mutant of ParseUri: the exit label forgets httpc->host.
ParseUriKeepsHost ==
  /\ pc = "parse" /\ secure' \in Schemes
  /\ UriFails({"host"}) \/ UriConnects
  /\ UNCHANGED <<call, version, fd, sock, netfd, cont>>

\* An unknown scheme leaves enable_mbedtls as calloc made it.  A host that is
\* an IPv4 literal must connect; for a host name the loop over the resolved
\* addresses ends in success whether or not one connected.
ParseUri ==
  /\ pc = "parse"
  /\ \/ secure' = FALSE /\ UriFails({})
     \/ secure' \in Schemes /\ (UriFails({}) \/ UriConnects)
  /\ UNCHANGED <<call, version, fd, sock, netfd, cont>>

\* Context allocation, then the certificate and key parsers, each of which may
\* fail before net_ctx.fd is set.
TlsSetup ==
  /\ pc = "tls_setup"
  /\ \/ pc' = "parse_fail" /\ UNCHANGED <<own, netfd, cont>>
     \/ /\ own' = own \cup {"tls"}
        /\ \/ pc' = "tls_deinit" /\ cont' = "parse_fail" /\ UNCHANGED netfd
           \/ pc' = "handshake" /\ netfd' = sock /\ UNCHANGED cont
  /\ UNCHANGED <<call, version, secure, fd, sock, link>>

\* When the handshake fails the function returns the certificate verification
\* result, which is 0 unless a certificate was received and rejected.
Handshake ==
  /\ pc = "handshake"
  /\ \/ link = "tcp" /\ link' = "tls" /\ pc' = "opened" /\ UNCHANGED cont
     \/ \E rejected \in BOOLEAN :
          /\ rejected => link = "tcp"
          /\ cont' = IF rejected THEN "parse_fail" ELSE "opened"
          /\ pc' = "tls_deinit"
          /\ UNCHANGED link
  /\ UNCHANGED <<call, version, secure, own, fd, sock, netfd>>

\* httpc_tls_deinit: mbedtls_net_free closes net_ctx.fd, which is the socket.
TearDown(freed) ==
  /\ pc = "tls_deinit"
  /\ pc' = cont
  /\ own' = own \ freed
  /\ fd' = Closed(netfd)
  /\ netfd' = NoFd
  /\ link' = IF netfd = NoFd THEN link ELSE "none"
  /\ UNCHANGED <<call, version, secure, sock, cont>>

\* Mutant of TlsDeinit: the context is not freed.
TlsDeinitKeepsContext == TearDown({})

TlsDeinit == TearDown({"tls"})

\* httpc_init's parse_fail exit: host and path are not freed here.
Abandon(table) ==
  /\ pc = "parse_fail"
  /\ ReturnNull
  /\ fd' = table
  /\ own' = own \ {"httpc"}
  /\ link' = "none"
  /\ UNCHANGED <<version, secure, sock, netfd, cont>>

\* Mutant of ParseFail: the socket is not closed.
ParseFailNoClose == Abandon(fd)

ParseFail == Abandon(Closed(sock))

\* httpc_init returns the handle; httpc2_init goes on with fcntl.
Opened ==
  /\ pc = "opened"
  /\ \/ version = "1.1" /\ Ready
     \/ version = "2" /\ pc' = "fcntl" /\ UNCHANGED call
  /\ UNCHANGED <<version, secure, own, fd, sock, netfd, link, cont>>

-----------------------------------------------------------------------------
(* httpc_deinit *)

Deinit ==
  /\ pc = "deinit"
  /\ pc' = IF secure THEN "tls_deinit" ELSE "close"
  /\ cont' = "close"
  /\ UNCHANGED <<call, version, secure, own, fd, sock, netfd, link>>

Destroy(freed) ==
  /\ pc = "close"
  /\ fd' = Closed(sock)
  /\ own' = own \ freed
  /\ link' = "none"
  /\ \/ version = "1.1" /\ Idle
     \/ version = "2" /\ pc' = "h2_free" /\ UNCHANGED call
  /\ UNCHANGED <<version, secure, sock, netfd, cont>>

\* Mutant of CloseSocket: httpc->host is not freed.
CloseSocketKeepsHost == Destroy({"httpc", "path"})

CloseSocket == Destroy({"httpc"} \cup Uri)

-----------------------------------------------------------------------------
(* httpc2_init and httpc2_deinit *)

NewSession(blocks) ==
  /\ pc = "h2_alloc"
  /\ \/ Idle /\ UNCHANGED own
     \/ pc' = "alloc" /\ own' = blocks /\ UNCHANGED call
  /\ UNCHANGED <<version, secure, fd, sock, netfd, link, cont>>

\* Mutant of H2Alloc: the callbacks object is not released.
H2AllocKeepsCallbacks == NewSession(Session \cup {"callbacks"})

H2Alloc == NewSession(Session)

H2Nonblock ==
  /\ pc = "fcntl"
  /\ \/ Ready
     \/ pc' = "h2_deinit" /\ UNCHANGED call
  /\ UNCHANGED <<version, secure, own, fd, sock, netfd, link, cont>>

DeleteSession(table) ==
  /\ pc = "h2_deinit"
  /\ own' = own \ {"session"}
  /\ pc' = IF "httpc" \in own THEN "deinit" ELSE "h2_free"
  /\ fd' = table
  /\ UNCHANGED <<call, version, secure, sock, netfd, link, cont>>

\* Mutant of H2Deinit: it closes the socket itself, before httpc_deinit does.
H2DeinitClosesToo == DeleteSession(Closed(sock))

H2Deinit == DeleteSession(fd)

\* httpc2_deinit frees its argument; called from httpc2_init it returns to the
\* malloc_fail label, where the caller's pointer is still set.
H2Free ==
  /\ pc = "h2_free"
  /\ own' = own \ {"httpc2"}
  /\ \/ call = "deinit" /\ Idle
     \/ call = "init" /\ pc' = "h2_free_again" /\ UNCHANGED call
  /\ UNCHANGED <<version, secure, fd, sock, netfd, link, cont>>

\* free() of a block that is already free: the allocator aborts the process,
\* or does not notice and httpc2_init returns NULL.
H2FreeAgain ==
  /\ pc = "h2_free_again"
  /\ \/ Idle
     \/ "httpc2" \notin own /\ pc' = "aborted" /\ UNCHANGED call
  /\ own' = own \ {"httpc2"}
  /\ UNCHANGED <<version, secure, fd, sock, netfd, link, cont>>

Library ==
  \/ AllocHttpc \/ OpenSocket \/ ParseUri \/ TlsSetup \/ Handshake
  \/ TlsDeinit \/ ParseFail \/ Opened \/ Deinit \/ CloseSocket
  \/ H2Alloc \/ H2Nonblock \/ H2Deinit \/ H2Free \/ H2FreeAgain

App == StartInit \/ StartDeinit \/ UseWithoutTls

OtherThread == AppOpen \/ AppClose

Next == Library \/ App \/ OtherThread

Spec == Init /\ [][Next]_vars

-----------------------------------------------------------------------------
(* Properties *)

\* The state has the shape httpc_t, httpc2_t and httpc_mebdtls_ctx_t give it,
\* and the only blocks alive are those the functions know of.
TypeOK ==
  /\ pc \in {"idle", "ready", "aborted", "alloc", "socket", "parse",
             "tls_setup", "handshake", "tls_deinit", "parse_fail", "opened",
             "deinit", "close", "h2_alloc", "fcntl", "h2_deinit", "h2_free",
             "h2_free_again"}
  /\ call \in {"none", "init", "deinit"}
  /\ version \in {"1.1", "2"}
  /\ secure \in BOOLEAN
  /\ own \subseteq Block
  /\ fd \in [Fd -> {"free", "httpc", "app"}]
  /\ sock \in Fd \cup {NoFd}
  /\ netfd \in Fd \cup {NoFd}
  /\ link \in {"none", "tcp", "tls"}
  /\ cont \in {"opened", "parse_fail", "close"}

(* What is owned, and which descriptors are open, at each point of control:   *)
(* the inductive invariant behind the safety properties.                      *)

Wrapper == IF version = "2" THEN Session ELSE {}
Handle == {"httpc"} \cup Uri
Destroying == {"deinit", "close"}
InitOnly == {"alloc", "socket", "parse", "tls_setup", "handshake", "parse_fail",
             "opened", "h2_alloc", "fcntl", "h2_free_again"}
HoldsSocket == {"parse", "tls_setup", "handshake", "tls_deinit", "parse_fail",
                "opened", "fcntl", "ready", "h2_deinit", "deinit", "close"}

Between(low, high) == low \subseteq own /\ own \subseteq high

ControlInv ==
  /\ pc \in {"h2_alloc", "fcntl", "h2_deinit", "h2_free", "h2_free_again"} =>
       version = "2"
  /\ pc \in InitOnly => call = "init"
  /\ pc = "tls_deinit" /\ cont # "close" => call = "init"
  /\ pc \in {"idle", "ready"} => call = "none"
  /\ pc \in {"tls_setup", "handshake", "tls_deinit"} => secure

OwnInv ==
  /\ pc = "idle" => own \subseteq Uri
  /\ pc = "h2_alloc" => own = {}
  /\ pc = "alloc" => own = Wrapper
  /\ pc \in {"socket", "parse"} => own = Wrapper \cup {"httpc"}
  /\ pc = "tls_setup" => own = Wrapper \cup Handle
  /\ pc = "handshake" \/ (pc = "tls_deinit" /\ cont # "close") =>
       own = Wrapper \cup Handle \cup {"tls"}
  /\ pc = "parse_fail" => Between(Wrapper \cup {"httpc"}, Wrapper \cup Handle)
  /\ pc \in {"opened", "fcntl", "ready"} => own \ {"tls"} = Wrapper \cup Handle
  /\ pc = "h2_deinit" =>
       \/ own \ {"tls"} = Session \cup Handle
       \/ call = "init" /\ Between(Session, Session \cup Uri)
  /\ pc \in Destroying \/ (pc = "tls_deinit" /\ cont = "close") =>
       own \ {"tls"} = Handle \cup (Wrapper \ {"session"})
  /\ pc = "close" => "tls" \notin own
  /\ pc = "h2_free" =>
       /\ Between({"httpc2"}, {"httpc2"} \cup Uri)
       /\ call = "deinit" => own = {"httpc2"}
  /\ pc = "h2_free_again" => own \subseteq Uri
  /\ ~secure /\ pc # "aborted" => "tls" \notin own
  /\ ~secure /\ pc \in {"idle", "parse_fail", "h2_deinit", "h2_free", "h2_free_again"} =>
       "httpc" \in own \/ own \cap Uri = {}
  /\ ~secure /\ pc = "parse_fail" => own \cap Uri = {}

FdInv ==
  /\ \A f \in Fd : fd[f] = "httpc" =>
       /\ f = sock
       /\ pc \in HoldsSocket \cup {"aborted"}
       /\ pc = "h2_deinit" => "httpc" \in own
  /\ \/ pc = "parse"
     \/ ~secure /\ pc \in HoldsSocket /\ (pc = "h2_deinit" => "httpc" \in own)
     => sock \in Fd /\ fd[sock] = "httpc"

IInv == TypeOK /\ ControlInv /\ OwnInv /\ FdInv

\* Whichever of the error exits or destructors a call left by, once no handle
\* exists the library holds no descriptor, no TLS context, no session and no
\* handle structure.  (httpc_init, httpc_deinit, httpc2_init, httpc2_deinit.)
NothingOutlivesTheCall ==
  pc = "idle" =>
    /\ own \subseteq Uri
    /\ \A f \in Fd : fd[f] # "httpc"

\* A handle that was handed to the caller and is then destroyed leaves no
\* block behind, also when its TLS context was already gone (httpc_deinit,
\* httpc2_deinit).
DeinitReleasesAll ==
  [][call = "deinit" /\ pc' = "idle" => own' = {}]_vars

\* For http:// no call of the library ends with a block that nobody can free.
PlainLeavesNothing == pc = "idle" /\ ~secure => own = {}

\* For http:// no step of the library closes a descriptor that another thread
\* of the application opened: each socket is closed once (close in httpc_init
\* and httpc_deinit).
PlainClosesOnlyItsOwn ==
  [][\A f \in Fd : fd[f] = "app" /\ fd'[f] # "app" => secure \/ pc' = pc]_vars

\* The same for every scheme.  httpc_deinit closes the socket that
\* mbedtls_net_free, called by httpc_tls_deinit, has already closed.
ClosesOnlyItsOwn ==
  [][\A f \in Fd : fd[f] = "app" /\ fd'[f] # "app" => pc' = pc]_vars

\* A handle that initialisation returned stands for a connection of the kind
\* the URI asked for (httpc.h: NULL means failure, otherwise success).
ReadyIsConnected ==
  pc = "ready" => link = IF secure THEN "tls" ELSE "tcp"

\* The block that httpc2_init frees at malloc_fail is still allocated.
FreesLiveBlock == pc = "h2_free_again" => "httpc2" \in own
=============================================================================
