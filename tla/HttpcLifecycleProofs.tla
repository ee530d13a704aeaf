------------------------ MODULE HttpcLifecycleProofs ------------------------
(***************************************************************************)
(* Proofs about HttpcLifecycle, for every set of descriptor numbers, every *)
(* choice of schemes and both entry points.                                *)
(*                                                                         *)
(* IInv says, for each point of control, which blocks are allocated and    *)
(* which descriptor is the library's.  It is inductive; the safety         *)
(* properties follow from it, and the two action properties from it and    *)
(* one step.                                                               *)
(***************************************************************************)
EXTENDS HttpcLifecycle, TLAPS

USE FdAssumption, SchemesAssumption, VersionsAssumption

\* close() keeps the descriptor table a table and frees at most the number it
\* was given (Closed, the effect of close in httpc.c and mbedtls_net_free).
LEMMA ClosedType ==
  ASSUME TypeOK, NEW n \in Fd \cup {NoFd}
  PROVE  /\ Closed(n) \in [Fd -> {"free", "httpc", "app"}]
         /\ \A f \in Fd : Closed(n)[f] = IF f = n THEN "free" ELSE fd[f]
BY DEF TypeOK, Closed, NoFd

\* The initial state satisfies the invariant.
LEMMA InitInv == Init => IInv
BY DEF Init, IInv, TypeOK, ControlInv, OwnInv, FdInv, NoFd, Uri, Block,
       HoldsSocket, InitOnly, Destroying

\* A descriptor opened or closed by another thread leaves the handle alone.
LEMMA OtherThreadInv == IInv /\ OtherThread => IInv'
<1> SUFFICES ASSUME IInv, OtherThread PROVE IInv'
  OBVIOUS
<1> USE DEF IInv
<1>1. TypeOK'
  <2>1. CASE AppOpen
    BY <2>1 DEF TypeOK, AppOpen
  <2>2. CASE AppClose
    BY <2>2, ClosedType DEF TypeOK, AppClose
  <2> QED BY <2>1, <2>2 DEF OtherThread
<1>2. UNCHANGED <<pc, call, version, secure, own, sock, netfd, link, cont>>
  BY DEF OtherThread, AppOpen, AppClose
<1>3. \A f \in Fd : fd'[f] = "httpc" <=> fd[f] = "httpc"
  <2>1. CASE AppOpen
    BY <2>1 DEF TypeOK, AppOpen, Lowest
  <2>2. CASE AppClose
    <3>1. PICK g \in Fd : fd[g] = "app" /\ fd' = Closed(g)
      BY <2>2 DEF AppClose
    <3>2. \A f \in Fd : fd'[f] = IF f = g THEN "free" ELSE fd[f]
      BY <3>1, ClosedType
    <3> QED BY <3>1, <3>2
  <2> QED BY <2>1, <2>2 DEF OtherThread
<1>4. ControlInv'
  BY <1>2 DEF ControlInv
<1>5. OwnInv'
  BY <1>2 DEF OwnInv, Between, Wrapper
<1>6. FdInv'
  BY <1>2, <1>3 DEF FdInv
<1> QED BY <1>1, <1>4, <1>5, <1>6


\* Every step of the library and of its caller keeps the types.
LEMMA TypeStep ==
  ASSUME TypeOK, Library \/ App
  PROVE  TypeOK'
<1> USE DEF TypeOK
<1>1. CASE AllocHttpc
  BY <1>1 DEF AllocHttpc, Idle, ReturnNull, Block
<1>2. CASE OpenSocket
  BY <1>2 DEF OpenSocket, Lowest, Idle, ReturnNull
<1>3. CASE ParseUri
  BY <1>3 DEF ParseUri, UriFails, UriConnects, Uri, Block
<1>4. CASE TlsSetup
  BY <1>4 DEF TlsSetup, Block
<1>5. CASE Handshake
  BY <1>5 DEF Handshake
<1>6. CASE TlsDeinit
  BY <1>6, ClosedType DEF TlsDeinit, TearDown
<1>7. CASE ParseFail
  BY <1>7, ClosedType DEF ParseFail, Abandon, Idle, ReturnNull
<1>8. CASE Opened
  BY <1>8 DEF Opened, Ready
<1>9. CASE Deinit
  BY <1>9 DEF Deinit
<1>10. CASE CloseSocket
  BY <1>10, ClosedType DEF CloseSocket, Destroy, Idle
<1>11. CASE H2Alloc
  BY <1>11 DEF H2Alloc, NewSession, Idle, Session, Block
<1>12. CASE H2Nonblock
  BY <1>12 DEF H2Nonblock, Ready
<1>13. CASE H2Deinit
  BY <1>13 DEF H2Deinit, DeleteSession
<1>14. CASE H2Free
  BY <1>14 DEF H2Free, Idle
<1>15. CASE H2FreeAgain
  BY <1>15 DEF H2FreeAgain, Idle
<1>16. CASE StartInit
  BY <1>16 DEF StartInit
<1>17. CASE StartDeinit
  BY <1>17 DEF StartDeinit
<1>18. CASE UseWithoutTls
  BY <1>18 DEF UseWithoutTls
<1> QED BY <1>1, <1>2, <1>3, <1>4, <1>5, <1>6, <1>7, <1>8, <1>9, <1>10, <1>11, <1>12, <1>13, <1>14, <1>15, <1>16, <1>17, <1>18 DEF Library, App

\* Every step keeps what a point of control says of the call in progress.
LEMMA ControlStep ==
  ASSUME IInv, Library \/ App
  PROVE  ControlInv'
<1> USE DEF IInv, TypeOK, ControlInv, InitOnly
<1>1. CASE AllocHttpc
  BY <1>1 DEF AllocHttpc, Idle, ReturnNull
<1>2. CASE OpenSocket
  BY <1>2 DEF OpenSocket, Lowest, Idle, ReturnNull
<1>3. CASE ParseUri
  BY <1>3 DEF ParseUri, UriFails, UriConnects
<1>4. CASE TlsSetup
  BY <1>4 DEF TlsSetup
<1>5. CASE Handshake
  BY <1>5 DEF Handshake
<1>6. CASE TlsDeinit
  BY <1>6 DEF TlsDeinit, TearDown
<1>7. CASE ParseFail
  BY <1>7 DEF ParseFail, Abandon, Idle, ReturnNull
<1>8. CASE Opened
  BY <1>8 DEF Opened, Ready
<1>9. CASE Deinit
  BY <1>9 DEF Deinit
<1>10. CASE CloseSocket
  BY <1>10 DEF CloseSocket, Destroy, Idle
<1>11. CASE H2Alloc
  BY <1>11 DEF H2Alloc, NewSession, Idle
<1>12. CASE H2Nonblock
  BY <1>12 DEF H2Nonblock, Ready
<1>13. CASE H2Deinit
  BY <1>13 DEF H2Deinit, DeleteSession
<1>14. CASE H2Free
  BY <1>14 DEF H2Free, Idle
<1>15. CASE H2FreeAgain
  BY <1>15 DEF H2FreeAgain, Idle
<1>16. CASE StartInit
  BY <1>16 DEF StartInit
<1>17. CASE StartDeinit
  BY <1>17 DEF StartDeinit
<1>18. CASE UseWithoutTls
  BY <1>18 DEF UseWithoutTls
<1> QED BY <1>1, <1>2, <1>3, <1>4, <1>5, <1>6, <1>7, <1>8, <1>9, <1>10, <1>11, <1>12, <1>13, <1>14, <1>15, <1>16, <1>17, <1>18 DEF Library, App

\* Every step keeps what a point of control says of the blocks allocated.
LEMMA OwnStep ==
  ASSUME IInv, Library \/ App
  PROVE  OwnInv'
<1> USE DEF IInv, TypeOK, ControlInv, InitOnly, OwnInv, Between, Wrapper, Handle,
            Uri, Session, Destroying
<1>1. CASE AllocHttpc
  BY <1>1 DEF AllocHttpc, Idle, ReturnNull
<1>2. CASE OpenSocket
  BY <1>2 DEF OpenSocket, Lowest, Idle, ReturnNull
<1>3. CASE ParseUri
  BY <1>3 DEF ParseUri, UriFails, UriConnects
<1>4. CASE TlsSetup
  BY <1>4 DEF TlsSetup
<1>5. CASE Handshake
  BY <1>5 DEF Handshake
<1>6. CASE TlsDeinit
  BY <1>6 DEF TlsDeinit, TearDown
<1>7. CASE ParseFail
  BY <1>7 DEF ParseFail, Abandon, Idle, ReturnNull
<1>8. CASE Opened
  BY <1>8 DEF Opened, Ready
<1>9. CASE Deinit
  BY <1>9 DEF Deinit
<1>10. CASE CloseSocket
  BY <1>10 DEF CloseSocket, Destroy, Idle
<1>11. CASE H2Alloc
  BY <1>11 DEF H2Alloc, NewSession, Idle
<1>12. CASE H2Nonblock
  BY <1>12 DEF H2Nonblock, Ready
<1>13. CASE H2Deinit
  BY <1>13 DEF H2Deinit, DeleteSession
<1>14. CASE H2Free
  BY <1>14 DEF H2Free, Idle
<1>15. CASE H2FreeAgain
  BY <1>15 DEF H2FreeAgain, Idle
<1>16. CASE StartInit
  BY <1>16 DEF StartInit
<1>17. CASE StartDeinit
  BY <1>17 DEF StartDeinit
<1>18. CASE UseWithoutTls
  BY <1>18 DEF UseWithoutTls
<1> QED BY <1>1, <1>2, <1>3, <1>4, <1>5, <1>6, <1>7, <1>8, <1>9, <1>10, <1>11, <1>12, <1>13, <1>14, <1>15, <1>16, <1>17, <1>18 DEF Library, App

\* Every step keeps the library's hold on its descriptor.
LEMMA FdStep ==
  ASSUME IInv, Library \/ App
  PROVE  FdInv'
<1> USE DEF IInv, TypeOK, ControlInv, OwnInv, FdInv, HoldsSocket
<1>1. CASE AllocHttpc
  BY <1>1 DEF AllocHttpc, Idle, ReturnNull, Wrapper, Handle, Session
<1>2. CASE OpenSocket
  BY <1>2 DEF OpenSocket, Lowest, Idle, ReturnNull, NoFd
<1>3. CASE ParseUri
  BY <1>3 DEF ParseUri, UriFails, UriConnects
<1>4. CASE TlsSetup
  BY <1>4 DEF TlsSetup
<1>5. CASE Handshake
  BY <1>5 DEF Handshake
<1>6. CASE TlsDeinit
  BY <1>6, ClosedType DEF TlsDeinit, TearDown, NoFd
<1>7. CASE ParseFail
  BY <1>7, ClosedType DEF ParseFail, Abandon, Idle, ReturnNull, NoFd
<1>8. CASE Opened
  BY <1>8 DEF Opened, Ready
<1>9. CASE Deinit
  BY <1>9 DEF Deinit
<1>10. CASE CloseSocket
  BY <1>10, ClosedType DEF CloseSocket, Destroy, Idle, NoFd
<1>11. CASE H2Alloc
  BY <1>11 DEF H2Alloc, NewSession, Idle
<1>12. CASE H2Nonblock
  BY <1>12 DEF H2Nonblock, Ready, Wrapper, Handle, Session
<1>13. CASE H2Deinit
  BY <1>13 DEF H2Deinit, DeleteSession
<1>14. CASE H2Free
  BY <1>14 DEF H2Free, Idle
<1>15. CASE H2FreeAgain
  BY <1>15 DEF H2FreeAgain, Idle
<1>16. CASE StartInit
  BY <1>16 DEF StartInit
<1>17. CASE StartDeinit
  BY <1>17 DEF StartDeinit, Wrapper, Handle, Session
<1>18. CASE UseWithoutTls
  BY <1>18 DEF UseWithoutTls
<1> QED BY <1>1, <1>2, <1>3, <1>4, <1>5, <1>6, <1>7, <1>8, <1>9, <1>10, <1>11, <1>12, <1>13, <1>14, <1>15, <1>16, <1>17, <1>18 DEF Library, App

\* The invariant is inductive.
LEMMA NextInv == IInv /\ [Next]_vars => IInv'
<1> SUFFICES ASSUME IInv, [Next]_vars PROVE IInv'
  OBVIOUS
<1>1. CASE Library \/ App
  <2>1. TypeOK'
    BY <1>1, TypeStep DEF IInv
  <2> QED BY <1>1, <2>1, ControlStep, OwnStep, FdStep DEF IInv
<1>2. CASE OtherThread
  BY <1>2, OtherThreadInv
<1>3. CASE UNCHANGED vars
  BY <1>3 DEF vars, IInv, TypeOK, ControlInv, OwnInv, Between, Wrapper, FdInv
<1> QED BY <1>1, <1>2, <1>3 DEF Next

\* Which blocks are allocated and which descriptor is the library's, at each
\* point of control of httpc_init, httpc_deinit, httpc2_init, httpc2_deinit.
THEOREM LifecycleInvariant == Spec => []IInv
BY InitInv, NextInv, PTL DEF Spec

\* Every field keeps its type, and no block outside the known ones appears.
THEOREM TypeCorrect == Spec => []TypeOK
<1>1. IInv => TypeOK
  BY DEF IInv
<1> QED BY <1>1, LifecycleInvariant, PTL

\* Which blocks are allocated at each point of control: none is lost or freed
\* twice on the way the code takes.
THEOREM BlocksByControl == Spec => []OwnInv
<1>1. IInv => OwnInv
  BY DEF IInv
<1> QED BY <1>1, LifecycleInvariant, PTL

\* Which descriptor is the library's at each point of control, however another
\* thread's open and close interleave with connect and close.
THEOREM DescriptorByControl == Spec => []FdInv
<1>1. IInv => FdInv
  BY DEF IInv
<1> QED BY <1>1, LifecycleInvariant, PTL

\* No descriptor, TLS context, session or handle survives the call that ends
\* the handle, whichever exit it took, with both schemes and both versions.
THEOREM NothingLeft == Spec => []NothingOutlivesTheCall
<1>1. IInv => NothingOutlivesTheCall
  BY DEF IInv, OwnInv, FdInv, HoldsSocket, NothingOutlivesTheCall
<1> QED BY <1>1, LifecycleInvariant, PTL

\* With http:// no exit of httpc_init, httpc2_init or the destructors loses a
\* block: the exits that forget host and path are TLS exits only.
THEOREM PlainLosesNothing == Spec => []PlainLeavesNothing
<1>1. IInv => PlainLeavesNothing
  BY DEF IInv, OwnInv, PlainLeavesNothing, Uri
<1> QED BY <1>1, LifecycleInvariant, PTL

\* Destroying a handle that was handed out frees every block of it.
THEOREM DestroyFreesEverything == Spec => DeinitReleasesAll
<1>1. ASSUME IInv, [Next]_vars, call = "deinit", pc' = "idle", pc # "idle"
      PROVE  own' = {}
  <2> USE DEF IInv, ControlInv, OwnInv, InitOnly
  <2>1. CASE CloseSocket
    BY <1>1, <2>1 DEF CloseSocket, Destroy, Wrapper, Handle, Destroying, Idle
  <2>2. CASE H2Free
    BY <1>1, <2>2 DEF H2Free, Idle
  <2>3. CASE ~CloseSocket /\ ~H2Free
    <3>1. CASE Library \/ App
      BY <1>1, <2>3, <3>1
      DEF Library, App, AllocHttpc, OpenSocket, ParseUri, UriFails, UriConnects,
          TlsSetup, Handshake, TlsDeinit, TearDown, ParseFail, Abandon, Opened,
          Deinit, H2Alloc, NewSession, H2Nonblock, H2Deinit, DeleteSession,
          H2FreeAgain, StartInit, StartDeinit, UseWithoutTls, Ready, ReturnNull,
          TypeOK
    <3>2. CASE OtherThread \/ UNCHANGED vars
      BY <1>1, <3>2 DEF OtherThread, AppOpen, AppClose, vars
    <3> QED BY <1>1, <3>1, <3>2 DEF Next
  <2> QED BY <2>1, <2>2, <2>3
<1>2. IInv /\ [Next]_vars => [call = "deinit" /\ pc' = "idle" => own' = {}]_vars
  <2>1. ASSUME IInv, pc = "idle" PROVE call = "none"
    BY <2>1 DEF IInv, ControlInv
  <2> QED BY <1>1, <2>1
<1> QED BY <1>2, LifecycleInvariant, PTL DEF Spec, DeinitReleasesAll

\* With http:// the library closes its own socket and no other descriptor,
\* however its steps interleave with another thread's open and close.
THEOREM PlainClosesOwnSocket == Spec => PlainClosesOnlyItsOwn
<1>1. ASSUME IInv, [Next]_vars, NEW f \in Fd,
             fd[f] = "app", fd'[f] # "app", ~secure, pc' # pc
      PROVE  FALSE
  <2> USE DEF IInv, TypeOK, ControlInv
  <2>1. fd' # fd
    BY <1>1
  <2>2. CASE AllocHttpc \/ OpenSocket \/ ParseUri \/ TlsSetup \/ Handshake
    BY <1>1, <2>1, <2>2
    DEF AllocHttpc, OpenSocket, Lowest, ParseUri, UriFails, UriConnects,
        TlsSetup, Handshake
  <2>3. CASE TlsDeinit
    BY <1>1, <2>3 DEF TlsDeinit, TearDown
  <2>4. CASE ParseFail
    <3>1. fd[sock] = "httpc" /\ sock \in Fd
      BY <1>1, <2>4 DEF ParseFail, Abandon, FdInv, HoldsSocket
    <3> QED BY <1>1, <2>4, <3>1, ClosedType DEF ParseFail, Abandon
  <2>5. CASE CloseSocket
    <3>1. fd[sock] = "httpc" /\ sock \in Fd
      BY <1>1, <2>5 DEF CloseSocket, Destroy, FdInv, HoldsSocket
    <3> QED BY <1>1, <2>5, <3>1, ClosedType DEF CloseSocket, Destroy
  <2>6. CASE Opened \/ Deinit \/ H2Alloc \/ H2Nonblock \/ H2Deinit \/ H2Free \/ H2FreeAgain
    BY <2>1, <2>6
    DEF Opened, Deinit, H2Alloc, NewSession, H2Nonblock, H2Deinit,
        DeleteSession, H2Free, H2FreeAgain
  <2>7. CASE App \/ OtherThread \/ UNCHANGED vars
    BY <1>1, <2>1, <2>7
    DEF App, StartInit, StartDeinit, UseWithoutTls, OtherThread, AppOpen,
        AppClose, vars
  <2> QED BY <1>1, <2>2, <2>3, <2>4, <2>5, <2>6, <2>7 DEF Next, Library
<1>2. IInv /\ [Next]_vars =>
        [\A f \in Fd : fd[f] = "app" /\ fd'[f] # "app" => secure \/ pc' = pc]_vars
  BY <1>1 DEF IInv, TypeOK
<1> QED BY <1>2, LifecycleInvariant, PTL DEF Spec, PlainClosesOnlyItsOwn
=============================================================================
