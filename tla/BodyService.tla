----------------------------- MODULE BodyService ----------------------------
(***************************************************************************)
(* What httpc_send_request and httpc_recv_response promise an application, *)
(* with no word of headers, chunks or sizes: a request is answered with    *)
(* one body; the application is given longer and longer beginnings of it,  *)
(* and is told that it is complete only when it has all of it.  A request  *)
(* may fail at any time, and whatever was given then is worth nothing.     *)
(***************************************************************************)
EXTENDS SequencesExt

VARIABLES
  phase,  \* "idle", "open", "done", "failed"
  body,   \* the body of the answer, <<>> before there is one
  given   \* what the application has of it

vars == <<phase, body, given>>

Init == phase = "idle" /\ body = <<>> /\ given = <<>>

Request ==
  /\ phase # "open"
  /\ phase' = "open" /\ body' = <<>> /\ given' = <<>>

\* body' is whatever the server answers.
Answer ==
  /\ phase \in {"open", "failed"} /\ body = <<>> /\ given = <<>>
  /\ UNCHANGED <<phase, given>>

Deliver ==
  /\ phase = "open"
  /\ IsStrictPrefix(given, given') /\ IsPrefix(given', body)
  /\ UNCHANGED <<phase, body>>

Finish ==
  /\ phase = "open"
  /\ phase' = "done" /\ given' = body
  /\ UNCHANGED body

Fail ==
  /\ phase = "open"
  /\ phase' = "failed" /\ given' = <<>> /\ body' \in {body, <<>>}

Next == Request \/ Answer \/ Deliver \/ Finish \/ Fail

Spec == Init /\ [][Next]_vars
=============================================================================
