--------------------------- MODULE HttpcHeaderBuf ---------------------------
(***************************************************************************)
(* The header buffer the application lends to httpc_init: filled by        *)
(* httpc_header_set, sent by httpc_send_header, reset and overwritten with *)
(* the response by httpc_handle_response.  Nothing forces the application  *)
(* to look at a result of httpc_header_set (the programs under src/test do *)
(* not) or to reset the buffer before the next request.                    *)
(***************************************************************************)
EXTENDS Integers

CONSTANTS
  BufLen,   \* header_node->buf_len
  Lengths,  \* lengths a formatted line may have
  MaxUsed   \* bound of the model: header_set is not called beyond it

ASSUME BufLenAssumption == BufLen \in Nat \ {0}
ASSUME LengthsAssumption == Lengths \subseteq Nat
ASSUME MaxUsedAssumption == MaxUsed \in Nat

VARIABLES
  used,     \* header_node->buf_used
  fill,     \* bytes from the start of buf that this request's lines filled
  reach,    \* one past the last byte any call has written
  marks,    \* "refused": httpc_header_set failed since the buffer was emptied;
            \* "warned": it has failed; "stale": the buffer begins with a response
  sent      \* bytes httpc_send_header passed to httpc_send last time

vars == <<used, fill, reach, marks, sent>>

Max(a, b) == IF a < b THEN b ELSE a
Min(a, b) == IF a < b THEN a ELSE b

Init ==
  /\ used = 0 /\ fill = 0 /\ reach = 0 /\ sent = 0
  /\ marks = {}

-----------------------------------------------------------------------------

\* vsnprintf at used with buf_len - used bytes of room.  A negative room is a
\* huge size_t; with room 0 nothing is written; otherwise the text is cut to
\* the room and a '\0' ends it.  The result is the length of the whole text.
Written(n) ==
  LET room == BufLen - used
  IN  IF room = 0 THEN 0 ELSE IF room < 0 THEN n + 1 ELSE Min(n, room - 1) + 1

\* buf_used becomes start + n and is compared with bound.
FormatLine(start, bound) ==
  \E n \in Lengths :
    /\ used <= MaxUsed
    /\ used' = start + n
    /\ reach' = IF Written(n) = 0 THEN reach ELSE Max(reach, used + Written(n))
    /\ fill' = IF fill = used /\ Written(n) > n THEN fill + n ELSE fill
    /\ marks' = IF used' >= bound THEN marks \cup {"refused", "warned"} ELSE marks
    /\ UNCHANGED sent

\* Mutants of HeaderSet: > for >=, and = for +=.
HeaderSetMayFill == FormatLine(used, BufLen + 1)
HeaderSetAssigns == FormatLine(0, BufLen)

HeaderSet == FormatLine(used, BufLen)

\* httpc_mem_node_reset, or the same two lines in the application.
Reset ==
  /\ used' = 0 /\ fill' = 0 /\ reach' = Max(reach, BufLen)
  /\ marks' = marks \ {"refused", "stale"}
  /\ UNCHANGED sent

\* httpc_send_request offers buf_used bytes to httpc_send.
\* On success the buffer is reset and the response's lines are stored, buf_used
\* never passing buf_len.
SendRequest(lines) ==
  /\ sent' = used
  /\ used' \in lines
  /\ fill' = 0 /\ reach' = Max(reach, BufLen)
  /\ marks' = (marks \ {"refused", "stale"}) \cup (IF used' > 0 THEN {"stale"} ELSE {})

\* On failure it returns before it touches the buffer.
SendFails ==
  /\ sent' = used
  /\ UNCHANGED <<used, fill, reach, marks>>

\* Mutant of Exchange: a line may be stored although the buffer is full.
ExchangeOverfull == SendRequest(0..BufLen + 1)

Exchange == SendRequest(0..BufLen)

Next == HeaderSet \/ Reset \/ SendFails \/ Exchange

Spec == Init /\ [][Next]_vars

-----------------------------------------------------------------------------
(* Properties *)

\* Lengths are not negative and no more of the buffer counts as filled with
\* this request than buf_used says.
TypeOK ==
  /\ used \in Nat /\ fill \in Nat /\ fill <= used /\ reach \in Nat /\ sent \in Nat
  /\ marks \subseteq {"refused", "warned", "stale"}

\* As long as every httpc_header_set since the buffer was emptied succeeded,
\* the whole text of each is in the buffer, and a '\0' behind it: what
\* httpc_send_header sends is exactly the lines of this request.
WholeLines ==
  "refused" \notin marks /\ "stale" \notin marks => fill = used /\ used < BufLen

\* No call writes beyond the buffer unless an earlier call of httpc_header_set
\* has returned HTTPC_ERR_FAIL; a response that fills the buffer to the last byte is
\* no exception (the room left is then 0 and not negative).
BeyondOnlyAfterWarning == [][reach' > BufLen => "warned" \in marks]_vars

\* Neither is more than the buffer sent.
SentWithinBuffer == sent > BufLen => "warned" \in marks

\* The inductive invariant: buf_used passes buf_len only after a warning, and
\* what an emptied buffer refused was warned of.
IInv ==
  /\ TypeOK /\ WholeLines /\ SentWithinBuffer
  /\ reach > BufLen => "warned" \in marks
  /\ used > BufLen => "warned" \in marks
=============================================================================
