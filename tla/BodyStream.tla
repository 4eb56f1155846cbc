----------------------------- MODULE BodyStream -----------------------------
(***************************************************************************)
(* What a download or a listing expects of http_client_get: the bytes of    *)
(* the body, in order, and success only when it has had all of them.        *)
(***************************************************************************)
EXTENDS SequencesExt

VARIABLES
  data,          \* the body the server means
  whole,         \* its connection carries all of it, well framed
  delivered,     \* what the callback has been given
  result

vars == <<data, whole, delivered, result>>

Init == delivered = <<>> /\ result = "reading"

Deliver ==
  /\ result = "reading"
  /\ IsPrefix(delivered, delivered') /\ IsPrefix(delivered', data)
  /\ UNCHANGED <<data, whole, result>>

\* Success may come with the last bytes.
Succeed ==
  /\ result = "reading" /\ result' = "ok"
  /\ whole /\ delivered' = data
  /\ IsPrefix(delivered, data)
  /\ UNCHANGED <<data, whole>>

Fail ==
  /\ result = "reading" /\ result' = "error"
  /\ UNCHANGED <<data, whole, delivered>>

Next == Deliver \/ Succeed \/ Fail

Spec == Init /\ [][Next]_vars
=============================================================================
