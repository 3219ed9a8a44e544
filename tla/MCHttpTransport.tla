--------------------------- MODULE MCHttpTransport ---------------------------
(***************************************************************************)
(* One answer of every class _response_result tells apart, two of them     *)
(* with a Retry-After header, one with a frame that cannot be read.        *)
(***************************************************************************)
EXTENDS HttpTransport

Answer(status, body, retryAfter, framed) ==
    [status |-> status, body |-> body, retryAfter |-> retryAfter, framed |-> framed]

MCResponses ==
    {Answer("ok", "own", None, TRUE),
     Answer("ok", "foreign", None, TRUE),
     Answer("other", "refused", None, TRUE),
     Answer("other", "unavailable", 3, TRUE),
     Answer("transient", "garbage", 1, TRUE),
     Answer("transient", "garbage", None, FALSE)}
=============================================================================
