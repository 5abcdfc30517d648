---------------------------- MODULE MCHttpRetry ----------------------------
EXTENDS HttpRetry

(* Small and absurd numbers, and dates around now, before and after it.    *)
MCSeconds == {0, 1, 2, U64 - 1}
MCDateOffsets == {-2, -1, 0, 1, 2, 3, 9}
=============================================================================
