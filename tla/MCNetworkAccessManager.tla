------------------------- MODULE MCNetworkAccessManager -------------------------
(***************************************************************************)
(* NetworkAccessManager with a few requests to two authorities for TLC.    *)
(***************************************************************************)
EXTENDS NetworkAccessManager

FourRequests == 1 .. 4
ThreeToOne == <<"a", "b", "a", "a">>
Operations == <<"head", "get", "unknown", "get">>
================================================================================
