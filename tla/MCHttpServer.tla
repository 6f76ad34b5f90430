---------------------------- MODULE MCHttpServer ----------------------------
(***************************************************************************)
(* Instances of HttpServer for TLC.  Sockets are interchangeable.          *)
(***************************************************************************)
EXTENDS HttpServer, TLC

SocketSymmetry == Permutations(Sockets)
=============================================================================
