-------------------------- MODULE MCProtocolClient --------------------------
(***************************************************************************)
(* Two calls of connect and two lines on each connection: a worker that is  *)
(* forgotten while connecting, one that is replaced by the broker, and      *)
(* messages of both in the controller's queue.                              *)
(***************************************************************************)
EXTENDS ProtocolClient
=============================================================================
