-------------------------- MODULE MCSessionToken ---------------------------
(* A small instance of SessionToken for TLC.                               *)
EXTENDS SessionToken
=============================================================================
