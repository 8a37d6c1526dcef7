--------------------------- MODULE MCCacheLookup ---------------------------
(* A small instance of CacheLookup for TLC.                                *)
EXTENDS CacheLookup
=============================================================================
