------------------------- MODULE MCCachePersistence -------------------------
(* A small instance of CachePersistence for TLC.                           *)
EXTENDS CachePersistence
=============================================================================
