------------------------- MODULE MCBackendDownloads -------------------------
(* A small instance of BackendDownloads for TLC.                           *)
EXTENDS BackendDownloads, TLC

CONSTANTS i1, qa, qb, c1, c2

\* One item, so that calls replace each other, and a queue that has none.
OneQueue == i1 :> qa
=============================================================================
