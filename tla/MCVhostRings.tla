----------------------------- MODULE MCVhostRings -----------------------------
(***************************************************************************)
(* VhostRings for TLC: rings of two descriptors and indices modulo four,   *)
(* so that a handful of posts fills a ring and wraps its indices.          *)
(***************************************************************************)
EXTENDS VhostRings

===============================================================================
