---------------------------- MODULE MCPortLifecycle ----------------------------
(***************************************************************************)
(* PortLifecycle for TLC: a name deleted and created again, with enough    *)
(* passt processes for one to be replaced on either side of that.          *)
(***************************************************************************)
EXTENDS PortLifecycle

===============================================================================
