--------------------------- MODULE MCPasstSupervisor ---------------------------
(***************************************************************************)
(* PasstSupervisor for TLC: two configurations, a base of two ticks and a  *)
(* cap that the third failure reaches.                                     *)
(***************************************************************************)
EXTENDS PasstSupervisor

===============================================================================
