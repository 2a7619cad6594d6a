--------------------------- MODULE MCRequestGroup ---------------------------
(* RequestGroup for TLC: an announcement over three channels.               *)
EXTENDS RequestGroup
=============================================================================
