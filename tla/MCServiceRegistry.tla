-------------------------- MODULE MCServiceRegistry --------------------------
(* ServiceRegistry for TLC: a plain instance and a replica.                  *)
EXTENDS ServiceRegistry
=============================================================================
