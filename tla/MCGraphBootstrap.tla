-------------------------- MODULE MCGraphBootstrap --------------------------
(* GraphBootstrap on a small instance: three overlapping calls, two labels.  *)
EXTENDS GraphBootstrap
=============================================================================
