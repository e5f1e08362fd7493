----------------------------- MODULE MCConsole ------------------------------
(* A console, launched up to twice, and up to two servers. *)
EXTENDS Console
=============================================================================
