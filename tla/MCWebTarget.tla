----------------------------- MODULE MCWebTarget -----------------------------
(* Two Vessels, two interchangeable passphrases, one body beside the console. *)
EXTENDS WebTarget, TLC

Interchangeable == Permutations(Pass)
=============================================================================
