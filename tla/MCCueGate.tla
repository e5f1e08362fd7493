------------------------------ MODULE MCCueGate -----------------------------
(* The gate with its matcher and one viewer. *)
EXTENDS CueGate
=============================================================================
