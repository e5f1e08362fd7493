------------------------------ MODULE MCErasure ------------------------------
(* ContainerLayout and Emergency in one run, as they are in Erasure_proofs. *)
(* The two share no state, so one moves only while the other has not begun. *)
(*                                                                          *)
(* ContainerLayout: an odd container, so that its four slots have different *)
(* lengths, and records that fit all of them, only the longer, and one slot *)
(* too short by the byte its role adds.                                     *)
(* Emergency: one command over a container of two Faces, which may be       *)
(* missing, for what must come about; MCClearing has two for what must not. *)
EXTENDS ContainerLayout, Emergency

CONSTANTS short, long

MCLength == [x \in {short, long} |-> IF x = short THEN 0 ELSE 1]
MCFaces == <<"face_a", "face_b">>

ErasureInit == Init /\ EmergencyInit
ErasureNext ==
    \/ EmergencyInit /\ exists = {} /\ Next /\ UNCHANGED emergencyVars
    \/ Init /\ EmergencyNext /\ UNCHANGED vars
ErasureSpec == ErasureInit /\ [][ErasureNext]_<<vars, emergencyVars>> /\ Fairness
=============================================================================
