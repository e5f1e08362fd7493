------------------------------ MODULE MCClearing -----------------------------
(* ApprovalFlow and Emergency in one run: clearing a container with a       *)
(* supervisor's approval, and without asking anyone.  The two share no      *)
(* state, so one moves only while the other has not begun.                  *)
(*                                                                          *)
(* ApprovalFlow: two listed actions and one that needs no approval; nonces  *)
(* are interchangeable.                                                     *)
(* Emergency: two commands over a container of two Faces, which may be      *)
(* missing.                                                                 *)
EXTENDS ApprovalFlow, Emergency, TLC

MCFaces == <<"face_a", "face_b">>

ClearingInit == Init /\ EmergencyInit
ClearingNext ==
    \/ EmergencyInit /\ exists = {} /\ Next /\ UNCHANGED emergencyVars
    \/ Init /\ ~supervisor /\ EmergencyNext /\ UNCHANGED vars
ClearingSpec == ClearingInit /\ [][ClearingNext]_<<vars, emergencyVars>>

Interchangeable == Permutations(Nonce) \union Permutations(Command)
=============================================================================
