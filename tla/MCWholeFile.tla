----------------------------- MODULE MCWholeFile -----------------------------
(* CueStore and FaceFiles in one run, as they are in WholeFile_proofs.  The *)
(* two share no state, so one moves only while the other has not begun.     *)
(*                                                                          *)
(* CueStore: two processes, the two entries and three objects.              *)
(* FaceFiles: two interchangeable processes.  Name 1 is a filler name; 2772 *)
(* bytes fill the open slot to the last byte; the filler fits alone, and    *)
(* next to 300 bytes the generator accepts filler that does not fit the     *)
(* record.                                                                  *)
EXTENDS CueStore, FaceFiles

WholeFileInit == Init /\ FaceInit
WholeFileNext ==
    \/ FaceInit /\ slot = Nothing /\ Next /\ UNCHANGED faceVars
    \/ Init /\ FaceNext /\ UNCHANGED vars
WholeFileSpec == WholeFileInit /\ [][WholeFileNext]_<<vars, faceVars>>

Interchangeable == Permutations(Object) \union Permutations(Process)
=============================================================================
