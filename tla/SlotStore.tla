------------------------------ MODULE SlotStore ------------------------------
(***************************************************************************)
(* What a container promises to the vault: four slots, each a record or    *)
(* noise.  An operation names the slots it may disturb and what they are   *)
(* to hold; a slot it does not name never changes, a slot it names is at   *)
(* any moment what it was, noise, or what it is to be, and when it reports *)
(* done they all are what they are to be.  Power loss ends it anywhere.    *)
(* VesselStore takes containers to be this.                                *)
(***************************************************************************)
CONSTANTS
    Record,  \* encrypted records
    Noise    \* bytes that no passphrase opens

Mode == {"dummy", "secret"}
Role == {"open", "purge"}
Slots == Mode \X Role

VARIABLES
    slot,    \* what each slot holds
    doomed,  \* slots the operation under way may have reached
    wanted   \* what they are to hold

vars == <<slot, doomed, wanted>>

Init ==
    /\ slot = [s \in Slots |-> Noise]
    /\ doomed = {} /\ wanted = Noise

(* store fills one slot, randomize_slot blanks one, purge_mode a Face, and *)
(* silent_brick all.                                                       *)
Begin(S, x) ==
    /\ doomed = {}
    /\ doomed' = S /\ wanted' = x
    /\ UNCHANGED slot

(* format_container truncates before it fills. *)
Format ==
    /\ doomed = {}
    /\ slot' = [s \in Slots |-> Noise]
    /\ UNCHANGED <<doomed, wanted>>

Disturb ==
    /\ \E s \in doomed, x \in {wanted, Noise} : slot' = [slot EXCEPT ![s] = x]
    /\ UNCHANGED <<doomed, wanted>>

Finish ==
    /\ \A s \in doomed : slot[s] = wanted
    /\ doomed' = {} /\ wanted' = Noise
    /\ UNCHANGED slot

PowerLoss == doomed' = {} /\ wanted' = Noise /\ UNCHANGED slot

Next ==
    \/ \E s \in Slots, x \in Record \union {Noise} : Begin({s}, x)
    \/ \E m \in Mode : Begin({m} \X Role, Noise)
    \/ Begin(Slots, Noise) \/ Format
    \/ Disturb \/ Finish \/ PowerLoss

Spec == Init /\ [][Next]_vars
=============================================================================
