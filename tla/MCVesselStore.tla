--------------------------- MODULE MCVesselStore ----------------------------
(* Passphrases and files are interchangeable.  No guard reads truth, armed, *)
(* struck or wiped, nor the passphrase of a restricted slot.  Whether such  *)
(* a slot is noise matters to BrickLeavesNothing alone, so only for what is *)
(* struck: an overwrite finds nothing but noise, the key having gone first. *)
EXTENDS VesselStore, TLC

DataSymmetry == Permutations(Pass) \union Permutations(File)

Files == [v \in Vessel, f \in Face |-> <<slots[v][f]["open"], slots[v][f]["purge"].files>>]
Blanked == {s \in struck : slots[s[1]][s[2]]["purge"] = Noise}
StoreView == <<Files, Blanked, present, accessKey, registry, refs, job,
               truth, armed, gone, wiped, struck>>
=============================================================================
