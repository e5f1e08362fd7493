---------------------------- MODULE VesselStore -----------------------------
(***************************************************************************)
(* Where the operator's files live and what ends them: the containers (two *)
(* Faces with an open and a restricted slot each), the device-wide access  *)
(* key every slot is derived from, the Vessel registry with its sealed     *)
(* Face detail, and the cue references.  One workflow operation runs at a  *)
(* time (the WebUI serialises its own); it is a sequence of durable steps, *)
(* and the device can lose power before, inside or after each of them.     *)
(*                                                                         *)
(* A slot is noise, or a record one passphrase opens.  A record is derived *)
(* from the access key of the day; once that key is unlinked, overwritten  *)
(* or replaced no code path opens it again, so it is noise from then on.   *)
(***************************************************************************)
EXTENDS Integers, Sequences, FiniteSets, Functions

CONSTANTS
    Vessel,    \* container paths
    Pass,      \* passphrases
    NoPass,    \* "no passphrase set"
    File,      \* stored files; each is stored at most once
    MaxFiles,  \* how many files a slot has room for
    Overwrite, \* may "create --overwrite" be used?
    Faults     \* subset of {"crash", "torn_slot", "torn_key", "torn_seal", "torn_index"}

ASSUME VesselAssumption == Vessel # {}
ASSUME PassAssumption == NoPass \notin Pass
ASSUME BoundAssumption == MaxFiles \in Nat /\ Overwrite \in BOOLEAN

Face == {"face_a", "face_b"}
Role == {"open", "purge"}

VARIABLES
    slots,      \* the containers: slots[v][f][role]
    present,    \* containers that exist as files
    accessKey,  \* access.bin: "none", "live", or "torn" (of the wrong length)
    registered, \* paths in the cleartext index
    sealed,     \* Face detail in the sealed sidecar
    refs,       \* Faces (modes) whose cue reference is stored, device-wide
    job,        \* the operation under way and the steps it has left
    truth,      \* history: files acknowledged as stored that nothing listed at
                \* AckedReadable has ended since
    armed,      \* history: Faces acknowledged with a destroy passphrase that
                \* nothing listed at DestroyArmed has ended since
    gone,       \* history: files whose destruction was completed
    struck,     \* history: Faces of a container being or been bricked, until stored to
    wiped       \* history: Vessels wiped or initialized whole, not stored to since

storage == <<slots, present, accessKey>>
registry == <<registered, sealed>>
history == <<truth, armed, gone, struck, wiped>>
vars == <<storage, registry, refs, job, history>>

Slot == [pass : Pass \union {NoPass}, files : SUBSET File]
Noise == [pass |-> NoPass, files |-> {}]
BlankFace == [r \in Role |-> Noise]
BlankContainer == [f \in Face |-> BlankFace]
AllNoise == [v \in Vessel |-> BlankContainer]

(* One Face's sealed record; the defaults are what a missing one reads as. *)
Detail == [cred : BOOLEAN, auth : Pass \union {NoPass}]
FreshDetail == [cred |-> FALSE, auth |-> NoPass]
FreshFaces == [f \in Face |-> FreshDetail]

(* _load_registry merges the sidecar into the records of the index. *)
FaceRecord(v, f) == IF v \in registered THEN sealed[v][f] ELSE FreshDetail
Records == [v \in Vessel |-> [f \in Face |-> FaceRecord(v, f)]]

(* _save_registry writes detail for the records of the new index only. *)
SealFor(reg, det) == [v \in Vessel |-> IF v \in reg THEN det[v] ELSE FreshFaces]

NothingStored == [v \in Vessel |-> [f \in Face |-> {}]]

-----------------------------------------------------------------------------
(* Jobs *)

Step == {"auth", "open_slot", "purge_slot", "touch", "cred",
         "erase", "reset", "wipe_a", "wipe_b",
         "keyrm", "keyunlink", "keynew", "format", "brick", "unlink",
         "register", "unregister", "refs", "refs_if_last"}

Job == [op : {"idle", "create", "open", "add", "filler", "remove", "retrieve",
              "destroy_face", "destroy_vessel", "delete", "purge_other",
              "brick", "initialize"},
        v : Vessel, f : Face, p : Pass \union {NoPass}, e : Pass \union {NoPass},
        files : SUBSET File, todo : Seq(Step)]

Idle == job.op = "idle"
NoJob == [op |-> "idle", v |-> CHOOSE v \in Vessel : TRUE, f |-> "face_a",
          p |-> NoPass, e |-> NoPass, files |-> {}, todo |-> <<>>]
Begin(op, v, f, p, e, files, todo) ==
    /\ Idle
    /\ job' = [op |-> op, v |-> v, f |-> f, p |-> p, e |-> e, files |-> files, todo |-> todo]

At(step) == ~Idle /\ Head(job.todo) = step
Ends == Len(job.todo) = 1
Advance == job' = IF Ends THEN NoJob ELSE [job EXCEPT !.todo = Tail(@)]

Init ==
    /\ slots = AllNoise
    /\ present = {} /\ registered = {} /\ refs = {}
    /\ accessKey = "none"
    /\ sealed = [v \in Vessel |-> FreshFaces]
    /\ job = NoJob
    /\ truth = NothingStored
    /\ armed = {} /\ gone = {} /\ struck = {} /\ wiped = {}

-----------------------------------------------------------------------------
(* What a passphrase opens (retrieve_open_only) *)

Opens(v, f, p) ==
    accessKey = "live" /\ p # NoPass /\ slots[v][f]["open"].pass = p

(* Mutant: an unreadable slot is always taken for an empty namespace. *)
Readable_Lenient(v, f, p) == TRUE

(* _read_face_namespace: an unreadable slot is an empty namespace for a    *)
(* Face without credentials and "password mismatch" for one with them.     *)
Readable(v, f, p) == Opens(v, f, p) \/ ~FaceRecord(v, f).cred
Namespace(v, f, p) == IF Opens(v, f, p) THEN slots[v][f]["open"].files ELSE {}

Stored == (UNION {slots[v][f][r].files : v \in Vessel, f \in Face, r \in Role})
                \union job.files \union gone

-----------------------------------------------------------------------------
(* Operations: what each checks before its first durable step. *)

CreateVessel(v) ==
    /\ v \in present => Overwrite
    /\ Begin("create", v, "face_a", NoPass, NoPass, {},
             <<"keyunlink", "keynew", "format", "register", "refs">>)
    /\ truth' = NothingStored
    /\ armed' = {}
    /\ UNCHANGED <<storage, registry, refs, gone, struck, wiped>>

(* open_vessel / close_vessel write bookkeeping; open registers the path. *)
OpenVessel(v) ==
    /\ v \in present
    /\ Begin("open", v, "face_a", NoPass, NoPass, {}, <<"register">>)
    /\ UNCHANGED <<storage, registry, refs, history>>

(* capture_reference_for_mode, before a store that may still be refused. *)
CaptureReference(f) ==
    /\ Idle
    /\ f \notin refs
    /\ refs' = refs \union {f}
    /\ UNCHANGED <<storage, registry, job, history>>

(* add_payload, to a Face whose reference is captured.  The destroy        *)
(* passphrase is recorded before the write; only the write compares the    *)
(* two passphrases (the console and the command line pass them on as       *)
(* entered for a Face that has credentials).                               *)
AddPayload(v, f, p, e, x) ==
    /\ v \in present /\ f \in refs /\ x \notin Stored
    /\ Readable(v, f, p)
    /\ Begin("add", v, f, p, e, Namespace(v, f, p) \union {x},
             IF e = NoPass THEN <<"open_slot", "touch", "cred">>
             ELSE <<"auth", "open_slot", "purge_slot", "touch", "cred">>)
    /\ wiped' = wiped \ {v}
    /\ UNCHANGED <<storage, registry, refs, truth, armed, gone, struck>>

(* generate_dummy_profile / clear_dummy_profile rewrite both slots with    *)
(* the operator's files kept; the filler itself is not tracked.            *)
RewriteFiller(v, f, p, e) ==
    /\ v \in present /\ e \notin {p, NoPass}
    /\ Readable(v, f, p)
    /\ Begin("filler", v, f, p, e, Namespace(v, f, p), <<"open_slot", "purge_slot", "touch">>)
    /\ wiped' = wiped \ {v}
    /\ UNCHANGED <<storage, registry, refs, truth, armed, gone, struck>>

RemoveFile(v, f, p, x) ==
    /\ v \in present /\ FaceRecord(v, f).cred
    /\ Opens(v, f, p) /\ x \in Namespace(v, f, p)
    /\ Begin("remove", v, f, p, NoPass, Namespace(v, f, p) \ {x}, <<"open_slot", "touch">>)
    /\ truth' = [truth EXCEPT ![v][f] = @ \ {x}]
    /\ UNCHANGED <<storage, registry, refs, armed, gone, struck, wiped>>

(* retrieve_file / list_files: refused for a Face without credentials. *)
Retrievable(v, f, p) ==
    /\ v \in present /\ f \in refs
    /\ FaceRecord(v, f).cred
    /\ Opens(v, f, p)

Retrieve(v, f, p) ==
    /\ Retrievable(v, f, p)
    /\ Begin("retrieve", v, f, p, NoPass, Namespace(v, f, p), <<"touch">>)
    /\ UNCHANGED <<storage, registry, refs, history>>

(* Both destroy commands verify the destroy passphrase of one Face and     *)
(* that its object is presented.                                           *)
DestroyVerified(v, f, e) ==
    /\ v \in present /\ f \in refs
    /\ FaceRecord(v, f).cred
    /\ e # NoPass /\ FaceRecord(v, f).auth = e

DestroyFace(v, f, e) ==
    /\ DestroyVerified(v, f, e)
    /\ Begin("destroy_face", v, f, NoPass, e, {}, <<"erase", "reset">>)
    /\ truth' = [truth EXCEPT ![v][f] = {}]
    /\ armed' = armed \ {<<v, f>>}
    /\ UNCHANGED <<storage, registry, refs, gone, struck, wiped>>

(* The key that goes is every container's, and "refs" clears the cues of   *)
(* every Vessel's Faces.                                                   *)
EndVessel(op, v, todo) ==
    /\ v \in present
    /\ Begin(op, v, "face_a", NoPass, NoPass, {}, todo)
    /\ truth' = NothingStored
    /\ armed' = IF op = "initialize" THEN {} ELSE armed \ ({v} \X Face)
    /\ UNCHANGED <<storage, registry, refs, gone, struck, wiped>>

DestroyVessel(v) ==
    /\ \E f \in Face, e \in Pass : DestroyVerified(v, f, e)
    /\ EndVessel("destroy_vessel", v, <<"keyrm", "brick", "unregister">>)

DeleteVessel(v) ==
    EndVessel("delete", v, <<"keyrm", "brick", "unlink", "unregister", "refs_if_last">>)

(* Mutant: the container is overwritten before the key is destroyed. *)
EmergencyBrick_KeyLast(v) ==
    EndVessel("brick", v, <<"brick", "keyrm", "wipe_a", "wipe_b">>)

(* WebUI /emergency/brick and /emergency/panic *)
EmergencyBrick(v) ==
    EndVessel("brick", v, <<"keyrm", "brick", "wipe_a", "wipe_b">>)

(* WebUI /emergency/initialize *)
EmergencyInitialize(v) ==
    EndVessel("initialize", v,
              <<"keyunlink", "keynew", "format", "wipe_a", "wipe_b", "refs">>)

(* purge_other_mode from the WebUI (with the bookkeeping reset) or from    *)
(* the command line (without it); f is the Face that is cleared.           *)
PurgeOther(v, f, web) ==
    /\ v \in present
    /\ Begin("purge_other", v, f, NoPass, NoPass, {},
             IF web THEN <<"erase", "touch">> ELSE <<"erase">>)
    /\ truth' = [truth EXCEPT ![v][f] = {}]
    /\ UNCHANGED <<storage, registry, refs, armed, gone, struck, wiped>>

-----------------------------------------------------------------------------
(* Durable steps: the container and the access key *)

FilesIn(v, F) == UNION {slots[v][f][r].files : f \in F, r \in Role}

(* store fails before it touches the container when the passphrases are    *)
(* the same, access.bin is malformed, or the record does not fit; only the *)
(* last comes after drawing a key where there is none.  How long files are *)
(* is not modelled: MaxFiles of them may fit or not, more never do, and in *)
(* the restricted slot, whose record names its role and is a byte longer,  *)
(* may not what did fit the open one.                                      *)
Refused == job.e = job.p \/ accessKey = "torn"
TooLong == Cardinality(job.files) > MaxFiles
WriteFails == Refused \/ TooLong
MayFail == Refused \/ Cardinality(job.files) >= MaxFiles

WriteSlotFails ==
    /\ At("open_slot") \/ At("purge_slot")
    /\ MayFail
    /\ accessKey' = IF Refused THEN accessKey ELSE "live"
    /\ job' = NoJob
    /\ UNCHANGED <<slots, present, registry, refs, history>>

SlotStep(role) == IF role = "open" THEN "open_slot" ELSE "purge_slot"

WriteSlot(role) ==
    /\ At(SlotStep(role))
    /\ ~WriteFails
    /\ accessKey' = "live"
    /\ slots' = [slots EXCEPT ![job.v][job.f][role] =
                    [pass |-> IF role = "open" THEN job.p ELSE job.e, files |-> job.files]]
    /\ struck' = struck \ {<<job.v, job.f>>}
    /\ Advance
    /\ UNCHANGED <<present, registry, refs, truth, armed, gone, wiped>>

(* Mutant: only the open slot is overwritten. *)
EraseFace_OpenOnly ==
    /\ At("erase")
    /\ slots' = [slots EXCEPT ![job.v][job.f]["open"] = Noise]
    /\ gone' = gone \union FilesIn(job.v, {job.f})
    /\ Advance
    /\ UNCHANGED <<present, accessKey, registry, refs, truth, armed, struck, wiped>>

(* purge_mode overwrites both slots of one Face. *)
EraseFace ==
    /\ At("erase")
    /\ slots' = [slots EXCEPT ![job.v][job.f] = BlankFace]
    /\ gone' = gone \union FilesIn(job.v, {job.f})
    /\ Advance
    /\ UNCHANGED <<present, accessKey, registry, refs, truth, armed, struck, wiped>>

(* destroy_access_keys *)
DestroyAccessKeys ==
    /\ At("keyrm")
    /\ accessKey' = "none"
    /\ slots' = AllNoise
    /\ gone' = gone \union FilesIn(job.v, Face)
    /\ Advance
    /\ UNCHANGED <<present, registry, refs, truth, armed, struck, wiped>>

(* silent_brick of the container layout *)
BrickContainer ==
    /\ At("brick")
    /\ slots' = [slots EXCEPT ![job.v] = BlankContainer]
    /\ struck' = struck \union ({job.v} \X Face)
    /\ Advance
    /\ UNCHANGED <<present, accessKey, registry, refs, truth, armed, gone, wiped>>

(* rotate_access_key: unlink, then write a new key *)
UnlinkAccessKey ==
    /\ At("keyunlink")
    /\ accessKey' = "none"
    /\ slots' = AllNoise
    /\ gone' = gone \union FilesIn(job.v, Face)
    /\ Advance
    /\ UNCHANGED <<present, registry, refs, truth, armed, struck, wiped>>

WriteNewAccessKey ==
    /\ At("keynew")
    /\ accessKey' = "live"
    /\ Advance
    /\ UNCHANGED <<slots, present, registry, refs, history>>

FormatContainer ==
    /\ At("format")
    /\ slots' = [slots EXCEPT ![job.v] = BlankContainer]
    /\ present' = present \union {job.v}
    /\ Advance
    /\ UNCHANGED <<accessKey, registry, refs, history>>

UnlinkContainer ==
    /\ At("unlink")
    /\ present' = present \ {job.v}
    /\ Advance
    /\ UNCHANGED <<slots, accessKey, registry, refs, history>>

(* What the last step of an operation acknowledges. *)
Acknowledge ==
    /\ truth' = IF Ends /\ job.op = "add"
                THEN [truth EXCEPT ![job.v][job.f] = @ \union job.files] ELSE truth
    /\ armed' = IF Ends /\ job.op = "add" /\ job.e # NoPass
                THEN armed \union {<<job.v, job.f>>} ELSE armed
    /\ wiped' = IF Ends /\ job.op \in {"brick", "initialize"} THEN wiped \union {job.v} ELSE wiped
    /\ UNCHANGED <<gone, struck>>

(* clear_references; delete_vessel only when list_all() is empty. *)
ClearReferences ==
    /\ \/ At("refs") /\ refs' = {}
       \/ At("refs_if_last")
          /\ refs' = IF registered \intersect present = {} THEN {} ELSE refs
    /\ Acknowledge
    /\ Advance
    /\ UNCHANGED <<storage, registry>>

-----------------------------------------------------------------------------
(* Durable steps: the registry *)

Updated(f, d) == [Records EXCEPT ![job.v][f] = d]

(* Mutant: an ordinary touch rewrites the Face record from its defaults, *)
(* keeping the credentials flag only.                                    *)
NewRecords_TouchResets(step) ==
    LET d == FaceRecord(job.v, job.f)
    IN  CASE step = "auth" -> Updated(job.f, [d EXCEPT !.auth = job.e])
          [] step = "touch" -> Updated(job.f, [FreshDetail EXCEPT !.cred = d.cred])
          [] step = "cred" -> Updated(job.f, [d EXCEPT !.cred = TRUE])
          [] step = "reset" -> Updated(job.f, FreshDetail)
          [] step = "wipe_a" -> Updated("face_a", FreshDetail)
          [] step = "wipe_b" -> Updated("face_b", FreshDetail)
          [] OTHER -> Records

(* Mutant: a whole-container wipe resets the selected Face only. *)
NewRecords_WipeOne(step) ==
    LET d == FaceRecord(job.v, job.f)
    IN  CASE step = "auth" -> Updated(job.f, [d EXCEPT !.auth = job.e])
          [] step = "cred" -> Updated(job.f, [d EXCEPT !.cred = TRUE])
          [] step \in {"reset", "wipe_a", "wipe_b"} -> Updated(job.f, FreshDetail)
          [] OTHER -> Records

(* The records a registry step saves; a touch changes only bookkeeping the *)
(* model leaves out (file counts, occupancy, timestamps).                  *)
NewRecords(step) ==
    LET d == FaceRecord(job.v, job.f)
    IN  CASE step = "auth" -> Updated(job.f, [d EXCEPT !.auth = job.e])
          [] step = "cred" -> Updated(job.f, [d EXCEPT !.cred = TRUE])
          [] step = "reset" -> Updated(job.f, FreshDetail)
          [] step = "wipe_a" -> Updated("face_a", FreshDetail)
          [] step = "wipe_b" -> Updated("face_b", FreshDetail)
          [] OTHER -> Records

RegistrySteps == {"auth", "touch", "cred", "reset", "wipe_a", "wipe_b",
                  "register", "unregister"}

(* Every registry call but unregister leaves the path in the index. *)
NewIndex(step) ==
    IF step = "unregister" THEN registered \ {job.v} ELSE registered \union {job.v}

(* register_vessel and unregister_vessel save only when the index changes; *)
(* open_vessel always does.                                                *)
Saves(step) ==
    step \in {"register", "unregister"} /\ job.op # "open" => NewIndex(step) # registered

SaveRegistry(step) ==
    /\ At(step)
    /\ IF Saves(step)
       THEN /\ registered' = NewIndex(step)
            /\ sealed' = SealFor(NewIndex(step), NewRecords(step))
       ELSE UNCHANGED registry
    /\ Acknowledge
    /\ Advance
    /\ UNCHANGED <<storage, refs>>

-----------------------------------------------------------------------------
(* Power loss.  The operation under way ends; the step it was in may have  *)
(* happened in part.  A step that finished is taken to be durable, in the  *)
(* order of the program, although the code does not sync its files.  What  *)
(* was acknowledged of the slot, or by way of the registry file, that a    *)
(* torn write hits is lost: there those histories end.                     *)

(* Containers are overwritten from the front. *)
Position == <<<<"face_a", "open">>, <<"face_a", "purge">>,
              <<"face_b", "open">>, <<"face_b", "purge">>>>
BlankedUpTo(k) ==
    [f \in Face |-> [r \in Role |->
        IF \E i \in 1..k : Position[i] = <<f, r>> THEN Noise ELSE slots[job.v][f][r]]]

CrashInStorage ==
    /\ UNCHANGED <<registry, armed>>
    /\ \/ UNCHANGED <<storage, struck, truth>>
       \/ /\ "torn_slot" \in Faults
          /\ \E r \in Role :
                /\ At(SlotStep(r)) /\ ~WriteFails
                /\ slots' = [slots EXCEPT ![job.v][job.f][r] = Noise]
                /\ truth' = IF r = "open" THEN [truth EXCEPT ![job.v][job.f] = {}] ELSE truth
          /\ UNCHANGED <<present, accessKey, struck>>
       \/ /\ At("erase")
          /\ slots' = [slots EXCEPT ![job.v][job.f]["open"] = Noise]
          /\ UNCHANGED <<present, accessKey, struck, truth>>
       \/ /\ At("brick")
          /\ \E k \in 1..3 : slots' = [slots EXCEPT ![job.v] = BlankedUpTo(k)]
          /\ struck' = struck \union ({job.v} \X Face)
          /\ UNCHANGED <<present, accessKey, truth>>
       \/ /\ At("keyrm") /\ accessKey # "none"   \* overwritten, not removed
          /\ accessKey' = "live"
          /\ slots' = AllNoise
          /\ UNCHANGED <<present, struck, truth>>
       \/ /\ "torn_key" \in Faults
          /\ At("keynew")
          /\ accessKey' = "torn"
          /\ UNCHANGED <<slots, present, struck, truth>>
       \/ /\ At("format")   \* truncated, and only in part rewritten
          /\ slots' = [slots EXCEPT ![job.v] = BlankContainer]
          /\ present' = present \union {job.v}
          /\ UNCHANGED <<accessKey, struck, truth>>

(* An unreadable sidecar or index loses the detail of every Vessel. *)
NothingPromised == truth' = NothingStored /\ armed' = {}

(* A registry step of update_face_access saves twice: the records as they  *)
(* were (with the path in the index), then the changed ones.  Each save    *)
(* writes the sidecar, then truncates and rewrites the index; a torn       *)
(* sidecar reads as empty, and so does a torn index.                       *)
CrashInRegistry ==
    \E step \in RegistrySteps :
        /\ At(step) /\ Saves(step)
        /\ \/ /\ sealed' \in {SealFor(NewIndex(step), NewRecords(step)),
                              SealFor(NewIndex(step), Records)}
              /\ \/ registered' \in {registered, NewIndex(step)} /\ UNCHANGED <<truth, armed>>
                 \/ "torn_index" \in Faults /\ registered' = {} /\ NothingPromised
           \/ /\ "torn_seal" \in Faults
              /\ sealed' = [v \in Vessel |-> FreshFaces]
              /\ registered' \in {registered, NewIndex(step)}
              /\ NothingPromised
        /\ UNCHANGED <<storage, struck>>

Crash ==
    /\ "crash" \in Faults
    /\ ~Idle
    /\ job' = NoJob
    /\ CrashInStorage \/ CrashInRegistry
    /\ UNCHANGED <<refs, gone, wiped>>

-----------------------------------------------------------------------------
Start ==
    \/ \E v \in Vessel :
        \/ CreateVessel(v) \/ OpenVessel(v)
        \/ \E f \in Face, p \in Pass :
              \/ \E e \in Pass \union {NoPass} :
                    \/ \E x \in File : AddPayload(v, f, p, e, x)
                    \/ RewriteFiller(v, f, p, e)
              \/ \E x \in File : RemoveFile(v, f, p, x)
              \/ Retrieve(v, f, p)
              \/ DestroyFace(v, f, p)
        \/ DestroyVessel(v) \/ DeleteVessel(v)
        \/ EmergencyBrick(v) \/ EmergencyInitialize(v)
        \/ \E f \in Face, web \in BOOLEAN : PurgeOther(v, f, web)
    \/ \E f \in Face : CaptureReference(f)

StorageStep ==
    \/ WriteSlotFails \/ WriteSlot("open") \/ WriteSlot("purge")
    \/ EraseFace \/ DestroyAccessKeys \/ BrickContainer
    \/ UnlinkAccessKey \/ WriteNewAccessKey \/ FormatContainer
    \/ UnlinkContainer \/ ClearReferences

Next == Start \/ StorageStep \/ (\E step \in RegistrySteps : SaveRegistry(step)) \/ Crash

Spec == Init /\ [][Next]_vars
-----------------------------------------------------------------------------
(* Type invariant. *)
TypeOK ==
    /\ slots \in [Vessel -> [Face -> [Role -> Slot]]]
    /\ present \subseteq Vessel /\ registered \subseteq Vessel
    /\ accessKey \in {"none", "live", "torn"}
    /\ sealed \in [Vessel -> [Face -> Detail]]
    /\ refs \subseteq Face
    /\ job.v \in Vessel /\ job.f \in Face /\ {job.p, job.e} \subseteq Pass \union {NoPass}
    /\ job.files \subseteq File /\ Range(job.todo) \subseteq Step
    /\ truth \in [Vessel -> [Face -> SUBSET File]]
    /\ armed \subseteq Vessel \X Face
    /\ gone \subseteq File /\ wiped \subseteq Vessel
    /\ struck \subseteq Vessel \X Face

(* Once a destruction reported done, no slot of any container opens to a   *)
(* destroyed file, whatever crashes, torn writes and later operations      *)
(* follow (purge_mode, destroy_access_keys, rotate_access_key).            *)
GoneStaysGone ==
    \A v \in Vessel, f \in Face, r \in Role : slots[v][f][r].files \intersect gone = {}

(* A file that add_payload acknowledged can be retrieved between           *)
(* operations (its Face's open slot decrypts under the key in use and      *)
(* contains it, and the registry lets retrieval look) until one of these,  *)
(* and nothing else, ends it:                                              *)
(*   - a command that names it or its Face: remove, destroy_face,          *)
(*     purge_other;                                                        *)
(*   - a command that destroys or rotates the one access key of the        *)
(*     device, for whichever Vessel it is given: creating one, destroying, *)
(*     deleting, bricking or initializing one;                             *)
(*   - power loss inside the overwrite of its own slot;                    *)
(*   - power loss inside a save of the registry that leaves the sidecar or *)
(*     the index unreadable, for every Vessel's files                      *)
(*     (RegisterRestores).                                                 *)
(* So it survives power loss anywhere else, refused and interrupted stores *)
(* and fillers, torn writes of other slots, and purges of the other Face.  *)
AckedReadable ==
    Idle => \A v \in Vessel, f \in Face :
        truth[v][f] # {} =>
            /\ v \in present
            /\ \E p \in Pass : Opens(v, f, p)
            /\ truth[v][f] \subseteq slots[v][f]["open"].files
            /\ FaceRecord(v, f).cred

(* A Face stored to with a destroy passphrase has, between operations, one *)
(* that destroy_face accepts, until: its destruction; the end of its whole *)
(* Vessel; the creation or initialization of any Vessel, which clears      *)
(* every cue; or power loss that leaves the registry's sidecar or index    *)
(* unreadable, which disarms every Face (RegisterRestores).  Stores        *)
(* refused or interrupted after the new passphrase was recorded, purges,   *)
(* retrievals and power loss anywhere else leave it one.                   *)
DestroyArmed ==
    Idle => \A v \in Vessel, f \in Face :
        <<v, f>> \in armed => \E e \in Pass : DestroyVerified(v, f, e)

(* forget_container_contents: after a whole-container wipe completed, no   *)
(* destroy passphrase set before it survives, until the next store.        *)
WipeEndsCredentials ==
    Idle => \A v \in wiped, f \in Face : FaceRecord(v, f) = FreshDetail

(* vessel_service.py 358-361: after a crash that leaves the index           *)
(* unparseable, sealed detail survives, "and re-registering the same path  *)
(* restores the record".  The code breaks it: the record that is           *)
(* registered has defaults, and the sidecar is rewritten from it.          *)
RegisterRestores ==
    [][At("register") => sealed'[job.v] = sealed[job.v]]_vars

(* silent_brick destroys the key before it touches the container: however  *)
(* little of the overwrite happened, nothing of either Face can be opened. *)
BrickLeavesNothing ==
    \A v \in Vessel, f \in Face : <<v, f>> \in struck => slots[v][f] = BlankFace
=============================================================================
