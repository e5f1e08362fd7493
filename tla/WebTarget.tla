------------------------------ MODULE WebTarget ------------------------------
(***************************************************************************)
(* What the WebUI's device operations do to the Vessels: which container   *)
(* each of them reaches (services/web_target_service.py, looked up anew by *)
(* every helper), which entry (web_server.py, decided by the camera), and  *)
(* what the registry says afterwards (services/vessel_service.py).  The    *)
(* device lock lets one of these bodies run at a time, so `op' is the one. *)
(* The console is another process without that lock: between any two steps *)
(* of the body it opens, fills, destroys, creates or deletes Vessels, and  *)
(* both processes read, change and rewrite the whole registry.             *)
(*                                                                         *)
(* Who may start which body is the subject of WebSession, the byte layout  *)
(* and the passphrases of VesselStore, the camera of CueGate.              *)
(***************************************************************************)
EXTENDS Naturals, Sequences, FiniteSets

CONSTANTS
    Vessel,       \* paths, as numbers in the order they sort
    Pass,         \* passphrases
    Policy,       \* deployments: "confirm", "duress" or "immediate" (auto purge)
    MaxOpened,    \* bound: stamps of last_opened_at (one second each)
    MaxConsole,   \* bound: what the console does
    MaxOps        \* bound: bodies run

ASSUME VesselAssumption == Vessel \subseteq Nat \ {0} /\ IsFiniteSet(Vessel)
ASSUME BoundAssumption == MaxOpened \in Nat

Modes == <<"dummy", "secret">>
Mode == {"dummy", "secret"}
OtherMode(m) == IF m = "dummy" THEN "secret" ELSE "dummy"

Legacy == 0          \* LEGACY_CONTAINER_PATH, used while no Vessel is known
Container == Vessel \union {Legacy}
File == {"earlier", "upload"}

VARIABLES
    policy,    \* the deployment's auto-purge settings
    exists,    \* Vessel files on the device
    content,   \* what each Face of each container opens to, and for whom
    reg,       \* registered Vessels -> when last opened, and their Faces' detail
    torn,      \* a save of the WebUI has truncated a file and not written it yet
    bound,     \* modes with an object reference, in the WebUI's gate
    op,        \* the body that holds the device lock
    snap,      \* the registry as that body has loaded it and will save it
    console,   \* operations the console has done
    done,      \* bodies begun
    disturbed, \* history: the console did something during this body
    moved      \* history: ... that changed which Vessel is the WebUI's

history == <<disturbed, moved>>
vars == <<policy, exists, content, reg, torn, bound, op, snap, console, done, history>>

-----------------------------------------------------------------------------
(* Faces and their records *)

EmptySlot == [open |-> "none", destroy |-> "none", files |-> {}]
NoContent == [m \in Mode |-> EmptySlot]

FreshFace == [count |-> 0, creds |-> "none", destroy |-> "none"]
FreshFaces == [m \in Mode |-> FreshFace]
FreshRecord == [opened |-> 0, face |-> FreshFaces]
Empty == [v \in {} |-> FreshRecord]

(* _update_registry_record: a path that is not listed is appended. *)
WithVessel(r, v) ==
    [u \in DOMAIN r \union {v} |-> IF u \in DOMAIN r THEN r[u] ELSE FreshRecord]

(* What touch_face changes in a Face's record. *)
Resets == {"forget", "fresh"}

(* Mutant: a new file count is written into a record built from scratch. *)
Touched_Fresh(f, set, n, p) ==
    [count |-> IF set = "count" THEN n ELSE IF set \in Resets THEN 0 ELSE f.count,
     creds |-> IF set = "creds" THEN "set" ELSE IF set \in {"fresh", "count"} THEN "none" ELSE f.creds,
     destroy |-> IF set = "armed" THEN p ELSE IF set \in {"fresh", "count"} THEN "none" ELSE f.destroy]

Touched(f, set, n, p) ==
    [count |-> IF set = "count" THEN n ELSE IF set \in Resets THEN 0 ELSE f.count,
     creds |-> IF set = "creds" THEN "set" ELSE IF set = "fresh" THEN "none" ELSE f.creds,
     destroy |-> IF set = "armed" THEN p ELSE IF set = "fresh" THEN "none" ELSE f.destroy]

(* resolve_web_vessel: of the registered Vessels that have their file, the  *)
(* one opened last (the later path of a tie), if there is any.             *)
MostRecent(r, files) ==
    LET known == DOMAIN r \intersect files
    IN  IF known = {} THEN Legacy
        ELSE CHOOSE v \in known : \A u \in known :
                r[u].opened < r[v].opened \/ (r[u].opened = r[v].opened /\ u <= v)

WebVessel == MostRecent(reg, exists)

(* Mutant: the destructive routes keep using the fallback container. *)
WebContainer_Fallback == Legacy

(* resolve_web_container, active_vault *)
WebContainer == WebVessel

-----------------------------------------------------------------------------
(* A body is the sequence of steps it has left. *)

Step(do, mode, set) == [do |-> do, mode |-> mode, set |-> set]
Do(do) == Step(do, "none", "none")

(* update_face_access *)
Touch(m, set) == Step("touch", m, set)

(* forget_face_contents and forget_container_contents: which Faces are     *)
(* reset is known when the Vessel is.                                      *)
Forget(m) == Step("reset", m, "forget")
ForgetAll == Step("reset", "none", "fresh")

(* purge_other_mode, then forget_face_contents *)
Clear(m, forgotten) ==
    <<Do("container"), Step("purge", m, "none"), Forget(forgotten)>>

(* Mutant: the Face that was just opened is forgotten, not the cleared one. *)
ClearOther_ForgetAccessed(m) == Clear(OtherMode(m), m)

(* /purge_other, _maybe_auto_purge *)
ClearOther(m) == Clear(OtherMode(m), OtherMode(m))

(* _clear_accessed_entry *)
ClearAccessed(m) == Clear(m, m)

AutoPurges(m) == policy = "immediate" \/ (policy = "duress" /\ m = Modes[1])
MaybeAutoPurge(m) == IF AutoPurges(m) THEN ClearOther(m) ELSE <<>>

Wipe == <<Do("container"), Do("brick"), ForgetAll>>
Initialize == <<Do("container"), Do("format"), ForgetAll, Do("unbind")>>
Retrieve == <<Do("look"), Do("target"), Do("open")>>
DestroyFace == <<Do("look"), Do("again"), Do("target"), Do("verify")>>
Store == <<Do("select"), Do("capture"), Do("target"), Do("read")>>
RegisterKey == <<Do("pick"), Do("capture")>>

(* _set_face_emergency_password, when one was given. *)
Arm(m, arm) == IF arm = "none" THEN <<>> ELSE <<Touch(m, "armed")>>

(* The rest of a store once the Face has been read. *)
StoreInto(m, arm) ==
    Arm(m, arm) \o <<Step("write", m, "none"), Touch(m, "count"), Touch(m, "creds")>>

-----------------------------------------------------------------------------
(* The device at the start: some Faces were filled before.  `op' keeps     *)
(* what its body did until the next request.                               *)

Idle == [kind |-> "idle", todo |-> <<>>, pass |-> "none", arm |-> "none",
         hint |-> "none", replace |-> FALSE, vessel |-> Legacy, at |-> Legacy,
         mode |-> "none", first |-> "none", files |-> {}, round |-> 0,
         face |-> FreshFaces, result |-> "none", cleared |-> {}, used |-> {}]

Init ==
    /\ policy \in Policy
    /\ exists \in SUBSET Vessel /\ torn = FALSE
    /\ \E full \in SUBSET (Vessel \X Mode), p, q \in Pass :
        /\ p # q /\ \A x \in full : x[1] \in exists
        /\ content = [c \in Container |-> [m \in Mode |->
              IF <<c, m>> \in full
              THEN [open |-> p, destroy |-> q, files |-> {"earlier"}] ELSE EmptySlot]]
        /\ reg = [v \in exists |-> [opened |-> 0, face |-> [m \in Mode |->
              IF <<v, m>> \in full
              THEN [count |-> 1, creds |-> "set", destroy |-> q] ELSE FreshFace]]]
        /\ bound = {m \in Mode : \E v \in Vessel : <<v, m>> \in full}
    /\ op = Idle /\ snap = Empty
    /\ console = 0 /\ done = 0
    /\ disturbed = FALSE /\ moved = FALSE

-----------------------------------------------------------------------------
(* A request whose body gets the device lock, with what its form carries:  *)
(* passphrases, the entry named, a confirmed replacement.                  *)

Begin(kind, todo, p, arm, hint, replace) ==
    /\ op.todo = <<>> /\ done < MaxOps
    /\ op' = [Idle EXCEPT !.kind = kind, !.todo = todo, !.pass = p, !.arm = arm,
                          !.hint = hint, !.replace = replace]
    /\ done' = done + 1
    /\ disturbed' = FALSE /\ moved' = FALSE
    /\ UNCHANGED <<policy, exists, content, reg, torn, snap, bound, console>>

BeginStore ==
    \E p \in Pass, arm \in Pass \union {"none"}, hint \in Mode \union {"none"},
       replace \in BOOLEAN : arm # p /\ Begin("store", Store, p, arm, hint, replace)
BeginRegister ==
    \E hint \in Mode \union {"none"}, replace \in BOOLEAN :
        Begin("register", RegisterKey, "none", "none", hint, replace)
BeginRetrieve == \E p \in Pass : Begin("retrieve", Retrieve, p, "none", "none", FALSE)
BeginDestroy == \E p \in Pass : Begin("destroy", DestroyFace, p, "none", "none", FALSE)
BeginPurgeOther ==
    \E m \in Mode : Begin("purge_other", ClearOther(m), "none", "none", m, FALSE)
BeginWipe == Begin("wipe", Wipe, "none", "none", "none", FALSE)
BeginInitialize == Begin("initialize", Initialize, "none", "none", "none", FALSE)

At(do) == op.todo # <<>> /\ Head(op.todo).do = do
Rest == Tail(op.todo)
Refused == [op EXCEPT !.todo = <<>>, !.result = "refused"]
Registry == <<reg, torn, snap>>

(* What the gate may answer whenever it is asked: the object of an entry   *)
(* that has one, or no object.                                             *)
Sight == bound \union {"none"}

Look ==
    /\ At("look")
    /\ \E seen \in Sight :
          op' = IF seen = "none" THEN Refused
                ELSE [op EXCEPT !.todo = Rest, !.first = seen]
    /\ UNCHANGED <<content, Registry, bound>>

(* _destroy_face reads the match a second time and goes by that one. *)
LookAgain ==
    /\ At("again")
    /\ \E seen \in Sight :
          op' = IF seen = "none" THEN Refused
                ELSE [op EXCEPT !.todo = Rest, !.mode = seen]
    /\ UNCHANGED <<content, Registry, bound>>

(* resolve_web_vessel *)
Target ==
    /\ At("target")
    /\ op' = [op EXCEPT !.vessel = WebVessel, !.todo = Rest]
    /\ UNCHANGED <<content, Registry, bound>>

(* _reset_faces; without a Vessel there is no record to touch. *)
Reset ==
    LET s == Head(op.todo)
        faces == IF WebVessel = Legacy THEN <<>>
                 ELSE IF s.mode = "none" THEN <<Touch(Modes[1], s.set), Touch(Modes[2], s.set)>>
                 ELSE <<Touch(s.mode, s.set)>>
    IN  /\ At("reset")
        /\ op' = [op EXCEPT !.vessel = WebVessel, !.todo = faces \o Rest]
        /\ UNCHANGED <<content, Registry, bound>>

FindContainer ==
    /\ At("container")
    /\ op' = [op EXCEPT !.at = WebContainer, !.todo = Rest]
    /\ UNCHANGED <<content, Registry, bound>>

(* Choosing the entry *)

FirstUnbound == IF Modes[1] \notin bound THEN Modes[1]
                ELSE IF Modes[2] \notin bound THEN Modes[2] ELSE "none"

(* _select_entry_for_store: the entry, and whether its object is captured. *)
SelectedEntry(seen) ==
    IF op.hint # "none"
    THEN IF op.hint \notin bound \/ op.replace \/ seen = op.hint THEN op.hint ELSE "none"
    ELSE IF seen # "none" THEN seen ELSE FirstUnbound
Captures(seen) ==
    op.replace \/ IF op.hint # "none" THEN op.hint \notin bound ELSE seen = "none"

Select ==
    /\ At("select")
    /\ \E seen \in Sight :
          op' = IF SelectedEntry(seen) = "none" THEN Refused
                ELSE [op EXCEPT !.mode = SelectedEntry(seen), !.first = seen,
                                !.todo = IF Captures(seen) THEN Rest ELSE Tail(Rest)]
    /\ UNCHANGED <<content, Registry, bound>>

(* _register_key *)
PickedEntry(seen) ==
    IF op.hint # "none" THEN IF op.hint \in bound /\ ~op.replace THEN "none" ELSE op.hint
    ELSE IF seen # "none" THEN seen ELSE FirstUnbound

Pick ==
    /\ At("pick")
    /\ \E seen \in Sight :
          op' = IF PickedEntry(seen) = "none" THEN Refused
                ELSE [op EXCEPT !.mode = PickedEntry(seen), !.first = seen, !.todo = Rest]
    /\ UNCHANGED <<content, Registry, bound>>

(* _capture_entry_binding and _image_entry_binding *)
Capture ==
    /\ At("capture")
    /\ \/ op' = [op EXCEPT !.todo = Rest] /\ bound' = bound \union {op.mode}
       \/ op' = Refused /\ UNCHANGED bound
    /\ UNCHANGED <<content, Registry>>

-----------------------------------------------------------------------------
(* Faces *)

Record(v) == IF v \in DOMAIN reg THEN reg[v] ELSE FreshRecord
Credentialed(v, m) == v \in exists /\ Record(v).face[m].creds = "set"

(* retrieve_payload for each mode: only the one whose object was matched   *)
(* can open.  What the pre-Vessel container gives to its destroy           *)
(* passphrase is not handed back: that entry is cleared.                   *)
Open ==
    LET m == op.first
        s == content[op.vessel][m]
        vesselOpens == Credentialed(op.vessel, m) /\ s.open = op.pass
    IN  /\ At("open")
        /\ \/ /\ op.vessel # Legacy /\ vesselOpens
              /\ op' = [op EXCEPT !.mode = m, !.files = s.files, !.result = "opened",
                                  !.used = {op.vessel},
                                  !.todo = <<Touch(m, "count")>> \o MaybeAutoPurge(m)]
           \/ /\ op.vessel # Legacy /\ ~vesselOpens
              /\ op' = [op EXCEPT !.result = "refused", !.todo = <<Do("verify")>>]
           \/ /\ op.vessel = Legacy /\ s.open = op.pass
              /\ op' = [op EXCEPT !.mode = m, !.result = "opened", !.used = {Legacy},
                                  !.todo = MaybeAutoPurge(m)]
           \/ /\ op.vessel = Legacy /\ s.open # op.pass /\ s.destroy = op.pass
              /\ op' = [op EXCEPT !.mode = m, !.result = "refused", !.used = {Legacy},
                                  !.todo = ClearAccessed(m)]
           \/ /\ op.vessel = Legacy /\ op.pass \notin {s.open, s.destroy}
              /\ op' = Refused
        /\ UNCHANGED <<content, Registry, bound>>

(* Mutant: only the second answer of the camera counts. *)
Presented_Latest(seen) == {seen} \ {"none"}

(* The entry whose object is in view: _destroyed_by_password compares two  *)
(* answers of the camera, _require_bound_object the last with the entry.   *)
Presented(seen) ==
    IF op.kind = "retrieve" THEN {op.first} \intersect {seen} ELSE {op.mode} \intersect {seen}

(* VesselWorkflowService.destroy_face, up to its first change *)
Verify ==
    /\ At("verify")
    /\ \E seen \in Sight :
          op' = IF op.vessel # Legacy /\ \E m \in Presented(seen) :
                      /\ Credentialed(op.vessel, m)
                      /\ Record(op.vessel).face[m].destroy = op.pass
                THEN [op EXCEPT !.at = op.vessel,
                         !.todo = <<Step("purge", seen, "none"), Touch(seen, "fresh")>>]
                ELSE Refused
    /\ UNCHANGED <<content, Registry, bound>>

Purge ==
    /\ At("purge")
    /\ content' = [content EXCEPT ![op.at][Head(op.todo).mode] = EmptySlot]
    /\ op' = [op EXCEPT !.cleared = @ \union {<<op.at, Head(op.todo).mode>>},
                        !.used = @ \union {op.at}, !.todo = Rest]
    /\ UNCHANGED <<Registry, bound>>

(* silent_brick and format_container replace the access key that every     *)
(* container's slots are derived from.                                     *)
WipeContainer ==
    /\ At("brick") \/ At("format")
    /\ content' = [c \in Container |-> NoContent]
    /\ op' = [op EXCEPT !.cleared = {op.at} \X Mode, !.used = @ \union {op.at},
                        !.todo = Rest]
    /\ UNCHANGED <<Registry, bound>>

Unbind ==
    /\ At("unbind")
    /\ bound' = {}
    /\ op' = [op EXCEPT !.todo = Rest]
    /\ UNCHANGED <<content, Registry>>

(* add_payload: what the Face holds, then the steps that change it. *)
Read ==
    LET s == content[op.vessel][op.mode]
    IN  /\ At("read")
        /\ \/ /\ op.vessel = Legacy
              /\ op' = [op EXCEPT !.todo = <<>>, !.result = "stored"]
              /\ content' = [content EXCEPT ![Legacy][op.mode] =
                    [open |-> op.pass, destroy |-> op.arm, files |-> {"upload"}]]
           \/ /\ op.vessel \in exists
              /\ s.open = op.pass \/ ~Credentialed(op.vessel, op.mode)
              /\ op' = [op EXCEPT !.files = IF s.open = op.pass THEN s.files ELSE {},
                                  !.used = {op.vessel}, !.todo = StoreInto(op.mode, op.arm)]
              /\ UNCHANGED content
           \/ /\ op.vessel # Legacy
              /\ op.vessel \in exists => s.open # op.pass /\ Credentialed(op.vessel, op.mode)
              /\ op' = Refused
              /\ UNCHANGED content
        /\ UNCHANGED <<Registry, bound>>

Write ==
    /\ At("write")
    /\ IF op.vessel \in exists
       THEN /\ content' = [content EXCEPT ![op.vessel][op.mode] =
                  [open |-> op.pass,
                   destroy |-> IF op.arm = "none" THEN @.destroy ELSE op.arm,
                   files |-> op.files \union {"upload"}]]
            /\ op' = [op EXCEPT !.files = @ \union {"upload"}, !.result = "stored",
                                !.todo = Rest]
       ELSE UNCHANGED content /\ op' = Refused
    /\ UNCHANGED <<Registry, bound>>

-----------------------------------------------------------------------------
(* The two rounds of update_face_access: each loads the registry and saves *)
(* it whole; what the first finds of the Face is changed and written by    *)
(* the second.                                                             *)

Load ==
    /\ At("touch") /\ op.round \in {0, 2}
    /\ op' = [op EXCEPT !.round = @ + 1]
    /\ snap' = reg /\ torn' = TRUE
    /\ UNCHANGED <<content, reg, bound>>

Save ==
    LET r == WithVessel(snap, op.vessel)
    IN  /\ At("touch") /\ op.round = 1
        /\ reg' = r
        /\ op' = [op EXCEPT !.face = r[op.vessel].face, !.round = 2]
        /\ snap' = Empty /\ torn' = FALSE
        /\ UNCHANGED <<content, bound>>

Resave ==
    LET s == Head(op.todo)
        f == Touched(op.face[s.mode], s.set, Cardinality(op.files), op.arm)
    IN  /\ At("touch") /\ op.round = 3
        /\ reg' = [WithVessel(snap, op.vessel) EXCEPT
                        ![op.vessel].face = [op.face EXCEPT ![s.mode] = f]]
        /\ op' = [op EXCEPT !.face = FreshFaces, !.round = 0, !.todo = Rest,
                            !.used = @ \union {op.vessel}]
        /\ snap' = Empty /\ torn' = FALSE
        /\ UNCHANGED <<content, bound>>

Body ==
    /\ \/ Look \/ LookAgain \/ Target \/ Reset \/ FindContainer \/ Select \/ Pick \/ Capture
       \/ Open \/ Verify \/ Purge \/ WipeContainer \/ Unbind \/ Read \/ Write
       \/ Load \/ Save \/ Resave
    /\ UNCHANGED <<policy, exists, console, done, history>>

-----------------------------------------------------------------------------
(* The console, between two steps of the body: each operation loads and    *)
(* saves the registry itself.  What it loads while the WebUI is writing is *)
(* the old registry, none at all (the index is cut) or one whose Faces     *)
(* have no detail (the sidecar is cut).                                    *)

Blank(r) == [v \in DOMAIN r |-> [r[v] EXCEPT !.face = FreshFaces]]
Loads == IF torn THEN {reg, Empty, Blank(reg)} ELSE {reg}

(* The WebUI's Vessel becomes another one, in the registry or in the copy  *)
(* of it that the body is about to write back.                             *)
Moves ==
    \/ MostRecent(reg', exists') # WebVessel
    \/ MostRecent(snap, exists') # MostRecent(snap, exists)

Console ==
    /\ console < MaxConsole
    /\ console' = console + 1
    /\ op' = IF op.todo = <<>> THEN Idle ELSE op
    /\ disturbed' = (op.todo # <<>>)
    /\ moved' = (op.todo # <<>> /\ (moved \/ Moves))
    /\ UNCHANGED <<policy, torn, snap, bound, done>>

ConsoleOpen(v) ==
    /\ v \in exists
    /\ \E r \in Loads, now \in 1..MaxOpened :
        /\ \A u \in DOMAIN r : r[u].opened <= now
        /\ reg' = [WithVessel(r, v) EXCEPT ![v].opened = now]
    /\ UNCHANGED <<exists, content>>
    /\ Console

ConsoleStore(v, m, p) ==
    /\ v \in exists
    /\ \E r \in Loads :
        /\ content[v][m].open = p \/ WithVessel(r, v)[v].face[m].creds = "none"
        /\ content' = [content EXCEPT ![v][m] =
              [open |-> p, destroy |-> @.destroy,
               files |-> {"earlier"} \union (IF @.open = p THEN @.files ELSE {})]]
        /\ reg' = [WithVessel(r, v) EXCEPT ![v].face[m] =
              [@ EXCEPT !.count = Cardinality(content'[v][m].files), !.creds = "set"]]
    /\ UNCHANGED exists
    /\ Console

ConsoleDestroy(v, m) ==
    /\ Credentialed(v, m) /\ Record(v).face[m].destroy # "none"
    /\ content' = [content EXCEPT ![v][m] = EmptySlot]
    /\ \E r \in Loads : reg' = [WithVessel(r, v) EXCEPT ![v].face[m] = FreshFace]
    /\ UNCHANGED exists
    /\ Console

ConsoleCreate(v) ==
    /\ v \notin exists
    /\ exists' = exists \union {v}
    /\ content' = [c \in Container |-> NoContent]
    /\ \E r \in Loads : reg' = WithVessel(r, v)
    /\ Console

ConsoleDelete(v) ==
    /\ v \in exists
    /\ exists' = exists \ {v}
    /\ content' = [c \in Container |-> NoContent]
    /\ \E r \in Loads : reg' = [u \in DOMAIN r \ {v} |-> r[u]]
    /\ Console

Next ==
    \/ BeginStore \/ BeginRegister \/ BeginRetrieve \/ BeginDestroy \/ BeginPurgeOther
    \/ BeginWipe \/ BeginInitialize
    \/ Body
    \/ \E v \in Vessel :
          \/ ConsoleOpen(v) \/ ConsoleCreate(v) \/ ConsoleDelete(v)
          \/ \E m \in Mode : ConsoleDestroy(v, m) \/ \E p \in Pass : ConsoleStore(v, m, p)

Spec == Init /\ [][Next]_vars

-----------------------------------------------------------------------------
(* Properties *)

Slot == [open : Pass \union {"none"}, destroy : Pass \union {"none"}, files : SUBSET File]
FaceDetail == [count : Nat, creds : {"none", "set"}, destroy : Pass \union {"none"}]
FaceDetails == [Mode -> FaceDetail]
Registered == [opened : 0..MaxOpened, face : FaceDetails]
IsRegistry(r) == DOMAIN r \subseteq Vessel /\ r \in [DOMAIN r -> Registered]

StepType ==
    [do : {"look", "again", "target", "reset", "container", "select", "pick", "capture",
           "open", "verify", "purge", "brick", "format", "unbind", "read", "write", "touch"},
     mode : Mode \union {"none"},
     set : Resets \union {"count", "creds", "armed", "none"}]
BodyType ==
    [kind : {"idle", "store", "register", "retrieve", "destroy", "purge_other", "wipe", "initialize"},
     todo : Seq(StepType), pass : Pass \union {"none"}, arm : Pass \union {"none"},
     hint : Mode \union {"none"}, replace : BOOLEAN, vessel : Container, at : Container,
     mode : Mode \union {"none"}, first : Mode \union {"none"}, files : SUBSET File,
     round : 0..3, face : FaceDetails,
     result : {"none", "opened", "stored", "refused"},
     cleared : SUBSET (Container \X Mode), used : SUBSET Container]

(* Every variable keeps its type. *)
TypeOK ==
    /\ policy \in Policy /\ exists \subseteq Vessel /\ torn \in BOOLEAN
    /\ content \in [Container -> [Mode -> Slot]]
    /\ IsRegistry(reg) /\ IsRegistry(snap)
    /\ bound \subseteq Mode
    /\ op \in BodyType
    /\ console \in Nat /\ done \in Nat
    /\ disturbed \in BOOLEAN /\ moved \in BOOLEAN

Finished == op.todo = <<>>

(* web_target_service.py 64-70: "Purge, clear and re-initialise have to    *)
(* reach the same container that store and retrieve use."  Every container *)
(* one body reads, fills, clears or corrects the records of is the same,   *)
(* unless the console changed meanwhile which one that is, in the registry *)
(* or in the copy the body writes back.                                    *)
SameContainer == Finished /\ ~moved => Cardinality(op.used) <= 1

(* web_target_service.py 81-111: what a body cleared is also forgotten by  *)
(* the registry - the file count, and after a wipe the credentials too -   *)
(* unless the console did something meanwhile.                             *)
ClearedForgotten ==
    Finished /\ ~disturbed =>
        \A c \in DOMAIN reg, m \in Mode : <<c, m>> \in op.cleared =>
            /\ reg[c].face[m].count = 0
            /\ op.kind \in {"wipe", "initialize", "destroy"} => reg[c].face[m] = FreshFace

(* A retrieval that opens an entry clears at most the other one, and a     *)
(* destroy passphrase ends only the entry whose object was in view when    *)
(* the request looked (web_server.py 1418-1431), whatever the camera and   *)
(* the console do in between.                                              *)
ClearsOnlyPresented ==
    \A c \in Container, m \in Mode : <<c, m>> \in op.cleared =>
        /\ op.kind = "retrieve" => IF op.result = "opened" THEN m # op.first ELSE m = op.first
        /\ op.kind = "destroy" => m = op.mode

(* add_payload over three rewrites of the registry: a store the WebUI      *)
(* reports as done opens with its passphrase, holds the files that were    *)
(* there, is counted, and its destroy passphrase is armed - unless the     *)
(* console did something meanwhile.                                        *)
StoreKept ==
    Finished /\ ~disturbed /\ op.result = "stored" /\ op.vessel # Legacy =>
        LET s == content[op.vessel][op.mode]
            f == reg[op.vessel].face[op.mode]
        IN  /\ s.open = op.pass /\ s.files = op.files /\ "upload" \in s.files
            /\ f.creds = "set" /\ f.count = Cardinality(s.files)
            /\ op.arm # "none" => f.destroy = op.arm
=============================================================================
