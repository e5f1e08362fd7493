# Phasmid: specifications, model checking and proofs

Phasmid keeps an operator's files in *Vessels*: containers with two *Faces*, each
opened by its own passphrase together with a physical object held before a
camera. A second passphrase per Face destroys it. This directory holds TLA+
specifications of the parts of the program whose correctness depends on order:
of durable steps, of threads, of processes, of time. TLC checks them on small
instances and TLAPS proves the main invariants for every instance.

Paths below are relative to `src/phasmid/` unless they name a directory of the
repository.

## 1. Inventory

| Part | State it keeps | Operations | Hard because | What makes it correct | Modules |
|---|---|---|---|---|---|
| Vault, layout, key engine, record cipher (`vault_core.py`, `container_layout.py`, `kdf_engine.py`, `record_cypher.py`) | a container of four slots, the device-wide access key | store, retrieve, purge a Face, brick, rotate the key, format | in-place writes, power loss between and inside them, one key for all containers | what is destroyed never opens again; what is stored opens | `VesselStore`, `ContainerLayout`, `SlotStore` |
| Vessel workflow (`services/vessel_workflow_service.py`) | none of its own | create, open, close, add, remove, retrieve, list, filler, destroy, delete | each operation is several durable steps over three files | an acknowledged file is readable; an acknowledged destroy passphrase works | `VesselStore`, `FaceFiles` |
| Vessel registry and sealed sidecar (`services/vessel_service.py`, `services/vessel_registry_seal.py`) | cleartext index, sealed Face detail | register, unregister, update a Face | two files per save, truncated in place; rounds of two processes | detail follows content; nothing outlives a wipe | `VesselStore`, `WebTarget` |
| Object-cue gate (`ai_gate.py`, `camera_frame_source.py`, `object_gate*.py`, `object_cue_matcher.py`) | match history, answer, scene, camera, consumer count, matcher thread | frame loop, capture, bind, clear, start, close | several threads, little of it locked; a camera others use | a match was earned; the answer is about the present reference; the camera is let go | `CueGate`, `CueSession` |
| Cue reference store (`object_cue_store.py`) | one encrypted file, a copy in each process | load, save | cached copies, in-place rewrite | one object, one entry; the last writer's copy is the file | `CueStore` |
| Dual approval (`approval_flow.py`, `roles.py`) | pending requests, grants | request, grant, consume, status | two lifetimes, a clock read several times in a call | an approval is used once, for its action, in time | `ApprovalFlow` |
| WebUI server (`web_server.py`, `restricted_actions.py`, `capabilities.py`) | sessions, confirmations, device lock | routes | checks on arrival, bodies later in a threadpool | no session exceeds what its client was told; one body at the device | `WebSession` |
| Access tokens (`services/access_token_service.py`) | token file | issue, revoke, verify | console writes, WebUI reads | a revoked token ends | `WebSession` |
| Web target (`services/web_target_service.py`) | none; looked up in the registry each time | resolve, forget | re-resolved between steps, console beside it | the container purged is the one forgotten | `WebTarget` |
| Attempt limiter and state store (`attempt_limiter.py`, `state_store.py`) | failures and lock-out, record phases | check, record, save | a copy per process, corrupt file | a lock-out is earned and stands | `AttemptLimiter`, `Retrieval` |
| Audit log (`audit.py`) | hash-chained lines, key file | append, verify | unlocked appends, torn lines | the chain goes on behind a torn line | `AuditLog`, `Retrieval` |
| Emergency daemon (`emergency_daemon.py`) | token and trigger files | watch, clear | runs beside the command that uses the container | a trigger is acted on completely, or is there for the next command | `Emergency` |
| Console, standby, WebUI control (`tui/app.py`, `standby_state.py`, `services/webui_service.py`) | server process, pid file, port, published token, timer | start, stop, time out, seal, quit | two threads without a lock; processes it did not start | sealed, what standby went for is down; inactivity ends exposure | `Console` |
| Command line (`cli.py`) | none | its commands | what it waits for, counts and records | | `Retrieval`, `Emergency`, `CueSession` |
| Object binding, profiles, other TUI screens | small records, none | | | | in part, see `PROJECT.json` |
| LUKS layer, hardening, metadata, doctor, KDF variants, guided tour | none that decides anything | | | | not modelled |

How they interact. The console (TUI), the command line and the WebUI are
*separate processes* over the same files; all Vessel operations go through the
workflow service. It asks the cue gate of its own process whether the bound
object is in view, opens the container through the vault, and records the
bookkeeping in the registry. Inside the WebUI a device lock lets one body at a
time reach the container. Each process has its own cue gate, with its own
matcher thread and its own copy of the references. A command also runs the
emergency daemon's monitor thread; the console starts, finds and stops the WebUI.

## 2. Modules

| Module | Models | Extended by |
|---|---|---|
| `ApprovalFlow` | `DualApprovalGate` | `Authorization_proofs`, `MCClearing` |
| `VesselStore` | containers, access key, registry, sidecar, references; every workflow operation as durable steps; power loss | `VesselStore_proofs`, `MCVesselStore` |
| `ContainerLayout` | one container byte by byte | `Erasure_proofs`, `MCErasure` |
| `SlotStore` | what that promises: four independent slots | used by `ContainerLayout` (`StoreSpec`) |
| `FaceFiles` | the files inside one Face: names, sizes, filler, what is handed back | `WholeFile_proofs`, `MCWholeFile` |
| `CueGate` | the frame loop, step by step | `CueGate_proofs`, `MCCueGate` |
| `CueSession` | every operation that needs the object, in console, command line and WebUI | `Authorization_proofs`, `MCCueSession` |
| `CueStore` | the reference file and the copy each process holds | `WholeFile_proofs`, `MCWholeFile` |
| `WebSession` | sessions, tokens, confirmations, route checks, device lock | `WebUI_proofs`, `MCWebUI` |
| `WebTarget` | what the WebUI's bodies do to containers, registry and references | `WebTarget_proofs`, `MCWebTarget` |
| `AttemptLimiter`, `AuditLog` | failed attempts; the chained log | `Retrieval` composes them, `Retrieval_proofs`, `MCRetrieval` |
| `Emergency` | panic monitors beside commands | `Erasure_proofs`, `MCClearing`, `MCErasure` |
| `Console` | console threads, timer, standby and the WebUI process | `WebUI_proofs`, `MCWebUI`, `MCConsole` |

Four proof modules treat two models each (`Authorization_proofs`: what an operation
must have been shown; `Erasure_proofs`: what is overwritten; `WebUI_proofs`: the
WebUI and the console that runs it; `WholeFile_proofs`: stores written whole without
a lock). The two models of a module share nothing; where a module reads both, the
names of the second's specification carry its own (`ConsoleSpec`, `EmergencySpec`,
`SessionSpec`, `FaceSpec`).

**ApprovalFlow.** `pending` and `grants` are `_pending` and `_grants`; `now` is
`time.monotonic()`, which may advance by up to `ReadGap` between two readings in
one call (`LaterReading`). Every return of `request`, `grant` and `consume` is an
action, the KeyError included (`ConsumeKeyError`). `now` stops at `MaxTime`.

**VesselStore.** `job` is the operation under way with the durable steps it has
left; a starting action (`AddPayload`, `DestroyFace`, ...) holds the checks the
operation makes first and lists its steps in the order of the code; each step
(`WriteSlot`, `EraseFace`, `DestroyAccessKeys`, `SaveRegistry(...)`, ...) is one
action. `Crash` ends the job and leaves the step it was in done, not done, or
done in part: a container blanked from the front, a key overwritten and not
removed, a sidecar newer than its index, and with `Faults` also torn slots, keys,
sidecars and indexes. A slot is noise or a record one passphrase opens. When
the access key goes, all slots become noise: a record is derived from the key of
its day and no path of the code opens it under another (Argon2id and AES-GCM are
taken as ideal). The variables in `history` only remember what was promised.
Files are stored at most once, so "this file" means one act of storing.

*Durability.* Each finished step is taken to be on the medium, in program order, when
the next begins; only the step under way is cut. The code does not see to that:
except for the records of `state_store.py` and `roles.py`, and the shredding of a
file it replaces, it never calls `fsync`, so a file system
that writes back late or out of order can lose more than the models of this
directory do (`VesselStore`, `ContainerLayout`, `CueStore`, `WebSession`,
`AuditLog`). What they show of power loss holds of a medium that keeps the order.

**ContainerLayout** and **SlotStore.** `bytes` says of each byte of the container
whether it is noise or which byte of which record written for which slot it is;
`op` is the write or erasure under way, its stretch, and how far it got. A slot is
read back (`RetrieveSlot`) if all its bytes are those of one record written for
that slot, as the authentication tag and the associated data (`mode`, role)
require. `SlotStore` knows only slots, the slots an operation may disturb, and
what these are to hold; `Store` is the refinement mapping. `VesselStore` takes
containers to behave as `SlotStore` does; its own steps are larger.

**FaceFiles.** An operation reads the namespace of a Face, changes it in memory
(`files`) and writes it whole, first the open slot and then, with a restricted
passphrase, the destroy slot, in which one byte less fits; then it touches the
registry. `FillerSizes` and `Filled` are the generator, byte counts included;
`Later` is `_store_order`. `stored` remembers what each store and removal that was
written *asked for*, its own file (`ask`), not what it wrote; so an operation that
loses another file on the way shows. Two processes overlap, an operation may end
between its slots, and the wall clock may be set back (there is none with a
battery).

**CueGate.** The locked sections of the code are single actions; the unlocked
`_update_match_result` is five: append, slice, store back, count (one mode at a
time), publish. A frame is the set of objects it shows; a missed detection is a
frame that does not show the object. `earned` remembers how many frames matched
each mode since its reference was set. `local` and `pc` are each thread's own.
Both kinds of thread, the matcher and the viewers of `/video_feed`, run the same
generator; a viewer may leave, or stop reading, where it yields.

**CueSession.** An update of the answer is a matcher's four steps: it takes the
frame and a copy of the references and matches outside the lock (`read`), appends
to the history (`append`), stores it back (`store`) and publishes the answer
(`publish`); each may find the references replaced or cleared meanwhile. How two
updates interleave in the history is `CueGate`'s. `start()` and `close()` are taken
apart, since console workers run them at once: `thread` is `_thread`, a `join` may
wait for a matcher another worker made. An operation is the list of steps its
surface makes (`Program`): start, wait for a frame, wait for a match, capture the
scene, the object, commit, read the answer, close. `seen` remembers the entries
whose present reference has matched, `carried` those whose former one had matched
in an update that was under way when it was replaced or cleared. Processes begin
and end one after another. A verdict combines ORB and the experimental model
(`Verdict`); a failed camera is not tried again for two seconds (`RetryDue`) while
a rival may hold it.

**CueStore.** A save is open (which truncates), write, commit to memory; it may
fail or its process may end at each. Two processes writing at once may leave a
mixture, which authenticates as neither and reads like no file. "Looks alike" is
"is the same object".

**WebSession.** `Routes` is the table of routes with the dependencies FastAPI
tests on arrival (`Admit`), whether the body tests again (`BodyAllows`), and
whether it takes the device lock (`req`, `holder`) or runs on the event loop.
`page` and `confirmed` count down. The console issues and revokes role tokens in
between: `issued` is what the token file says, a save truncates it (`Truncate`),
writes it (`Written`), or dies in between (`ConsoleDies`) and leaves it empty. The
WebUI process restarts. `bare` counts down from a full lifetime once the file
names a role again.

**WebTarget.** `op` is the one body that holds the device lock: the steps it has
left, among them a lookup of the Vessel for every helper that does one (`Reset`,
which is `_reset_faces`, finds out only then which Faces to touch), slot writes,
and corrections of the registry. Each correction is two rounds of load and save
(`round`): the registry is loaded whole into `snap` and written back, first with
the Vessel added, then with what the first round computed for its Faces. Between
any two steps the console opens, creates, deletes, stores or destroys;
`disturbed` remembers that it did during this body, `moved` that this changed
which Vessel is the WebUI's, on disk or in the body's `snap`.

**AttemptLimiter, AuditLog, Retrieval.** `memory` is each command's copy of the
counts, `record` the file. An event of the log is three steps (key, end of the
chain, append), each of which a crash may follow or tear; a torn line takes in
the next record. `Rejected` is the set of lines verification reports. `Retrieval`
runs the limiter's and the log's steps in the order `cli.py` does.

**Emergency.** `mon` is each monitor thread (read the token, look, destroy the
key, overwrite slot by slot, remove the trigger, exit), `main` the command beside
it, which reads a Face, derives a key and writes the Face back. A trigger is
placed in two steps (`Place`, `Fill`), so a monitor may read it `Cut`. A text that
is not the token is discarded (`LookElse`, then `Discard`, before which the file
may have changed); one that is no UTF-8 or not ASCII (`Garbled`) raises outside
every handler and ends the monitor's thread, while the trigger and the command
stay (`LookRaises`).

**Console.** `at` is where the console's thread and the timer's thread stand in
`start()`, `stop()` and the waits; servers are processes that bind, publish the
token, hang, crash or ignore SIGTERM, started by this console, by another or by
hand. Standby is three steps (`TriggerStandby` seals, `StandbyAsks` is
`is_running`, `StandbyStops` chooses and signals), with the timer's thread between
them. `beyond` remembers the servers standby did not go for: those that lived when
it asked or chose and were not its choice, and those started by hand later.

## 3. Runs

A run marked *fails* checks a sentence the repository says of itself and the code
does not keep; section 6 quotes it (and `PROJECT.json` under "findings"). Four runs
check two models that share no state side by side: in `MCClearing`, `MCErasure`,
`MCWholeFile` and `MCWebUI` one moves only while the other is in an initial state, so
the states checked are those of the one and those of the other.

| Run | Question | Instance and bounds |
|---|---|---|
| `clearing` | `ApprovalFlow`: is an approval used once, for its own action, in time? | 2 listed actions, 1 unlisted, 2 nonces, limits 3 and 1, clock to 6, the clock may move by 1 inside a call |
| | `Emergency`: is a panic trigger acted on completely, kept otherwise? | 2 commands, 1 container of 2 Faces, which may be missing, 2 triggers (good, wrong, garbled or cut), keys that resist |
| `vessel` | after any operations with power loss and torn writes: are acknowledged files readable, acknowledged destroy passphrases working, wiped Vessels without credentials, and does destroyed stay destroyed? | 1 Vessel, 2 passphrases, 2 files which may not both fit, all faults |
| `vessel_registry` (fails) | does registering a path restore the detail sealed for it? | 1 Vessel, power loss that may tear the index |
| `erasure` | `ContainerLayout`: are the four slots independent, whatever is written and wherever power is lost? | a container of 9 bytes, frames of 1 byte, 2 records |
| | `Emergency`: does a trigger end a command whose monitor runs? | 1 command, 1 container, 3 triggers, 2 starts |
| `cue_gate` | are matches earned, is the camera let go, is the object in view noticed? | matcher and 1 viewer, 1 mode, 1 object, history of 2, both required |
| `cue_session` | is the answer that opens the secret Face, or confirms a binding, vouched for by its reference; does the camera come? | command line and WebUI, 2 workers, 2 objects, 1 entry bound in a run |
| `cue_session_console` | do the operations of two workers that share one gate end? | 2 workers, 2 objects, a reference of the secret entry or none |
| `whole_files` | `CueStore`: do file and copies stay sound under two processes and crashes? | 2 processes, 2 entries, 3 objects |
| | `FaceFiles`: do the operator's files survive filler; is the last one handed back; does a failed operation leave the Face alone? | 2 processes, 2 names (one is also a filler name), 2 sizes (one fills the slot to the byte), 3 operations, 2 seconds |
| `webui` | `WebSession`: does any session exceed what its client was told, or outlive its token; is a body that tests a session refused to a client that left; does one body run at a time? | 2 remote clients, 3 deployments: one asked for the token rotation, one for the session reset, one for three routes whose bodies test and one whose does not; lifetimes 2 and 1 |
| | `Console`: does a sealed console leave nothing serving that it went for, does a stop take the right token, does inactivity end the exposure? | 2 servers, 2 keys, 2 launches |
| `console_standby` (fails) | where lsof can tell, does standby leave nobody listening? | 2 servers, no key, 1 launch |
| `web_target` | do the steps of a body agree on the container, and does the registry follow? | 2 Vessels and the fallback, 2 passphrases, 1 body, 1 console operation at any step |
| `retrieval` | is a lock-out earned and does it stand; does the chain heal? | 2 commands and the WebUI, 2 failures, lock-out of 1 tick, 2 events |

*Why the bounds are enough.* An approval involves one request, one grant and one
use; two nonces and two actions let every pair be confused, and the clock passes
both limits twice. One Vessel has every durable file, and the steps of one job
touch only its own container and the shared key and registry; what holds across
Vessels is proved for any number (section 5). Two files let a Face hold one while
the other is stored, and a store of as many as may fit is also refused. Nine
bytes make both Faces, and the slots of one Face, of different lengths; one
record fits every slot, the other only some, and one slot only in the open role;
the proof is for every size. The match history of two frames out of two keeps
what 3 of 5 does to the interleavings, and is the smallest at which one frame is
not a match; one mode makes "ambiguous" unreachable in `CueGate`, and
`CueSession` has both. In `cue_session` a binding concerns one entry against a
reference of the other that another process left; two console workers are what
leaving a screen and opening another gives. Two processes are what the device
runs. A body of the WebUI runs alone under its lock, so one body suffices, and
one console operation between any two of its steps suffices to show what the
properties except. Two failures make a count that one command's save can undo.
One server may be another's successor. Two triggers let a wrong or half written one
be followed by a good one; one that ends a monitor and another after it need only the
one command of `erasure`, which may be started twice. In `webui` both browsers are away
from the device, one with the recover token and one with the store token; a
browser on the device itself needs no session, and only the theorems cover it. What
the device lock orders does not depend on who told whom a token, so its routes are
asked of one deployment.

*Views and symmetry.* Passphrases, files, nonces, processes and objects are
interchangeable where a cfg says so. `StoreView` leaves out what no guard and no
property of the run reads: some history variables, which passphrase opens a
restricted slot, and whether it is noise unless its files are struck. Runs with
liveness use neither.

*Deadlock* is checked except where the bounds or the system itself end: consoles
launched, operations begun, bodies, events and starts are bounded, and in
`cue_session` a process may stay between operations. A model checked beside such a
one is not checked for it either.

*Exceptions the properties make.* Each is something the code does and does not
prevent; section 6 says what happens in it. For two of them (`vessel_registry`,
`console_standby`) a failing run shows it.

| Property | Says nothing of |
|---|---|
| `AckedReadable` | files of a Vessel when *any* Vessel is created, destroyed, deleted, bricked or initialized (they share one key); a slot whose own overwrite is torn; every Vessel's files once power loss tears the sidecar or the index (`vessel_registry`) |
| `DestroyArmed` | the same torn registry; every Face once any Vessel is created or initialized, which clears the cues |
| `StoreSpec` | a slot that an overwrite cut off has not reached |
| `StoredSurvives` | the Face once two operations overlapped on it or one ended between its two slots (`disturbed`) |
| `HandsBackLast` | the time after the clock was set back (`turnedBack`) |
| `FailsWhole` | the one byte between the two slots at the exact capacity; that filler the generator accepts may not fit is not excluded |
| `MatchEarned` | entries an update under way brings back after a reset: they count as earned |
| `SecretEarned`, `BindingChecked` | an answer an update under way at the reset publishes after it (`carried`); how long ago the match was, so that the answer of a stopped matcher passes |
| `CameraComes` | a camera the rival keeps coming back to |
| `ClearedWhenAlone` | a clear beside which another process ran (`crowded`) |
| `NoEscalation` | sessions opened by the shared token while the file names no role - none issued, the last revoked, or the file being rewritten or left empty - and one lifetime after (`bare`) |
| `NotAfterLeaving` | bodies that test no session under the lock: a store, a retrieval with what its destroy passphrase clears, `destroy_face`; they run although the client left |
| `SameContainer` | bodies during which the console changed which Vessel is the WebUI's (`moved`) |
| `ClearedForgotten`, `StoreKept` | bodies during which the console did anything (`disturbed`): they check the rounds of one body against each other |
| `LockoutEarned`, `LockoutStands` | the time after one command saved over another's count (`lostUpdate`), and a corrupt record, from which nothing counts |
| `ChainHeals` | logs in which two events were written at once (`overlapped`) |
| `ClearedOrRetried` | what a command read before a clear and writes back around it (`carried`); a key that resists while the trigger has been removed by another monitor, having used it up on its own container or misjudged it (`found`) |
| `TriggerKept` | a good trigger removed by a monitor that read the file before it held it, or that compared with a token since replaced (`Misjudges`) |
| `TriggerEndsCommand` | a command whose monitor a garbled trigger has ended |
| `SealedServesNothing` | every server standby did not go for (`beyond`): one behind a pid file that names another process or a dead one, though lsof would tell it (`console_standby`); one in the pid file that does not listen yet; one lsof does not tell; one started by hand since |
| `TokenTells`, `InactivityEnds` | everything after a server was started by hand or beside a stop, or a console was cut off in a start or a stop (`disturbed`); a server started by hand arms no timer |

## 4. Fairness

*CueGate.* The operating system runs every thread, so a thread inside
`_update_match_result` or `_finish_camera_consumer` goes on (weak fairness of
`Update` and `Finish`), the matcher loops (`Loop(Matcher)`), a viewer that reads a
frame finishes reading it, and `close` goes on once its join can return. Nothing
is assumed of a viewer at its yield (the browser may stop reading), nor that
anybody starts, closes, binds or connects. `Presented` and `Withdrawn` say "if
from some time on the object is (not) in view, the camera delivers and references
no longer change, then from some time on the answer is right". They also assume
that viewers are not inside an update: two updates that keep overtaking each
other can drop every new entry forever.

*CueSession.* Each matcher and each worker goes on while it has a step that can
be done, and two seconds pass. A prompt waits for its operator; nothing is
assumed of the camera's frames or of the rival. `OpEnds`: an operation ends or
waits at a prompt. `CameraComes`: a matcher that looks on, once the rival is gone
for good, gets the camera.

*Emergency.* Each monitor thread goes on (weak fairness of `Monitor`: it polls once
a second and its file operations end); nothing is assumed of the command's main
thread, of the operator, or that a trigger is ever placed. A monitor that died of
a garbled trigger has no step left, so fairness does not revive it.
*Console.* The timer's thread goes on, and a wait with a time limit ends; nothing
is assumed of the operator or of a server, which may ignore SIGTERM.

## 5. Proofs

| Theorem | Says, for every value of the constants |
|---|---|
| `Authorization_proofs!TypeCorrect`, `SingleUseHolds`, `ConsumeCoveredHolds` | an approval is used once; each use is covered by a grant for that action |
| `VesselStore_proofs!TypeCorrect`, `GoneStaysGoneHolds`, `BrickLeavesNothingHolds` | destroyed files are in no readable slot; a bricked container, however little was overwritten, opens to nothing |
| `VesselStore_proofs!AckedReadableHolds`, `DestroyArmedHolds`, `WipeEndsCredentialsHolds` | what a store acknowledged can be retrieved, and a Face's acknowledged destroy passphrase works, until one of the events section 3 lists (a command given to another Vessel and a torn registry are among them); a completed wipe leaves no credentials |
| `Erasure_proofs!TypeCorrect`, `ImplementsStore` | no write leaves the container; `Spec` implements `SlotStore` for every size and all records |
| `CueGate_proofs!TypeCorrect`, `CameraReleasedHolds`, `MatchEarnedHolds` | the last thread out lets the camera go; an answer rests on enough frames that matched since the reference was set, or came in by an update under way then |
| `WholeFile_proofs!TypeCorrect`, `DistinctObjectsHolds`, `WriterAgreesHolds`, `ClearedWhenAloneHolds` | one object, one entry, in every copy; the last writer's copy is the file; a clear with nobody beside it leaves no older binding |
| `WebUI_proofs!TypeCorrect`, `NoEscalationHolds`, `RevokedExpiresHolds`, `NotAfterLeavingHolds`, `DeviceExclusiveHolds` | no session exceeds its token, but for those opened while the token file names no role, and one lifetime after; none outlives its revocation by more than a lifetime; a body that tests a session under the lock is refused to a client that left; one body at the device |
| `WebTarget_proofs!TypeCorrect`, `SameContainerHolds`, `ClearsOnlyPresentedHolds`, `ClearedForgottenHolds`, `StoreKeptHolds` | only the presented entry is cleared, whatever the console does; the steps of a body agree on the container unless the console moves it; what was cleared is forgotten, what was stored is counted, if the console does nothing meanwhile |
| `Retrieval_proofs!TypeCorrect`, `LockoutEarnedHolds`, `LockoutStandsHolds`, `ChainHealsHolds` | a lock-out is earned by as many failures as the limit says and is not shortened, until an update is lost or the record is damaged; the chain goes on behind torn lines, if no two events overlapped |
| `WholeFile_proofs!FaceTypeCorrect`, `StoredSurvivesHolds`, `HandsBackLastHolds` | no two files of a Face share a counter; the operator's files are those its stores asked for and no removal named, if no two operations overlapped and none was cut off; the file handed back was stored last |
| `Erasure_proofs!EmergencyTypeCorrect`, `TriggerKeptHolds`, `ClearedOrRetriedHolds` | a good trigger is removed only by a monitor that has overwritten its container, or that misjudges it from an earlier reading; what a clear condemned does not open, unless it was carried around the clear, or the key resisted and the trigger is still there or was removed in one of these two ways |
| `WebUI_proofs!ConsoleTypeCorrect`, `SealedServesNothingHolds`, `TokenTellsHolds` | sealed, the server that standby went for is down and neither keys nor timer bring one up; the published token is the one of the server that serves, while undisturbed |
| `Authorization_proofs!SessionTypeCorrect`, `SecretEarnedHolds`, `BindingCheckedHolds` | the secret Face opens, and a binding is reported, only if the present reference has matched, or its predecessor in an update that was under way when it was replaced |

*ApprovalFlow.* The inductive invariant `IInv` adds to the type invariant and
`SingleUse` that a nonce names one request for ever (`NonceNamesRequest`), that
a grant's request existed, named the same action and was in time when the
supervisor answered (`GrantsVerified`), and that only requested nonces are spent.

*VesselStore.* None of the five is inductive. For the first two, `EndsInv` adds: a
file is in one Face only, also while a write is under way (`Apart`: an erased Face
must not share files with another); an operation under way is about to write
nothing destroyed (`HoldsNoneGone`); and `JobOK` on the steps it has left: one
that destroys belongs to an operation that writes no file, and the overwrite of a
container comes right after the destruction of the key, so every slot is noise
before the first byte is overwritten.

The other three are stated between operations, and `PromiseInv` carries them
through one. It ties the steps an operation has left to what it has done: its
steps are its own (`Fits`); one that takes something away gave up that promise
when it began (`GivenUp`: an operation on the one access key gives up what every
Vessel's stores were promised, since the key opens all of them); a store whose
slot is written holds its files there, and one whose passphrase is recorded has it
in the Face's record (`WriteUnderway`); a wipe that passed a Face left its record
fresh (`WipeUnderway`). A promise that stands is then kept at every step, not
only between operations (`Kept`, `Armed`, `Forgotten`), power loss included.

The assumptions used are the module's: some Vessel exists and `NoPass` is no
passphrase.

*ContainerLayout.* The layout lemmas place the four slots between five cut points
of the container (`Cuts`, `Spans`) and show that slots do not meet (`Apart`),
leave no byte over (`Covered`), and that each erasure covers whole slots
(`WholeSlots`). The invariant is `OpShape` (the stretch of an operation is one
slot of a write, or whole slots of an erasure) and `Written` (what it has passed
is as it should be). A byte then disturbs one slot, which afterwards reads as
what it is to hold or as noise, and only when the stretch is complete does the
operation report done. The sizes must be at least 4, the record overhead and the
lengths natural numbers; the code asks for 4096 bytes.

*CueStore.* `DistinctObjects` needs that the references on their way to the file
are distinct too (`JobsDistinct`); `WriterAgrees` needs `WriterHolds`: until the
last writer opens the file again, the file says what it answers from, or what its
job is about to commit; and that only running processes have jobs.
`ClearedWhenAlone` needs `SinceInv`: a clear with nobody beside it has the only
running process and leaves the file empty or torn (`ClearsAlone`), and unless a
clear was crowded every binding, in the file, in a copy or on its way, was made
since the last one (`AllSince`).

*CueGate.* `CameraReleased` follows from `CameraInv`: the count of consumers is
never above the number of threads inside the loop, so that the last one out finds
none left; the hardware is open only while a thread is inside or about to close
it. (The count may be *below* that number: `close` sets it to zero under threads
that still run.) `MatchEarned` follows from `EarnedInv`, which no overlap of the
unlocked steps breaks: in the history, and in every slice of it a thread holds,
the hits of a mode and the frames still to be appended by some thread together
are at most what was counted since the mode's reference was set. So two threads
that overwrite each other's history may lose hits but never make two of one.
Assumed: finitely many viewers, and that no mode is named "none" or "ambiguous".

*WebSession.* The token file names no role while it is being written (`Emptied`).
`NoEscalation` bounds a session that the shared token opened for a client not handed
it by `bare`, what is left of one lifetime since the file last named no role. It
needs `NothingNarrower`: while the file names none, either `bare` is a full lifetime,
or no role was ever issued, and then clients that were not handed the shared token
have nothing, neither a page nor the token a page carries. `RevokedExpires` and
`DeviceExclusive` are inductive with the types: a session and what is left of one
lifetime since the revocation age together (`AgingTogether`). `NotAfterLeaving` needs
`LeftWithNothing`: a client that left while it waited for the device has neither
session nor confirmation left, so a body that asks for one is refused.

*WebTarget.* A body is the list of steps it has left, so the invariant speaks of
that list. `PlanOK` is how the bodies lay it out, `RoundOK` that a correction half
done is the step at its head. `SameInv`: unless the console moved the WebUI's
Vessel, that is the one every step left will use, and the one a registry about to
be written back still names. `ClearsLast`: nothing but forgetting follows a step
that clears. `PresentedInv`: a step that clears is planned for the entry presented
(or, after a retrieval that opened, for the other one), and none is planned while
the camera or a passphrase still decides. `ForgetInv`: what is to be cleared, or
was, is owed a later reset or touch of the same Face, until the registry says so -
through three loads and saves of the whole registry, the last of which writes what
an earlier one computed. `StoreInv`: of a store, the plan holds exactly the
corrections still missing from the record. Assumed: finitely many Vessels, which
have an order (paths sort). The proofs hold for any number of console operations,
where the run has one.

*Retrieval.* A command acts on its own copy of the counts. `IInv` says what a copy
is worth: that of a command which loaded after the last save is the record
(`Current`); that of an admitted command has no lock-out (`AdmittedFree`); a count
that reached the limit is a lock-out, in every copy (`CountsBelow`); and unless an
update was lost the record counts what was tried (`Counted`). For the log,
`AuditInv` says that the records which parse form a chain under the present key
(`Chained`), that there is none before there is a key, and that a writer alone
goes on from where the chain still ends (`UpToDate`); a record appended to a torn
line spoils itself and leaves the chain before it, which is where the next writer
starts. Assumed: limits of at least one (`config.py` sees to it).

*FaceFiles.* The Face, and each copy of it that an operation read or is about to
write, is `Sane`: the counters of the operator's files differ and are at most the
number of operations begun; and while the clock has not gone back, a file stored
after another is later in the order of `_store_order`. That order has a last one
among finitely many files (`FiniteHasLast`, `MostRecentIs`), so what is handed back
was stored last, also when operations overlapped: `HandsBackLast` excepts the clock
only. `StoredSurvives` needs `Carries`: an operation, when nothing was written since
it read the Face, is about to write the operator's files that are there, changed as
it was asked and in nothing else; of the generator the proof uses that it takes
numbered names the operator does not have (`FilledIs`), nothing of its sizes. Assumed: finitely many names, which are
not 0 (no name), and sizes; a Face of the old format has one file.

*Emergency.* `TriggerKept` and the second half of `ClearedOrRetried` need
`TriggerInv`: a monitor that discards a trigger read something else than its own
token, so that if the trigger is good now it was changed since (`saw`) or the token
was; and while anyone clears, or after a key has resisted, the trigger is there or a
monitor has removed it, and how it did is remembered (`found`). Its first half rests on `ClearInv`: files a clear condemned and that a
Face still opens were carried around it, or the key resisted and the container is not
overwritten to the end (`WhatOpens`); the same of what a command has read, and every
command in flight while a key is gone counts as around (`WhatWasRead`); what has
been overwritten holds only what was carried (`WhatIsOverwritten`). That a command
which writes later writes nothing condemned under a key that opens needs `Fresh`:
a command that has not written has a file nobody has seen and, before it has a key,
would make one under which nothing is sealed. Assumed: at least one Face, the keys
may always yield, and no command is one of the three things a file can hold instead
of its token.

*Console.* `SealInv`: while sealed, the console's own thread only ends a stop or asks;
and once standby has chosen what to go for, every server that lives is `beyond` or
the one it is stopping. `TokenTells` needs that unless something was started by hand, beside a stop, or cut
off (`disturbed`), at most one server lives (`OneAlive`), the console has it on
record, and what both threads are about to do with it agrees (`Watched`): one comes
up only while the console's thread starts it and no timer stops anything, one goes
down only under a thread that stops it or cleans up, and a thread that stops a server
has that one as its target.

*CueSession.* An operation is the list of steps it has left, taken from its surface's
program, with steps put in front when a wait has to close the gate. `OpInv` says that
only the command line's store has a step that checks a binding and that it stands
right after the wait for a match, that an operation which has come to it has seen the
present reference of its entry match, and that the command line has one worker. `AnswerSeen`: an answer of an entry that is bound in the run is vouched
for (`Vouched`: its present reference has matched, or its former one had in an update
under way when it was replaced), and so is everything an update under way may yet
publish, wherever between reading the frame and publishing the matcher is.
`SecretEarnedHolds` assumes that "secret" is among
the entries the run may bind.

The type invariants of these twelve models are proved and not in the runs.

Model-checked only:
- liveness (`Presented`, `Withdrawn`, `OpEnds`, `CameraComes`,
  `TriggerEndsCommand`, `InactivityEnds`), which is out of the prover's reach;
- `FillerReaches`, which is about what the recursive generator computes;
- `FailsWhole`, whose one byte needs that the encoded length is an integer: a sum
  over a Face's files, the generator's among them, that is, induction over data.

## 6. Where the code and its documents disagree, and what it leaves open

Seen while modelling; each is in the models as the code has it.

*Approval.* `consume` of a fresh grant whose request has just expired raises
KeyError (`ConsumeKeyError`): the purge it makes first removes
the grant it then deletes, though `approval_flow.py:75` promises a "neutral result of
any approval-flow operation".

*Vessels.* A store with equal passphrases is refused by the vault after the second
was recorded as the Face's destroy passphrase. Creating a Vessel rotates the one
access key, and the files of the Vessels that exist can no longer be opened,
though `docs/JANUS_EIDOLON_SYSTEM.md:24` calls
each Vessel "an independent instance" and `docs/PHASMID_ARCHITECTURE.md:21` lets an
operator hold more than one; so does destroying, deleting, bricking or initializing
one. After power loss left a path out of the index, registering it again rewrites the
sidecar from defaults, and the sealed Face detail, destroy passphrase included, is
lost, which `services/vessel_service.py:358` says survives (`RegisterRestores`, run
`vessel_registry`). A slot is overwritten in place, so power loss inside a store
loses the file that was in it. `docs/SPECIFICATION.md:448` and `:461` want key
material destroyed before any overwrite, `purge_mode` included; it destroys none,
since the one key serves every Face, and power loss inside leaves the slots it had
not reached (`SlotStore!PowerLoss` allows it).

*Files of a Face.* The generator measures its filler without the length field and
the metadata of the record, so what it accepts may not fit and is refused. With
the clock set back the file handed back need not be the last. An output name is
a hint that can hand back filler. Console and WebUI operations that overlap lose
one's update.

*Cue.* `close` keeps the last answer (`web_server.py:1775` says otherwise), and the
next operation's wait returns on it before a frame is read: an operation is let
through with no matcher running, the very state
`ai_gate.py:819` describes as a bug once met. An update that has matched a frame
against a reference, and is overtaken by that reference's replacement or clearing,
publishes its answer after the reset: for a moment the old object confirms the new
binding, or opens (`carried`); likewise its entry of the history comes back. `latest_frame` is
never cleared, so a fingerprint taken without a wait may be of a stale frame,
though `services/vessel_workflow_service.py:418` says the object is held "at the
moment they ask"; the fingerprint is of the whole view. A record of source
"disabled" never passes `_require_bound_object`. A scene survives a refused
capture, though `capture_scene` calls it consumed by the next. `file add`,
filler and the console's add ask for a capture without ever having captured a
scene, so they are refused unless a fingerprint is used. A backend that opened
and then broke is not reopened before `close`. A start that races a close can
leave `_thread` naming another matcher, which the close waits for. Clearing the
references in one process does not reach the other, whose next save brings the
cleared one back, though
`docs/PHASMID_ARCHITECTURE.md:25` calls the cue store a device-wide singleton that a
Vessel's creation clears.

*Retrieval.* Two commands that overlap count one failure between them, and one kept
open since before a lock-out erases it when it saves, where
`docs/THREAT_MODEL.md:560` says that failures are counted. From a corrupt record nothing counts again. Two events that overlap break
verification for good; a crash between them leaves an empty HMAC key. The `file`
commands and the console check the lock-out and never count a failure.

*WebUI.* The token file is truncated and then written, and an empty file reads as no
role issued: while the console issues a second role or revokes one of two, and for
good if it dies there, the shared `WEB_TOKEN` opens a store session, which
`web_server.py:789` and `docs/THREAT_MODEL.md:218` exclude. A body is admitted when its request arrives and runs when the device
comes free. Some bodies test the session or the confirmation again there; a store, a
retrieval, whose destroy passphrase clears an entry, and `destroy_face` do not, and
run although the client has locked its session meanwhile.

*Web target.* Each helper of a body resolves its Vessel anew, the one opened last.
When the console opens or creates another in the middle of a body, the container
purged, bricked or formatted is one Vessel's and the bookkeeping reset another's: the
first is empty with its counts and credentials standing, the second keeps its files
and is shown without them, after a wipe also without its passphrases, so that
retrieval no longer looks into it; `services/web_target_service.py:66` says why this
must not happen. A store of which
the console wrote the registry in between may stay uncounted, or its destroy
passphrase unarmed, though the slot is written: the last save of the whole registry
wins.

*Emergency.* A trigger is removed as invalid by a monitor that read it while it was
still being written, although it is good by the time it is removed; and by one whose
copy of the token was read before the token was written (`Misjudges`); such a trigger
is lost. A trigger that is no UTF-8 or not ASCII raises outside every handler
(`emergency_daemon.py:49` and `:52`): the monitor thread ends silently, the file
stays, and that command obeys no later trigger. A command that read a Face before a
clear writes it back under a new key after it, although `emergency_daemon.py:80` ends
the process so that cleared state is not reused. `stop()` waits two seconds and cuts a
longer clear short. A trigger may be used up on another container; with a missing one
the monitor ends by an exception and the trigger stays. The registry is untouched by
the clear.

*Console.* Recovery from standby asks for no authentication, though
`standby_state.py:76` says so, and the screens below it stay on the stack. A
worker's result may appear on the standby screen. Standby asks `is_running` first,
which answers no when the pid file names a process that is gone, without looking for
a listener (`services/webui_service.py:79`); a server started by hand then serves on
behind the sealed screen, which `tui/app.py:208` says it must not (`StandbyRetracts`,
run `console_standby`). So may one that the pid file names and that does not listen
yet, when a relaunched console seals. `start()` that finds a listener
adopts it without arming the timer.

## 7. Plan

1. Done: the modules above; of the first plan, the registry's rounds are in
   `WebTarget`, attempts and log in `Retrieval`, standby in `Console`.
2. Done: theorems for every safety invariant and action property of the runs but
   `FillerReaches` and `FailsWhole`.
3. An abstract vault (a map from Face to files that a passphrase opens and one
   destroys) refined by `VesselStore`; two overlapping rounds inside one save.

*Not modelled, and why.* Image matching and key derivation (floating point and
cryptography; their verdicts are inputs), metadata parsing, the terminal and web
presentation, LUKS (external commands), diagnostics (read-only). In the modelled
parts: a `WEB_TOKEN` pinned by the environment, forms presented by clients that
have a session, rate and upload limits, and the WebUI's own attempt limiter
(`WebSession`); the per-Face fingerprint on the WebUI's path, two overlapping
saves of different lengths, and errors `_reset_faces` swallows (`WebTarget`); an
`AttributeError` when `_thread` becomes None between `close`'s test and its join,
and page loads of the WebUI that start the matcher beside a body (`CueSession`);
reuse of a pid, `Popen` that fails, and dummy disclosure (`Console`).
`PROJECT.json` lists every part with its status.
