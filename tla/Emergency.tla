----------------------------- MODULE Emergency ------------------------------
(***************************************************************************)
(* The trigger that clears the device (emergency_daemon.py) beside the     *)
(* commands that watch for it (cli.py).                                    *)
(*                                                                         *)
(* A command builds a monitor, which reads the trigger's token or makes    *)
(* it, and starts a thread that looks for the trigger file once a second.  *)
(* The main thread goes on: it waits at the camera and the prompts, reads  *)
(* a Face, derives a key, writes the Face back, stops the monitor (waiting *)
(* two seconds at most) and ends, and the thread with it.  A monitor that  *)
(* finds the token in the trigger destroys the access key, overwrites its  *)
(* own command's container from its start to its end, removes the trigger  *)
(* and ends the process; nothing stops the main thread meanwhile.          *)
(***************************************************************************)
EXTENDS Integers, Sequences, FiniteSets

CONSTANTS
    Command,      \* processes the operator runs commands in
    Vessel,       \* container paths
    Faces,        \* the Faces of a container, in the order of their slots
    Used,         \* bound: the Faces commands work on
    MaxStarts,    \* bound: commands started
    MaxTriggers,  \* bound: trigger files placed
    KeyFaults     \* may the access key resist being destroyed?

Face == {Faces[i] : i \in 1..Len(Faces)}
NoFile == "none"
Cut == "cut"        \* a file that was opened for writing and holds nothing yet
Wrong == "wrong"    \* any text that is not a token
Garbled == "garbled" \* what is no UTF-8, or not all ASCII

ASSUME BoundAssumption == MaxStarts \in Nat /\ MaxTriggers \in Nat
ASSUME FacesAssumption ==
    Faces \in Seq(Face) /\ Len(Faces) > 0 /\ KeyFaults \subseteq BOOLEAN /\ FALSE \in KeyFaults
ASSUME UsedAssumption == Used \subseteq Face
ASSUME TokenAssumption == Command \intersect {NoFile, Cut, Wrong, Garbled} = {}

VARIABLES
    exists,    \* containers on the device
    key,       \* the access key: 0 none, 1 the first, else of which command
    slot,      \* each Face's slot: the key it was sealed under, its files
    token,     \* signal.key: none, cut, or the command that wrote it
    trigger,   \* signal.trigger: none, cut, wrong, garbled or a token
    main,      \* each command's main thread
    mon,       \* each command's monitor thread
    started,   \* commands started
    placed,    \* triggers placed
    condemned, \* history: files that were there when a clear began
    carried,   \* history: files a command read and wrote back around a clear
    resisted,  \* history: a clear began and the key was not destroyed
    finished,  \* history: containers overwritten to the end by the last clear
    found      \* history: what became of the trigger a monitor found last

device == <<exists, key, slot>>
signals == <<token, trigger>>
history == <<condemned, carried, resisted, finished, found>>
emergencyVars == <<device, signals, main, mon, started, placed, history>>

NoiseSlot == [key |-> 0, files |-> {}]
Readable(v, f) == IF slot[v][f].key = key /\ key > 0 THEN slot[v][f].files ELSE {}

NoMain == [at |-> "ended", vessel |-> NoFile, face |-> NoFile, files |-> {},
           file |-> 0, key |-> 0, around |-> FALSE]
NoMonitor == [at |-> "off", token |-> NoFile, next |-> 0, saw |-> NoFile]

EmergencyInit ==
    /\ exists \in SUBSET Vessel /\ key = 1
    /\ slot = [v \in Vessel |-> [f \in Face |->
          IF v \in exists THEN [key |-> 1, files |-> {0}] ELSE NoiseSlot]]
    /\ token = NoFile /\ trigger = NoFile
    /\ main = [c \in Command |-> NoMain] /\ mon = [c \in Command |-> NoMonitor]
    /\ started = 0 /\ placed = 0
    /\ condemned = {} /\ carried = {} /\ finished = {}
    /\ resisted = FALSE /\ found = "none"

At(c, at) == main[c].at = at
Go(c, at) == main' = [main EXCEPT ![c].at = at]
Watch(c, at) == mon' = [mon EXCEPT ![c].at = at, ![c].next = 0, ![c].saw = NoFile]
Running(c) == ~At(c, "ended")

Clearing(c) == mon[c].at \in {"cleared", "keyless", "overwriting"}
InFlight(c) == main[c].at \in {"read", "derived"}

-----------------------------------------------------------------------------
(* The main thread *)

(* EmergencyDaemon.__init__: is there a token? *)
Start(c, v, f) ==
    /\ ~Running(c) /\ started < MaxStarts
    /\ started' = started + 1
    /\ main' = [main EXCEPT ![c] = [NoMain EXCEPT
          !.at = IF token = NoFile THEN "creating" ELSE "loading",
          !.vessel = v, !.face = f, !.file = started']]
    /\ UNCHANGED <<device, signals, mon, placed, history>>

(* _load_or_create_panic_token: the file is opened, then written.  A       *)
(* second command finds it cut, or opens it as well.                       *)
OpenToken(c) ==
    /\ At(c, "creating")
    /\ token' = Cut
    /\ Go(c, "filling")
    /\ UNCHANGED <<device, trigger, mon, started, placed, history>>

FillToken(c) ==
    /\ At(c, "filling")
    /\ token' = c
    /\ mon' = [mon EXCEPT ![c] = [NoMonitor EXCEPT !.at = "watch", !.token = c]]
    /\ Go(c, "prompt")
    /\ UNCHANGED <<device, trigger, started, placed, history>>

LoadToken(c) ==
    /\ At(c, "loading")
    /\ mon' = [mon EXCEPT ![c] = [NoMonitor EXCEPT !.at = "watch", !.token = token]]
    /\ Go(c, "prompt")
    /\ UNCHANGED <<device, signals, started, placed, history>>

(* _read_face_namespace: what the Face holds, if it still opens. *)
Read(c) ==
    LET m == main[c]
    IN  /\ At(c, "prompt") /\ m.vessel \in exists
        /\ main' = [main EXCEPT ![c].at = "read", ![c].files = Readable(m.vessel, m.face),
                                ![c].around = \E d \in Command : Clearing(d)]
        /\ UNCHANGED <<device, signals, mon, started, placed, history>>

(* _write_slot derives the key, and makes one if there is none. *)
Derive(c) ==
    /\ At(c, "read")
    /\ key' = IF key = 0 THEN main[c].file + 1 ELSE key
    /\ main' = [main EXCEPT ![c].at = "derived", ![c].key = key']
    /\ UNCHANGED <<exists, slot, signals, mon, started, placed, history>>

Write(c) ==
    LET m == main[c]
    IN  /\ At(c, "derived")
        /\ slot' = [slot EXCEPT ![m.vessel][m.face] =
              [key |-> m.key, files |-> m.files \union {m.file}]]
        /\ carried' = IF m.around THEN carried \union m.files \union {m.file} ELSE carried
        /\ main' = [main EXCEPT ![c] = [NoMain EXCEPT !.at = "done", !.vessel = m.vessel]]
        /\ UNCHANGED <<exists, key, signals, mon, started, placed,
                       condemned, resisted, finished, found>>

(* The command is refused, interrupted, killed, only reads, or is through: *)
(* stop() waits two seconds for the thread, which has then seen the event  *)
(* or is cut off where it stands.                                          *)
Ended(c) ==
    /\ main' = [main EXCEPT ![c] = NoMain]
    /\ mon' = [mon EXCEPT ![c] = NoMonitor]

Return(c) ==
    /\ Running(c)
    /\ Ended(c)
    /\ UNCHANGED <<device, signals, started, placed, history>>

-----------------------------------------------------------------------------
(* The monitor thread *)

(* compare_digest(supplied, panic_token) *)
Authorized(c) == trigger = mon[c].token

(* _authorized_trigger_present finds the token.                            *)
Look(c) ==
    /\ mon[c].at = "watch" /\ trigger # NoFile /\ Authorized(c)
    /\ Watch(c, "cleared")
    /\ found' = "there"
    /\ UNCHANGED <<device, signals, main, started, placed, condemned, carried, resisted, finished>>

(* Another text: the file is removed, whatever it holds by then.           *)
LookElse(c) ==
    /\ mon[c].at = "watch" /\ trigger \notin {NoFile, Garbled} /\ ~Authorized(c)
    /\ mon' = [mon EXCEPT ![c].at = "discard", ![c].saw = trigger]
    /\ UNCHANGED <<device, signals, main, started, placed, history>>

(* A text that cannot be decoded (no OSError), or that compare_digest will *)
(* not compare, raises where nothing catches it: the thread ends.          *)
LookRaises(c) ==
    /\ mon[c].at = "watch" /\ trigger = Garbled
    /\ Watch(c, "dead")
    /\ UNCHANGED <<device, signals, main, started, placed, history>>

Discard(c) ==
    /\ mon[c].at = "discard"
    /\ trigger' = NoFile
    /\ found' = IF trigger = NoFile THEN found ELSE "dismissed"
    /\ Watch(c, "watch")
    /\ UNCHANGED <<device, token, main, started, placed, condemned, carried, resisted, finished>>

(* destroy_access_keys: an error on the way is swallowed. *)
DestroyAccessKeys(c) ==
    /\ mon[c].at = "cleared"
    /\ \E stays \in KeyFaults :
          /\ key' = IF stays THEN key ELSE 0
          /\ resisted' = (resisted \/ (stays /\ key > 0))
    /\ Watch(c, "keyless")
    /\ condemned' = condemned \union UNION {Readable(v, f) : v \in Vessel, f \in Face}
    /\ main' = [d \in Command |-> [main[d] EXCEPT !.around = @ \/ InFlight(d)]]
    /\ finished' = {}
    /\ UNCHANGED <<exists, slot, signals, started, placed, carried, found>>

(* Mutant: only a clear without an error ends the process. *)
AfterError_Watch == "watch"

(* Whatever came of the clear, the process ends. *)
AfterError == "leaving"

(* silent_brick without a container raises: the trigger stays. *)
NoContainer(c) ==
    /\ mon[c].at = "keyless" /\ main[c].vessel \notin exists
    /\ Watch(c, AfterError)
    /\ UNCHANGED <<device, signals, main, started, placed, history>>

(* Mutant: only the Face the command works on is overwritten. *)
Overwritten_OwnFace(c) == {i \in 1..Len(Faces) : Faces[i] = main[c].face}

(* The slots that are overwritten, in their order. *)
Overwritten(c) == 1..Len(Faces)

Overwrite(c) ==
    LET v == main[c].vessel
        i == mon[c].next + 1
    IN  /\ mon[c].at \in {"keyless", "overwriting"} /\ v \in exists
        /\ i <= Len(Faces)
        /\ slot' = IF i \in Overwritten(c) THEN [slot EXCEPT ![v][Faces[i]] = NoiseSlot] ELSE slot
        /\ mon' = [mon EXCEPT ![c].at = "overwriting", ![c].next = i]
        /\ UNCHANGED <<exists, key, signals, main, started, placed, history>>

(* Mutant: the trigger goes before the container is overwritten. *)
RemovesAt_First == {"keyless"}

(* The trigger is removed once the container is overwritten (and the event *)
(* logged: if that fails, the trigger stays).                              *)
RemovesAt == {"overwriting"}

RemoveTrigger(c) ==
    /\ mon[c].at \in RemovesAt
    /\ mon[c].at = "overwriting" => mon[c].next = Len(Faces)
    /\ trigger' = NoFile
    /\ finished' = finished \union {main[c].vessel}
    /\ found' = "used"
    /\ Watch(c, "leaving")
    /\ UNCHANGED <<device, token, main, started, placed, condemned, carried, resisted>>

LogFails(c) ==
    /\ mon[c].at = "overwriting" /\ mon[c].next = Len(Faces)
    /\ Watch(c, AfterError)
    /\ UNCHANGED <<device, signals, main, started, placed, history>>

(* os._exit(1), three seconds later *)
Exit(c) ==
    /\ mon[c].at = "leaving"
    /\ Ended(c)
    /\ UNCHANGED <<device, signals, started, placed, history>>

-----------------------------------------------------------------------------
(* Whoever places the trigger creates the file and writes into it: the     *)
(* token as it is on the device, or something else.                        *)

Place ==
    /\ placed < MaxTriggers
    /\ placed' = placed + 1
    /\ trigger' = Cut
    /\ UNCHANGED <<device, token, main, mon, started, history>>

Fill ==
    /\ trigger = Cut
    /\ \/ token \notin {NoFile, Cut} /\ trigger' = token
       \/ trigger' \in {Wrong, Garbled}
    /\ UNCHANGED <<device, token, main, mon, started, placed, history>>

Monitor(c) ==
    \/ Look(c) \/ LookElse(c) \/ LookRaises(c) \/ Discard(c)
    \/ DestroyAccessKeys(c) \/ NoContainer(c) \/ Overwrite(c) \/ RemoveTrigger(c) \/ LogFails(c) \/ Exit(c)

EmergencyNext ==
    \/ \E c \in Command :
          \/ \E v \in Vessel, f \in Used : Start(c, v, f)
          \/ OpenToken(c) \/ FillToken(c) \/ LoadToken(c)
          \/ Read(c) \/ Derive(c) \/ Write(c) \/ Return(c)
          \/ Monitor(c)
    \/ Place \/ Fill

(* The monitor is a thread that is scheduled.  The main thread may wait at *)
(* a prompt for ever, and nobody has to place a trigger.                   *)
Fairness == \A c \in Command : WF_emergencyVars(Monitor(c))
EmergencySpec == EmergencyInit /\ [][EmergencyNext]_emergencyVars /\ Fairness

-----------------------------------------------------------------------------
(* Every variable keeps its type; a monitor runs only beside its command,  *)
(* and a command that works on a Face knows which.                         *)
File == 0..MaxStarts
Key == 0..(MaxStarts + 1)
Token == Command \union {NoFile, Cut}
Text == Token \union {Wrong, Garbled}
MainThread ==
    [at : {"ended", "creating", "filling", "loading", "prompt", "read", "derived", "done"},
     vessel : Vessel \union {NoFile}, face : Face \union {NoFile}, files : SUBSET File,
     file : File, key : Key, around : BOOLEAN]
MonitorThread ==
    [at : {"off", "watch", "discard", "cleared", "keyless", "overwriting", "leaving", "dead"},
     token : Token, next : 0..Len(Faces), saw : Text]
Pending(c) == ~(At(c, "ended") \/ At(c, "done"))
Beside(c) == At(c, "prompt") \/ InFlight(c) \/ At(c, "done")
EmergencyTypeOK ==
    /\ exists \subseteq Vessel /\ key \in Key
    /\ slot \in [Vessel -> [Face -> [key : Key, files : SUBSET File]]]
    /\ token \in Token /\ trigger \in Text
    /\ main \in [Command -> MainThread] /\ mon \in [Command -> MonitorThread]
    /\ started \in 0..MaxStarts /\ placed \in 0..MaxTriggers
    /\ condemned \subseteq File /\ carried \subseteq File /\ finished \subseteq Vessel
    /\ resisted \in BOOLEAN /\ found \in {"none", "there", "used", "dismissed"}
    /\ \A c \in Command :
          /\ Running(c) => main[c].vessel \in Vessel
          /\ Pending(c) => main[c].face \in Face /\ main[c].file > 0
          /\ mon[c].at # "off" => Beside(c)
          /\ mon[c].at \in {"cleared", "keyless"} => mon[c].next = 0

(* A clear can be cut short: the command's own end takes the thread with   *)
(* it.  Nothing that was there before still opens, though, except what a   *)
(* command read before the clear and wrote back around it; where the key   *)
(* could not be destroyed and the container is not overwritten to the end, *)
(* the trigger is still there for the next command.  It need not be when   *)
(* another monitor has removed it meanwhile: having used it up on its own  *)
(* container, or taking it for invalid, which TriggerKept says when a good *)
(* one can be.                                                             *)
ClearedOrRetried ==
    \A v \in Vessel :
        \/ (UNION {Readable(v, f) : f \in Face}) \intersect condemned \subseteq carried
        \/ resisted /\ v \notin finished /\ (trigger # NoFile \/ found \in {"used", "dismissed"})

(* A complete trigger with the device's token is removed only by a monitor *)
(* that has overwritten its whole container, or that takes it for invalid: *)
(* having read the file when it did not hold this yet, or comparing with   *)
(* what it read of the token before that was written.  These two are losses *)
(* the code does not prevent.                                              *)
Settled(t) == t = token /\ t \notin {NoFile, Cut, Wrong, Garbled}
UsesUp(c) == mon[c].at = "overwriting" /\ mon[c].next = Len(Faces)
Misjudges(c) == mon[c].at = "discard" /\ (mon[c].saw # trigger \/ mon[c].token # token)
TriggerKept ==
    [][Settled(trigger) /\ trigger' = NoFile =>
          \E c \in Command : UsesUp(c) \/ Misjudges(c)]_emergencyVars

(* A command whose monitor still runs and is handed its token ends, even   *)
(* when nobody ever answers its prompt and the clear goes wrong.  (A text  *)
(* the monitor could not read before has ended it: such a command ignores  *)
(* every later trigger.)                                                   *)
TriggerEndsCommand ==
    \A c \in Command :
        mon[c].at # "dead" /\ At(c, "prompt") /\ trigger = mon[c].token
            ~> ~At(c, "prompt") \/ trigger # mon[c].token

=============================================================================
