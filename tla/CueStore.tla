------------------------------- MODULE CueStore -------------------------------
(***************************************************************************)
(* The physical-object references of the device (ai_gate.py,               *)
(* object_cue_store.py).  One file holds the reference of every entry.     *)
(* The console and the WebUI are separate processes: each loads the file   *)
(* once, when its AIGate is constructed, and from then on answers from,    *)
(* and rewrites the whole file from, its own copy.                         *)
(*                                                                         *)
(* Inside one process references change one operation at a time (the       *)
(* WebUI's device lock; the console's one operation screen), so the        *)
(* interleavings here are those of the two processes.                      *)
(***************************************************************************)
EXTENDS FiniteSets

CONSTANTS
    Surface,   \* the processes with an AIGate
    MODES,     \* the entries an object can be bound to
    Object,    \* physical objects; two images look alike iff one object
    NoObject,  \* no reference bound
    Torn       \* a file that is empty or fails authentication

ASSUME NoObjectAssumption == NoObject \notin Object

References == [MODES -> Object \union {NoObject}]
ASSUME TornAssumption == Torn \notin References

Empty == [m \in MODES |-> NoObject]

VARIABLES
    disk,     \* the file's content
    memory,   \* reference_data of each process
    running,  \* the processes that run
    job,      \* each process's change under way: step, kind, new references
    writer,   \* history: processes that wrote the present content, whole
    since,    \* history: entries bound again since the last clear was done
    crowded,  \* history: another process ran during that clear
    company   \* history: or during the one begun since

vars == <<disk, memory, running, job, writer, since, crowded, company>>

Idle == [step |-> "idle", kind |-> "none", refs |-> Empty]
Kind == {"bind", "clear"}
Job == {Idle} \union [step : {"open", "write", "commit"}, kind : Kind, refs : References]

Init ==
    /\ disk = Empty
    /\ memory = [s \in Surface |-> Empty]
    /\ running = {}
    /\ job = [s \in Surface |-> Idle]
    /\ writer = {} /\ since = {} /\ crowded = FALSE /\ company = FALSE

-----------------------------------------------------------------------------
(* A file that cannot be read leaves every entry unbound. *)
Load(content) == IF content = Torn THEN Empty ELSE content

Launch(s) ==
    /\ s \notin running
    /\ running' = running \union {s}
    /\ memory' = [memory EXCEPT ![s] = Load(disk)]
    /\ company' = (company \/ \E t \in Surface : job[t].kind = "clear")
    /\ UNCHANGED <<disk, job, writer, since, crowded>>

(* The process ends, at whatever step it has reached. *)
Exit(s) ==
    /\ s \in running
    /\ running' = running \ {s}
    /\ memory' = [memory EXCEPT ![s] = Empty]
    /\ job' = [job EXCEPT ![s] = Idle]
    /\ writer' = writer \ {s}
    /\ UNCHANGED <<disk, since, crowded, company>>

(* Mutant: the other entry's reference is not compared. *)
Bind_AnyObject(s, m, o) ==
    /\ s \in running /\ job[s] = Idle
    /\ job' = [job EXCEPT ![s] = [step |-> "open", kind |-> "bind",
                                  refs |-> [memory[s] EXCEPT ![m] = o]]]
    /\ since' = since \union {m}
    /\ UNCHANGED <<disk, memory, running, writer, crowded, company>>

(* An object that looks like another entry's is refused; a bound entry may *)
(* be bound again.                                                         *)
Bind(s, m, o) ==
    /\ s \in running /\ job[s] = Idle
    /\ \A n \in MODES \ {m} : memory[s][n] # o
    /\ job' = [job EXCEPT ![s] = [step |-> "open", kind |-> "bind",
                                  refs |-> [memory[s] EXCEPT ![m] = o]]]
    /\ since' = since \union {m}
    /\ UNCHANGED <<disk, memory, running, writer, crowded, company>>

(* Mutant: only the process's own copy is emptied. *)
Clear_MemoryOnly(s) ==
    /\ s \in running /\ job[s] = Idle
    /\ job' = [job EXCEPT ![s] = [step |-> "commit", kind |-> "clear", refs |-> Empty]]
    /\ company' = (running # {s})
    /\ UNCHANGED <<disk, memory, running, writer, since, crowded>>

(* A Vessel is created, the last one deleted, or the container             *)
(* reinitialised.                                                          *)
Clear(s) ==
    /\ s \in running /\ job[s] = Idle
    /\ job' = [job EXCEPT ![s] = [step |-> "open", kind |-> "clear", refs |-> Empty]]
    /\ company' = (running # {s})
    /\ UNCHANGED <<disk, memory, running, writer, since, crowded>>

Step(s, l) == job' = [job EXCEPT ![s].step = l]

(* Opening the file to write it truncates it. *)
Open(s) ==
    /\ job[s].step = "open"
    /\ disk' = Torn /\ writer' = {}
    /\ Step(s, "write")
    /\ UNCHANGED <<memory, running, since, crowded, company>>

(* If the other process wrote since this one opened the file, the longer   *)
(* content may show behind the shorter, and authenticates as neither.      *)
Write(s) ==
    /\ job[s].step = "write"
    /\ \/ disk' = job[s].refs /\ writer' = {s}
       \/ disk # Torn /\ disk' = Torn /\ writer' = {}
    /\ Step(s, "commit")
    /\ UNCHANGED <<memory, running, since, crowded, company>>

(* An OSError from opening or writing is reported and nothing is undone. *)
SaveFails(s) ==
    /\ job[s].step \in {"open", "write"}
    /\ job' = [job EXCEPT ![s] = Idle]
    /\ UNCHANGED <<disk, memory, running, writer, since, crowded, company>>

(* Mutant: the process's own copy is not emptied by a clear. *)
Commit_BindOnly(s) ==
    /\ job[s].step = "commit"
    /\ memory' = IF job[s].kind = "clear" THEN memory
                 ELSE [memory EXCEPT ![s] = job[s].refs]
    /\ IF job[s].kind = "clear" THEN since' = {} /\ crowded' = company
       ELSE UNCHANGED <<since, crowded>>
    /\ job' = [job EXCEPT ![s] = Idle]
    /\ UNCHANGED <<disk, running, writer, company>>

Commit(s) ==
    /\ job[s].step = "commit"
    /\ memory' = [memory EXCEPT ![s] = job[s].refs]
    /\ IF job[s].kind = "clear" THEN since' = {} /\ crowded' = company
       ELSE UNCHANGED <<since, crowded>>
    /\ job' = [job EXCEPT ![s] = Idle]
    /\ UNCHANGED <<disk, running, writer, company>>

-----------------------------------------------------------------------------
Change(s) ==
    \/ \E m \in MODES, o \in Object : Bind(s, m, o)
    \/ Clear(s)
Save(s) == Open(s) \/ Write(s) \/ SaveFails(s) \/ Commit(s)

Next == \E s \in Surface : Launch(s) \/ Exit(s) \/ Change(s) \/ Save(s)

Spec == Init /\ [][Next]_vars

-----------------------------------------------------------------------------
(* Type invariant. *)
TypeOK ==
    /\ disk \in References \union {Torn}
    /\ memory \in [Surface -> References]
    /\ running \subseteq Surface
    /\ job \in [Surface -> Job]
    /\ writer \subseteq Surface
    /\ since \subseteq MODES
    /\ crowded \in BOOLEAN /\ company \in BOOLEAN

Distinct(refs) ==
    \A m, n \in MODES : m # n /\ refs[m] # NoObject => refs[m] # refs[n]

(* One object never stands for two entries, in the file or in any          *)
(* process, although each process compares with its own copy only.         *)
DistinctObjects ==
    /\ disk # Torn => Distinct(disk)
    /\ \A s \in Surface : Distinct(memory[s])

(* Whoever saved last, and has finished, answers from what the file says:  *)
(* a restart would change nothing for it.                                  *)
WriterAgrees == \A s \in writer : job[s] = Idle => memory[s] = disk

BoundSince(refs) == {m \in MODES : refs[m] # NoObject} \subseteq since

(* vessel_workflow_service.py 205-222: a Vessel's creation clears the      *)
(* references, so that the first Store on it does not find an entry bound. *)
(* Unless another process ran during the clear and keeps its own copy,     *)
(* every idle process knows only bindings made since.                      *)
ClearedWhenAlone ==
    ~crowded => \A s \in running : job[s] = Idle => BoundSince(memory[s])
=============================================================================
