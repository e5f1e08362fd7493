------------------------------ MODULE FaceFiles ------------------------------
(***************************************************************************)
(* The files of one Face (services/vessel_workflow_service.py): one record *)
(* that every operation reads whole, changes in memory and writes whole.   *)
(* The console and the WebUI run these operations in two processes without *)
(* a lock.  The operator's files share the Face with generated filler, and *)
(* the one handed back when none is named is chosen by a wall clock of one *)
(* second and a counter.                                                   *)
(*                                                                         *)
(* Passphrases, credentials and the destroy slot are VesselStore's; here   *)
(* every operation opens the Face.                                         *)
(***************************************************************************)
EXTENDS Integers, Sequences, FiniteSets, FiniteSetsExt, SequencesExt

CONSTANTS
    Process,     \* processes with a VesselWorkflowService
    Name,        \* file names the operator uses
    Size,        \* their sizes in bytes
    Target,      \* bytes of filler asked for
    Capacity,    \* get_plaintext_capacity of the Face's open slot
    Metadata,    \* bytes of the record's metadata in an open slot
    MaxClock,    \* bound: seconds
    MaxOps       \* bound: operations begun

ASSUME NameAssumption == Name \subseteq Nat \ {0} /\ Name # {} /\ IsFiniteSet(Name)
ASSUME SizeAssumption == Size \subseteq Nat /\ Size # {} /\ IsFiniteSet(Size)
ASSUME LimitsAssumption == MaxClock \in Nat /\ MaxOps \in Nat

VARIABLES
    clock,       \* the wall clock
    slot,        \* what the Face's open slot holds: names -> file records
    counted,     \* file_count and dummy_file_count in the registry
    op,          \* what each process is doing
    begun,       \* operations begun
    stored,      \* history: the operator's files, by what each store and removal
                 \* that was written asked for: its own file and no other
    turnedBack,  \* the clock went back
    disturbed    \* an operation worked on a Face another wrote since, or ended halfway

faceVars == <<clock, slot, counted, op, begun, stored, turnedBack, disturbed>>

-----------------------------------------------------------------------------
(* The namespace of a Face *)

Manual == "manual"
Generated == "generated_plausibility"      \* _GENERATED_PLAUSIBILITY_ORIGIN

Entry(origin, size, at, seq, n) ==
    [origin |-> origin, size |-> size, added_at |-> at, store_seq |-> seq, n |-> n]

Filler(files) == {f \in DOMAIN files : files[f].origin = Generated}
OperatorFiles(files) == DOMAIN files \ Filler(files)
Without(files, names) == [f \in DOMAIN files \ names |-> files[f]]
With(files, f, entry) == [g \in DOMAIN files \union {f} |-> IF g = f THEN entry ELSE files[g]]

(* _encode_namespace: base64, and what the JSON adds for a file and once. *)
PerFile == 100
Envelope == 50
Encoded(files) ==
    Envelope + MapThenSumSet(LAMBDA f : 4 * ((files[f].size + 2) \div 3) + PerFile, DOMAIN files)

(* encrypt_record: "purge" makes the metadata one byte longer than "open". *)
FitsOpen(files) == 4 + Metadata + Encoded(files) <= Capacity

(* Mutant: a destroy record carries the open slot's metadata too. *)
FitsPurge_Twice(files) == 4 + 2 * Metadata + 1 + Encoded(files) <= Capacity

FitsPurge(files) == 4 + Metadata + 1 + Encoded(files) <= Capacity

(* A file of the single-payload format, which has no time and no origin. *)
BeforeTime == -1
Legacy(f) == [g \in {f} |-> Entry("", Min(Size), BeforeTime, 0, 0)]

(* _next_store_seq; filler has no counter. *)
NextStoreSeq(files) == 1 + Max({files[f].store_seq : f \in DOMAIN files} \union {0})

-----------------------------------------------------------------------------
(* Filler *)

Larger(a, b) == IF a > b THEN a ELSE b
Smaller(a, b) == IF a < b THEN a ELSE b

(* Mutant: stop when the next file would pass the target. *)
FillerSizes_Short(target) ==
    LET first == <<Larger(256, target \div 10), Larger(320, target \div 12),
                   Larger(768, target \div 8), Larger(256, target \div 12),
                   Larger(512, target \div 10)>>
        more[sizes \in Seq(Nat)] ==
            LET total == FoldSeq(+, 0, sizes)
                size == Larger(192, target \div (5 + Len(sizes)))
            IN  IF total + size >= target THEN sizes ELSE more[Append(sizes, size)]
    IN  more[first]

(* _build_generated_file_specs: the sizes; file i of the list has the i-th *)
(* name of the fixed pool, which is i here.                                *)
FillerSizes(target) ==
    LET first == <<Larger(256, target \div 10), Larger(320, target \div 12),
                   Larger(768, target \div 8), Larger(256, target \div 12),
                   Larger(512, target \div 10)>>
        more[sizes \in Seq(Nat)] ==
            LET total == FoldSeq(+, 0, sizes)
                size == Smaller(Larger(192, target \div (5 + Len(sizes))),
                                Larger(192, target - total))
            IN  IF total >= target THEN sizes ELSE more[Append(sizes, size)]
    IN  more[first]

(* A pool name that the operator uses is left alone. *)
Spares(files, i) == i \notin OperatorFiles(files)

(* generate_dummy_profile: from the i-th file of the pool on, until one no *)
(* longer fits by the generator's own measure.                             *)
Filled(files, target, now) ==
    LET sizes == FillerSizes(target)
        kept == Without(files, Filler(files))
        Adding(pool) ==
            [f \in DOMAIN kept \union pool |->
                IF f \in pool THEN Entry(Generated, sizes[f], now, 0, 0) ELSE kept[f]]
        spared == {i \in 1..Len(sizes) : Spares(kept, i)}
        fits == {i \in spared : Encoded(Adding({j \in spared : j <= i})) <= Capacity}
        taken == {i \in spared : \A j \in spared : j <= i => j \in fits}
    IN  [files |-> Adding(taken), full |-> taken # spared]

-----------------------------------------------------------------------------
(* What is handed back *)

(* Mutant: the counter is not compared. *)
Later_NoSeq(a, b, f, g) ==
    a.added_at > b.added_at \/ (a.added_at = b.added_at /\ f >= g)

(* _store_order: the time, then the counter, then the name. *)
Later(a, b, f, g) ==
    \/ a.added_at > b.added_at
    \/ a.added_at = b.added_at /\ a.store_seq > b.store_seq
    \/ a.added_at = b.added_at /\ a.store_seq = b.store_seq /\ f >= g

(* The operator's files, or the filler when there is nothing else. *)
Candidates(files) == IF OperatorFiles(files) = {} THEN DOMAIN files ELSE OperatorFiles(files)
MostRecent(files) ==
    CHOOSE f \in Candidates(files) : \A g \in Candidates(files) : Later(files[f], files[g], f, g)

-----------------------------------------------------------------------------
(* Operations.  `todo' is what one still has to do; `read' is the Face as  *)
(* it found it, `files' the Face as it will write it, and `ask' what the   *)
(* operator asked of it: the file to store, the name to remove.            *)

Nothing == [f \in {} |-> Entry(Manual, 0, 0, 0, 0)]
Ask(put, drop) == [put |-> put, drop |-> drop]
NoAsk == Ask(Nothing, {})
Asked(files, ask) ==
    [f \in (DOMAIN files \ ask.drop) \union DOMAIN ask.put |->
        IF f \in DOMAIN ask.put THEN ask.put[f] ELSE files[f]]

NoOperation == [kind |-> "idle", todo |-> <<>>, read |-> Nothing, files |-> Nothing, ask |-> NoAsk,
         restricted |-> FALSE, target |-> 0, stale |-> FALSE, answer |-> 0]

Counts(files) ==
    [files |-> Cardinality(DOMAIN files), filler |-> Cardinality(Filler(files))]

FaceInit ==
    /\ clock = 0 /\ begun = 0
    /\ slot \in {Nothing, Legacy(Min(Name))}
    /\ counted = Counts(slot) /\ stored = slot
    /\ op = [a \in Process |-> NoOperation]
    /\ turnedBack = FALSE /\ disturbed = FALSE

Finished(a) == op[a].todo = <<>>

(* An operation reads the Face and either fails or has its changes to      *)
(* write; `_write_face_namespace' then touches the registry.               *)
Begin(a, new) ==
    /\ Finished(a) /\ begun < MaxOps
    /\ begun' = begun + 1
    /\ op' = [op EXCEPT ![a] = new]
    /\ UNCHANGED <<clock, slot, counted, stored, turnedBack, disturbed>>
Fail(a) == Begin(a, NoOperation)

ReadWrite == <<"write", "count">>
Rewrite(kind, files, ask) ==
    [NoOperation EXCEPT !.kind = kind, !.todo = ReadWrite, !.files = files, !.ask = ask]
Look(kind) == [NoOperation EXCEPT !.kind = kind, !.todo = <<"touch">>, !.files = slot]

(* Mutant: a Face of the single-payload format reads as an empty one. *)
AddPayload_NotLegacy(a, f, size, restricted) ==
    LET files == Without(slot, {g \in DOMAIN slot : slot[g].origin = ""})
        entry == Entry(Manual, size, clock, NextStoreSeq(files), begun + 1)
    IN  Begin(a, [Rewrite("store", With(files, f, entry), Ask([g \in {f} |-> entry], {}))
                     EXCEPT !.restricted = restricted])

(* add_payload *)
AddPayload(a, f, size, restricted) ==
    LET entry == Entry(Manual, size, clock, NextStoreSeq(slot), begun + 1)
    IN  Begin(a, [Rewrite("store", With(slot, f, entry), Ask([g \in {f} |-> entry], {}))
                     EXCEPT !.restricted = restricted])

(* remove_file *)
RemoveFile(a, f) ==
    IF f \in DOMAIN slot
    THEN Begin(a, Rewrite("remove", Without(slot, {f}), Ask(Nothing, {f}))) ELSE Fail(a)

(* generate_dummy_profile *)
Generate(a, target) ==
    LET files == Filled(slot, target, clock).files
    IN  IF Filler(files) # {}
        THEN Begin(a, [Rewrite("generate", files, NoAsk) EXCEPT
                          !.restricted = TRUE, !.target = target, !.read = slot])
        ELSE Fail(a)

(* clear_dummy_profile *)
ClearFiller(a) ==
    Begin(a, [Rewrite("clear", Without(slot, Filler(slot)), NoAsk) EXCEPT !.restricted = TRUE])

(* list_files *)
List(a) == Begin(a, Look("list"))

(* retrieve_file: a file named, a hint that falls back, or neither (0). *)
Retrieve(a, name, hint) ==
    IF DOMAIN slot = {} \/ (name # 0 /\ name \notin DOMAIN slot)
    THEN Fail(a)
    ELSE Begin(a, [Look(IF name = 0 /\ hint = 0 THEN "retrieve" ELSE "retrieve named") EXCEPT
                   !.answer = IF name # 0 THEN name
                              ELSE IF hint \in DOMAIN slot THEN hint ELSE MostRecent(slot)])

At(a, step) == ~Finished(a) /\ Head(op[a].todo) = step
Rest(a) == Tail(op[a].todo)

(* vault.store writes the open slot and then the destroy slot, in which    *)
(* the same namespace has one byte less; store_open_only writes the first. *)
(* A namespace that does not fit raises, before its slot is touched.       *)
Halfway(a) == op[a].restricted /\ ~FitsPurge(op[a].files)
WriteFace(a) ==
    /\ At(a, "write")
    /\ IF ~FitsOpen(op[a].files)
       THEN /\ op' = [op EXCEPT ![a] = NoOperation]
            /\ UNCHANGED <<slot, stored, disturbed>>
       ELSE /\ slot' = op[a].files
            /\ stored' = Asked(stored, op[a].ask)
            /\ disturbed' = (disturbed \/ op[a].stale \/ Halfway(a))
            /\ op' = [b \in Process |->
                  IF b # a THEN [op[b] EXCEPT !.stale = @ \/ ~Finished(b)]
                  ELSE IF Halfway(a) THEN NoOperation
                  ELSE [op[a] EXCEPT !.todo = Rest(a)]]
    /\ UNCHANGED <<clock, counted, begun, turnedBack>>

(* touch_face with the file count and _build_dummy_profile's *)
NewCounts(a) == Counts(op[a].files)

Count(a) ==
    /\ At(a, "count")
    /\ counted' = NewCounts(a)
    /\ disturbed' = (disturbed \/ op[a].stale)
    /\ op' = [op EXCEPT ![a] = NoOperation]
    /\ UNCHANGED <<clock, slot, begun, stored, turnedBack>>

(* list_files and retrieve_file touch the file count only. *)
Touch(a) ==
    /\ At(a, "touch")
    /\ counted' = [counted EXCEPT !.files = Cardinality(DOMAIN op[a].files)]
    /\ disturbed' = (disturbed \/ op[a].stale)
    /\ op' = [op EXCEPT ![a] = NoOperation]
    /\ UNCHANGED <<clock, slot, begun, stored, turnedBack>>

(* The wall clock: there is no battery behind it, so it may be set back. *)
Tick ==
    /\ \E now \in 0..MaxClock :
          clock' = now /\ turnedBack' = (turnedBack \/ now < clock) /\ now # clock
    /\ UNCHANGED <<slot, counted, op, begun, stored, disturbed>>

FaceNext ==
    \/ \E a \in Process :
          \/ \E f \in Name : RemoveFile(a, f) \/ \E s \in Size, r \in BOOLEAN : AddPayload(a, f, s, r)
          \/ ClearFiller(a) \/ \E t \in Target : Generate(a, t)
          \/ List(a) \/ \E n, h \in Name \union {0} : (n = 0 \/ h = 0) /\ Retrieve(a, n, h)
          \/ WriteFace(a) \/ Count(a) \/ Touch(a)
    \/ Tick

FaceSpec == FaceInit /\ [][FaceNext]_faceVars

-----------------------------------------------------------------------------
(* Properties *)

FileRecord == [origin : {Manual, ""}, size : Nat, added_at : BeforeTime..MaxClock,
               store_seq : Nat, n : 0..MaxOps]
AreFiles(files) ==
    DOMAIN files \subseteq Nat \ {0} /\ \A f \in OperatorFiles(files) : files[f] \in FileRecord

(* Every variable keeps its type, and the counter tells the files that are *)
(* stored apart.                                                           *)
FaceTypeOK ==
    /\ clock \in 0..MaxClock /\ begun \in 0..MaxOps
    /\ AreFiles(slot) /\ AreFiles(stored)
    /\ \A f, g \in OperatorFiles(slot) : f # g => slot[f].store_seq # slot[g].store_seq
    /\ \A a \in Process : AreFiles(op[a].files) /\ AreFiles(op[a].read)

(* vessel_workflow_service.py 1270-1300, add_payload and remove_file: the  *)
(* operator's files are those each store asked for and no removal named:   *)
(* filling, clearing, storing another file and removing another file leave *)
(* each as it was last stored - unless two operations overlapped, or one   *)
(* ended between its two slots.                                            *)
StoredSurvives == ~disturbed => Without(slot, Filler(slot)) = stored

(* vessel_workflow_service.py 1650-1680: without a name or a hint the file *)
(* of the operator's that was stored last is handed back, whatever filler  *)
(* was generated since - as long as the clock has not been set back.       *)
HandsBackLast ==
    \A a \in Process :
        (op[a].kind = "retrieve" /\ At(a, "touch") /\ ~turnedBack) =>
            LET files == op[a].files
            IN  OperatorFiles(files) # {} => \A f \in OperatorFiles(files) :
                    op[a].answer \in OperatorFiles(files) /\ files[f].n <= files[op[a].answer].n

FillerBytes(files) == MapThenSumSet(LAMBDA f : files[f].size, Filler(files))

(* generate_dummy_profile: the filler that was written reaches what was    *)
(* asked for, unless the Face was full or the operator uses its names.     *)
FillerReaches ==
    \A a \in Process : op[a].kind = "generate" /\ At(a, "count") =>
        \/ FillerBytes(op[a].files) >= op[a].target
        \/ Filled(op[a].read, op[a].target, 0).full
        \/ \E f \in OperatorFiles(op[a].read) : f \in 1..Len(FillerSizes(op[a].target))

(* An operation that fails has changed the Face only when the namespace    *)
(* fills the open slot to the last byte and a destroy passphrase was given *)
(* (record_cypher.py 68-83: the role's name is part of the record).        *)
FailsWhole ==
    [][\A a \in Process : (At(a, "write") /\ op'[a].todo = <<>> /\ slot' # slot) =>
          op[a].restricted /\ 4 + Metadata + Encoded(slot') = Capacity]_faceVars
=============================================================================
