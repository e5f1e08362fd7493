--------------------------- MODULE VesselStore_proofs --------------------------
(***************************************************************************)
(* For any number of Vessels, passphrases and files, with every fault the  *)
(* model knows: destroyed files never come back into a slot that opens; a  *)
(* container whose overwrite has begun holds nothing that opens; what a    *)
(* store acknowledged can be retrieved, and a Face that was given a        *)
(* destroy passphrase keeps one that works, until one of the events listed *)
(* at AckedReadable and DestroyArmed; a completed wipe leaves no           *)
(* credentials.                                                            *)
(*                                                                         *)
(* None is inductive.  For the first two (EndsInv), a write must not bring *)
(* back a file destroyed meanwhile, so the operation under way may hold no *)
(* destroyed file, and holds none at all while it destroys; an erased Face *)
(* must not share files with another one; and the overwrite of a container *)
(* must come right after the destruction of the key.                       *)
(*                                                                         *)
(* The other three (PromiseInv) are stated for the moments between         *)
(* operations.  What carries them through an operation is what each of its *)
(* steps left to do says of the steps behind it: a store whose slot is     *)
(* written holds its files there, a wipe that passed a Face left its       *)
(* record fresh, and an operation that takes something away began by       *)
(* giving up its promise.                                                  *)
(***************************************************************************)
EXTENDS VesselStore, SequenceTheorems, TLAPS

Content(v, f) == slots[v][f]["open"].files \union slots[v][f]["purge"].files

(* No two Faces hold the same file, and a write under way brings a Face    *)
(* nothing another one holds.                                              *)
Apart ==
    \A v, w \in Vessel, f, g \in Face : <<v, f>> # <<w, g>> =>
        /\ Content(v, f) \intersect Content(w, g) = {}
        /\ <<job.v, job.f>> = <<v, f>> => job.files \intersect Content(w, g) = {}

(* Nothing an operation is about to write has been destroyed. *)
HoldsNoneGone == job.files \intersect gone = {}

Ending == {"erase", "keyrm", "keyunlink"}

(* The steps left: one that destroys belongs to an operation that writes   *)
(* no file, and the container is overwritten right after the key is gone.  *)
PlanOf(j, noise) ==
    \A i \in 1..Len(j.todo) :
        /\ j.todo[i] \in Ending => j.files = {}
        /\ j.todo[i] = "brick" => IF i = 1 THEN noise ELSE j.todo[i - 1] = "keyrm"

JobOK ==
    /\ job \in Job
    /\ job.op = "idle" <=> job.todo = <<>>
    /\ PlanOf(job, slots = AllNoise)

(* The type invariant, by what the parts of a step can disturb. *)
StorageTypes ==
    /\ slots \in [Vessel -> [Face -> [Role -> Slot]]]
    /\ present \subseteq Vessel /\ accessKey \in {"none", "live", "torn"}
RegistryTypes ==
    /\ registered \subseteq Vessel /\ sealed \in [Vessel -> [Face -> Detail]]
    /\ refs \subseteq Face
HistoryTypes ==
    /\ truth \in [Vessel -> [Face -> SUBSET File]]
    /\ armed \subseteq Vessel \X Face
    /\ gone \subseteq File /\ wiped \subseteq Vessel
    /\ struck \subseteq Vessel \X Face
TypesOK == StorageTypes /\ RegistryTypes /\ HistoryTypes /\ JobOK
EndsInv == TypesOK /\ Apart /\ HoldsNoneGone /\ GoneStaysGone /\ BrickLeavesNothing

-----------------------------------------------------------------------------
(* What a blank slot, Face and container are. *)
LEMMA Blanks ==
  /\ Noise \in Slot /\ Noise.files = {}
  /\ BlankFace \in [Role -> Slot] /\ \A r \in Role : BlankFace[r] = Noise
  /\ BlankContainer \in [Face -> [Role -> Slot]] /\ \A f \in Face : BlankContainer[f] = BlankFace
  /\ AllNoise \in [Vessel -> [Face -> [Role -> Slot]]]
  /\ \A v \in Vessel : AllNoise[v] = BlankContainer
  <1>1. Noise \in Slot /\ Noise.files = {}
    BY DEF Noise, Slot
  <1>2. BlankFace \in [Role -> Slot] /\ \A r \in Role : BlankFace[r] = Noise
    BY <1>1 DEF BlankFace
  <1>3. BlankContainer \in [Face -> [Role -> Slot]] /\ \A f \in Face : BlankContainer[f] = BlankFace
    BY <1>2 DEF BlankContainer
  <1> QED
    BY <1>1, <1>2, <1>3 DEF AllNoise

LEMMA FreshTypes ==
  /\ FreshDetail \in Detail
  /\ FreshFaces \in [Face -> Detail]
  BY DEF FreshDetail, Detail, FreshFaces

(* Between operations nothing is held. *)
LEMMA NoJobOK ==
  /\ NoJob \in Job /\ NoJob.op = "idle" /\ NoJob.todo = <<>> /\ NoJob.files = {}
  /\ NoJob.v \in Vessel /\ NoJob.f \in Face /\ NoJob.p = NoPass /\ NoJob.e = NoPass
  BY VesselAssumption DEF NoJob, Job, Face

(* What is left after the first of several steps. *)
LEMMA TailShape ==
  ASSUME NEW S, NEW s \in Seq(S), s # <<>>, Len(s) # 1
  PROVE  /\ Tail(s) \in Seq(S) /\ Tail(s) # <<>>
         /\ Len(s) \in Nat /\ Len(Tail(s)) = Len(s) - 1
         /\ \A i \in 1..Len(Tail(s)) : Tail(s)[i] = s[i + 1]
  <1>1. Len(s) \in Nat \ {0}
    BY EmptySeq
  <1>2. /\ Tail(s) \in Seq(S)
        /\ Len(Tail(s)) = Len(s) - 1
        /\ \A i \in 1..Len(Tail(s)) : Tail(s)[i] = s[i + 1]
    BY HeadTailProperties
  <1>3. Len(Tail(s)) # 0
    BY <1>1, <1>2
  <1>4. Tail(s) # <<>>
    BY <1>3, EmptySeq
  <1> QED
    BY <1>1, <1>2, <1>4

LEMMA HeadIsFirst == \A s : Head(s) = s[1]
  OBVIOUS

LEMMA PlanOfNoJob == ASSUME NEW noise \in BOOLEAN PROVE PlanOf(NoJob, noise)
  BY NoJobOK DEF PlanOf

(* Leaving a step behind leaves a plan, if the container is noise whenever *)
(* the step left behind was the destruction of the key.                    *)
LEMMA AdvancePlan ==
  ASSUME JobOK, ~Idle, Advance, NEW noise \in BOOLEAN, Head(job.todo) = "keyrm" => noise
  PROVE  /\ job' \in Job
         /\ job'.op = "idle" <=> job'.todo = <<>>
         /\ PlanOf(job', noise)
         /\ job'.files \in {{}, job.files}
         /\ job'.files # {} => <<job'.v, job'.f>> = <<job.v, job.f>>
  <1>1. CASE Ends
    BY <1>1, NoJobOK, PlanOfNoJob DEF Advance
  <1>2. CASE ~Ends
    <2>1. job' = [job EXCEPT !.todo = Tail(job.todo)]
      BY <1>2 DEF Advance
    <2>2. job.todo \in Seq(Step) /\ job.todo # <<>> /\ Len(job.todo) # 1
      BY <1>2 DEF JobOK, Job, Idle, Ends
    <2>3. /\ Tail(job.todo) \in Seq(Step) /\ Tail(job.todo) # <<>>
          /\ Len(job.todo) \in Nat /\ Len(Tail(job.todo)) = Len(job.todo) - 1
          /\ \A i \in 1..Len(Tail(job.todo)) : Tail(job.todo)[i] = job.todo[i + 1]
      BY <2>2, TailShape
    <2>4. /\ job' \in Job /\ job'.todo = Tail(job.todo) /\ job'.files = job.files
          /\ job'.op = job.op /\ job'.v = job.v /\ job'.f = job.f
      BY <2>1, <2>3 DEF JobOK, Job
    <2>5. job'.op # "idle" /\ job'.todo # <<>>
      BY <2>3, <2>4 DEF Idle
    <2>6. PlanOf(job', noise)
      <3> SUFFICES ASSUME NEW i \in 1..Len(job'.todo)
                   PROVE  /\ job'.todo[i] \in Ending => job'.files = {}
                          /\ job'.todo[i] = "brick" => IF i = 1 THEN noise
                                                       ELSE job'.todo[i - 1] = "keyrm"
        BY DEF PlanOf
      <3>1. i + 1 \in 1..Len(job.todo) /\ job'.todo[i] = job.todo[i + 1]
        BY <2>3, <2>4
      <3>2. /\ job.todo[i + 1] \in Ending => job.files = {}
            /\ job.todo[i + 1] = "brick" => job.todo[i] = "keyrm"
        BY <3>1 DEF JobOK, PlanOf
      <3>3. i # 1 => i - 1 \in 1..Len(job'.todo) /\ job'.todo[i - 1] = job.todo[i]
        BY <2>3, <2>4
      <3> QED
        BY <2>3, <2>4, <3>1, <3>2, <3>3, HeadIsFirst
    <2> QED
      BY <2>4, <2>5, <2>6
  <1> QED
    BY <1>1, <1>2

-----------------------------------------------------------------------------
(* Types *)

LEMMA InitTypes == Init => TypesOK
  <1> SUFFICES ASSUME Init PROVE TypesOK
    OBVIOUS
  <1>1. StorageTypes
    BY Blanks DEF Init, StorageTypes
  <1>2. RegistryTypes
    BY FreshTypes DEF Init, RegistryTypes
  <1>3. HistoryTypes
    BY DEF Init, HistoryTypes, NothingStored
  <1>4. JobOK
    BY NoJobOK, PlanOfNoJob DEF Init, JobOK
  <1> QED
    BY <1>1, <1>2, <1>3, <1>4 DEF TypesOK

(* The plans of the operations: those that destroy and those that do not. *)
DestroyPlans ==
  {<<"keyunlink", "keynew", "format", "register", "refs">>,
   <<"keyunlink", "keynew", "format", "wipe_a", "wipe_b", "refs">>,
   <<"keyrm", "brick", "unregister">>,
   <<"keyrm", "brick", "unlink", "unregister", "refs_if_last">>,
   <<"keyrm", "brick", "wipe_a", "wipe_b">>,
   <<"erase", "reset">>,
   <<"erase", "touch">>,
   <<"erase">>}
KeepPlans ==
  {<<"register">>,
   <<"open_slot", "touch", "cred">>,
   <<"auth", "open_slot", "purge_slot", "touch", "cred">>,
   <<"open_slot", "purge_slot", "touch">>,
   <<"open_slot", "touch">>,
   <<"touch">>}

LEMMA DestroyPlansOK ==
  ASSUME NEW t \in DestroyPlans
  PROVE  /\ t \in Seq(Step) /\ t # <<>>
         /\ \A i \in 1..Len(t) : t[i] = "brick" => i = 2 /\ t[1] = "keyrm"
  <1>1. CASE t = <<"keyunlink", "keynew", "format", "register", "refs">>
    BY <1>1 DEF Step
  <1>2. CASE t = <<"keyunlink", "keynew", "format", "wipe_a", "wipe_b", "refs">>
    BY <1>2 DEF Step
  <1>3. CASE t = <<"keyrm", "brick", "unregister">>
    BY <1>3 DEF Step
  <1>4. CASE t = <<"keyrm", "brick", "unlink", "unregister", "refs_if_last">>
    BY <1>4 DEF Step
  <1>5. CASE t = <<"keyrm", "brick", "wipe_a", "wipe_b">>
    BY <1>5 DEF Step
  <1>6. CASE t = <<"erase", "reset">>
    BY <1>6 DEF Step
  <1>7. CASE t = <<"erase", "touch">>
    BY <1>7 DEF Step
  <1>8. CASE t = <<"erase">>
    BY <1>8 DEF Step
  <1> QED
    BY <1>1, <1>2, <1>3, <1>4, <1>5, <1>6, <1>7, <1>8 DEF DestroyPlans

LEMMA KeepPlansOK ==
  ASSUME NEW t \in KeepPlans
  PROVE  /\ t \in Seq(Step) /\ t # <<>>
         /\ \A i \in 1..Len(t) : t[i] # "brick" /\ t[i] \notin Ending
  <1>1. CASE t = <<"register">>
    BY <1>1 DEF Step, Ending
  <1>2. CASE t = <<"open_slot", "touch", "cred">>
    BY <1>2 DEF Step, Ending
  <1>3. CASE t = <<"auth", "open_slot", "purge_slot", "touch", "cred">>
    BY <1>3 DEF Step, Ending
  <1>4. CASE t = <<"open_slot", "purge_slot", "touch">>
    BY <1>4 DEF Step, Ending
  <1>5. CASE t = <<"open_slot", "touch">>
    BY <1>5 DEF Step, Ending
  <1>6. CASE t = <<"touch">>
    BY <1>6 DEF Step, Ending
  <1> QED
    BY <1>1, <1>2, <1>3, <1>4, <1>5, <1>6 DEF KeepPlans

(* An operation that begins has a plan. *)
LEMMA BeginPlan ==
  ASSUME NEW op, NEW v \in Vessel, NEW f \in Face, NEW p \in Pass \union {NoPass},
         NEW e \in Pass \union {NoPass}, NEW files \in SUBSET File, NEW todo,
         \/ /\ op \in {"create", "initialize", "destroy_vessel", "delete", "brick",
                       "destroy_face", "purge_other"}
            /\ files = {} /\ todo \in DestroyPlans
         \/ /\ op \in {"open", "add", "filler", "remove", "retrieve"}
            /\ todo \in KeepPlans,
         Begin(op, v, f, p, e, files, todo)
  PROVE  /\ JobOK'
         /\ job'.v = v /\ job'.f = f /\ job'.files = files
  <1>1. /\ todo \in Seq(Step) /\ todo # <<>>
        /\ \A i \in 1..Len(todo) : /\ todo[i] \in Ending => files = {}
                                   /\ todo[i] = "brick" => i = 2 /\ todo[1] = "keyrm"
    BY DestroyPlansOK, KeepPlansOK
  <1>2. /\ job' = [op |-> op, v |-> v, f |-> f, p |-> p, e |-> e, files |-> files,
                   todo |-> todo]
        /\ job' \in Job /\ job'.op # "idle" /\ job'.todo = todo
    BY <1>1 DEF Begin, Job
  <1>3. PlanOf(job', (slots = AllNoise)')
    BY <1>1, <1>2 DEF PlanOf
  <1> QED
    BY <1>1, <1>2, <1>3 DEF JobOK

(* Starting an operation keeps the types. *)
LEMMA StartTypes ==
  ASSUME TypesOK, Start
  PROVE  TypesOK'
  <1>n. NoPass \in Pass \union {NoPass} /\ "face_a" \in Face /\ {} \in SUBSET File
    BY DEF Face
  <1>k. ASSUME UNCHANGED <<storage, registry, refs, gone, struck>>,
               truth' \in [Vessel -> [Face -> SUBSET File]], armed' \subseteq armed,
               wiped' \subseteq wiped, JobOK'
        PROVE  TypesOK'
    BY <1>k DEF TypesOK, StorageTypes, RegistryTypes, HistoryTypes, storage, registry
  <1>t. NothingStored \in [Vessel -> [Face -> SUBSET File]]
    BY DEF NothingStored
  <1>u. ASSUME NEW v \in Vessel, NEW f \in Face, NEW fs \in SUBSET File,
               truth' = [truth EXCEPT ![v][f] = fs]
        PROVE  truth' \in [Vessel -> [Face -> SUBSET File]]
    BY <1>u DEF TypesOK, HistoryTypes
  <1>m. ASSUME NEW v \in Vessel, NEW f \in Face, NEW p
        PROVE  Namespace(v, f, p) \in SUBSET File
    BY DEF Namespace, TypesOK, StorageTypes, Slot, Role
  <1>e. ASSUME NEW op \in {"destroy_vessel", "delete", "brick", "initialize"},
               NEW v \in Vessel, NEW todo \in DestroyPlans, EndVessel(op, v, todo)
        PROVE  TypesOK'
    BY <1>e, <1>n, <1>k, <1>t, BeginPlan DEF EndVessel, history
  <1>1. ASSUME NEW v \in Vessel, CreateVessel(v) PROVE TypesOK'
    BY <1>1, <1>n, <1>k, <1>t, BeginPlan DEF CreateVessel, DestroyPlans
  <1>2. ASSUME NEW v \in Vessel, OpenVessel(v) PROVE TypesOK'
    <2>1. JobOK'
      BY <1>2, <1>n, BeginPlan DEF OpenVessel, KeepPlans
    <2> QED
      BY <1>2, <1>k, <2>1 DEF OpenVessel, history, TypesOK, HistoryTypes
  <1>3. ASSUME NEW v \in Vessel, NEW f \in Face, NEW p \in Pass, NEW e \in Pass \union {NoPass},
               NEW x \in File, AddPayload(v, f, p, e, x)
        PROVE  TypesOK'
    <2>1. JobOK'
      BY <1>3, <1>m, BeginPlan DEF AddPayload, KeepPlans
    <2> QED
      BY <1>3, <1>k, <2>1 DEF AddPayload, TypesOK, HistoryTypes
  <1>4. ASSUME NEW v \in Vessel, NEW f \in Face, NEW p \in Pass, NEW e \in Pass \union {NoPass},
               RewriteFiller(v, f, p, e)
        PROVE  TypesOK'
    <2>1. JobOK'
      BY <1>4, <1>m, BeginPlan DEF RewriteFiller, KeepPlans
    <2> QED
      BY <1>4, <1>k, <2>1 DEF RewriteFiller, TypesOK, HistoryTypes
  <1>5. ASSUME NEW v \in Vessel, NEW f \in Face, NEW p \in Pass, NEW x \in File,
               RemoveFile(v, f, p, x)
        PROVE  TypesOK'
    <2>1. Namespace(v, f, p) \ {x} \in SUBSET File
      BY <1>m
    <2>2. JobOK'
      BY <1>5, <1>n, <2>1, BeginPlan DEF RemoveFile, KeepPlans
    <2>3. truth[v][f] \ {x} \in SUBSET File
      BY DEF TypesOK, HistoryTypes
    <2>4. truth' \in [Vessel -> [Face -> SUBSET File]]
      BY <1>5, <2>3, <1>u DEF RemoveFile
    <2> QED
      BY <1>5, <1>k, <2>2, <2>4 DEF RemoveFile
  <1>6. ASSUME NEW v \in Vessel, NEW f \in Face, NEW p \in Pass, Retrieve(v, f, p)
        PROVE  TypesOK'
    <2>1. JobOK'
      BY <1>6, <1>n, <1>m, BeginPlan DEF Retrieve, KeepPlans
    <2> QED
      BY <1>6, <1>k, <2>1 DEF Retrieve, history, TypesOK, HistoryTypes
  <1>7. ASSUME NEW v \in Vessel, NEW f \in Face, NEW e \in Pass, DestroyFace(v, f, e)
        PROVE  TypesOK'
    <2>1. JobOK'
      BY <1>7, <1>n, BeginPlan DEF DestroyFace, DestroyPlans
    <2> QED
      BY <1>7, <1>k, <1>u, <1>n, <2>1 DEF DestroyFace
  <1>8. ASSUME NEW v \in Vessel,
               DestroyVessel(v) \/ DeleteVessel(v) \/ EmergencyBrick(v) \/ EmergencyInitialize(v)
        PROVE  TypesOK'
    BY <1>8, <1>e DEF DestroyVessel, DeleteVessel, EmergencyBrick, EmergencyInitialize,
                      DestroyPlans
  <1>9. ASSUME NEW v \in Vessel, NEW f \in Face, NEW web \in BOOLEAN, PurgeOther(v, f, web)
        PROVE  TypesOK'
    <2>1. JobOK'
      BY <1>9, <1>n, BeginPlan DEF PurgeOther, DestroyPlans
    <2> QED
      BY <1>9, <1>k, <1>u, <1>n, <2>1 DEF PurgeOther
  <1>10. ASSUME NEW f \in Face, CaptureReference(f) PROVE TypesOK'
    BY <1>10 DEF CaptureReference, TypesOK, StorageTypes, RegistryTypes, HistoryTypes, JobOK,
                 storage, registry, history
  <1> QED
    BY <1>1, <1>2, <1>3, <1>4, <1>5, <1>6, <1>7, <1>8, <1>9, <1>10 DEF Start

(* A durable step keeps the types: one lemma for what it leaves of the     *)
(* operation, then the steps themselves.                                   *)
LEMMA StepJob ==
  ASSUME TypesOK, ~Idle, Advance \/ job' = NoJob,
         Head(job.todo) = "keyrm" /\ job' # NoJob => slots' = AllNoise
  PROVE  /\ JobOK'
         /\ job'.files \in {{}, job.files}
         /\ job'.files # {} => <<job'.v, job'.f>> = <<job.v, job.f>>
  <1>1. CASE job' = NoJob
    BY <1>1, NoJobOK, PlanOfNoJob DEF JobOK
  <1>2. CASE Advance /\ job' # NoJob
    <2> DEFINE noise == slots' = AllNoise
    <2>1. noise \in BOOLEAN /\ (Head(job.todo) = "keyrm" => noise) /\ JobOK
      BY <1>2 DEF TypesOK
    <2> HIDE DEF noise
    <2>2. /\ job' \in Job
          /\ job'.op = "idle" <=> job'.todo = <<>>
          /\ PlanOf(job', noise)
          /\ job'.files \in {{}, job.files}
          /\ job'.files # {} => <<job'.v, job'.f>> = <<job.v, job.f>>
      BY <1>2, <2>1, AdvancePlan
    <2> QED
      BY <2>2 DEF noise, JobOK
  <1> QED
    BY <1>1, <1>2

LEMMA JobTypes ==
  ASSUME TypesOK
  PROVE  /\ job.v \in Vessel /\ job.f \in Face
         /\ job.p \in Pass \union {NoPass} /\ job.e \in Pass \union {NoPass}
         /\ job.files \in SUBSET File
         /\ job.todo \in Seq(Step)
  BY DEF TypesOK, JobOK, Job

LEMMA SlotTypes ==
  ASSUME TypesOK, NEW v \in Vessel, NEW f \in Face
  PROVE  /\ slots[v] \in [Face -> [Role -> Slot]]
         /\ slots[v][f] \in [Role -> Slot]
         /\ \A r \in Role : slots[v][f][r] \in Slot /\ slots[v][f][r].files \in SUBSET File
  BY DEF TypesOK, StorageTypes, Slot

LEMMA FilesInTypes ==
  ASSUME TypesOK, NEW v \in Vessel, NEW F \in SUBSET Face
  PROVE  FilesIn(v, F) \in SUBSET File
  BY SlotTypes DEF FilesIn

LEMMA StorageStepTypes ==
  ASSUME TypesOK, StorageStep
  PROVE  TypesOK'
  <1>j. ASSUME ~Idle, Advance \/ job' = NoJob,
               Head(job.todo) = "keyrm" /\ job' # NoJob => slots' = AllNoise,
               StorageTypes', RegistryTypes', HistoryTypes'
        PROVE  TypesOK'
    BY <1>j, StepJob DEF TypesOK
  <1>r. UNCHANGED <<registry, refs>> => RegistryTypes'
    BY DEF TypesOK, RegistryTypes, registry
  <1>h. ASSUME gone' \in SUBSET File, UNCHANGED <<truth, armed, wiped>>,
               struck' \subseteq struck \union ({job.v} \X Face)
        PROVE  HistoryTypes'
    BY <1>h, JobTypes DEF TypesOK, HistoryTypes
  <1>u. UNCHANGED history => HistoryTypes'
    BY DEF TypesOK, HistoryTypes, history
  <1>s. ASSUME slots' \in [Vessel -> [Face -> [Role -> Slot]]],
               present' \subseteq present \union {job.v}, accessKey' \in {"none", "live", "torn"}
        PROVE  StorageTypes'
    BY <1>s, JobTypes DEF TypesOK, StorageTypes
  <1>g. gone \union FilesIn(job.v, Face) \in SUBSET File
        /\ gone \union FilesIn(job.v, {job.f}) \in SUBSET File /\ gone \in SUBSET File
    <2>1. {job.f} \in SUBSET Face /\ Face \in SUBSET Face
      BY JobTypes
    <2> QED
      BY <2>1, JobTypes, FilesInTypes DEF TypesOK, HistoryTypes
  <1>b. [slots EXCEPT ![job.v] = BlankContainer] \in [Vessel -> [Face -> [Role -> Slot]]]
    BY Blanks, JobTypes DEF TypesOK, StorageTypes
  <1>o. slots \in [Vessel -> [Face -> [Role -> Slot]]] /\ accessKey \in {"none", "live", "torn"}
    BY DEF TypesOK, StorageTypes
  <1>1. CASE WriteSlotFails
    BY <1>1, <1>j, <1>r, <1>u, <1>s, <1>o DEF WriteSlotFails, At, storage
  <1>2. ASSUME NEW role \in Role, WriteSlot(role) PROVE TypesOK'
    <2> DEFINE new == [pass |-> IF role = "open" THEN job.p ELSE job.e, files |-> job.files]
    <2>1. new \in Slot
      BY JobTypes DEF Slot
    <2>2. [slots[job.v][job.f] EXCEPT ![role] = new] \in [Role -> Slot]
      BY <2>1, SlotTypes, JobTypes
    <2>3. [slots EXCEPT ![job.v][job.f][role] = new] \in [Vessel -> [Face -> [Role -> Slot]]]
      BY <2>2, SlotTypes, JobTypes, <1>o
    <2>4. StorageTypes'
      BY <1>2, <2>3, <1>s DEF WriteSlot
    <2>5. Head(job.todo) # "keyrm"
      BY <1>2 DEF WriteSlot, At, SlotStep
    <2>6. HistoryTypes'
      BY <1>2, <1>h, <1>g DEF WriteSlot
    <2> QED
      BY <1>2, <1>j, <1>r, <2>4, <2>5, <2>6 DEF WriteSlot, At
  <1>3. CASE EraseFace
    <2>1. [slots EXCEPT ![job.v][job.f] = BlankFace] \in [Vessel -> [Face -> [Role -> Slot]]]
      BY Blanks, SlotTypes, JobTypes, <1>o
    <2>2. HistoryTypes'
      BY <1>3, <1>h, <1>g DEF EraseFace
    <2> QED
      BY <1>3, <1>j, <1>r, <1>s, <1>o, <2>1, <2>2 DEF EraseFace, At
  <1>4. CASE DestroyAccessKeys
    <2>1. StorageTypes' /\ HistoryTypes'
      BY <1>4, <1>h, <1>s, <1>g, Blanks DEF DestroyAccessKeys
    <2> QED
      BY <1>4, <1>j, <1>r, <2>1 DEF DestroyAccessKeys, At
  <1>5. CASE BrickContainer
    <2>1. StorageTypes' /\ HistoryTypes'
      BY <1>5, <1>h, <1>s, <1>g, <1>b, <1>o DEF BrickContainer
    <2> QED
      BY <1>5, <1>j, <1>r, <2>1 DEF BrickContainer, At
  <1>6. CASE UnlinkAccessKey
    <2>1. StorageTypes' /\ HistoryTypes'
      BY <1>6, <1>h, <1>s, <1>g, Blanks DEF UnlinkAccessKey
    <2> QED
      BY <1>6, <1>j, <1>r, <2>1 DEF UnlinkAccessKey, At
  <1>7. CASE WriteNewAccessKey
    BY <1>7, <1>j, <1>r, <1>u, <1>s, <1>o DEF WriteNewAccessKey, At
  <1>8. CASE FormatContainer
    BY <1>8, <1>j, <1>r, <1>u, <1>s, <1>b, <1>o DEF FormatContainer, At
  <1>9. CASE UnlinkContainer
    BY <1>9, <1>j, <1>r, <1>u, <1>s, <1>o DEF UnlinkContainer, At
  <1>10. CASE ClearReferences
    <2>1. RegistryTypes'
      BY <1>10 DEF ClearReferences, TypesOK, RegistryTypes, registry
    <2>2. StorageTypes'
      BY <1>10 DEF ClearReferences, TypesOK, StorageTypes, storage
    <2>3. HistoryTypes'
      BY <1>10, JobTypes DEF ClearReferences, At, Acknowledge, TypesOK, HistoryTypes
    <2> QED
      BY <1>10, <1>j, <2>1, <2>2, <2>3 DEF ClearReferences, At
  <1> QED
    BY <1>1, <1>2, <1>3, <1>4, <1>5, <1>6, <1>7, <1>8, <1>9, <1>10 DEF StorageStep, Role

(* Whatever a registry step saves, it saves records. *)
LEMMA RecordsTypes ==
  ASSUME TypesOK
  PROVE  /\ \A v \in Vessel, f \in Face : FaceRecord(v, f) \in Detail
         /\ Records \in [Vessel -> [Face -> Detail]]
         /\ \A step : NewRecords(step) \in [Vessel -> [Face -> Detail]]
         /\ \A reg : \A det \in [Vessel -> [Face -> Detail]] :
               SealFor(reg, det) \in [Vessel -> [Face -> Detail]]
         /\ [v \in Vessel |-> FreshFaces] \in [Vessel -> [Face -> Detail]]
  <1>1. \A v \in Vessel, f \in Face : FaceRecord(v, f) \in Detail
    BY FreshTypes DEF FaceRecord, TypesOK, RegistryTypes
  <1>2. Records \in [Vessel -> [Face -> Detail]]
    BY <1>1 DEF Records
  <1>3. ASSUME NEW f \in Face, NEW d \in Detail
        PROVE  Updated(f, d) \in [Vessel -> [Face -> Detail]]
    BY <1>2, JobTypes DEF Updated
  <1>4. "face_a" \in Face /\ "face_b" \in Face /\ job.f \in Face /\ job.v \in Vessel
    BY JobTypes DEF Face
  <1>5. ASSUME NEW step PROVE NewRecords(step) \in [Vessel -> [Face -> Detail]]
    <2> DEFINE d == FaceRecord(job.v, job.f)
    <2>1. /\ [d EXCEPT !.auth = job.e] \in Detail /\ [d EXCEPT !.cred = TRUE] \in Detail
          /\ FreshDetail \in Detail
      BY <1>1, <1>4, JobTypes, FreshTypes DEF Detail
    <2> QED
      BY <1>2, <1>3, <1>4, <2>1 DEF NewRecords
  <1>6. \A reg : \A det \in [Vessel -> [Face -> Detail]] :
          SealFor(reg, det) \in [Vessel -> [Face -> Detail]]
    BY FreshTypes DEF SealFor
  <1>7. [v \in Vessel |-> FreshFaces] \in [Vessel -> [Face -> Detail]]
    BY FreshTypes
  <1> QED
    BY <1>1, <1>2, <1>5, <1>6, <1>7

LEMMA SaveRegistryTypes ==
  ASSUME TypesOK, NEW step \in RegistrySteps, SaveRegistry(step)
  PROVE  TypesOK'
  <1>1. JobOK'
    BY StepJob DEF SaveRegistry, At, RegistrySteps
  <1>2. StorageTypes'
    BY DEF SaveRegistry, storage, TypesOK, StorageTypes
  <1>3. NewIndex(step) \in SUBSET Vessel
    BY JobTypes DEF NewIndex, TypesOK, RegistryTypes
  <1>4. RegistryTypes'
    BY <1>3, RecordsTypes DEF SaveRegistry, registry, TypesOK, RegistryTypes
  <1>5. truth[job.v][job.f] \union job.files \in SUBSET File
    BY JobTypes DEF TypesOK, HistoryTypes
  <1>6. truth' \in [Vessel -> [Face -> SUBSET File]]
    BY <1>5, JobTypes DEF SaveRegistry, Acknowledge, TypesOK, HistoryTypes
  <1>7. armed' \subseteq Vessel \X Face /\ wiped' \subseteq Vessel
    BY JobTypes DEF SaveRegistry, Acknowledge, TypesOK, HistoryTypes
  <1>8. HistoryTypes'
    BY <1>6, <1>7 DEF SaveRegistry, Acknowledge, TypesOK, HistoryTypes
  <1> QED
    BY <1>1, <1>2, <1>4, <1>8 DEF TypesOK

LEMMA BlankedTypes ==
  ASSUME TypesOK, NEW k
  PROVE  /\ BlankedUpTo(k) \in [Face -> [Role -> Slot]]
         /\ \A f \in Face, r \in Role : BlankedUpTo(k)[f][r] \in {Noise, slots[job.v][f][r]}
  BY Blanks, SlotTypes, JobTypes DEF BlankedUpTo

(* What power loss leaves of the slots. *)
LEMMA CrashSlots ==
  ASSUME Crash
  PROVE  \/ slots' = slots
         \/ \E r \in Role : slots' = [slots EXCEPT ![job.v][job.f][r] = Noise]
         \/ \E k \in 1..3 : slots' = [slots EXCEPT ![job.v] = BlankedUpTo(k)]
         \/ slots' = AllNoise
         \/ slots' = [slots EXCEPT ![job.v] = BlankContainer]
  BY DEF Crash, CrashInStorage, CrashInRegistry, storage, Role

LEMMA CrashTypes ==
  ASSUME TypesOK, Crash
  PROVE  TypesOK'
  <1>1. JobOK'
    BY StepJob DEF Crash
  <1>o. /\ slots \in [Vessel -> [Face -> [Role -> Slot]]] /\ job.v \in Vessel
        /\ present \subseteq Vessel /\ accessKey \in {"none", "live", "torn"}
    BY JobTypes DEF TypesOK, StorageTypes
  <1>b. ASSUME NEW c \in [Face -> [Role -> Slot]]
        PROVE  [slots EXCEPT ![job.v] = c] \in [Vessel -> [Face -> [Role -> Slot]]]
    BY <1>o
  <1>r. ASSUME NEW r \in Role
        PROVE  [slots EXCEPT ![job.v][job.f][r] = Noise] \in [Vessel -> [Face -> [Role -> Slot]]]
    <2>1. [slots[job.v][job.f] EXCEPT ![r] = Noise] \in [Role -> Slot]
      BY Blanks, SlotTypes, JobTypes
    <2> QED
      BY <2>1, SlotTypes, JobTypes, <1>o
  <1>2. slots' \in [Vessel -> [Face -> [Role -> Slot]]]
    <2>1. CASE slots' = slots
      BY <2>1, <1>o
    <2>2. CASE \E r \in Role : slots' = [slots EXCEPT ![job.v][job.f][r] = Noise]
      BY <2>2, <1>r
    <2>3. CASE \E k \in 1..3 : slots' = [slots EXCEPT ![job.v] = BlankedUpTo(k)]
      BY <2>3, <1>b, BlankedTypes
    <2>4. CASE slots' = AllNoise \/ slots' = [slots EXCEPT ![job.v] = BlankContainer]
      BY <2>4, <1>b, Blanks
    <2> QED
      BY <2>1, <2>2, <2>3, <2>4, CrashSlots
  <1>3. present' \subseteq Vessel /\ accessKey' \in {"none", "live", "torn"}
    BY <1>o DEF Crash, CrashInStorage, CrashInRegistry, storage
  <1>4. struck' \subseteq struck \union ({job.v} \X Face)
    BY DEF Crash, CrashInStorage, CrashInRegistry
  <1>t. truth' \in [Vessel -> [Face -> SUBSET File]] /\ armed' \subseteq Vessel \X Face
    <2>1. truth \in [Vessel -> [Face -> SUBSET File]] /\ armed \subseteq Vessel \X Face
      BY DEF TypesOK, HistoryTypes
    <2>2. CASE CrashInStorage
      <3>1. armed' = armed /\ truth' \in {truth, [truth EXCEPT ![job.v][job.f] = {}]}
        BY <2>2 DEF CrashInStorage
      <3>2. [truth EXCEPT ![job.v][job.f] = {}] \in [Vessel -> [Face -> SUBSET File]]
        BY <2>1, <1>o
      <3> QED
        BY <2>1, <3>1, <3>2
    <2>3. CASE CrashInRegistry
      BY <2>1, <2>3 DEF CrashInRegistry, NothingPromised, NothingStored
    <2> QED
      BY <2>2, <2>3 DEF Crash
  <1>5. StorageTypes' /\ HistoryTypes'
    BY <1>o, <1>2, <1>3, <1>4, <1>t DEF Crash, TypesOK, StorageTypes, HistoryTypes
  <1>6. ASSUME NEW step PROVE NewIndex(step) \in SUBSET Vessel
    BY <1>o DEF NewIndex, TypesOK, RegistryTypes
  <1>7. RegistryTypes'
    BY <1>6, RecordsTypes
       DEF Crash, CrashInStorage, CrashInRegistry, registry, TypesOK, RegistryTypes
  <1> QED
    BY <1>1, <1>5, <1>7 DEF TypesOK

LEMMA NextTypes == TypesOK /\ [Next]_vars => TypesOK'
  <1> SUFFICES ASSUME TypesOK, [Next]_vars PROVE TypesOK'
    OBVIOUS
  <1>1. CASE Next
    BY <1>1, StartTypes, StorageStepTypes, SaveRegistryTypes, CrashTypes DEF Next
  <1>2. CASE UNCHANGED vars
    BY <1>2 DEF vars, storage, registry, history, TypesOK, StorageTypes, RegistryTypes,
                HistoryTypes, JobOK, PlanOf
  <1> QED
    BY <1>1, <1>2

(* The invariant behind type correctness. *)
THEOREM TypesHold == Spec => []TypesOK
  BY InitTypes, NextTypes, PTL DEF Spec

(* Every reachable state of the store is well typed: no write, wipe, crash *)
(* or torn file leaves a Face whose record cannot be read.                 *)
THEOREM TypeCorrect == Spec => []TypeOK
  <1>1. TypesOK => TypeOK
    <2> SUFFICES ASSUME TypesOK PROVE TypeOK
      OBVIOUS
    <2>1. Range(job.todo) \subseteq Step
      BY JobTypes DEF Range
    <2> QED
      BY <2>1, JobTypes DEF TypesOK, StorageTypes, RegistryTypes, HistoryTypes, TypeOK
  <1> QED
    BY <1>1, TypesHold, PTL

-----------------------------------------------------------------------------
(* Destruction *)

LEMMA GoneByContent ==
  GoneStaysGone <=> \A v \in Vessel, f \in Face : Content(v, f) \intersect gone = {}
  BY DEF GoneStaysGone, Content, Role

LEMMA InitEnds == Init => EndsInv
  <1> SUFFICES ASSUME Init PROVE EndsInv
    OBVIOUS
  <1>1. \A v \in Vessel, f \in Face : Content(v, f) = {}
    BY Blanks DEF Init, Content, Role
  <1>2. Apart /\ HoldsNoneGone /\ GoneStaysGone
    BY <1>1, NoJobOK, GoneByContent DEF Init, Apart, HoldsNoneGone
  <1>3. BrickLeavesNothing
    BY DEF Init, BrickLeavesNothing
  <1> QED
    BY <1>2, <1>3, InitTypes DEF EndsInv

(* A file an operation brings is new, or its Face holds it already. *)
LEMMA StoredIsAll ==
  ASSUME TypesOK, NEW x, x \notin Stored
  PROVE  x \notin gone /\ \A v \in Vessel, f \in Face : x \notin Content(v, f)
  BY DEF Stored, Content, Role

LEMMA BeginEnds ==
  ASSUME EndsInv, TypesOK', UNCHANGED <<slots, gone, struck>>,
         NEW v \in Vessel, NEW f \in Face, job'.v = v, job'.f = f,
         \A x \in job'.files : x \in Content(v, f) \/ x \notin Stored
  PROVE  EndsInv'
  <1>1. \A w \in Vessel, g \in Face : Content(w, g)' = Content(w, g)
    BY DEF Content
  <1>2. \A x \in job'.files : x \notin gone
    BY StoredIsAll, GoneByContent DEF EndsInv
  <1>3. \A w \in Vessel, g \in Face : <<w, g>> # <<v, f>> =>
          job'.files \intersect Content(w, g) = {}
    BY StoredIsAll DEF EndsInv, Apart
  <1>4. Apart'
    BY <1>1, <1>3 DEF EndsInv, Apart
  <1>5. HoldsNoneGone'
    BY <1>2 DEF HoldsNoneGone
  <1>6. GoneStaysGone' /\ BrickLeavesNothing'
    BY DEF EndsInv, GoneStaysGone, BrickLeavesNothing
  <1> QED
    BY <1>4, <1>5, <1>6 DEF EndsInv

LEMMA StartEnds ==
  ASSUME EndsInv, Start
  PROVE  EndsInv'
  <1>t. TypesOK'
    BY StartTypes DEF EndsInv
  <1>n. "face_a" \in Face
    BY DEF Face
  <1>m. \A v, f, p : Namespace(v, f, p) \subseteq Content(v, f)
    BY DEF Namespace, Content
  <1>0. ASSUME NEW v \in Vessel, NEW op, NEW todo, EndVessel(op, v, todo) PROVE EndsInv'
    BY <1>0, <1>t, <1>n, BeginEnds DEF EndVessel, Begin, storage
  <1>1. ASSUME NEW v \in Vessel, CreateVessel(v) PROVE EndsInv'
    BY <1>1, <1>t, <1>n, BeginEnds DEF CreateVessel, Begin, storage
  <1>2. ASSUME NEW v \in Vessel, OpenVessel(v) PROVE EndsInv'
    BY <1>2, <1>t, <1>n, BeginEnds DEF OpenVessel, Begin, storage, history
  <1>3. ASSUME NEW v \in Vessel, NEW f \in Face, NEW p, NEW e, NEW x, AddPayload(v, f, p, e, x)
        PROVE  EndsInv'
    <2>1. job'.v = v /\ job'.f = f /\ job'.files = Namespace(v, f, p) \union {x}
      BY <1>3 DEF AddPayload, Begin
    <2>2. x \notin Stored /\ UNCHANGED <<slots, gone, struck>>
      BY <1>3 DEF AddPayload, storage
    <2> QED
      BY <1>t, <1>m, <2>1, <2>2, BeginEnds
  <1>4. ASSUME NEW v \in Vessel, NEW f \in Face, NEW p, NEW e, RewriteFiller(v, f, p, e)
        PROVE  EndsInv'
    <2>1. job'.v = v /\ job'.f = f /\ job'.files = Namespace(v, f, p)
      BY <1>4 DEF RewriteFiller, Begin
    <2>2. UNCHANGED <<slots, gone, struck>>
      BY <1>4 DEF RewriteFiller, storage
    <2> QED
      BY <1>t, <1>m, <2>1, <2>2, BeginEnds
  <1>5. ASSUME NEW v \in Vessel, NEW f \in Face, NEW p, NEW x, RemoveFile(v, f, p, x)
        PROVE  EndsInv'
    <2>1. job'.v = v /\ job'.f = f /\ job'.files = Namespace(v, f, p) \ {x}
      BY <1>5 DEF RemoveFile, Begin
    <2>2. UNCHANGED <<slots, gone, struck>>
      BY <1>5 DEF RemoveFile, storage
    <2> QED
      BY <1>t, <1>m, <2>1, <2>2, BeginEnds
  <1>6. ASSUME NEW v \in Vessel, NEW f \in Face, NEW p, Retrieve(v, f, p) PROVE EndsInv'
    <2>1. job'.v = v /\ job'.f = f /\ job'.files = Namespace(v, f, p)
      BY <1>6 DEF Retrieve, Begin
    <2>2. UNCHANGED <<slots, gone, struck>>
      BY <1>6 DEF Retrieve, storage, history
    <2> QED
      BY <1>t, <1>m, <2>1, <2>2, BeginEnds
  <1>7. ASSUME NEW v \in Vessel, NEW f \in Face, NEW e, DestroyFace(v, f, e) PROVE EndsInv'
    BY <1>7, <1>t, BeginEnds DEF DestroyFace, Begin, storage
  <1>8. ASSUME NEW v \in Vessel,
               DestroyVessel(v) \/ DeleteVessel(v) \/ EmergencyBrick(v) \/ EmergencyInitialize(v)
        PROVE  EndsInv'
    BY <1>8, <1>0 DEF DestroyVessel, DeleteVessel, EmergencyBrick, EmergencyInitialize
  <1>9. ASSUME NEW v \in Vessel, NEW f \in Face, NEW web, PurgeOther(v, f, web) PROVE EndsInv'
    BY <1>9, <1>t, BeginEnds DEF PurgeOther, Begin, storage
  <1>10. ASSUME NEW f \in Face, CaptureReference(f) PROVE EndsInv'
    BY <1>10, <1>t DEF CaptureReference, storage, history, EndsInv, Apart, Content, HoldsNoneGone,
                       GoneStaysGone, BrickLeavesNothing
  <1> QED
    BY <1>1, <1>2, <1>3, <1>4, <1>5, <1>6, <1>7, <1>8, <1>9, <1>10 DEF Start

(* A step after which every slot is what it was, or noise. *)
Shrunk ==
    \A v \in Vessel, f \in Face, r \in Role : slots'[v][f][r] \in {slots[v][f][r], Noise}

(* Leaving the files of the operation, or none of them. *)
JobShrunk ==
    /\ job'.files \in {{}, job.files}
    /\ job'.files # {} => <<job'.v, job'.f>> = <<job.v, job.f>>

LEMMA BlankStaysBlank ==
  ASSUME TypesOK, TypesOK', Shrunk, NEW v \in Vessel, NEW f \in Face, slots[v][f] = BlankFace
  PROVE  slots'[v][f] = BlankFace
  <1>1. slots'[v][f] \in [Role -> Slot]
    BY DEF TypesOK, StorageTypes
  <1>2. \A r \in Role : slots'[v][f][r] = Noise
    BY Blanks DEF Shrunk
  <1> QED
    BY <1>1, <1>2 DEF BlankFace

LEMMA ContentShrinks ==
  ASSUME Shrunk, NEW v \in Vessel, NEW f \in Face
  PROVE  Content(v, f)' \subseteq Content(v, f)
  <1>1. "open" \in Role /\ "purge" \in Role
    BY DEF Role
  <1> QED
    BY <1>1, Blanks DEF Shrunk, Content

LEMMA ShrinkEnds ==
  ASSUME EndsInv, TypesOK', Shrunk, JobShrunk,
         \A v \in Vessel, f \in Face : Content(v, f)' \intersect gone' = {},
         job'.files \intersect gone' = {},
         \A v \in Vessel, f \in Face :
            <<v, f>> \in struck' => <<v, f>> \in struck \/ slots'[v][f] = BlankFace
  PROVE  EndsInv'
  <1>1. Apart'
    <2> SUFFICES ASSUME NEW v \in Vessel, NEW w \in Vessel, NEW f \in Face, NEW g \in Face,
                        <<v, f>> # <<w, g>>
                 PROVE  /\ Content(v, f)' \intersect Content(w, g)' = {}
                        /\ <<job'.v, job'.f>> = <<v, f>> =>
                              job'.files \intersect Content(w, g)' = {}
      BY DEF Apart
    <2>1. Content(v, f)' \subseteq Content(v, f) /\ Content(w, g)' \subseteq Content(w, g)
      BY ContentShrinks
    <2>2. /\ Content(v, f) \intersect Content(w, g) = {}
          /\ <<job.v, job.f>> = <<v, f>> => job.files \intersect Content(w, g) = {}
      BY DEF EndsInv, Apart
    <2>3. job'.files = {} \/ (job'.files = job.files /\ <<job'.v, job'.f>> = <<job.v, job.f>>)
      BY DEF JobShrunk
    <2> QED
      BY <2>1, <2>2, <2>3
  <1>2. HoldsNoneGone'
    BY DEF HoldsNoneGone
  <1>3. GoneStaysGone'
    BY DEF GoneStaysGone, Content, Role
  <1>4. BrickLeavesNothing'
    BY BlankStaysBlank DEF EndsInv, BrickLeavesNothing
  <1> QED
    BY <1>1, <1>2, <1>3, <1>4 DEF EndsInv

(* A step that destroys nothing for good. *)
LEMMA ShrinkKeepsGone ==
  ASSUME EndsInv, Shrunk, JobShrunk, gone' = gone
  PROVE  /\ \A v \in Vessel, f \in Face : Content(v, f)' \intersect gone' = {}
         /\ job'.files \intersect gone' = {}
  BY ContentShrinks, GoneByContent DEF EndsInv, HoldsNoneGone, JobShrunk

(* The step at hand: what the plan says of it. *)
LEMMA AtPlan ==
  ASSUME TypesOK, NEW step, At(step)
  PROVE  /\ step \in Ending => job.files = {}
         /\ step = "brick" => slots = AllNoise
  <1>1. job.todo \in Seq(Step) /\ job.todo # <<>>
    BY DEF At, Idle, TypesOK, JobOK, Job
  <1>2. Len(job.todo) \in Nat \ {0}
    BY <1>1, EmptySeq
  <1>3. 1 \in 1..Len(job.todo) /\ job.todo[1] = step
    BY <1>2, HeadIsFirst DEF At
  <1> QED
    BY <1>3 DEF TypesOK, JobOK, PlanOf

(* All of it is noise: nothing is left of anything. *)
LEMMA AllNoiseEnds ==
  ASSUME EndsInv, TypesOK', JobShrunk, job.files = {}, slots' = AllNoise, struck' = struck
  PROVE  EndsInv'
  <1>1. Shrunk
    BY Blanks DEF Shrunk
  <1>2. \A v \in Vessel, f \in Face : Content(v, f)' = {}
    BY Blanks DEF Content, Role
  <1>3. job'.files = {}
    BY DEF JobShrunk
  <1> QED
    BY <1>1, <1>2, <1>3, ShrinkEnds

LEMMA EraseFaceEnds ==
  ASSUME EndsInv, EraseFace
  PROVE  EndsInv'
  <1>1. TypesOK /\ TypesOK' /\ JobShrunk
    BY StepJob, StorageStepTypes DEF EndsInv, StorageStep, JobShrunk, EraseFace, At
  <1>2. job.files = {} /\ job.v \in Vessel /\ job.f \in Face
    BY <1>1, AtPlan, JobTypes DEF EraseFace, Ending
  <1>3. slots' = [slots EXCEPT ![job.v][job.f] = BlankFace]
    BY DEF EraseFace
  <1>4. \A v \in Vessel, f \in Face :
          slots'[v][f] = IF <<v, f>> = <<job.v, job.f>> THEN BlankFace ELSE slots[v][f]
    BY <1>2, <1>3, SlotTypes DEF TypesOK, EndsInv, StorageTypes
  <1>5. Shrunk
    BY <1>4, Blanks DEF Shrunk
  <1>6. FilesIn(job.v, {job.f}) = Content(job.v, job.f)
    BY DEF FilesIn, Content, Role
  <1>7. \A v \in Vessel, f \in Face :
          <<v, f>> = <<job.v, job.f>> => Content(v, f)' = {}
    BY <1>2, <1>4, Blanks DEF Content, Role
  <1>8. ASSUME NEW v \in Vessel, NEW f \in Face PROVE Content(v, f)' \intersect gone' = {}
    <2>1. CASE <<v, f>> = <<job.v, job.f>>
      BY <1>7, <2>1
    <2>2. CASE <<v, f>> # <<job.v, job.f>>
      <3>1. Content(v, f)' \subseteq Content(v, f)
        BY <1>5, ContentShrinks
      <3>2. Content(v, f) \intersect Content(job.v, job.f) = {} /\ Content(v, f) \intersect gone = {}
        BY <1>2, <2>2, GoneByContent DEF EndsInv, Apart
      <3> QED
        BY <1>6, <3>1, <3>2 DEF EraseFace
    <2> QED
      BY <2>1, <2>2
  <1>9. job'.files = {}
    BY <1>1, <1>2 DEF JobShrunk
  <1>10. \A v \in Vessel, f \in Face : <<v, f>> \in struck' => <<v, f>> \in struck
    BY DEF EraseFace
  <1> QED
    BY <1>1, <1>5, <1>8, <1>9, <1>10, ShrinkEnds

LEMMA WriteSlotEnds ==
  ASSUME EndsInv, NEW role \in Role, WriteSlot(role)
  PROVE  EndsInv'
  <1>1. TypesOK /\ TypesOK'
    BY StorageStepTypes DEF EndsInv, StorageStep, Role
  <1>2. JobShrunk
    BY <1>1, StepJob DEF JobShrunk, WriteSlot, At, SlotStep
  <1>3. job.v \in Vessel /\ job.f \in Face
    BY <1>1, JobTypes
  <1> DEFINE new == [pass |-> IF role = "open" THEN job.p ELSE job.e, files |-> job.files]
  <1>4. \A v \in Vessel, f \in Face, r \in Role :
          slots'[v][f][r] = IF <<v, f, r>> = <<job.v, job.f, role>> THEN new ELSE slots[v][f][r]
    BY <1>1, <1>3, SlotTypes DEF WriteSlot, TypesOK, StorageTypes
  <1>5. \A v \in Vessel, f \in Face : <<v, f>> # <<job.v, job.f>> => slots'[v][f] = slots[v][f]
    BY <1>1, <1>3, SlotTypes DEF WriteSlot, TypesOK, StorageTypes
  <1>6. \A v \in Vessel, f \in Face :
          /\ Content(v, f)' \subseteq Content(v, f) \union job.files
          /\ <<v, f>> # <<job.v, job.f>> => Content(v, f)' = Content(v, f)
    BY <1>4, <1>5 DEF Content, Role
  <1>7. job'.files = {} \/ (job'.files = job.files /\ <<job'.v, job'.f>> = <<job.v, job.f>>)
    BY <1>2 DEF JobShrunk
  <1>8. Apart'
    <2> SUFFICES ASSUME NEW v \in Vessel, NEW w \in Vessel, NEW f \in Face, NEW g \in Face,
                        <<v, f>> # <<w, g>>
                 PROVE  /\ Content(v, f)' \intersect Content(w, g)' = {}
                        /\ <<job'.v, job'.f>> = <<v, f>> =>
                              job'.files \intersect Content(w, g)' = {}
      BY DEF Apart
    <2>1. /\ Content(v, f) \intersect Content(w, g) = {}
          /\ <<job.v, job.f>> = <<v, f>> => job.files \intersect Content(w, g) = {}
          /\ <<job.v, job.f>> = <<w, g>> => job.files \intersect Content(v, f) = {}
      BY DEF EndsInv, Apart
    <2>2. CASE <<w, g>> = <<job.v, job.f>>
      BY <1>6, <1>7, <2>1, <2>2
    <2>3. CASE <<w, g>> # <<job.v, job.f>>
      BY <1>6, <1>7, <2>1, <2>3
    <2> QED
      BY <2>2, <2>3
  <1>9. gone' = gone
    BY DEF WriteSlot
  <1>10. HoldsNoneGone'
    BY <1>7, <1>9 DEF EndsInv, HoldsNoneGone
  <1>11. \A v \in Vessel, f \in Face : Content(v, f)' \intersect gone' = {}
    BY <1>6, <1>9, GoneByContent DEF EndsInv, HoldsNoneGone
  <1>12. GoneStaysGone'
    BY <1>11 DEF GoneStaysGone, Content, Role
  <1>13. \A v \in Vessel, f \in Face :
           <<v, f>> \in struck' =>
             <<v, f>> \in struck /\ <<v, f>> # <<job.v, job.f>>
    BY DEF WriteSlot
  <1>14. BrickLeavesNothing'
    BY <1>5, <1>13 DEF EndsInv, BrickLeavesNothing
  <1> QED
    BY <1>1, <1>8, <1>10, <1>12, <1>14 DEF EndsInv

LEMMA StorageStepEnds ==
  ASSUME EndsInv, StorageStep
  PROVE  EndsInv'
  <1>t. TypesOK /\ TypesOK'
    BY StorageStepTypes DEF EndsInv
  <1>j. ASSUME ~Idle, Advance \/ job' = NoJob, Head(job.todo) = "keyrm" /\ job' # NoJob => slots' = AllNoise
        PROVE  JobShrunk
    BY <1>t, <1>j, StepJob DEF JobShrunk
  <1>s. ASSUME slots' = slots, gone' = gone, struck' = struck, JobShrunk PROVE EndsInv'
    <2>1. Shrunk
      BY <1>s DEF Shrunk
    <2> QED
      BY <1>s, <1>t, <2>1, ShrinkKeepsGone, ShrinkEnds
  <1>b. ASSUME slots' = [slots EXCEPT ![job.v] = BlankContainer]
        PROVE  /\ Shrunk
               /\ \A f \in Face : slots'[job.v][f] = BlankFace
    <2>1. job.v \in Vessel /\ slots \in [Vessel -> [Face -> [Role -> Slot]]]
      BY <1>t, JobTypes DEF TypesOK, StorageTypes
    <2>2. \A v \in Vessel : slots'[v] = IF v = job.v THEN BlankContainer ELSE slots[v]
      BY <1>b, <2>1
    <2> QED
      BY <2>1, <2>2, Blanks DEF Shrunk
  <1>1. CASE WriteSlotFails
    BY <1>1, <1>j, <1>s DEF WriteSlotFails, At, storage, history
  <1>2. CASE WriteSlot("open") \/ WriteSlot("purge")
    BY <1>2, WriteSlotEnds DEF Role
  <1>3. CASE EraseFace
    BY <1>3, EraseFaceEnds
  <1>4. CASE DestroyAccessKeys \/ UnlinkAccessKey
    <2>1. job.files = {} /\ slots' = AllNoise /\ struck' = struck
      BY <1>4, <1>t, AtPlan DEF DestroyAccessKeys, UnlinkAccessKey, Ending
    <2>2. JobShrunk
      BY <1>4, <1>j DEF DestroyAccessKeys, UnlinkAccessKey, At
    <2> QED
      BY <1>t, <2>1, <2>2, AllNoiseEnds
  <1>5. CASE BrickContainer
    <2>1. JobShrunk
      BY <1>5, <1>j DEF BrickContainer, At
    <2>2. \A v \in Vessel, f \in Face :
            <<v, f>> \in struck' => <<v, f>> \in struck \/ v = job.v
      BY <1>5 DEF BrickContainer
    <2> QED
      BY <1>5, <1>b, <1>t, <2>1, <2>2, ShrinkKeepsGone, ShrinkEnds DEF BrickContainer
  <1>6. CASE FormatContainer
    <2>1. JobShrunk
      BY <1>6, <1>j DEF FormatContainer, At
    <2> QED
      BY <1>6, <1>b, <1>t, <2>1, ShrinkKeepsGone, ShrinkEnds DEF FormatContainer, history
  <1>7. CASE WriteNewAccessKey \/ UnlinkContainer
    BY <1>7, <1>j, <1>s DEF WriteNewAccessKey, UnlinkContainer, At, history
  <1>8. CASE ClearReferences
    BY <1>8, <1>j, <1>s DEF ClearReferences, Acknowledge, At, storage
  <1> QED
    BY <1>1, <1>2, <1>3, <1>4, <1>5, <1>6, <1>7, <1>8 DEF StorageStep

LEMMA SaveRegistryEnds ==
  ASSUME EndsInv, NEW step \in RegistrySteps, SaveRegistry(step)
  PROVE  EndsInv'
  <1>1. TypesOK /\ TypesOK'
    BY SaveRegistryTypes DEF EndsInv
  <1>2. JobShrunk
    BY <1>1, StepJob DEF JobShrunk, SaveRegistry, At, RegistrySteps
  <1>3. Shrunk /\ gone' = gone /\ struck' = struck
    BY DEF SaveRegistry, Acknowledge, storage, Shrunk
  <1> QED
    BY <1>1, <1>2, <1>3, ShrinkKeepsGone, ShrinkEnds

(* Power loss: what is half done has only taken away, and an overwrite of  *)
(* a container that has begun found nothing but noise.                     *)
LEMMA CrashEnds ==
  ASSUME EndsInv, Crash
  PROVE  EndsInv'
  <1>1. TypesOK /\ TypesOK'
    BY CrashTypes DEF EndsInv
  <1>2. JobShrunk /\ gone' = gone
    BY <1>1, StepJob DEF JobShrunk, Crash
  <1>3. job.v \in Vessel /\ job.f \in Face /\ slots \in [Vessel -> [Face -> [Role -> Slot]]]
    BY <1>1, JobTypes DEF TypesOK, StorageTypes
  <1>4. Shrunk
    <2>1. CASE slots' = slots
      BY <2>1 DEF Shrunk
    <2>2. ASSUME NEW r \in Role, slots' = [slots EXCEPT ![job.v][job.f][r] = Noise] PROVE Shrunk
      BY <1>1, <1>3, <2>2, SlotTypes DEF Shrunk
    <2>3. ASSUME NEW k \in 1..3, slots' = [slots EXCEPT ![job.v] = BlankedUpTo(k)] PROVE Shrunk
      BY <1>1, <1>3, <2>3, BlankedTypes DEF Shrunk
    <2>4. CASE slots' = AllNoise
      BY <2>4, Blanks DEF Shrunk
    <2>5. CASE slots' = [slots EXCEPT ![job.v] = BlankContainer]
      BY <1>3, <2>5, Blanks DEF Shrunk
    <2> QED
      BY <2>1, <2>2, <2>3, <2>4, <2>5, CrashSlots
  <1>5. ASSUME NEW v \in Vessel, NEW f \in Face, <<v, f>> \in struck'
        PROVE  <<v, f>> \in struck \/ slots'[v][f] = BlankFace
    <2>1. CASE At("brick")
      <3>1. slots[v][f] = BlankFace
        BY <1>1, <2>1, AtPlan, Blanks
      <3> QED
        BY <1>1, <1>4, <3>1, BlankStaysBlank
    <2>2. CASE ~At("brick")
      BY <1>5, <2>2 DEF Crash, CrashInStorage, CrashInRegistry
    <2> QED
      BY <2>1, <2>2
  <1> QED
    BY <1>1, <1>2, <1>4, <1>5, ShrinkKeepsGone, ShrinkEnds

LEMMA NextEnds == EndsInv /\ [Next]_vars => EndsInv'
  <1> SUFFICES ASSUME EndsInv, [Next]_vars PROVE EndsInv'
    OBVIOUS
  <1>1. CASE Next
    BY <1>1, StartEnds, StorageStepEnds, SaveRegistryEnds, CrashEnds DEF Next
  <1>2. CASE UNCHANGED vars
    <2>1. TypesOK'
      BY <1>2, NextTypes DEF EndsInv
    <2> QED
      BY <1>2, <2>1 DEF vars, storage, history, EndsInv, Apart, Content, HoldsNoneGone,
                        GoneStaysGone, BrickLeavesNothing
  <1> QED
    BY <1>1, <1>2

(* The invariant that carries the two theorems below. *)
THEOREM EndsInvHolds == Spec => []EndsInv
  BY InitEnds, NextEnds, PTL DEF Spec

(* Once a destruction is reported done no slot opens to a destroyed file   *)
(* again, whatever operations, crashes and torn writes follow.             *)
THEOREM GoneStaysGoneHolds == Spec => []GoneStaysGone
  <1>1. EndsInv => GoneStaysGone
    BY DEF EndsInv
  <1> QED
    BY <1>1, EndsInvHolds, PTL

(* A container whose overwrite has begun (silent_brick) holds nothing that *)
(* opens until it is stored to again, however much of it was overwritten.  *)
THEOREM BrickLeavesNothingHolds == Spec => []BrickLeavesNothing
  <1>1. EndsInv => BrickLeavesNothing
    BY DEF EndsInv
  <1> QED
    BY <1>1, EndsInvHolds, PTL

-----------------------------------------------------------------------------
(* What is promised: the steps an operation has left, and what they say *)

StepsOf(op) ==
    CASE op = "create" -> {"keyunlink", "keynew", "format", "register", "refs"}
      [] op = "initialize" -> {"keyunlink", "keynew", "format", "wipe_a", "wipe_b", "refs"}
      [] op = "destroy_vessel" -> {"keyrm", "brick", "unregister"}
      [] op = "delete" -> {"keyrm", "brick", "unlink", "unregister", "refs_if_last"}
      [] op = "brick" -> {"keyrm", "brick", "wipe_a", "wipe_b"}
      [] op = "destroy_face" -> {"erase", "reset"}
      [] op = "purge_other" -> {"erase", "touch"}
      [] op = "open" -> {"register"}
      [] op = "add" -> {"auth", "open_slot", "purge_slot", "touch", "cred"}
      [] op = "filler" -> {"open_slot", "purge_slot", "touch"}
      [] op = "remove" -> {"open_slot", "touch"}
      [] op = "retrieve" -> {"touch"}
      [] OTHER -> {}

(* The step an operation ends with, where its end acknowledges something. *)
LastOf(op) ==
    CASE op = "add" -> {"cred"} [] op = "brick" -> {"wipe_b"}
      [] op = "initialize" -> {"refs"} [] OTHER -> Step

(* The steps left are the operation's own. *)
OwnSteps(op, todo, e) ==
    \A i \in 1..Len(todo) :
        /\ todo[i] \in StepsOf(op)
        /\ i = Len(todo) => todo[i] \in LastOf(op)
        /\ todo[i] = "auth" => e # NoPass
FitsOf(j) == OwnSteps(j.op, j.todo, j.e)
Fits == FitsOf(job)

Done(step) == \A i \in 1..Len(job.todo) : job.todo[i] # step

KeyOps == {"create", "initialize", "destroy_vessel", "delete", "brick"}
WriteOps == {"add", "filler", "remove"}

(* An operation that takes away has given up the promise about it. *)
GivenUp ==
    /\ job.op \in KeyOps => \A v \in Vessel, f \in Face : truth[v][f] = {}
    /\ job.op \in {"create", "initialize"} => armed = {}
    /\ job.op \in {"destroy_vessel", "delete", "brick"} =>
          \A f \in Face : <<job.v, f>> \notin armed
    /\ job.op \in {"destroy_face", "purge_other"} => truth[job.v][job.f] = {}
    /\ job.op = "destroy_face" => <<job.v, job.f>> \notin armed

(* What a write has done so far. *)
WriteUnderway ==
    /\ job.op \in WriteOps =>
          /\ job.p # NoPass /\ job.v \in present
          /\ truth[job.v][job.f] \subseteq job.files
    /\ job.op = "add" =>
          /\ job.f \in refs /\ job.v \notin wiped
          /\ Done("open_slot") =>
                /\ accessKey = "live"
                /\ slots[job.v][job.f]["open"] = [pass |-> job.p, files |-> job.files]
          /\ job.e # NoPass /\ Done("auth") => FaceRecord(job.v, job.f).auth = job.e

(* What a whole-container wipe has forgotten so far. *)
WipeUnderway ==
    job.op \in {"brick", "initialize"} =>
        /\ Done("wipe_a") => FaceRecord(job.v, "face_a") = FreshDetail
        /\ Done("wipe_b") => FaceRecord(job.v, "face_b") = FreshDetail

Kept ==
    \A v \in Vessel, f \in Face : truth[v][f] # {} =>
        /\ v \in present /\ FaceRecord(v, f).cred
        /\ accessKey = "live" /\ slots[v][f]["open"].pass # NoPass
        /\ truth[v][f] \subseteq slots[v][f]["open"].files
Armed ==
    \A v \in Vessel, f \in Face : <<v, f>> \in armed =>
        /\ v \in present /\ f \in refs
        /\ FaceRecord(v, f).cred /\ FaceRecord(v, f).auth # NoPass
Forgotten == \A v \in wiped, f \in Face : FaceRecord(v, f) = FreshDetail

PlanInv == TypesOK /\ Fits /\ GivenUp /\ WriteUnderway /\ WipeUnderway
PromiseInv == PlanInv /\ Kept /\ Armed /\ Forgotten

-----------------------------------------------------------------------------
(* Steps and operations *)

LEMMA NoJobFits == FitsOf(NoJob)
  BY NoJobOK DEF FitsOf, OwnSteps

(* What the step at hand says of the operation, and of what is behind it. *)
LEMMA AtStep ==
  ASSUME TypesOK, Fits, NEW step, At(step)
  PROVE  /\ ~Idle /\ step = Head(job.todo)
         /\ step \in StepsOf(job.op)
         /\ step = "auth" => job.e # NoPass
         /\ Ends => step \in LastOf(job.op)
         /\ Ends => \A s : s # step => Done(s)
  <1>1. job.todo \in Seq(Step) /\ job.todo # <<>>
    BY DEF At, Idle, TypesOK, JobOK, Job
  <1>2. Len(job.todo) \in Nat \ {0}
    BY <1>1, EmptySeq
  <1>3. 1 \in 1..Len(job.todo) /\ job.todo[1] = step
    BY <1>2, HeadIsFirst DEF At
  <1>4. Ends => \A i \in 1..Len(job.todo) : i = 1
    BY <1>2 DEF Ends
  <1> QED
    BY <1>3, <1>4 DEF Fits, FitsOf, OwnSteps, Ends, Done, At

(* The operations a step belongs to. *)
LEMMA OpOfStep ==
  ASSUME NEW step, step \in StepsOf(job.op)
  PROVE  /\ step = "open_slot" => job.op \in WriteOps
         /\ step = "purge_slot" => job.op \in {"add", "filler"}
         /\ step \in {"auth", "cred"} => job.op = "add"
         /\ step = "erase" => job.op \in {"destroy_face", "purge_other"}
         /\ step = "reset" => job.op = "destroy_face"
         /\ step \in {"wipe_a", "wipe_b"} => job.op \in {"brick", "initialize"}
         /\ step \in {"keyrm", "keyunlink", "brick"} => job.op \in KeyOps
         /\ step \in {"keynew", "format"} => job.op \in {"create", "initialize"}
         /\ step \in {"unlink", "refs_if_last"} => job.op = "delete"
         /\ step = "unregister" => job.op \in {"destroy_vessel", "delete"}
         /\ step = "refs" => job.op \in {"create", "initialize"}
  BY DEF StepsOf, WriteOps, KeyOps

(* An operation that goes on is the one that was under way, one step on. *)
SameJob ==
    /\ job'.op = job.op /\ job'.v = job.v /\ job'.f = job.f
    /\ job'.p = job.p /\ job'.e = job.e /\ job'.files = job.files

LEMMA GoesOn ==
  ASSUME TypesOK, Fits, ~Idle, Advance \/ job' = NoJob
  PROVE  /\ Fits'
         /\ job'.op # "idle" =>
               SameJob /\ \A s : Done(s)' => Done(s) \/ s = Head(job.todo)
  <1>1. CASE job' = NoJob
    BY <1>1, NoJobFits, NoJobOK DEF Fits
  <1>2. CASE job' # NoJob
    <2>1. job' = [job EXCEPT !.todo = Tail(job.todo)] /\ Len(job.todo) # 1
      BY <1>2 DEF Advance, Ends
    <2>2. job.todo \in Seq(Step) /\ job.todo # <<>> /\ job \in Job
      BY DEF TypesOK, JobOK, Job, Idle
    <2>3. /\ Tail(job.todo) \in Seq(Step) /\ Tail(job.todo) # <<>>
          /\ Len(job.todo) \in Nat /\ Len(Tail(job.todo)) = Len(job.todo) - 1
          /\ \A i \in 1..Len(Tail(job.todo)) : Tail(job.todo)[i] = job.todo[i + 1]
      BY <2>1, <2>2, TailShape
    <2>4. SameJob /\ job'.todo = Tail(job.todo)
      BY <2>1, <2>2 DEF Job, SameJob
    <2>5. Fits'
      <3> SUFFICES ASSUME NEW i \in 1..Len(job'.todo)
                   PROVE  /\ job'.todo[i] \in StepsOf(job'.op)
                          /\ i = Len(job'.todo) => job'.todo[i] \in LastOf(job'.op)
                          /\ job'.todo[i] = "auth" => job'.e # NoPass
        BY DEF Fits, FitsOf, OwnSteps
      <3>1. i + 1 \in 1..Len(job.todo) /\ job'.todo[i] = job.todo[i + 1]
            /\ (i = Len(job'.todo) => i + 1 = Len(job.todo))
        BY <2>3, <2>4
      <3> QED
        BY <2>4, <3>1 DEF Fits, FitsOf, OwnSteps, SameJob
    <2>6. ASSUME NEW s, Done(s)', s # Head(job.todo) PROVE Done(s)
      <3> SUFFICES ASSUME NEW i \in 1..Len(job.todo) PROVE job.todo[i] # s
        BY DEF Done
      <3>1. CASE i = 1
        BY <2>6, <3>1, HeadIsFirst
      <3>2. CASE i # 1
        <4>1. i - 1 \in 1..Len(job'.todo) /\ job'.todo[i - 1] = job.todo[i]
          BY <2>3, <2>4, <3>2
        <4> QED
          BY <2>6, <4>1 DEF Done
      <3> QED
        BY <3>1, <3>2
    <2> QED
      BY <2>4, <2>5, <2>6
  <1> QED
    BY <1>1, <1>2

(* An operation that has ended owes nothing. *)
LEMMA OverOwesNothing ==
  ASSUME job'.op = "idle"
  PROVE  GivenUp' /\ WriteUnderway' /\ WipeUnderway'
  BY DEF GivenUp, WriteUnderway, WipeUnderway, KeyOps, WriteOps

(* A step leaves what was given up so: only the end of a store promises.   *)
LEMMA GivenUpStays ==
  ASSUME TypesOK, GivenUp, job'.op # "idle" => SameJob,
         job'.op # "idle" => /\ \A v \in Vessel, f \in Face : truth'[v][f] \subseteq truth[v][f]
                             /\ armed' \subseteq armed
  PROVE  GivenUp'
  <1>1. CASE job'.op = "idle"
    BY <1>1, OverOwesNothing
  <1>2. CASE job'.op # "idle"
    <2>1. SameJob /\ armed' \subseteq armed
          /\ \A v \in Vessel, f \in Face : truth'[v][f] \subseteq truth[v][f]
      BY <1>2
    <2>2. job.v \in Vessel /\ job.f \in Face
      BY JobTypes
    <2> QED
      BY <2>1, <2>2 DEF GivenUp, SameJob
  <1> QED
    BY <1>1, <1>2

(* A step of a wipe leaves a fresh record fresh, and makes one so.         *)
LEMMA WipeStays ==
  ASSUME TypesOK, WipeUnderway,
         job'.op # "idle" => SameJob /\ \A s : Done(s)' => Done(s) \/ s = Head(job.todo),
         job.op \in {"brick", "initialize"} => \A v \in Vessel, f \in Face : v = job.v =>
            (FaceRecord(v, f) = FreshDetail => FaceRecord(v, f)' = FreshDetail),
         Head(job.todo) = "wipe_a" =>
            \A v \in Vessel : v = job.v => FaceRecord(v, "face_a")' = FreshDetail,
         Head(job.todo) = "wipe_b" =>
            \A v \in Vessel : v = job.v => FaceRecord(v, "face_b")' = FreshDetail
  PROVE  WipeUnderway'
  <1>1. CASE job'.op = "idle"
    BY <1>1, OverOwesNothing
  <1>2. CASE job'.op # "idle"
    <2> SUFFICES ASSUME job'.op \in {"brick", "initialize"}
                 PROVE  /\ Done("wipe_a")' => FaceRecord(job.v, "face_a")' = FreshDetail
                        /\ Done("wipe_b")' => FaceRecord(job.v, "face_b")' = FreshDetail
      BY DEF WipeUnderway
    <2>1. PICK v \in Vessel : v = job.v
      BY JobTypes
    <2>2. job'.v = v /\ job.op \in {"brick", "initialize"} /\ "face_a" \in Face /\ "face_b" \in Face
      BY <1>2, <2>1 DEF SameJob, Face
    <2>3. Done("wipe_a")' => FaceRecord(v, "face_a")' = FreshDetail
      BY <1>2, <2>1, <2>2 DEF WipeUnderway
    <2>4. Done("wipe_b")' => FaceRecord(v, "face_b")' = FreshDetail
      BY <1>2, <2>1, <2>2 DEF WipeUnderway
    <2> QED
      BY <2>2, <2>3, <2>4
  <1> QED
    BY <1>1, <1>2

(* A step of a write adds to what it owes. *)
LEMMA WriteStays ==
  ASSUME TypesOK, WriteUnderway, job'.op # "idle" => SameJob,
         job'.op \in WriteOps =>
            /\ present \subseteq present' /\ refs \subseteq refs' /\ wiped' \subseteq wiped
            /\ \A v \in Vessel, f \in Face : truth'[v][f] \subseteq truth[v][f],
         job'.op = "add" /\ Done("open_slot")' =>
            /\ accessKey' = "live"
            /\ slots'[job.v][job.f]["open"] = [pass |-> job.p, files |-> job.files],
         job'.op = "add" /\ job.e # NoPass /\ Done("auth")' =>
            FaceRecord(job.v, job.f)'.auth = job.e
  PROVE  WriteUnderway'
  <1>1. CASE job'.op = "idle"
    BY <1>1, OverOwesNothing
  <1>2. CASE job'.op # "idle"
    <2>1. SameJob /\ job.v \in Vessel /\ job.f \in Face
      BY <1>2, JobTypes
    <2>2. job'.op \in WriteOps =>
            /\ job'.p # NoPass /\ job'.v \in present'
            /\ truth'[job'.v][job'.f] \subseteq job'.files
      BY <2>1 DEF WriteUnderway, SameJob
    <2>3. job'.op = "add" =>
            /\ job'.f \in refs' /\ job'.v \notin wiped'
            /\ Done("open_slot")' =>
                  /\ accessKey' = "live"
                  /\ slots'[job'.v][job'.f]["open"] = [pass |-> job'.p, files |-> job'.files]
            /\ job'.e # NoPass /\ Done("auth")' => FaceRecord(job.v, job.f)'.auth = job'.e
      BY <2>1 DEF WriteUnderway, WriteOps, SameJob
    <2> QED
      BY <2>2, <2>3 DEF WriteUnderway
  <1> QED
    BY <1>1, <1>2

LEMMA RecordStays ==
  ASSUME UNCHANGED registry
  PROVE  \A v, f : FaceRecord(v, f)' = FaceRecord(v, f)
  BY DEF registry, FaceRecord

-----------------------------------------------------------------------------
(* Durable steps on the container, the key and the references *)

LEMMA StorageJob ==
  ASSUME PlanInv, StorageStep
  PROVE  /\ TypesOK' /\ ~Idle /\ (Advance \/ job' = NoJob) /\ UNCHANGED registry
         /\ truth' = truth /\ armed' = armed
         /\ Fits' /\ GivenUp' /\ WipeUnderway'
  <1>1. TypesOK /\ TypesOK' /\ Fits
    BY StorageStepTypes DEF PlanInv
  <1>2. ~Idle /\ (Advance \/ job' = NoJob) /\ UNCHANGED registry
    BY DEF StorageStep, WriteSlotFails, WriteSlot, EraseFace, DestroyAccessKeys, BrickContainer,
           UnlinkAccessKey, WriteNewAccessKey, FormatContainer, UnlinkContainer, ClearReferences, At
  <1>4. ~ClearReferences => truth' = truth /\ armed' = armed
    BY DEF StorageStep, WriteSlotFails, WriteSlot, EraseFace, DestroyAccessKeys, BrickContainer,
           UnlinkAccessKey, WriteNewAccessKey, FormatContainer, UnlinkContainer, history
  <1>5. truth' = truth /\ armed' = armed
    <2>1. CASE ClearReferences
      <3>1. \E step \in {"refs", "refs_if_last"} : At(step)
        BY <2>1 DEF ClearReferences
      <3>2. job.op # "add"
        BY <1>1, <3>1, AtStep, OpOfStep
      <3> QED
        BY <2>1, <3>2 DEF ClearReferences, Acknowledge
    <2> QED
      BY <1>4, <2>1
  <1>6. Head(job.todo) \notin {"wipe_a", "wipe_b"}
    BY DEF StorageStep, WriteSlotFails, WriteSlot, EraseFace, DestroyAccessKeys, BrickContainer,
           UnlinkAccessKey, WriteNewAccessKey, FormatContainer, UnlinkContainer, ClearReferences, At,
           SlotStep
  <1>7. Fits' /\ (job'.op # "idle" =>
                   SameJob /\ \A s : Done(s)' => Done(s) \/ s = Head(job.todo))
    BY <1>1, <1>2, GoesOn
  <1>8. GivenUp'
    BY <1>1, <1>5, <1>7, GivenUpStays DEF PlanInv
  <1>9. WipeUnderway'
    BY <1>1, <1>2, <1>6, <1>7, WipeStays, RecordStays DEF PlanInv
  <1> QED
    BY <1>1, <1>2, <1>5, <1>7, <1>8, <1>9

LEMMA WriteSlotWrites ==
  ASSUME PlanInv, NEW role \in Role, WriteSlot(role)
  PROVE  WriteUnderway'
  <1>1. StorageStep /\ At(SlotStep(role)) /\ Advance
    BY DEF StorageStep, Role, WriteSlot
  <1>2. TypesOK /\ TypesOK' /\ Fits /\ ~Idle /\ truth' = truth
    BY <1>1, StorageJob DEF PlanInv
  <1>3. /\ job'.op # "idle" => SameJob /\ \A s : Done(s)' => Done(s) \/ s = Head(job.todo)
        /\ job.op \in WriteOps
    BY <1>1, <1>2, GoesOn, AtStep, OpOfStep DEF SlotStep, WriteOps
  <1>4. job.v \in Vessel /\ job.f \in Face /\ slots \in [Vessel -> [Face -> [Role -> Slot]]]
    BY <1>2, JobTypes DEF TypesOK, StorageTypes
  <1>5. CASE job'.op = "idle"
    BY <1>5, OverOwesNothing
  <1>6. CASE job'.op # "idle"
    <2>1. SameJob /\ \A s : Done(s)' => Done(s) \/ s = Head(job.todo)
      BY <1>3, <1>6
    <2>2. /\ present' = present /\ refs' = refs /\ wiped' = wiped /\ accessKey' = "live"
      BY DEF WriteSlot
    <2>3. ASSUME job.op = "add", Done("open_slot")'
          PROVE  slots'[job.v][job.f]["open"] = [pass |-> job.p, files |-> job.files]
      <3>1. CASE role = "open"
        BY <1>4, <3>1 DEF WriteSlot, Role
      <3>2. CASE role = "purge"
        <4>1. Done("open_slot")
          BY <1>1, <2>1, <2>3, <3>2 DEF At, SlotStep
        <4>2. slots'[job.v][job.f]["open"] = slots[job.v][job.f]["open"]
          BY <1>2, <1>4, <3>2, SlotTypes DEF WriteSlot, Role
        <4> QED
          BY <2>3, <4>1, <4>2 DEF PlanInv, WriteUnderway
      <3> QED
        BY <3>1, <3>2 DEF Role
    <2>4. ASSUME job.op = "add", job.e # NoPass, Done("auth")'
          PROVE  FaceRecord(job.v, job.f)'.auth = job.e
      <3>1. Done("auth")
        BY <1>1, <2>1, <2>4 DEF At, SlotStep
      <3>2. FaceRecord(job.v, job.f).auth = job.e
        BY <2>4, <3>1 DEF PlanInv, WriteUnderway
      <3>3. UNCHANGED registry
        BY <1>1, StorageJob
      <3> QED
        BY <2>1, <3>2, <3>3 DEF registry, FaceRecord, SameJob
    <2>5. job'.op = job.op
      BY <2>1 DEF SameJob
    <2> QED
      BY <1>2, <2>1, <2>2, <2>3, <2>4, <2>5, WriteStays DEF PlanInv
  <1> QED
    BY <1>5, <1>6

OtherSteps == {"erase", "keyrm", "brick", "keyunlink", "keynew", "format", "unlink",
               "refs", "refs_if_last"}

LEMMA StorageStepKinds ==
  ASSUME StorageStep
  PROVE  WriteSlotFails \/ (\E role \in Role : WriteSlot(role)) \/ \E step \in OtherSteps : At(step)
  BY DEF StorageStep, Role, EraseFace, DestroyAccessKeys, BrickContainer, UnlinkAccessKey,
         WriteNewAccessKey, FormatContainer, UnlinkContainer, ClearReferences, OtherSteps

LEMMA StoragePlan ==
  ASSUME PlanInv, StorageStep
  PROVE  PlanInv'
  <1>1. /\ TypesOK' /\ ~Idle /\ (Advance \/ job' = NoJob)
        /\ Fits' /\ GivenUp' /\ WipeUnderway' /\ TypesOK /\ Fits
    BY StorageJob DEF PlanInv
  <1>2. WriteUnderway'
    <2>1. CASE WriteSlotFails
      BY <2>1, NoJobOK, OverOwesNothing DEF WriteSlotFails
    <2>2. CASE \E role \in Role : WriteSlot(role)
      BY <2>2, WriteSlotWrites
    <2>3. ASSUME NEW step \in OtherSteps, At(step) PROVE WriteUnderway'
      <3>1. job.op \notin WriteOps
        BY <1>1, <2>3, AtStep, OpOfStep DEF OtherSteps, KeyOps, WriteOps
      <3>2. job'.op \notin WriteOps
        BY <1>1, <3>1, GoesOn DEF SameJob, WriteOps
      <3> QED
        BY <3>2 DEF WriteUnderway, WriteOps
    <2> QED
      BY <2>1, <2>2, <2>3, StorageStepKinds
  <1> QED
    BY <1>1, <1>2 DEF PlanInv

LEMMA StorageKept ==
  ASSUME PlanInv, Kept, StorageStep
  PROVE  Kept'
  <1>1. /\ TypesOK /\ Fits /\ truth' = truth /\ UNCHANGED registry
        /\ job.v \in Vessel /\ job.f \in Face /\ slots \in [Vessel -> [Face -> [Role -> Slot]]]
    BY StorageJob, JobTypes DEF PlanInv, TypesOK, StorageTypes
  <1> SUFFICES ASSUME NEW v \in Vessel, NEW f \in Face, truth[v][f] # {}
               PROVE  /\ v \in present' /\ FaceRecord(v, f)'.cred
                      /\ accessKey' = "live" /\ slots'[v][f]["open"].pass # NoPass
                      /\ truth[v][f] \subseteq slots'[v][f]["open"].files
    BY <1>1 DEF Kept
  <1>2. /\ v \in present /\ FaceRecord(v, f)'.cred
        /\ accessKey = "live" /\ slots[v][f]["open"].pass # NoPass
        /\ truth[v][f] \subseteq slots[v][f]["open"].files
    BY <1>1, RecordStays DEF Kept
  <1>3. CASE WriteSlotFails \/ ClearReferences
    BY <1>2, <1>3 DEF WriteSlotFails, ClearReferences, storage
  <1>4. ASSUME NEW role \in Role, WriteSlot(role) PROVE v \in present' /\ accessKey' = "live"
          /\ slots'[v][f]["open"].pass # NoPass /\ truth[v][f] \subseteq slots'[v][f]["open"].files
    <2>1. v \in present' /\ accessKey' = "live"
      BY <1>2, <1>4 DEF WriteSlot
    <2>2. CASE <<v, f>> = <<job.v, job.f>> /\ role = "open"
      <3>1. slots'[v][f]["open"] = [pass |-> job.p, files |-> job.files]
        BY <1>1, <1>4, <2>2 DEF WriteSlot, Role
      <3>2. job.op \in WriteOps
        BY <1>1, <1>4, AtStep, OpOfStep DEF WriteSlot, SlotStep, Role, WriteOps
      <3> QED
        BY <2>1, <2>2, <3>1, <3>2 DEF PlanInv, WriteUnderway
    <2>3. CASE ~(<<v, f>> = <<job.v, job.f>> /\ role = "open")
      <3>1. slots'[v][f]["open"] = slots[v][f]["open"]
        BY <1>1, <1>4, <2>3, SlotTypes DEF WriteSlot, Role
      <3> QED
        BY <1>2, <2>1, <3>1
    <2> QED
      BY <2>2, <2>3
  <1>5. CASE EraseFace
    <2>1. job.op \in {"destroy_face", "purge_other"}
      BY <1>1, <1>5, AtStep, OpOfStep DEF EraseFace
    <2>2. <<v, f>> # <<job.v, job.f>>
      BY <2>1 DEF PlanInv, GivenUp
    <2>3. slots'[v][f] = slots[v][f]
      BY <1>1, <1>5, <2>2, SlotTypes DEF EraseFace
    <2> QED
      BY <1>2, <1>5, <2>3 DEF EraseFace
  <1>6. CASE \/ DestroyAccessKeys \/ BrickContainer \/ UnlinkAccessKey \/ WriteNewAccessKey
             \/ FormatContainer \/ UnlinkContainer
    <2>1. \E step \in {"keyrm", "brick", "keyunlink", "keynew", "format", "unlink"} : At(step)
      BY <1>6 DEF DestroyAccessKeys, BrickContainer, UnlinkAccessKey, WriteNewAccessKey,
                  FormatContainer, UnlinkContainer
    <2>2. job.op \in KeyOps
      BY <1>1, <2>1, AtStep, OpOfStep DEF KeyOps
    <2> QED
      BY <2>2 DEF PlanInv, GivenUp
  <1> QED
    BY <1>2, <1>3, <1>4, <1>5, <1>6 DEF StorageStep, Role

LEMMA RecordGiven == \A v, f : FaceRecord(v, f).cred => v \in registered
  BY DEF FaceRecord, FreshDetail

LEMMA StorageArmed ==
  ASSUME PlanInv, Armed, StorageStep
  PROVE  Armed'
  <1>1. /\ TypesOK /\ Fits /\ armed' = armed /\ UNCHANGED registry
    BY StorageJob DEF PlanInv
  <1> SUFFICES ASSUME NEW v \in Vessel, NEW f \in Face, <<v, f>> \in armed
               PROVE  /\ v \in present' /\ f \in refs'
                      /\ FaceRecord(v, f)'.cred /\ FaceRecord(v, f)'.auth # NoPass
    BY <1>1 DEF Armed
  <1>2. /\ v \in present /\ f \in refs /\ v \in registered
        /\ FaceRecord(v, f)'.cred /\ FaceRecord(v, f)'.auth # NoPass
    BY <1>1, RecordStays, RecordGiven DEF Armed
  <1>3. CASE UnlinkContainer
    <2>1. job.op = "delete"
      BY <1>1, <1>3, AtStep, OpOfStep DEF UnlinkContainer
    <2>2. v # job.v
      BY <2>1 DEF PlanInv, GivenUp
    <2> QED
      BY <1>2, <1>3, <2>2 DEF UnlinkContainer
  <1>4. CASE ClearReferences
    <2>1. present' = present
      BY <1>4 DEF ClearReferences, storage
    <2>2. CASE At("refs") /\ refs' = {}
      <3>1. job.op \in {"create", "initialize"}
        BY <1>1, <2>2, AtStep, OpOfStep
      <3> QED
        BY <3>1 DEF PlanInv, GivenUp
    <2>3. CASE At("refs_if_last")
               /\ refs' = IF registered \intersect present = {} THEN {} ELSE refs
      BY <1>2, <2>1, <2>3
    <2> QED
      BY <1>4, <2>2, <2>3 DEF ClearReferences
  <1>5. CASE ~UnlinkContainer /\ ~ClearReferences
    <2>1. present \subseteq present' /\ refs' = refs
      BY <1>5 DEF StorageStep, WriteSlotFails, WriteSlot, EraseFace, DestroyAccessKeys,
                  BrickContainer, UnlinkAccessKey, WriteNewAccessKey, FormatContainer
    <2> QED
      BY <1>2, <2>1
  <1> QED
    BY <1>3, <1>4, <1>5

LEMMA WipeCompletes ==
  ASSUME PlanInv, NEW step \in {"wipe_b", "refs"}, At(step), Ends,
         job.op \in {"brick", "initialize"},
         step = "wipe_b" => job.op = "brick", step = "refs" => job.op = "initialize"
  PROVE  /\ FaceRecord(job.v, "face_a") = FreshDetail
         /\ step = "refs" => FaceRecord(job.v, "face_b") = FreshDetail
  <1>1. Done("wipe_a") /\ (step = "refs" => Done("wipe_b"))
    BY AtStep DEF PlanInv
  <1> QED
    BY <1>1 DEF PlanInv, WipeUnderway

LEMMA StorageForgotten ==
  ASSUME PlanInv, Forgotten, StorageStep
  PROVE  Forgotten'
  <1>1. TypesOK /\ Fits /\ UNCHANGED registry
    BY StorageJob DEF PlanInv
  <1> SUFFICES ASSUME NEW v \in wiped', NEW f \in Face PROVE FaceRecord(v, f) = FreshDetail
    BY <1>1, RecordStays DEF Forgotten
  <1>2. CASE v \in wiped
    BY <1>2 DEF Forgotten
  <1>3. CASE v \notin wiped
    <2>1. ClearReferences
      BY <1>3 DEF StorageStep, WriteSlotFails, WriteSlot, EraseFace, DestroyAccessKeys,
                  BrickContainer, UnlinkAccessKey, WriteNewAccessKey, FormatContainer,
                  UnlinkContainer, history
    <2>2. Ends /\ job.op \in {"brick", "initialize"} /\ v = job.v
      BY <1>3, <2>1 DEF ClearReferences, Acknowledge
    <2>3. \/ At("refs") /\ job.op = "initialize"
          \/ At("refs_if_last") /\ job.op = "delete"
      BY <1>1, <2>1, <2>2, AtStep, OpOfStep DEF ClearReferences
    <2> QED
      BY <2>2, <2>3, WipeCompletes DEF Face
  <1> QED
    BY <1>2, <1>3

LEMMA StorageStepPromises ==
  ASSUME PromiseInv, StorageStep
  PROVE  PromiseInv'
  BY StoragePlan, StorageKept, StorageArmed, StorageForgotten DEF PromiseInv

-----------------------------------------------------------------------------
(* Durable steps on the registry *)

(* The Faces whose record a step changes. *)
Changed(step) ==
    IF step \in {"auth", "cred", "reset"} THEN {<<job.v, job.f>>}
    ELSE IF step = "wipe_a" THEN {<<job.v, "face_a">>}
    ELSE IF step = "wipe_b" THEN {<<job.v, "face_b">>} ELSE {}

LEMMA UpdatedAt ==
  ASSUME TypesOK, NEW g \in Face, NEW d, NEW v \in Vessel, NEW f \in Face
  PROVE  Updated(g, d)[v][f] = IF <<v, f>> = <<job.v, g>> THEN d ELSE FaceRecord(v, f)
  <1>1. Records \in [Vessel -> [Face -> Detail]] /\ job.v \in Vessel
    BY RecordsTypes, JobTypes
  <1>2. Records[v][f] = FaceRecord(v, f)
    BY DEF Records
  <1> QED
    BY <1>1, <1>2 DEF Updated

LEMMA RecordUntouched ==
  ASSUME TypesOK, NEW step, NEW v \in Vessel, NEW f \in Face, <<v, f>> \notin Changed(step)
  PROVE  NewRecords(step)[v][f] = FaceRecord(v, f)
  <1>0. /\ Records[v][f] = FaceRecord(v, f) /\ job.f \in Face
        /\ "face_a" \in Face /\ "face_b" \in Face
    BY JobTypes DEF Records, Face
  <1>1. \/ NewRecords(step) = Records
        \/ step \in {"auth", "cred", "reset"} /\ \E d : NewRecords(step) = Updated(job.f, d)
        \/ step = "wipe_a" /\ \E d : NewRecords(step) = Updated("face_a", d)
        \/ step = "wipe_b" /\ \E d : NewRecords(step) = Updated("face_b", d)
    BY DEF NewRecords
  <1> QED
    BY <1>0, <1>1, UpdatedAt DEF Changed

LEMMA RecordFresh ==
  ASSUME TypesOK, NEW step, NEW v \in Vessel, NEW f \in Face, <<v, f>> \in Changed(step),
         step \notin {"auth", "cred"}
  PROVE  NewRecords(step)[v][f] = FreshDetail
  <1>0. job.f \in Face /\ "face_a" \in Face /\ "face_b" \in Face
    BY JobTypes DEF Face
  <1>1. \/ step = "reset" /\ NewRecords(step) = Updated(job.f, FreshDetail)
        \/ step = "wipe_a" /\ NewRecords(step) = Updated("face_a", FreshDetail)
        \/ step = "wipe_b" /\ NewRecords(step) = Updated("face_b", FreshDetail)
    BY DEF NewRecords, Changed
  <1> QED
    BY <1>0, <1>1, UpdatedAt DEF Changed

(* A store records the destroy passphrase, and later the credentials.      *)
LEMMA RecordStored ==
  ASSUME TypesOK
  PROVE  /\ NewRecords("auth")[job.v][job.f].auth = job.e
         /\ FaceRecord(job.v, job.f).cred => NewRecords("auth")[job.v][job.f].cred
         /\ NewRecords("cred")[job.v][job.f].cred
         /\ NewRecords("cred")[job.v][job.f].auth = FaceRecord(job.v, job.f).auth
  <1>0. job.f \in Face /\ job.v \in Vessel /\ FaceRecord(job.v, job.f) \in Detail
    BY JobTypes, RecordsTypes
  <1>1. NewRecords("auth")[job.v][job.f] = [FaceRecord(job.v, job.f) EXCEPT !.auth = job.e]
    BY <1>0, UpdatedAt DEF NewRecords
  <1>2. /\ [FaceRecord(job.v, job.f) EXCEPT !.auth = job.e].auth = job.e
        /\ FaceRecord(job.v, job.f).cred => [FaceRecord(job.v, job.f) EXCEPT !.auth = job.e].cred
    BY <1>0 DEF Detail
  <1> DEFINE d == [FaceRecord(job.v, job.f) EXCEPT !.cred = TRUE]
  <1>3. d.cred /\ d.auth = FaceRecord(job.v, job.f).auth
    BY <1>0 DEF Detail
  <1>4. NewRecords("cred") = Updated(job.f, d)
    BY DEF NewRecords
  <1> HIDE DEF d
  <1>5. NewRecords("cred")[job.v][job.f] = d
    BY <1>0, <1>4, UpdatedAt
  <1> QED
    BY <1>1, <1>2, <1>3, <1>5

(* What the records read as once a step has saved them; one that need not  *)
(* save would save what is there.                                          *)
LEMMA SavedRecords ==
  ASSUME TypesOK, NEW step \in RegistrySteps, SaveRegistry(step),
         NEW v \in Vessel, NEW f \in Face
  PROVE  /\ registered' = NewIndex(step)
         /\ FaceRecord(v, f)' = IF v \in NewIndex(step) THEN NewRecords(step)[v][f] ELSE FreshDetail
  <1>1. CASE Saves(step)
    BY <1>1 DEF SaveRegistry, FaceRecord, SealFor, FreshFaces
  <1>2. CASE ~Saves(step)
    <2>1. step \in {"register", "unregister"} /\ NewIndex(step) = registered
      BY <1>2 DEF Saves
    <2>2. NewRecords(step)[v][f] = FaceRecord(v, f)
      BY <2>1, RecordUntouched DEF Changed
    <2>3. registered' = registered /\ FaceRecord(v, f)' = FaceRecord(v, f)
      BY <1>2, RecordStays DEF SaveRegistry, registry
    <2>4. v \notin registered => FaceRecord(v, f) = FreshDetail
      BY DEF FaceRecord
    <2> QED
      BY <2>1, <2>2, <2>3, <2>4
  <1> QED
    BY <1>1, <1>2

(* The Faces something is promised of keep it: no step resets them, or     *)
(* takes their Vessel out of the index.                                    *)
Spared(step, v, f) ==
    /\ step = "reset" => <<v, f>> # <<job.v, job.f>>
    /\ step \in {"wipe_a", "wipe_b", "unregister"} => v # job.v

LEMMA SparedRecord ==
  ASSUME TypesOK, NEW step, NEW v \in Vessel, NEW f \in Face, FaceRecord(v, f).cred,
         Spared(step, v, f), step = "auth" => job.e # NoPass
  PROVE  /\ v \in registered /\ v \in NewIndex(step)
         /\ NewRecords(step)[v][f].cred
         /\ FaceRecord(v, f).auth # NoPass => NewRecords(step)[v][f].auth # NoPass
  <1>1. v \in registered /\ FaceRecord(v, f) \in Detail
    BY RecordGiven, RecordsTypes
  <1>2. v \in NewIndex(step)
    BY <1>1 DEF NewIndex, Spared
  <1>3. CASE <<v, f>> \notin Changed(step)
    BY <1>1, <1>2, <1>3, RecordUntouched
  <1>4. CASE <<v, f>> \in Changed(step)
    <2>1. step \in {"auth", "cred"} /\ v = job.v /\ f = job.f
      BY <1>4 DEF Changed, Spared
    <2> QED
      BY <1>1, <1>2, <2>1, RecordStored
  <1> QED
    BY <1>3, <1>4

LEMMA PromisedIsSpared ==
  ASSUME PlanInv, NEW step, At(step), NEW v \in Vessel, NEW f \in Face
  PROVE  /\ truth[v][f] # {} => Spared(step, v, f)
         /\ <<v, f>> \in armed => Spared(step, v, f)
  <1>1. step \in StepsOf(job.op)
    BY AtStep DEF PlanInv
  <1>2. /\ step = "reset" => job.op = "destroy_face"
        /\ step \in {"wipe_a", "wipe_b"} => job.op \in {"brick", "initialize"}
        /\ step = "unregister" => job.op \in {"destroy_vessel", "delete"}
    BY <1>1, OpOfStep
  <1> QED
    BY <1>2 DEF PlanInv, GivenUp, KeyOps, Spared

LEMMA SaveJob ==
  ASSUME PlanInv, NEW step \in RegistrySteps, SaveRegistry(step)
  PROVE  /\ TypesOK /\ TypesOK' /\ Fits /\ Fits' /\ At(step) /\ ~Idle /\ step = Head(job.todo)
         /\ slots' = slots /\ present' = present /\ accessKey' = accessKey /\ refs' = refs
         /\ job'.op # "idle" =>
               /\ SameJob /\ \A s : Done(s)' => Done(s) \/ s = Head(job.todo)
               /\ truth' = truth /\ armed' = armed /\ wiped' = wiped
         /\ job.v \in Vessel /\ job.f \in Face
  <1>1. /\ TypesOK /\ TypesOK' /\ Fits /\ At(step) /\ ~Idle /\ Advance
        /\ UNCHANGED <<storage, refs>>
    BY SaveRegistryTypes DEF PlanInv, SaveRegistry, At
  <1>2. Ends => job'.op = "idle"
    BY <1>1, NoJobOK DEF Advance
  <1>3. ~Ends => truth' = truth /\ armed' = armed /\ wiped' = wiped
    BY DEF SaveRegistry, Acknowledge
  <1> QED
    BY <1>1, <1>2, <1>3, GoesOn, JobTypes DEF At, storage

LEMMA SaveWipes ==
  ASSUME PlanInv, NEW step \in RegistrySteps, SaveRegistry(step)
  PROVE  WipeUnderway'
  <1>1. /\ TypesOK /\ At(step) /\ Fits /\ step = Head(job.todo)
        /\ job'.op # "idle" => SameJob /\ \A s : Done(s)' => Done(s) \/ s = Head(job.todo)
    BY SaveJob
  <1>2. job.op \in {"brick", "initialize"} => step \notin {"auth", "cred"}
    BY <1>1, AtStep, OpOfStep
  <1>3. ASSUME NEW v \in Vessel, NEW f \in Face, FaceRecord(v, f) = FreshDetail,
               step \notin {"auth", "cred"}
        PROVE  FaceRecord(v, f)' = FreshDetail
    <2>1. NewRecords(step)[v][f] = FreshDetail
      BY <1>1, <1>3, RecordUntouched, RecordFresh
    <2> QED
      BY <1>1, <2>1, SavedRecords
  <1>4. ASSUME NEW v \in Vessel, NEW f \in Face, <<v, f>> \in Changed(step),
               step \notin {"auth", "cred"}
        PROVE  FaceRecord(v, f)' = FreshDetail
    BY <1>1, <1>4, RecordFresh, SavedRecords
  <1>5. "face_a" \in Face /\ "face_b" \in Face
    BY DEF Face
  <1>6. step = "wipe_a" => \A v \in Vessel : v = job.v => FaceRecord(v, "face_a")' = FreshDetail
    BY <1>4, <1>5 DEF Changed
  <1>7. step = "wipe_b" => \A v \in Vessel : v = job.v => FaceRecord(v, "face_b")' = FreshDetail
    BY <1>4, <1>5 DEF Changed
  <1> QED
    BY <1>1, <1>2, <1>3, <1>6, <1>7, WipeStays DEF PlanInv

LEMMA SaveWrites ==
  ASSUME PlanInv, NEW step \in RegistrySteps, SaveRegistry(step)
  PROVE  WriteUnderway'
  <1>1. /\ TypesOK /\ Fits /\ At(step) /\ step = Head(job.todo)
        /\ slots' = slots /\ present' = present /\ accessKey' = accessKey /\ refs' = refs
        /\ job'.op # "idle" =>
              /\ SameJob /\ \A s : Done(s)' => Done(s) \/ s = Head(job.todo)
              /\ truth' = truth /\ wiped' = wiped
        /\ job.v \in Vessel /\ job.f \in Face
    BY SaveJob
  <1>2. ASSUME job'.op = "add", Done("open_slot")'
        PROVE  /\ accessKey' = "live"
               /\ slots'[job.v][job.f]["open"] = [pass |-> job.p, files |-> job.files]
    <2>1. step # "open_slot" /\ job.op = "add"
      BY <1>1, <1>2 DEF RegistrySteps, SameJob
    <2>2. Done("open_slot")
      BY <1>1, <1>2, <2>1
    <2> QED
      BY <1>1, <2>1, <2>2 DEF PlanInv, WriteUnderway
  <1>3. ASSUME job'.op = "add", job.e # NoPass, Done("auth")'
        PROVE  FaceRecord(job.v, job.f)'.auth = job.e
    <2>1. job.op = "add" /\ job'.v = job.v /\ job'.f = job.f
      BY <1>1, <1>3 DEF SameJob
    <2>2. step \in {"auth", "touch", "cred"}
      BY <1>1, <2>1, AtStep DEF StepsOf, RegistrySteps
    <2>3. job.v \in NewIndex(step)
      BY <2>2 DEF NewIndex
    <2>4. NewRecords(step)[job.v][job.f].auth = job.e
      <3>1. CASE step = "auth"
        BY <1>1, <3>1, RecordStored
      <3>2. CASE step # "auth"
        <4>1. FaceRecord(job.v, job.f).auth = job.e
          BY <1>1, <1>3, <2>1, <3>2 DEF PlanInv, WriteUnderway
        <4>2. CASE step = "touch"
          BY <1>1, <4>1, <4>2, RecordUntouched DEF Changed
        <4>3. CASE step = "cred"
          BY <1>1, <4>1, <4>3, RecordStored
        <4> QED
          BY <2>2, <3>2, <4>2, <4>3
      <3> QED
        BY <3>1, <3>2
    <2>5. PICK v \in Vessel, f \in Face : v = job.v /\ f = job.f
      BY <1>1
    <2>6. FaceRecord(v, f)' = NewRecords(step)[v][f]
      BY <1>1, <2>3, <2>5, SavedRecords
    <2> QED
      BY <2>1, <2>4, <2>5, <2>6
  <1> QED
    BY <1>1, <1>2, <1>3, WriteStays DEF PlanInv, WriteOps

LEMMA SavePlan ==
  ASSUME PlanInv, NEW step \in RegistrySteps, SaveRegistry(step)
  PROVE  PlanInv'
  <1>1. GivenUp'
    BY SaveJob, GivenUpStays DEF PlanInv
  <1> QED
    BY <1>1, SaveJob, SaveWipes, SaveWrites DEF PlanInv

(* A store that ends: its files are in the slot, its credentials set.      *)
LEMMA StoreEnds ==
  ASSUME PlanInv, NEW step \in RegistrySteps, SaveRegistry(step), Ends, job.op = "add"
  PROVE  /\ step = "cred" /\ job.v \in present /\ job.f \in refs
         /\ FaceRecord(job.v, job.f).cred \in BOOLEAN
         /\ NewRecords(step)[job.v][job.f].cred /\ job.v \in NewIndex(step)
         /\ accessKey = "live" /\ job.p # NoPass
         /\ slots[job.v][job.f]["open"] = [pass |-> job.p, files |-> job.files]
         /\ truth[job.v][job.f] \subseteq job.files
         /\ job.e # NoPass => NewRecords(step)[job.v][job.f].auth = job.e
  <1>1. TypesOK /\ Fits /\ At(step) /\ job.v \in Vessel /\ job.f \in Face
    BY SaveJob
  <1>2. step = "cred"
    BY <1>1, AtStep DEF LastOf
  <1>3. Done("open_slot") /\ Done("auth")
    BY <1>1, <1>2, AtStep
  <1>4. FaceRecord(job.v, job.f).cred \in BOOLEAN
    BY <1>1, RecordsTypes DEF Detail
  <1> QED
    BY <1>1, <1>2, <1>3, <1>4, RecordStored DEF PlanInv, WriteUnderway, WriteOps, NewIndex

LEMMA SaveKept ==
  ASSUME PlanInv, Kept, NEW step \in RegistrySteps, SaveRegistry(step)
  PROVE  Kept'
  <1>1. /\ TypesOK /\ Fits /\ At(step)
        /\ slots' = slots /\ present' = present /\ accessKey' = accessKey
        /\ job.v \in Vessel /\ job.f \in Face
    BY SaveJob
  <1> SUFFICES ASSUME NEW v \in Vessel, NEW f \in Face, truth'[v][f] # {}
               PROVE  /\ v \in present /\ FaceRecord(v, f)'.cred
                      /\ accessKey = "live" /\ slots[v][f]["open"].pass # NoPass
                      /\ truth'[v][f] \subseteq slots[v][f]["open"].files
    BY <1>1 DEF Kept
  <1>2. truth \in [Vessel -> [Face -> SUBSET File]]
    BY <1>1 DEF TypesOK, HistoryTypes
  <1>3. CASE Ends /\ job.op = "add" /\ <<v, f>> = <<job.v, job.f>>
    <2>1. truth'[v][f] = truth[v][f] \union job.files
      BY <1>1, <1>2, <1>3 DEF SaveRegistry, Acknowledge
    <2>2. FaceRecord(v, f)' = NewRecords(step)[v][f]
      BY <1>1, <1>3, StoreEnds, SavedRecords
    <2> QED
      BY <1>3, <2>1, <2>2, StoreEnds
  <1>4. CASE ~(Ends /\ job.op = "add" /\ <<v, f>> = <<job.v, job.f>>)
    <2>1. truth'[v][f] = truth[v][f]
      BY <1>1, <1>2, <1>4 DEF SaveRegistry, Acknowledge
    <2>2. FaceRecord(v, f).cred /\ Spared(step, v, f)
      BY <1>1, <2>1, PromisedIsSpared DEF Kept
    <2>3. FaceRecord(v, f)' = NewRecords(step)[v][f] /\ NewRecords(step)[v][f].cred
      BY <1>1, <2>2, AtStep, SparedRecord, SavedRecords
    <2> QED
      BY <2>1, <2>3 DEF Kept
  <1> QED
    BY <1>3, <1>4

LEMMA SaveArmed ==
  ASSUME PlanInv, Armed, NEW step \in RegistrySteps, SaveRegistry(step)
  PROVE  Armed'
  <1>1. /\ TypesOK /\ Fits /\ At(step) /\ present' = present /\ refs' = refs
        /\ job.v \in Vessel /\ job.f \in Face
    BY SaveJob
  <1> SUFFICES ASSUME NEW v \in Vessel, NEW f \in Face, <<v, f>> \in armed'
               PROVE  /\ v \in present /\ f \in refs
                      /\ FaceRecord(v, f)'.cred /\ FaceRecord(v, f)'.auth # NoPass
    BY <1>1 DEF Armed
  <1>2. CASE <<v, f>> \in armed
    <2>1. Spared(step, v, f) /\ FaceRecord(v, f).cred /\ FaceRecord(v, f).auth # NoPass
      BY <1>1, <1>2, PromisedIsSpared DEF Armed
    <2>2. /\ FaceRecord(v, f)' = NewRecords(step)[v][f] /\ NewRecords(step)[v][f].cred
          /\ NewRecords(step)[v][f].auth # NoPass
      BY <1>1, <2>1, AtStep, SparedRecord, SavedRecords
    <2> QED
      BY <1>2, <2>2 DEF Armed
  <1>3. CASE <<v, f>> \notin armed
    <2>1. Ends /\ job.op = "add" /\ job.e # NoPass /\ v = job.v /\ f = job.f
      BY <1>3 DEF SaveRegistry, Acknowledge
    <2>2. FaceRecord(v, f)' = NewRecords(step)[v][f]
      BY <1>1, <2>1, StoreEnds, SavedRecords
    <2> QED
      BY <2>1, <2>2, StoreEnds
  <1> QED
    BY <1>2, <1>3

LEMMA WipedRecords ==
  ASSUME PlanInv, Forgotten, NEW step, At(step), NEW v \in Vessel, v \in wiped, NEW f \in Face
  PROVE  NewRecords(step)[v][f] = FreshDetail
  <1>1. TypesOK /\ Fits /\ FaceRecord(v, f) = FreshDetail
    BY DEF PlanInv, Forgotten
  <1>2. CASE <<v, f>> \notin Changed(step)
    BY <1>1, <1>2, RecordUntouched
  <1>3. CASE <<v, f>> \in Changed(step)
    <2>1. v = job.v
      BY <1>3 DEF Changed
    <2>2. step \notin {"auth", "cred"}
      BY <1>1, <2>1, AtStep, OpOfStep DEF PlanInv, WriteUnderway
    <2> QED
      BY <1>1, <1>3, <2>2, RecordFresh
  <1> QED
    BY <1>2, <1>3

LEMMA SaveForgotten ==
  ASSUME PlanInv, Forgotten, NEW step \in RegistrySteps, SaveRegistry(step)
  PROVE  Forgotten'
  <1>1. TypesOK /\ Fits /\ At(step) /\ job.v \in Vessel
    BY SaveJob
  <1> SUFFICES ASSUME NEW v \in wiped', NEW f \in Face PROVE FaceRecord(v, f)' = FreshDetail
    BY DEF Forgotten
  <1>2. v \in Vessel
    BY SaveJob DEF TypesOK, HistoryTypes
  <1>3. ASSUME NewRecords(step)[v][f] = FreshDetail PROVE FaceRecord(v, f)' = FreshDetail
    BY <1>1, <1>2, <1>3, SavedRecords
  <1>4. CASE v \in wiped
    BY <1>1, <1>2, <1>3, <1>4, WipedRecords
  <1>5. CASE v \notin wiped
    <2>1. Ends /\ job.op \in {"brick", "initialize"} /\ v = job.v
      BY <1>5 DEF SaveRegistry, Acknowledge
    <2>2. step = "wipe_b" /\ job.op = "brick"
      BY <1>1, <2>1, AtStep DEF LastOf, RegistrySteps
    <2>3. CASE f = "face_a"
      BY <1>1, <1>2, <1>3, <2>1, <2>2, <2>3, WipeCompletes, RecordUntouched DEF Changed
    <2>4. CASE f = "face_b"
      BY <1>1, <1>2, <1>3, <2>1, <2>2, <2>4, RecordFresh DEF Changed
    <2> QED
      BY <2>3, <2>4 DEF Face
  <1> QED
    BY <1>4, <1>5

LEMMA SavePromises ==
  ASSUME PromiseInv, NEW step \in RegistrySteps, SaveRegistry(step)
  PROVE  PromiseInv'
  BY SavePlan, SaveKept, SaveArmed, SaveForgotten DEF PromiseInv

-----------------------------------------------------------------------------
(* Power loss: what it tears had been given up, or is given up with it.    *)

LEMMA CrashPlan ==
  ASSUME PlanInv, Crash
  PROVE  PlanInv'
  <1>1. TypesOK' /\ job' = NoJob
    BY CrashTypes DEF PlanInv, Crash
  <1> QED
    BY <1>1, NoJobOK, NoJobFits, OverOwesNothing DEF PlanInv, Fits

LEMMA CrashRecords ==
  ASSUME PlanInv, CrashInRegistry
  PROVE  \/ NothingPromised
         \/ /\ truth' = truth /\ armed' = armed
            /\ \A v \in Vessel, f \in Face : truth[v][f] # {} \/ <<v, f>> \in armed =>
                  (FaceRecord(v, f).cred => FaceRecord(v, f)'.cred
                      /\ (FaceRecord(v, f).auth # NoPass => FaceRecord(v, f)'.auth # NoPass))
  <1> SUFFICES ASSUME ~NothingPromised
               PROVE  /\ truth' = truth /\ armed' = armed
                      /\ \A v \in Vessel, f \in Face : truth[v][f] # {} \/ <<v, f>> \in armed =>
                            (FaceRecord(v, f).cred => FaceRecord(v, f)'.cred
                              /\ (FaceRecord(v, f).auth # NoPass => FaceRecord(v, f)'.auth # NoPass))
    OBVIOUS
  <1>1. PICK step \in RegistrySteps, det \in {NewRecords(job.todo[1]), Records} :
          /\ At(step) /\ step = job.todo[1]
          /\ sealed' = SealFor(NewIndex(step), det)
          /\ registered' \in {registered, NewIndex(step)} /\ UNCHANGED <<truth, armed>>
    BY HeadIsFirst DEF CrashInRegistry, At
  <1>2. TypesOK /\ Fits
    BY DEF PlanInv
  <1> SUFFICES ASSUME NEW v \in Vessel, NEW f \in Face, truth[v][f] # {} \/ <<v, f>> \in armed,
                      FaceRecord(v, f).cred
               PROVE  /\ FaceRecord(v, f)'.cred
                      /\ FaceRecord(v, f).auth # NoPass => FaceRecord(v, f)'.auth # NoPass
    BY <1>1
  <1>3. /\ v \in registered /\ v \in NewIndex(step) /\ NewRecords(step)[v][f].cred
        /\ FaceRecord(v, f).auth # NoPass => NewRecords(step)[v][f].auth # NoPass
    BY <1>1, <1>2, PromisedIsSpared, AtStep, SparedRecord
  <1>4. FaceRecord(v, f)' = det[v][f]
    BY <1>1, <1>3 DEF FaceRecord, SealFor
  <1>5. Records[v][f] = FaceRecord(v, f)
    BY DEF Records
  <1> QED
    BY <1>1, <1>3, <1>4, <1>5

LEMMA CrashKept ==
  ASSUME PlanInv, Kept, Crash
  PROVE  Kept'
  <1>1. /\ TypesOK /\ Fits /\ job.v \in Vessel /\ job.f \in Face
        /\ slots \in [Vessel -> [Face -> [Role -> Slot]]]
        /\ truth \in [Vessel -> [Face -> SUBSET File]]
    BY JobTypes DEF PlanInv, TypesOK, StorageTypes, HistoryTypes
  <1> SUFFICES ASSUME NEW v \in Vessel, NEW f \in Face, truth'[v][f] # {}
               PROVE  /\ v \in present' /\ FaceRecord(v, f)'.cred
                      /\ accessKey' = "live" /\ slots'[v][f]["open"].pass # NoPass
                      /\ truth'[v][f] \subseteq slots'[v][f]["open"].files
    BY DEF Kept
  <1>2. CASE CrashInStorage
    <2>1. UNCHANGED registry
      BY <1>2 DEF CrashInStorage
    <2>2. CASE UNCHANGED <<storage, struck, truth>>
      BY <2>1, <2>2, RecordStays DEF Kept, storage
    <2>3. ASSUME NEW r \in Role,
                 slots' = [slots EXCEPT ![job.v][job.f][r] = Noise],
                 truth' = IF r = "open" THEN [truth EXCEPT ![job.v][job.f] = {}] ELSE truth,
                 UNCHANGED <<present, accessKey, struck>>
          PROVE  /\ v \in present' /\ FaceRecord(v, f)'.cred
                 /\ accessKey' = "live" /\ slots'[v][f]["open"].pass # NoPass
                 /\ truth'[v][f] \subseteq slots'[v][f]["open"].files
      <3>1. truth'[v][f] = truth[v][f] /\ (r = "open" => <<v, f>> # <<job.v, job.f>>)
        BY <1>1, <2>3
      <3>2. slots'[v][f]["open"] = slots[v][f]["open"]
        BY <1>1, <2>3, <3>1, SlotTypes DEF Role
      <3> QED
        BY <2>1, <2>3, <3>1, <3>2, RecordStays DEF Kept
    <2>4. CASE \E step \in {"erase", "brick", "keyrm", "keynew", "format"} :
                  At(step) /\ (step = "erase" =>
                      slots' = [slots EXCEPT ![job.v][job.f]["open"] = Noise]
                      /\ UNCHANGED <<present, accessKey>>) /\ truth' = truth
      <3>1. PICK step \in {"erase", "brick", "keyrm", "keynew", "format"} :
                  At(step) /\ (step = "erase" =>
                      slots' = [slots EXCEPT ![job.v][job.f]["open"] = Noise]
                      /\ UNCHANGED <<present, accessKey>>) /\ truth' = truth
        BY <2>4
      <3>2. step = "erase" /\ <<v, f>> # <<job.v, job.f>>
        BY <1>1, <3>1, AtStep, OpOfStep DEF PlanInv, GivenUp, KeyOps
      <3>3. slots'[v][f] = slots[v][f]
        BY <1>1, <3>1, <3>2, SlotTypes
      <3> QED
        BY <2>1, <3>1, <3>2, <3>3, RecordStays DEF Kept
    <2> QED
      BY <1>2, <2>2, <2>3, <2>4 DEF CrashInStorage
  <1>3. CASE CrashInRegistry
    <2>1. ~NothingPromised
      BY DEF NothingPromised, NothingStored
    <2>2. truth' = truth /\ (FaceRecord(v, f).cred => FaceRecord(v, f)'.cred)
      BY <1>3, <2>1, CrashRecords
    <2>3. UNCHANGED storage
      BY <1>3 DEF CrashInRegistry
    <2> QED
      BY <2>2, <2>3 DEF Kept, storage
  <1> QED
    BY <1>2, <1>3 DEF Crash

LEMMA CrashArmed ==
  ASSUME PlanInv, Armed, Crash
  PROVE  Armed'
  <1> SUFFICES ASSUME NEW v \in Vessel, NEW f \in Face, <<v, f>> \in armed'
               PROVE  /\ v \in present' /\ f \in refs'
                      /\ FaceRecord(v, f)'.cred /\ FaceRecord(v, f)'.auth # NoPass
    BY DEF Armed
  <1>1. CASE CrashInStorage
    <2>1. UNCHANGED registry /\ armed' = armed /\ present \subseteq present' /\ refs' = refs
      BY <1>1 DEF CrashInStorage, Crash, storage
    <2> QED
      BY <2>1, RecordStays DEF Armed
  <1>2. CASE CrashInRegistry
    <2>1. ~NothingPromised /\ UNCHANGED storage /\ refs' = refs
      BY <1>2 DEF NothingPromised, CrashInRegistry, Crash
    <2> QED
      BY <1>2, <2>1, CrashRecords DEF Armed, storage
  <1> QED
    BY <1>1, <1>2 DEF Crash

LEMMA CrashForgotten ==
  ASSUME PlanInv, Forgotten, Crash
  PROVE  Forgotten'
  <1>1. wiped' = wiped /\ TypesOK /\ wiped \subseteq Vessel
    BY DEF Crash, PlanInv, TypesOK, HistoryTypes
  <1> SUFFICES ASSUME NEW v \in Vessel, v \in wiped, NEW f \in Face
               PROVE  FaceRecord(v, f)' = FreshDetail
    BY <1>1 DEF Forgotten
  <1>2. CASE CrashInStorage
    BY <1>2, RecordStays DEF CrashInStorage, Forgotten
  <1>3. ASSUME NEW step \in RegistrySteps, At(step),
               \/ sealed' \in {SealFor(NewIndex(step), NewRecords(step)),
                               SealFor(NewIndex(step), Records)}
               \/ sealed' = [w \in Vessel |-> FreshFaces]
        PROVE  FaceRecord(v, f)' = FreshDetail
    <2>1. NewRecords(step)[v][f] = FreshDetail /\ Records[v][f] = FreshDetail
      BY <1>3, WipedRecords DEF Forgotten, Records
    <2>2. sealed'[v][f] = FreshDetail
      BY <1>3, <2>1 DEF SealFor, FreshFaces
    <2> QED
      BY <2>2 DEF FaceRecord
  <1> QED
    BY <1>2, <1>3 DEF Crash, CrashInRegistry

LEMMA CrashPromises ==
  ASSUME PromiseInv, Crash
  PROVE  PromiseInv'
  BY CrashPlan, CrashKept, CrashArmed, CrashForgotten DEF PromiseInv

-----------------------------------------------------------------------------
(* Operations begin *)

(* What was promised stays so, but for what the operation gives up. *)
LEMMA BeginPromises ==
  ASSUME Kept, Armed, Forgotten, TypesOK, UNCHANGED <<storage, registry>>, refs \subseteq refs',
         \A v \in Vessel, f \in Face : truth'[v][f] \subseteq truth[v][f],
         armed' \subseteq armed, wiped' \subseteq wiped
  PROVE  Kept' /\ Armed' /\ Forgotten'
  <1>1. \A v, f : FaceRecord(v, f)' = FaceRecord(v, f)
    BY RecordStays
  <1>2. ASSUME NEW v \in Vessel, NEW f \in Face, truth'[v][f] # {}
        PROVE  /\ v \in present' /\ FaceRecord(v, f)'.cred
               /\ accessKey' = "live" /\ slots'[v][f]["open"].pass # NoPass
               /\ truth'[v][f] \subseteq slots'[v][f]["open"].files
    <2>1. truth[v][f] # {} /\ truth'[v][f] \subseteq truth[v][f]
      BY <1>2
    <2> QED
      BY <1>1, <2>1 DEF Kept, storage
  <1>3. Armed' /\ Forgotten'
    BY <1>1 DEF Armed, Forgotten, storage
  <1> QED
    BY <1>2, <1>3 DEF Kept

(* Each operation's plan takes its own steps, and ends as it should. *)
LEMMA PlanFits ==
  ASSUME NEW op, NEW todo, NEW e,
         \/ op = "create"
            /\ todo = <<"keyunlink", "keynew", "format", "register", "refs">>
         \/ op = "initialize"
            /\ todo = <<"keyunlink", "keynew", "format", "wipe_a", "wipe_b", "refs">>
         \/ op = "destroy_vessel" /\ todo = <<"keyrm", "brick", "unregister">>
         \/ op = "delete"
            /\ todo = <<"keyrm", "brick", "unlink", "unregister", "refs_if_last">>
         \/ op = "brick" /\ todo = <<"keyrm", "brick", "wipe_a", "wipe_b">>
         \/ op = "destroy_face" /\ todo = <<"erase", "reset">>
         \/ op = "purge_other" /\ todo = <<"erase", "touch">>
         \/ op = "purge_other" /\ todo = <<"erase">>
         \/ op = "open" /\ todo = <<"register">>
         \/ op = "retrieve" /\ todo = <<"touch">>
         \/ op = "add" /\ todo = <<"open_slot", "touch", "cred">>
         \/ op = "add" /\ e # NoPass
            /\ todo = <<"auth", "open_slot", "purge_slot", "touch", "cred">>
         \/ op = "filler" /\ todo = <<"open_slot", "purge_slot", "touch">>
         \/ op = "remove" /\ todo = <<"open_slot", "touch">>
  PROVE  OwnSteps(op, todo, e)
  <1>1. CASE op = "create"
            /\ todo = <<"keyunlink", "keynew", "format", "register", "refs">>
    <2>1. StepsOf(op) = {"keyunlink", "keynew", "format", "register", "refs"}
      BY <1>1 DEF StepsOf
    <2>2. LastOf(op) = Step
      BY <1>1 DEF LastOf
    <2> QED
      BY <1>1, <2>1, <2>2 DEF OwnSteps, Step
  <1>2. CASE op = "initialize"
            /\ todo = <<"keyunlink", "keynew", "format", "wipe_a", "wipe_b", "refs">>
    <2>1. StepsOf(op) = {"keyunlink", "keynew", "format", "wipe_a", "wipe_b", "refs"}
      BY <1>2 DEF StepsOf
    <2>2. LastOf(op) = {"refs"}
      BY <1>2 DEF LastOf
    <2> QED
      BY <1>2, <2>1, <2>2 DEF OwnSteps
  <1>3. CASE op = "destroy_vessel" /\ todo = <<"keyrm", "brick", "unregister">>
    <2>1. StepsOf(op) = {"keyrm", "brick", "unregister"}
      BY <1>3 DEF StepsOf
    <2>2. LastOf(op) = Step
      BY <1>3 DEF LastOf
    <2> QED
      BY <1>3, <2>1, <2>2 DEF OwnSteps, Step
  <1>4. CASE op = "delete"
            /\ todo = <<"keyrm", "brick", "unlink", "unregister", "refs_if_last">>
    <2>1. StepsOf(op) = {"keyrm", "brick", "unlink", "unregister", "refs_if_last"}
      BY <1>4 DEF StepsOf
    <2>2. LastOf(op) = Step
      BY <1>4 DEF LastOf
    <2> QED
      BY <1>4, <2>1, <2>2 DEF OwnSteps, Step
  <1>5. CASE op = "brick" /\ todo = <<"keyrm", "brick", "wipe_a", "wipe_b">>
    <2>1. StepsOf(op) = {"keyrm", "brick", "wipe_a", "wipe_b"}
      BY <1>5 DEF StepsOf
    <2>2. LastOf(op) = {"wipe_b"}
      BY <1>5 DEF LastOf
    <2> QED
      BY <1>5, <2>1, <2>2 DEF OwnSteps
  <1>6. CASE op = "destroy_face" /\ todo = <<"erase", "reset">>
    <2>1. StepsOf(op) = {"erase", "reset"}
      BY <1>6 DEF StepsOf
    <2>2. LastOf(op) = Step
      BY <1>6 DEF LastOf
    <2> QED
      BY <1>6, <2>1, <2>2 DEF OwnSteps, Step
  <1>7. CASE op = "purge_other" /\ todo = <<"erase", "touch">>
    <2>1. StepsOf(op) = {"erase", "touch"}
      BY <1>7 DEF StepsOf
    <2>2. LastOf(op) = Step
      BY <1>7 DEF LastOf
    <2> QED
      BY <1>7, <2>1, <2>2 DEF OwnSteps, Step
  <1>8. CASE op = "purge_other" /\ todo = <<"erase">>
    <2>1. StepsOf(op) = {"erase", "touch"}
      BY <1>8 DEF StepsOf
    <2>2. LastOf(op) = Step
      BY <1>8 DEF LastOf
    <2> QED
      BY <1>8, <2>1, <2>2 DEF OwnSteps, Step
  <1>9. CASE op = "open" /\ todo = <<"register">>
    <2>1. StepsOf(op) = {"register"}
      BY <1>9 DEF StepsOf
    <2>2. LastOf(op) = Step
      BY <1>9 DEF LastOf
    <2> QED
      BY <1>9, <2>1, <2>2 DEF OwnSteps, Step
  <1>10. CASE op = "retrieve" /\ todo = <<"touch">>
    <2>1. StepsOf(op) = {"touch"}
      BY <1>10 DEF StepsOf
    <2>2. LastOf(op) = Step
      BY <1>10 DEF LastOf
    <2> QED
      BY <1>10, <2>1, <2>2 DEF OwnSteps, Step
  <1>11. CASE op = "add" /\ todo = <<"open_slot", "touch", "cred">>
    <2>1. StepsOf(op) = {"auth", "open_slot", "purge_slot", "touch", "cred"}
      BY <1>11 DEF StepsOf
    <2>2. LastOf(op) = {"cred"}
      BY <1>11 DEF LastOf
    <2> QED
      BY <1>11, <2>1, <2>2 DEF OwnSteps
  <1>12. CASE op = "add" /\ e # NoPass
            /\ todo = <<"auth", "open_slot", "purge_slot", "touch", "cred">>
    <2>1. StepsOf(op) = {"auth", "open_slot", "purge_slot", "touch", "cred"}
      BY <1>12 DEF StepsOf
    <2>2. LastOf(op) = {"cred"}
      BY <1>12 DEF LastOf
    <2> QED
      BY <1>12, <2>1, <2>2 DEF OwnSteps
  <1>13. CASE op = "filler" /\ todo = <<"open_slot", "purge_slot", "touch">>
    <2>1. StepsOf(op) = {"open_slot", "purge_slot", "touch"}
      BY <1>13 DEF StepsOf
    <2>2. LastOf(op) = Step
      BY <1>13 DEF LastOf
    <2> QED
      BY <1>13, <2>1, <2>2 DEF OwnSteps, Step
  <1>14. CASE op = "remove" /\ todo = <<"open_slot", "touch">>
    <2>1. StepsOf(op) = {"open_slot", "touch"}
      BY <1>14 DEF StepsOf
    <2>2. LastOf(op) = Step
      BY <1>14 DEF LastOf
    <2> QED
      BY <1>14, <2>1, <2>2 DEF OwnSteps, Step
  <1> QED
    BY <1>1, <1>2, <1>3, <1>4, <1>5, <1>6, <1>7,
       <1>8, <1>9, <1>10, <1>11, <1>12, <1>13, <1>14

(* An operation begins with its own steps, and none of them behind it. *)
LEMMA BeginFits ==
  ASSUME NEW op, NEW v, NEW f, NEW p, NEW e, NEW files, NEW todo,
         Begin(op, v, f, p, e, files, todo), OwnSteps(op, todo, e)
  PROVE  /\ Fits'
         /\ \A i \in 1..Len(todo) : ~Done(todo[i])'
  <1>1. job'.op = op /\ job'.todo = todo /\ job'.e = e
    BY DEF Begin
  <1> QED
    BY <1>1 DEF Fits, FitsOf, Done

(* An operation other than a write or a wipe begins. *)
LEMMA BeginTakes ==
  ASSUME NEW op, NEW v, NEW f, NEW p, NEW e, NEW files, NEW todo,
         Begin(op, v, f, p, e, files, todo),
         \/ op = "create" /\ todo = <<"keyunlink", "keynew", "format", "register", "refs">>
         \/ op = "destroy_vessel" /\ todo = <<"keyrm", "brick", "unregister">>
         \/ op = "delete" /\ todo = <<"keyrm", "brick", "unlink", "unregister", "refs_if_last">>
         \/ op = "destroy_face" /\ todo = <<"erase", "reset">>
         \/ op = "purge_other" /\ todo \in {<<"erase", "touch">>, <<"erase">>}
         \/ op = "open" /\ todo = <<"register">>
         \/ op = "retrieve" /\ todo = <<"touch">>
  PROVE  Fits' /\ WriteUnderway' /\ WipeUnderway'
  <1>1. job'.op = op
    BY DEF Begin
  <1>2. WriteUnderway' /\ WipeUnderway'
    BY <1>1 DEF WriteUnderway, WipeUnderway, WriteOps
  <1>3. Fits'
    BY PlanFits, BeginFits
  <1> QED
    BY <1>2, <1>3

(* A wipe begins with both Faces ahead of it. *)
LEMMA BeginWipes ==
  ASSUME NEW op, NEW v, NEW f, NEW p, NEW e, NEW files, NEW todo,
         Begin(op, v, f, p, e, files, todo),
         \/ op = "brick" /\ todo = <<"keyrm", "brick", "wipe_a", "wipe_b">>
         \/ op = "initialize"
            /\ todo = <<"keyunlink", "keynew", "format", "wipe_a", "wipe_b", "refs">>
  PROVE  Fits' /\ WriteUnderway' /\ WipeUnderway'
  <1>1. job'.op = op
    BY DEF Begin
  <1>2. WriteUnderway'
    BY <1>1 DEF WriteUnderway, WriteOps
  <1>3. Fits' /\ \A i \in 1..Len(todo) : ~Done(todo[i])'
    BY PlanFits, BeginFits
  <1>4. ~Done("wipe_a")' /\ ~Done("wipe_b")'
    <2>1. CASE op = "brick"
      <3>1. 3 \in 1..Len(todo) /\ 4 \in 1..Len(todo)
            /\ todo[3] = "wipe_a" /\ todo[4] = "wipe_b"
        BY <2>1
      <3> QED
        BY <1>3, <3>1
    <2>2. CASE op = "initialize"
      <3>1. 4 \in 1..Len(todo) /\ 5 \in 1..Len(todo)
            /\ todo[4] = "wipe_a" /\ todo[5] = "wipe_b"
        BY <2>2
      <3> QED
        BY <1>3, <3>1
    <2> QED
      BY <2>1, <2>2
  <1> QED
    BY <1>2, <1>3, <1>4 DEF WipeUnderway

(* A write begins with all it was promised to keep. *)
LEMMA BeginWrites ==
  ASSUME NEW op, NEW v, NEW f, NEW p \in Pass, NEW e, NEW files, NEW todo,
         Begin(op, v, f, p, e, files, todo),
         \/ op = "add" /\ e = NoPass /\ todo = <<"open_slot", "touch", "cred">>
         \/ op = "add" /\ e # NoPass
            /\ todo = <<"auth", "open_slot", "purge_slot", "touch", "cred">>
         \/ op = "filler" /\ todo = <<"open_slot", "purge_slot", "touch">>
         \/ op = "remove" /\ todo = <<"open_slot", "touch">>,
         v \in present', truth'[v][f] \subseteq files,
         op = "add" => f \in refs' /\ v \notin wiped'
  PROVE  Fits' /\ WriteUnderway' /\ WipeUnderway'
  <1>1. /\ job'.op = op /\ job'.e = e /\ job'.p = p
        /\ job'.v = v /\ job'.f = f /\ job'.files = files
    BY DEF Begin
  <1>2. WipeUnderway' /\ p # NoPass
    BY <1>1, PassAssumption DEF WipeUnderway
  <1>3. Fits' /\ \A i \in 1..Len(todo) : ~Done(todo[i])'
    BY PlanFits, BeginFits
  <1>4. CASE op = "add" /\ e = NoPass
    <2>1. 1 \in 1..Len(todo) /\ todo[1] = "open_slot"
      BY <1>4
    <2> QED
      BY <1>1, <1>2, <1>3, <1>4, <2>1 DEF WriteUnderway
  <1>5. CASE op = "add" /\ e # NoPass
    <2>1. 1 \in 1..Len(todo) /\ todo[1] = "auth" /\ 2 \in 1..Len(todo) /\ todo[2] = "open_slot"
      BY <1>5
    <2> QED
      BY <1>1, <1>2, <1>3, <1>5, <2>1 DEF WriteUnderway
  <1>6. CASE op \in {"filler", "remove"}
    BY <1>1, <1>2, <1>3, <1>6 DEF WriteUnderway
  <1> QED
    BY <1>4, <1>5, <1>6

(* What may be written over holds nothing, or opens and is kept. *)
LEMMA NamespaceKept ==
  ASSUME Kept, NEW v \in Vessel, NEW f \in Face, NEW p, Readable(v, f, p) \/ Opens(v, f, p)
  PROVE  truth[v][f] \subseteq Namespace(v, f, p)
  BY DEF Kept, Readable, Namespace

LEMMA StartPromises ==
  ASSUME PromiseInv, Start
  PROVE  PromiseInv'
  <1>t. TypesOK /\ TypesOK' /\ truth \in [Vessel -> [Face -> SUBSET File]]
    BY StartTypes DEF PromiseInv, PlanInv, TypesOK, HistoryTypes
  <1>k. ASSUME Fits', GivenUp', WriteUnderway', WipeUnderway',
               UNCHANGED <<storage, registry>>, refs \subseteq refs',
               \A v \in Vessel, f \in Face : truth'[v][f] \subseteq truth[v][f],
               armed' \subseteq armed, wiped' \subseteq wiped
        PROVE  PromiseInv'
    BY <1>t, <1>k, BeginPromises DEF PromiseInv, PlanInv
  <1>n. NothingStored \in [Vessel -> [Face -> SUBSET File]]
        /\ \A v \in Vessel, f \in Face : NothingStored[v][f] = {}
    BY DEF NothingStored
  <1>e. ASSUME NEW v \in Vessel, NEW op \in {"destroy_vessel", "delete", "brick", "initialize"},
               NEW todo, EndVessel(op, v, todo), Fits', WriteUnderway', WipeUnderway'
        PROVE  PromiseInv'
    <2>1. job'.op = op /\ job'.v = v /\ truth' = NothingStored
          /\ armed' = IF op = "initialize" THEN {} ELSE armed \ ({v} \X Face)
      BY <1>e DEF EndVessel, Begin
    <2>2. GivenUp'
      BY <1>n, <2>1 DEF GivenUp
    <2> QED
      BY <1>e, <1>k, <1>n, <2>1, <2>2 DEF EndVessel
  <1>1. ASSUME NEW v \in Vessel, CreateVessel(v) PROVE PromiseInv'
    <2>1. job'.op = "create" /\ truth' = NothingStored /\ armed' = {}
      BY <1>1 DEF CreateVessel, Begin
    <2>2. GivenUp'
      BY <1>n, <2>1 DEF GivenUp
    <2>3. Fits' /\ WriteUnderway' /\ WipeUnderway'
      BY <1>1, BeginTakes DEF CreateVessel
    <2> QED
      BY <1>1, <1>k, <1>n, <2>1, <2>2, <2>3 DEF CreateVessel
  <1>2. ASSUME NEW v \in Vessel, OpenVessel(v) PROVE PromiseInv'
    <2>1. job'.op = "open"
      BY <1>2 DEF OpenVessel, Begin
    <2>2. GivenUp'
      BY <2>1 DEF GivenUp, KeyOps
    <2>3. Fits' /\ WriteUnderway' /\ WipeUnderway'
      BY <1>2, BeginTakes DEF OpenVessel
    <2> QED
      BY <1>2, <1>k, <2>2, <2>3 DEF OpenVessel, history
  <1>3. ASSUME NEW v \in Vessel, NEW f \in Face, NEW p \in Pass, NEW e \in Pass \union {NoPass},
               NEW x \in File, AddPayload(v, f, p, e, x)
        PROVE  PromiseInv'
    <2>1. job'.op = "add"
      BY <1>3 DEF AddPayload, Begin
    <2>2. GivenUp'
      BY <2>1 DEF GivenUp, KeyOps
    <2>3. truth'[v][f] \subseteq Namespace(v, f, p) \union {x}
      BY <1>3, NamespaceKept DEF AddPayload, PromiseInv
    <2>4. v \in present' /\ f \in refs' /\ v \notin wiped'
      BY <1>3 DEF AddPayload, storage
    <2>5. Fits' /\ WriteUnderway' /\ WipeUnderway'
      <3>1. CASE e = NoPass
        BY <1>3, <2>3, <2>4, <3>1, BeginWrites DEF AddPayload
      <3>2. CASE e # NoPass
        BY <1>3, <2>3, <2>4, <3>2, BeginWrites DEF AddPayload
      <3> QED
        BY <3>1, <3>2
    <2> QED
      BY <1>3, <1>k, <2>2, <2>5 DEF AddPayload
  <1>4. ASSUME NEW v \in Vessel, NEW f \in Face, NEW p \in Pass, NEW e \in Pass \union {NoPass},
               RewriteFiller(v, f, p, e)
        PROVE  PromiseInv'
    <2>1. job'.op = "filler"
      BY <1>4 DEF RewriteFiller, Begin
    <2>2. GivenUp'
      BY <2>1 DEF GivenUp, KeyOps
    <2>3. truth'[v][f] \subseteq Namespace(v, f, p) /\ v \in present'
      BY <1>4, NamespaceKept DEF RewriteFiller, PromiseInv, storage
    <2>4. Fits' /\ WriteUnderway' /\ WipeUnderway'
      BY <1>4, <2>3, BeginWrites DEF RewriteFiller
    <2> QED
      BY <1>4, <1>k, <2>2, <2>4 DEF RewriteFiller
  <1>5. ASSUME NEW v \in Vessel, NEW f \in Face, NEW p \in Pass, NEW x \in File,
               RemoveFile(v, f, p, x)
        PROVE  PromiseInv'
    <2>1. job'.op = "remove"
      BY <1>5 DEF RemoveFile, Begin
    <2>2. GivenUp'
      BY <2>1 DEF GivenUp, KeyOps
    <2>3. \A w \in Vessel, g \in Face :
             truth'[w][g] = IF <<w, g>> = <<v, f>> THEN truth[w][g] \ {x} ELSE truth[w][g]
      BY <1>5, <1>t DEF RemoveFile
    <2>4. truth'[v][f] \subseteq Namespace(v, f, p) \ {x} /\ v \in present'
      BY <1>5, <2>3, NamespaceKept DEF RemoveFile, PromiseInv, storage
    <2>5. Fits' /\ WriteUnderway' /\ WipeUnderway'
      BY <1>5, <2>4, BeginWrites DEF RemoveFile
    <2> QED
      BY <1>5, <1>k, <2>2, <2>3, <2>5 DEF RemoveFile
  <1>6. ASSUME NEW v \in Vessel, NEW f \in Face, NEW p \in Pass, Retrieve(v, f, p)
        PROVE  PromiseInv'
    <2>1. job'.op = "retrieve"
      BY <1>6 DEF Retrieve, Begin
    <2>2. GivenUp'
      BY <2>1 DEF GivenUp, KeyOps
    <2>3. Fits' /\ WriteUnderway' /\ WipeUnderway'
      BY <1>6, BeginTakes DEF Retrieve
    <2> QED
      BY <1>6, <1>k, <2>2, <2>3 DEF Retrieve, history
  <1>7. ASSUME NEW v \in Vessel, NEW f \in Face, NEW e \in Pass, DestroyFace(v, f, e)
        PROVE  PromiseInv'
    <2>1. job'.op = "destroy_face" /\ job'.v = v /\ job'.f = f
      BY <1>7 DEF DestroyFace, Begin
    <2>2. \A w \in Vessel, g \in Face :
             truth'[w][g] = IF <<w, g>> = <<v, f>> THEN {} ELSE truth[w][g]
      BY <1>7, <1>t DEF DestroyFace
    <2>3. GivenUp'
      BY <1>7, <2>1, <2>2 DEF DestroyFace, GivenUp, KeyOps
    <2>4. Fits' /\ WriteUnderway' /\ WipeUnderway'
      BY <1>7, BeginTakes DEF DestroyFace
    <2> QED
      BY <1>7, <1>k, <2>2, <2>3, <2>4 DEF DestroyFace
  <1>8. ASSUME NEW v \in Vessel, DestroyVessel(v) \/ DeleteVessel(v) PROVE PromiseInv'
    BY <1>8, <1>e, BeginTakes DEF DestroyVessel, DeleteVessel, EndVessel
  <1>9. ASSUME NEW v \in Vessel, EmergencyBrick(v) \/ EmergencyInitialize(v) PROVE PromiseInv'
    BY <1>9, <1>e, BeginWipes DEF EmergencyBrick, EmergencyInitialize, EndVessel
  <1>10. ASSUME NEW v \in Vessel, NEW f \in Face, NEW web \in BOOLEAN, PurgeOther(v, f, web)
         PROVE  PromiseInv'
    <2>1. job'.op = "purge_other" /\ job'.v = v /\ job'.f = f
      BY <1>10 DEF PurgeOther, Begin
    <2>2. \A w \in Vessel, g \in Face :
             truth'[w][g] = IF <<w, g>> = <<v, f>> THEN {} ELSE truth[w][g]
      BY <1>10, <1>t DEF PurgeOther
    <2>3. GivenUp'
      BY <1>10, <2>1, <2>2 DEF PurgeOther, GivenUp, KeyOps
    <2>4. Fits' /\ WriteUnderway' /\ WipeUnderway'
      BY <1>10, BeginTakes DEF PurgeOther
    <2> QED
      BY <1>10, <1>k, <2>2, <2>3, <2>4 DEF PurgeOther
  <1>11. ASSUME NEW f \in Face, CaptureReference(f) PROVE PromiseInv'
    <2>1. job' = job /\ job.op = "idle"
      BY <1>11 DEF CaptureReference, Idle
    <2>2. Fits' /\ GivenUp' /\ WriteUnderway' /\ WipeUnderway'
      BY <2>1, OverOwesNothing DEF PromiseInv, PlanInv, Fits
    <2> QED
      BY <1>11, <1>k, <2>2 DEF CaptureReference, history
  <1> QED
    BY <1>1, <1>2, <1>3, <1>4, <1>5, <1>6, <1>7, <1>8, <1>9, <1>10, <1>11 DEF Start

-----------------------------------------------------------------------------
LEMMA InitPromises == Init => PromiseInv
  <1> SUFFICES ASSUME Init PROVE PromiseInv
    OBVIOUS
  <1>1. Fits
    BY NoJobFits DEF Init, Fits
  <1>2. GivenUp /\ WriteUnderway /\ WipeUnderway
    BY NoJobOK DEF Init, GivenUp, WriteUnderway, WipeUnderway, KeyOps, WriteOps
  <1>3. Kept /\ Armed /\ Forgotten
    BY DEF Init, NothingStored, Kept, Armed, Forgotten
  <1> QED
    BY <1>1, <1>2, <1>3, InitTypes DEF PromiseInv, PlanInv

LEMMA NextPromises == PromiseInv /\ [Next]_vars => PromiseInv'
  <1> SUFFICES ASSUME PromiseInv, [Next]_vars PROVE PromiseInv'
    OBVIOUS
  <1>1. CASE Next
    BY <1>1, StartPromises, StorageStepPromises, SavePromises, CrashPromises DEF Next
  <1>2. CASE UNCHANGED vars
    <2>1. TypesOK'
      BY <1>2, NextTypes DEF PromiseInv, PlanInv
    <2>2. /\ UNCHANGED <<slots, present, accessKey, registered, sealed>>
          /\ UNCHANGED <<refs, job, truth, armed, wiped>>
      BY <1>2 DEF vars, storage, registry, history
    <2>3. Fits' /\ GivenUp' /\ WriteUnderway' /\ WipeUnderway'
      BY <2>2 DEF PromiseInv, PlanInv, Fits, FitsOf, OwnSteps, GivenUp, WriteUnderway, WipeUnderway, Done,
                  FaceRecord
    <2>4. Kept' /\ Armed' /\ Forgotten'
      BY <2>2 DEF PromiseInv, Kept, Armed, Forgotten, FaceRecord
    <2> QED
      BY <2>1, <2>3, <2>4 DEF PromiseInv, PlanInv
  <1> QED
    BY <1>1, <1>2

(* The invariant that carries the three theorems below. *)
THEOREM PromiseInvHolds == Spec => []PromiseInv
  BY InitPromises, NextPromises, PTL DEF Spec

(* The list at AckedReadable is complete: a file add_payload acknowledged  *)
(* stays in an open slot that opens, of a Face the registry lets retrieval *)
(* look at, unless a command named it, a command for any Vessel destroyed  *)
(* or rotated the shared key, or power failed inside the overwrite of its  *)
(* own slot or inside a save that left the registry unreadable.            *)
THEOREM AckedReadableHolds == Spec => []AckedReadable
  <1>1. PromiseInv => AckedReadable
    <2> SUFFICES ASSUME PromiseInv, NEW v \in Vessel, NEW f \in Face, truth[v][f] # {}
                 PROVE  /\ v \in present
                        /\ \E p \in Pass : Opens(v, f, p)
                        /\ truth[v][f] \subseteq slots[v][f]["open"].files
                        /\ FaceRecord(v, f).cred
      BY DEF AckedReadable
    <2>1. /\ v \in present /\ FaceRecord(v, f).cred
          /\ accessKey = "live" /\ slots[v][f]["open"].pass # NoPass
          /\ truth[v][f] \subseteq slots[v][f]["open"].files
      BY DEF PromiseInv, Kept
    <2>2. slots[v][f]["open"].pass \in Pass
      BY <2>1, SlotTypes DEF PromiseInv, PlanInv, Slot, Role
    <2>3. Opens(v, f, slots[v][f]["open"].pass)
      BY <2>1 DEF Opens
    <2> QED
      BY <2>1, <2>2, <2>3
  <1> QED
    BY <1>1, PromiseInvHolds, PTL

(* The list at DestroyArmed is complete: a Face stored to with a destroy   *)
(* passphrase has one that destroy_face accepts unless it was destroyed,   *)
(* its Vessel was ended, any Vessel was created or initialized, or power   *)
(* failed inside a save that left the registry unreadable.                 *)
THEOREM DestroyArmedHolds == Spec => []DestroyArmed
  <1>1. PromiseInv => DestroyArmed
    <2> SUFFICES ASSUME PromiseInv, NEW v \in Vessel, NEW f \in Face, <<v, f>> \in armed
                 PROVE  \E e \in Pass : DestroyVerified(v, f, e)
      BY DEF DestroyArmed
    <2>1. /\ v \in present /\ f \in refs
          /\ FaceRecord(v, f).cred /\ FaceRecord(v, f).auth # NoPass
      BY DEF PromiseInv, Armed
    <2>2. FaceRecord(v, f).auth \in Pass
      BY <2>1, RecordsTypes DEF PromiseInv, PlanInv, Detail
    <2>3. DestroyVerified(v, f, FaceRecord(v, f).auth)
      BY <2>1, <2>2 DEF DestroyVerified
    <2> QED
      BY <2>2, <2>3
  <1> QED
    BY <1>1, PromiseInvHolds, PTL

(* After a whole-container wipe or an initialization completed, the        *)
(* registry holds no credentials of the Vessel until it is stored to.      *)
THEOREM WipeEndsCredentialsHolds == Spec => []WipeEndsCredentials
  <1>1. PromiseInv => WipeEndsCredentials
    BY DEF PromiseInv, Forgotten, WipeEndsCredentials
  <1> QED
    BY <1>1, PromiseInvHolds, PTL
=============================================================================
