-------------------------- MODULE WebTarget_proofs --------------------------
(***************************************************************************)
(* For any number of Vessels, passphrases and entries, and whatever the    *)
(* console does between two steps of a body: the steps of a body agree on  *)
(* the container; only the entry that was presented is cleared; what was   *)
(* cleared is forgotten by the registry; what was stored is counted there. *)
(*                                                                         *)
(* A body is the list of steps it has left, so the invariant speaks of     *)
(* that list: how it is laid out (PlanOK), which Vessel its steps will use *)
(* (SameInv), that nothing but forgetting follows a step that clears       *)
(* (ClearsLast), which entry a step may clear (PresentedInv), which later  *)
(* step owes the registry what is cleared (ForgetInv), and what the steps  *)
(* of a store have achieved so far (StoreInv).                             *)
(***************************************************************************)
EXTENDS WebTarget, FiniteSetTheorems, SequenceTheorems, TLAPS

-----------------------------------------------------------------------------
(* The inductive invariant *)

Steps == 1..Len(op.todo)
Before(i, dos) == \E j \in Steps : j < i /\ op.todo[j].do \in dos

Finds == {"target", "reset"}
UsesVessel == {"open", "verify", "read", "write", "touch"}
Clears == {"purge", "brick", "format"}

(* A plan is laid out as the code runs it.                                 *)
PlanOK ==
    \A i \in Steps : LET s == op.todo[i] IN
        /\ s.do \in {"touch", "write"} => op.vessel # Legacy /\ ~Before(i, Finds)
        /\ s.do \in {"touch", "purge"} => s.mode \in Mode
        /\ s.do = "reset" => (IF s.mode = "none" THEN s.set = "fresh" ELSE s.set = "forget")
        /\ s.do = "reset" => \A j \in Steps : j > i => op.todo[j].do = "unbind"
        /\ s.do = "open" /\ ~Before(i, {"look"}) => op.first \in Mode
        /\ s.do \in {"capture", "read", "write"} /\ ~Before(i, {"select", "pick"}) => op.mode \in Mode
        /\ s.do = "select" => op.todo = Store
        /\ s.do = "open" => op.kind = "retrieve"
        /\ s.do = "again" => op.kind = "destroy"
        /\ s.do = "pick" => op.kind = "register"
        /\ s.do = "verify" =>
              /\ op.kind \in {"retrieve", "destroy"}
              /\ op.kind = "retrieve" => op.first \in Mode
              /\ op.kind = "destroy" /\ ~Before(i, {"again"}) => op.mode \in Mode

RoundOK == op.round # 0 => op.todo # <<>> /\ op.todo[1].do = "touch"

(* What has been used, what is still to be used without another lookup,    *)
(* and what a copy of the registry about to be written says, is the        *)
(* WebUI's Vessel.                                                         *)
SameInv ==
    ~moved =>
        /\ op.used \subseteq {WebVessel}
        /\ \A i \in Steps : op.todo[i].do \in UsesVessel /\ ~Before(i, Finds) => op.vessel = WebVessel
        /\ \A i \in Steps : op.todo[i].do \in Clears /\ ~Before(i, {"container"}) => op.at = WebVessel
        /\ op.round \in {1, 3} => MostRecent(snap, exists) = WebVessel

Settles(s) == s.do \in {"reset", "unbind"} \/ (s.do = "touch" /\ s.set \in Resets)

(* Behind a step that clears, and after one, the body only forgets.        *)
ClearsLast ==
    /\ \A i, j \in Steps : i < j /\ op.todo[i].do \in Clears => Settles(op.todo[j])
    /\ op.cleared # {} => \A j \in Steps : Settles(op.todo[j])

Decides == {"look", "again", "open", "verify"}
Fits(o, m) ==
    /\ o.kind = "retrieve" => IF o.result = "opened" THEN m # o.first ELSE m = o.first
    /\ o.kind = "destroy" => m = o.mode
PresentedInv ==
    op.kind \in {"retrieve", "destroy"} =>
        /\ \A i \in Steps : op.todo[i].do \notin {"select", "pick", "brick", "format", "read", "write"}
        /\ \A i \in Steps : op.todo[i].do = "purge" => Fits(op, op.todo[i].mode)
        /\ \A x \in op.cleared : Fits(op, x[2])
        /\ \A i, j \in Steps : op.todo[i].do \in Decides => op.todo[j].do # "purge"
        /\ \A i \in Steps : op.todo[i].do \in Decides => op.result # "opened"

Wiping == {"wipe", "initialize", "destroy"}
Owes(kind, s, m) ==
    /\ s.do \in {"reset", "touch"} /\ s.mode \in {m, "none"} /\ s.set \in Resets
    /\ kind \in Wiping => s.set = "fresh"
Forgotten(kind, f) == f.count = 0 /\ (kind \in Wiping => f = FreshFace)

ForgetInv ==
    /\ ~disturbed => ~moved
    /\ \A i \in Steps : op.todo[i].do = "purge" =>
          \E j \in Steps : j > i /\ Owes(op.kind, op.todo[j], op.todo[i].mode)
    /\ \A i \in Steps : op.todo[i].do \in {"brick", "format"} =>
          \E j \in Steps : j > i /\ \A m \in Mode : Owes(op.kind, op.todo[j], m)
    /\ \A x \in op.cleared : x[1] \in op.used
    /\ ~disturbed =>
          /\ op.round \in {1, 3} => snap = reg
          /\ op.round \in {2, 3} => op.vessel \in DOMAIN reg /\ op.face = reg[op.vessel].face
          /\ \A x \in op.cleared : x[1] \in DOMAIN reg =>
                \/ Forgotten(op.kind, reg[x[1]].face[x[2]])
                \/ \E i \in Steps : Owes(op.kind, op.todo[i], x[2])

Kept == reg[op.vessel].face[op.mode]

StoreInv ==
    /\ \A i \in Steps : op.todo[i].do = "write" =>
          /\ op.result # "stored" /\ op.mode \in Mode
          /\ \A j \in Steps : /\ j < i => op.todo[j] = Touch(op.mode, "armed")
                              /\ j > i => op.todo[j] \in {Touch(op.mode, "count"), Touch(op.mode, "creds")}
          /\ \A set \in {"count", "creds"} : \E j \in Steps : j > i /\ op.todo[j] = Touch(op.mode, set)
          /\ ~disturbed /\ op.arm # "none" => i # 1 \/ Kept.destroy = op.arm
    /\ op.result = "stored" => \A i \in Steps : op.todo[i].do = "touch"
    /\ op.result = "stored" /\ op.vessel # Legacy =>
          /\ op.mode \in Mode
          /\ \A i \in Steps : op.todo[i] \in {Touch(op.mode, "count"), Touch(op.mode, "creds")}
          /\ ~disturbed =>
              /\ content[op.vessel][op.mode].open = op.pass
              /\ content[op.vessel][op.mode].files = op.files
              /\ "upload" \in op.files
              /\ Kept.count = Cardinality(op.files) \/ \E i \in Steps : op.todo[i] = Touch(op.mode, "count")
              /\ Kept.creds = "set" \/ \E i \in Steps : op.todo[i] = Touch(op.mode, "creds")
              /\ op.arm # "none" => Kept.destroy = op.arm

-----------------------------------------------------------------------------
(* Types *)

LEMMA Rests ==
  ASSUME NEW s \in Seq(StepType), s # <<>>
  PROVE  /\ Len(s) \in Nat \ {0} /\ 1 \in 1..Len(s)
         /\ Head(s) = s[1] /\ s[1] \in StepType
         /\ Tail(s) \in Seq(StepType) /\ Len(Tail(s)) = Len(s) - 1
         /\ \A i \in 1..Len(Tail(s)) : i + 1 \in 1..Len(s) /\ Tail(s)[i] = s[i + 1]
  <1>1. Len(s) \in Nat \ {0}
    BY EmptySeq
  <1>2. Head(s) = s[1] /\ s[1] \in StepType
    BY <1>1, ElementOfSeq
  <1> QED
    BY <1>1, <1>2, HeadTailProperties

LEMMA StepTypes ==
  ASSUME NEW m \in Mode \union {"none"}, NEW set \in Resets \union {"count", "creds", "armed", "none"}
  PROVE  /\ Touch(m, set) \in StepType
         /\ Step("purge", m, set) \in StepType /\ Step("reset", m, set) \in StepType
         /\ Step("write", m, set) \in StepType
  BY DEF Touch, Step, StepType

LEMMA DoTypes ==
  ASSUME NEW do \in {"look", "again", "target", "reset", "container", "select", "pick", "capture",
                     "open", "verify", "purge", "brick", "format", "unbind", "read", "write", "touch"}
  PROVE  Do(do) \in StepType
  BY DEF Do, Step, StepType

LEMMA Others ==
  ASSUME NEW m \in Mode
  PROVE  OtherMode(m) \in Mode /\ OtherMode(m) # m /\ m # "none"
  BY DEF OtherMode, Mode

(* s \o t, as a name the provers leave alone *)
Cat(s, t) == s \o t

LEMMA JoinedParts ==
  ASSUME NEW s \in Seq(StepType), NEW t \in Seq(StepType)
  PROVE  /\ Cat(s, t) \in Seq(StepType) /\ Len(Cat(s, t)) = Len(s) + Len(t)
         /\ Len(s) \in Nat /\ Len(t) \in Nat
         /\ \A i \in 1..Len(s) : Cat(s, t)[i] = s[i]
         /\ \A i \in 1..Len(t) : Cat(s, t)[i + Len(s)] = t[i]
  <1> DEFINE j == Cat(s, t)
  <1>1. j = s \o t
    BY DEF Cat
  <1> HIDE DEF j
  <1>2. j \in Seq(StepType) /\ Len(j) = Len(s) + Len(t) /\ Len(s) \in Nat /\ Len(t) \in Nat
    BY <1>1, ConcatProperties, LenProperties, Zenon
  <1>3. \A i \in 1..Len(s) + Len(t) : j[i] = IF i <= Len(s) THEN s[i] ELSE t[i - Len(s)]
    BY <1>1, ConcatProperties
  <1>4. \A i \in 1..Len(s) : j[i] = s[i]
    BY <1>2, <1>3
  <1>5. ASSUME NEW i \in 1..Len(t) PROVE j[i + Len(s)] = t[i]
    <2>1. i + Len(s) \in 1..Len(s) + Len(t) /\ ~(i + Len(s) <= Len(s)) /\ (i + Len(s)) - Len(s) = i
      BY <1>2
    <2> QED
      BY <1>2, <1>3, <2>1
  <1> QED
    BY <1>2, <1>4, <1>5, Zenon DEF j

(* Where each step of the two comes from *)
LEMMA Joined ==
  ASSUME NEW s \in Seq(StepType), NEW t \in Seq(StepType), NEW i \in 1..Len(Cat(s, t))
  PROVE  \/ i \in 1..Len(s) /\ Cat(s, t)[i] = s[i]
         \/ i - Len(s) \in 1..Len(t) /\ Cat(s, t)[i] = t[i - Len(s)]
  <1> DEFINE j == Cat(s, t)
             k == i - Len(s)
  <1>1. /\ Len(j) = Len(s) + Len(t) /\ Len(s) \in Nat /\ Len(t) \in Nat
        /\ \A n \in 1..Len(s) : j[n] = s[n]
        /\ \A n \in 1..Len(t) : j[n + Len(s)] = t[n]
    BY JoinedParts, Zenon
  <1> HIDE DEF j
  <1>2. CASE i \in 1..Len(s)
    BY <1>1, <1>2 DEF j
  <1>3. CASE i \notin 1..Len(s)
    <2>1. k \in 1..Len(t) /\ k + Len(s) = i
      BY <1>1, <1>3 DEF j
    <2> HIDE DEF k
    <2>2. j[k + Len(s)] = t[k]
      BY <1>1, <2>1
    <2> QED
      BY <2>1, <2>2 DEF j, k
  <1> QED
    BY <1>2, <1>3

LEMMA PlansTyped ==
  ASSUME NEW m \in Mode, NEW arm \in Pass \union {"none"}
  PROVE  /\ ClearOther(m) \in Seq(StepType) /\ ClearAccessed(m) \in Seq(StepType)
         /\ MaybeAutoPurge(m) \in Seq(StepType)
         /\ Wipe \in Seq(StepType) /\ Initialize \in Seq(StepType)
         /\ Retrieve \in Seq(StepType) /\ DestroyFace \in Seq(StepType)
         /\ Store \in Seq(StepType) /\ RegisterKey \in Seq(StepType)
         /\ StoreInto(m, arm) \in Seq(StepType)
  <1>1. /\ Do("container") \in StepType /\ Do("brick") \in StepType /\ Do("format") \in StepType
        /\ Do("unbind") \in StepType /\ Do("look") \in StepType /\ Do("again") \in StepType
        /\ Do("target") \in StepType /\ Do("open") \in StepType /\ Do("verify") \in StepType
        /\ Do("select") \in StepType /\ Do("pick") \in StepType /\ Do("capture") \in StepType
        /\ Do("read") \in StepType
    BY DoTypes
  <1>2. /\ ForgetAll \in StepType
        /\ \A x \in Mode : Forget(x) \in StepType /\ Step("purge", x, "none") \in StepType
        /\ Step("write", m, "none") \in StepType
        /\ \A set \in {"armed", "count", "creds"} : Touch(m, set) \in StepType
    BY StepTypes DEF Forget, ForgetAll, Resets
  <1>3. OtherMode(m) \in Mode
    BY Others
  <1>4. ClearOther(m) \in Seq(StepType) /\ ClearAccessed(m) \in Seq(StepType)
    BY <1>1, <1>2, <1>3 DEF ClearOther, ClearAccessed, Clear
  <1>5. MaybeAutoPurge(m) \in Seq(StepType)
    BY <1>4, EmptySeq DEF MaybeAutoPurge
  <1>6. Wipe \in Seq(StepType) /\ Initialize \in Seq(StepType)
    BY <1>1, <1>2 DEF Wipe, Initialize
  <1>7. /\ Retrieve \in Seq(StepType) /\ DestroyFace \in Seq(StepType)
        /\ Store \in Seq(StepType) /\ RegisterKey \in Seq(StepType)
    BY <1>1 DEF Retrieve, DestroyFace, Store, RegisterKey
  <1>8. StoreInto(m, arm) \in Seq(StepType)
    <2>1. Arm(m, arm) \in Seq(StepType)
      BY <1>2, EmptySeq DEF Arm
    <2>2. <<Step("write", m, "none"), Touch(m, "count"), Touch(m, "creds")>> \in Seq(StepType)
      BY <1>2
    <2> QED
      BY <2>1, <2>2, ConcatProperties DEF StoreInto
  <1> QED
    BY <1>4, <1>5, <1>6, <1>7, <1>8

LEMMA EmptyIsRegistry == IsRegistry(Empty)
  BY DEF IsRegistry, Empty

LEMMA FreshTyped == FreshFaces \in FaceDetails /\ FreshFace \in FaceDetail
  BY DEF FreshFaces, FreshFace, FaceDetails, FaceDetail

LEMMA FreshIsRegistered == FreshRecord \in Registered
  BY FreshTyped, BoundAssumption DEF FreshRecord, Registered

LEMMA WithVesselTyped ==
  ASSUME NEW r, IsRegistry(r), NEW v \in Vessel
  PROVE  /\ IsRegistry(WithVessel(r, v)) /\ v \in DOMAIN WithVessel(r, v)
         /\ WithVessel(r, v)[v] \in Registered /\ WithVessel(r, v)[v].face \in FaceDetails
         /\ DOMAIN WithVessel(r, v) = DOMAIN r \union {v}
         /\ \A u \in DOMAIN r : WithVessel(r, v)[u] = r[u]
         /\ v \notin DOMAIN r => WithVessel(r, v)[v] = FreshRecord
         /\ v \in DOMAIN r => WithVessel(r, v) = r
  <1>1. \A u \in DOMAIN r : r[u] \in Registered
    BY DEF IsRegistry
  <1>2. \A u \in DOMAIN r \union {v} : (IF u \in DOMAIN r THEN r[u] ELSE FreshRecord) \in Registered
    BY <1>1, FreshIsRegistered
  <1>3. IsRegistry(WithVessel(r, v)) /\ v \in DOMAIN WithVessel(r, v)
    BY <1>2 DEF WithVessel, IsRegistry
  <1>4. WithVessel(r, v)[v] \in Registered
    BY <1>3 DEF IsRegistry
  <1>5. v \in DOMAIN r => WithVessel(r, v) = r
    BY DEF WithVessel, IsRegistry
  <1> QED
    BY <1>3, <1>4, <1>5 DEF Registered, WithVessel

LEMMA InitTyped == Init => TypeOK
  <1> SUFFICES ASSUME Init PROVE TypeOK
    OBVIOUS
  <1>1. op \in BodyType
    BY FreshTyped, EmptySeq DEF Init, Idle, BodyType, Container
  <1>2. PICK full \in SUBSET (Vessel \X Mode), p, q \in Pass :
        /\ p # q /\ \A x \in full : x[1] \in exists
        /\ content = [c \in Container |-> [m \in Mode |->
              IF <<c, m>> \in full
              THEN [open |-> p, destroy |-> q, files |-> {"earlier"}] ELSE EmptySlot]]
        /\ reg = [v \in exists |-> [opened |-> 0, face |-> [m \in Mode |->
              IF <<v, m>> \in full
              THEN [count |-> 1, creds |-> "set", destroy |-> q] ELSE FreshFace]]]
        /\ bound = {m \in Mode : \E v \in Vessel : <<v, m>> \in full}
    BY Zenon DEF Init
  <1>3. content \in [Container -> [Mode -> Slot]]
    BY <1>2 DEF Slot, EmptySlot, File
  <1>4. \A v, m : (IF <<v, m>> \in full
              THEN [count |-> 1, creds |-> "set", destroy |-> q] ELSE FreshFace) \in FaceDetail
    <2>1. [count |-> 1, creds |-> "set", destroy |-> q] \in FaceDetail
      BY DEF FaceDetail
    <2> QED
      BY <2>1, FreshTyped
  <1>5. \A v : [m \in Mode |->
              IF <<v, m>> \in full
              THEN [count |-> 1, creds |-> "set", destroy |-> q] ELSE FreshFace] \in FaceDetails
    BY <1>4 DEF FaceDetails
  <1> DEFINE F(v) == [m \in Mode |-> IF <<v, m>> \in full
              THEN [count |-> 1, creds |-> "set", destroy |-> q] ELSE FreshFace]
  <1>6. IsRegistry(reg)
    <2>1. reg = [v \in exists |-> [opened |-> 0, face |-> F(v)]]
      BY <1>2, Zenon
    <2>2. \A v : F(v) \in FaceDetails
      BY <1>5
    <2>3. exists \subseteq Vessel
      BY DEF Init
    <2> HIDE DEF F
    <2>4. \A v \in exists : [opened |-> 0, face |-> F(v)] \in Registered
      BY <2>2, BoundAssumption DEF Registered
    <2> QED
      BY <2>1, <2>3, <2>4 DEF IsRegistry
  <1> QED
    BY <1>1, <1>2, <1>3, <1>6, EmptyIsRegistry DEF TypeOK, Init

-----------------------------------------------------------------------------
(* The WebUI's Vessel *)

(* The order of resolve_web_vessel: v is not before u. *)
NotBefore(r, u, v) == r[u].opened < r[v].opened \/ (r[u].opened = r[v].opened /\ u <= v)

(* A set of registered Vessels has one that was opened last. *)
LEMMA LatestExists ==
  ASSUME NEW r, IsRegistry(r), NEW K, K \subseteq DOMAIN r, K # {}
  PROVE  \E v \in K : \A u \in K : NotBefore(r, u, v)
  <1> DEFINE HasLatest(X) == \E v \in X : \A u \in X : NotBefore(r, u, v)
             T == {X \in SUBSET K : X # {} /\ ~HasLatest(X)}
  <1> SUFFICES T = {}
    OBVIOUS
  <1>1. IsFiniteSet(K) /\ K \subseteq Nat /\ \A v \in K : r[v].opened \in Nat
    BY VesselAssumption, BoundAssumption, FS_Subset DEF IsRegistry, Registered
  <1>2. T \subseteq FiniteSubsetsOf(K)
    BY <1>1, FS_Subset DEF FiniteSubsetsOf
  <1>3. SUFFICES ASSUME T # {} PROVE FALSE
    OBVIOUS
  <1>4. PICK X \in T : \A Y \in T : <<Y, X>> \notin StrictSubsetOrdering(K)
    BY <1>2, <1>3, FS_StrictSubsetOrderingWellFounded, WFMin
  <1>5. PICK w \in X : TRUE
    OBVIOUS
  <1> DEFINE Y == X \ {w}
  <1>6. Y \in SUBSET K /\ Y \in FiniteSubsetsOf(K) /\ X \in FiniteSubsetsOf(K)
    BY <1>1, <1>2, FS_Subset DEF FiniteSubsetsOf
  <1>7. <<Y, X>> \in StrictSubsetOrdering(K)
    BY <1>5, <1>6 DEF StrictSubsetOrdering, FiniteSubsetsOf
  <1>8. Y \notin T
    BY <1>4, <1>7
  <1>9. CASE Y = {}
    <2>1. X = {w}
      BY <1>5, <1>9
    <2>2. NotBefore(r, w, w)
      BY <1>1, <1>5 DEF NotBefore
    <2>3. HasLatest(X)
      BY <2>1, <2>2
    <2> QED
      BY <2>3
  <1>10. CASE HasLatest(Y)
    <2>1. PICK y \in Y : \A u \in Y : NotBefore(r, u, y)
      BY <1>10
    <2>2. w \in K /\ y \in K /\ \A u \in X : u \in K
      BY <1>5
    <2>3. NotBefore(r, w, y) => HasLatest(X)
      BY <2>1
    <2>4. ~NotBefore(r, w, y) => \A u \in X : NotBefore(r, u, w)
      BY <2>1, <2>2, <1>1 DEF NotBefore
    <2> QED
      BY <2>3, <2>4, <1>5
  <1> QED
    BY <1>6, <1>8, <1>9, <1>10

LEMMA MostRecentKnown ==
  ASSUME NEW r, IsRegistry(r), NEW files
  PROVE  /\ MostRecent(r, files) = Legacy <=> DOMAIN r \intersect files = {}
         /\ MostRecent(r, files) # Legacy => MostRecent(r, files) \in DOMAIN r \intersect files
         /\ MostRecent(r, files) \in Container
         /\ \A u \in DOMAIN r \intersect files : NotBefore(r, u, MostRecent(r, files))
  <1> DEFINE K == DOMAIN r \intersect files
             Latest(v) == \A u \in K : r[u].opened < r[v].opened \/ (r[u].opened = r[v].opened /\ u <= v)
  <1>1. K \subseteq Vessel /\ Legacy \notin K
    BY VesselAssumption DEF IsRegistry, Legacy
  <1>2. CASE K = {}
    BY <1>2 DEF MostRecent, Container
  <1>3. CASE K # {}
    <2>1. \E v \in K : \A u \in K : NotBefore(r, u, v)
      BY <1>3, LatestExists
    <2>2. (CHOOSE v \in K : Latest(v)) \in K /\ Latest(CHOOSE v \in K : Latest(v))
      BY <2>1 DEF NotBefore
    <2>3. MostRecent(r, files) = CHOOSE v \in K : Latest(v)
      BY <1>3, Zenon DEF MostRecent
    <2> QED
      BY <1>1, <1>3, <2>2, <2>3 DEF Container, NotBefore
  <1> QED
    BY <1>2, <1>3

(* Only which Vessels there are and when they were opened decides. *)
LEMMA SameRecent ==
  ASSUME NEW r, NEW s, NEW files, IsRegistry(r), IsRegistry(s), DOMAIN r = DOMAIN s,
         \A v \in DOMAIN r : r[v].opened = s[v].opened
  PROVE  MostRecent(r, files) = MostRecent(s, files)
  <1> DEFINE K == DOMAIN r \intersect files
             a == MostRecent(r, files)
             b == MostRecent(s, files)
  <1>1. CASE K = {}
    BY <1>1, MostRecentKnown
  <1>2. CASE K # {}
    <2>1. a \in K /\ b \in K
      BY <1>2, MostRecentKnown
    <2>2. NotBefore(r, b, a) /\ NotBefore(s, a, b)
      BY <2>1, MostRecentKnown
    <2>3. a \in Nat /\ b \in Nat /\ r[a].opened \in Nat /\ r[b].opened \in Nat
      BY <2>1, VesselAssumption, BoundAssumption DEF IsRegistry, Registered
    <2>4. r[a].opened = s[a].opened /\ r[b].opened = s[b].opened
      BY <2>1
    <2> HIDE DEF a, b
    <2>5. a = b
      BY <2>2, <2>3, <2>4 DEF NotBefore
    <2> QED
      BY <2>5 DEF a, b
  <1> QED
    BY <1>1, <1>2

-----------------------------------------------------------------------------
(* What each step of a body does to `op' *)

BodyFields ==
    {"kind", "todo", "pass", "arm", "hint", "replace", "vessel", "at", "mode", "first",
     "files", "round", "face", "result", "cleared", "used"}

(* BodyType, field by field *)
IsBody(o) ==
    /\ o = [f \in BodyFields |-> o[f]]
    /\ o.kind \in {"idle", "store", "register", "retrieve", "destroy", "purge_other", "wipe", "initialize"}
    /\ o.todo \in Seq(StepType)
    /\ o.pass \in Pass \union {"none"} /\ o.arm \in Pass \union {"none"}
    /\ o.hint \in Mode \union {"none"} /\ o.replace \in BOOLEAN
    /\ o.vessel \in Container /\ o.at \in Container
    /\ o.mode \in Mode \union {"none"} /\ o.first \in Mode \union {"none"}
    /\ o.files \in SUBSET File /\ o.round \in 0..3 /\ o.face \in FaceDetails
    /\ o.result \in {"none", "opened", "stored", "refused"}
    /\ o.cleared \in SUBSET (Container \X Mode) /\ o.used \in SUBSET Container

LEMMA BodyTyped == \A o : o \in BodyType <=> IsBody(o)
  <1>1. ASSUME NEW o, o \in BodyType PROVE IsBody(o)
    BY <1>1 DEF IsBody, BodyFields, BodyType
  <1>2. ASSUME NEW o, IsBody(o) PROVE o \in BodyType
    BY <1>2 DEF IsBody, BodyFields, BodyType
  <1> QED
    BY <1>1, <1>2

(* Every field but those named is left alone. *)
OnlyChanges(fs) ==
    /\ IsBody(op')
    /\ op'.kind = op.kind /\ op'.pass = op.pass /\ op'.arm = op.arm
    /\ "todo" \notin fs => op'.todo = op.todo
    /\ "vessel" \notin fs => op'.vessel = op.vessel
    /\ "at" \notin fs => op'.at = op.at
    /\ "mode" \notin fs => op'.mode = op.mode
    /\ "first" \notin fs => op'.first = op.first
    /\ "files" \notin fs => op'.files = op.files
    /\ "round" \notin fs => op'.round = op.round
    /\ "face" \notin fs => op'.face = op.face
    /\ "result" \notin fs => op'.result = op.result
    /\ "cleared" \notin fs => op'.cleared = op.cleared
    /\ "used" \notin fs => op'.used = op.used

GivesUp == OnlyChanges({"todo", "result"}) /\ op'.todo = <<>> /\ op'.result = "refused"

LEMMA OpTyped ==
  ASSUME TypeOK
  PROVE  IsBody(op) /\ op.todo \in Seq(StepType) /\ op.files \subseteq File
  BY BodyTyped DEF TypeOK, IsBody

LEMMA AtStep ==
  ASSUME TypeOK, NEW do, At(do)
  PROVE  /\ op.todo # <<>> /\ op.todo[1].do = do /\ 1 \in Steps
         /\ Head(op.todo) = op.todo[1] /\ op.todo[1] \in StepType
         /\ Rest \in Seq(StepType)
  BY OpTyped, Rests DEF At, Rest, Steps

LEMMA GivingUp ==
  ASSUME TypeOK, op' = Refused
  PROVE  GivesUp
  <1> DEFINE nothing == <<>>
  <1>1. nothing \in Seq(StepType)
    BY EmptySeq
  <1>2. op' = [op EXCEPT !.todo = nothing, !.result = "refused"]
    BY DEF Refused
  <1> HIDE DEF nothing
  <1>3. OnlyChanges({"todo", "result"}) /\ op'.todo = nothing /\ op'.result = "refused"
    BY <1>1, <1>2, OpTyped DEF IsBody, BodyFields, OnlyChanges
  <1> QED
    BY <1>3 DEF GivesUp, nothing

LEMMA LookDoes ==
  ASSUME TypeOK, Look
  PROVE  \/ GivesUp
         \/ OnlyChanges({"todo", "first"}) /\ op'.todo = Rest /\ op'.first \in Mode
  <1>1. PICK seen \in Sight : op' = IF seen = "none" THEN Refused ELSE [op EXCEPT !.todo = Rest, !.first = seen]
    BY Zenon DEF Look
  <1>2. CASE seen = "none"
    BY <1>1, <1>2, GivingUp
  <1>3. CASE seen # "none"
    <2>1. seen \in Mode /\ Rest \in Seq(StepType)
      BY <1>3, AtStep DEF Sight, TypeOK, Look
    <2> QED
      BY <1>1, <1>3, <2>1, OpTyped DEF IsBody, BodyFields, OnlyChanges
  <1> QED
    BY <1>2, <1>3

LEMMA LookAgainDoes ==
  ASSUME TypeOK, LookAgain
  PROVE  \/ GivesUp
         \/ OnlyChanges({"todo", "mode"}) /\ op'.todo = Rest /\ op'.mode \in Mode
  <1>1. PICK seen \in Sight : op' = IF seen = "none" THEN Refused ELSE [op EXCEPT !.todo = Rest, !.mode = seen]
    BY Zenon DEF LookAgain
  <1>2. CASE seen = "none"
    BY <1>1, <1>2, GivingUp
  <1>3. CASE seen # "none"
    <2>1. seen \in Mode /\ Rest \in Seq(StepType)
      BY <1>3, AtStep DEF Sight, TypeOK, LookAgain
    <2> QED
      BY <1>1, <1>3, <2>1, OpTyped DEF IsBody, BodyFields, OnlyChanges
  <1> QED
    BY <1>2, <1>3

LEMMA WebVesselTyped ==
  ASSUME TypeOK
  PROVE  /\ WebVessel \in Container
         /\ WebVessel # Legacy => WebVessel \in DOMAIN reg \intersect exists
  BY MostRecentKnown DEF WebVessel, TypeOK

LEMMA TargetDoes ==
  ASSUME TypeOK, Target
  PROVE  OnlyChanges({"todo", "vessel"}) /\ op'.todo = Rest /\ op'.vessel = WebVessel
  <1>1. Rest \in Seq(StepType) /\ WebVessel \in Container
    BY AtStep, MostRecentKnown DEF Target, WebVessel, TypeOK
  <1>2. op' = [op EXCEPT !.vessel = WebVessel, !.todo = Rest]
    BY DEF Target
  <1> QED
    BY <1>1, <1>2, OpTyped DEF IsBody, BodyFields, OnlyChanges

LEMMA FindContainerDoes ==
  ASSUME TypeOK, FindContainer
  PROVE  OnlyChanges({"todo", "at"}) /\ op'.todo = Rest /\ op'.at = WebVessel
  <1>1. Rest \in Seq(StepType) /\ WebVessel \in Container
    BY AtStep, MostRecentKnown DEF FindContainer, WebVessel, TypeOK
  <1>2. op' = [op EXCEPT !.at = WebVessel, !.todo = Rest]
    BY DEF FindContainer, WebContainer
  <1> QED
    BY <1>1, <1>2, OpTyped DEF IsBody, BodyFields, OnlyChanges

(* The steps a reset is replaced by *)
Faces(s) ==
    IF s.mode = "none" THEN <<Touch("dummy", s.set), Touch("secret", s.set)>> ELSE <<Touch(s.mode, s.set)>>

LEMMA ResetDoes ==
  ASSUME TypeOK, Reset
  PROVE  /\ OnlyChanges({"todo", "vessel"}) /\ op'.vessel = WebVessel
         /\ WebVessel = Legacy => op'.todo = Rest
         /\ WebVessel # Legacy => op'.todo = Faces(op.todo[1]) \o Rest
         /\ Faces(op.todo[1]) \in Seq(StepType)
  <1> DEFINE s == op.todo[1]
             faces == IF WebVessel = Legacy THEN <<>> ELSE Faces(s)
             todo == faces \o Rest
  <1>1. Rest \in Seq(StepType) /\ WebVessel \in Container /\ s \in StepType /\ Head(op.todo) = s
    BY AtStep, WebVesselTyped DEF Reset
  <1>2. Faces(s) \in Seq(StepType)
    <2>1. \A m \in Mode : Touch(m, s.set) \in StepType
      BY <1>1 DEF Touch, Step, StepType
    <2>2. s.mode # "none" => s.mode \in Mode
      BY <1>1 DEF StepType
    <2> HIDE DEF s
    <2> QED
      BY <2>1, <2>2 DEF Faces, Mode
  <1>3. op' = [op EXCEPT !.vessel = WebVessel, !.todo = todo]
    BY <1>1, Zenon DEF Reset, Faces, Modes
  <1>4. todo \in Seq(StepType)
    BY <1>1, <1>2, EmptySeq, ConcatProperties
  <1>5. WebVessel = Legacy => todo = Rest
    BY <1>1, ConcatEmptySeq
  <1>6. WebVessel # Legacy => todo = Faces(s) \o Rest
    OBVIOUS
  <1> HIDE DEF todo
  <1>7. OnlyChanges({"todo", "vessel"}) /\ op'.vessel = WebVessel /\ op'.todo = todo
    BY <1>1, <1>3, <1>4, OpTyped DEF IsBody, BodyFields, OnlyChanges
  <1> QED
    BY <1>2, <1>5, <1>6, <1>7

LEMMA FirstUnboundTyped == FirstUnbound \in Mode \union {"none"}
  BY DEF FirstUnbound, Modes, Mode

LEMMA SelectDoes ==
  ASSUME TypeOK, PlanOK, Select
  PROVE  \/ GivesUp
         \/ /\ OnlyChanges({"todo", "mode", "first"})
            /\ op'.mode \in Mode
            /\ op'.todo \in {<<Do("capture"), Do("target"), Do("read")>>, <<Do("target"), Do("read")>>}
  <1>1. PICK seen \in Sight :
          op' = IF SelectedEntry(seen) = "none" THEN Refused
                ELSE [op EXCEPT !.mode = SelectedEntry(seen), !.first = seen,
                                !.todo = IF Captures(seen) THEN Rest ELSE Tail(Rest)]
    BY Zenon DEF Select
  <1>2. CASE SelectedEntry(seen) = "none"
    BY <1>1, <1>2, GivingUp
  <1>3. CASE SelectedEntry(seen) # "none"
    <2> DEFINE entry == SelectedEntry(seen)
               a == <<Do("capture"), Do("target"), Do("read")>>
               b == <<Do("target"), Do("read")>>
               todo == IF Captures(seen) THEN Rest ELSE Tail(Rest)
    <2>1. seen \in Mode \union {"none"} /\ op.hint \in Mode \union {"none"}
      BY OpTyped DEF Sight, TypeOK, IsBody
    <2>2. entry \in Mode
      BY <1>3, <2>1, FirstUnboundTyped DEF SelectedEntry
    <2>3. op.todo = Store
      BY AtStep DEF PlanOK, Select
    <2>4. Rest = a /\ Tail(Rest) = b
      BY <2>3 DEF Store, Rest
    <2>5. a \in Seq(StepType) /\ b \in Seq(StepType)
      BY DoTypes
    <2>6. op' = [op EXCEPT !.mode = entry, !.first = seen, !.todo = todo]
      BY <1>1, <1>3, Zenon
    <2>7. todo \in {a, b}
      BY <2>4
    <2> HIDE DEF todo, a, b, entry
    <2>8. OnlyChanges({"todo", "mode", "first"}) /\ op'.mode = entry /\ op'.todo = todo
      BY <2>1, <2>2, <2>5, <2>6, <2>7, OpTyped DEF IsBody, BodyFields, OnlyChanges
    <2> QED
      BY <2>2, <2>7, <2>8 DEF a, b
  <1> QED
    BY <1>2, <1>3

LEMMA PickDoes ==
  ASSUME TypeOK, Pick
  PROVE  \/ GivesUp
         \/ OnlyChanges({"todo", "mode", "first"}) /\ op'.mode \in Mode /\ op'.todo = Rest
  <1>1. PICK seen \in Sight :
          op' = IF PickedEntry(seen) = "none" THEN Refused
                ELSE [op EXCEPT !.mode = PickedEntry(seen), !.first = seen, !.todo = Rest]
    BY Zenon DEF Pick
  <1>2. CASE PickedEntry(seen) = "none"
    BY <1>1, <1>2, GivingUp
  <1>3. CASE PickedEntry(seen) # "none"
    <2> DEFINE entry == PickedEntry(seen)
    <2>1. seen \in Mode \union {"none"} /\ op.hint \in Mode \union {"none"} /\ Rest \in Seq(StepType)
      BY OpTyped, AtStep DEF Sight, TypeOK, IsBody, Pick
    <2>2. entry \in Mode
      BY <1>3, <2>1, FirstUnboundTyped DEF PickedEntry
    <2>3. op' = [op EXCEPT !.mode = entry, !.first = seen, !.todo = Rest]
      BY <1>1, <1>3, Zenon
    <2> HIDE DEF entry
    <2> QED
      BY <2>1, <2>2, <2>3, OpTyped DEF IsBody, BodyFields, OnlyChanges
  <1> QED
    BY <1>2, <1>3

LEMMA CaptureDoes ==
  ASSUME TypeOK, PlanOK, Capture
  PROVE  /\ \/ GivesUp
            \/ OnlyChanges({"todo"}) /\ op'.todo = Rest
         /\ bound' \subseteq Mode
  <1>1. Rest \in Seq(StepType) /\ At("capture")
    BY AtStep DEF Capture
  <1>2. op.mode \in Mode
    <2>1. 1 \in Steps /\ op.todo[1].do = "capture"
      BY <1>1, AtStep
    <2>2. ~Before(1, {"select", "pick"})
      BY DEF Before, Steps
    <2> QED
      BY <2>1, <2>2 DEF PlanOK
  <1>3. CASE op' = [op EXCEPT !.todo = Rest] /\ bound' = bound \union {op.mode}
    <2>1. OnlyChanges({"todo"}) /\ op'.todo = Rest
      BY <1>1, <1>3, OpTyped DEF IsBody, BodyFields, OnlyChanges
    <2> QED
      BY <1>2, <1>3, <2>1 DEF TypeOK
  <1>4. CASE op' = Refused /\ UNCHANGED bound
    BY <1>4, GivingUp DEF TypeOK
  <1> QED
    BY <1>3, <1>4 DEF Capture

(* What PlanOK says of the step at hand *)
LEMMA AtHand ==
  ASSUME TypeOK, PlanOK, NEW do, At(do)
  PROVE  /\ do \in {"touch", "write"} => op.vessel # Legacy
         /\ do \in {"touch", "purge"} => op.todo[1].mode \in Mode
         /\ do = "reset" => IF op.todo[1].mode = "none" THEN op.todo[1].set = "fresh"
                            ELSE op.todo[1].set = "forget"
         /\ do = "open" => op.first \in Mode
         /\ do \in {"capture", "read", "write"} => op.mode \in Mode
  <1>1. 1 \in Steps /\ op.todo[1].do = do
    BY AtStep
  <1>2. \A dos : ~Before(1, dos)
    BY DEF Before, Steps
  <1> QED
    BY <1>1, <1>2 DEF PlanOK

LEMMA ContentTyped ==
  ASSUME TypeOK, NEW c \in Container, NEW m \in Mode
  PROVE  content[c][m] \in Slot /\ content[c] \in [Mode -> Slot]
  BY DEF TypeOK

LEMMA OpenDoes ==
  ASSUME TypeOK, PlanOK, Open
  PROVE  /\ op.first \in Mode
         /\ \/ GivesUp
            \/ /\ op.vessel # Legacy /\ op'.result = "opened" /\ op'.used = {op.vessel}
               /\ op'.todo = <<Touch(op.first, "count")>> \o MaybeAutoPurge(op.first)
               /\ OnlyChanges({"todo", "mode", "files", "result", "used"})
            \/ /\ op'.result = "refused" /\ op'.todo = <<Do("verify")>>
               /\ OnlyChanges({"todo", "result"})
            \/ /\ op.vessel = Legacy /\ op'.result = "opened" /\ op'.used = {op.vessel}
               /\ op'.todo = MaybeAutoPurge(op.first)
               /\ OnlyChanges({"todo", "mode", "result", "used"})
            \/ /\ op.vessel = Legacy /\ op'.result = "refused" /\ op'.used = {op.vessel}
               /\ op'.todo = ClearAccessed(op.first)
               /\ OnlyChanges({"todo", "mode", "result", "used"})
  <1> DEFINE m == op.first
             s == content[op.vessel][m]
             count == <<Touch(m, "count")>> \o MaybeAutoPurge(m)
             verify == <<Do("verify")>>
             purge == MaybeAutoPurge(m)
             clear == ClearAccessed(m)
  <1>1. m \in Mode /\ op.vessel \in Container
    BY AtHand, OpTyped DEF Open, IsBody
  <1>2. s.files \in SUBSET File
    BY <1>1, ContentTyped DEF Slot
  <1>3. purge \in Seq(StepType) /\ clear \in Seq(StepType)
    BY <1>1, PlansTyped
  <1>4. verify \in Seq(StepType)
    BY DoTypes
  <1>5. count \in Seq(StepType)
    <2>1. Touch(m, "count") \in StepType
      BY <1>1, StepTypes
    <2>2. <<Touch(m, "count")>> \in Seq(StepType)
      BY <2>1
    <2> QED
      BY <1>3, <2>2, ConcatProperties
  <1>6. \/ /\ op.vessel # Legacy
           /\ op' = [op EXCEPT !.mode = m, !.files = s.files, !.result = "opened",
                               !.used = {op.vessel}, !.todo = count]
        \/ op' = [op EXCEPT !.result = "refused", !.todo = verify]
        \/ /\ op.vessel = Legacy
           /\ op' = [op EXCEPT !.mode = m, !.result = "opened", !.used = {Legacy}, !.todo = purge]
        \/ /\ op.vessel = Legacy
           /\ op' = [op EXCEPT !.mode = m, !.result = "refused", !.used = {Legacy}, !.todo = clear]
        \/ op' = Refused
    BY Zenon DEF Open
  <1> HIDE DEF s, count, verify, purge, clear
  <1>7. CASE /\ op.vessel # Legacy
             /\ op' = [op EXCEPT !.mode = m, !.files = s.files, !.result = "opened",
                                 !.used = {op.vessel}, !.todo = count]
    <2>1. /\ op'.result = "opened" /\ op'.used = {op.vessel} /\ op'.todo = count
          /\ OnlyChanges({"todo", "mode", "files", "result", "used"})
      BY <1>1, <1>2, <1>5, <1>7, OpTyped DEF IsBody, BodyFields, OnlyChanges
    <2> QED
      BY <1>1, <1>7, <2>1 DEF count
  <1>8. CASE op' = [op EXCEPT !.result = "refused", !.todo = verify]
    <2>1. op'.result = "refused" /\ op'.todo = verify /\ OnlyChanges({"todo", "result"})
      BY <1>4, <1>8, OpTyped DEF IsBody, BodyFields, OnlyChanges
    <2> QED
      BY <1>1, <2>1 DEF verify
  <1>9. CASE /\ op.vessel = Legacy
             /\ op' = [op EXCEPT !.mode = m, !.result = "opened", !.used = {Legacy}, !.todo = purge]
    <2>1. /\ op'.result = "opened" /\ op'.used = {Legacy} /\ op'.todo = purge
          /\ OnlyChanges({"todo", "mode", "result", "used"})
      BY <1>1, <1>3, <1>9, OpTyped DEF IsBody, BodyFields, OnlyChanges
    <2> QED
      BY <1>1, <1>9, <2>1 DEF purge
  <1>10. CASE /\ op.vessel = Legacy
              /\ op' = [op EXCEPT !.mode = m, !.result = "refused", !.used = {Legacy}, !.todo = clear]
    <2>1. /\ op'.result = "refused" /\ op'.used = {Legacy} /\ op'.todo = clear
          /\ OnlyChanges({"todo", "mode", "result", "used"})
      BY <1>1, <1>3, <1>10, OpTyped DEF IsBody, BodyFields, OnlyChanges
    <2> QED
      BY <1>1, <1>10, <2>1 DEF clear
  <1> QED
    BY <1>1, <1>6, <1>7, <1>8, <1>9, <1>10, GivingUp

LEMMA VerifyDoes ==
  ASSUME TypeOK, PlanOK, Verify
  PROVE  \/ GivesUp
         \/ \E seen \in Mode :
              /\ op.vessel # Legacy
              /\ seen = IF op.kind = "retrieve" THEN op.first ELSE op.mode
              /\ OnlyChanges({"todo", "at"}) /\ op'.at = op.vessel
              /\ op'.todo = <<Step("purge", seen, "none"), Touch(seen, "fresh")>>
  <1>1. PICK seen \in Sight :
          op' = IF op.vessel # Legacy /\ \E m \in Presented(seen) :
                      /\ Credentialed(op.vessel, m)
                      /\ Record(op.vessel).face[m].destroy = op.pass
                THEN [op EXCEPT !.at = op.vessel,
                         !.todo = <<Step("purge", seen, "none"), Touch(seen, "fresh")>>]
                ELSE Refused
    BY Zenon DEF Verify
  <1>2. CASE op' = Refused
    BY <1>2, GivingUp
  <1>3. CASE ~(op' = Refused)
    <2> DEFINE todo == <<Step("purge", seen, "none"), Touch(seen, "fresh")>>
    <2>1. op.vessel # Legacy /\ Presented(seen) # {}
      BY <1>1, <1>3
    <2>2. seen = IF op.kind = "retrieve" THEN op.first ELSE op.mode
      BY <2>1 DEF Presented
    <2>3. 1 \in Steps /\ op.todo[1].do = "verify" /\ ~Before(1, {"again"})
      BY AtStep DEF Verify, Before, Steps
    <2>4. seen \in Mode
      BY <2>2, <2>3 DEF PlanOK
    <2>5. QED
      <3>1. todo \in Seq(StepType)
        <4>1. Step("purge", seen, "none") \in StepType /\ Touch(seen, "fresh") \in StepType
          BY <2>4, StepTypes DEF Resets
        <4> QED
          BY <4>1
      <3>2. op' = [op EXCEPT !.at = op.vessel, !.todo = todo]
        BY <1>1, <1>3, Zenon
      <3> HIDE DEF todo
      <3>3. OnlyChanges({"todo", "at"}) /\ op'.at = op.vessel /\ op'.todo = todo
        BY <3>1, <3>2, OpTyped DEF IsBody, BodyFields, OnlyChanges
      <3> QED
        BY <2>1, <2>2, <2>4, <3>3 DEF todo
  <1> QED
    BY <1>2, <1>3

LEMMA PurgeDoes ==
  ASSUME TypeOK, PlanOK, Purge
  PROVE  /\ op.todo[1].mode \in Mode /\ op.todo[1].do = "purge"
         /\ OnlyChanges({"todo", "cleared", "used"}) /\ op'.todo = Rest
         /\ op'.cleared = op.cleared \union {<<op.at, op.todo[1].mode>>}
         /\ op'.used = op.used \union {op.at}
         /\ content' \in [Container -> [Mode -> Slot]]
  <1> DEFINE m == op.todo[1].mode
             cleared == op.cleared \union {<<op.at, m>>}
             used == op.used \union {op.at}
  <1>1. m \in Mode /\ op.todo[1].do = "purge" /\ Head(op.todo) = op.todo[1] /\ Rest \in Seq(StepType)
    BY AtHand, AtStep DEF Purge
  <1>2. op.at \in Container /\ op.cleared \subseteq Container \X Mode /\ op.used \subseteq Container
    BY OpTyped DEF IsBody
  <1>3. cleared \in SUBSET (Container \X Mode) /\ used \in SUBSET Container
    BY <1>1, <1>2
  <1>4. op' = [op EXCEPT !.cleared = cleared, !.used = used, !.todo = Rest]
    BY <1>1, OpTyped DEF Purge, IsBody, BodyFields
  <1>5. content' = [content EXCEPT ![op.at][m] = EmptySlot]
    BY <1>1 DEF Purge
  <1>6. EmptySlot \in Slot
    BY DEF EmptySlot, Slot
  <1> HIDE DEF m, cleared, used
  <1>7. content' \in [Container -> [Mode -> Slot]]
    BY <1>1, <1>2, <1>5, <1>6 DEF TypeOK
  <1>8. OnlyChanges({"todo", "cleared", "used"}) /\ op'.todo = Rest /\ op'.cleared = cleared /\ op'.used = used
    BY <1>1, <1>3, <1>4, OpTyped DEF IsBody, BodyFields, OnlyChanges
  <1> QED
    BY <1>1, <1>7, <1>8 DEF m, cleared, used

LEMMA WipeContainerDoes ==
  ASSUME TypeOK, WipeContainer
  PROVE  /\ op.todo # <<>> /\ op.todo[1].do \in {"brick", "format"}
         /\ OnlyChanges({"todo", "cleared", "used"}) /\ op'.todo = Rest
         /\ op'.cleared = {op.at} \X Mode
         /\ op'.used = op.used \union {op.at}
         /\ content' \in [Container -> [Mode -> Slot]]
  <1> DEFINE cleared == {op.at} \X Mode
             used == op.used \union {op.at}
  <1>1. op.todo # <<>> /\ op.todo[1].do \in {"brick", "format"} /\ Rest \in Seq(StepType)
    BY AtStep DEF WipeContainer
  <1>2. op.at \in Container /\ op.used \subseteq Container
    BY OpTyped DEF IsBody
  <1>3. cleared \in SUBSET (Container \X Mode) /\ used \in SUBSET Container
    BY <1>2
  <1>4. op' = [op EXCEPT !.cleared = cleared, !.used = used, !.todo = Rest]
    BY OpTyped DEF WipeContainer, IsBody, BodyFields
  <1>5. content' \in [Container -> [Mode -> Slot]]
    <2>1. NoContent \in [Mode -> Slot]
      BY DEF NoContent, EmptySlot, Slot
    <2> QED
      BY <2>1 DEF WipeContainer
  <1> HIDE DEF cleared, used
  <1>6. OnlyChanges({"todo", "cleared", "used"}) /\ op'.todo = Rest /\ op'.cleared = cleared /\ op'.used = used
    BY <1>1, <1>3, <1>4, OpTyped DEF IsBody, BodyFields, OnlyChanges
  <1> QED
    BY <1>1, <1>5, <1>6 DEF cleared, used

LEMMA UnbindDoes ==
  ASSUME TypeOK, Unbind
  PROVE  op.todo # <<>> /\ op.todo[1].do = "unbind" /\ OnlyChanges({"todo"}) /\ op'.todo = Rest
  <1>1. op.todo # <<>> /\ op.todo[1].do = "unbind" /\ Rest \in Seq(StepType)
    BY AtStep DEF Unbind
  <1>2. op' = [op EXCEPT !.todo = Rest]
    BY DEF Unbind
  <1> QED
    BY <1>1, <1>2, OpTyped DEF IsBody, BodyFields, OnlyChanges

LEMMA VesselIsNotLegacy == Legacy \notin Vessel
  BY VesselAssumption DEF Legacy

LEMMA ReadDoes ==
  ASSUME TypeOK, PlanOK, Read
  PROVE  /\ op.todo # <<>> /\ op.todo[1].do = "read" /\ op.mode \in Mode
         /\ content' \in [Container -> [Mode -> Slot]]
         /\ \/ GivesUp /\ content' = content
            \/ /\ op.vessel = Legacy /\ op'.todo = <<>> /\ op'.result = "stored"
               /\ OnlyChanges({"todo", "result"})
            \/ /\ op.vessel # Legacy /\ op'.used = {op.vessel} /\ content' = content
               /\ op'.todo = StoreInto(op.mode, op.arm)
               /\ OnlyChanges({"todo", "files", "used"})
  <1> DEFINE s == content[op.vessel][op.mode]
             nothing == <<>>
             files == IF s.open = op.pass THEN s.files ELSE {}
             into == StoreInto(op.mode, op.arm)
  <1>1. op.mode \in Mode /\ op.todo # <<>> /\ op.todo[1].do = "read"
    BY AtHand, AtStep DEF Read
  <1>2. op.vessel \in Container /\ op.arm \in Pass \union {"none"} /\ op.pass \in Pass \union {"none"}
    BY OpTyped DEF IsBody
  <1>3. files \in SUBSET File
    BY <1>1, <1>2, ContentTyped DEF Slot
  <1>4. nothing \in Seq(StepType) /\ into \in Seq(StepType)
    BY <1>1, <1>2, EmptySeq, PlansTyped
  <1>5. \/ /\ op.vessel = Legacy
           /\ op' = [op EXCEPT !.todo = nothing, !.result = "stored"]
           /\ content' = [content EXCEPT ![Legacy][op.mode] =
                    [open |-> op.pass, destroy |-> op.arm, files |-> {"upload"}]]
        \/ /\ op.vessel \in exists
           /\ op' = [op EXCEPT !.files = files, !.used = {op.vessel}, !.todo = into]
           /\ content' = content
        \/ op' = Refused /\ content' = content
    BY Zenon DEF Read
  <1>6. content \in [Container -> [Mode -> Slot]]
    BY DEF TypeOK
  <1> HIDE DEF s, nothing, files, into
  <1>7. CASE /\ op.vessel = Legacy
             /\ op' = [op EXCEPT !.todo = nothing, !.result = "stored"]
             /\ content' = [content EXCEPT ![Legacy][op.mode] =
                    [open |-> op.pass, destroy |-> op.arm, files |-> {"upload"}]]
    <2>1. op'.todo = nothing /\ op'.result = "stored" /\ OnlyChanges({"todo", "result"})
      BY <1>4, <1>7, OpTyped DEF IsBody, BodyFields, OnlyChanges
    <2>2. [open |-> op.pass, destroy |-> op.arm, files |-> {"upload"}] \in Slot
      BY <1>2 DEF Slot, File
    <2>3. content' \in [Container -> [Mode -> Slot]]
      BY <1>1, <1>6, <1>7, <2>2 DEF Container
    <2> QED
      BY <1>1, <1>7, <2>1, <2>3 DEF nothing
  <1>8. CASE /\ op.vessel \in exists
             /\ op' = [op EXCEPT !.files = files, !.used = {op.vessel}, !.todo = into]
             /\ content' = content
    <2>1. op'.used = {op.vessel} /\ op'.todo = into /\ OnlyChanges({"todo", "files", "used"})
      BY <1>2, <1>3, <1>4, <1>8, OpTyped DEF IsBody, BodyFields, OnlyChanges
    <2>2. op.vessel # Legacy
      BY <1>8, VesselIsNotLegacy DEF TypeOK
    <2> QED
      BY <1>1, <1>6, <1>8, <2>1, <2>2 DEF into
  <1>9. CASE op' = Refused /\ content' = content
    BY <1>1, <1>6, <1>9, GivingUp
  <1> QED
    BY <1>5, <1>7, <1>8, <1>9

LEMMA WriteDoes ==
  ASSUME TypeOK, PlanOK, Write
  PROVE  /\ op.todo # <<>> /\ op.todo[1].do = "write" /\ op.mode \in Mode
         /\ content' \in [Container -> [Mode -> Slot]]
         /\ \/ GivesUp /\ content' = content
            \/ /\ op'.files = op.files \union {"upload"} /\ op'.todo = Rest
               /\ op'.result = "stored" /\ OnlyChanges({"todo", "files", "result"})
               /\ content'[op.vessel][op.mode].open = op.pass
               /\ content'[op.vessel][op.mode].files = op'.files
  <1> DEFINE files == op.files \union {"upload"}
             slot == [open |-> op.pass,
                      destroy |-> IF op.arm = "none" THEN content[op.vessel][op.mode].destroy ELSE op.arm,
                      files |-> files]
  <1>1. op.mode \in Mode /\ op.todo # <<>> /\ op.todo[1].do = "write" /\ Rest \in Seq(StepType)
    BY AtHand, AtStep DEF Write
  <1>2. /\ op.vessel \in Container /\ op.arm \in Pass \union {"none"} /\ op.pass \in Pass \union {"none"}
        /\ files \in SUBSET File
    BY OpTyped DEF IsBody, File
  <1>3. content \in [Container -> [Mode -> Slot]]
    BY DEF TypeOK
  <1>4. slot \in Slot /\ slot.open = op.pass /\ slot.files = files
    BY <1>1, <1>2, ContentTyped DEF Slot
  <1>5. CASE op.vessel \in exists
    <2>1. content' = [content EXCEPT ![op.vessel][op.mode] = slot]
      BY <1>1, <1>2, <1>3, <1>5 DEF Write
    <2>2. op' = [op EXCEPT !.files = files, !.result = "stored", !.todo = Rest]
      BY <1>5, OpTyped DEF Write, IsBody, BodyFields
    <2> HIDE DEF slot, files
    <2>3. /\ content' \in [Container -> [Mode -> Slot]]
          /\ content'[op.vessel][op.mode] = slot
      BY <1>1, <1>2, <1>3, <1>4, <2>1
    <2>4. op'.files = files /\ op'.todo = Rest /\ op'.result = "stored" /\ OnlyChanges({"todo", "files", "result"})
      BY <1>1, <1>2, <2>2, OpTyped DEF IsBody, BodyFields, OnlyChanges
    <2> QED
      BY <1>1, <1>4, <2>3, <2>4 DEF files
  <1>6. CASE op.vessel \notin exists
    <2>1. content' = content /\ op' = Refused
      BY <1>6 DEF Write
    <2> QED
      BY <1>1, <1>3, <2>1, GivingUp
  <1> QED
    BY <1>5, <1>6

LEMMA LoadDoes ==
  ASSUME TypeOK, Load
  PROVE  /\ op.todo # <<>> /\ op.todo[1].do = "touch" /\ op.round \in {0, 2}
         /\ OnlyChanges({"round"}) /\ op'.round = op.round + 1
         /\ snap' = reg /\ reg' = reg
  <1> DEFINE round == op.round + 1
  <1>1. op.todo # <<>> /\ op.todo[1].do = "touch"
    BY AtStep DEF Load
  <1>2. op.round \in {0, 2} /\ round \in 0..3
    BY DEF Load
  <1>3. op' = [op EXCEPT !.round = round]
    BY OpTyped DEF Load, IsBody, BodyFields
  <1> HIDE DEF round
  <1>4. OnlyChanges({"round"}) /\ op'.round = round
    BY <1>2, <1>3, OpTyped DEF IsBody, BodyFields, OnlyChanges
  <1> QED
    BY <1>1, <1>2, <1>4 DEF Load, round

LEMMA SaveDoes ==
  ASSUME TypeOK, PlanOK, Save
  PROVE  /\ op.todo # <<>> /\ op.todo[1].do = "touch" /\ op.round = 1
         /\ op.vessel \in Vessel
         /\ OnlyChanges({"face", "round"}) /\ op'.round = 2
         /\ op.vessel \in DOMAIN reg' /\ op'.face = reg'[op.vessel].face
         /\ reg' = WithVessel(snap, op.vessel) /\ IsRegistry(reg')
         /\ snap' = Empty
  <1> DEFINE r == WithVessel(snap, op.vessel)
             face == r[op.vessel].face
             round == 2
  <1>1. op.todo # <<>> /\ op.todo[1].do = "touch" /\ op.vessel # Legacy
    BY AtStep, AtHand DEF Save
  <1>2. op.vessel \in Vessel
    BY <1>1, OpTyped DEF IsBody, Container
  <1>3. IsRegistry(r) /\ op.vessel \in DOMAIN r /\ face \in FaceDetails
    BY <1>2, WithVesselTyped DEF TypeOK
  <1>4. op' = [op EXCEPT !.face = face, !.round = round]
    BY DEF Save
  <1>5. reg' = r /\ snap' = Empty /\ op.round = 1
    BY DEF Save
  <1>6. face \in FaceDetails /\ round \in 0..3
    BY <1>3
  <1> HIDE DEF face, round
  <1>7. OnlyChanges({"face", "round"}) /\ op'.round = round /\ op'.face = face
    BY <1>4, <1>6, OpTyped DEF IsBody, BodyFields, OnlyChanges
  <1> QED
    BY <1>1, <1>2, <1>3, <1>5, <1>7 DEF r, face, round

(* What one step of update_face_access makes of a Face's record *)
Corrected(s) == Touched(op.face[s.mode], s.set, Cardinality(op.files), op.arm)

LEMMA CorrectedTyped ==
  ASSUME TypeOK, NEW s \in StepType, s.mode \in Mode
  PROVE  Corrected(s) \in FaceDetail
  <1>1. op.face[s.mode] \in FaceDetail /\ op.arm \in Pass \union {"none"}
    BY OpTyped DEF IsBody, FaceDetails
  <1>2. Cardinality(op.files) \in Nat
    <2>1. IsFiniteSet({"earlier"}) /\ File = {"earlier"} \union {"upload"}
      BY FS_Singleton DEF File
    <2>2. IsFiniteSet(File)
      BY <2>1, FS_AddElement
    <2> QED
      BY <2>2, OpTyped, FS_Subset, FS_CardinalityType
  <1> DEFINE f == op.face[s.mode]
             n == Cardinality(op.files)
  <1> HIDE DEF f, n
  <1>3. Touched(f, s.set, n, op.arm) \in FaceDetail
    BY <1>1, <1>2 DEF Touched, FaceDetail, f, n
  <1> QED
    BY <1>3 DEF Corrected, f, n

LEMMA ResaveDoes ==
  ASSUME TypeOK, PlanOK, Resave
  PROVE  LET s == op.todo[1]
             v == op.vessel
         IN  /\ op.todo # <<>> /\ s.do = "touch" /\ s.mode \in Mode /\ op.round = 3
             /\ v \in Vessel
             /\ OnlyChanges({"face", "round", "todo", "used"})
             /\ op'.todo = Rest /\ op'.round = 0 /\ op'.used = op.used \union {v}
             /\ IsRegistry(reg') /\ DOMAIN reg' = DOMAIN snap \union {v}
             /\ \A u \in DOMAIN reg' : reg'[u].opened = WithVessel(snap, v)[u].opened
             /\ \A u \in DOMAIN snap \ {v} : reg'[u] = snap[u]
             /\ reg'[v].face[s.mode] = Corrected(s)
             /\ \A m \in Mode \ {s.mode} : reg'[v].face[m] = op.face[m]
             /\ snap' = Empty
  <1> DEFINE s == op.todo[1]
             v == op.vessel
             r == WithVessel(snap, v)
             f == Corrected(s)
             face == [op.face EXCEPT ![s.mode] = f]
             used == op.used \union {v}
  <1>1. /\ op.todo # <<>> /\ s.do = "touch" /\ v # Legacy /\ s.mode \in Mode /\ s \in StepType
        /\ Head(op.todo) = s /\ Rest \in Seq(StepType)
    BY AtStep, AtHand DEF Resave
  <1>2. v \in Vessel /\ op.used \subseteq Container /\ op.face \in FaceDetails
    BY <1>1, OpTyped DEF IsBody, Container
  <1>3. IsRegistry(r) /\ v \in DOMAIN r /\ DOMAIN r = DOMAIN snap \union {v} /\ \A u \in DOMAIN snap : r[u] = snap[u]
    BY <1>2, WithVesselTyped DEF TypeOK
  <1>4. f \in FaceDetail
    BY <1>1, CorrectedTyped
  <1>5. used \in SUBSET Container
    BY <1>2 DEF Container
  <1>6. op' = [op EXCEPT !.face = FreshFaces, !.round = 0, !.todo = Rest, !.used = used]
    BY OpTyped DEF Resave, IsBody, BodyFields
  <1>7. reg' = [r EXCEPT ![v].face = face] /\ snap' = Empty /\ op.round = 3
    BY <1>1 DEF Resave, Corrected
  <1> HIDE DEF f, s, used
  <1>8. face \in FaceDetails /\ face[s.mode] = f /\ \A m \in Mode \ {s.mode} : face[m] = op.face[m]
    BY <1>1, <1>2, <1>4 DEF FaceDetails
  <1> HIDE DEF r, face, v
  <1>9. /\ IsRegistry(reg') /\ DOMAIN reg' = DOMAIN r /\ reg'[v].face = face
        /\ \A u \in DOMAIN r : reg'[u].opened = r[u].opened
        /\ \A u \in DOMAIN r \ {v} : reg'[u] = r[u]
    <2>1. \A u \in DOMAIN r : r[u] \in Registered
      BY <1>3 DEF IsRegistry
    <2>2. /\ [r[v] EXCEPT !.face = face] \in Registered
          /\ [r[v] EXCEPT !.face = face].face = face
          /\ [r[v] EXCEPT !.face = face].opened = r[v].opened
      BY <2>1, <1>3, <1>8 DEF Registered
    <2> DEFINE e == [r[v] EXCEPT !.face = face]
    <2>3. reg' = [r EXCEPT ![v] = e]
      BY <1>7
    <2> HIDE DEF e
    <2>4. DOMAIN reg' = DOMAIN r /\ reg'[v] = e /\ \A u \in DOMAIN r \ {v} : reg'[u] = r[u]
      BY <1>3, <2>3
    <2>5. reg' \in [DOMAIN r -> Registered]
      BY <1>3, <2>1, <2>2, <2>3 DEF IsRegistry, e
    <2> QED
      BY <1>3, <2>2, <2>4, <2>5 DEF IsRegistry, e
  <1>10. /\ OnlyChanges({"face", "round", "todo", "used"})
         /\ op'.todo = Rest /\ op'.round = 0 /\ op'.used = used
    <2> DEFINE fresh == FreshFaces
               round == 0
    <2>1. fresh \in FaceDetails /\ round \in 0..3
      BY FreshTyped
    <2>2. op' = [op EXCEPT !.face = fresh, !.round = round, !.todo = Rest, !.used = used]
      BY <1>6
    <2> HIDE DEF fresh, round
    <2>3. /\ OnlyChanges({"face", "round", "todo", "used"})
          /\ op'.todo = Rest /\ op'.round = round /\ op'.used = used
      BY <1>1, <1>5, <2>1, <2>2, OpTyped DEF IsBody, BodyFields, OnlyChanges
    <2> QED
      BY <2>3 DEF round
  <1>11. /\ DOMAIN reg' = DOMAIN snap \union {v}
         /\ \A u \in DOMAIN snap \ {v} : reg'[u] = snap[u]
    BY <1>3, <1>9
  <1>12. \A u \in DOMAIN reg' : reg'[u].opened = r[u].opened
    BY <1>9
  <1>13. reg'[v].face[s.mode] = f /\ \A m \in Mode \ {s.mode} : reg'[v].face[m] = op.face[m]
    BY <1>8, <1>9
  <1> QED
    BY <1>1, <1>2, <1>7, <1>9, <1>10, <1>11, <1>12, <1>13 DEF f, s, r, v, used

-----------------------------------------------------------------------------
(* What the console does *)

LEMMA BlankTyped ==
  ASSUME NEW r, IsRegistry(r)
  PROVE  /\ IsRegistry(Blank(r)) /\ DOMAIN Blank(r) = DOMAIN r
         /\ \A v \in DOMAIN r : Blank(r)[v].opened = r[v].opened
  <1>1. ASSUME NEW v \in DOMAIN r
        PROVE  /\ [r[v] EXCEPT !.face = FreshFaces] \in Registered
               /\ [r[v] EXCEPT !.face = FreshFaces].opened = r[v].opened
    <2> DEFINE fresh == FreshFaces
    <2>1. r[v] \in Registered /\ fresh \in FaceDetails
      BY FreshTyped DEF IsRegistry
    <2> HIDE DEF fresh
    <2>2. [r[v] EXCEPT !.face = fresh] \in Registered /\ [r[v] EXCEPT !.face = fresh].opened = r[v].opened
      BY <2>1 DEF Registered
    <2> QED
      BY <2>2 DEF fresh
  <1> QED
    BY <1>1 DEF Blank, IsRegistry

LEMMA LoadsTyped ==
  ASSUME TypeOK, NEW r \in Loads
  PROVE  IsRegistry(r)
  BY BlankTyped, EmptyIsRegistry DEF TypeOK, Loads

LEMMA ChangedTyped ==
  ASSUME NEW r, IsRegistry(r), NEW v \in Vessel, NEW e \in Registered
  PROVE  IsRegistry([WithVessel(r, v) EXCEPT ![v] = e])
  <1> DEFINE w == WithVessel(r, v)
  <1>1. IsRegistry(w)
    BY WithVesselTyped
  <1> HIDE DEF w
  <1>2. IsRegistry([w EXCEPT ![v] = e])
    BY <1>1 DEF IsRegistry
  <1> QED
    BY <1>2 DEF w

LEMMA ConsoleOpenTyped ==
  ASSUME TypeOK, NEW v \in Vessel, ConsoleOpen(v)
  PROVE  IsRegistry(reg') /\ exists' \subseteq Vessel /\ content' \in [Container -> [Mode -> Slot]]
  <1>1. PICK r \in Loads, now \in 1..MaxOpened : reg' = [WithVessel(r, v) EXCEPT ![v].opened = now]
    BY Zenon DEF ConsoleOpen
  <1>2. IsRegistry(r)
    BY LoadsTyped
  <1> DEFINE o == WithVessel(r, v)[v]
             e == [o EXCEPT !.opened = now]
  <1>3. o \in Registered
    BY <1>2, WithVesselTyped
  <1> HIDE DEF o
  <1>4. e \in Registered
    BY <1>3, BoundAssumption DEF Registered
  <1>5. reg' = [WithVessel(r, v) EXCEPT ![v] = e]
    BY <1>1 DEF o
  <1> HIDE DEF e
  <1>6. IsRegistry(reg')
    BY <1>2, <1>4, <1>5, ChangedTyped
  <1> QED
    BY <1>6 DEF ConsoleOpen, TypeOK

LEMMA FilesCounted ==
  ASSUME NEW files \in SUBSET File
  PROVE  Cardinality(files) \in Nat
  <1>1. IsFiniteSet({"earlier"}) /\ File = {"earlier"} \union {"upload"}
    BY FS_Singleton DEF File
  <1>2. IsFiniteSet(File)
    BY <1>1, FS_AddElement
  <1> QED
    BY <1>2, FS_Subset, FS_CardinalityType

LEMMA FaceChangedTyped ==
  ASSUME NEW o \in Registered, NEW m \in Mode, NEW f \in FaceDetail
  PROVE  [o EXCEPT !.face[m] = f] \in Registered
  <1>1. o.face \in FaceDetails
    BY DEF Registered
  <1> DEFINE faces == [o.face EXCEPT ![m] = f]
  <1>2. faces \in FaceDetails
    BY <1>1 DEF FaceDetails
  <1> HIDE DEF faces
  <1>3. [o EXCEPT !.face = faces] \in Registered
    BY <1>2 DEF Registered
  <1> QED
    BY <1>3 DEF faces

LEMMA ConsoleStoreTyped ==
  ASSUME TypeOK, NEW v \in Vessel, NEW m \in Mode, NEW p \in Pass, ConsoleStore(v, m, p)
  PROVE  IsRegistry(reg') /\ exists' \subseteq Vessel /\ content' \in [Container -> [Mode -> Slot]]
  <1> DEFINE slot == [open |-> p, destroy |-> content[v][m].destroy,
                      files |-> {"earlier"} \union (IF content[v][m].open = p THEN content[v][m].files ELSE {})]
  <1>1. PICK r \in Loads :
          /\ content' = [content EXCEPT ![v][m] =
              [open |-> p, destroy |-> @.destroy,
               files |-> {"earlier"} \union (IF @.open = p THEN @.files ELSE {})]]
          /\ reg' = [WithVessel(r, v) EXCEPT ![v].face[m] =
              [@ EXCEPT !.count = Cardinality(content'[v][m].files), !.creds = "set"]]
    BY Zenon DEF ConsoleStore
  <1>2. IsRegistry(r) /\ v \in Container
    BY LoadsTyped DEF Container
  <1>3. slot \in Slot
    <2>1. content[v][m] \in Slot
      BY <1>2, ContentTyped
    <2> QED
      BY <2>1 DEF Slot, File
  <1>4. content \in [Container -> [Mode -> Slot]]
    BY DEF TypeOK
  <1>5. content' = [content EXCEPT ![v][m] = slot]
    BY <1>1, <1>2, <1>4
  <1> HIDE DEF slot
  <1>6. content' \in [Container -> [Mode -> Slot]] /\ content'[v][m] = slot
    BY <1>2, <1>3, <1>4, <1>5
  <1> DEFINE n == Cardinality(content'[v][m].files)
  <1>7. n \in Nat
    BY <1>3, <1>6, FilesCounted DEF Slot
  <1> DEFINE o == WithVessel(r, v)[v]
             f == [o.face[m] EXCEPT !.count = n, !.creds = "set"]
             e == [o EXCEPT !.face[m] = f]
  <1>8. reg' = [WithVessel(r, v) EXCEPT ![v] = e]
    BY <1>1
  <1>9. o \in Registered
    BY <1>2, WithVesselTyped
  <1> HIDE DEF n, o
  <1>10. f \in FaceDetail
    BY <1>7, <1>9 DEF Registered, FaceDetails, FaceDetail
  <1> HIDE DEF f
  <1>11. e \in Registered
    BY <1>9, <1>10, FaceChangedTyped
  <1> HIDE DEF e
  <1>12. IsRegistry(reg')
    BY <1>2, <1>8, <1>11, ChangedTyped
  <1> QED
    BY <1>6, <1>12 DEF ConsoleStore, TypeOK

LEMMA ConsoleDestroyTyped ==
  ASSUME TypeOK, NEW v \in Vessel, NEW m \in Mode, ConsoleDestroy(v, m)
  PROVE  IsRegistry(reg') /\ exists' \subseteq Vessel /\ content' \in [Container -> [Mode -> Slot]]
  <1>1. PICK r \in Loads : reg' = [WithVessel(r, v) EXCEPT ![v].face[m] = FreshFace]
    BY Zenon DEF ConsoleDestroy
  <1>2. IsRegistry(r) /\ v \in Container
    BY LoadsTyped DEF Container
  <1>3. content' \in [Container -> [Mode -> Slot]]
    <2> DEFINE e == EmptySlot
    <2>1. e \in Slot
      BY DEF EmptySlot, Slot
    <2>2. content' = [content EXCEPT ![v][m] = e]
      BY DEF ConsoleDestroy
    <2> HIDE DEF e
    <2> QED
      BY <1>2, <2>1, <2>2 DEF TypeOK
  <1> DEFINE o == WithVessel(r, v)[v]
             e == [o EXCEPT !.face[m] = FreshFace]
  <1>4. reg' = [WithVessel(r, v) EXCEPT ![v] = e]
    BY <1>1
  <1>5. o \in Registered
    BY <1>2, WithVesselTyped
  <1> HIDE DEF o
  <1>6. e \in Registered
    BY <1>5, FreshTyped, FaceChangedTyped
  <1> HIDE DEF e
  <1>7. IsRegistry(reg')
    BY <1>2, <1>4, <1>6, ChangedTyped
  <1> QED
    BY <1>3, <1>7 DEF ConsoleDestroy, TypeOK

LEMMA ConsoleCreateTyped ==
  ASSUME TypeOK, NEW v \in Vessel, ConsoleCreate(v)
  PROVE  IsRegistry(reg') /\ exists' \subseteq Vessel /\ content' \in [Container -> [Mode -> Slot]]
  <1>1. content' \in [Container -> [Mode -> Slot]]
    BY DEF ConsoleCreate, NoContent, EmptySlot, Slot
  <1>2. PICK r \in Loads : reg' = WithVessel(r, v)
    BY Zenon DEF ConsoleCreate
  <1>3. IsRegistry(reg')
    BY <1>2, LoadsTyped, WithVesselTyped
  <1> QED
    BY <1>1, <1>3 DEF ConsoleCreate, TypeOK

LEMMA ConsoleDeleteTyped ==
  ASSUME TypeOK, NEW v \in Vessel, ConsoleDelete(v)
  PROVE  IsRegistry(reg') /\ exists' \subseteq Vessel /\ content' \in [Container -> [Mode -> Slot]]
  <1>1. content' \in [Container -> [Mode -> Slot]]
    BY DEF ConsoleDelete, NoContent, EmptySlot, Slot
  <1>2. PICK r \in Loads : reg' = [u \in DOMAIN r \ {v} |-> r[u]]
    BY Zenon DEF ConsoleDelete
  <1>3. IsRegistry(reg')
    BY <1>2, LoadsTyped DEF IsRegistry
  <1> QED
    BY <1>1, <1>3 DEF ConsoleDelete, TypeOK

(* Any step of the console *)
ConsoleStep ==
    \E v \in Vessel :
       \/ ConsoleOpen(v) \/ ConsoleCreate(v) \/ ConsoleDelete(v)
       \/ \E m \in Mode : ConsoleDestroy(v, m) \/ \E p \in Pass : ConsoleStore(v, m, p)

LEMMA IdleTyped == IsBody(Idle)
  <1>1. Legacy \in Container /\ FreshFaces \in FaceDetails
    BY FreshTyped DEF Container
  <1> DEFINE nothing == <<>>
             faces == FreshFaces
  <1>2. nothing \in Seq(StepType)
    BY EmptySeq
  <1>3. Idle = [kind |-> "idle", todo |-> nothing, pass |-> "none", arm |-> "none",
         hint |-> "none", replace |-> FALSE, vessel |-> Legacy, at |-> Legacy,
         mode |-> "none", first |-> "none", files |-> {}, round |-> 0,
         face |-> faces, result |-> "none", cleared |-> {}, used |-> {}]
    BY DEF Idle
  <1> HIDE DEF nothing, faces
  <1>4. Idle \in BodyType
    BY <1>1, <1>2, <1>3 DEF BodyType, faces
  <1> QED
    BY <1>4, BodyTyped

LEMMA ConsoleDoes ==
  ASSUME TypeOK, ConsoleStep
  PROVE  /\ IsRegistry(reg') /\ exists' \subseteq Vessel /\ content' \in [Container -> [Mode -> Slot]]
         /\ op' = IF op.todo = <<>> THEN Idle ELSE op
         /\ disturbed' = (op.todo # <<>>)
         /\ moved' = (op.todo # <<>> /\ (moved \/ Moves))
         /\ snap' = snap
         /\ TypeOK'
  <1>1. Console
    BY Zenon DEF ConsoleStep, ConsoleOpen, ConsoleStore, ConsoleDestroy, ConsoleCreate, ConsoleDelete
  <1>2. IsRegistry(reg') /\ exists' \subseteq Vessel /\ content' \in [Container -> [Mode -> Slot]]
    BY ConsoleOpenTyped, ConsoleStoreTyped, ConsoleDestroyTyped, ConsoleCreateTyped, ConsoleDeleteTyped
       DEF ConsoleStep
  <1>3. /\ op' = IF op.todo = <<>> THEN Idle ELSE op
        /\ disturbed' = (op.todo # <<>>)
        /\ moved' = (op.todo # <<>> /\ (moved \/ Moves))
        /\ snap' = snap /\ console' = console + 1
        /\ UNCHANGED <<policy, torn, bound, done>>
    BY <1>1, Zenon DEF Console
  <1>4. op' \in BodyType
    BY <1>3, IdleTyped, BodyTyped DEF TypeOK
  <1>5. TypeOK'
    BY <1>2, <1>3, <1>4 DEF TypeOK
  <1> QED
    BY <1>2, <1>3, <1>5

-----------------------------------------------------------------------------
(* What a request starts with *)

BeforeIn(t, i, dos) == \E j \in 1..Len(t) : j < i /\ t[j].do \in dos

ResetForm(s) == s.do = "reset" => IF s.mode = "none" THEN s.set = "fresh" ELSE s.set = "forget"

(* A plan whose every lookup is still to come. *)
Opens(t, k) ==
    /\ t \in Seq(StepType)
    /\ \A i \in 1..Len(t) :
        /\ t[i].do \notin {"touch", "write"}
        /\ ResetForm(t[i])
        /\ t[i].do = "reset" => \A j \in 1..Len(t) : j > i => t[j].do = "unbind"
        /\ t[i].do = "open" => k = "retrieve" /\ BeforeIn(t, i, {"look"})
        /\ t[i].do = "again" => k = "destroy"
        /\ t[i].do = "pick" => k = "register"
        /\ t[i].do = "verify" => k = "destroy" /\ BeforeIn(t, i, {"again"})
        /\ t[i].do \in {"capture", "read"} => BeforeIn(t, i, {"select", "pick"})
        /\ t[i].do = "select" => t = Store
        /\ t[i].do \in UsesVessel => BeforeIn(t, i, Finds)
        /\ t[i].do \in Clears => BeforeIn(t, i, {"container"})
        /\ t[i].do = "purge" =>
              /\ k = "purge_other" /\ t[i].mode \in Mode
              /\ \E j \in 1..Len(t) : j > i /\ t[j] = Forget(t[i].mode)
        /\ t[i].do \in {"brick", "format"} => \E j \in 1..Len(t) : j > i /\ t[j] = ForgetAll
        /\ t[i].do \in {"select", "pick", "brick", "format", "read"} => k \notin {"retrieve", "destroy"}
        /\ \A j \in 1..Len(t) : i < j /\ t[i].do \in Clears => Settles(t[j])

LEMMA StepFields ==
  /\ \A do : Do(do).do = do /\ Do(do).mode = "none" /\ Do(do).set = "none"
  /\ \A m, x : Step("purge", m, x).do = "purge" /\ Step("purge", m, x).mode = m
  /\ \A m, x : Step("write", m, x).do = "write" /\ Step("write", m, x).mode = m
  /\ \A m, x : Touch(m, x).do = "touch" /\ Touch(m, x).mode = m /\ Touch(m, x).set = x
  /\ \A m : Forget(m).do = "reset" /\ Forget(m).mode = m /\ Forget(m).set = "forget"
  /\ ForgetAll.do = "reset" /\ ForgetAll.mode = "none" /\ ForgetAll.set = "fresh"
  BY DEF Do, Step, Touch, Forget, ForgetAll

LEMMA StoreOpens == Opens(Store, "store")
  <1> DEFINE t == Store
  <1>1. t \in Seq(StepType)
    BY PlansTyped DEF Mode
  <1>2. Len(t) = 4 /\ t[1] = Do("select") /\ t[2] = Do("capture") /\ t[3] = Do("target") /\ t[4] = Do("read")
    BY DEF Store
  <1>3. 1..Len(t) = {1, 2, 3, 4}
    BY <1>2
  <1>4. t[1].do = "select" /\ t[2].do = "capture" /\ t[3].do = "target" /\ t[4].do = "read"
    BY <1>2, StepFields
  <1> HIDE DEF t
  <1>5. Opens(t, "store")
    BY <1>1, <1>3, <1>4 DEF Opens, BeforeIn, ResetForm, UsesVessel, Finds, Clears, t
  <1> QED
    BY <1>5 DEF t

LEMMA RegisterOpens == Opens(RegisterKey, "register")
  <1> DEFINE t == RegisterKey
  <1>1. t \in Seq(StepType)
    BY PlansTyped DEF Mode
  <1>2. Len(t) = 2 /\ t[1] = Do("pick") /\ t[2] = Do("capture")
    BY DEF RegisterKey
  <1>3. 1..Len(t) = {1, 2}
    BY <1>2
  <1>4. t[1].do = "pick" /\ t[2].do = "capture"
    BY <1>2, StepFields
  <1> HIDE DEF t
  <1>5. Opens(t, "register")
    BY <1>1, <1>3, <1>4 DEF Opens, BeforeIn, ResetForm, UsesVessel, Finds, Clears
  <1> QED
    BY <1>5 DEF t

LEMMA RetrieveOpens == Opens(Retrieve, "retrieve")
  <1> DEFINE t == Retrieve
  <1>1. t \in Seq(StepType)
    BY PlansTyped DEF Mode
  <1>2. Len(t) = 3 /\ t[1] = Do("look") /\ t[2] = Do("target") /\ t[3] = Do("open")
    BY DEF Retrieve
  <1>3. 1..Len(t) = {1, 2, 3}
    BY <1>2
  <1>4. t[1].do = "look" /\ t[2].do = "target" /\ t[3].do = "open"
    BY <1>2, StepFields
  <1> HIDE DEF t
  <1>5. Opens(t, "retrieve")
    BY <1>1, <1>3, <1>4 DEF Opens, BeforeIn, ResetForm, UsesVessel, Finds, Clears
  <1> QED
    BY <1>5 DEF t

LEMMA DestroyOpens == Opens(DestroyFace, "destroy")
  <1> DEFINE t == DestroyFace
  <1>1. t \in Seq(StepType)
    BY PlansTyped DEF Mode
  <1>2. Len(t) = 4 /\ t[1] = Do("look") /\ t[2] = Do("again") /\ t[3] = Do("target") /\ t[4] = Do("verify")
    BY DEF DestroyFace
  <1>3. 1..Len(t) = {1, 2, 3, 4}
    BY <1>2
  <1>4. t[1].do = "look" /\ t[2].do = "again" /\ t[3].do = "target" /\ t[4].do = "verify"
    BY <1>2, StepFields
  <1> HIDE DEF t
  <1>5. Opens(t, "destroy")
    BY <1>1, <1>3, <1>4 DEF Opens, BeforeIn, ResetForm, UsesVessel, Finds, Clears
  <1> QED
    BY <1>5 DEF t

(* The three steps that clear one Face *)
LEMMA ClearIs ==
  ASSUME NEW m \in Mode, NEW t, t = Clear(m, m)
  PROVE  /\ t \in Seq(StepType) /\ Len(t) = 3 /\ 1..Len(t) = {1, 2, 3}
         /\ t[1].do = "container" /\ t[2].do = "purge" /\ t[2].mode = m
         /\ t[3] = Forget(m) /\ t[3].do = "reset" /\ t[3].mode = m /\ t[3].set = "forget"
  <1>1. t = <<Do("container"), Step("purge", m, "none"), Forget(m)>>
    BY DEF Clear
  <1>2. Len(t) = 3 /\ t[1] = Do("container") /\ t[2] = Step("purge", m, "none") /\ t[3] = Forget(m)
    BY <1>1
  <1>3. t \in Seq(StepType)
    BY PlansTyped DEF ClearAccessed
  <1>4. 1..Len(t) = {1, 2, 3}
    BY <1>2
  <1> QED
    BY <1>2, <1>3, <1>4, StepFields

LEMMA PurgeOpens ==
  ASSUME NEW m \in Mode
  PROVE  Opens(ClearOther(m), "purge_other")
  <1> DEFINE n == OtherMode(m)
             t == Clear(n, n)
  <1>1. n \in Mode /\ n # "none"
    BY Others DEF Mode
  <1> HIDE DEF n
  <1>2. /\ t \in Seq(StepType) /\ 1..Len(t) = {1, 2, 3}
        /\ t[1].do = "container" /\ t[2].do = "purge" /\ t[2].mode = n
        /\ t[3] = Forget(n) /\ t[3].do = "reset" /\ t[3].mode = n /\ t[3].set = "forget"
    BY <1>1, ClearIs
  <1> HIDE DEF t
  <1>3. Opens(t, "purge_other")
    BY <1>1, <1>2 DEF Opens, BeforeIn, ResetForm, UsesVessel, Finds, Clears, Settles
  <1> QED
    BY <1>3 DEF ClearOther, t, n

LEMMA WipeOpens == Opens(Wipe, "wipe")
  <1> DEFINE t == Wipe
  <1>1. t \in Seq(StepType)
    BY PlansTyped DEF Mode
  <1>2. Len(t) = 3 /\ t[1] = Do("container") /\ t[2] = Do("brick") /\ t[3] = ForgetAll
    BY DEF Wipe
  <1>3. 1..Len(t) = {1, 2, 3}
    BY <1>2
  <1>4. t[1].do = "container" /\ t[2].do = "brick" /\ t[3].do = "reset" /\ t[3].mode = "none" /\ t[3].set = "fresh"
    BY <1>2, StepFields
  <1> HIDE DEF t
  <1>5. Opens(t, "wipe")
    BY <1>1, <1>2, <1>3, <1>4 DEF Opens, BeforeIn, ResetForm, UsesVessel, Finds, Clears, Settles
  <1> QED
    BY <1>5 DEF t

LEMMA InitializeOpens == Opens(Initialize, "initialize")
  <1> DEFINE t == Initialize
  <1>1. t \in Seq(StepType)
    BY PlansTyped DEF Mode
  <1>2. Len(t) = 4 /\ t[1] = Do("container") /\ t[2] = Do("format") /\ t[3] = ForgetAll /\ t[4] = Do("unbind")
    BY DEF Initialize
  <1>3. 1..Len(t) = {1, 2, 3, 4}
    BY <1>2
  <1>4. /\ t[1].do = "container" /\ t[2].do = "format" /\ t[4].do = "unbind"
        /\ t[3].do = "reset" /\ t[3].mode = "none" /\ t[3].set = "fresh"
    BY <1>2, StepFields
  <1> HIDE DEF t
  <1>5. Opens(t, "initialize")
    BY <1>1, <1>2, <1>3, <1>4 DEF Opens, BeforeIn, ResetForm, UsesVessel, Finds, Clears, Settles
  <1> QED
    BY <1>5 DEF t

BeginStep ==
    \/ BeginStore \/ BeginRegister \/ BeginRetrieve \/ BeginDestroy \/ BeginPurgeOther
    \/ BeginWipe \/ BeginInitialize

Started(t, k) ==
    /\ Opens(t, k)
    /\ IsBody(op') /\ op'.todo = t /\ op'.kind = k
    /\ op'.vessel = Legacy /\ op'.round = 0 /\ op'.result = "none"
    /\ op'.used = {} /\ op'.cleared = {}

LEMMA BeginningDoes ==
  ASSUME TypeOK, NEW t, NEW k, NEW p \in Pass \union {"none"}, NEW arm \in Pass \union {"none"},
         NEW hint \in Mode \union {"none"}, NEW replace, replace \in BOOLEAN, Opens(t, k),
         k \in {"store", "register", "retrieve", "destroy", "purge_other", "wipe", "initialize"},
         Begin(k, t, p, arm, hint, replace)
  PROVE  /\ Started(t, k) /\ ~disturbed' /\ ~moved' /\ TypeOK'
         /\ UNCHANGED <<exists, content, reg, snap>>
  <1>1. t \in Seq(StepType)
    BY DEF Opens
  <1>2. op' = [Idle EXCEPT !.kind = k, !.todo = t, !.pass = p, !.arm = arm, !.hint = hint, !.replace = replace]
    BY DEF Begin
  <1>3. IsBody(op') /\ op'.todo = t /\ op'.kind = k
        /\ op'.vessel = Idle.vessel /\ op'.round = Idle.round /\ op'.result = Idle.result
        /\ op'.used = Idle.used /\ op'.cleared = Idle.cleared
    <2> DEFINE b == Idle
               x == replace
    <2>1. IsBody(b)
      BY IdleTyped
    <2>2. op' = [b EXCEPT !.kind = k, !.todo = t, !.pass = p, !.arm = arm, !.hint = hint, !.replace = x]
      BY <1>2
    <2> HIDE DEF b, x
    <2>3. /\ op'.kind = k /\ op'.todo = t /\ op'.pass = p /\ op'.arm = arm /\ op'.hint = hint
          /\ op'.vessel = b.vessel /\ op'.at = b.at /\ op'.mode = b.mode /\ op'.first = b.first
          /\ op'.files = b.files /\ op'.round = b.round /\ op'.face = b.face /\ op'.result = b.result
          /\ op'.cleared = b.cleared /\ op'.used = b.used
      BY <2>1, <2>2 DEF IsBody, BodyFields
    <2>4. op'.replace = x
      BY <2>1, <2>2 DEF IsBody, BodyFields
    <2>5. op' = [f \in BodyFields |-> op'[f]]
      BY <2>1, <2>2 DEF IsBody, BodyFields
    <2>6. op'.replace \in BOOLEAN
      BY <2>4 DEF x
    <2> QED
      BY <1>1, <2>1, <2>3, <2>5, <2>6 DEF IsBody, b
  <1>4. Idle.vessel = Legacy /\ Idle.round = 0 /\ Idle.result = "none" /\ Idle.used = {} /\ Idle.cleared = {}
    BY DEF Idle
  <1>5. Started(t, k)
    BY <1>3, <1>4 DEF Started
  <1>6. disturbed' = FALSE /\ moved' = FALSE /\ done' = done + 1 /\ UNCHANGED <<policy, exists, content, reg, torn, snap, bound, console>>
    BY DEF Begin
  <1>7. TypeOK'
    <2>1. op' \in BodyType
      BY <1>3, BodyTyped
    <2>2. (disturbed \in BOOLEAN)' /\ (moved \in BOOLEAN)'
      BY <1>6
    <2>3. done' \in Nat
      BY <1>6 DEF TypeOK
    <2> QED
      BY <1>6, <2>1, <2>2, <2>3 DEF TypeOK
  <1> QED
    BY <1>5, <1>6, <1>7

LEMMA BeginDoes ==
  ASSUME TypeOK, BeginStep
  PROVE  /\ \E t, k : Started(t, k)
         /\ ~disturbed' /\ ~moved' /\ TypeOK'
         /\ UNCHANGED <<exists, content, reg, snap>>
  <1>1. CASE BeginStore
    BY <1>1, StoreOpens, BeginningDoes DEF BeginStore
  <1>2. CASE BeginRegister
    BY <1>2, RegisterOpens, BeginningDoes DEF BeginRegister
  <1>3. CASE BeginRetrieve
    BY <1>3, RetrieveOpens, BeginningDoes DEF BeginRetrieve
  <1>4. CASE BeginDestroy
    BY <1>4, DestroyOpens, BeginningDoes DEF BeginDestroy
  <1>5. CASE BeginPurgeOther
    BY <1>5, PurgeOpens, BeginningDoes DEF BeginPurgeOther
  <1>6. CASE BeginWipe
    BY <1>6, WipeOpens, BeginningDoes DEF BeginWipe
  <1>7. CASE BeginInitialize
    BY <1>7, InitializeOpens, BeginningDoes DEF BeginInitialize
  <1> QED
    BY <1>1, <1>2, <1>3, <1>4, <1>5, <1>6, <1>7 DEF BeginStep

-----------------------------------------------------------------------------
(* Types are kept *)

(* The steps that leave the registry alone *)
Quiet ==
    \/ Look \/ LookAgain \/ Target \/ Reset \/ FindContainer \/ Select \/ Pick \/ Capture
    \/ Open \/ Verify \/ Purge \/ WipeContainer \/ Unbind \/ Read \/ Write

LEMMA QuietKeeps ==
  ASSUME Quiet
  PROVE  /\ reg' = reg /\ torn' = torn /\ snap' = snap
         /\ content' = content \/ Purge \/ WipeContainer \/ Read \/ Write
         /\ bound' = bound \/ Capture \/ Unbind
         /\ op.todo # <<>>
  <1>1. reg' = reg /\ torn' = torn /\ snap' = snap
    BY Zenon DEF Quiet, Registry, Look, LookAgain, Target, Reset, FindContainer, Select, Pick, Capture,
         Open, Verify, Purge, WipeContainer, Unbind, Read, Write
  <1>2. content' = content \/ Purge \/ WipeContainer \/ Read \/ Write
    BY Zenon DEF Quiet, Look, LookAgain, Target, Reset, FindContainer, Select, Pick, Capture,
         Open, Verify, Unbind
  <1>3. bound' = bound \/ Capture \/ Unbind
    BY Zenon DEF Quiet, Look, LookAgain, Target, Reset, FindContainer, Select, Pick,
         Open, Verify, Purge, WipeContainer, Read, Write
  <1>4. op.todo # <<>>
    BY Zenon DEF Quiet, At, Look, LookAgain, Target, Reset, FindContainer, Select, Pick, Capture,
         Open, Verify, Purge, WipeContainer, Unbind, Read, Write
  <1> QED
    BY <1>1, <1>2, <1>3, <1>4

(* The first step of the plan, for each action that carries it out *)
LEMMA Heads ==
  ASSUME TypeOK
  PROVE  /\ Look => op.todo[1].do = "look" /\ op.todo # <<>>
         /\ LookAgain => op.todo[1].do = "again" /\ op.todo # <<>>
         /\ Target => op.todo[1].do = "target" /\ op.todo # <<>>
         /\ Reset => op.todo[1].do = "reset" /\ op.todo # <<>>
         /\ FindContainer => op.todo[1].do = "container" /\ op.todo # <<>>
         /\ Select => op.todo[1].do = "select" /\ op.todo # <<>>
         /\ Pick => op.todo[1].do = "pick" /\ op.todo # <<>>
         /\ Capture => op.todo[1].do = "capture" /\ op.todo # <<>>
         /\ Open => op.todo[1].do = "open" /\ op.todo # <<>>
         /\ Verify => op.todo[1].do = "verify" /\ op.todo # <<>>
         /\ Purge => op.todo[1].do = "purge" /\ op.todo # <<>>
         /\ WipeContainer => op.todo[1].do \in {"brick", "format"} /\ op.todo # <<>>
         /\ Unbind => op.todo[1].do = "unbind" /\ op.todo # <<>>
         /\ Read => op.todo[1].do = "read" /\ op.todo # <<>>
         /\ Write => op.todo[1].do = "write" /\ op.todo # <<>>
  <1>1. \A do : At(do) => op.todo[1].do = do /\ op.todo # <<>>
    BY AtStep
  <1>2. /\ Look => At("look")
        /\ LookAgain => At("again")
        /\ Target => At("target")
        /\ Reset => At("reset")
        /\ FindContainer => At("container")
        /\ Select => At("select")
        /\ Pick => At("pick")
        /\ Capture => At("capture")
        /\ Open => At("open")
        /\ Verify => At("verify")
        /\ Purge => At("purge")
        /\ WipeContainer => At("brick") \/ At("format")
        /\ Unbind => At("unbind")
        /\ Read => At("read")
        /\ Write => At("write")
    BY Zenon DEF Look, LookAgain, Target, Reset, FindContainer, Select, Pick, Capture,
         Open, Verify, Purge, WipeContainer, Unbind, Read, Write
  <1> QED
    BY <1>1, <1>2

LEMMA QuietTyped ==
  ASSUME TypeOK, PlanOK, Quiet
  PROVE  /\ IsBody(op') /\ content' \in [Container -> [Mode -> Slot]] /\ bound' \subseteq Mode
         /\ op'.kind = op.kind /\ op'.round = op.round /\ op'.arm = op.arm /\ op'.pass = op.pass
  <1>1. IsBody(op') /\ op'.kind = op.kind /\ op'.round = op.round /\ op'.arm = op.arm /\ op'.pass = op.pass
    <2>1. CASE Look
      BY <2>1, LookDoes DEF GivesUp, OnlyChanges
    <2>2. CASE LookAgain
      BY <2>2, LookAgainDoes DEF GivesUp, OnlyChanges
    <2>3. CASE Target
      BY <2>3, TargetDoes DEF OnlyChanges
    <2>4. CASE Reset
      BY <2>4, ResetDoes DEF OnlyChanges
    <2>5. CASE FindContainer
      BY <2>5, FindContainerDoes DEF OnlyChanges
    <2>6. CASE Select
      BY <2>6, SelectDoes DEF GivesUp, OnlyChanges
    <2>7. CASE Pick
      BY <2>7, PickDoes DEF GivesUp, OnlyChanges
    <2>8. CASE Capture
      BY <2>8, CaptureDoes DEF GivesUp, OnlyChanges
    <2>9. CASE Open
      BY <2>9, OpenDoes DEF GivesUp, OnlyChanges
    <2>10. CASE Verify
      BY <2>10, VerifyDoes DEF GivesUp, OnlyChanges
    <2>11. CASE Purge
      BY <2>11, PurgeDoes DEF OnlyChanges
    <2>12. CASE WipeContainer
      BY <2>12, WipeContainerDoes DEF OnlyChanges
    <2>13. CASE Unbind
      BY <2>13, UnbindDoes DEF OnlyChanges
    <2>14. CASE Read
      BY <2>14, ReadDoes DEF GivesUp, OnlyChanges
    <2>15. CASE Write
      BY <2>15, WriteDoes DEF GivesUp, OnlyChanges
    <2> QED
      BY <2>1, <2>2, <2>3, <2>4, <2>5, <2>6, <2>7, <2>8, <2>9, <2>10, <2>11, <2>12, <2>13, <2>14, <2>15
         DEF Quiet
  <1>2. content' \in [Container -> [Mode -> Slot]]
    BY QuietKeeps, PurgeDoes, WipeContainerDoes, ReadDoes, WriteDoes DEF TypeOK
  <1>3. bound' \subseteq Mode
    BY QuietKeeps, CaptureDoes DEF TypeOK, Unbind
  <1> QED
    BY <1>1, <1>2, <1>3

LEMMA BodyStepTyped ==
  ASSUME TypeOK, PlanOK, Body
  PROVE  TypeOK'
  <1>1. UNCHANGED <<policy, exists, console, done, disturbed, moved>>
    BY DEF Body, history
  <1>2. \/ Quiet \/ Load \/ Save \/ Resave
    BY Zenon DEF Body, Quiet
  <1>3. CASE Quiet
    BY <1>1, <1>3, QuietKeeps, QuietTyped, BodyTyped DEF TypeOK
  <1>4. CASE Load
    <2>1. IsBody(op') /\ snap' = reg /\ reg' = reg
      BY <1>4, LoadDoes DEF OnlyChanges
    <2>2. torn' = TRUE /\ content' = content /\ bound' = bound
      BY <1>4 DEF Load
    <2>3. (torn \in BOOLEAN)'
      BY <2>2
    <2> QED
      BY <1>1, <2>1, <2>2, <2>3, BodyTyped DEF TypeOK
  <1>5. CASE Save
    <2>1. IsBody(op') /\ IsRegistry(reg') /\ IsRegistry(snap')
      BY <1>5, SaveDoes, EmptyIsRegistry DEF OnlyChanges
    <2>2. torn' = FALSE /\ content' = content /\ bound' = bound
      BY <1>5 DEF Save
    <2>3. (torn \in BOOLEAN)'
      BY <2>2
    <2> QED
      BY <1>1, <2>1, <2>2, <2>3, BodyTyped DEF TypeOK
  <1>6. CASE Resave
    <2>1. IsBody(op') /\ IsRegistry(reg') /\ IsRegistry(snap')
      BY <1>6, ResaveDoes, EmptyIsRegistry DEF OnlyChanges
    <2>2. torn' = FALSE /\ content' = content /\ bound' = bound
      BY <1>6 DEF Resave
    <2>3. (torn \in BOOLEAN)'
      BY <2>2
    <2> QED
      BY <1>1, <2>1, <2>2, <2>3, BodyTyped DEF TypeOK
  <1> QED
    BY <1>2, <1>3, <1>4, <1>5, <1>6

LEMMA NextCases ==
  ASSUME Next
  PROVE  BeginStep \/ Body \/ ConsoleStep
  BY Zenon DEF Next, BeginStep, ConsoleStep

LEMMA StutterTyped ==
  ASSUME TypeOK, UNCHANGED vars
  PROVE  TypeOK'
  BY DEF TypeOK, vars, history

LEMMA NextTyped ==
  ASSUME TypeOK, PlanOK, [Next]_vars
  PROVE  TypeOK'
  BY NextCases, StutterTyped, BeginDoes, BodyStepTyped, ConsoleDoes

-----------------------------------------------------------------------------
(* The plan is kept *)

LEMMA Shifts ==
  ASSUME TypeOK, op.todo # <<>>, op'.todo = Rest
  PROVE  /\ \A i \in Steps' : i \in Nat /\ i + 1 \in Steps /\ i + 1 # 1 /\ op'.todo[i] = op.todo[i + 1]
         /\ \A i \in Steps : i \in Nat /\ i >= 1
                             /\ (i # 1 => i - 1 \in Steps' /\ op'.todo[i - 1] = op.todo[i])
         /\ \A dos : \A i \in Steps' : Before(i + 1, dos) => Before(i, dos)' \/ op.todo[1].do \in dos
         /\ 1 \in Steps
  <1>1. op.todo \in Seq(StepType) /\ Rest = Tail(op.todo)
    BY OpTyped DEF Rest
  <1>2. /\ Len(op.todo) \in Nat \ {0} /\ 1 \in 1..Len(op.todo) /\ Len(op'.todo) = Len(op.todo) - 1
        /\ \A i \in 1..Len(op'.todo) : i + 1 \in 1..Len(op.todo) /\ op'.todo[i] = op.todo[i + 1]
    BY <1>1, Rests
  <1>3. \A i \in Steps' : i \in Nat /\ i + 1 \in Steps /\ i + 1 # 1 /\ op'.todo[i] = op.todo[i + 1]
    BY <1>2 DEF Steps
  <1>4. \A i \in Steps : i \in Nat /\ i >= 1
                         /\ (i # 1 => i - 1 \in Steps' /\ op'.todo[i - 1] = op.todo[i])
    <2> SUFFICES ASSUME NEW i \in Steps
                 PROVE  i \in Nat /\ i >= 1 /\ (i # 1 => i - 1 \in Steps' /\ op'.todo[i - 1] = op.todo[i])
      OBVIOUS
    <2>1. i \in 1..Len(op.todo) /\ (i # 1 => i - 1 \in 1..Len(op'.todo)) /\ (i - 1) + 1 = i
      BY <1>2 DEF Steps
    <2> QED
      BY <1>2, <2>1 DEF Steps
  <1>5. \A dos : \A i \in Steps' : Before(i + 1, dos) => Before(i, dos)' \/ op.todo[1].do \in dos
    <2> SUFFICES ASSUME NEW i \in Steps', NEW dos, NEW j \in Steps, j < i + 1, op.todo[j].do \in dos,
                        op.todo[1].do \notin dos
                 PROVE  Before(i, dos)'
      BY DEF Before
    <2>1. j # 1 /\ j - 1 < i
      BY <1>3, <1>4
    <2>2. j - 1 \in Steps' /\ op'.todo[j - 1].do \in dos
      BY <1>4, <2>1
    <2> QED
      BY <2>1, <2>2 DEF Before
  <1> QED
    BY <1>2, <1>3, <1>4, <1>5 DEF Steps

LEMMA NothingLeft ==
  ASSUME op'.todo = <<>>
  PROVE  Steps' = {}
  BY EmptySeq DEF Steps

StoreSteps == Store[1].do = "select" /\ Store[2].do = "capture" /\ Store[3].do = "target" /\ Store[4].do = "read"

LEMMA StoreIs == StoreSteps /\ Len(Store) = 4
  <1>1. Len(Store) = 4 /\ Store[1] = Do("select") /\ Store[2] = Do("capture") /\ Store[3] = Do("target") /\ Store[4] = Do("read")
    BY DEF Store
  <1> QED
    BY <1>1, StepFields DEF StoreSteps

LEMMA NoPlan ==
  ASSUME op'.todo = <<>>
  PROVE  PlanOK'
  BY NothingLeft DEF PlanOK

(* One step of the plan is done. *)
LEMMA PlanShifts ==
  ASSUME TypeOK, PlanOK, op.todo # <<>>, op'.todo = Rest, op'.kind = op.kind,
         op'.vessel = op.vessel \/ op.todo[1].do \in Finds,
         \/ op'.first \in Mode
         \/ op'.first = op.first /\ op.todo[1].do # "look"
         \/ op.todo[1].do = "pick",
         op'.mode \in Mode \/ (op'.mode = op.mode /\ op.todo[1].do \notin {"select", "pick", "again"})
  PROVE  PlanOK'
  <1> SUFFICES ASSUME NEW i \in Steps'
               PROVE  LET s == op'.todo[i] IN
        /\ s.do \in {"touch", "write"} => op'.vessel # Legacy /\ ~Before(i, Finds)'
        /\ s.do \in {"touch", "purge"} => s.mode \in Mode
        /\ s.do = "reset" => (IF s.mode = "none" THEN s.set = "fresh" ELSE s.set = "forget")
        /\ s.do = "reset" => \A j \in Steps' : j > i => op'.todo[j].do = "unbind"
        /\ s.do = "open" /\ ~Before(i, {"look"})' => op'.first \in Mode
        /\ s.do \in {"capture", "read", "write"} /\ ~Before(i, {"select", "pick"})' => op'.mode \in Mode
        /\ s.do = "select" => op'.todo = Store
        /\ s.do = "open" => op'.kind = "retrieve"
        /\ s.do = "again" => op'.kind = "destroy"
        /\ s.do = "pick" => op'.kind = "register"
        /\ s.do = "verify" =>
              /\ op'.kind \in {"retrieve", "destroy"}
              /\ op'.kind = "retrieve" => op'.first \in Mode
              /\ op'.kind = "destroy" /\ ~Before(i, {"again"})' => op'.mode \in Mode
    BY DEF PlanOK
  <1> DEFINE s == op'.todo[i]
  <1>1. i + 1 \in Steps /\ i + 1 # 1 /\ i \in Nat /\ s = op.todo[i + 1] /\ 1 \in Steps
    BY Shifts
  <1>2. \A dos : Before(i + 1, dos) => Before(i, dos)' \/ op.todo[1].do \in dos
    BY Shifts
  <1>3. \A dos : op.todo[1].do \in dos => Before(i + 1, dos)
    BY <1>1, Shifts DEF Before
  <1>4. \A dos : Before(i, dos)' => Before(i + 1, dos)
    <2> SUFFICES ASSUME NEW dos, NEW j \in Steps', j < i, op'.todo[j].do \in dos
                 PROVE  Before(i + 1, dos)
      BY DEF Before
    <2>1. j + 1 \in Steps /\ op.todo[j + 1].do \in dos /\ j + 1 < i + 1
      BY <1>1, Shifts
    <2> QED
      BY <2>1 DEF Before
  <1> HIDE DEF s
  <1>5. /\ s.do \in {"touch", "write"} => op.vessel # Legacy /\ ~Before(i + 1, Finds)
        /\ s.do \in {"touch", "purge"} => s.mode \in Mode
        /\ s.do = "reset" => (IF s.mode = "none" THEN s.set = "fresh" ELSE s.set = "forget")
        /\ s.do = "open" /\ ~Before(i + 1, {"look"}) => op.first \in Mode
        /\ s.do \in {"capture", "read", "write"} /\ ~Before(i + 1, {"select", "pick"}) => op.mode \in Mode
        /\ s.do = "select" => op.todo = Store
        /\ s.do = "open" => op.kind = "retrieve"
        /\ s.do = "again" => op.kind = "destroy"
        /\ s.do = "pick" => op.kind = "register"
        /\ s.do = "verify" =>
              /\ op.kind \in {"retrieve", "destroy"}
              /\ op.kind = "retrieve" => op.first \in Mode
              /\ op.kind = "destroy" /\ ~Before(i + 1, {"again"}) => op.mode \in Mode
    BY <1>1 DEF PlanOK
  <1>6. s.do # "select"
    <2> SUFFICES ASSUME s.do = "select" PROVE FALSE
      OBVIOUS
    <2>1. op.todo = Store /\ i + 1 \in 1..4
      BY <1>1, <1>5, StoreIs DEF Steps
    <2> QED
      BY <1>1, <2>1, StoreIs DEF StoreSteps
  <1>11. s.do = "reset" => \A j \in Steps' : j > i => op'.todo[j].do = "unbind"
    <2> SUFFICES ASSUME s.do = "reset", NEW j \in Steps', j > i PROVE op'.todo[j].do = "unbind"
      OBVIOUS
    <2>1. j + 1 \in Steps /\ j + 1 > i + 1 /\ op'.todo[j] = op.todo[j + 1]
      BY <1>1, Shifts
    <2> QED
      BY <1>1, <2>1 DEF PlanOK
  <1>7. s.do \in {"touch", "write"} => op'.vessel # Legacy /\ ~Before(i, Finds)'
    BY <1>3, <1>4, <1>5
  <1>0. op.todo[1].do = "pick" => op.kind = "register"
    BY <1>1 DEF PlanOK
  <1>8. s.do = "open" /\ ~Before(i, {"look"})' => op'.first \in Mode
    BY <1>0, <1>2, <1>5
  <1>9. s.do \in {"capture", "read", "write"} /\ ~Before(i, {"select", "pick"})' => op'.mode \in Mode
    BY <1>2, <1>5
  <1>10. s.do = "verify" =>
              /\ op'.kind \in {"retrieve", "destroy"}
              /\ op'.kind = "retrieve" => op'.first \in Mode
              /\ op'.kind = "destroy" /\ ~Before(i, {"again"})' => op'.mode \in Mode
    BY <1>0, <1>2, <1>5
  <1> QED
    BY <1>5, <1>6, <1>7, <1>8, <1>9, <1>10, <1>11 DEF s

LEMMA PlanBegins ==
  ASSUME NEW t, NEW k, Started(t, k)
  PROVE  PlanOK' /\ RoundOK'
  <1>1. /\ Steps' = 1..Len(t) /\ op'.todo = t /\ op'.kind = k /\ op'.round = 0
        /\ \A i, dos : Before(i, dos)' <=> BeforeIn(t, i, dos)
    BY DEF Started, Steps, Before, BeforeIn
  <1> QED
    BY <1>1 DEF Started, Opens, PlanOK, RoundOK, ResetForm

(* The literal plans that an action puts in place of its own *)
LEMMA PlanPlaced ==
  ASSUME NEW t \in Seq(StepType), op'.todo = t,
         \A i \in 1..Len(t) :
            /\ t[i].do \notin {"open", "again", "select", "pick"}
            /\ ResetForm(t[i])
            /\ t[i].do = "reset" => \A j \in 1..Len(t) : j > i => t[j].do = "unbind"
            /\ t[i].do \in {"touch", "write"} => op'.vessel # Legacy /\ ~BeforeIn(t, i, Finds)
            /\ t[i].do \in {"touch", "purge"} => t[i].mode \in Mode
            /\ t[i].do \in {"capture", "read", "write"} => op'.mode \in Mode
            /\ t[i].do = "verify" => op'.kind = "retrieve" /\ op'.first \in Mode
  PROVE  PlanOK'
  <1>1. Steps' = 1..Len(t) /\ \A i, dos : Before(i, dos)' <=> BeforeIn(t, i, dos)
    BY DEF Steps, Before, BeforeIn
  <1> QED
    BY <1>1 DEF PlanOK, ResetForm

(* The plans that Open, Verify, Read and Select put in place of their own *)

(* Behind the first n steps, the three that clear the Face m *)
ClearsFrom(t, n, m) ==
    /\ t[n + 1].do = "container"
    /\ t[n + 2].do = "purge" /\ t[n + 2].mode = m
    /\ t[n + 3] = Forget(m) /\ t[n + 3].do = "reset" /\ t[n + 3].mode = m /\ t[n + 3].set = "forget"

LEMMA MaybeClears ==
  ASSUME NEW m \in Mode, NEW t, t = MaybeAutoPurge(m)
  PROVE  /\ t \in Seq(StepType)
         /\ \/ t = <<>> /\ Len(t) = 0 /\ 1..Len(t) = {}
            \/ Len(t) = 3 /\ 1..Len(t) = {1, 2, 3} /\ ClearsFrom(t, 0, OtherMode(m))
  <1> DEFINE n == OtherMode(m)
  <1>1. n \in Mode
    BY Others
  <1>2. t = <<>> \/ t = Clear(n, n)
    BY DEF MaybeAutoPurge, ClearOther
  <1>3. CASE t = <<>>
    BY <1>3, EmptySeq
  <1>4. CASE t = Clear(n, n)
    <2> HIDE DEF n
    <2>1. /\ t \in Seq(StepType) /\ Len(t) = 3 /\ 1..Len(t) = {1, 2, 3}
          /\ t[1].do = "container" /\ t[2].do = "purge" /\ t[2].mode = n
          /\ t[3] = Forget(n) /\ t[3].do = "reset" /\ t[3].mode = n /\ t[3].set = "forget"
      BY <1>1, <1>4, ClearIs
    <2>2. 0 + 1 = 1 /\ 0 + 2 = 2 /\ 0 + 3 = 3
      OBVIOUS
    <2>3. ClearsFrom(t, 0, n)
      BY <2>1, <2>2 DEF ClearsFrom
    <2> QED
      BY <2>1, <2>3 DEF n
  <1> QED
    BY <1>2, <1>3, <1>4

(* A retrieval that opened counts the files, then clears the other Face. *)
CountAndClear(m) == <<Touch(m, "count")>> \o MaybeAutoPurge(m)

LEMMA CountThenClears ==
  ASSUME NEW m \in Mode, NEW t, t = CountAndClear(m)
  PROVE  /\ t \in Seq(StepType) /\ t[1] = Touch(m, "count")
         /\ t[1].do = "touch" /\ t[1].mode = m /\ t[1].set = "count"
         /\ \/ Len(t) = 1 /\ 1..Len(t) = {1}
            \/ Len(t) = 4 /\ 1..Len(t) = {1, 2, 3, 4} /\ ClearsFrom(t, 1, OtherMode(m))
  <1> DEFINE a == <<Touch(m, "count")>>
             b == MaybeAutoPurge(m)
             n == OtherMode(m)
  <1>1. a \in Seq(StepType) /\ Len(a) = 1 /\ a[1] = Touch(m, "count")
    BY StepTypes
  <1>2. /\ b \in Seq(StepType)
        /\ \/ b = <<>> /\ Len(b) = 0
           \/ Len(b) = 3 /\ ClearsFrom(b, 0, n)
    BY MaybeClears
  <1>3. Touch(m, "count").do = "touch" /\ Touch(m, "count").mode = m /\ Touch(m, "count").set = "count"
    BY StepFields
  <1> HIDE DEF a, b, n
  <1>4. t = Cat(a, b)
    BY DEF CountAndClear, a, b, Cat
  <1>5. /\ t \in Seq(StepType) /\ Len(t) = 1 + Len(b) /\ t[1] = Touch(m, "count")
        /\ \A i \in 1..Len(b) : t[i + 1] = b[i]
    <2>1. /\ t \in Seq(StepType) /\ Len(t) = Len(a) + Len(b)
          /\ \A i \in 1..Len(a) : t[i] = a[i]
          /\ \A i \in 1..Len(b) : t[i + Len(a)] = b[i]
      <3>1. a \in Seq(StepType) /\ b \in Seq(StepType)
        BY <1>1, <1>2
      <3>2. /\ Cat(a, b) \in Seq(StepType) /\ Len(Cat(a, b)) = Len(a) + Len(b)
            /\ Len(a) \in Nat /\ Len(b) \in Nat
            /\ \A i \in 1..Len(a) : Cat(a, b)[i] = a[i]
            /\ \A i \in 1..Len(b) : Cat(a, b)[i + Len(a)] = b[i]
        BY <3>1, JoinedParts, Zenon
      <3> QED
        BY <1>4, <3>2, Zenon
    <2>2. 1 \in 1..Len(a) /\ Len(b) \in Nat
      BY <1>1, <1>2
    <2> QED
      BY <1>1, <2>1, <2>2
  <1>6. CASE Len(b) = 0
    BY <1>3, <1>5, <1>6
  <1>7. CASE Len(b) = 3 /\ ClearsFrom(b, 0, n)
    <2>1. Len(t) = 4 /\ t[1 + 1] = b[0 + 1] /\ t[1 + 2] = b[0 + 2] /\ t[1 + 3] = b[0 + 3]
      BY <1>5, <1>7
    <2>2. ClearsFrom(t, 1, n)
      BY <1>7, <2>1 DEF ClearsFrom
    <2>3. 1..Len(t) = {1, 2, 3, 4}
      BY <2>1
    <2>4. t \in Seq(StepType) /\ t[1] = Touch(m, "count")
      BY <1>5
    <2> QED
      BY <1>3, <2>1, <2>2, <2>3, <2>4, Zenon DEF n
  <1> QED
    BY <1>2, <1>6, <1>7

LEMMA VerifyPlan ==
  ASSUME NEW t, t = <<Do("verify")>>
  PROVE  t \in Seq(StepType) /\ 1..Len(t) = {1} /\ t[1].do = "verify"
  <1>1. Len(t) = 1 /\ t[1] = Do("verify")
    OBVIOUS
  <1> QED
    BY <1>1, DoTypes, StepFields

DestroySteps(m) == <<Step("purge", m, "none"), Touch(m, "fresh")>>

LEMMA DestroyPlan ==
  ASSUME NEW m \in Mode, NEW t, t = DestroySteps(m)
  PROVE  /\ t \in Seq(StepType) /\ 1..Len(t) = {1, 2}
         /\ t[1].do = "purge" /\ t[1].mode = m
         /\ t[2].do = "touch" /\ t[2].mode = m /\ t[2].set = "fresh"
  <1>1. Len(t) = 2 /\ t[1] = Step("purge", m, "none") /\ t[2] = Touch(m, "fresh")
    BY DEF DestroySteps
  <1>2. t[1] \in StepType /\ t[2] \in StepType
    BY <1>1, StepTypes DEF Resets
  <1>3. t \in Seq(StepType)
    BY <1>1, <1>2 DEF DestroySteps
  <1> QED
    BY <1>1, <1>3, StepFields

LEMMA StorePlan ==
  ASSUME NEW m \in Mode, NEW arm \in Pass \union {"none"}, NEW t, t = StoreInto(m, arm)
  PROVE  /\ t \in Seq(StepType)
         /\ \/ /\ arm = "none" /\ 1..Len(t) = {1, 2, 3}
               /\ t[1].do = "write"
               /\ t[2] = Touch(m, "count") /\ t[3] = Touch(m, "creds")
            \/ /\ arm # "none" /\ 1..Len(t) = {1, 2, 3, 4}
               /\ t[1] = Touch(m, "armed") /\ t[2].do = "write"
               /\ t[3] = Touch(m, "count") /\ t[4] = Touch(m, "creds")
  <1> DEFINE a == Arm(m, arm)
             b == <<Step("write", m, "none"), Touch(m, "count"), Touch(m, "creds")>>
  <1>1. /\ b \in Seq(StepType) /\ Len(b) = 3
        /\ b[1].do = "write" /\ b[2] = Touch(m, "count") /\ b[3] = Touch(m, "creds")
    <2>1. Len(b) = 3 /\ b[1] = Step("write", m, "none") /\ b[2] = Touch(m, "count") /\ b[3] = Touch(m, "creds")
      OBVIOUS
    <2>2. b[1] \in StepType /\ b[2] \in StepType /\ b[3] \in StepType
      BY <2>1, StepTypes
    <2>3. b \in Seq(StepType)
      BY <2>1, <2>2
    <2> QED
      BY <2>1, <2>3, StepFields
  <1>2. /\ a \in Seq(StepType)
        /\ \/ arm = "none" /\ Len(a) = 0
           \/ arm # "none" /\ Len(a) = 1 /\ a[1] = Touch(m, "armed")
    <2>1. Touch(m, "armed") \in StepType
      BY StepTypes
    <2>2. CASE arm = "none"
      BY <2>2, EmptySeq DEF Arm
    <2>3. CASE arm # "none"
      BY <2>1, <2>3 DEF Arm
    <2> QED
      BY <2>2, <2>3
  <1> HIDE DEF a, b
  <1>3. t = Cat(a, b)
    BY DEF StoreInto, a, b, Cat
  <1>4. /\ t \in Seq(StepType) /\ Len(t) = Len(a) + 3
        /\ \A i \in 1..Len(a) : t[i] = a[i]
        /\ \A i \in 1..3 : t[i + Len(a)] = b[i]
    <2> a \in Seq(StepType) /\ b \in Seq(StepType)
      BY <1>1, <1>2
    <2>1. /\ t \in Seq(StepType) /\ Len(t) = Len(a) + Len(b)
          /\ \A i \in 1..Len(a) : t[i] = a[i]
          /\ \A i \in 1..Len(b) : t[i + Len(a)] = b[i]
      <3>1. a \in Seq(StepType) /\ b \in Seq(StepType)
        OBVIOUS
      <3>2. /\ Cat(a, b) \in Seq(StepType) /\ Len(Cat(a, b)) = Len(a) + Len(b)
            /\ Len(a) \in Nat /\ Len(b) \in Nat
            /\ \A i \in 1..Len(a) : Cat(a, b)[i] = a[i]
            /\ \A i \in 1..Len(b) : Cat(a, b)[i + Len(a)] = b[i]
        BY <3>1, JoinedParts, Zenon
      <3> QED
        BY <1>3, <3>2, Zenon
    <2> QED
      BY <1>1, <2>1
  <1>5. CASE arm = "none" /\ Len(a) = 0
    <2>1. Len(t) = 3 /\ t[1] = b[1] /\ t[2] = b[2] /\ t[3] = b[3]
      BY <1>4, <1>5
    <2> QED
      BY <1>1, <1>4, <1>5, <2>1
  <1>6. CASE arm # "none" /\ Len(a) = 1 /\ a[1] = Touch(m, "armed")
    <2>1. Len(t) = 4 /\ t[1] = a[1] /\ t[2] = b[1] /\ t[3] = b[2] /\ t[4] = b[3]
      <3>1. 1 \in 1..Len(a) /\ 1 + Len(a) = 2 /\ 2 + Len(a) = 3 /\ 3 + Len(a) = 4
        BY <1>6
      <3> QED
        BY <1>4, <3>1
    <2> QED
      BY <1>1, <1>4, <1>6, <2>1
  <1> QED
    BY <1>2, <1>5, <1>6

LEMMA SelectPlan ==
  ASSUME NEW t, t \in {<<Do("capture"), Do("target"), Do("read")>>, <<Do("target"), Do("read")>>}
  PROVE  /\ t \in Seq(StepType)
         /\ \/ 1..Len(t) = {1, 2, 3} /\ t[1].do = "capture" /\ t[2].do = "target" /\ t[3].do = "read"
            \/ 1..Len(t) = {1, 2} /\ t[1].do = "target" /\ t[2].do = "read"
  <1>1. Do("capture") \in StepType /\ Do("target") \in StepType /\ Do("read") \in StepType
    BY DoTypes
  <1>2. CASE t = <<Do("capture"), Do("target"), Do("read")>>
    <2>1. Len(t) = 3 /\ t[1] = Do("capture") /\ t[2] = Do("target") /\ t[3] = Do("read")
      BY <1>2
    <2> QED
      BY <1>1, <1>2, <2>1, StepFields
  <1>3. CASE t = <<Do("target"), Do("read")>>
    <2>1. Len(t) = 2 /\ t[1] = Do("target") /\ t[2] = Do("read")
      BY <1>3
    <2> QED
      BY <1>1, <1>3, <2>1, StepFields
  <1> QED
    BY <1>2, <1>3

(* The steps that a reset leaves: the touches it stands for, then at most  *)
(* the unbinding of the objects.                                           *)
LEMMA FacesAre ==
  ASSUME NEW s \in StepType, NEW t, t = Faces(s)
  PROVE  /\ t \in Seq(StepType)
         /\ \A i \in 1..Len(t) : /\ t[i].do = "touch" /\ t[i].mode \in Mode /\ t[i].set = s.set
                                 /\ s.mode \in {t[i].mode, "none"}
         /\ \A m \in Mode : s.mode \in {m, "none"} => \E i \in 1..Len(t) : t[i] = Touch(m, s.set)
  <1>1. s.mode \in Mode \union {"none"} /\ s.set \in Resets \union {"count", "creds", "armed", "none"}
    BY DEF StepType
  <1>2. /\ \A m \in Mode : Touch(m, s.set) \in StepType
        /\ \A m \in Mode : Touch(m, s.set).do = "touch" /\ Touch(m, s.set).mode = m /\ Touch(m, s.set).set = s.set
    BY <1>1, StepTypes, StepFields
  <1>3. CASE s.mode = "none"
    <2>1. t = <<Touch("dummy", s.set), Touch("secret", s.set)>>
      BY <1>3 DEF Faces
    <2>2. Len(t) = 2 /\ t[1] = Touch("dummy", s.set) /\ t[2] = Touch("secret", s.set)
      BY <2>1
    <2>3. t \in Seq(StepType)
      BY <1>2, <2>1 DEF Mode
    <2>4. 1..Len(t) = {1, 2}
      BY <2>2
    <2> QED
      BY <1>2, <1>3, <2>2, <2>3, <2>4 DEF Mode
  <1>4. CASE s.mode # "none"
    <2>1. t = <<Touch(s.mode, s.set)>> /\ s.mode \in Mode
      BY <1>1, <1>4 DEF Faces
    <2>2. Len(t) = 1 /\ t[1] = Touch(s.mode, s.set)
      BY <2>1
    <2>3. t \in Seq(StepType)
      BY <1>2, <2>1
    <2>4. 1..Len(t) = {1}
      BY <2>2
    <2>5. t[1].do = "touch" /\ t[1].mode = s.mode /\ t[1].set = s.set
      BY <1>2, <2>1, <2>2
    <2>6. \A m \in Mode : s.mode \in {m, "none"} => t[1] = Touch(m, s.set)
      BY <1>4, <2>2
    <2> QED
      BY <2>1, <2>3, <2>4, <2>5, <2>6, Zenon
  <1> QED
    BY <1>3, <1>4

LEMMA ResetPlan ==
  ASSUME TypeOK, PlanOK, Reset
  PROVE  LET s == op.todo[1] IN
         /\ op'.vessel = WebVessel /\ s \in StepType /\ s.set \in Resets
         /\ (IF s.mode = "none" THEN s.set = "fresh" ELSE s.set = "forget")
         /\ OnlyChanges({"todo", "vessel"})
         /\ \A i \in Steps' :
               \/ op'.todo[i].do = "unbind"
               \/ /\ WebVessel # Legacy
                  /\ op'.todo[i].do = "touch" /\ op'.todo[i].mode \in Mode /\ op'.todo[i].set = s.set
                  /\ s.mode \in {op'.todo[i].mode, "none"}
         /\ WebVessel # Legacy => \A m \in Mode : s.mode \in {m, "none"} =>
               \E i \in Steps' : op'.todo[i] = Touch(m, s.set)
  <1> DEFINE s == op.todo[1]
             t == Faces(s)
  <1>1. s \in StepType /\ s.do = "reset" /\ Rest \in Seq(StepType) /\ op.todo # <<>> /\ 1 \in Steps
    BY AtStep DEF Reset
  <1>2. IF s.mode = "none" THEN s.set = "fresh" ELSE s.set = "forget"
    BY <1>1 DEF PlanOK
  <1>3. s.set \in Resets
    BY <1>2 DEF Resets
  <1>4. /\ OnlyChanges({"todo", "vessel"}) /\ op'.vessel = WebVessel
        /\ WebVessel = Legacy => op'.todo = Rest
        /\ WebVessel # Legacy => op'.todo = Cat(t, Rest)
    BY ResetDoes DEF Cat
  <1>5. /\ t \in Seq(StepType)
        /\ \A i \in 1..Len(t) : /\ t[i].do = "touch" /\ t[i].mode \in Mode /\ t[i].set = s.set
                                /\ s.mode \in {t[i].mode, "none"}
        /\ \A m \in Mode : s.mode \in {m, "none"} => \E i \in 1..Len(t) : t[i] = Touch(m, s.set)
    <2> HIDE DEF s, t
    <2>1. t = Faces(s)
      BY DEF t
    <2>2. s \in StepType
      BY <1>1
    <2> QED
      BY <2>1, <2>2, FacesAre, Zenon
  <1>6. \A i \in 1..Len(Rest) : Rest[i].do = "unbind"
    <2> SUFFICES ASSUME NEW i \in 1..Len(Rest) PROVE Rest[i].do = "unbind"
      OBVIOUS
    <2>1. i + 1 \in Steps /\ Rest[i] = op.todo[i + 1] /\ i + 1 > 1
      BY <1>1, OpTyped, Rests DEF Rest, Steps
    <2> QED
      BY <1>1, <2>1 DEF PlanOK
  <1> HIDE DEF s, t
  <1>7. CASE WebVessel = Legacy
    BY <1>1, <1>2, <1>3, <1>4, <1>6, <1>7 DEF Steps, s
  <1>8. CASE WebVessel # Legacy
    <2>1. /\ Len(Cat(t, Rest)) = Len(t) + Len(Rest) /\ Len(t) \in Nat /\ Len(Rest) \in Nat
          /\ \A i \in 1..Len(t) : Cat(t, Rest)[i] = t[i]
      BY <1>1, <1>5, JoinedParts, Zenon
    <2>2. op'.todo = Cat(t, Rest) /\ Steps' = 1..Len(Cat(t, Rest))
      BY <1>4, <1>8 DEF Steps
    <2>3. ASSUME NEW i \in Steps'
          PROVE  \/ op'.todo[i].do = "unbind"
                 \/ /\ op'.todo[i].do = "touch" /\ op'.todo[i].mode \in Mode /\ op'.todo[i].set = s.set
                    /\ s.mode \in {op'.todo[i].mode, "none"}
      <3>1. \/ i \in 1..Len(t) /\ op'.todo[i] = t[i]
            \/ i - Len(t) \in 1..Len(Rest) /\ op'.todo[i] = Rest[i - Len(t)]
        BY <1>1, <1>5, <2>2, Joined, Zenon
      <3> QED
        BY <1>5, <1>6, <3>1
    <2>4. ASSUME NEW m \in Mode, s.mode \in {m, "none"}
          PROVE  \E i \in Steps' : op'.todo[i] = Touch(m, s.set)
      <3>1. PICK i \in 1..Len(t) : t[i] = Touch(m, s.set)
        BY <1>5, <2>4
      <3>2. i \in Steps'
        BY <2>1, <2>2
      <3>3. op'.todo[i] = t[i]
        BY <2>1, <2>2
      <3> QED
        BY <3>1, <3>2, <3>3
    <2> QED
      BY <1>1, <1>2, <1>3, <1>4, <1>8, <2>3, <2>4 DEF s
  <1> QED
    BY <1>7, <1>8

LEMMA SelectPlanOK ==
  ASSUME TypeOK, PlanOK, Select
  PROVE  PlanOK'
  <1>1. CASE GivesUp
    BY <1>1, NoPlan DEF GivesUp
  <1>2. CASE /\ op'.mode \in Mode
             /\ op'.todo \in {<<Do("capture"), Do("target"), Do("read")>>, <<Do("target"), Do("read")>>}
    <2> DEFINE t == op'.todo
    <2>1. /\ t \in Seq(StepType)
          /\ \/ 1..Len(t) = {1, 2, 3} /\ t[1].do = "capture" /\ t[2].do = "target" /\ t[3].do = "read"
             \/ 1..Len(t) = {1, 2} /\ t[1].do = "target" /\ t[2].do = "read"
      BY <1>2, SelectPlan
    <2> HIDE DEF t
    <2>2. op'.todo = t
      BY DEF t
    <2> QED
      BY <1>2, <2>1, <2>2, PlanPlaced DEF ResetForm
  <1> QED
    BY <1>1, <1>2, SelectDoes

LEMMA OpenPlanOK ==
  ASSUME TypeOK, PlanOK, Open
  PROVE  PlanOK'
  <1> DEFINE m == op.first
             n == OtherMode(m)
             t == op'.todo
  <1>1. m \in Mode /\ n \in Mode /\ op'.kind = "retrieve" /\ op'.first = m
    <2>1. 1 \in Steps /\ op.todo[1].do = "open"
      BY AtStep DEF Open
    <2>2. op.kind = "retrieve"
      BY <2>1 DEF PlanOK
    <2> QED
      BY <2>2, OpenDoes, Others DEF OnlyChanges, GivesUp
  <1>2. CASE GivesUp
    BY <1>2, NoPlan DEF GivesUp
  <1>3. CASE t = <<Do("verify")>>
    <2>1. t \in Seq(StepType) /\ 1..Len(t) = {1} /\ t[1].do = "verify"
      BY <1>3, VerifyPlan
    <2> QED
      BY <1>1, <2>1, PlanPlaced DEF ResetForm
  <1>4. CASE op'.vessel # Legacy /\ t = CountAndClear(m)
    <2>1. /\ t \in Seq(StepType) /\ t[1].do = "touch" /\ t[1].mode = m
          /\ \/ 1..Len(t) = {1}
             \/ 1..Len(t) = {1, 2, 3, 4} /\ ClearsFrom(t, 1, n)
      BY <1>1, <1>4, CountThenClears
    <2>2. ClearsFrom(t, 1, n) =>
            /\ t[2].do = "container" /\ t[3].do = "purge" /\ t[3].mode = n
            /\ t[4].do = "reset" /\ t[4].mode = n /\ t[4].set = "forget"
      BY DEF ClearsFrom
    <2>3. n # "none"
      BY <1>1 DEF Mode
    <2> HIDE DEF t, n, m
    <2>4. op'.todo = t
      BY DEF t
    <2> QED
      BY <1>1, <1>4, <2>1, <2>2, <2>3, <2>4, PlanPlaced DEF ResetForm, BeforeIn, Finds
  <1>5. CASE t = MaybeAutoPurge(m)
    <2>1. /\ t \in Seq(StepType)
          /\ \/ 1..Len(t) = {}
             \/ 1..Len(t) = {1, 2, 3} /\ ClearsFrom(t, 0, n)
      BY <1>1, <1>5, MaybeClears
    <2>2. ClearsFrom(t, 0, n) =>
            /\ t[1].do = "container" /\ t[2].do = "purge" /\ t[2].mode = n
            /\ t[3].do = "reset" /\ t[3].mode = n /\ t[3].set = "forget"
      BY DEF ClearsFrom
    <2>3. n # "none"
      BY <1>1 DEF Mode
    <2> HIDE DEF t, n, m
    <2>4. op'.todo = t
      BY DEF t
    <2> QED
      BY <1>1, <2>1, <2>2, <2>3, <2>4, PlanPlaced DEF ResetForm, BeforeIn, Finds
  <1>6. CASE t = ClearAccessed(m)
    <2>1. /\ t \in Seq(StepType) /\ 1..Len(t) = {1, 2, 3}
          /\ t[1].do = "container" /\ t[2].do = "purge" /\ t[2].mode = m
          /\ t[3].do = "reset" /\ t[3].mode = m /\ t[3].set = "forget"
      BY <1>1, <1>6, ClearIs DEF ClearAccessed
    <2>2. m # "none"
      BY <1>1 DEF Mode
    <2> HIDE DEF t, m
    <2>3. op'.todo = t
      BY DEF t
    <2> QED
      BY <1>1, <2>1, <2>2, <2>3, PlanPlaced DEF ResetForm, BeforeIn, Finds
  <1>7. \/ GivesUp
        \/ t = <<Do("verify")>>
        \/ op'.vessel # Legacy /\ t = CountAndClear(m)
        \/ t = MaybeAutoPurge(m)
        \/ t = ClearAccessed(m)
    <2>1. op'.vessel = op.vessel
      BY OpenDoes DEF OnlyChanges, GivesUp
    <2>2. \/ GivesUp
          \/ t = <<Do("verify")>>
          \/ op.vessel # Legacy /\ t = CountAndClear(m)
          \/ t = MaybeAutoPurge(m)
          \/ t = ClearAccessed(m)
      BY OpenDoes, Zenon DEF CountAndClear
    <2> QED
      BY <2>1, <2>2, Zenon
  <1> QED
    BY <1>2, <1>3, <1>4, <1>5, <1>6, <1>7

LEMMA VerifyPlanOK ==
  ASSUME TypeOK, PlanOK, Verify
  PROVE  PlanOK'
  <1>1. CASE GivesUp
    BY <1>1, NoPlan DEF GivesUp
  <1>2. CASE ~GivesUp
    <2>1. PICK m \in Mode :
              /\ op.vessel # Legacy /\ OnlyChanges({"todo", "at"})
              /\ op'.todo = DestroySteps(m)
      BY <1>2, VerifyDoes, Zenon DEF DestroySteps
    <2> DEFINE t == op'.todo
    <2>2. /\ t \in Seq(StepType) /\ 1..Len(t) = {1, 2}
          /\ t[1].do = "purge" /\ t[1].mode = m
          /\ t[2].do = "touch" /\ t[2].mode = m
      BY <2>1, DestroyPlan
    <2>3. op'.vessel # Legacy
      BY <2>1 DEF OnlyChanges
    <2> HIDE DEF t
    <2>4. op'.todo = t
      BY DEF t
    <2> QED
      BY <2>2, <2>3, <2>4, PlanPlaced DEF ResetForm, BeforeIn, Finds
  <1> QED
    BY <1>1, <1>2

LEMMA ReadPlanOK ==
  ASSUME TypeOK, PlanOK, Read
  PROVE  PlanOK'
  <1>1. CASE op'.todo = <<>>
    BY <1>1, NoPlan
  <1>2. CASE op'.todo # <<>>
    <2>1. /\ op.vessel # Legacy /\ op'.todo = StoreInto(op.mode, op.arm)
          /\ OnlyChanges({"todo", "files", "used"}) /\ op.mode \in Mode
      BY <1>2, ReadDoes DEF GivesUp
    <2> DEFINE m == op.mode
               t == op'.todo
    <2>2. op.arm \in Pass \union {"none"}
      BY OpTyped DEF IsBody
    <2>3. /\ t \in Seq(StepType)
          /\ \/ /\ 1..Len(t) = {1, 2, 3} /\ t[1].do = "write"
                /\ t[2] = Touch(m, "count") /\ t[3] = Touch(m, "creds")
             \/ /\ 1..Len(t) = {1, 2, 3, 4} /\ t[1] = Touch(m, "armed") /\ t[2].do = "write"
                /\ t[3] = Touch(m, "count") /\ t[4] = Touch(m, "creds")
      BY <2>1, <2>2, StorePlan
    <2>4. \A x : Touch(m, x).do = "touch" /\ Touch(m, x).mode = m
      BY StepFields
    <2>5. op'.vessel # Legacy /\ op'.mode \in Mode /\ m \in Mode
      BY <2>1 DEF OnlyChanges
    <2> HIDE DEF t, m
    <2>6. op'.todo = t
      BY DEF t
    <2> QED
      BY <2>3, <2>4, <2>5, <2>6, PlanPlaced DEF ResetForm, BeforeIn, Finds
  <1> QED
    BY <1>1, <1>2

LEMMA ResetPlanOK ==
  ASSUME TypeOK, PlanOK, Reset
  PROVE  PlanOK'
  <1>1. \A i \in Steps' :
               \/ op'.todo[i].do = "unbind"
               \/ op'.vessel # Legacy /\ op'.todo[i].do = "touch" /\ op'.todo[i].mode \in Mode
    BY ResetPlan
  <1>2. \A i : ~Before(i, Finds)'
    BY <1>1 DEF Before, Finds
  <1> QED
    BY <1>1, <1>2 DEF PlanOK

(* The steps that are done and leave the rest of the plan as it is *)
LEMMA StepDonePlanOK ==
  ASSUME TypeOK, PlanOK,
         Look \/ LookAgain \/ Target \/ FindContainer \/ Pick \/ Capture \/ Purge \/ WipeContainer
              \/ Unbind \/ Write
  PROVE  PlanOK'
  <1>1. CASE Look
    BY <1>1, LookDoes, Heads, NoPlan, PlanShifts DEF GivesUp, OnlyChanges
  <1>2. CASE LookAgain
    BY <1>2, LookAgainDoes, Heads, NoPlan, PlanShifts DEF GivesUp, OnlyChanges
  <1>3. CASE Target
    BY <1>3, TargetDoes, Heads, PlanShifts DEF OnlyChanges, Finds
  <1>4. CASE FindContainer
    BY <1>4, FindContainerDoes, Heads, PlanShifts DEF OnlyChanges
  <1>5. CASE Pick
    BY <1>5, PickDoes, Heads, NoPlan, PlanShifts DEF GivesUp, OnlyChanges
  <1>6. CASE Capture
    BY <1>6, CaptureDoes, Heads, NoPlan, PlanShifts DEF GivesUp, OnlyChanges
  <1>7. CASE Purge
    BY <1>7, PurgeDoes, Heads, PlanShifts DEF OnlyChanges
  <1>8. CASE WipeContainer
    BY <1>8, WipeContainerDoes, Heads, PlanShifts DEF OnlyChanges
  <1>9. CASE Unbind
    BY <1>9, UnbindDoes, Heads, PlanShifts DEF OnlyChanges
  <1>10. CASE Write
    BY <1>10, WriteDoes, Heads, NoPlan, PlanShifts DEF GivesUp, OnlyChanges
  <1> QED
    BY <1>1, <1>2, <1>3, <1>4, <1>5, <1>6, <1>7, <1>8, <1>9, <1>10

LEMMA SamePlanOK ==
  ASSUME PlanOK, op'.todo = op.todo, op'.kind = op.kind, op'.vessel = op.vessel,
         op'.first = op.first, op'.mode = op.mode
  PROVE  PlanOK'
  <1>1. Steps' = Steps /\ \A i, dos : Before(i, dos)' <=> Before(i, dos)
    BY DEF Steps, Before
  <1> QED
    BY <1>1 DEF PlanOK

LEMMA BodyPlanOK ==
  ASSUME TypeOK, PlanOK, Body
  PROVE  PlanOK'
  <1>1. CASE Load \/ Save
    BY <1>1, LoadDoes, SaveDoes, SamePlanOK DEF OnlyChanges
  <1>2. CASE Resave
    BY <1>2, ResaveDoes, PlanShifts DEF OnlyChanges
  <1> QED
    BY <1>1, <1>2, StepDonePlanOK, SelectPlanOK, OpenPlanOK, VerifyPlanOK, ReadPlanOK, ResetPlanOK
       DEF Body

LEMMA IdlePlan == Idle.todo = <<>> /\ Idle.round = 0 /\ Idle.used = {} /\ Idle.cleared = {} /\ Idle.result = "none"
  BY DEF Idle

LEMMA NextPlanOK ==
  ASSUME TypeOK, PlanOK, [Next]_vars
  PROVE  PlanOK'
  <1>1. CASE BeginStep
    BY <1>1, BeginDoes, PlanBegins
  <1>2. CASE Body
    BY <1>2, BodyPlanOK
  <1>3. CASE ConsoleStep
    BY <1>3, ConsoleDoes, IdlePlan, NoPlan, SamePlanOK
  <1>4. CASE UNCHANGED vars
    BY <1>4, SamePlanOK DEF vars
  <1> QED
    BY <1>1, <1>2, <1>3, <1>4, NextCases

LEMMA NextRoundOK ==
  ASSUME TypeOK, PlanOK, RoundOK, [Next]_vars
  PROVE  RoundOK'
  <1>1. CASE BeginStep
    BY <1>1, BeginDoes, PlanBegins
  <1>2. CASE Quiet
    <2>1. op.todo # <<>> /\ op.todo[1].do # "touch"
      BY <1>2, Heads DEF Quiet
    <2> QED
      BY <1>2, <2>1, QuietTyped DEF RoundOK
  <1>3. CASE Load \/ Save
    BY <1>3, LoadDoes, SaveDoes DEF OnlyChanges, RoundOK
  <1>4. CASE Resave
    BY <1>4, ResaveDoes DEF RoundOK
  <1>5. CASE ConsoleStep
    BY <1>5, ConsoleDoes, IdlePlan DEF RoundOK
  <1>6. CASE UNCHANGED vars
    BY <1>6 DEF vars, RoundOK
  <1> QED
    BY <1>1, <1>2, <1>3, <1>4, <1>5, <1>6, NextCases, Zenon DEF Body, Quiet

LEMMA InitPlan ==
  ASSUME Init
  PROVE  op.todo = <<>> /\ Steps = {} /\ op.round = 0 /\ op.used = {} /\ op.cleared = {} /\ op.result = "none"
  <1>1. op.todo = <<>> /\ op.round = 0 /\ op.used = {} /\ op.cleared = {} /\ op.result = "none"
    BY IdlePlan DEF Init
  <1> QED
    BY <1>1, EmptySeq DEF Steps

(* Every variable keeps its type (services/web_target_service.py,          *)
(* services/vessel_service.py): the registry lists only Vessels, each with *)
(* a record of both Faces, and the body's plan consists of known steps.    *)
THEOREM TypeCorrect == Spec => []TypeOK
  <1>1. Init => TypeOK /\ PlanOK
    BY InitTyped, InitPlan DEF PlanOK
  <1>2. TypeOK /\ PlanOK /\ [Next]_vars => (TypeOK /\ PlanOK)'
    BY NextTyped, NextPlanOK
  <1> QED
    BY <1>1, <1>2, PTL DEF Spec

-----------------------------------------------------------------------------
(* One container *)

LEMMA AtHandSame ==
  ASSUME TypeOK, SameInv, ~moved, op.todo # <<>>
  PROVE  /\ op.todo[1].do \in UsesVessel => op.vessel = WebVessel
         /\ op.todo[1].do \in Clears => op.at = WebVessel
  <1>1. 1 \in Steps
    BY OpTyped, Rests DEF Steps
  <1>2. \A dos : ~Before(1, dos)
    BY DEF Before, Steps
  <1> QED
    BY <1>1, <1>2 DEF SameInv

(* One step of the plan is done. *)
LEMMA SameShifts ==
  ASSUME TypeOK, SameInv, ~moved, op.todo # <<>>, op'.todo = Rest,
         op'.used \subseteq op.used \union {WebVessel},
         op'.vessel = op.vessel \/ op'.vessel = WebVessel,
         op'.vessel = op.vessel => op.todo[1].do \notin Finds \/ op'.vessel = WebVessel,
         op'.at = op.at \/ op'.at = WebVessel,
         op'.at = op.at => op.todo[1].do # "container" \/ op'.at = WebVessel,
         WebVessel' = WebVessel,
         op'.round \in {1, 3} => MostRecent(snap, exists)' = WebVessel
  PROVE  SameInv'
  <1>1. op'.used \subseteq {WebVessel}'
    BY DEF SameInv
  <1>2. ASSUME NEW i \in Steps', op'.todo[i].do \in UsesVessel, ~Before(i, Finds)'
        PROVE  op'.vessel = WebVessel
    <2>1. i + 1 \in Steps /\ op.todo[i + 1].do \in UsesVessel
      BY <1>2, Shifts
    <2>2. Before(i + 1, Finds) => op.todo[1].do \in Finds
      BY <1>2, Shifts
    <2> QED
      BY <2>1, <2>2 DEF SameInv
  <1>3. ASSUME NEW i \in Steps', op'.todo[i].do \in Clears, ~Before(i, {"container"})'
        PROVE  op'.at = WebVessel
    <2>1. i + 1 \in Steps /\ op.todo[i + 1].do \in Clears
      BY <1>3, Shifts
    <2>2. Before(i + 1, {"container"}) => op.todo[1].do = "container"
      BY <1>3, Shifts
    <2> QED
      BY <2>1, <2>2 DEF SameInv
  <1> QED
    BY <1>1, <1>2, <1>3 DEF SameInv

LEMMA SamePlaced ==
  ASSUME op'.used \subseteq {WebVessel},
         \A i \in Steps' : op'.todo[i].do \in UsesVessel => op'.vessel = WebVessel \/ Before(i, Finds)',
         \A i \in Steps' : op'.todo[i].do \in Clears => op'.at = WebVessel \/ Before(i, {"container"})',
         WebVessel' = WebVessel,
         op'.round \in {1, 3} => MostRecent(snap, exists)' = WebVessel
  PROVE  SameInv'
  BY DEF SameInv

LEMMA SameNothing ==
  ASSUME op'.used \subseteq {WebVessel}, op'.todo = <<>>,
         WebVessel' = WebVessel,
         op'.round \in {1, 3} => MostRecent(snap, exists)' = WebVessel
  PROVE  SameInv'
  BY NothingLeft DEF SameInv

(* The registry stands still in between. *)
LEMMA QuietRecent ==
  ASSUME TypeOK, PlanOK, SameInv, ~moved, Quiet, Body
  PROVE  /\ WebVessel' = WebVessel
         /\ op'.round \in {1, 3} => MostRecent(snap, exists)' = WebVessel
         /\ op.used \subseteq {WebVessel}
         /\ op.todo # <<>>
  <1>1. reg' = reg /\ snap' = snap /\ exists' = exists /\ op'.round = op.round /\ op.todo # <<>>
    BY QuietKeeps, QuietTyped DEF Body
  <1> QED
    BY <1>1 DEF SameInv, WebVessel

LEMMA QuietSame ==
  ASSUME TypeOK, PlanOK, SameInv, ~moved, Quiet, Body
  PROVE  SameInv'
  <1>1. /\ WebVessel' = WebVessel
        /\ op'.round \in {1, 3} => MostRecent(snap, exists)' = WebVessel
        /\ op.used \subseteq {WebVessel}
        /\ op.todo # <<>>
    BY QuietRecent
  <1>2. /\ op.todo[1].do \in UsesVessel => op.vessel = WebVessel
        /\ op.todo[1].do \in Clears => op.at = WebVessel
    BY <1>1, AtHandSame
  <1>3. GivesUp => SameInv'
    BY <1>1, SameNothing DEF GivesUp, OnlyChanges
  <1>4. CASE Look
    BY <1>1, <1>3, <1>4, LookDoes, Heads, SameShifts DEF OnlyChanges, Finds
  <1>5. CASE LookAgain
    BY <1>1, <1>3, <1>5, LookAgainDoes, Heads, SameShifts DEF OnlyChanges, Finds
  <1>6. CASE Target
    BY <1>1, <1>6, TargetDoes, Heads, SameShifts DEF OnlyChanges
  <1>7. CASE FindContainer
    BY <1>1, <1>7, FindContainerDoes, Heads, SameShifts DEF OnlyChanges, Finds
  <1>8. CASE Pick
    BY <1>1, <1>3, <1>8, PickDoes, Heads, SameShifts DEF OnlyChanges, Finds
  <1>9. CASE Capture
    BY <1>1, <1>3, <1>9, CaptureDoes, Heads, SameShifts DEF OnlyChanges, Finds
  <1>10. CASE Purge
    BY <1>1, <1>2, <1>10, PurgeDoes, Heads, SameShifts DEF OnlyChanges, Finds, Clears
  <1>11. CASE WipeContainer
    BY <1>1, <1>2, <1>11, WipeContainerDoes, Heads, SameShifts DEF OnlyChanges, Finds, Clears
  <1>12. CASE Unbind
    BY <1>1, <1>12, UnbindDoes, Heads, SameShifts DEF OnlyChanges, Finds
  <1>13. CASE Write
    BY <1>1, <1>3, <1>13, WriteDoes, Heads, SameShifts DEF OnlyChanges, Finds
  <1>14. CASE Reset
    <2>1. /\ op'.vessel = WebVessel /\ OnlyChanges({"todo", "vessel"})
          /\ \A i \in Steps' : op'.todo[i].do \in {"unbind", "touch"}
      BY <1>14, ResetPlan
    <2> QED
      BY <1>1, <2>1, SamePlaced DEF OnlyChanges, Clears
  <1>15. CASE Select
    <2>1. CASE /\ OnlyChanges({"todo", "mode", "first"})
               /\ op'.todo \in {<<Do("capture"), Do("target"), Do("read")>>, <<Do("target"), Do("read")>>}
      <3> DEFINE t == op'.todo
      <3>1. \/ 1..Len(t) = {1, 2, 3} /\ t[1].do = "capture" /\ t[2].do = "target" /\ t[3].do = "read"
            \/ 1..Len(t) = {1, 2} /\ t[1].do = "target" /\ t[2].do = "read"
        BY <2>1, SelectPlan
      <3>2. op'.used \subseteq {WebVessel}
        BY <1>1, <2>1 DEF OnlyChanges
      <3>3. Steps' = 1..Len(t) /\ op'.todo = t
        BY DEF Steps
      <3> HIDE DEF t
      <3>4. \A i \in Steps' : op'.todo[i].do \in UsesVessel => Before(i, Finds)'
        BY <3>1, <3>3 DEF Before, UsesVessel, Finds
      <3>5. \A i \in Steps' : op'.todo[i].do \notin Clears
        BY <3>1, <3>3 DEF Clears
      <3> QED
        BY <1>1, <3>2, <3>4, <3>5, SamePlaced
    <2> QED
      BY <1>3, <1>15, <2>1, SelectDoes
  <1>16. CASE Open
    <2> DEFINE m == op.first
               n == OtherMode(m)
               t == op'.todo
    <2>1. op.vessel = WebVessel
      BY <1>2, <1>16, Heads DEF UsesVessel
    <2>2. op'.used \subseteq {WebVessel} /\ op'.vessel = WebVessel
      BY <1>1, <1>16, <2>1, OpenDoes DEF OnlyChanges, GivesUp
    <2>3. /\ m \in Mode
          /\ \/ t = <<>>
             \/ t = <<Do("verify")>>
             \/ t = CountAndClear(m)
             \/ t = MaybeAutoPurge(m)
             \/ t = ClearAccessed(m)
      BY <1>16, OpenDoes, Zenon DEF CountAndClear, GivesUp
    <2>4. Steps' = 1..Len(t) /\ op'.todo = t
      BY DEF Steps
    <2>5. CASE t = <<>>
      BY <1>1, <2>2, <2>5, SameNothing
    <2>6. CASE t = <<Do("verify")>>
      <3>1. 1..Len(t) = {1} /\ t[1].do = "verify"
        BY <2>6, VerifyPlan
      <3> HIDE DEF t
      <3> QED
        BY <1>1, <2>2, <2>4, <3>1, SamePlaced DEF Clears
    <2>7. CASE t = CountAndClear(m)
      <3>1. /\ t[1].do = "touch"
            /\ \/ 1..Len(t) = {1}
               \/ 1..Len(t) = {1, 2, 3, 4} /\ ClearsFrom(t, 1, n)
        BY <2>3, <2>7, CountThenClears
      <3>2. ClearsFrom(t, 1, n) => t[2].do = "container" /\ t[4].do = "reset"
        BY DEF ClearsFrom
      <3> HIDE DEF t, n, m
      <3>3. \A i \in Steps' : op'.todo[i].do \in Clears => Before(i, {"container"})'
        BY <2>4, <3>1, <3>2 DEF Before, Clears
      <3> QED
        BY <1>1, <2>2, <3>3, SamePlaced
    <2>8. CASE t = MaybeAutoPurge(m)
      <3>1. \/ 1..Len(t) = {}
            \/ 1..Len(t) = {1, 2, 3} /\ ClearsFrom(t, 0, n)
        BY <2>3, <2>8, MaybeClears
      <3>2. ClearsFrom(t, 0, n) => t[1].do = "container" /\ t[3].do = "reset"
        BY DEF ClearsFrom
      <3> HIDE DEF t, n, m
      <3>3. \A i \in Steps' : op'.todo[i].do \in Clears => Before(i, {"container"})'
        BY <2>4, <3>1, <3>2 DEF Before, Clears
      <3> QED
        BY <1>1, <2>2, <3>3, SamePlaced
    <2>9. CASE t = ClearAccessed(m)
      <3>1. 1..Len(t) = {1, 2, 3} /\ t[1].do = "container" /\ t[3].do = "reset"
        BY <2>3, <2>9, ClearIs DEF ClearAccessed
      <3> HIDE DEF t, m
      <3>3. \A i \in Steps' : op'.todo[i].do \in Clears => Before(i, {"container"})'
        BY <2>4, <3>1 DEF Before, Clears
      <3> QED
        BY <1>1, <2>2, <3>3, SamePlaced
    <2> QED
      BY <2>3, <2>5, <2>6, <2>7, <2>8, <2>9
  <1>17. CASE Verify
    <2>1. CASE ~GivesUp
      <3>1. PICK m \in Mode :
                /\ OnlyChanges({"todo", "at"}) /\ op'.at = op.vessel
                /\ op'.todo = DestroySteps(m)
        BY <1>17, <2>1, VerifyDoes, Zenon DEF DestroySteps
      <3>2. op.vessel = WebVessel
        BY <1>2, <1>17, Heads DEF UsesVessel
      <3> QED
        BY <1>1, <3>1, <3>2, SamePlaced DEF OnlyChanges
    <2> QED
      BY <1>3, <2>1
  <1>18. CASE Read
    <2>1. op.vessel = WebVessel
      BY <1>2, <1>18, Heads DEF UsesVessel
    <2>2. op'.used \subseteq {WebVessel} /\ op'.vessel = WebVessel
      BY <1>1, <1>18, <2>1, ReadDoes DEF OnlyChanges, GivesUp
    <2>3. CASE op'.todo = <<>>
      BY <1>1, <2>2, <2>3, SameNothing
    <2>4. CASE op'.todo # <<>>
      <3> DEFINE m == op.mode
                 t == op'.todo
      <3>1. m \in Mode /\ t = StoreInto(m, op.arm) /\ op.arm \in Pass \union {"none"}
        BY <1>18, <2>4, ReadDoes, OpTyped DEF GivesUp, IsBody
      <3>2. \/ /\ 1..Len(t) = {1, 2, 3} /\ t[1].do = "write"
               /\ t[2] = Touch(m, "count") /\ t[3] = Touch(m, "creds")
            \/ /\ 1..Len(t) = {1, 2, 3, 4} /\ t[1] = Touch(m, "armed") /\ t[2].do = "write"
               /\ t[3] = Touch(m, "count") /\ t[4] = Touch(m, "creds")
        BY <3>1, StorePlan
      <3>3. \A x : Touch(m, x).do = "touch"
        BY StepFields
      <3>4. Steps' = 1..Len(t) /\ op'.todo = t
        BY DEF Steps
      <3> HIDE DEF t, m
      <3>5. \A i \in Steps' : op'.todo[i].do \notin Clears
        BY <3>2, <3>3, <3>4 DEF Clears
      <3> QED
        BY <1>1, <2>2, <3>5, SamePlaced
    <2> QED
      BY <2>3, <2>4
  <1> QED
    BY <1>4, <1>5, <1>6, <1>7, <1>8, <1>9, <1>10, <1>11, <1>12, <1>13, <1>14, <1>15, <1>16, <1>17, <1>18
       DEF Quiet

(* While the console leaves it alone, the copy that a touch writes back    *)
(* already lists the Vessel that is touched.                               *)
LEMMA CopyLists ==
  ASSUME TypeOK, PlanOK, SameInv, ~moved, At("touch"), op.round \in {1, 3}
  PROVE  /\ op.vessel = WebVessel /\ op.vessel \in DOMAIN snap /\ op.vessel \in Vessel
         /\ MostRecent(snap, exists) = WebVessel
         /\ WithVessel(snap, op.vessel) = snap
  <1>1. op.todo # <<>> /\ op.todo[1].do = "touch" /\ op.vessel # Legacy
    BY AtStep, AtHand
  <1>2. op.vessel = WebVessel /\ MostRecent(snap, exists) = WebVessel
    BY <1>1, AtHandSame DEF SameInv, UsesVessel
  <1>3. op.vessel \in DOMAIN snap /\ op.vessel \in Vessel /\ IsRegistry(snap)
    BY <1>1, <1>2, MostRecentKnown DEF TypeOK, IsRegistry
  <1> QED
    BY <1>2, <1>3, WithVesselTyped

LEMMA SameStill ==
  ASSUME SameInv, ~moved, op'.todo = op.todo, op'.vessel = op.vessel, op'.at = op.at,
         op'.used = op.used, WebVessel' = WebVessel,
         op'.round \in {1, 3} => MostRecent(snap, exists)' = WebVessel
  PROVE  SameInv'
  <1>1. Steps' = Steps /\ \A i, dos : Before(i, dos)' <=> Before(i, dos)
    BY DEF Steps, Before
  <1> QED
    BY <1>1 DEF SameInv

LEMMA TouchSame ==
  ASSUME TypeOK, PlanOK, SameInv, ~moved, Load \/ Save \/ Resave, Body
  PROVE  SameInv'
  <1>1. exists' = exists
    BY DEF Body
  <1>2. CASE Load
    <2>1. WebVessel' = WebVessel /\ MostRecent(snap, exists)' = WebVessel
      BY <1>1, <1>2, LoadDoes DEF WebVessel
    <2> QED
      BY <1>2, <2>1, LoadDoes, SameStill DEF OnlyChanges
  <1>3. CASE Save
    <2>1. At("touch") /\ op.round = 1
      BY <1>3 DEF Save
    <2>2. reg' = snap /\ MostRecent(snap, exists) = WebVessel
      BY <1>3, <2>1, CopyLists, SaveDoes
    <2>3. WebVessel' = WebVessel
      BY <1>1, <2>2 DEF WebVessel
    <2> QED
      BY <1>3, <2>3, SaveDoes, SameStill DEF OnlyChanges
  <1>4. CASE Resave
    <2> DEFINE v == op.vessel
    <2>1. At("touch") /\ op.round = 3
      BY <1>4 DEF Resave
    <2>2. /\ v = WebVessel /\ v \in DOMAIN snap /\ MostRecent(snap, exists) = WebVessel
          /\ WithVessel(snap, v) = snap
      BY <2>1, CopyLists
    <2>3. /\ OnlyChanges({"face", "round", "todo", "used"})
          /\ op'.todo = Rest /\ op'.round = 0 /\ op'.used = op.used \union {v}
          /\ op.todo # <<>> /\ op.todo[1].do = "touch"
      BY <1>4, ResaveDoes
    <2>4. /\ IsRegistry(reg') /\ DOMAIN reg' = DOMAIN snap \union {v}
          /\ \A u \in DOMAIN reg' : reg'[u].opened = WithVessel(snap, v)[u].opened
      BY <1>4, ResaveDoes
    <2>5. MostRecent(reg', exists) = MostRecent(snap, exists)
      <3>1. DOMAIN reg' = DOMAIN snap /\ \A u \in DOMAIN reg' : reg'[u].opened = snap[u].opened
        BY <2>2, <2>4
      <3>2. IsRegistry(snap)
        BY DEF TypeOK
      <3> QED
        BY <2>4, <3>1, <3>2, SameRecent
    <2>6. WebVessel' = WebVessel
      BY <1>1, <2>2, <2>5 DEF WebVessel
    <2>7. /\ op'.used \subseteq op.used \union {WebVessel} /\ op'.vessel = op.vessel /\ op'.at = op.at
          /\ op.todo[1].do \notin Finds /\ op.todo[1].do # "container"
      BY <2>2, <2>3 DEF OnlyChanges, Finds
    <2> QED
      BY <2>3, <2>6, <2>7, SameShifts
  <1> QED
    BY <1>2, <1>3, <1>4

LEMMA NextSame ==
  ASSUME TypeOK, PlanOK, SameInv, [Next]_vars
  PROVE  SameInv'
  <1>1. CASE BeginStep
    <2>1. PICK t, k : Started(t, k)
      BY <1>1, BeginDoes
    <2>2. /\ Steps' = 1..Len(t) /\ op'.todo = t /\ op'.round = 0 /\ op'.used = {}
          /\ \A i, dos : Before(i, dos)' <=> BeforeIn(t, i, dos)
      BY <2>1 DEF Started, Steps, Before, BeforeIn
    <2> QED
      BY <2>1, <2>2 DEF Started, Opens, SameInv
  <1>2. CASE Body
    <2>1. moved' = moved
      BY <1>2 DEF Body, history
    <2>2. CASE moved
      BY <2>1, <2>2 DEF SameInv
    <2>3. CASE ~moved
      BY <1>2, <2>3, QuietSame, TouchSame DEF Body, Quiet
    <2> QED
      BY <2>2, <2>3
  <1>3. CASE ConsoleStep
    <2>1. CASE op.todo = <<>>
      BY <1>3, <2>1, ConsoleDoes, IdlePlan, NothingLeft DEF SameInv
    <2>2. CASE op.todo # <<>> /\ (moved \/ Moves)
      BY <1>3, <2>2, ConsoleDoes DEF SameInv
    <2>3. CASE op.todo # <<>> /\ ~moved /\ ~Moves
      <3>1. op' = op /\ snap' = snap
        BY <1>3, <2>3, ConsoleDoes
      <3>2. WebVessel' = WebVessel /\ MostRecent(snap, exists)' = MostRecent(snap, exists)
        BY <2>3, <3>1 DEF Moves, WebVessel
      <3>3. op'.round \in {1, 3} => MostRecent(snap, exists)' = WebVessel
        BY <2>3, <3>1, <3>2 DEF SameInv
      <3> QED
        BY <2>3, <3>1, <3>2, <3>3, SameStill
    <2> QED
      BY <2>1, <2>2, <2>3
  <1>4. CASE UNCHANGED vars
    BY <1>4 DEF vars, history, SameInv, Steps, Before, WebVessel
  <1> QED
    BY <1>1, <1>2, <1>3, <1>4, NextCases

(* web_target_service.py 64-70: "Purge, clear and re-initialise have to    *)
(* reach the same container that store and retrieve use."  Unless the      *)
(* console changes meanwhile which Vessel is the WebUI's, every container  *)
(* that one body reads, fills, clears or corrects the records of is the    *)
(* one `WebVessel' names all along: every lookup it repeats answers the    *)
(* same, although its own saves rewrite the registry in between.           *)
THEOREM SameContainerHolds == Spec => []SameContainer
  <1>1. Init => TypeOK /\ PlanOK /\ SameInv
    BY InitTyped, InitPlan DEF PlanOK, SameInv
  <1>2. TypeOK /\ PlanOK /\ SameInv /\ [Next]_vars => (TypeOK /\ PlanOK /\ SameInv)'
    BY NextTyped, NextPlanOK, NextSame
  <1>3. SameInv => SameContainer
    <2> SUFFICES ASSUME SameInv, ~moved PROVE Cardinality(op.used) <= 1
      BY DEF SameContainer
    <2>1. op.used = {} \/ op.used = {WebVessel}
      BY DEF SameInv
    <2>2. Cardinality({}) = 0 /\ Cardinality({WebVessel}) = 1
      BY FS_EmptySet, FS_Singleton
    <2> QED
      BY <2>1, <2>2
  <1> QED
    BY <1>1, <1>2, <1>3, PTL DEF Spec

-----------------------------------------------------------------------------
(* Clearing comes last *)

(* A step that is not about forgetting comes before anything is cleared. *)
LEMMA NotYetCleared ==
  ASSUME TypeOK, ClearsLast, op.todo # <<>>, ~Settles(op.todo[1])
  PROVE  op.cleared = {}
  <1>1. 1 \in Steps
    BY OpTyped, Rests DEF Steps
  <1> QED
    BY <1>1 DEF ClearsLast

LEMMA ClearsShifts ==
  ASSUME TypeOK, ClearsLast, op.todo # <<>>, op'.todo = Rest,
         op'.cleared = op.cleared \/ op.todo[1].do \in Clears
  PROVE  ClearsLast'
  <1>1. ASSUME NEW i \in Steps', NEW j \in Steps', i < j, op'.todo[i].do \in Clears
        PROVE  Settles(op'.todo[j])
    <2>1. /\ i + 1 \in Steps /\ op.todo[i + 1].do \in Clears /\ i \in Nat /\ j \in Nat
          /\ j + 1 \in Steps /\ op'.todo[j] = op.todo[j + 1]
      BY <1>1, Shifts
    <2>2. i + 1 < j + 1
      BY <1>1, <2>1
    <2> QED
      BY <2>1, <2>2 DEF ClearsLast
  <1>2. ASSUME op'.cleared # {}, NEW j \in Steps'
        PROVE  Settles(op'.todo[j])
    <2>1. j + 1 \in Steps /\ 1 \in Steps /\ 1 < j + 1 /\ op'.todo[j] = op.todo[j + 1]
      BY <1>2, Shifts
    <2> QED
      BY <1>2, <2>1 DEF ClearsLast
  <1> QED
    BY <1>1, <1>2 DEF ClearsLast, Settles

LEMMA ClearsPlaced ==
  ASSUME op'.cleared = {},
         \A i, j \in Steps' : i < j /\ op'.todo[i].do \in Clears => Settles(op'.todo[j])
  PROVE  ClearsLast'
  BY DEF ClearsLast, Settles

LEMMA ClearsNothing ==
  ASSUME op'.todo = <<>>
  PROVE  ClearsLast'
  BY NothingLeft DEF ClearsLast

LEMMA ClearsStill ==
  ASSUME ClearsLast, op'.todo = op.todo, op'.cleared = op.cleared
  PROVE  ClearsLast'
  BY DEF ClearsLast, Settles, Steps

(* What Open puts in place of its own plan *)
OpenPlans(t, m) ==
    \/ t = <<>>
    \/ 1..Len(t) = {1} /\ t[1].do = "verify"
    \/ t[1] = Touch(m, "count") /\ 1..Len(t) = {1}
    \/ t[1] = Touch(m, "count") /\ 1..Len(t) = {1, 2, 3, 4} /\ ClearsFrom(t, 1, OtherMode(m))
    \/ 1..Len(t) = {1, 2, 3} /\ ClearsFrom(t, 0, OtherMode(m))
    \/ 1..Len(t) = {1, 2, 3} /\ ClearsFrom(t, 0, m)

LEMMA OpenPlaces ==
  ASSUME TypeOK, PlanOK, Open
  PROVE  /\ op.first \in Mode
         /\ OpenPlans(op'.todo, op.first)
         /\ \/ op'.todo = <<>>
            \/ op'.result # "opened" /\ 1..Len(op'.todo) = {1} /\ op'.todo[1].do = "verify"
            \/ op'.result = "opened" /\ op'.todo[1].do = "touch" /\ 1..Len(op'.todo) = {1}
            \/ op'.result = "opened" /\ op'.todo[1].do = "touch" /\ 1..Len(op'.todo) = {1, 2, 3, 4}
               /\ ClearsFrom(op'.todo, 1, OtherMode(op.first))
            \/ op'.result = "opened" /\ 1..Len(op'.todo) = {1, 2, 3} /\ ClearsFrom(op'.todo, 0, OtherMode(op.first))
            \/ op'.result = "refused" /\ 1..Len(op'.todo) = {1, 2, 3} /\ ClearsFrom(op'.todo, 0, op.first)
  <1> DEFINE m == op.first
             t == op'.todo
  <1>1. /\ m \in Mode
        /\ \/ t = <<>>
           \/ op'.result = "refused" /\ t = <<Do("verify")>>
           \/ op'.result = "opened" /\ t = CountAndClear(m)
           \/ op'.result = "opened" /\ t = MaybeAutoPurge(m)
           \/ op'.result = "refused" /\ t = ClearAccessed(m)
    BY OpenDoes, Zenon DEF CountAndClear, GivesUp
  <1> HIDE DEF m, t
  <1>2. CASE op'.result = "refused" /\ t = <<Do("verify")>>
    BY <1>1, <1>2, VerifyPlan DEF OpenPlans, m, t
  <1>3. CASE op'.result = "opened" /\ t = CountAndClear(m)
    BY <1>1, <1>3, CountThenClears DEF OpenPlans, m, t
  <1>4. CASE op'.result = "opened" /\ t = MaybeAutoPurge(m)
    BY <1>1, <1>4, MaybeClears DEF OpenPlans, m, t
  <1>5. CASE op'.result = "refused" /\ t = ClearAccessed(m)
    <2>1. /\ 1..Len(t) = {1, 2, 3}
          /\ t[1].do = "container" /\ t[2].do = "purge" /\ t[2].mode = m
          /\ t[3] = Forget(m) /\ t[3].do = "reset" /\ t[3].mode = m /\ t[3].set = "forget"
      BY <1>1, <1>5, ClearIs DEF ClearAccessed
    <2>2. ClearsFrom(t, 0, m)
      <3>1. 0 + 1 = 1 /\ 0 + 2 = 2 /\ 0 + 3 = 3
        OBVIOUS
      <3> QED
        BY <2>1, <3>1 DEF ClearsFrom
    <2> QED
      BY <1>1, <1>5, <2>1, <2>2 DEF OpenPlans, m, t
  <1>6. CASE t = <<>>
    BY <1>1, <1>6 DEF OpenPlans, m, t
  <1> QED
    BY <1>1, <1>2, <1>3, <1>4, <1>5, <1>6

LEMMA BodyClearsLast ==
  ASSUME TypeOK, PlanOK, ClearsLast, Body
  PROVE  ClearsLast'
  <1>1. GivesUp => ClearsLast'
    BY ClearsNothing DEF GivesUp
  <1>2. CASE Look
    BY <1>1, <1>2, LookDoes, Heads, ClearsShifts DEF OnlyChanges
  <1>3. CASE LookAgain
    BY <1>1, <1>3, LookAgainDoes, Heads, ClearsShifts DEF OnlyChanges
  <1>4. CASE Target
    BY <1>4, TargetDoes, Heads, ClearsShifts DEF OnlyChanges
  <1>5. CASE FindContainer
    BY <1>5, FindContainerDoes, Heads, ClearsShifts DEF OnlyChanges
  <1>6. CASE Pick
    BY <1>1, <1>6, PickDoes, Heads, ClearsShifts DEF OnlyChanges
  <1>7. CASE Capture
    BY <1>1, <1>7, CaptureDoes, Heads, ClearsShifts DEF OnlyChanges
  <1>8. CASE Purge
    BY <1>8, PurgeDoes, Heads, ClearsShifts DEF Clears
  <1>9. CASE WipeContainer
    BY <1>9, WipeContainerDoes, Heads, ClearsShifts DEF Clears
  <1>10. CASE Unbind
    BY <1>10, UnbindDoes, Heads, ClearsShifts DEF OnlyChanges
  <1>11. CASE Write
    BY <1>1, <1>11, WriteDoes, Heads, ClearsShifts DEF OnlyChanges
  <1>12. CASE Resave
    BY <1>12, ResaveDoes, ClearsShifts DEF OnlyChanges
  <1>13. CASE Load \/ Save
    BY <1>13, LoadDoes, SaveDoes, ClearsStill DEF OnlyChanges
  <1>14. CASE Reset
    <2>1. \A i \in Steps' : Settles(op'.todo[i])
      BY <1>14, ResetPlan DEF Settles
    <2> QED
      BY <2>1 DEF ClearsLast, Settles
  <1>15. CASE Select
    <2>1. CASE /\ OnlyChanges({"todo", "mode", "first"})
               /\ op'.todo \in {<<Do("capture"), Do("target"), Do("read")>>, <<Do("target"), Do("read")>>}
      <3> DEFINE t == op'.todo
      <3>1. \/ 1..Len(t) = {1, 2, 3} /\ t[1].do = "capture" /\ t[2].do = "target" /\ t[3].do = "read"
            \/ 1..Len(t) = {1, 2} /\ t[1].do = "target" /\ t[2].do = "read"
        BY <2>1, SelectPlan
      <3>2. Steps' = 1..Len(t) /\ op'.todo = t
        BY DEF Steps
      <3>3. op'.cleared = {}
        BY <1>15, <2>1, Heads, NotYetCleared DEF OnlyChanges, Settles
      <3> HIDE DEF t
      <3>4. \A i \in Steps' : op'.todo[i].do \notin Clears
        BY <3>1, <3>2 DEF Clears
      <3> QED
        BY <3>3, <3>4, ClearsPlaced
    <2> QED
      BY <1>1, <1>15, <2>1, SelectDoes
  <1>16. CASE Open
    <2> DEFINE t == op'.todo
               m == op.first
               n == OtherMode(m)
    <2>1. op'.cleared = {}
      <3>1. op.cleared = {}
        BY <1>16, Heads, NotYetCleared DEF Settles
      <3> QED
        BY <1>16, <3>1, OpenDoes DEF OnlyChanges, GivesUp
    <2>2. Steps' = 1..Len(t) /\ op'.todo = t
      BY DEF Steps
    <2>3. /\ OpenPlans(t, m)
          /\ \A x : Touch(x, "count").do = "touch"
      BY <1>16, OpenPlaces, StepFields
    <2> HIDE DEF t, m, n
    <2>4. \A i, j \in Steps' : i < j /\ op'.todo[i].do \in Clears => Settles(op'.todo[j])
      <3>1. CASE t = <<>>
        BY <2>2, <3>1, NothingLeft
      <3>2. CASE 1..Len(t) = {1}
        BY <2>2, <3>2
      <3>3. CASE t[1] = Touch(m, "count") /\ 1..Len(t) = {1, 2, 3, 4} /\ ClearsFrom(t, 1, OtherMode(m))
        <4>1. t[1].do = "touch" /\ t[2].do = "container" /\ t[3].do = "purge" /\ t[4].do = "reset"
          BY <2>3, <3>3 DEF ClearsFrom
        <4> QED
          BY <2>2, <3>3, <4>1 DEF Clears, Settles
      <3>4. ASSUME NEW x, 1..Len(t) = {1, 2, 3}, ClearsFrom(t, 0, x)
            PROVE  \A i, j \in Steps' : i < j /\ op'.todo[i].do \in Clears => Settles(op'.todo[j])
        <4>1. t[1].do = "container" /\ t[2].do = "purge" /\ t[3].do = "reset"
          BY <3>4 DEF ClearsFrom
        <4> QED
          BY <2>2, <3>4, <4>1 DEF Clears, Settles
      <3> QED
        BY <2>3, <3>1, <3>2, <3>3, <3>4 DEF OpenPlans
    <2> QED
      BY <2>1, <2>4, ClearsPlaced
  <1>17. CASE Verify
    <2>1. CASE ~GivesUp
      <3>1. PICK m \in Mode : OnlyChanges({"todo", "at"}) /\ op'.todo = DestroySteps(m)
        BY <1>17, <2>1, VerifyDoes, Zenon DEF DestroySteps
      <3> DEFINE t == op'.todo
      <3>2. /\ 1..Len(t) = {1, 2} /\ t[1].do = "purge"
            /\ t[2].do = "touch" /\ t[2].set = "fresh"
        BY <3>1, DestroyPlan
      <3>3. op'.cleared = {}
        BY <1>17, <3>1, Heads, NotYetCleared DEF OnlyChanges, Settles
      <3>4. Steps' = 1..Len(t) /\ op'.todo = t
        BY DEF Steps
      <3> HIDE DEF t
      <3>5. \A i, j \in Steps' : i < j /\ op'.todo[i].do \in Clears => Settles(op'.todo[j])
        BY <3>2, <3>4 DEF Clears, Settles, Resets
      <3> QED
        BY <3>3, <3>5, ClearsPlaced
    <2> QED
      BY <1>1, <2>1
  <1>18. CASE Read
    <2>1. CASE op'.todo = <<>>
      BY <2>1, ClearsNothing
    <2>2. CASE op'.todo # <<>>
      <3> DEFINE m == op.mode
                 t == op'.todo
      <3>1. m \in Mode /\ t = StoreInto(m, op.arm) /\ op.arm \in Pass \union {"none"}
        BY <1>18, <2>2, ReadDoes, OpTyped DEF GivesUp, IsBody
      <3>2. \/ /\ 1..Len(t) = {1, 2, 3} /\ t[1].do = "write"
               /\ t[2] = Touch(m, "count") /\ t[3] = Touch(m, "creds")
            \/ /\ 1..Len(t) = {1, 2, 3, 4} /\ t[1] = Touch(m, "armed") /\ t[2].do = "write"
               /\ t[3] = Touch(m, "count") /\ t[4] = Touch(m, "creds")
        BY <3>1, StorePlan
      <3>3. \A x : Touch(m, x).do = "touch"
        BY StepFields
      <3>4. Steps' = 1..Len(t) /\ op'.todo = t
        BY DEF Steps
      <3>5. op'.cleared = {}
        <4>1. op.cleared = {}
          BY <1>18, Heads, NotYetCleared DEF Settles
        <4> QED
          BY <1>18, <4>1, ReadDoes DEF OnlyChanges, GivesUp
      <3> HIDE DEF t, m
      <3>6. \A i \in Steps' : op'.todo[i].do \notin Clears
        BY <3>2, <3>3, <3>4 DEF Clears
      <3> QED
        BY <3>5, <3>6, ClearsPlaced
    <2> QED
      BY <2>1, <2>2
  <1> QED
    BY <1>2, <1>3, <1>4, <1>5, <1>6, <1>7, <1>8, <1>9, <1>10, <1>11, <1>12, <1>13, <1>14, <1>15, <1>16,
       <1>17, <1>18 DEF Body

LEMMA NextClearsLast ==
  ASSUME TypeOK, PlanOK, ClearsLast, [Next]_vars
  PROVE  ClearsLast'
  <1>1. CASE BeginStep
    <2>1. PICK t, k : Started(t, k)
      BY <1>1, BeginDoes
    <2>2. Steps' = 1..Len(t) /\ op'.todo = t /\ op'.cleared = {}
      BY <2>1 DEF Started, Steps
    <2> QED
      BY <2>1, <2>2, ClearsPlaced DEF Started, Opens
  <1>2. CASE ConsoleStep
    BY <1>2, ConsoleDoes, IdlePlan, ClearsNothing, ClearsStill
  <1>3. CASE UNCHANGED vars
    BY <1>3, ClearsStill DEF vars
  <1> QED
    BY <1>1, <1>2, <1>3, NextCases, BodyClearsLast

-----------------------------------------------------------------------------
(* Only the entry whose object was presented *)

LEMMA PresentedShifts ==
  ASSUME TypeOK, PresentedInv, op.todo # <<>>, op'.todo = Rest, op'.kind = op.kind,
         op.kind \in {"retrieve", "destroy"} =>
            /\ op'.result = op.result
            /\ \/ op'.first = op.first /\ op'.mode = op.mode
               \/ op.todo[1].do \in Decides /\ op.cleared = {}
            /\ \/ op'.cleared = op.cleared
               \/ op.todo[1].do = "purge" /\ op'.first = op.first /\ op'.mode = op.mode
                  /\ \E c : op'.cleared = op.cleared \union {<<c, op.todo[1].mode>>}
  PROVE  PresentedInv'
  <1> SUFFICES ASSUME op.kind \in {"retrieve", "destroy"}
               PROVE
        /\ \A i \in Steps' : op'.todo[i].do \notin {"select", "pick", "brick", "format", "read", "write"}
        /\ \A i \in Steps' : op'.todo[i].do = "purge" => Fits(op', op'.todo[i].mode)
        /\ \A x \in op'.cleared : Fits(op', x[2])
        /\ \A i, j \in Steps' : op'.todo[i].do \in Decides => op'.todo[j].do # "purge"
        /\ \A i \in Steps' : op'.todo[i].do \in Decides => op'.result # "opened"
    BY DEF PresentedInv
  <1>1. \A i \in Steps' : i + 1 \in Steps /\ op'.todo[i] = op.todo[i + 1]
    BY Shifts
  <1>2. 1 \in Steps
    BY Shifts
  <1>3. /\ \A i \in Steps' : op'.todo[i].do \notin {"select", "pick", "brick", "format", "read", "write"}
        /\ \A i, j \in Steps' : op'.todo[i].do \in Decides => op'.todo[j].do # "purge"
        /\ \A i \in Steps' : op'.todo[i].do \in Decides => op'.result # "opened"
    BY <1>1 DEF PresentedInv
  <1>4. CASE op'.first = op.first /\ op'.mode = op.mode
    <2>1. \A m : Fits(op', m) <=> Fits(op, m)
      BY <1>4 DEF Fits
    <2>2. \A i \in Steps' : op'.todo[i].do = "purge" => Fits(op', op'.todo[i].mode)
      BY <1>1, <2>1 DEF PresentedInv
    <2>3. \A x \in op'.cleared : Fits(op', x[2])
      <3>1. \A x \in op.cleared : Fits(op, x[2])
        BY DEF PresentedInv
      <3>2. op.todo[1].do = "purge" => Fits(op, op.todo[1].mode)
        BY <1>2 DEF PresentedInv
      <3> QED
        BY <2>1, <3>1, <3>2
    <2> QED
      BY <1>3, <2>2, <2>3
  <1>5. CASE op.todo[1].do \in Decides /\ op.cleared = {}
    <2>1. \A i \in Steps' : op'.todo[i].do # "purge"
      BY <1>1, <1>2, <1>5 DEF PresentedInv
    <2>2. op'.cleared = {} \/ op.todo[1].do = "purge"
      BY <1>5
    <2>3. op'.cleared = {}
      BY <1>5, <2>2 DEF Decides
    <2> QED
      BY <1>3, <2>1, <2>3
  <1> QED
    BY <1>4, <1>5

LEMMA PresentedNothing ==
  ASSUME op'.todo = <<>>, op'.cleared = {}
  PROVE  PresentedInv'
  BY NothingLeft DEF PresentedInv

LEMMA PresentedStill ==
  ASSUME PresentedInv, op'.todo = op.todo, op'.kind = op.kind, op'.result = op.result,
         op'.first = op.first, op'.mode = op.mode, op'.cleared = op.cleared
  PROVE  PresentedInv'
  <1>1. Steps' = Steps /\ \A m : Fits(op', m) <=> Fits(op, m)
    BY DEF Steps, Fits
  <1> QED
    BY <1>1 DEF PresentedInv

LEMMA PresentedOther ==
  ASSUME op'.kind \notin {"retrieve", "destroy"}
  PROVE  PresentedInv'
  BY DEF PresentedInv

(* The body gives up before it has cleared anything. *)
LEMMA PresentedGivesUp ==
  ASSUME TypeOK, ClearsLast, op.todo # <<>>, ~Settles(op.todo[1]), GivesUp
  PROVE  PresentedInv'
  BY NotYetCleared, PresentedNothing DEF GivesUp, OnlyChanges

LEMMA BodyPresented ==
  ASSUME TypeOK, PlanOK, ClearsLast, PresentedInv, Body
  PROVE  PresentedInv'
  <1> DEFINE both == op.kind \in {"retrieve", "destroy"}
  <1>0. both /\ op.todo # <<>> => op.todo[1].do \notin {"select", "pick", "brick", "format", "read", "write"}
    BY OpTyped, Rests DEF PresentedInv, Steps
  <1>1. CASE Look
    <2>1. op.todo # <<>> /\ op.todo[1].do = "look" /\ op.cleared = {}
      BY <1>1, Heads, NotYetCleared DEF Settles
    <2> QED
      BY <1>1, <2>1, LookDoes, PresentedShifts, PresentedGivesUp DEF OnlyChanges, Decides, Settles
  <1>2. CASE LookAgain
    <2>1. op.todo # <<>> /\ op.todo[1].do = "again" /\ op.cleared = {}
      BY <1>2, Heads, NotYetCleared DEF Settles
    <2> QED
      BY <1>2, <2>1, LookAgainDoes, PresentedShifts, PresentedGivesUp DEF OnlyChanges, Decides, Settles
  <1>3. CASE Target
    BY <1>3, TargetDoes, Heads, PresentedShifts DEF OnlyChanges
  <1>4. CASE FindContainer
    BY <1>4, FindContainerDoes, Heads, PresentedShifts DEF OnlyChanges
  <1>5. CASE Capture
    BY <1>5, CaptureDoes, Heads, PresentedShifts, PresentedGivesUp DEF OnlyChanges, Settles
  <1>6. CASE Unbind
    BY <1>6, UnbindDoes, Heads, PresentedShifts DEF OnlyChanges
  <1>7. CASE Purge
    BY <1>7, PurgeDoes, Heads, PresentedShifts DEF OnlyChanges
  <1>8. CASE Resave
    BY <1>8, ResaveDoes, PresentedShifts DEF OnlyChanges
  <1>9. CASE Load \/ Save
    BY <1>9, LoadDoes, SaveDoes, PresentedStill DEF OnlyChanges
  <1>10. CASE Select \/ Pick \/ WipeContainer \/ Read \/ Write
    <2>1. ~both /\ op'.kind = op.kind
      BY <1>0, <1>10, Heads, QuietTyped DEF Quiet
    <2> QED
      BY <2>1, PresentedOther
  <1>11. CASE Reset
    <2>1. /\ OnlyChanges({"todo", "vessel"})
          /\ \A i \in Steps' : op'.todo[i].do \in {"unbind", "touch"}
      BY <1>11, ResetPlan
    <2>2. op'.kind = op.kind /\ op'.cleared = op.cleared /\ \A m : Fits(op', m) <=> Fits(op, m)
      BY <2>1 DEF OnlyChanges, Fits
    <2> QED
      BY <2>1, <2>2 DEF PresentedInv, Decides
  <1>12. CASE Open
    <2> DEFINE t == op'.todo
               m == op.first
               n == OtherMode(m)
    <2>1. op.kind = "retrieve" /\ op.cleared = {}
      <3>1. 1 \in Steps /\ op.todo[1].do = "open" /\ op.todo # <<>>
        BY <1>12, AtStep DEF Open
      <3> QED
        BY <3>1, NotYetCleared DEF PlanOK, Settles
    <2>2. op'.kind = "retrieve" /\ op'.cleared = {} /\ op'.first = m
      BY <1>12, <2>1, OpenDoes DEF OnlyChanges, GivesUp
    <2>3. Steps' = 1..Len(t) /\ n # m
      BY <1>12, OpenDoes, Others DEF Steps
    <2>4. \/ t = <<>>
          \/ op'.result # "opened" /\ 1..Len(t) = {1} /\ t[1].do = "verify"
          \/ op'.result = "opened" /\ t[1].do = "touch" /\ 1..Len(t) = {1}
          \/ op'.result = "opened" /\ t[1].do = "touch" /\ 1..Len(t) = {1, 2, 3, 4} /\ ClearsFrom(t, 1, n)
          \/ op'.result = "opened" /\ 1..Len(t) = {1, 2, 3} /\ ClearsFrom(t, 0, n)
          \/ op'.result = "refused" /\ 1..Len(t) = {1, 2, 3} /\ ClearsFrom(t, 0, m)
      BY <1>12, OpenPlaces, Zenon
    <2>5. \A x : Fits(op', x) <=> (IF op'.result = "opened" THEN x # m ELSE x = m)
      BY <2>2 DEF Fits
    <2> HIDE DEF m, n, t
    <2>6. op'.todo = t
      BY DEF t
    <2>7. CASE t = <<>>
      BY <2>2, <2>6, <2>7, PresentedNothing
    <2>8. CASE op'.result # "opened" /\ 1..Len(t) = {1} /\ t[1].do = "verify"
      BY <2>2, <2>3, <2>6, <2>8 DEF PresentedInv
    <2>9. CASE op'.result = "opened" /\ t[1].do = "touch" /\ 1..Len(t) = {1}
      BY <2>2, <2>3, <2>6, <2>9 DEF PresentedInv, Decides
    <2>10. CASE op'.result = "opened" /\ t[1].do = "touch" /\ 1..Len(t) = {1, 2, 3, 4} /\ ClearsFrom(t, 1, n)
      <3>1. t[2].do = "container" /\ t[3].do = "purge" /\ t[3].mode = n /\ t[4].do = "reset"
        BY <2>10 DEF ClearsFrom
      <3> QED
        BY <2>2, <2>3, <2>5, <2>6, <2>10, <3>1 DEF PresentedInv, Decides
    <2>11. CASE op'.result = "opened" /\ 1..Len(t) = {1, 2, 3} /\ ClearsFrom(t, 0, n)
      <3>1. t[1].do = "container" /\ t[2].do = "purge" /\ t[2].mode = n /\ t[3].do = "reset"
        BY <2>11 DEF ClearsFrom
      <3> QED
        BY <2>2, <2>3, <2>5, <2>6, <2>11, <3>1 DEF PresentedInv, Decides
    <2>12. CASE op'.result = "refused" /\ 1..Len(t) = {1, 2, 3} /\ ClearsFrom(t, 0, m)
      <3>1. t[1].do = "container" /\ t[2].do = "purge" /\ t[2].mode = m /\ t[3].do = "reset"
        BY <2>12 DEF ClearsFrom
      <3> QED
        BY <2>2, <2>3, <2>5, <2>6, <2>12, <3>1 DEF PresentedInv, Decides
    <2> QED
      BY <2>4, <2>7, <2>8, <2>9, <2>10, <2>11, <2>12
  <1>13. CASE Verify
    <2>1. op.todo # <<>> /\ op.todo[1].do = "verify" /\ 1 \in Steps /\ op.cleared = {}
      BY <1>13, AtStep, NotYetCleared DEF Verify, Settles
    <2>2. CASE ~GivesUp
      <3>1. PICK m \in Mode :
              /\ m = IF op.kind = "retrieve" THEN op.first ELSE op.mode
              /\ OnlyChanges({"todo", "at"})
              /\ op'.todo = DestroySteps(m)
        BY <1>13, <2>2, VerifyDoes, Zenon DEF DestroySteps
      <3> DEFINE t == op'.todo
      <3>2. /\ 1..Len(t) = {1, 2} /\ t[1].do = "purge" /\ t[1].mode = m /\ t[2].do = "touch"
        BY <3>1, DestroyPlan
      <3>3. op.result # "opened" /\ op.kind \in {"retrieve", "destroy"}
        BY <2>1 DEF PresentedInv, PlanOK, Decides
      <3>4. op'.cleared = {} /\ Steps' = 1..Len(t) /\ op'.todo = t /\ Fits(op', m)
        BY <2>1, <3>1, <3>3 DEF OnlyChanges, Steps, Fits
      <3> HIDE DEF t
      <3> QED
        BY <3>2, <3>4 DEF PresentedInv, Decides
    <2> QED
      BY <2>1, <2>2, PresentedGivesUp DEF Settles
  <1> QED
    BY <1>1, <1>2, <1>3, <1>4, <1>5, <1>6, <1>7, <1>8, <1>9, <1>10, <1>11, <1>12, <1>13 DEF Body

LEMMA NextPresented ==
  ASSUME TypeOK, PlanOK, ClearsLast, PresentedInv, [Next]_vars
  PROVE  PresentedInv'
  <1>1. CASE BeginStep
    <2>1. PICK t, k : Started(t, k)
      BY <1>1, BeginDoes
    <2>2. /\ Steps' = 1..Len(t) /\ op'.todo = t /\ op'.cleared = {} /\ op'.kind = k
          /\ op'.result = "none"
      BY <2>1 DEF Started, Steps
    <2> QED
      BY <2>1, <2>2 DEF Started, Opens, PresentedInv
  <1>2. CASE ConsoleStep
    BY <1>2, ConsoleDoes, IdlePlan, PresentedNothing, PresentedStill
  <1>3. CASE UNCHANGED vars
    BY <1>3, PresentedStill DEF vars
  <1> QED
    BY <1>1, <1>2, <1>3, NextCases, BodyPresented

(* web_server.py 1418-1431: whatever the camera shows between the two      *)
(* looks of a body, and whatever the console does, a retrieval that opened *)
(* an entry clears only the other one, and a destroy passphrase ends only  *)
(* the entry whose object the request saw.                                 *)
THEOREM ClearsOnlyPresentedHolds == Spec => []ClearsOnlyPresented
  <1> DEFINE I == TypeOK /\ PlanOK /\ ClearsLast /\ PresentedInv
  <1>1. Init => I
    BY InitTyped, InitPlan DEF PlanOK, ClearsLast, PresentedInv
  <1>2. I /\ [Next]_vars => I'
    BY NextTyped, NextPlanOK, NextClearsLast, NextPresented
  <1>3. I => ClearsOnlyPresented
    <2> SUFFICES ASSUME PresentedInv, NEW c \in Container, NEW m \in Mode, <<c, m>> \in op.cleared
                 PROVE  /\ op.kind = "retrieve" => IF op.result = "opened" THEN m # op.first ELSE m = op.first
                        /\ op.kind = "destroy" => m = op.mode
      BY DEF ClearsOnlyPresented
    <2>1. op.kind \in {"retrieve", "destroy"} => Fits(op, <<c, m>>[2])
      BY DEF PresentedInv
    <2>2. <<c, m>>[2] = m
      OBVIOUS
    <2>3. op.kind \in {"retrieve", "destroy"} => Fits(op, m)
      BY <2>1, <2>2
    <2> QED
      BY <2>3 DEF Fits
  <1> QED
    BY <1>1, <1>2, <1>3, PTL DEF Spec

-----------------------------------------------------------------------------
(* What was cleared is forgotten *)


LEMMA AtRoundZero ==
  ASSUME TypeOK, RoundOK, op.todo # <<>>, op.todo[1].do # "touch"
  PROVE  op.round = 0
  BY DEF RoundOK

(* What is to be cleared is to be forgotten after it. *)
OwedLater(kind, t) ==
    /\ \A i \in 1..Len(t) : t[i].do = "purge" =>
          \E j \in 1..Len(t) : j > i /\ Owes(kind, t[j], t[i].mode)
    /\ \A i \in 1..Len(t) : t[i].do \in {"brick", "format"} =>
          \E j \in 1..Len(t) : j > i /\ \A m \in Mode : Owes(kind, t[j], m)

LEMMA OwedIs ==
  ASSUME ForgetInv
  PROVE  OwedLater(op.kind, op.todo)
  BY DEF ForgetInv, OwedLater, Steps

LEMMA OwedShifts ==
  ASSUME TypeOK, OwedLater(op.kind, op.todo), op.todo # <<>>, op'.todo = Rest, op'.kind = op.kind
  PROVE  OwedLater(op'.kind, op'.todo)
  <1>1. \A i \in Steps' : i \in Nat /\ i + 1 \in Steps /\ op'.todo[i] = op.todo[i + 1]
    BY Shifts
  <1>2. \A i \in Steps : i \in Nat /\ (i # 1 => i - 1 \in Steps' /\ op'.todo[i - 1] = op.todo[i])
    BY Shifts
  <1>3. Steps = 1..Len(op.todo) /\ Steps' = 1..Len(op'.todo)
    BY DEF Steps
  <1>4. ASSUME NEW i \in Steps', op'.todo[i].do = "purge"
        PROVE  \E j \in Steps' : j > i /\ Owes(op'.kind, op'.todo[j], op'.todo[i].mode)
    <2>1. i + 1 \in Steps /\ op.todo[i + 1].do = "purge" /\ i \in Nat
      BY <1>1, <1>4
    <2>2. PICK j \in Steps : j > i + 1 /\ Owes(op.kind, op.todo[j], op.todo[i + 1].mode)
      BY <1>3, <2>1 DEF OwedLater
    <2>3. j # 1 /\ j - 1 > i /\ i >= 1
      BY <1>2, <1>3, <2>1, <2>2
    <2>4. j - 1 \in Steps' /\ op'.todo[j - 1] = op.todo[j]
      BY <1>2, <2>3
    <2> QED
      BY <1>1, <2>2, <2>3, <2>4
  <1>5. ASSUME NEW i \in Steps', op'.todo[i].do \in {"brick", "format"}
        PROVE  \E j \in Steps' : j > i /\ \A m \in Mode : Owes(op'.kind, op'.todo[j], m)
    <2>1. i + 1 \in Steps /\ op.todo[i + 1].do \in {"brick", "format"} /\ i \in Nat
      BY <1>1, <1>5
    <2>2. PICK j \in Steps : j > i + 1 /\ \A m \in Mode : Owes(op.kind, op.todo[j], m)
      BY <1>3, <2>1 DEF OwedLater
    <2>3. j # 1 /\ j - 1 > i /\ i >= 1
      BY <1>2, <1>3, <2>1, <2>2
    <2>4. j - 1 \in Steps' /\ op'.todo[j - 1] = op.todo[j]
      BY <1>2, <2>3
    <2> QED
      BY <2>2, <2>3, <2>4
  <1> QED
    BY <1>3, <1>4, <1>5 DEF OwedLater

LEMMA ForgetPlaced ==
  ASSUME OwedLater(op'.kind, op'.todo), op'.cleared = {}, op'.round = 0, ~disturbed' => ~moved'
  PROVE  ForgetInv'
  <1>1. Steps' = 1..Len(op'.todo)
    BY DEF Steps
  <1> QED
    BY <1>1 DEF ForgetInv, OwedLater

LEMMA NothingOwed ==
  ASSUME NEW t, NEW kind, \A i \in 1..Len(t) : t[i].do \notin {"purge", "brick", "format"}
  PROVE  OwedLater(kind, t)
  BY DEF OwedLater

(* A step that is neither a reset nor a touch is done. *)
LEMMA ForgetShifts ==
  ASSUME TypeOK, RoundOK, ForgetInv, op.todo # <<>>, op'.todo = Rest, op'.kind = op.kind,
         op.todo[1].do \notin {"reset", "touch"}, op'.round = op.round, reg' = reg,
         disturbed' = disturbed, moved' = moved, op.used \subseteq op'.used,
         \/ op'.cleared = op.cleared
         \/ /\ op.todo[1].do = "purge" /\ op.at \in op'.used
            /\ op'.cleared = op.cleared \union {<<op.at, op.todo[1].mode>>}
         \/ /\ op.todo[1].do \in {"brick", "format"} /\ op.at \in op'.used
            /\ op'.cleared = {op.at} \X Mode
  PROVE  ForgetInv'
  <1>1. OwedLater(op'.kind, op'.todo)
    BY OwedIs, OwedShifts
  <1>2. op'.round = 0
    BY AtRoundZero
  <1>3. \A x \in op'.cleared : x[1] \in op'.used
    BY DEF ForgetInv
  <1>4. 1 \in Steps /\ \A i \in Steps : i \in Nat /\ (i # 1 => i - 1 \in Steps' /\ op'.todo[i - 1] = op.todo[i])
    BY Shifts
  <1>5. \A m : ~Owes(op.kind, op.todo[1], m)
    BY DEF Owes
  <1>6. \A m : (\E i \in Steps : Owes(op.kind, op.todo[i], m)) => \E i \in Steps' : Owes(op'.kind, op'.todo[i], m)
    <2> SUFFICES ASSUME NEW m, NEW i \in Steps, Owes(op.kind, op.todo[i], m)
                 PROVE  \E k \in Steps' : Owes(op'.kind, op'.todo[k], m)
      OBVIOUS
    <2>1. i # 1
      BY <1>5
    <2> QED
      BY <1>4, <2>1
  <1>7. op.todo[1].do = "purge" => \E i \in Steps : Owes(op.kind, op.todo[i], op.todo[1].mode)
    BY <1>4 DEF ForgetInv
  <1>8. op.todo[1].do \in {"brick", "format"} => \A m \in Mode : \E i \in Steps : Owes(op.kind, op.todo[i], m)
    BY <1>4 DEF ForgetInv
  <1>9. ASSUME ~disturbed, NEW x \in op'.cleared, x[1] \in DOMAIN reg'
        PROVE  \/ Forgotten(op'.kind, reg'[x[1]].face[x[2]])
               \/ \E i \in Steps' : Owes(op'.kind, op'.todo[i], x[2])
    <2>1. CASE x \in op.cleared
      <3>1. \/ Forgotten(op.kind, reg[x[1]].face[x[2]])
            \/ \E i \in Steps : Owes(op.kind, op.todo[i], x[2])
        BY <1>9, <2>1 DEF ForgetInv
      <3> QED
        BY <1>6, <3>1
    <2>2. CASE op.todo[1].do = "purge" /\ x = <<op.at, op.todo[1].mode>>
      BY <1>6, <1>7, <2>2
    <2>3. CASE op.todo[1].do \in {"brick", "format"} /\ x \in {op.at} \X Mode
      BY <1>6, <1>8, <2>3
    <2> QED
      BY <1>9, <2>1, <2>2, <2>3
  <1>10. Steps' = 1..Len(op'.todo)
    BY DEF Steps
  <1> QED
    BY <1>1, <1>2, <1>3, <1>9, <1>10 DEF ForgetInv, OwedLater

(* Clear puts the forgetting right behind the purge. *)
LEMMA ClearsOwed ==
  ASSUME NEW t, NEW n \in {0, 1}, NEW m, ClearsFrom(t, n, m), 1..Len(t) = 1..n + 3,
         n = 1 => t[1].do = "touch"
  PROVE  OwedLater("retrieve", t)
  <1>1. Owes("retrieve", t[n + 3], m)
    BY DEF ClearsFrom, Owes, Wiping, Resets
  <1>2. CASE n = 0
    <2>1. 1..Len(t) = {1, 2, 3} /\ n + 1 = 1 /\ n + 2 = 2 /\ n + 3 = 3
      BY <1>2
    <2>2. t[1].do = "container" /\ t[2].do = "purge" /\ t[2].mode = m /\ t[3].do = "reset"
      BY <2>1 DEF ClearsFrom
    <2> QED
      BY <1>1, <2>1, <2>2 DEF OwedLater
  <1>3. CASE n = 1
    <2>1. 1..Len(t) = {1, 2, 3, 4} /\ n + 1 = 2 /\ n + 2 = 3 /\ n + 3 = 4
      BY <1>3
    <2>2. t[1].do = "touch" /\ t[2].do = "container" /\ t[3].do = "purge" /\ t[3].mode = m /\ t[4].do = "reset"
      BY <1>3, <2>1 DEF ClearsFrom
    <2> QED
      BY <1>1, <2>1, <2>2 DEF OwedLater
  <1> QED
    BY <1>2, <1>3

LEMMA OpenOwed ==
  ASSUME TypeOK, PlanOK, Open
  PROVE  OwedLater(op'.kind, op'.todo)
  <1> DEFINE t == op'.todo
             m == op.first
             n == OtherMode(m)
  <1>1. op'.kind = "retrieve"
    <2>1. 1 \in Steps /\ op.todo[1].do = "open"
      BY AtStep DEF Open
    <2> QED
      BY <2>1, OpenDoes DEF PlanOK, OnlyChanges, GivesUp
  <1>2. \/ t = <<>>
        \/ 1..Len(t) = {1} /\ t[1].do \in {"verify", "touch"}
        \/ t[1].do = "touch" /\ 1..Len(t) = {1, 2, 3, 4} /\ ClearsFrom(t, 1, n)
        \/ 1..Len(t) = {1, 2, 3} /\ ClearsFrom(t, 0, n)
        \/ 1..Len(t) = {1, 2, 3} /\ ClearsFrom(t, 0, m)
    BY OpenPlaces
  <1> HIDE DEF t, m, n
  <1>3. CASE t = <<>>
    BY <1>1, <1>3, NothingOwed, EmptySeq DEF t
  <1>4. CASE 1..Len(t) = {1} /\ t[1].do \in {"verify", "touch"}
    <2>1. \A i \in 1..Len(t) : t[i].do \notin {"purge", "brick", "format"}
      BY <1>4
    <2> QED
      BY <2>1, NothingOwed DEF t
  <1>5. CASE t[1].do = "touch" /\ 1..Len(t) = {1, 2, 3, 4} /\ ClearsFrom(t, 1, n)
    <2>1. 1..Len(t) = 1..1 + 3
      BY <1>5
    <2> QED
      BY <1>1, <1>5, <2>1, ClearsOwed DEF t
  <1>6. ASSUME NEW x, 1..Len(t) = {1, 2, 3}, ClearsFrom(t, 0, x)
        PROVE  OwedLater(op'.kind, op'.todo)
    <2>1. 1..Len(t) = 1..0 + 3
      BY <1>6
    <2>2. OwedLater("retrieve", t)
      BY <1>6, <2>1, ClearsOwed
    <2> QED
      BY <1>1, <2>2 DEF t
  <1> QED
    BY <1>2, <1>3, <1>4, <1>5, <1>6

(* A step that does not settle comes before anything is cleared: what is   *)
(* planned instead need only owe what it clears itself.                    *)
LEMMA ForgetReplaced ==
  ASSUME TypeOK, RoundOK, ClearsLast, ForgetInv, op.todo # <<>>,
         op.todo[1].do \notin {"reset", "touch", "unbind"},
         op'.cleared = op.cleared, op'.round = op.round, OwedLater(op'.kind, op'.todo),
         disturbed' = disturbed, moved' = moved
  PROVE  ForgetInv'
  <1>1. ~Settles(op.todo[1])
    BY DEF Settles
  <1>2. op'.cleared = {} /\ op'.round = 0
    BY <1>1, NotYetCleared, AtRoundZero
  <1>3. ~disturbed' => ~moved'
    BY DEF ForgetInv
  <1> QED
    BY <1>2, <1>3, ForgetPlaced

LEMMA ForgetGivesUp ==
  ASSUME TypeOK, RoundOK, ClearsLast, ForgetInv, op.todo # <<>>,
         op.todo[1].do \notin {"reset", "touch", "unbind"}, GivesUp,
         disturbed' = disturbed, moved' = moved
  PROVE  ForgetInv'
  <1>1. op'.todo = <<>> /\ op'.cleared = op.cleared /\ op'.round = op.round
    BY DEF GivesUp, OnlyChanges
  <1>2. OwedLater(op'.kind, op'.todo)
    BY <1>1, EmptySeq DEF OwedLater
  <1> QED
    BY <1>1, <1>2, ForgetReplaced

(* A reset becomes the touches it stands for, on the Vessel that was       *)
(* cleared; without a Vessel there is no record that could be wrong.       *)
LEMMA ResetForgets ==
  ASSUME TypeOK, PlanOK, RoundOK, SameInv, ForgetInv, Reset, reg' = reg,
         disturbed' = disturbed, moved' = moved
  PROVE  ForgetInv'
  <1> DEFINE s == op.todo[1]
  <1>1. /\ OnlyChanges({"todo", "vessel"})
        /\ \A i \in Steps' : op'.todo[i].do \in {"unbind", "touch"}
        /\ s.set \in Resets
        /\ WebVessel # Legacy => \A m \in Mode : s.mode \in {m, "none"} =>
               \E i \in Steps' : op'.todo[i] = Touch(m, s.set)
    BY ResetPlan
  <1>2. s.do = "reset" /\ op.todo # <<>>
    BY Heads
  <1>3. op'.round = 0 /\ op'.cleared = op.cleared /\ op'.used = op.used /\ op'.kind = op.kind
    BY <1>1, <1>2, AtRoundZero DEF OnlyChanges
  <1>4. ASSUME ~disturbed, NEW x \in op.cleared, x[1] \in DOMAIN reg
        PROVE  \/ Forgotten(op.kind, reg[x[1]].face[x[2]])
               \/ \E i \in Steps' : Owes(op.kind, op'.todo[i], x[2])
    <2>1. x[2] \in Mode
      BY <1>4, OpTyped DEF IsBody
    <2>2. WebVessel # Legacy
      <3>1. x[1] = WebVessel
        BY <1>4 DEF ForgetInv, SameInv
      <3> QED
        BY <1>4, <3>1, VesselIsNotLegacy DEF TypeOK, IsRegistry
    <2>3. \A i \in Steps : i # 1 => op.todo[i].do = "unbind"
      <3>1. 1 \in Steps /\ \A i \in Steps : i \in Nat /\ (i # 1 => i > 1)
        BY <1>2, OpTyped, Rests DEF Steps
      <3> QED
        BY <1>2, <3>1 DEF PlanOK
    <2>4. CASE Owes(op.kind, s, x[2])
      <3>1. PICK i \in Steps' : op'.todo[i] = Touch(x[2], s.set)
        BY <1>1, <2>1, <2>2, <2>4 DEF Owes
      <3>2. Owes(op.kind, Touch(x[2], s.set), x[2])
        BY <1>1, <2>4, StepFields DEF Owes
      <3> QED
        BY <3>1, <3>2
    <2>5. CASE ~Owes(op.kind, s, x[2])
      <3>1. \A i \in Steps : ~Owes(op.kind, op.todo[i], x[2])
        BY <2>3, <2>5 DEF Owes
      <3> QED
        BY <1>4, <3>1 DEF ForgetInv
    <2> QED
      BY <2>4, <2>5
  <1> QED
    BY <1>1, <1>3, <1>4 DEF ForgetInv

LEMMA QuietForgets ==
  ASSUME TypeOK, PlanOK, RoundOK, SameInv, ClearsLast, ForgetInv, Quiet,
         disturbed' = disturbed, moved' = moved
  PROVE  ForgetInv'
  <1>1. reg' = reg /\ op.todo # <<>>
    BY QuietKeeps
  <1>2. GivesUp /\ op.todo[1].do \notin {"reset", "touch", "unbind"} => ForgetInv'
    BY <1>1, ForgetGivesUp
  <1>3. CASE Look
    BY <1>1, <1>2, <1>3, LookDoes, Heads, ForgetShifts DEF OnlyChanges
  <1>4. CASE LookAgain
    BY <1>1, <1>2, <1>4, LookAgainDoes, Heads, ForgetShifts DEF OnlyChanges
  <1>5. CASE Target
    BY <1>1, <1>5, TargetDoes, Heads, ForgetShifts DEF OnlyChanges
  <1>6. CASE FindContainer
    BY <1>1, <1>6, FindContainerDoes, Heads, ForgetShifts DEF OnlyChanges
  <1>7. CASE Pick
    BY <1>1, <1>2, <1>7, PickDoes, Heads, ForgetShifts DEF OnlyChanges
  <1>8. CASE Capture
    BY <1>1, <1>2, <1>8, CaptureDoes, Heads, ForgetShifts DEF OnlyChanges
  <1>9. CASE Purge
    BY <1>1, <1>9, PurgeDoes, Heads, ForgetShifts DEF OnlyChanges
  <1>10. CASE WipeContainer
    BY <1>1, <1>10, WipeContainerDoes, Heads, ForgetShifts DEF OnlyChanges
  <1>11. CASE Unbind
    BY <1>1, <1>11, UnbindDoes, Heads, ForgetShifts DEF OnlyChanges
  <1>12. CASE Write
    BY <1>1, <1>2, <1>12, WriteDoes, Heads, ForgetShifts DEF OnlyChanges
  <1>13. CASE Reset
    BY <1>1, <1>13, ResetForgets
  <1>14. CASE Select
    <2>1. CASE /\ OnlyChanges({"todo", "mode", "first"})
               /\ op'.todo \in {<<Do("capture"), Do("target"), Do("read")>>, <<Do("target"), Do("read")>>}
      <3> DEFINE t == op'.todo
      <3>1. \/ 1..Len(t) = {1, 2, 3} /\ t[1].do = "capture" /\ t[2].do = "target" /\ t[3].do = "read"
            \/ 1..Len(t) = {1, 2} /\ t[1].do = "target" /\ t[2].do = "read"
        BY <2>1, SelectPlan
      <3>2. op'.cleared = op.cleared /\ op'.round = op.round /\ op.todo[1].do = "select"
        BY <1>14, <2>1, Heads DEF OnlyChanges
      <3> HIDE DEF t
      <3>3. \A i \in 1..Len(t) : t[i].do \notin {"purge", "brick", "format"}
        BY <3>1
      <3>4. OwedLater(op'.kind, op'.todo)
        BY <3>3, NothingOwed DEF t
      <3> QED
        BY <1>1, <3>2, <3>4, ForgetReplaced
    <2> QED
      BY <1>2, <1>14, <2>1, SelectDoes, Heads
  <1>15. CASE Open
    <2>1. op'.cleared = op.cleared /\ op'.round = op.round /\ op.todo[1].do = "open"
      BY <1>15, OpenDoes, Heads DEF OnlyChanges, GivesUp
    <2> QED
      BY <1>1, <1>15, <2>1, OpenOwed, ForgetReplaced
  <1>16. CASE Verify
    <2>1. CASE ~GivesUp
      <3> DEFINE t == op'.todo
      <3>1. PICK m \in Mode :
                /\ OnlyChanges({"todo", "at"})
                /\ t = DestroySteps(m)
        BY <1>16, <2>1, VerifyDoes, Zenon DEF DestroySteps
      <3>2. /\ 1..Len(t) = {1, 2} /\ t[1].do = "purge" /\ t[1].mode = m
            /\ t[2].do = "touch" /\ t[2].mode = m /\ t[2].set = "fresh"
        BY <3>1, DestroyPlan
      <3>3. op'.cleared = op.cleared /\ op'.round = op.round /\ op.todo[1].do = "verify"
        BY <1>16, <3>1, Heads DEF OnlyChanges
      <3> HIDE DEF t
      <3>4. Owes(op'.kind, t[2], m)
        BY <3>2 DEF Owes, Resets
      <3>5. OwedLater(op'.kind, t)
        BY <3>2, <3>4 DEF OwedLater
      <3> QED
        BY <1>1, <3>3, <3>5, ForgetReplaced DEF t
    <2> QED
      BY <1>2, <1>16, <2>1, Heads
  <1>17. CASE Read
    <2>1. op'.cleared = op.cleared /\ op'.round = op.round /\ op.todo[1].do = "read"
      BY <1>17, ReadDoes DEF OnlyChanges, GivesUp
    <2>2. OwedLater(op'.kind, op'.todo)
      <3>1. CASE op'.todo = <<>>
        BY <3>1, EmptySeq DEF OwedLater
      <3>2. CASE op'.todo # <<>>
        <4> DEFINE m == op.mode
                   t == op'.todo
        <4>1. m \in Mode /\ t = StoreInto(m, op.arm) /\ op.arm \in Pass \union {"none"}
          BY <1>17, <3>2, ReadDoes, OpTyped DEF GivesUp, IsBody
        <4>2. \/ /\ 1..Len(t) = {1, 2, 3} /\ t[1].do = "write"
                 /\ t[2] = Touch(m, "count") /\ t[3] = Touch(m, "creds")
              \/ /\ 1..Len(t) = {1, 2, 3, 4} /\ t[1] = Touch(m, "armed") /\ t[2].do = "write"
                 /\ t[3] = Touch(m, "count") /\ t[4] = Touch(m, "creds")
          BY <4>1, StorePlan
        <4>3. \A x : Touch(m, x).do = "touch"
          BY StepFields
        <4> HIDE DEF t, m
        <4>4. \A i \in 1..Len(t) : t[i].do \notin {"purge", "brick", "format"}
          BY <4>2, <4>3
        <4> QED
          BY <4>4, NothingOwed DEF t
      <3> QED
        BY <3>1, <3>2
    <2> QED
      BY <1>1, <2>1, <2>2, ForgetReplaced
  <1> QED
    BY <1>3, <1>4, <1>5, <1>6, <1>7, <1>8, <1>9, <1>10, <1>11, <1>12, <1>13, <1>14, <1>15, <1>16, <1>17
       DEF Quiet

LEMMA LoadForgets ==
  ASSUME TypeOK, ForgetInv, Load, disturbed' = disturbed, moved' = moved
  PROVE  ForgetInv'
  <1>1. /\ OnlyChanges({"round"}) /\ op.round \in {0, 2} /\ op'.round = op.round + 1
        /\ snap' = reg /\ reg' = reg
    BY LoadDoes
  <1>2. op'.todo = op.todo /\ Steps' = Steps /\ op'.kind = op.kind /\ op'.cleared = op.cleared
        /\ op'.used = op.used /\ op'.vessel = op.vessel /\ op'.face = op.face
    BY <1>1 DEF OnlyChanges, Steps
  <1>3. op'.round \in {2, 3} => op.round \in {2, 3}
    BY <1>1
  <1> QED
    BY <1>1, <1>2, <1>3 DEF ForgetInv

(* The first round writes back what it has loaded. *)
LEMMA SaveCopies ==
  ASSUME TypeOK, PlanOK, SameInv, ForgetInv, Save, ~disturbed
  PROVE  reg' = reg
  <1>1. reg' = WithVessel(snap, op.vessel) /\ op.round = 1
    BY SaveDoes
  <1>2. ~moved /\ snap = reg
    BY <1>1 DEF ForgetInv
  <1>3. At("touch")
    BY DEF Save
  <1>4. WithVessel(snap, op.vessel) = snap
    BY <1>1, <1>2, <1>3, CopyLists
  <1> QED
    BY <1>1, <1>2, <1>4

LEMMA SaveForgets ==
  ASSUME TypeOK, PlanOK, SameInv, ForgetInv, Save, disturbed' = disturbed, moved' = moved
  PROVE  ForgetInv'
  <1>1. /\ OnlyChanges({"face", "round"}) /\ op'.round = 2
        /\ op.vessel \in DOMAIN reg' /\ op'.face = reg'[op.vessel].face
        /\ reg' = WithVessel(snap, op.vessel) /\ op.round = 1
    BY SaveDoes
  <1>2. op'.todo = op.todo /\ Steps' = Steps /\ op'.kind = op.kind /\ op'.cleared = op.cleared
        /\ op'.used = op.used /\ op'.vessel = op.vessel
    BY <1>1 DEF OnlyChanges, Steps
  <1>3. ~disturbed => reg' = reg
    BY SaveCopies
  <1>4. op'.round \notin {1, 3}
    BY <1>1
  <1> QED
    BY <1>1, <1>2, <1>3, <1>4 DEF ForgetInv

(* What a correction that forgets makes of a Face *)
LEMMA Forgetting ==
  ASSUME NEW f \in FaceDetail, NEW set \in Resets, NEW n, NEW p
  PROVE  /\ Touched(f, set, n, p).count = 0
         /\ set = "fresh" \/ f = FreshFace => Touched(f, set, n, p) = FreshFace
  BY DEF Touched, Resets, FreshFace, FaceDetail

(* The second round corrects the Face it names: a Face that was cleared is *)
(* forgotten by it, stays forgotten, or is still owed by a later step.     *)
LEMMA ResaveForgets ==
  ASSUME TypeOK, PlanOK, RoundOK, SameInv, ClearsLast, ForgetInv, Resave,
         disturbed' = disturbed, moved' = moved
  PROVE  ForgetInv'
  <1> DEFINE s == op.todo[1]
             v == op.vessel
  <1>1. /\ op.todo # <<>> /\ s.do = "touch" /\ s.mode \in Mode /\ op.round = 3
        /\ OnlyChanges({"face", "round", "todo", "used"})
        /\ op'.todo = Rest /\ op'.round = 0 /\ op'.used = op.used \union {v}
        /\ DOMAIN reg' = DOMAIN snap \union {v}
        /\ reg'[v].face[s.mode] = Corrected(s)
        /\ \A m \in Mode \ {s.mode} : reg'[v].face[m] = op.face[m]
    BY ResaveDoes
  <1>2. op'.kind = op.kind /\ op'.cleared = op.cleared
    BY <1>1 DEF OnlyChanges
  <1>3. OwedLater(op'.kind, op'.todo)
    BY <1>1, <1>2, OwedIs, OwedShifts
  <1>4. \A x \in op'.cleared : x[1] \in op'.used
    BY <1>1, <1>2 DEF ForgetInv
  <1>5. ASSUME ~disturbed, NEW x \in op.cleared, x[1] \in DOMAIN reg'
        PROVE  \/ Forgotten(op.kind, reg'[x[1]].face[x[2]])
               \/ \E i \in Steps' : Owes(op.kind, op'.todo[i], x[2])
    <2> DEFINE m == x[2]
    <2>1. ~moved /\ v \in DOMAIN reg /\ op.face = reg[v].face
      BY <1>1, <1>5 DEF ForgetInv
    <2>2. x[1] = v
      <3>1. At("touch")
        BY DEF Resave
      <3>2. v = WebVessel
        BY <1>1, <2>1, <3>1, CopyLists
      <3> QED
        BY <1>5, <2>1, <3>2 DEF ForgetInv, SameInv
    <2>3. m \in Mode /\ op.face \in FaceDetails /\ op.face[m] \in FaceDetail
      BY <1>5, OpTyped DEF IsBody, FaceDetails
    <2>4. s.set \in Resets
      <3>1. 1 \in Steps
        BY <1>1, OpTyped, Rests DEF Steps
      <3>2. Settles(s)
        BY <1>5, <3>1 DEF ClearsLast
      <3> QED
        BY <1>1, <3>2 DEF Settles
    <2>5. Forgotten(op.kind, op.face[m]) \/ \E i \in Steps : Owes(op.kind, op.todo[i], m)
      BY <1>5, <2>1, <2>2 DEF ForgetInv
    <2>6. CASE \E i \in Steps : i # 1 /\ Owes(op.kind, op.todo[i], m)
      BY <1>1, <2>6, Shifts
    <2>7. CASE Owes(op.kind, s, m)
      <3>1. s.mode = m /\ (op.kind \in Wiping => s.set = "fresh")
        BY <1>1, <2>7 DEF Owes, Mode
      <3>2. /\ Corrected(s).count = 0
            /\ s.set = "fresh" => Corrected(s) = FreshFace
        BY <2>3, <2>4, <3>1, Forgetting DEF Corrected
      <3> QED
        BY <1>1, <2>2, <3>1, <3>2 DEF Forgotten
    <2>8. CASE Forgotten(op.kind, op.face[m])
      <3>1. CASE s.mode = m
        <4>1. /\ Corrected(s).count = 0
              /\ op.face[m] = FreshFace => Corrected(s) = FreshFace
          BY <2>3, <2>4, <3>1, Forgetting DEF Corrected
        <4> QED
          BY <1>1, <2>2, <2>8, <3>1, <4>1 DEF Forgotten
      <3>2. CASE s.mode # m
        BY <1>1, <2>2, <2>3, <2>8, <3>2
      <3> QED
        BY <3>1, <3>2
    <2> QED
      BY <2>5, <2>6, <2>7, <2>8
  <1>6. Steps' = 1..Len(op'.todo) /\ (~disturbed => ~moved)
    BY DEF Steps, ForgetInv
  <1> QED
    BY <1>1, <1>2, <1>3, <1>4, <1>5, <1>6 DEF ForgetInv, OwedLater

(* Forget and ForgetAll are what a plan owes. *)
LEMMA OpensOwed ==
  ASSUME NEW t, NEW k, Opens(t, k)
  PROVE  OwedLater(k, t)
  <1>1. ASSUME NEW i \in 1..Len(t), t[i].do = "purge"
        PROVE  \E j \in 1..Len(t) : j > i /\ Owes(k, t[j], t[i].mode)
    <2>1. k = "purge_other"
      BY <1>1 DEF Opens
    <2>2. Owes(k, Forget(t[i].mode), t[i].mode)
      BY <2>1, StepFields DEF Owes, Wiping, Resets
    <2> QED
      BY <1>1, <2>2 DEF Opens
  <1>2. ASSUME NEW i \in 1..Len(t), t[i].do \in {"brick", "format"}
        PROVE  \E j \in 1..Len(t) : j > i /\ \A m \in Mode : Owes(k, t[j], m)
    <2>1. \A m \in Mode : Owes(k, ForgetAll, m)
      BY StepFields DEF Owes, Resets
    <2> QED
      BY <1>2, <2>1 DEF Opens
  <1> QED
    BY <1>1, <1>2 DEF OwedLater

LEMMA NextForgets ==
  ASSUME TypeOK, PlanOK, RoundOK, SameInv, ClearsLast, ForgetInv, [Next]_vars
  PROVE  ForgetInv'
  <1>1. CASE BeginStep
    <2>1. PICK t, k : Started(t, k)
      BY <1>1, BeginDoes
    <2>2. OwedLater(op'.kind, op'.todo)
      BY <2>1, OpensOwed DEF Started
    <2> QED
      BY <1>1, <2>1, <2>2, BeginDoes, ForgetPlaced DEF Started
  <1>2. CASE Body
    <2>1. disturbed' = disturbed /\ moved' = moved
      BY <1>2 DEF Body, history
    <2> QED
      BY <1>2, <2>1, QuietForgets, LoadForgets, SaveForgets, ResaveForgets DEF Body, Quiet
  <1>3. CASE ConsoleStep
    <2>1. CASE op.todo = <<>>
      <3>1. op'.todo = <<>> /\ op'.cleared = {} /\ op'.round = 0 /\ ~disturbed' /\ ~moved'
        BY <1>3, <2>1, ConsoleDoes, IdlePlan
      <3>2. OwedLater(op'.kind, op'.todo)
        BY <3>1, EmptySeq DEF OwedLater
      <3> QED
        BY <3>1, <3>2, ForgetPlaced
    <2>2. CASE op.todo # <<>>
      <3>1. op' = op /\ disturbed'
        BY <1>3, <2>2, ConsoleDoes
      <3> QED
        BY <3>1 DEF ForgetInv, Steps
    <2> QED
      BY <2>1, <2>2
  <1>4. CASE UNCHANGED vars
    BY <1>4 DEF vars, history, ForgetInv, Steps
  <1> QED
    BY <1>1, <1>2, <1>3, <1>4, NextCases

(* web_target_service.py 81-111: once a body is done, the record of every  *)
(* Face it cleared says that nothing is there - no files, and after a wipe *)
(* or a destroy passphrase neither credentials nor a passphrase - unless   *)
(* the console did something meanwhile.  Each of the two rewrites of the   *)
(* registry behind one correction writes back what it has loaded.          *)
THEOREM ClearedForgottenHolds == Spec => []ClearedForgotten
  <1> DEFINE I == TypeOK /\ PlanOK /\ RoundOK /\ SameInv /\ ClearsLast /\ ForgetInv
  <1>1. Init => I
    <2> SUFFICES ASSUME Init PROVE I
      OBVIOUS
    <2>1. ~disturbed /\ ~moved
      BY DEF Init
    <2> QED
      BY <2>1, InitTyped, InitPlan DEF PlanOK, RoundOK, SameInv, ClearsLast, ForgetInv
  <1>2. I /\ [Next]_vars => I'
    BY NextTyped, NextPlanOK, NextRoundOK, NextSame, NextClearsLast, NextForgets
  <1>3. I => ClearedForgotten
    <2> SUFFICES ASSUME TypeOK, ForgetInv, op.todo = <<>>, ~disturbed,
                        NEW c \in DOMAIN reg, NEW m \in Mode, <<c, m>> \in op.cleared
                 PROVE  Forgotten(op.kind, reg[c].face[m])
      BY DEF ClearedForgotten, Finished, Forgotten, Wiping
    <2>1. Steps = {}
      BY EmptySeq DEF Steps
    <2> DEFINE x == <<c, m>>
    <2>2. x \in op.cleared /\ x[1] = c /\ x[2] = m
      OBVIOUS
    <2> HIDE DEF x
    <2> QED
      BY <2>1, <2>2 DEF ForgetInv
  <1> HIDE DEF I
  <1> QED
    BY <1>1, <1>2, <1>3, PTL DEF Spec

-----------------------------------------------------------------------------
(* What is stored is recorded *)

LEMMA StorePlain ==
  ASSUME op'.result # "stored", \A i \in Steps' : op'.todo[i].do # "write"
  PROVE  StoreInv'
  BY DEF StoreInv

(* Before and after a store is under way there is nothing to keep. *)
LEMMA NotStoring ==
  ASSUME TypeOK, StoreInv, op.todo # <<>>, op.todo[1].do \notin {"touch", "write"}
  PROVE  op.result # "stored" /\ \A i \in Steps : op.todo[i].do # "write"
  <1>1. 1 \in Steps /\ \A i \in Steps : i \in Nat /\ (i # 1 => i > 1)
    BY OpTyped, Rests DEF Steps
  <1>2. op.result # "stored"
    BY <1>1 DEF StoreInv
  <1>3. ASSUME NEW i \in Steps, op.todo[i].do = "write"
        PROVE  FALSE
    <2>1. i > 1
      BY <1>1, <1>3
    <2>2. op.todo[1] = Touch(op.mode, "armed")
      BY <1>1, <1>3, <2>1 DEF StoreInv
    <2> QED
      BY <2>2, StepFields
  <1> QED
    BY <1>2, <1>3

LEMMA PlainShifts ==
  ASSUME TypeOK, StoreInv, op.todo # <<>>, op.todo[1].do \notin {"touch", "write"},
         op'.todo = Rest, op'.result = op.result
  PROVE  StoreInv'
  BY NotStoring, Shifts, StorePlain

LEMMA PlainGivesUp ==
  ASSUME GivesUp
  PROVE  StoreInv'
  BY NothingLeft, StorePlain DEF GivesUp

LEMMA WriteStores ==
  ASSUME TypeOK, PlanOK, StoreInv, Write, reg' = reg, disturbed' = disturbed
  PROVE  StoreInv'
  <1> DEFINE m == op.mode
  <1>1. op.todo # <<>> /\ op.todo[1].do = "write"
    BY WriteDoes
  <1>2. CASE ~GivesUp
    <2>1. /\ op'.files = op.files \union {"upload"} /\ op'.todo = Rest
          /\ op'.result = "stored" /\ OnlyChanges({"todo", "files", "result"})
          /\ content'[op.vessel][m].open = op.pass
          /\ content'[op.vessel][m].files = op'.files
      BY <1>2, WriteDoes
    <2>2. op'.mode = m /\ op'.vessel = op.vessel /\ op'.arm = op.arm /\ op'.pass = op.pass
      BY <2>1 DEF OnlyChanges
    <2>3. /\ \A i \in Steps' : i \in Nat /\ i >= 1 /\ i + 1 \in Steps /\ op'.todo[i] = op.todo[i + 1]
          /\ \A i \in Steps : i \in Nat /\ (i # 1 => i - 1 \in Steps' /\ op'.todo[i - 1] = op.todo[i])
          /\ 1 \in Steps
      <3>1. \A i \in Steps' : i \in Nat /\ i >= 1
        BY OpTyped, Rests, <1>1, <2>1 DEF Steps, Rest
      <3> QED
        BY <1>1, <2>1, <3>1, Shifts
    <2>4. /\ m \in Mode
          /\ \A j \in Steps : j > 1 => op.todo[j] \in {Touch(m, "count"), Touch(m, "creds")}
          /\ \A set \in {"count", "creds"} : \E j \in Steps : j > 1 /\ op.todo[j] = Touch(m, set)
          /\ ~disturbed /\ op.arm # "none" => Kept.destroy = op.arm
      BY <1>1, <2>3 DEF StoreInv
    <2>5. \A i \in Steps' : op'.todo[i] \in {Touch(m, "count"), Touch(m, "creds")}
      <3> SUFFICES ASSUME NEW i \in Steps' PROVE op'.todo[i] \in {Touch(m, "count"), Touch(m, "creds")}
        OBVIOUS
      <3>1. i + 1 \in Steps /\ i + 1 > 1 /\ op'.todo[i] = op.todo[i + 1]
        BY <2>3
      <3> QED
        BY <2>4, <3>1
    <2>6. \A i \in Steps' : op'.todo[i].do = "touch"
      BY <2>5, StepFields
    <2>7. \A set \in {"count", "creds"} : \E i \in Steps' : op'.todo[i] = Touch(m, set)
      <3> SUFFICES ASSUME NEW set \in {"count", "creds"}
                   PROVE  \E i \in Steps' : op'.todo[i] = Touch(m, set)
        OBVIOUS
      <3>1. PICK j \in Steps : j > 1 /\ op.todo[j] = Touch(m, set)
        BY <2>4
      <3>2. j # 1
        BY <3>1
      <3> QED
        BY <2>3, <3>1, <3>2
    <2>8. Kept' = Kept
      BY <2>2 DEF Kept
    <2>9. "upload" \in op'.files
      BY <2>1
    <2> QED
      BY <2>1, <2>2, <2>4, <2>5, <2>6, <2>7, <2>8, <2>9 DEF StoreInv
  <1> QED
    BY <1>2, PlainGivesUp

LEMMA ReadStores ==
  ASSUME TypeOK, PlanOK, StoreInv, Read
  PROVE  StoreInv'
  <1>1. op.todo # <<>> /\ op.todo[1].do = "read" /\ op.mode \in Mode
    BY ReadDoes
  <1>2. op.result # "stored"
    BY <1>1, NotStoring
  <1>3. CASE op.vessel = Legacy /\ op'.todo = <<>> /\ OnlyChanges({"todo", "result"})
    BY <1>3, NothingLeft DEF OnlyChanges, StoreInv
  <1>4. CASE op'.todo = StoreInto(op.mode, op.arm) /\ OnlyChanges({"todo", "files", "used"})
    <2> DEFINE m == op.mode
               t == op'.todo
    <2>1. m \in Mode /\ t = StoreInto(m, op.arm) /\ op.arm \in Pass \union {"none"}
      BY <1>1, <1>4, OpTyped DEF IsBody
    <2>2. \/ /\ op.arm = "none" /\ 1..Len(t) = {1, 2, 3} /\ t[1].do = "write"
             /\ t[2] = Touch(m, "count") /\ t[3] = Touch(m, "creds")
          \/ /\ op.arm # "none" /\ 1..Len(t) = {1, 2, 3, 4} /\ t[1] = Touch(m, "armed") /\ t[2].do = "write"
             /\ t[3] = Touch(m, "count") /\ t[4] = Touch(m, "creds")
      BY <2>1, StorePlan
    <2>3. \A x : Touch(m, x).do = "touch"
      BY StepFields
    <2>4. /\ op'.mode = m /\ op'.arm = op.arm /\ op'.result # "stored"
          /\ Steps' = 1..Len(t)
      BY <1>2, <1>4 DEF OnlyChanges, Steps
    <2> HIDE DEF t
    <2>5. ASSUME NEW i \in 1..Len(t), t[i].do = "write"
          PROVE  /\ \A j \in 1..Len(t) : /\ j < i => t[j] = Touch(m, "armed")
                                         /\ j > i => t[j] \in {Touch(m, "count"), Touch(m, "creds")}
                 /\ \A set \in {"count", "creds"} : \E j \in 1..Len(t) : j > i /\ t[j] = Touch(m, set)
                 /\ op.arm # "none" => i # 1
      <3> HIDE DEF m
      <3>1. CASE op.arm = "none"
        <4>1. /\ op.arm = "none" /\ 1..Len(t) = {1, 2, 3} /\ t[1].do = "write"
              /\ t[2] = Touch(m, "count") /\ t[3] = Touch(m, "creds") /\ i = 1
          BY <2>2, <2>3, <2>5, <3>1
        <4> QED
          BY <4>1
      <3>2. CASE op.arm # "none"
        <4>1. /\ op.arm # "none" /\ 1..Len(t) = {1, 2, 3, 4} /\ t[1] = Touch(m, "armed") /\ i = 2
              /\ t[3] = Touch(m, "count") /\ t[4] = Touch(m, "creds")
          BY <2>2, <2>3, <2>5, <3>2
        <4> QED
          BY <4>1
      <3> QED
        BY <3>1, <3>2
    <2> QED
      BY <2>1, <2>4, <2>5 DEF StoreInv, t
  <1> QED
    BY <1>3, <1>4, ReadDoes, PlainGivesUp

LEMMA QuietStores ==
  ASSUME TypeOK, PlanOK, StoreInv, Quiet, disturbed' = disturbed
  PROVE  StoreInv'
  <1>1. reg' = reg /\ op.todo # <<>>
    BY QuietKeeps
  <1>2. GivesUp => StoreInv'
    BY PlainGivesUp
  <1>3. CASE Look
    BY <1>1, <1>2, <1>3, LookDoes, Heads, PlainShifts DEF OnlyChanges
  <1>4. CASE LookAgain
    BY <1>1, <1>2, <1>4, LookAgainDoes, Heads, PlainShifts DEF OnlyChanges
  <1>5. CASE Target
    BY <1>1, <1>5, TargetDoes, Heads, PlainShifts DEF OnlyChanges
  <1>6. CASE FindContainer
    BY <1>1, <1>6, FindContainerDoes, Heads, PlainShifts DEF OnlyChanges
  <1>7. CASE Pick
    BY <1>1, <1>2, <1>7, PickDoes, Heads, PlainShifts DEF OnlyChanges
  <1>8. CASE Capture
    BY <1>1, <1>2, <1>8, CaptureDoes, Heads, PlainShifts DEF OnlyChanges
  <1>9. CASE Purge
    BY <1>1, <1>9, PurgeDoes, Heads, PlainShifts DEF OnlyChanges
  <1>10. CASE WipeContainer
    BY <1>1, <1>10, WipeContainerDoes, Heads, PlainShifts DEF OnlyChanges
  <1>11. CASE Unbind
    BY <1>1, <1>11, UnbindDoes, Heads, PlainShifts DEF OnlyChanges
  <1>12. CASE Write
    BY <1>1, <1>12, WriteStores
  <1>13. CASE Reset
    <2>1. OnlyChanges({"todo", "vessel"}) /\ \A i \in Steps' : op'.todo[i].do \in {"unbind", "touch"}
      BY <1>13, ResetPlan
    <2>2. op'.result # "stored"
      BY <1>1, <1>13, <2>1, Heads, NotStoring DEF OnlyChanges
    <2> QED
      BY <2>1, <2>2, StorePlain
  <1>14. CASE Select
    <2>1. CASE /\ OnlyChanges({"todo", "mode", "first"})
               /\ op'.todo \in {<<Do("capture"), Do("target"), Do("read")>>, <<Do("target"), Do("read")>>}
      <3> DEFINE t == op'.todo
      <3>1. \/ 1..Len(t) = {1, 2, 3} /\ t[1].do = "capture" /\ t[2].do = "target" /\ t[3].do = "read"
            \/ 1..Len(t) = {1, 2} /\ t[1].do = "target" /\ t[2].do = "read"
        BY <2>1, SelectPlan
      <3>2. op'.result # "stored"
        BY <1>1, <1>14, <2>1, Heads, NotStoring DEF OnlyChanges
      <3> HIDE DEF t
      <3>3. \A i \in 1..Len(t) : t[i].do # "write"
        BY <3>1
      <3> QED
        BY <3>2, <3>3, StorePlain DEF Steps, t
    <2> QED
      BY <1>2, <1>14, <2>1, SelectDoes
  <1>15. CASE Open
    <2> DEFINE t == op'.todo
               m == op.first
               n == OtherMode(m)
    <2>1. op'.result # "stored"
      BY <1>15, OpenDoes DEF GivesUp
    <2>2. \/ t = <<>>
          \/ 1..Len(t) = {1} /\ t[1].do \in {"verify", "touch"}
          \/ t[1].do = "touch" /\ 1..Len(t) = {1, 2, 3, 4} /\ ClearsFrom(t, 1, n)
          \/ 1..Len(t) = {1, 2, 3} /\ ClearsFrom(t, 0, n)
          \/ 1..Len(t) = {1, 2, 3} /\ ClearsFrom(t, 0, m)
      BY <1>15, OpenPlaces
    <2>3. /\ \A x : ClearsFrom(t, 1, x) => t[2].do = "container" /\ t[3].do = "purge" /\ t[4].do = "reset"
          /\ \A x : ClearsFrom(t, 0, x) => t[1].do = "container" /\ t[2].do = "purge" /\ t[3].do = "reset"
      BY DEF ClearsFrom
    <2> HIDE DEF t, m, n
    <2>4. CASE t = <<>>
      BY <2>1, <2>4, NothingLeft, StorePlain DEF t
    <2>5. CASE t # <<>>
      <3>1. \A i \in 1..Len(t) : t[i].do # "write"
        BY <2>2, <2>3, <2>5
      <3> QED
        BY <2>1, <3>1, StorePlain DEF Steps, t
    <2> QED
      BY <2>4, <2>5
  <1>16. CASE Verify
    <2>1. CASE ~GivesUp
      <3> DEFINE t == op'.todo
      <3>1. PICK m \in Mode : OnlyChanges({"todo", "at"}) /\ t = DestroySteps(m)
        BY <1>16, <2>1, VerifyDoes, Zenon DEF DestroySteps
      <3>2. 1..Len(t) = {1, 2} /\ t[1].do = "purge" /\ t[2].do = "touch"
        BY <3>1, DestroyPlan
      <3>3. op'.result # "stored"
        BY <1>1, <1>16, <3>1, Heads, NotStoring DEF OnlyChanges
      <3> HIDE DEF t
      <3>4. \A i \in 1..Len(t) : t[i].do # "write"
        BY <3>2
      <3> QED
        BY <3>3, <3>4, StorePlain DEF Steps, t
    <2> QED
      BY <1>2, <2>1
  <1>17. CASE Read
    BY <1>17, ReadStores
  <1> QED
    BY <1>3, <1>4, <1>5, <1>6, <1>7, <1>8, <1>9, <1>10, <1>11, <1>12, <1>13, <1>14, <1>15, <1>16, <1>17
       DEF Quiet

(* A correction changes the one thing it is about. *)
LEMMA Correcting ==
  ASSUME NEW f, NEW n, NEW p
  PROVE  /\ Touched(f, "count", n, p).count = n
         /\ Touched(f, "count", n, p).destroy = f.destroy
         /\ Touched(f, "count", n, p).creds = f.creds
         /\ Touched(f, "creds", n, p).creds = "set"
         /\ Touched(f, "creds", n, p).destroy = f.destroy
         /\ Touched(f, "creds", n, p).count = f.count
         /\ Touched(f, "armed", n, p).destroy = p
  BY DEF Touched, Resets

(* The first round of a correction, and its two loads, leave what is       *)
(* stored and what is recorded of it as they are.                          *)
LEMMA LoadsStore ==
  ASSUME TypeOK, StoreInv, OnlyChanges({"face", "round"}), content' = content,
         ~disturbed => reg' = reg, disturbed' = disturbed
  PROVE  StoreInv'
  <1>1. /\ op'.todo = op.todo /\ Steps' = Steps /\ op'.result = op.result /\ op'.mode = op.mode
        /\ op'.arm = op.arm /\ op'.vessel = op.vessel /\ op'.pass = op.pass /\ op'.files = op.files
    BY DEF OnlyChanges, Steps
  <1>2. ~disturbed => Kept' = Kept
    BY <1>1 DEF Kept
  <1> QED
    BY <1>1, <1>2 DEF StoreInv

LEMMA ResaveStores ==
  ASSUME TypeOK, PlanOK, ForgetInv, StoreInv, Resave, content' = content, disturbed' = disturbed
  PROVE  StoreInv'
  <1> DEFINE s == op.todo[1]
             v == op.vessel
             m == op.mode
  <1>1. /\ op.todo # <<>> /\ s.do = "touch" /\ op.round = 3
        /\ OnlyChanges({"face", "round", "todo", "used"}) /\ op'.todo = Rest
        /\ reg'[v].face[s.mode] = Corrected(s)
    BY ResaveDoes
  <1>2. /\ op'.mode = m /\ op'.vessel = v /\ op'.arm = op.arm /\ op'.pass = op.pass
        /\ op'.files = op.files /\ op'.result = op.result
    BY <1>1 DEF OnlyChanges
  <1>3. /\ \A i \in Steps' : i \in Nat /\ i >= 1 /\ i + 1 \in Steps /\ op'.todo[i] = op.todo[i + 1]
        /\ \A i \in Steps : i \in Nat /\ (i # 1 => i - 1 \in Steps' /\ op'.todo[i - 1] = op.todo[i])
        /\ 1 \in Steps
    <2>1. \A i \in Steps' : i \in Nat /\ i >= 1
      BY OpTyped, Rests, <1>1 DEF Steps, Rest
    <2> QED
      BY <1>1, <2>1, Shifts
  <1>4. ~disturbed => op.face[m] = Kept
    BY <1>1 DEF ForgetInv, Kept
  <1>5. \A set : s = Touch(m, set) =>
             Kept' = Touched(op.face[m], set, Cardinality(op.files), op.arm)
    <2> SUFFICES ASSUME NEW set, s = Touch(m, set)
                 PROVE  Kept' = Touched(op.face[m], set, Cardinality(op.files), op.arm)
      OBVIOUS
    <2>1. s.mode = m /\ s.set = set
      BY StepFields
    <2>2. Kept' = reg'[v].face[m]
      BY <1>2 DEF Kept
    <2> QED
      BY <1>1, <2>1, <2>2 DEF Corrected
  <1> HIDE DEF s
  <1>6. ASSUME NEW i \in Steps', op'.todo[i].do = "write"
        PROVE  /\ op'.result # "stored" /\ op'.mode \in Mode
               /\ \A j \in Steps' : /\ j < i => op'.todo[j] = Touch(m, "armed")
                                    /\ j > i => op'.todo[j] \in {Touch(m, "count"), Touch(m, "creds")}
               /\ \A set \in {"count", "creds"} : \E j \in Steps' : j > i /\ op'.todo[j] = Touch(m, set)
               /\ ~disturbed /\ op.arm # "none" => i # 1 \/ Kept'.destroy = op.arm
    <2> DEFINE k == i + 1
    <2>1. i \in Nat /\ i >= 1 /\ k \in Steps /\ op.todo[k].do = "write"
      BY <1>3, <1>6
    <2>2. /\ op.result # "stored" /\ m \in Mode
          /\ \A j \in Steps : /\ j < k => op.todo[j] = Touch(m, "armed")
                              /\ j > k => op.todo[j] \in {Touch(m, "count"), Touch(m, "creds")}
          /\ \A set \in {"count", "creds"} : \E j \in Steps : j > k /\ op.todo[j] = Touch(m, set)
      BY <2>1 DEF StoreInv
    <2>3. ASSUME NEW j \in Steps'
          PROVE  /\ j < i => op'.todo[j] = Touch(m, "armed")
                 /\ j > i => op'.todo[j] \in {Touch(m, "count"), Touch(m, "creds")}
      <3>1. j \in Nat /\ j + 1 \in Steps /\ op'.todo[j] = op.todo[j + 1]
        BY <1>3
      <3>2. (j < i => j + 1 < k) /\ (j > i => j + 1 > k)
        BY <2>1, <3>1
      <3> HIDE DEF k
      <3> QED
        BY <2>2, <3>1, <3>2
    <2>4. ASSUME NEW set \in {"count", "creds"}
          PROVE  \E j \in Steps' : j > i /\ op'.todo[j] = Touch(m, set)
      <3>1. PICK j \in Steps : j > k /\ op.todo[j] = Touch(m, set)
        BY <2>2
      <3>2. j \in Nat /\ j # 1 /\ j - 1 > i
        BY <1>3, <2>1, <3>1
      <3> QED
        BY <1>3, <3>1, <3>2
    <2>5. Kept'.destroy = op.arm
      <3>1. 1 < k
        BY <2>1
      <3> HIDE DEF k
      <3>2. s = Touch(m, "armed")
        BY <1>3, <2>2, <3>1 DEF s
      <3> QED
        BY <1>5, <3>2, Correcting
    <2> QED
      BY <1>2, <2>2, <2>3, <2>4, <2>5
  <1>7. op'.result = "stored" => \A i \in Steps' : op'.todo[i].do = "touch"
    BY <1>2, <1>3 DEF StoreInv
  <1>8. ASSUME op'.result = "stored", v # Legacy
        PROVE  /\ m \in Mode
               /\ \A i \in Steps' : op'.todo[i] \in {Touch(m, "count"), Touch(m, "creds")}
               /\ ~disturbed =>
                    /\ content[v][m].open = op.pass
                    /\ content[v][m].files = op.files
                    /\ "upload" \in op.files
                    /\ Kept'.count = Cardinality(op.files) \/ \E i \in Steps' : op'.todo[i] = Touch(m, "count")
                    /\ Kept'.creds = "set" \/ \E i \in Steps' : op'.todo[i] = Touch(m, "creds")
                    /\ op.arm # "none" => Kept'.destroy = op.arm
    <2>1. /\ m \in Mode
          /\ \A i \in Steps : op.todo[i] \in {Touch(m, "count"), Touch(m, "creds")}
          /\ ~disturbed =>
               /\ content[v][m].open = op.pass
               /\ content[v][m].files = op.files
               /\ "upload" \in op.files
               /\ Kept.count = Cardinality(op.files) \/ \E i \in Steps : op.todo[i] = Touch(m, "count")
               /\ Kept.creds = "set" \/ \E i \in Steps : op.todo[i] = Touch(m, "creds")
               /\ op.arm # "none" => Kept.destroy = op.arm
      BY <1>2, <1>8 DEF StoreInv
    <2>2. \A i \in Steps' : op'.todo[i] \in {Touch(m, "count"), Touch(m, "creds")}
      BY <1>3, <2>1
    <2>3. s = Touch(m, "count") \/ s = Touch(m, "creds")
      BY <1>3, <2>1 DEF s
    <2>4. \A set : (\E i \in Steps : op.todo[i] = Touch(m, set)) =>
                 s = Touch(m, set) \/ \E i \in Steps' : op'.todo[i] = Touch(m, set)
      <3> SUFFICES ASSUME NEW set, NEW i \in Steps, op.todo[i] = Touch(m, set), s # Touch(m, set)
                   PROVE  \E j \in Steps' : op'.todo[j] = Touch(m, set)
        OBVIOUS
      <3>1. i # 1
        BY DEF s
      <3> QED
        BY <1>3, <3>1
    <2>5. Touch(m, "count") # Touch(m, "creds")
      <3>1. Touch(m, "count").set = "count" /\ Touch(m, "creds").set = "creds"
        BY StepFields
      <3> QED
        BY <3>1
    <2>6. CASE s = Touch(m, "count") /\ ~disturbed
      <3>1. /\ Kept'.count = Cardinality(op.files) /\ Kept'.creds = Kept.creds
            /\ Kept'.destroy = Kept.destroy
        BY <1>4, <1>5, <2>6, Correcting
      <3> QED
        BY <2>1, <2>2, <2>4, <2>5, <2>6, <3>1
    <2>7. CASE s = Touch(m, "creds") /\ ~disturbed
      <3>1. /\ Kept'.creds = "set" /\ Kept'.count = Kept.count
            /\ Kept'.destroy = Kept.destroy
        BY <1>4, <1>5, <2>7, Correcting
      <3> QED
        BY <2>1, <2>2, <2>4, <2>5, <2>7, <3>1
    <2> QED
      BY <2>1, <2>2, <2>3, <2>6, <2>7
  <1> QED
    BY <1>2, <1>6, <1>7, <1>8 DEF StoreInv

LEMMA NextStores ==
  ASSUME TypeOK, PlanOK, SameInv, ForgetInv, StoreInv, [Next]_vars
  PROVE  StoreInv'
  <1>1. CASE BeginStep
    <2>1. PICK t, k : Started(t, k)
      BY <1>1, BeginDoes
    <2>2. op'.result # "stored" /\ \A i \in Steps' : op'.todo[i].do # "write"
      BY <2>1 DEF Started, Opens, Steps
    <2> QED
      BY <2>2, StorePlain
  <1>2. CASE Body
    <2>1. disturbed' = disturbed
      BY <1>2 DEF Body, history
    <2>2. CASE Load
      <3>1. OnlyChanges({"round"}) /\ reg' = reg /\ content' = content
        BY <2>2, LoadDoes DEF Load
      <3>2. OnlyChanges({"face", "round"})
        BY <3>1 DEF OnlyChanges
      <3> QED
        BY <2>1, <3>1, <3>2, LoadsStore
    <2>3. CASE Save
      <3>1. OnlyChanges({"face", "round"}) /\ content' = content
        BY <2>3, SaveDoes DEF Save
      <3>2. ~disturbed => reg' = reg
        BY <2>3, SaveCopies
      <3> QED
        BY <2>1, <3>1, <3>2, LoadsStore
    <2>4. CASE Resave
      <3>1. content' = content
        BY <2>4 DEF Resave
      <3> QED
        BY <2>1, <2>4, <3>1, ResaveStores
    <2> QED
      BY <1>2, <2>1, <2>2, <2>3, <2>4, QuietStores DEF Body, Quiet
  <1>3. CASE ConsoleStep
    <2>1. CASE op.todo = <<>>
      <3>1. op'.todo = <<>> /\ op'.result # "stored"
        BY <1>3, <2>1, ConsoleDoes, IdlePlan
      <3> QED
        BY <3>1, NothingLeft, StorePlain
    <2>2. CASE op.todo # <<>>
      <3>1. op' = op /\ disturbed'
        BY <1>3, <2>2, ConsoleDoes
      <3> QED
        BY <3>1 DEF StoreInv, Steps
    <2> QED
      BY <2>1, <2>2
  <1>4. CASE UNCHANGED vars
    BY <1>4 DEF vars, history, StoreInv, Steps, Kept
  <1> QED
    BY <1>1, <1>2, <1>3, <1>4, NextCases

(* vessel_workflow_service.py, add_payload: a store that the WebUI reports *)
(* as done opens with its passphrase, holds the upload beside what was     *)
(* there, is counted and credentialed in the registry, and its destroy     *)
(* passphrase is armed there - over up to three corrections, each of which *)
(* rewrites the whole registry twice - unless the console did something    *)
(* meanwhile.                                                              *)
THEOREM StoreKeptHolds == Spec => []StoreKept
  <1> DEFINE I == TypeOK /\ PlanOK /\ RoundOK /\ SameInv /\ ClearsLast /\ ForgetInv /\ StoreInv
  <1>1. Init => I
    <2> SUFFICES ASSUME Init PROVE I
      OBVIOUS
    <2>1. ~disturbed /\ ~moved
      BY DEF Init
    <2> QED
      BY <2>1, InitTyped, InitPlan DEF PlanOK, RoundOK, SameInv, ClearsLast, ForgetInv, StoreInv
  <1>2. I /\ [Next]_vars => I'
    BY NextTyped, NextPlanOK, NextRoundOK, NextSame, NextClearsLast, NextForgets, NextStores
  <1>3. I => StoreKept
    <2> SUFFICES ASSUME TypeOK, StoreInv PROVE StoreKept
      OBVIOUS
    <2>1. op.todo = <<>> => Steps = {}
      BY EmptySeq DEF Steps
    <2> QED
      BY <2>1 DEF StoreKept, Finished, StoreInv, Kept
  <1> HIDE DEF I
  <1> QED
    BY <1>1, <1>2, <1>3, PTL DEF Spec
=============================================================================
