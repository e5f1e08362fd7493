-------------------------- MODULE Retrieval_proofs --------------------------
(***************************************************************************)
(* For any number of commands, writers and events, and any limits: a       *)
(* lockout was earned by as many failures as the limit says, and one that  *)
(* runs is not shortened - unless a command saved over what another had    *)
(* saved since it loaded, or the record was damaged; and the chain of the  *)
(* log goes on behind what a crash tore - unless two events overlapped.    *)
(*                                                                         *)
(* A command acts on its own copy of the counts, so the first two rest on  *)
(* what a copy is worth (IInv): the copy of a command that loaded after    *)
(* the last save is the record (Current), and a command that was admitted  *)
(* holds a copy without a lockout (AdmittedFree).  Likewise a writer goes  *)
(* on from what it has read of the log (AuditInv): while events do not     *)
(* overlap, that is still the end of the chain (UpToDate), and every       *)
(* record that parses counts those before it (Chained).                    *)
(***************************************************************************)
EXTENDS Retrieval, FiniteSetTheorems, SequenceTheorems, WellFoundedInduction, TLAPS

Stage == {"idle", "loaded", "admitted", "failing", "recording"}

TypeOK ==
    /\ LimiterTypeOK
    /\ tries \in 0..MaxFailures /\ lostUpdate \in BOOLEAN
    /\ pc \in [Command -> Stage]

Current == MayWrite => \A l \in loaded : memory[l] = record.state

Allowed == {"admitted", "failing", "recording"}
AdmittedFree == \A l \in Command : pc[l] \in Allowed => memory[l].locked_until = 0

(* A count that reached the limit is a lockout. *)
Below(s) == s.locked_until = 0 => s.failures < MaxFailures
CountsBelow == Below(record.state) /\ \A l \in Command : Below(memory[l])

(* The record counts what was tried. *)
Counted ==
    ~lostUpdate /\ MayWrite =>
        IF record.state.locked_until = 0
        THEN tries = record.state.failures
        ELSE tries = MaxFailures

IInv == TypeOK /\ Current /\ AdmittedFree /\ CountsBelow /\ Counted

-----------------------------------------------------------------------------
(* What one step of a limiter does *)

LEMMA FreshBelow == Fresh \in AttemptState /\ Below(Fresh) /\ Fresh.locked_until = 0 /\ Fresh.failures = 0
  BY LimitAssumption DEF Fresh, AttemptState, Below

(* One more failure fits the record while the limit is not reached. *)
LEMMA FailedBelow ==
  ASSUME clock \in 1..MaxClock, NEW s \in AttemptState, Below(s), s.locked_until = 0
  PROVE  /\ Failed(s) \in AttemptState /\ Below(Failed(s))
         /\ Failed(s).failures = s.failures + 1
         /\ IF Failed(s).locked_until = 0 THEN s.failures + 1 < MaxFailures
            ELSE s.failures + 1 = MaxFailures
  <1>1. s.failures \in Nat /\ s.failures < MaxFailures /\ MaxFailures \in Nat /\ Lockout \in Nat
    BY LimitAssumption DEF Below, AttemptState
  <1>2. clock \in Nat /\ clock >= 1 /\ MaxClock \in Nat /\ clock <= MaxClock
    BY LimitAssumption
  <1>3. clock + Lockout \in 0..MaxClock + Lockout /\ clock + Lockout # 0
    BY <1>1, <1>2
  <1>4. 0 \in 0..MaxClock + Lockout
    BY <1>1, <1>2
  <1>5. CASE s.failures + 1 >= MaxFailures
    <2>1. Failed(s) = [failures |-> s.failures + 1, locked_until |-> clock + Lockout]
      BY <1>5 DEF Failed
    <2>2. s.failures + 1 = MaxFailures
      BY <1>1, <1>5
    <2> QED BY <2>1, <2>2, <1>1, <1>3 DEF AttemptState, Below
  <1>6. CASE ~(s.failures + 1 >= MaxFailures)
    <2>1. Failed(s) = [failures |-> s.failures + 1, locked_until |-> 0]
      BY <1>6 DEF Failed
    <2>2. s.failures + 1 < MaxFailures
      BY <1>1, <1>6
    <2> QED BY <2>1, <2>2, <1>1, <1>4 DEF AttemptState, Below
  <1> QED BY <1>5, <1>6

(* Whatever a command saves, its copy is the record, and the only one the  *)
(* others may still trust is the one that was.                             *)
LEMMA SetKeeps ==
  ASSUME IInv, NEW l \in Command, NEW s \in AttemptState, Below(s), Set(l, s), clock' = clock
  PROVE  /\ LimiterTypeOK' /\ lostUpdate' \in BOOLEAN
         /\ Current' /\ CountsBelow'
         /\ memory' = [memory EXCEPT ![l] = s]
         /\ MayWrite' => /\ MayWrite /\ record'.state = s
                         /\ ~lostUpdate' => ~lostUpdate /\ memory[l] = record.state
  <1> USE DEF IInv, TypeOK, LimiterTypeOK
  <1>1. memory' = [memory EXCEPT ![l] = s] /\ memory' \in [Command -> AttemptState]
    BY DEF Set
  <1>2. CASE ~MayWrite
    <2>1. UNCHANGED <<record, loaded, lostUpdate>>
      BY <1>2 DEF Set
    <2>2. ~MayWrite'
      BY <1>2, <2>1 DEF MayWrite
    <2> QED BY <1>1, <2>1, <2>2 DEF Current, CountsBelow, Below
  <1>3. CASE MayWrite
    <2>1. /\ record' = [phase |-> "initialized", state |-> s]
          /\ loaded' = loaded \intersect {l}
          /\ lostUpdate' = (lostUpdate \/ l \notin loaded)
      BY <1>3 DEF Set, Saved
    <2>2. record'.state = s /\ record'.phase = "initialized"
      BY <2>1
    <2>3. \A k \in loaded' : memory'[k] = record'.state
      BY <1>1, <2>1, <2>2
    <2>4. CountsBelow'
      BY <1>1, <2>2 DEF CountsBelow, Below
    <2>5. LimiterTypeOK' /\ lostUpdate' \in BOOLEAN
      BY <1>1, <2>1, <2>2
    <2>6. ~lostUpdate' => ~lostUpdate /\ memory[l] = record.state
      BY <1>3, <2>1 DEF Current
    <2> QED BY <1>1, <1>3, <2>2, <2>3, <2>4, <2>5, <2>6 DEF Current
  <1> QED BY <1>2, <1>3

(* What a save says of the counts it found. *)
LEMMA FoundCounts ==
  ASSUME IInv, NEW l \in Command, ~lostUpdate, MayWrite, memory[l] = record.state,
         memory[l].locked_until = 0
  PROVE  tries = memory[l].failures /\ tries < MaxFailures /\ record.state.locked_until \notin 1..clock
  BY LimitAssumption DEF IInv, TypeOK, LimiterTypeOK, Counted, CountsBelow, Below

LEMMA AllowedFree ==
  ASSUME IInv, NEW l \in Command, pc[l] \in Allowed
  PROVE  memory[l] \in AttemptState /\ Below(memory[l]) /\ memory[l].locked_until = 0
  BY DEF IInv, TypeOK, LimiterTypeOK, AdmittedFree, CountsBelow

(* A failure counts one more, a success none. *)
LEMMA FailureCounts ==
  ASSUME IInv, NEW l \in Command, pc[l] \in Allowed, RecordFailure(l)
  PROVE  /\ LimiterTypeOK' /\ lostUpdate' \in BOOLEAN /\ tries' \in 0..MaxFailures
         /\ Current' /\ CountsBelow' /\ Counted'
         /\ \A k \in Command : k # l => memory'[k] = memory[k]
  <1> DEFINE s == Failed(memory[l])
  <1>1. memory[l] \in AttemptState /\ Below(memory[l]) /\ memory[l].locked_until = 0
    BY AllowedFree
  <1>2. /\ s \in AttemptState /\ Below(s) /\ s.failures = memory[l].failures + 1
        /\ IF s.locked_until = 0 THEN memory[l].failures + 1 < MaxFailures
           ELSE memory[l].failures + 1 = MaxFailures
    BY <1>1, FailedBelow DEF IInv, TypeOK, LimiterTypeOK
  <1>3. Set(l, s) /\ clock' = clock
    BY DEF RecordFailure
  <1> HIDE DEF s
  <1>4. /\ LimiterTypeOK' /\ lostUpdate' \in BOOLEAN /\ Current' /\ CountsBelow'
        /\ memory' = [memory EXCEPT ![l] = s]
        /\ MayWrite' => /\ MayWrite /\ record'.state = s
                        /\ ~lostUpdate' => ~lostUpdate /\ memory[l] = record.state
    BY <1>2, <1>3, SetKeeps
  <1>5. tries' = IF record.state.locked_until \in 1..clock THEN 1
                 ELSE IF tries < MaxFailures THEN tries + 1 ELSE tries
    BY DEF RecordFailure
  <1>6. tries' \in 0..MaxFailures
    BY <1>5, LimitAssumption DEF IInv, TypeOK
  <1>7. Counted'
    <2>1. SUFFICES ASSUME ~lostUpdate', MayWrite'
                   PROVE  IF s.locked_until = 0 THEN tries' = s.failures ELSE tries' = MaxFailures
      BY <1>4 DEF Counted
    <2>2. tries = memory[l].failures /\ tries < MaxFailures /\ record.state.locked_until \notin 1..clock
      BY <2>1, <1>1, <1>4, FoundCounts
    <2> QED BY <1>2, <1>5, <2>2
  <1>8. \A k \in Command : k # l => memory'[k] = memory[k]
    BY <1>4 DEF IInv, TypeOK, LimiterTypeOK
  <1> QED BY <1>4, <1>6, <1>7, <1>8

LEMMA ClearCounts ==
  ASSUME IInv, NEW l \in Command, Set(l, Fresh), tries' = 0, clock' = clock
  PROVE  /\ LimiterTypeOK' /\ lostUpdate' \in BOOLEAN /\ tries' \in 0..MaxFailures
         /\ Current' /\ CountsBelow' /\ Counted'
         /\ memory'[l].locked_until = 0
         /\ \A k \in Command : k # l => memory'[k] = memory[k]
  <1>1. Fresh \in AttemptState /\ Below(Fresh) /\ Fresh.locked_until = 0 /\ Fresh.failures = 0
    BY FreshBelow
  <1>2. /\ LimiterTypeOK' /\ lostUpdate' \in BOOLEAN /\ Current' /\ CountsBelow'
        /\ memory' = [memory EXCEPT ![l] = Fresh]
        /\ MayWrite' => record'.state = Fresh
    BY <1>1, SetKeeps
  <1>3. Counted'
    BY <1>1, <1>2 DEF Counted
  <1>4. memory'[l] = Fresh /\ \A k \in Command : k # l => memory'[k] = memory[k]
    BY <1>2 DEF IInv, TypeOK, LimiterTypeOK
  <1> QED BY <1>1, <1>2, <1>3, <1>4, LimitAssumption

-----------------------------------------------------------------------------
(* The invariant *)

(* Where a command goes, and who may be where with which copy *)
LEMMA GoKeeps ==
  ASSUME TypeOK, NEW l \in Command, NEW from, NEW to \in Stage, Go(l, from, to)
  PROVE  /\ pc[l] = from /\ pc' \in [Command -> Stage] /\ pc'[l] = to
         /\ \A k \in Command : k # l => pc'[k] = pc[k]
  BY DEF TypeOK, Go

LEMMA StillIInv ==
  ASSUME IInv, UNCHANGED limiterVars, pc' \in [Command -> Stage],
         \A l \in Command : pc'[l] \in Allowed => memory[l].locked_until = 0
  PROVE  IInv'
  BY DEF IInv, TypeOK, LimiterTypeOK, Current, MayWrite, AdmittedFree, CountsBelow, Below, Counted,
         limiterVars

LEMMA InitIInv == Init => IInv
  <1> SUFFICES ASSUME Init PROVE IInv
    OBVIOUS
  <1>1. /\ clock = 1 /\ record.state = Fresh /\ record.phase = "uninitialized"
        /\ \A l \in Command : memory[l] = Fresh
        /\ memory = [l \in Command |-> Fresh] /\ loaded = {} /\ lostUpdate = FALSE /\ tries = 0
        /\ pc = [l \in Command |-> "idle"]
    BY DEF Init, LimiterInit
  <1>2. Fresh \in AttemptState /\ Below(Fresh) /\ Fresh.locked_until = 0 /\ Fresh.failures = 0
    BY FreshBelow
  <1>3. TypeOK
    <2>1. clock \in 1..MaxClock /\ tries \in 0..MaxFailures
      BY <1>1, LimitAssumption
    <2>2. record.state \in AttemptState /\ memory \in [Command -> AttemptState]
      BY <1>1, <1>2
    <2>3. pc \in [Command -> Stage] /\ loaded \subseteq Command /\ lostUpdate \in BOOLEAN
      BY <1>1 DEF Stage
    <2> QED BY <1>1, <2>1, <2>2, <2>3 DEF TypeOK, LimiterTypeOK
  <1>4. Current /\ AdmittedFree /\ CountsBelow /\ Counted
    BY <1>1, <1>2 DEF Current, AdmittedFree, Allowed, CountsBelow, Below, Counted
  <1> QED BY <1>3, <1>4 DEF IInv

LEMMA NextIInv == IInv /\ [Next]_vars => IInv'
  <1> SUFFICES ASSUME IInv, [Next]_vars PROVE IInv'
    OBVIOUS
  <1>a. TypeOK
    BY DEF IInv
  <1>b. \A k \in Command : pc[k] \in Allowed => memory[k].locked_until = 0
    BY DEF IInv, AdmittedFree
  <1>1. ASSUME NEW l \in Command, Start(l) PROVE IInv'
    <2>1. Go(l, "idle", "loaded") /\ Load(l)
      BY <1>1 DEF Start
    <2>2. /\ pc' \in [Command -> Stage] /\ pc'[l] = "loaded"
          /\ \A k \in Command : k # l => pc'[k] = pc[k]
      BY <1>a, <2>1, GoKeeps DEF Stage
    <2> DEFINE s == IF record.phase = "corrupt" THEN Fresh ELSE record.state
    <2>3. memory' = [memory EXCEPT ![l] = s]
      BY <2>1 DEF Load
    <2>4. s \in AttemptState /\ Below(s) /\ (MayWrite => s = record.state)
      BY <1>a, FreshBelow DEF IInv, TypeOK, LimiterTypeOK, CountsBelow, MayWrite
    <2> HIDE DEF s
    <2>5. memory' \in [Command -> AttemptState] /\ memory'[l] = s
          /\ \A k \in Command : k # l => memory'[k] = memory[k]
      BY <1>a, <2>3, <2>4 DEF TypeOK, LimiterTypeOK
    <2>6. UNCHANGED <<clock, record, tries, lostUpdate>> /\ loaded' = loaded \union {l}
      BY <2>1 DEF Load
    <2>7. TypeOK'
      BY <1>a, <2>2, <2>5, <2>6 DEF TypeOK, LimiterTypeOK
    <2>8. Current'
      BY <1>a, <2>4, <2>5, <2>6 DEF IInv, Current, MayWrite, TypeOK, LimiterTypeOK
    <2>9. AdmittedFree'
      BY <1>b, <2>2, <2>5 DEF AdmittedFree, Allowed
    <2>10. CountsBelow' /\ Counted'
      BY <2>4, <2>5, <2>6 DEF IInv, CountsBelow, Below, Counted, MayWrite
    <2> QED BY <2>7, <2>8, <2>9, <2>10 DEF IInv
  <1>2. ASSUME NEW l \in Command, Check(l) PROVE IInv'
    <2>1. CASE Go(l, "loaded", "admitted") /\ Admit(l)
      <3>1. /\ pc' \in [Command -> Stage] /\ pc'[l] = "admitted"
            /\ \A k \in Command : k # l => pc'[k] = pc[k]
        BY <1>a, <2>1, GoKeeps DEF Stage
      <3>2. CASE Served(memory[l])
        <4>1. Set(l, Fresh) /\ tries' = 0 /\ clock' = clock
          BY <2>1, <3>2 DEF Admit
        <4>2. /\ LimiterTypeOK' /\ lostUpdate' \in BOOLEAN /\ tries' \in 0..MaxFailures
              /\ Current' /\ CountsBelow' /\ Counted'
              /\ memory'[l].locked_until = 0
              /\ \A k \in Command : k # l => memory'[k] = memory[k]
          BY <4>1, ClearCounts
        <4> QED BY <1>b, <3>1, <4>2 DEF IInv, TypeOK, AdmittedFree
      <3>3. CASE ~Served(memory[l])
        <4>1. UNCHANGED limiterVars /\ memory[l].locked_until = 0
          BY <2>1, <3>3 DEF Admit, Served
        <4> QED BY <1>b, <3>1, <4>1, StillIInv
      <3> QED BY <3>2, <3>3
    <2>2. CASE Go(l, "loaded", "idle") /\ Refuse(l)
      <3>1. /\ pc' \in [Command -> Stage] /\ pc'[l] = "idle"
            /\ \A k \in Command : k # l => pc'[k] = pc[k]
        BY <1>a, <2>2, GoKeeps DEF Stage
      <3>2. UNCHANGED limiterVars
        BY <2>2 DEF Refuse
      <3> QED BY <1>b, <3>1, <3>2, StillIInv DEF Allowed
    <2> QED BY <1>2, <2>1, <2>2 DEF Check
  <1>3. ASSUME NEW l \in Command,
               Uncounted(l) \/ WrongPassphrase(l) \/ Record(l)
        PROVE  IInv'
    <2>1. UNCHANGED limiterVars /\ pc[l] \in Allowed
          /\ \E to \in Stage : pc' = [pc EXCEPT ![l] = to]
      BY <1>3 DEF Uncounted, WrongPassphrase, Record, Go, Allowed, Stage
    <2>2. /\ pc' \in [Command -> Stage]
          /\ \A k \in Command : k # l => pc'[k] = pc[k]
      BY <1>a, <2>1 DEF TypeOK
    <2> QED BY <1>b, <2>1, <2>2, StillIInv
  <1>4. ASSUME NEW l \in Command, NoObject(l) \/ CountFailure(l) PROVE IInv'
    <2>1. pc[l] \in Allowed /\ RecordFailure(l) /\ pc' = [pc EXCEPT ![l] = "idle"]
      BY <1>4 DEF NoObject, CountFailure, Go, Allowed
    <2>2. /\ pc' \in [Command -> Stage] /\ pc'[l] = "idle"
          /\ \A k \in Command : k # l => pc'[k] = pc[k]
      BY <1>a, <2>1 DEF TypeOK, Stage
    <2>3. /\ LimiterTypeOK' /\ lostUpdate' \in BOOLEAN /\ tries' \in 0..MaxFailures
          /\ Current' /\ CountsBelow' /\ Counted'
          /\ \A k \in Command : k # l => memory'[k] = memory[k]
      BY <2>1, FailureCounts
    <2> QED BY <1>b, <2>2, <2>3 DEF IInv, TypeOK, AdmittedFree, Allowed
  <1>5. ASSUME NEW l \in Command, Succeed(l) PROVE IInv'
    <2>1. Set(l, Fresh) /\ tries' = 0 /\ clock' = clock /\ Go(l, "admitted", "recording")
      BY <1>5 DEF Succeed, RecordSuccess
    <2>2. /\ pc' \in [Command -> Stage] /\ pc'[l] = "recording"
          /\ \A k \in Command : k # l => pc'[k] = pc[k]
      BY <1>a, <2>1, GoKeeps DEF Stage
    <2>3. /\ LimiterTypeOK' /\ lostUpdate' \in BOOLEAN /\ tries' \in 0..MaxFailures
          /\ Current' /\ CountsBelow' /\ Counted'
          /\ memory'[l].locked_until = 0
          /\ \A k \in Command : k # l => memory'[k] = memory[k]
      BY <2>1, ClearCounts
    <2> QED BY <1>b, <2>2, <2>3 DEF IInv, TypeOK, AdmittedFree
  <1>6. ASSUME NEW l \in Command, Interrupt(l) PROVE IInv'
    <2>1. UNCHANGED limiterVars /\ pc' = [pc EXCEPT ![l] = "idle"]
      BY <1>6 DEF Interrupt
    <2>2. /\ pc' \in [Command -> Stage] /\ pc'[l] = "idle"
          /\ \A k \in Command : k # l => pc'[k] = pc[k]
      BY <1>a, <2>1 DEF TypeOK, Stage
    <2> QED BY <1>b, <2>1, <2>2, StillIInv DEF Allowed
  <1>7. ASSUME WriteStep \/ OtherEvent \/ UNCHANGED vars PROVE IInv'
    <2>1. UNCHANGED <<limiterVars, pc>>
      BY <1>7 DEF WriteStep, OtherEvent, vars
    <2> QED BY <1>a, <1>b, <2>1, StillIInv DEF TypeOK
  <1>8. ASSUME Elapse PROVE IInv'
    <2>1. clock < MaxClock /\ clock' = clock + 1 /\ UNCHANGED <<record, memory, loaded, tries, lostUpdate, pc>>
      BY <1>8 DEF Elapse, Tick
    <2>2. clock' \in 1..MaxClock
      BY <1>a, <2>1, LimitAssumption DEF TypeOK, LimiterTypeOK
    <2> QED BY <1>a, <2>1, <2>2
            DEF IInv, TypeOK, LimiterTypeOK, Current, MayWrite, AdmittedFree, CountsBelow, Below, Counted
  <1>9. ASSUME Corrupt PROVE IInv'
    <2>1. /\ record' = [phase |-> "corrupt", state |-> Fresh]
          /\ UNCHANGED <<clock, memory, loaded, tries, lostUpdate, pc>>
      BY <1>9 DEF Corrupt, Damage
    <2>2. ~MayWrite' /\ record'.state \in AttemptState /\ Below(record'.state)
      BY <2>1, FreshBelow DEF MayWrite
    <2> QED BY <1>a, <2>1, <2>2
            DEF IInv, TypeOK, LimiterTypeOK, Current, AdmittedFree, CountsBelow, Below, Counted
  <1> QED BY <1>1, <1>2, <1>3, <1>4, <1>5, <1>6, <1>7, <1>8, <1>9 DEF Next

LEMMA IInvHolds == Spec => []IInv
  BY InitIInv, NextIInv, PTL DEF Spec

(* attempt_limiter.py, state_store.py: every count stays within the limit, *)
(* in the record and in every command's copy of it.                        *)
THEOREM TypeCorrect == Spec => []LimiterTypeOK
  <1>1. IInv => LimiterTypeOK
    BY DEF IInv, TypeOK
  <1> QED BY <1>1, IInvHolds, PTL

(* attempt_limiter.py 43-57: a lockout was earned by as many failures as   *)
(* the limit says, and that many failures are a lockout.                   *)
THEOREM LockoutEarnedHolds == Spec => []LockoutEarned
  <1>1. IInv => LockoutEarned
    <2> SUFFICES ASSUME IInv, ~lostUpdate, record.phase # "corrupt"
                 PROVE  /\ record.state.locked_until > clock => tries >= MaxFailures
                        /\ tries >= MaxFailures => record.state.locked_until # 0
      BY DEF LockoutEarned
    <2>1. IF record.state.locked_until = 0 THEN tries = record.state.failures ELSE tries = MaxFailures
      BY DEF IInv, Counted, MayWrite
    <2>2. record.state.locked_until = 0 => record.state.failures < MaxFailures
      BY DEF IInv, CountsBelow, Below
    <2>3. clock \in Nat /\ clock >= 1 /\ record.state.failures \in Nat
      BY LimitAssumption DEF IInv, TypeOK, LimiterTypeOK, AttemptState
    <2> QED BY <2>1, <2>2, <2>3, LimitAssumption
  <1> QED BY <1>1, IInvHolds, PTL

(* A save that shortens a lockout is one that should not have happened. *)
LEMMA ShortenedByOthers ==
  ASSUME IInv, NEW l \in Command, NEW s, Set(l, s), record.state.locked_until > clock,
         ~(memory[l].locked_until > clock), record'.phase # "corrupt",
         record'.state.locked_until < record.state.locked_until
  PROVE  lostUpdate'
  <1>1. CASE ~MayWrite
    BY <1>1 DEF Set, MayWrite
  <1>2. CASE MayWrite
    <2>1. lostUpdate' = (lostUpdate \/ l \notin loaded)
      BY <1>2 DEF Set
    <2>2. l \in loaded => memory[l] = record.state
      BY <1>2 DEF IInv, Current
    <2> QED BY <2>1, <2>2
  <1> QED BY <1>1, <1>2

(* attempt_limiter.py 36-50 and 78-88: a lockout that runs is shortened    *)
(* only by a command that saves over what was saved since it loaded, or by *)
(* damage to the record.                                                   *)
THEOREM LockoutStandsHolds == Spec => LockoutStands
  <1>1. IInv /\ [Next]_vars =>
          [(record.state.locked_until > clock
              /\ record'.state.locked_until < record.state.locked_until) =>
                  lostUpdate' \/ record'.phase = "corrupt"]_limiterVars
    <2> SUFFICES ASSUME IInv, [Next]_vars, record.state.locked_until > clock,
                        record'.state.locked_until < record.state.locked_until,
                        record'.phase # "corrupt"
                 PROVE  lostUpdate'
      OBVIOUS
    <2>a. record.state.locked_until \in Nat /\ clock \in Nat
      BY LimitAssumption DEF IInv, TypeOK, LimiterTypeOK, AttemptState
    <2>b. record' # record
      BY <2>a
    <2>1. ASSUME NEW l \in Command, Check(l) PROVE lostUpdate'
      <3>1. Set(l, Fresh) /\ ~Locked(memory[l])
        BY <2>1, <2>b DEF Check, Admit, Refuse, limiterVars
      <3> QED BY <3>1, ShortenedByOthers DEF Locked
    <2>2. ASSUME NEW l \in Command, NoObject(l) \/ CountFailure(l) \/ Succeed(l) PROVE lostUpdate'
      <3>1. pc[l] \in Allowed /\ \E s : Set(l, s)
        BY <2>2 DEF NoObject, CountFailure, Succeed, Go, Allowed, RecordFailure, RecordSuccess
      <3>2. memory[l].locked_until = 0
        BY <3>1, AllowedFree
      <3>3. ~(memory[l].locked_until > clock)
        BY <2>a, <3>2
      <3> QED BY <3>1, <3>3, ShortenedByOthers
    <2>3. ASSUME \/ \E l \in Command :
                        \/ Start(l) \/ Uncounted(l) \/ WrongPassphrase(l) \/ Record(l) \/ Interrupt(l)
                 \/ WriteStep \/ OtherEvent \/ Elapse \/ UNCHANGED vars
          PROVE  FALSE
      <3>1. UNCHANGED record
        BY <2>3 DEF Start, Load, Uncounted, WrongPassphrase, Record, Interrupt, WriteStep, OtherEvent,
                    Elapse, Tick, vars, limiterVars
      <3> QED BY <3>1, <2>b
    <2>4. ~Corrupt
      BY DEF Corrupt, Damage
    <2> QED BY <2>1, <2>2, <2>3, <2>4 DEF Next
  <1> QED BY <1>1, IInvHolds, PTL DEF Spec, LockoutStands

-----------------------------------------------------------------------------
(* The log *)

KeyValue == Writer \union {Missing, Empty, Older}
LineRecord == [ok : BOOLEAN, ended : BOOLEAN, seq : Nat, prev : Nat, id : Nat, key : KeyValue]
EventStep == {"idle", "create", "fill", "chain", "append"}
EventRecord == [step : EventStep, key : KeyValue, id : Nat, seq : Nat, prev : Nat]

AuditTypeOK ==
    /\ lines \in Seq(LineRecord) /\ auth \in KeyValue
    /\ writer \in [Writer -> EventRecord]
    /\ begun \in Nat /\ overlapped \in BOOLEAN

(* A record that parses says how many come before it and which is the last *)
(* of them.                                                                *)
Chained(log, key) ==
    \A i \in Records(log) :
        /\ log[i].seq = Cardinality(Before(log, i)) + 1
        /\ log[i].prev = HashOfLast(log, Before(log, i))
        /\ log[i].key = key

(* What the writer of an event has read is still so. *)
UpToDate(e) ==
    /\ e.step \in {"create", "fill"} => Records(lines) = {}
    /\ e.step \in {"chain", "append"} => e.key = auth /\ auth # Missing
    /\ e.step = "append" => e.seq = NextChainState(lines).seq /\ e.prev = NextChainState(lines).prev

ChainInv ==
    ~overlapped =>
        /\ Chained(lines, auth)
        /\ auth = Missing => Records(lines) = {}
        /\ \A v, w \in Writer : ~Quiet(v) /\ ~Quiet(w) => v = w
        /\ \A w \in Writer : UpToDate(writer[w])

AuditInv == AuditTypeOK /\ ChainInv

LEMMA HasMax ==
  ASSUME NEW n \in Nat, NEW S, S \subseteq 1..n, S # {}
  PROVE  Max(S) \in S /\ \A x \in S : x <= Max(S)
  <1> DEFINE Above(i) == {j \in S : j > i}
             T == {Above(i) : i \in S}
  <1>1. IsFiniteSet(S)
    <2>1. IsFiniteSet(1..n)
      BY FS_Interval
    <2> QED BY <2>1, FS_Subset
  <1>2. PICK A \in T : \A B \in T : <<B, A>> \notin StrictSubsetOrdering(S)
    <2>1. T \subseteq SUBSET S /\ T # {}
      OBVIOUS
    <2>2. IsWellFoundedOn(StrictSubsetOrdering(S), FiniteSubsetsOf(S))
      BY FS_StrictSubsetOrderingWellFounded
    <2>3. T \subseteq FiniteSubsetsOf(S)
      BY <1>1, <2>1, FS_FiniteSubsetsOfFinite
    <2> HIDE DEF T
    <2> QED BY <2>1, <2>2, <2>3, WFMin
  <1>3. PICK m \in S : A = Above(m)
    BY <1>2
  <1>4. ASSUME NEW k \in S PROVE k <= m
    <2>1. SUFFICES ASSUME k > m PROVE FALSE
      OBVIOUS
    <2>2. Above(k) \subseteq Above(m) /\ k \in Above(m) /\ k \notin Above(k)
      <3>1. S \subseteq Int
        OBVIOUS
      <3>2. ASSUME NEW j \in S, j > k PROVE j > m
        <4>1. j \in Int /\ k \in Int /\ m \in Int
          BY <3>1
        <4> QED BY <2>1, <3>2, <4>1
      <3>3. ~(k > k)
        BY <3>1
      <3> QED BY <2>1, <3>2, <3>3
    <2>3. <<Above(k), A>> \in StrictSubsetOrdering(S)
      BY <1>3, <2>2 DEF StrictSubsetOrdering
    <2> QED BY <1>2, <2>3
  <1> QED BY <1>4 DEF Max

LEMMA RecordsType ==
  ASSUME NEW log \in Seq(LineRecord)
  PROVE  /\ Len(log) \in Nat /\ DOMAIN log = 1..Len(log)
         /\ Records(log) \subseteq 1..Len(log) /\ IsFiniteSet(Records(log))
         /\ Cardinality(Records(log)) \in Nat
  <1>1. Len(log) \in Nat /\ DOMAIN log = 1..Len(log)
    BY LenProperties
  <1>2. Records(log) \subseteq 1..Len(log)
    BY <1>1 DEF Records
  <1>3. IsFiniteSet(1..Len(log))
    BY <1>1, FS_Interval
  <1>4. IsFiniteSet(Records(log))
    BY <1>2, <1>3, FS_Subset
  <1> QED BY <1>1, <1>2, <1>4, FS_CardinalityType

LEMMA NextType ==
  ASSUME NEW log \in Seq(LineRecord)
  PROVE  NextChainState(log).seq \in Nat /\ NextChainState(log).prev \in Nat
  <1> DEFINE m == Max(Records(log))
  <1>1. Records(log) # {} => m \in 1..Len(log)
    BY RecordsType, HasMax
  <1>2. Records(log) # {} => log[m] \in LineRecord
    BY <1>1, ElementOfSeq
  <1>3. NextChainState(log) =
          [seq |-> IF Records(log) = {} THEN 1 ELSE log[m].seq + 1,
           prev |-> IF Records(log) = {} THEN GENESIS ELSE log[m].id]
    BY DEF NextChainState, HashOfLast
  <1> HIDE DEF m
  <1> QED BY <1>2, <1>3 DEF LineRecord, GENESIS

(* Who reads to the end of a chain learns how many records it has. *)
LEMMA NextOfChain ==
  ASSUME NEW log \in Seq(LineRecord), NEW key, Chained(log, key)
  PROVE  /\ NextChainState(log).seq = Cardinality(Records(log)) + 1
         /\ NextChainState(log).prev = HashOfLast(log, Records(log))
  <1> DEFINE good == Records(log)
             m == Max(good)
  <1>1. Len(log) \in Nat /\ good \subseteq 1..Len(log) /\ IsFiniteSet(good) /\ Cardinality(good) \in Nat
    BY RecordsType
  <1>2. NextChainState(log).prev = HashOfLast(log, good)
    BY DEF NextChainState
  <1>3. CASE good = {}
    <2>1. NextChainState(log).seq = 1 /\ Cardinality(good) = 0
      BY <1>3, FS_EmptySet DEF NextChainState
    <2> QED BY <1>2, <2>1
  <1>4. CASE good # {}
    <2>1. m \in good /\ \A x \in good : x <= m
      BY <1>1, <1>4, HasMax
    <2>2. Before(log, m) = good \ {m}
      BY <1>1, <2>1 DEF Before
    <2>3. Cardinality(Before(log, m)) = Cardinality(good) - 1
      BY <1>1, <2>1, <2>2, FS_RemoveElement
    <2>4. log[m].seq = Cardinality(Before(log, m)) + 1
      BY <2>1 DEF Chained
    <2>5. NextChainState(log).seq = log[m].seq + 1
      BY <1>4 DEF NextChainState
    <2> HIDE DEF m, good
    <2> QED BY <1>1, <1>2, <2>3, <2>4, <2>5 DEF good
  <1> QED BY <1>3, <1>4

(* A record that was read after the end of the chain goes on with it,      *)
(* torn or whole, on a line of its own or spoilt by the line it fell into. *)
LEMMA AppendedChained ==
  ASSUME NEW log \in Seq(LineRecord), NEW key, Chained(log, key), NEW line \in LineRecord,
         line.ok => /\ line.seq = NextChainState(log).seq /\ line.prev = NextChainState(log).prev
                    /\ line.key = key
  PROVE  Appended(log, line) \in Seq(LineRecord) /\ Chained(Appended(log, line), key)
  <1> DEFINE n == Len(log)
             new == Appended(log, line)
  <1>1. /\ n \in Nat /\ DOMAIN log = 1..n
        /\ Records(log) \subseteq 1..n /\ IsFiniteSet(Records(log)) /\ Cardinality(Records(log)) \in Nat
    BY RecordsType
  <1>2. CASE log # <<>> /\ ~log[Len(log)].ended
    <2>1. new = [log EXCEPT ![n].ok = FALSE, ![n].ended = line.ended] /\ n \in 1..n
      BY <1>2, EmptySeq, LenProperties DEF Appended
    <2>2. log[n] \in LineRecord
      BY <1>1, <2>1, ElementOfSeq
    <2> DEFINE e == [log[n] EXCEPT !.ok = FALSE, !.ended = line.ended]
    <2>3. e \in LineRecord /\ ~e.ok
      BY <2>2 DEF LineRecord
    <2>4. new = [log EXCEPT ![n] = e]
      BY <2>1, <2>2 DEF LineRecord
    <2> HIDE DEF e
    <2>5. new \in Seq(LineRecord) /\ Len(new) = n
      <3>1. n \in 1..Len(log)
        BY <2>1
      <3> HIDE DEF n
      <3>2. [log EXCEPT ![n] = e] \in Seq(LineRecord) /\ Len([log EXCEPT ![n] = e]) = Len(log)
        BY <2>3, <3>1, ExceptSeq
      <3> QED BY <2>4, <3>2 DEF n
    <2>6. DOMAIN new = 1..n /\ new[n] = e /\ \A i \in 1..n : i # n => new[i] = log[i]
      BY <1>1, <2>1, <2>4
    <2> HIDE DEF new, n
    <2>7. Records(new) = Records(log) \ {n}
      BY <1>1, <2>3, <2>6 DEF Records
    <2>8. ASSUME NEW i \in Records(new)
          PROVE  /\ new[i].seq = Cardinality(Before(new, i)) + 1
                 /\ new[i].prev = HashOfLast(new, Before(new, i))
                 /\ new[i].key = key
      <3>0. i \in Records(log) /\ i # n
        BY <2>7, <2>8
      <3>1. i \in 1..n /\ i < n /\ i \in Records(log) /\ new[i] = log[i]
        <4>1. i \in 1..n
          BY <1>1, <3>0
        <4> QED BY <1>1, <2>6, <3>0, <4>1
      <3>2. Before(new, i) = Before(log, i) /\ Before(log, i) \subseteq 1..n
        BY <1>1, <2>7, <3>1 DEF Before
      <3>3. Before(log, i) # {} => Max(Before(log, i)) \in Before(log, i)
        BY <1>1, <3>2, HasMax
      <3>4. Before(log, i) # {} => new[Max(Before(log, i))] = log[Max(Before(log, i))]
        BY <1>1, <2>6, <3>1, <3>3 DEF Before
      <3>5. HashOfLast(new, Before(new, i)) = HashOfLast(log, Before(log, i))
        BY <3>2, <3>4 DEF HashOfLast
      <3> QED BY <3>1, <3>2, <3>5 DEF Chained
    <2> QED BY <2>5, <2>8 DEF Chained, new, n
  <1>3. CASE ~(log # <<>> /\ ~log[Len(log)].ended)
    <2>1. new = Append(log, line)
      BY <1>3 DEF Appended
    <2>2. /\ new \in Seq(LineRecord) /\ Len(new) = n + 1
          /\ \A i \in 1..n : new[i] = log[i]
          /\ new[n + 1] = line
      BY <2>1, AppendProperties
    <2>3. DOMAIN new = 1..n + 1
      BY <1>1, <2>2, LenProperties
    <2> HIDE DEF new
    <2>4. Records(new) = IF line.ok THEN Records(log) \union {n + 1} ELSE Records(log)
      BY <1>1, <2>2, <2>3 DEF Records
    <2>5. ASSUME NEW i \in Records(new)
          PROVE  /\ new[i].seq = Cardinality(Before(new, i)) + 1
                 /\ new[i].prev = HashOfLast(new, Before(new, i))
                 /\ new[i].key = key
      <3>1. CASE i \in Records(log)
        <4>1. i \in 1..n /\ new[i] = log[i]
          BY <1>1, <2>2, <3>1
        <4>2. Before(new, i) = Before(log, i) /\ Before(log, i) \subseteq 1..n
          BY <1>1, <2>4, <4>1 DEF Before
        <4>3. Before(log, i) # {} => Max(Before(log, i)) \in 1..n
          BY <1>1, <4>2, HasMax
        <4>4. HashOfLast(new, Before(new, i)) = HashOfLast(log, Before(log, i))
          BY <2>2, <4>2, <4>3 DEF HashOfLast
        <4> QED BY <3>1, <4>1, <4>2, <4>4 DEF Chained
      <3>2. CASE i \notin Records(log)
        <4>1. i = n + 1 /\ line.ok
          BY <2>4, <2>5, <3>2
        <4>2. Before(new, i) = Records(log)
          BY <1>1, <2>4, <4>1 DEF Before
        <4>3. Records(log) # {} => Max(Records(log)) \in 1..n
          BY <1>1, HasMax
        <4>4. HashOfLast(new, Records(log)) = HashOfLast(log, Records(log))
          BY <2>2, <4>3 DEF HashOfLast
        <4>5. /\ NextChainState(log).seq = Cardinality(Records(log)) + 1
              /\ NextChainState(log).prev = HashOfLast(log, Records(log))
          BY NextOfChain
        <4> QED BY <2>2, <4>1, <4>2, <4>4, <4>5
      <3> QED BY <3>1, <3>2
    <2> QED BY <2>2, <2>5 DEF Chained, new
  <1> QED BY <1>2, <1>3

-----------------------------------------------------------------------------
(* The chain *)

LEMMA InitAudit == Init => AuditInv
  <1> SUFFICES ASSUME Init PROVE AuditInv
    OBVIOUS
  <1>1. writer = [w \in Writer |-> NoEvent] /\ begun = 0 /\ overlapped = FALSE
    BY DEF Init, AuditInit
  <1>2. NoEvent \in EventRecord /\ NoEvent.step = "idle"
    BY DEF NoEvent, EventRecord, EventStep, KeyValue, GENESIS
  <1>3. /\ \A w \in Writer : Quiet(w) /\ UpToDate(writer[w])
        /\ writer \in [Writer -> EventRecord]
    BY <1>1, <1>2 DEF Quiet, UpToDate
  <1>4. CASE lines = <<>> /\ auth = Missing
    <2>1. lines \in Seq(LineRecord) /\ auth \in KeyValue
      BY <1>4 DEF KeyValue
    <2>2. Records(lines) = {}
      BY <1>4 DEF Records
    <2> QED BY <1>1, <1>3, <2>1, <2>2 DEF AuditInv, AuditTypeOK, ChainInv, Chained
  <1>5. CASE ~(lines = <<>> /\ auth = Missing)
    <2> DEFINE a == Line(1, GENESIS, MaxEvents + 1, Older)
               b == [Line(2, MaxEvents + 1, MaxEvents + 2, Older) EXCEPT !.ok = FALSE, !.ended = FALSE]
    <2>1. auth = Older /\ lines = <<a, b>>
      BY <1>5 DEF Init, AuditInit
    <2>2. a \in LineRecord /\ b \in LineRecord
      <3>1. MaxEvents + 1 \in Nat /\ MaxEvents + 2 \in Nat /\ GENESIS \in Nat /\ Older \in KeyValue
        BY EventsAssumption DEF GENESIS, KeyValue
      <3> QED BY <3>1 DEF Line, LineRecord
    <2>3. a.ok /\ ~b.ok /\ a.seq = 1 /\ a.prev = GENESIS /\ a.key = Older
      BY DEF Line
    <2> HIDE DEF a, b
    <2>4. lines \in Seq(LineRecord) /\ DOMAIN lines = 1..2 /\ lines[1] = a /\ lines[2] = b
      BY <2>1, <2>2
    <2>5. Records(lines) = {1}
      BY <2>3, <2>4 DEF Records
    <2>6. Before(lines, 1) = {}
      BY <2>5 DEF Before
    <2>7. Chained(lines, auth)
      BY <2>1, <2>3, <2>4, <2>5, <2>6, FS_EmptySet DEF Chained, HashOfLast
    <2>8. auth \in KeyValue /\ auth # Missing
      BY <2>1 DEF KeyValue, Older, Missing
    <2> QED BY <1>1, <1>3, <2>4, <2>7, <2>8 DEF AuditInv, AuditTypeOK, ChainInv
  <1> QED BY <1>4, <1>5

LEMMA StillAudit ==
  ASSUME AuditInv, UNCHANGED auditVars
  PROVE  AuditInv'
  BY DEF AuditInv, AuditTypeOK, ChainInv, Chained, Records, Before, HashOfLast, UpToDate, NextChainState,
         Quiet, auditVars

(* While one event is written, no other is. *)
LEMMA OthersQuiet ==
  ASSUME AuditInv, ~overlapped, NEW w \in Writer, ~Quiet(w), NEW v \in Writer, v # w
  PROVE  Quiet(v)
  BY DEF AuditInv, ChainInv

(* The steps of an event leave the others where they are. *)
LEMMA OneWrites ==
  ASSUME AuditInv, NEW w \in Writer, NEW e \in EventRecord, writer' = [writer EXCEPT ![w] = e]
  PROVE  /\ writer' \in [Writer -> EventRecord] /\ writer'[w] = e
         /\ \A v \in Writer : v # w => writer'[v] = writer[v]
  BY DEF AuditInv, AuditTypeOK

LEMMA QuietUpToDate ==
  ASSUME NEW e, e.step = "idle"
  PROVE  UpToDate(e) /\ UpToDate(e)'
  BY DEF UpToDate

LEMMA BeginAudit ==
  ASSUME AuditInv, NEW w \in Writer, BeginEvent(w)
  PROVE  AuditInv'
  <1> DEFINE e == [step |-> IF auth = Missing THEN "create" ELSE "chain",
                   key |-> auth, id |-> begun + 1, seq |-> 0, prev |-> GENESIS]
  <1>1. /\ begun' = begun + 1 /\ writer' = [writer EXCEPT ![w] = e]
        /\ overlapped' = (overlapped \/ \E v \in Writer : ~Quiet(v))
        /\ lines' = lines /\ auth' = auth
    BY DEF BeginEvent
  <1>2. /\ e \in EventRecord /\ e.key = auth
        /\ e.step = IF auth = Missing THEN "create" ELSE "chain"
    <2>1. auth \in KeyValue /\ begun + 1 \in Nat /\ GENESIS \in Nat
      BY DEF AuditInv, AuditTypeOK, GENESIS
    <2> QED BY <2>1 DEF EventRecord, EventStep
  <1> HIDE DEF e
  <1>3. /\ writer' \in [Writer -> EventRecord] /\ writer'[w] = e
        /\ \A v \in Writer : v # w => writer'[v] = writer[v]
    BY <1>1, <1>2, OneWrites
  <1>4. AuditTypeOK'
    BY <1>1, <1>3 DEF AuditInv, AuditTypeOK
  <1>5. ASSUME ~overlapped'
        PROVE  /\ Chained(lines, auth)' /\ (auth = Missing => Records(lines) = {})'
               /\ (\A u, v \in Writer : ~Quiet(u) /\ ~Quiet(v) => u = v)'
               /\ (\A v \in Writer : UpToDate(writer[v]))'
    <2>1. ~overlapped /\ \A v \in Writer : Quiet(v)
      BY <1>1, <1>5
    <2>2. Chained(lines, auth) /\ (auth = Missing => Records(lines) = {})
      BY <2>1 DEF AuditInv, ChainInv
    <2>3. Chained(lines, auth)' /\ (auth = Missing => Records(lines) = {})'
      BY <1>1, <2>2 DEF Chained, Records, Before, HashOfLast
    <2>4. \A v \in Writer : v # w => Quiet(v)'
      BY <1>3, <2>1 DEF Quiet
    <2>5. UpToDate(writer[w])'
      BY <1>1, <1>2, <1>3, <2>3 DEF UpToDate
    <2>6. \A v \in Writer : v # w => UpToDate(writer[v])'
      BY <2>4 DEF Quiet, UpToDate
    <2> QED BY <1>3, <2>3, <2>4, <2>5, <2>6
  <1> QED BY <1>4, <1>5 DEF AuditInv, ChainInv

(* The key is made before any record is there. *)
LEMMA KeyAudit ==
  ASSUME AuditInv, NEW w \in Writer, CreateKey(w) \/ FillKey(w)
  PROVE  AuditInv'
  <1>1. PICK e \in EventRecord :
           /\ writer' = [writer EXCEPT ![w] = e]
           /\ \/ writer[w].step = "create" /\ auth' = Empty /\ e.step = "fill"
              \/ writer[w].step = "fill" /\ auth' = w /\ e.step = "chain" /\ e.key = w
    <2> DEFINE c == [writer[w] EXCEPT !.step = "fill"]
               f == [writer[w] EXCEPT !.step = "chain", !.key = w]
    <2>1. writer[w] \in EventRecord /\ writer \in [Writer -> EventRecord]
      BY DEF AuditInv, AuditTypeOK
    <2>2. c \in EventRecord /\ c.step = "fill"
      BY <2>1 DEF EventRecord, EventStep
    <2>3. f \in EventRecord /\ f.step = "chain" /\ f.key = w
      BY <2>1 DEF EventRecord, EventStep, KeyValue
    <2>4. CreateKey(w) => writer' = [writer EXCEPT ![w] = c]
      BY <2>1 DEF CreateKey
    <2>5. FillKey(w) => writer' = [writer EXCEPT ![w] = f]
      BY <2>1 DEF FillKey
    <2> HIDE DEF c, f
    <2> QED BY <2>2, <2>3, <2>4, <2>5 DEF CreateKey, FillKey
  <1>2. UNCHANGED <<lines, begun, overlapped>> /\ ~Quiet(w)
    BY DEF CreateKey, FillKey, Quiet
  <1>3. /\ writer' \in [Writer -> EventRecord] /\ writer'[w] = e
        /\ \A v \in Writer : v # w => writer'[v] = writer[v]
    BY <1>1, OneWrites
  <1>4. auth' \in KeyValue /\ auth' # Missing
    BY <1>1, WriterAssumption DEF KeyValue, Empty, Missing
  <1>5. AuditTypeOK'
    BY <1>2, <1>3, <1>4 DEF AuditInv, AuditTypeOK
  <1>6. ASSUME ~overlapped'
        PROVE  /\ Chained(lines, auth)' /\ (auth = Missing => Records(lines) = {})'
               /\ (\A u, v \in Writer : ~Quiet(u) /\ ~Quiet(v) => u = v)'
               /\ (\A v \in Writer : UpToDate(writer[v]))'
    <2>1. ~overlapped
      BY <1>2, <1>6
    <2>2. \A v \in Writer : v # w => Quiet(v)
      BY <1>2, <2>1, OthersQuiet
    <2>3. Records(lines) = {}
      BY <1>1, <2>1 DEF AuditInv, ChainInv, UpToDate
    <2>4. Records(lines)' = {}
      BY <1>2, <2>3 DEF Records
    <2>5. \A v \in Writer : v # w => Quiet(v)' /\ UpToDate(writer[v])'
      BY <1>3, <2>2 DEF Quiet, UpToDate
    <2>6. UpToDate(e)'
      BY <1>1, <1>4, <2>4 DEF UpToDate
    <2> QED BY <1>3, <2>4, <2>5, <2>6 DEF Chained
  <1> QED BY <1>5, <1>6 DEF AuditInv, ChainInv

LEMMA ReadAudit ==
  ASSUME AuditInv, NEW w \in Writer, ReadChain(w)
  PROVE  AuditInv'
  <1> DEFINE next == NextChainState(lines)
             e == [writer[w] EXCEPT !.step = "append", !.seq = next.seq, !.prev = next.prev]
  <1>1. /\ writer[w].step = "chain" /\ UNCHANGED <<lines, auth, begun, overlapped>>
        /\ writer[w] \in EventRecord /\ writer \in [Writer -> EventRecord]
    BY DEF ReadChain, AuditInv, AuditTypeOK
  <1>2. writer' = [writer EXCEPT ![w] = e]
    BY <1>1 DEF ReadChain
  <1>3. next.seq \in Nat /\ next.prev \in Nat
    BY NextType DEF AuditInv, AuditTypeOK
  <1> HIDE DEF next
  <1>4. e \in EventRecord /\ e.step = "append" /\ e.key = writer[w].key
        /\ e.seq = next.seq /\ e.prev = next.prev
    BY <1>1, <1>3 DEF EventRecord, EventStep
  <1> HIDE DEF e
  <1>5. /\ writer' \in [Writer -> EventRecord] /\ writer'[w] = e
        /\ \A v \in Writer : v # w => writer'[v] = writer[v]
    BY <1>2, <1>4, OneWrites
  <1>6. AuditTypeOK'
    BY <1>1, <1>5 DEF AuditInv, AuditTypeOK
  <1>7. ASSUME ~overlapped'
        PROVE  /\ Chained(lines, auth)' /\ (auth = Missing => Records(lines) = {})'
               /\ (\A u, v \in Writer : ~Quiet(u) /\ ~Quiet(v) => u = v)'
               /\ (\A v \in Writer : UpToDate(writer[v]))'
    <2>1. ~overlapped /\ ~Quiet(w)
      BY <1>1, <1>7 DEF Quiet
    <2>2. Chained(lines, auth) /\ (auth = Missing => Records(lines) = {}) /\ UpToDate(writer[w])
      BY <2>1 DEF AuditInv, ChainInv
    <2>3. Chained(lines, auth)' /\ (auth = Missing => Records(lines) = {})'
      BY <1>1, <2>2 DEF Chained, Records, Before, HashOfLast
    <2>4. \A v \in Writer : v # w => Quiet(v)' /\ UpToDate(writer[v])'
      BY <1>5, <2>1, OthersQuiet DEF Quiet, UpToDate
    <2>5. e.key = auth /\ auth # Missing
      BY <1>1, <1>4, <2>2 DEF UpToDate
    <2>6. NextChainState(lines)' = next
      BY <1>1 DEF next
    <2>7. UpToDate(writer[w])'
      BY <1>1, <1>4, <1>5, <2>5, <2>6 DEF UpToDate
    <2> QED BY <2>3, <2>4, <2>7
  <1> QED BY <1>6, <1>7 DEF AuditInv, ChainInv

LEMMA LineParts ==
  ASSUME NEW r \in LineRecord, NEW whole \in BOOLEAN, NEW ended \in BOOLEAN
  PROVE  /\ [r EXCEPT !.ok = whole, !.ended = ended] \in LineRecord
         /\ [r EXCEPT !.ok = whole, !.ended = ended].seq = r.seq
         /\ [r EXCEPT !.ok = whole, !.ended = ended].prev = r.prev
         /\ [r EXCEPT !.ok = whole, !.ended = ended].key = r.key
         /\ r.ok = whole /\ r.ended = ended => [r EXCEPT !.ok = whole, !.ended = ended] = r
  BY DEF LineRecord

(* What a writer that read the end of the chain may leave behind it. *)
LEMMA WrittenIsLine ==
  ASSUME AuditInv, NEW w \in Writer
  PROVE  /\ Written(w) \in LineRecord /\ Written(w).ok /\ Written(w).ended
         /\ ~overlapped /\ writer[w].step = "append" =>
               /\ Written(w).seq = NextChainState(lines).seq
               /\ Written(w).prev = NextChainState(lines).prev
               /\ Written(w).key = auth
  <1>1. writer[w] \in EventRecord
    BY DEF AuditInv, AuditTypeOK
  <1>2. Written(w) = [ok |-> TRUE, ended |-> TRUE, seq |-> writer[w].seq, prev |-> writer[w].prev,
                      id |-> writer[w].id, key |-> writer[w].key]
    BY DEF Written, Line
  <1>3. Written(w) \in LineRecord
    BY <1>1, <1>2 DEF LineRecord, EventRecord
  <1>4. ~overlapped => UpToDate(writer[w])
    BY DEF AuditInv, ChainInv
  <1> QED BY <1>2, <1>3, <1>4 DEF UpToDate

LEMMA AppendedType ==
  ASSUME NEW log \in Seq(LineRecord), NEW line \in LineRecord
  PROVE  Appended(log, line) \in Seq(LineRecord)
  <1>1. CASE log # <<>> /\ ~log[Len(log)].ended
    <2> DEFINE n == Len(log)
               e == [log[n] EXCEPT !.ok = FALSE, !.ended = line.ended]
    <2>1. n \in 1..Len(log)
      BY <1>1, EmptySeq, LenProperties
    <2>2. log[n] \in LineRecord
      BY <2>1, ElementOfSeq
    <2>3. e \in LineRecord
      BY <2>2 DEF LineRecord
    <2>4. Appended(log, line) = [log EXCEPT ![n] = e]
      BY <1>1, <2>1, <2>2 DEF Appended, LineRecord
    <2> HIDE DEF e, n
    <2> QED BY <2>1, <2>3, <2>4, ExceptSeq
  <1>2. CASE ~(log # <<>> /\ ~log[Len(log)].ended)
    BY <1>2, AppendProperties DEF Appended
  <1> QED BY <1>1, <1>2

(* A writer is through with its event, or has died in it. *)
LEMMA LeaveAudit ==
  ASSUME AuditInv, NEW w \in Writer, UNCHANGED <<auth, begun, overlapped>>,
         \/ lines' = lines
         \/ /\ writer[w].step = "append"
            /\ \E whole, ended \in BOOLEAN :
                  lines' = Appended(lines, [Written(w) EXCEPT !.ok = whole, !.ended = ended]),
         writer' \in [Writer -> EventRecord], Quiet(w)',
         \A v \in Writer : v # w => writer'[v] = writer[v]
  PROVE  AuditInv'
  <1>1. lines' \in Seq(LineRecord)
    <2>1. lines \in Seq(LineRecord) /\ Written(w) \in LineRecord
      BY WrittenIsLine DEF AuditInv, AuditTypeOK
    <2>2. \A whole, ended \in BOOLEAN :
             Appended(lines, [Written(w) EXCEPT !.ok = whole, !.ended = ended]) \in Seq(LineRecord)
      <3> TAKE whole \in BOOLEAN, ended \in BOOLEAN
      <3>1. [Written(w) EXCEPT !.ok = whole, !.ended = ended] \in LineRecord
        BY <2>1, LineParts
      <3> QED BY <2>1, <3>1, AppendedType
    <2> QED BY <2>1, <2>2
  <1>2. AuditTypeOK'
    BY <1>1 DEF AuditInv, AuditTypeOK
  <1>3. CASE lines' = lines
    <2>1. ASSUME ~overlapped PROVE Chained(lines, auth)' /\ (auth = Missing => Records(lines) = {})'
      BY <1>3, <2>1 DEF AuditInv, ChainInv, Chained, Records, Before, HashOfLast
    <2>2. \A v \in Writer : ~Quiet(v)' => ~Quiet(v) /\ writer'[v] = writer[v]
      BY DEF Quiet
    <2>3. NextChainState(lines)' = NextChainState(lines) /\ Records(lines)' = Records(lines)
      BY <1>3
    <2>4. ASSUME ~overlapped, NEW v \in Writer PROVE UpToDate(writer[v])'
      <3>1. CASE v = w
        BY <3>1 DEF Quiet, UpToDate
      <3>2. CASE v # w
        <4>1. writer'[v] = writer[v] /\ UpToDate(writer[v])
          BY <2>4, <3>2 DEF AuditInv, ChainInv
        <4> QED BY <2>3, <4>1 DEF UpToDate
      <3> QED BY <3>1, <3>2
    <2>5. ASSUME ~overlapped PROVE (\A u, v \in Writer : ~Quiet(u) /\ ~Quiet(v) => u = v)'
      BY <2>2, <2>5 DEF AuditInv, ChainInv
    <2> QED BY <1>2, <2>1, <2>4, <2>5 DEF AuditInv, ChainInv
  <1>4. ASSUME writer[w].step = "append", NEW whole \in BOOLEAN, NEW ended \in BOOLEAN,
               lines' = Appended(lines, [Written(w) EXCEPT !.ok = whole, !.ended = ended]),
               ~overlapped'
        PROVE  /\ Chained(lines, auth)' /\ (auth = Missing => Records(lines) = {})'
               /\ (\A u, v \in Writer : ~Quiet(u) /\ ~Quiet(v) => u = v)'
               /\ (\A v \in Writer : UpToDate(writer[v]))'
    <2> DEFINE line == [Written(w) EXCEPT !.ok = whole, !.ended = ended]
    <2>1. ~overlapped /\ ~Quiet(w)
      BY <1>4 DEF Quiet
    <2>2. line \in LineRecord /\ line.seq = NextChainState(lines).seq
          /\ line.prev = NextChainState(lines).prev /\ line.key = auth
      <3>1. /\ Written(w) \in LineRecord /\ Written(w).seq = NextChainState(lines).seq
            /\ Written(w).prev = NextChainState(lines).prev /\ Written(w).key = auth
        BY <1>4, <2>1, WrittenIsLine
      <3>2. /\ line \in LineRecord /\ line.seq = Written(w).seq
            /\ line.prev = Written(w).prev /\ line.key = Written(w).key
        BY <3>1, LineParts
      <3> QED BY <3>1, <3>2
    <2> HIDE DEF line
    <2>3. Chained(lines, auth) /\ lines \in Seq(LineRecord)
      BY <2>1 DEF AuditInv, AuditTypeOK, ChainInv
    <2>4. Chained(Appended(lines, line), auth)
      BY <2>2, <2>3, AppendedChained
    <2>5. Chained(lines', auth')
      BY <1>4, <2>4 DEF line
    <2>6. auth' # Missing
      BY <1>4, <2>1 DEF AuditInv, ChainInv, UpToDate
    <2>7. \A v \in Writer : Quiet(v)'
      BY <2>1, OthersQuiet DEF Quiet
    <2>8. \A v \in Writer : UpToDate(writer[v])'
      BY <2>7 DEF Quiet, UpToDate
    <2> QED BY <2>5, <2>6, <2>7, <2>8
  <1>5. CASE lines' # lines
    BY <1>2, <1>4, <1>5 DEF AuditInv, ChainInv
  <1> QED BY <1>3, <1>5

LEMMA NextAudit == AuditInv /\ [Next]_vars => AuditInv'
  <1> SUFFICES ASSUME AuditInv, [Next]_vars PROVE AuditInv'
    OBVIOUS
  <1>0. NoEvent \in EventRecord /\ NoEvent.step = "idle"
    BY DEF NoEvent, EventRecord, EventStep, KeyValue, GENESIS
  <1>1. ASSUME NEW l \in Command, WrongPassphrase(l) \/ Record(l) PROVE AuditInv'
    BY <1>1, BeginAudit, WhoWrites DEF WrongPassphrase, Record
  <1>2. ASSUME NEW l \in Command, Interrupt(l) PROVE AuditInv'
    <2>1. l \in Writer
      BY WhoWrites
    <2>2. /\ UNCHANGED <<auth, begun, overlapped>>
          /\ writer' = [w \in Writer |-> IF w \in {l} THEN NoEvent ELSE writer[w]]
          /\ \/ lines' = lines
             \/ \E whole \in BOOLEAN :
                   /\ writer[l].step = "append"
                   /\ lines' = Appended(lines, [Written(l) EXCEPT !.ok = whole, !.ended = FALSE])
      BY <1>2 DEF Interrupt, DieInEvent
    <2>3. /\ writer' \in [Writer -> EventRecord] /\ Quiet(l)'
          /\ \A v \in Writer : v # l => writer'[v] = writer[v]
      BY <1>0, <2>1, <2>2 DEF AuditInv, AuditTypeOK, Quiet
    <2> QED BY <2>1, <2>2, <2>3, LeaveAudit
  <1>3. ASSUME NEW w \in Writer, WriteEvent(w) PROVE AuditInv'
    <2>1. /\ writer[w].step = "append" /\ lines' = Appended(lines, Written(w))
          /\ writer' = [writer EXCEPT ![w] = NoEvent] /\ UNCHANGED <<auth, begun, overlapped>>
      BY <1>3 DEF WriteEvent
    <2>2. /\ writer' \in [Writer -> EventRecord] /\ writer'[w] = NoEvent
          /\ \A v \in Writer : v # w => writer'[v] = writer[v]
      BY <1>0, <2>1, OneWrites
    <2>3. lines' = Appended(lines, [Written(w) EXCEPT !.ok = TRUE, !.ended = TRUE])
      BY <2>1, WrittenIsLine, LineParts
    <2> QED BY <1>0, <2>1, <2>2, <2>3, LeaveAudit DEF Quiet
  <1>4. ASSUME NEW w \in Writer, Event(w) PROVE AuditInv'
    BY <1>3, <1>4, KeyAudit, ReadAudit DEF Event
  <1>5. ASSUME OtherEvent PROVE AuditInv'
    BY <1>5, BeginAudit, WhoWrites DEF OtherEvent
  <1>6. ASSUME \/ \E l \in Command :
                     \/ Start(l) \/ Check(l) \/ Uncounted(l) \/ NoObject(l)
                     \/ CountFailure(l) \/ Succeed(l)
               \/ Elapse \/ Corrupt \/ UNCHANGED vars
        PROVE  AuditInv'
    <2>1. UNCHANGED auditVars
      BY <1>6 DEF Start, Check, Uncounted, NoObject, CountFailure, Succeed, Elapse, Corrupt, vars
    <2> QED BY <2>1, StillAudit
  <1> QED BY <1>1, <1>2, <1>4, <1>5, <1>6 DEF Next, WriteStep

(* The chain of the records that parse, and what each writer has read of   *)
(* it, hold together.                                                      *)
LEMMA AuditInvHolds == Spec => []AuditInv
  BY InitAudit, NextAudit, PTL DEF Spec

(* audit.py 56-94 and 109-133: when no two events were written at once,    *)
(* verification rejects the lines a crash has torn and no other: the chain *)
(* goes on behind them.                                                    *)
THEOREM ChainHealsHolds == Spec => []ChainHeals
  <1>1. AuditInv => ChainHeals
    BY DEF AuditInv, ChainInv, Chained, ChainHeals, Rejected, Records
  <1> QED BY <1>1, AuditInvHolds, PTL
=============================================================================
