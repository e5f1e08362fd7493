-------------------------- MODULE WholeFile_proofs --------------------------
(***************************************************************************)
(* Two stores that several processes read whole, change in memory and      *)
(* write whole, without a lock: the object references (CueStore), for any  *)
(* number of processes, entries and objects, and the files of a Face       *)
(* (FaceFiles), for any names, sizes and capacity and whatever the clock   *)
(* does.                                                                   *)
(***************************************************************************)
EXTENDS CueStore, FaceFiles, FiniteSetTheorems, WellFoundedInduction, TLAPS

-----------------------------------------------------------------------------
(* The references are always well typed, one object never stands for two   *)
(* entries, the process that saved last answers from what the file says,   *)
(* and a clear that had no other process beside it leaves no older         *)
(* binding.                                                                *)

(* The reference sets that are on their way to the file are distinct too.  *)
JobsDistinct == \A s \in Surface : Distinct(job[s].refs)

(* What the last writer holds at every step: until it opens the file again *)
(* the file says what it answers from, or is about to answer from.         *)
Holds(s) ==
    /\ job[s].step \in {"idle", "open"} => memory[s] = disk
    /\ job[s].step # "write"
    /\ job[s].step = "commit" => job[s].refs = disk
WriterHolds == \A s \in writer : Holds(s)

(* Only processes that run change or have written anything. *)
OnlyRunning ==
    /\ writer \subseteq running
    /\ \A s \in Surface : s \notin running => job[s] = Idle

IInv == TypeOK /\ DistinctObjects /\ JobsDistinct /\ WriterHolds /\ OnlyRunning

-----------------------------------------------------------------------------
(* Leaving every entry unbound binds no object twice, and neither does     *)
(* binding an object that no other entry has.                              *)
LEMMA EmptyIsFine == Empty \in References /\ Distinct(Empty)
  BY DEF Empty, References, Distinct

LEMMA BindKeepsDistinct ==
  ASSUME NEW refs \in References, Distinct(refs), NEW m \in MODES, NEW o \in Object,
         \A n \in MODES \ {m} : refs[n] # o
  PROVE  [refs EXCEPT ![m] = o] \in References /\ Distinct([refs EXCEPT ![m] = o])
  BY DEF References, Distinct

(* A job is Idle exactly when its step says so. *)
LEMMA JobShape ==
  ASSUME TypeOK, NEW s \in Surface
  PROVE  /\ job[s] \in Job
         /\ job[s].refs \in References
         /\ job[s].step \in {"idle", "open", "write", "commit"}
         /\ job[s].step = "idle" <=> job[s] = Idle
         /\ job[s] # Idle =>
              job[s] \in [step : {"open", "write", "commit"}, kind : Kind, refs : References]
  BY EmptyIsFine DEF TypeOK, Job, Idle

-----------------------------------------------------------------------------
LEMMA InitIInv == Init => IInv
  <1> SUFFICES ASSUME Init PROVE IInv
    OBVIOUS
  <1>1. Idle \in Job /\ Idle.refs = Empty
    BY DEF Job, Idle
  <1>2. TypeOK
    BY <1>1, EmptyIsFine DEF Init, TypeOK
  <1>3. DistinctObjects /\ JobsDistinct
    BY <1>1, EmptyIsFine DEF Init, DistinctObjects, JobsDistinct
  <1>4. WriterHolds /\ OnlyRunning
    BY DEF Init, WriterHolds, OnlyRunning
  <1> QED
    BY <1>2, <1>3, <1>4 DEF IInv

(* A process that is launched reads what may be anything but a double use. *)
LEMMA LaunchStep ==
  ASSUME IInv, NEW s \in Surface, Launch(s)
  PROVE  IInv'
  <1>1. Load(disk) \in References /\ Distinct(Load(disk))
    BY EmptyIsFine DEF IInv, TypeOK, DistinctObjects, Load
  <1>2. TypeOK'
    BY <1>1 DEF IInv, TypeOK, Launch
  <1>3. \A t \in Surface : memory'[t] = IF t = s THEN Load(disk) ELSE memory[t]
    BY DEF IInv, TypeOK, Launch
  <1>4. DistinctObjects' /\ JobsDistinct'
    BY <1>1, <1>3 DEF IInv, DistinctObjects, JobsDistinct, Launch, Distinct
  <1>5. s \notin writer
    BY DEF IInv, OnlyRunning, Launch
  <1>6. WriterHolds' /\ OnlyRunning'
    BY <1>3, <1>5 DEF IInv, TypeOK, WriterHolds, Holds, OnlyRunning, Launch
  <1> QED
    BY <1>2, <1>4, <1>6 DEF IInv

LEMMA ExitStep ==
  ASSUME IInv, NEW s \in Surface, Exit(s)
  PROVE  IInv'
  <1>1. Idle \in Job /\ Idle.refs = Empty
    BY DEF Job, Idle
  <1>2. TypeOK'
    BY <1>1, EmptyIsFine DEF IInv, TypeOK, Exit
  <1>3. \A t \in Surface : /\ memory'[t] = IF t = s THEN Empty ELSE memory[t]
                           /\ job'[t] = IF t = s THEN Idle ELSE job[t]
    BY DEF IInv, TypeOK, Exit
  <1>4. DistinctObjects' /\ JobsDistinct'
    BY <1>1, <1>3, EmptyIsFine DEF IInv, DistinctObjects, JobsDistinct, Exit, Distinct
  <1>5. WriterHolds' /\ OnlyRunning'
    BY <1>3 DEF IInv, TypeOK, WriterHolds, Holds, OnlyRunning, Exit
  <1> QED
    BY <1>2, <1>4, <1>5 DEF IInv

(* A change begins: only the job of its process is new. *)
LEMMA BeginStep ==
  ASSUME IInv, NEW s \in Surface, NEW k \in Kind, NEW r \in References, Distinct(r),
         s \in running, job[s] = Idle,
         job' = [job EXCEPT ![s] = [step |-> "open", kind |-> k, refs |-> r]],
         UNCHANGED <<disk, memory, running, writer, crowded>>,
         since' \subseteq MODES, company' \in BOOLEAN
  PROVE  IInv'
  <1> DEFINE j == [step |-> "open", kind |-> k, refs |-> r]
  <1>1. j \in Job /\ j.refs = r /\ j.step = "open"
    BY DEF Job
  <1>2. TypeOK'
    BY <1>1 DEF IInv, TypeOK
  <1>3. \A t \in Surface : job'[t] = IF t = s THEN j ELSE job[t]
    BY DEF IInv, TypeOK
  <1>4. DistinctObjects' /\ JobsDistinct'
    BY <1>1, <1>3 DEF IInv, DistinctObjects, JobsDistinct, Distinct
  <1>5. Idle.step = "idle"
    BY DEF Idle
  <1>6. WriterHolds'
    BY <1>1, <1>3, <1>5 DEF IInv, TypeOK, WriterHolds, Holds
  <1>7. OnlyRunning'
    BY <1>3 DEF IInv, OnlyRunning
  <1> QED
    BY <1>2, <1>4, <1>6, <1>7 DEF IInv

LEMMA ChangeStep ==
  ASSUME IInv, NEW s \in Surface, Change(s)
  PROVE  IInv'
  <1>1. ASSUME NEW m \in MODES, NEW o \in Object, Bind(s, m, o) PROVE IInv'
    <2>1. memory[s] \in References /\ Distinct(memory[s])
      BY DEF IInv, TypeOK, DistinctObjects
    <2>2. LET r == [memory[s] EXCEPT ![m] = o] IN r \in References /\ Distinct(r)
      BY <1>1, <2>1, BindKeepsDistinct DEF Bind
    <2>3. since' \subseteq MODES /\ company' \in BOOLEAN
      BY <1>1 DEF IInv, TypeOK, Bind
    <2> QED
      BY <1>1, <2>2, <2>3, BeginStep DEF Bind, Kind
  <1>2. CASE Clear(s)
    <2>1. since' \subseteq MODES /\ company' \in BOOLEAN
      BY <1>2 DEF IInv, TypeOK, Clear
    <2> QED
      BY <1>2, <2>1, EmptyIsFine, BeginStep DEF Clear, Kind
  <1> QED
    BY <1>1, <1>2 DEF Change

(* Writing the file leaves the other processes' copies as they were, and   *)
(* makes the one that wrote the only writer.                               *)
LEMMA SaveStep ==
  ASSUME IInv, NEW s \in Surface, Open(s) \/ Write(s)
  PROVE  IInv'
  <1>1. PICK new \in {"write", "commit"} :
          /\ job' = [job EXCEPT ![s].step = new]
          /\ job[s].step \in {"open", "write"}
          /\ writer' \in {{}, {s}}
          /\ writer' = {s} => new = "commit" /\ disk' = job[s].refs
          /\ disk' \in {Torn, job[s].refs}
    BY DEF Open, Write, Step
  <1>2. UNCHANGED <<memory, running, since, crowded, company>>
    BY DEF Open, Write
  <1>3. job[s] # Idle /\ job[s].refs \in References
    BY <1>1, JobShape DEF IInv, Idle
  <1>4. [job[s] EXCEPT !.step = new] \in Job
    BY <1>3, JobShape DEF IInv, Job
  <1>5. \A t \in Surface : /\ job'[t] = IF t = s THEN [job[s] EXCEPT !.step = new]
                                        ELSE job[t]
                           /\ job'[t].refs = job[t].refs
    BY <1>1, <1>3, JobShape DEF IInv, TypeOK
  <1>6. TypeOK'
    BY <1>1, <1>2, <1>3, <1>4 DEF IInv, TypeOK
  <1>7. DistinctObjects' /\ JobsDistinct'
    BY <1>1, <1>2, <1>5 DEF IInv, DistinctObjects, JobsDistinct, Distinct
  <1>8. s \in writer' => job'[s].step = "commit" /\ job'[s].refs = disk'
    BY <1>1, <1>3, <1>5, JobShape DEF IInv
  <1>9. WriterHolds'
    BY <1>1, <1>8 DEF WriterHolds, Holds
  <1>10. OnlyRunning'
    BY <1>1, <1>2, <1>3, <1>5 DEF IInv, OnlyRunning
  <1> QED
    BY <1>6, <1>7, <1>9, <1>10 DEF IInv

LEMMA FailStep ==
  ASSUME IInv, NEW s \in Surface, SaveFails(s)
  PROVE  IInv'
  <1>1. Idle \in Job /\ Idle.refs = Empty /\ Idle.step = "idle"
    BY DEF Job, Idle
  <1>2. TypeOK'
    BY <1>1, EmptyIsFine DEF IInv, TypeOK, SaveFails
  <1>3. \A t \in Surface : job'[t] = IF t = s THEN Idle ELSE job[t]
    BY DEF IInv, TypeOK, SaveFails
  <1>4. DistinctObjects' /\ JobsDistinct'
    BY <1>1, <1>3, EmptyIsFine DEF IInv, DistinctObjects, JobsDistinct, SaveFails, Distinct
  <1>5. s \in writer => memory[s] = disk
    BY DEF IInv, WriterHolds, Holds, SaveFails
  <1>6. WriterHolds' /\ OnlyRunning'
    BY <1>1, <1>3, <1>5 DEF IInv, TypeOK, WriterHolds, Holds, OnlyRunning, SaveFails
  <1> QED
    BY <1>2, <1>4, <1>6 DEF IInv

LEMMA CommitStep ==
  ASSUME IInv, NEW s \in Surface, Commit(s)
  PROVE  IInv'
  <1>1. Idle \in Job /\ Idle.refs = Empty /\ Idle.step = "idle"
    BY DEF Job, Idle
  <1>2. job[s].refs \in References /\ Distinct(job[s].refs)
    BY JobShape DEF IInv, JobsDistinct
  <1>3. TypeOK'
    BY <1>1, <1>2, EmptyIsFine DEF IInv, TypeOK, Commit
  <1>4. \A t \in Surface : /\ job'[t] = IF t = s THEN Idle ELSE job[t]
                           /\ memory'[t] = IF t = s THEN job[s].refs ELSE memory[t]
    BY DEF IInv, TypeOK, Commit
  <1>5. DistinctObjects' /\ JobsDistinct'
    BY <1>1, <1>2, <1>4, EmptyIsFine
    DEF IInv, DistinctObjects, JobsDistinct, Commit, Distinct
  <1>6. s \in writer => job[s].refs = disk
    BY DEF IInv, WriterHolds, Holds, Commit
  <1>7. WriterHolds' /\ OnlyRunning'
    BY <1>1, <1>4, <1>6 DEF IInv, TypeOK, WriterHolds, Holds, OnlyRunning, Commit
  <1> QED
    BY <1>3, <1>5, <1>7 DEF IInv

-----------------------------------------------------------------------------
LEMMA NextIInv == IInv /\ [Next]_vars => IInv'
  <1> SUFFICES ASSUME IInv, [Next]_vars PROVE IInv'
    OBVIOUS
  <1>1. CASE Next
    BY <1>1, LaunchStep, ExitStep, ChangeStep, SaveStep, FailStep, CommitStep
    DEF Next, Save
  <1>2. CASE UNCHANGED vars
    BY <1>2 DEF vars, IInv, TypeOK, DistinctObjects, JobsDistinct, WriterHolds, Holds,
                OnlyRunning, Distinct
  <1> QED
    BY <1>1, <1>2

(* The invariant that carries the three theorems below. *)
THEOREM IInvHolds == Spec => []IInv
  BY InitIInv, NextIInv, PTL DEF Spec

(* Every reachable state of the reference store is well typed: what a      *)
(* process answers from is always a set of references, torn file or not.   *)
THEOREM TypeCorrect == Spec => []TypeOK
  <1>1. IInv => TypeOK
    BY DEF IInv
  <1> QED
    BY <1>1, IInvHolds, PTL

(* One object never stands for two entries, in the file or in any process, *)
(* however many processes compare with nothing but their own copy.         *)
THEOREM DistinctObjectsHolds == Spec => []DistinctObjects
  <1>1. IInv => DistinctObjects
    BY DEF IInv
  <1> QED
    BY <1>1, IInvHolds, PTL

(* The process that saved last, once done, answers from what the file      *)
(* says, through refused saves, crashes and the other processes' writes.   *)
THEOREM WriterAgreesHolds == Spec => []WriterAgrees
  <1>1. IInv => WriterAgrees
    BY DEF IInv, WriterHolds, Holds, WriterAgrees, Idle
  <1> QED
    BY <1>1, IInvHolds, PTL
-----------------------------------------------------------------------------
(* Clearing alone                                                          *)

(* A clear that no other process has run beside is the only thing that     *)
(* happens, and what it has written binds nothing.                         *)
ClearsAlone ==
    \A s \in Surface : job[s].kind = "clear" =>
        /\ job[s].refs = Empty
        /\ ~company => running = {s}
        /\ ~company /\ job[s].step = "commit" => disk \in {Torn, Empty}

(* Every binding anywhere, on its way to the file too, was made since.     *)
AllSince ==
    ~crowded => /\ disk # Torn => BoundSince(disk)
                /\ \A s \in running : BoundSince(memory[s])
                /\ \A s \in Surface : BoundSince(job[s].refs)

SinceInv == ClearsAlone /\ AllSince

LEMMA EmptySince == BoundSince(Empty)
  BY DEF BoundSince, Empty

LEMMA InitSince == Init => SinceInv
  <1> SUFFICES ASSUME Init PROVE SinceInv
    OBVIOUS
  <1>1. ClearsAlone
    BY DEF Init, ClearsAlone, Idle
  <1>2. AllSince
    BY EmptySince DEF Init, AllSince, Idle
  <1> QED
    BY <1>1, <1>2 DEF SinceInv

LEMMA LaunchSince ==
  ASSUME IInv, SinceInv, NEW s \in Surface, Launch(s)
  PROVE  SinceInv'
  <1>1. \A t \in Surface : memory'[t] = IF t = s THEN Load(disk) ELSE memory[t]
    BY DEF IInv, TypeOK, Launch
  <1>2. ClearsAlone'
    BY DEF SinceInv, ClearsAlone, Launch
  <1>3. ~crowded => BoundSince(Load(disk))
    BY EmptySince DEF SinceInv, AllSince, Load
  <1>4. AllSince'
    BY <1>1, <1>3 DEF IInv, TypeOK, SinceInv, AllSince, BoundSince, Launch
  <1> QED
    BY <1>2, <1>4 DEF SinceInv

LEMMA ExitSince ==
  ASSUME IInv, SinceInv, NEW s \in Surface, Exit(s)
  PROVE  SinceInv'
  <1>1. \A t \in Surface : /\ memory'[t] = IF t = s THEN Empty ELSE memory[t]
                           /\ job'[t] = IF t = s THEN Idle ELSE job[t]
    BY DEF IInv, TypeOK, Exit
  <1>2. Idle.kind = "none" /\ Idle.refs = Empty
    BY DEF Idle
  <1>3. ClearsAlone'
    BY <1>1, <1>2 DEF SinceInv, ClearsAlone, Exit
  <1>4. AllSince'
    BY <1>1, <1>2, EmptySince DEF SinceInv, AllSince, BoundSince, Exit
  <1> QED
    BY <1>3, <1>4 DEF SinceInv

LEMMA BindSince ==
  ASSUME IInv, SinceInv, NEW s \in Surface, NEW m \in MODES, NEW o \in Object, Bind(s, m, o)
  PROVE  SinceInv'
  <1> DEFINE r == [memory[s] EXCEPT ![m] = o]
  <1>1. \A t \in Surface :
           job'[t] = IF t = s THEN [step |-> "open", kind |-> "bind", refs |-> r] ELSE job[t]
    BY DEF IInv, TypeOK, Bind
  <1>2. ClearsAlone'
    BY <1>1 DEF SinceInv, ClearsAlone, Bind
  <1>3. since' = since \union {m}
    BY DEF Bind
  <1>4. ASSUME ~crowded PROVE BoundSince(r)'
    <2>1. BoundSince(memory[s]) /\ memory[s] \in References
      BY <1>4 DEF SinceInv, AllSince, IInv, TypeOK, Bind
    <2>2. \A n \in MODES : n # m => r[n] = memory[s][n]
      BY <2>1 DEF References
    <2>3. \A n \in MODES : r'[n] = r[n]
      BY DEF Bind
    <2> QED
      BY <1>3, <2>1, <2>2, <2>3 DEF BoundSince
  <1>5. AllSince'
    <2> SUFFICES ASSUME ~crowded PROVE /\ disk' # Torn => BoundSince(disk)'
                                       /\ \A t \in running' : BoundSince(memory[t])'
                                       /\ \A t \in Surface : BoundSince(job[t].refs)'
      BY DEF AllSince, Bind
    <2>1. UNCHANGED <<disk, memory, running>>
      BY DEF Bind
    <2>2. /\ disk' # Torn => BoundSince(disk)'
          /\ \A t \in running' : BoundSince(memory[t])'
      BY <1>3, <2>1 DEF SinceInv, AllSince, BoundSince
    <2>3. BoundSince(job[s].refs)'
      <3>1. job'[s].refs = r /\ r' = r
        BY <1>1, <2>1
      <3> HIDE DEF r
      <3> QED
        BY <1>4, <3>1 DEF BoundSince
    <2>4. \A t \in Surface \ {s} : BoundSince(job[t].refs)'
      BY <1>1, <1>3 DEF SinceInv, AllSince, BoundSince
    <2> QED
      BY <2>2, <2>3, <2>4
  <1> QED
    BY <1>2, <1>5 DEF SinceInv

LEMMA ClearSince ==
  ASSUME IInv, SinceInv, NEW s \in Surface, Clear(s)
  PROVE  SinceInv'
  <1>1. \A t \in Surface :
           job'[t] = IF t = s THEN [step |-> "open", kind |-> "clear", refs |-> Empty]
                     ELSE job[t]
    BY DEF IInv, TypeOK, Clear
  <1>2. ~company' => running = {s}
    BY DEF Clear
  <1>3. ClearsAlone'
    <2>1. ASSUME NEW t \in Surface \ {s}, ~company' PROVE job[t].kind # "clear"
      BY <1>2, <2>1 DEF IInv, OnlyRunning, Idle
    <2>2. UNCHANGED <<disk, running>>
      BY DEF Clear
    <2> QED
      BY <1>1, <1>2, <2>1, <2>2 DEF SinceInv, ClearsAlone
  <1>4. AllSince'
    BY <1>1, EmptySince DEF SinceInv, AllSince, BoundSince, Clear
  <1> QED
    BY <1>3, <1>4 DEF SinceInv

LEMMA SaveSince ==
  ASSUME IInv, SinceInv, NEW s \in Surface, Open(s) \/ Write(s)
  PROVE  SinceInv'
  <1>1. PICK new \in {"write", "commit"} :
          /\ job' = [job EXCEPT ![s].step = new]
          /\ job[s].step \in {"open", "write"}
          /\ disk' \in {Torn, job[s].refs}
    BY DEF Open, Write, Step
  <1>2. UNCHANGED <<memory, running, since, crowded, company>>
    BY DEF Open, Write
  <1>3. job[s] # Idle
    BY <1>1 DEF Idle
  <1>4. \A t \in Surface : /\ job'[t].refs = job[t].refs /\ job'[t].kind = job[t].kind
                           /\ t # s => job'[t] = job[t]
    BY <1>1, <1>3, JobShape DEF IInv, TypeOK
  <1>5. \A t \in Surface \ {s} : ~company => job[t].kind # "clear"
    BY <1>3 DEF SinceInv, ClearsAlone, IInv, OnlyRunning
  <1>6. ClearsAlone'
    BY <1>1, <1>2, <1>4, <1>5 DEF SinceInv, ClearsAlone
  <1>7. AllSince'
    BY <1>1, <1>2, <1>4 DEF SinceInv, AllSince, BoundSince
  <1> QED
    BY <1>6, <1>7 DEF SinceInv

LEMMA EndSince ==
  ASSUME IInv, SinceInv, NEW s \in Surface, SaveFails(s) \/ Commit(s)
  PROVE  SinceInv'
  <1>1. \A t \in Surface : job'[t] = IF t = s THEN Idle ELSE job[t]
    BY DEF IInv, TypeOK, SaveFails, Commit
  <1>2. Idle.kind = "none" /\ Idle.refs = Empty
    BY DEF Idle
  <1>3. UNCHANGED <<disk, running, company>>
    BY DEF SaveFails, Commit
  <1>4. ClearsAlone'
    BY <1>1, <1>2, <1>3 DEF SinceInv, ClearsAlone
  <1>5. CASE SaveFails(s)
    <2>1. UNCHANGED <<memory, since, crowded>>
      BY <1>5 DEF SaveFails
    <2>2. AllSince'
      BY <1>1, <1>2, <1>3, <2>1, EmptySince DEF SinceInv, AllSince, BoundSince
    <2> QED
      BY <1>4, <2>2 DEF SinceInv
  <1>6. CASE Commit(s) /\ job[s].kind # "clear"
    <2>1. \A t \in Surface : memory'[t] = IF t = s THEN job[s].refs ELSE memory[t]
      BY <1>6 DEF IInv, TypeOK, Commit
    <2>2. UNCHANGED <<since, crowded>>
      BY <1>6 DEF Commit
    <2>3. AllSince'
      BY <1>1, <1>2, <1>3, <2>1, <2>2, EmptySince
      DEF SinceInv, AllSince, BoundSince, IInv, TypeOK
    <2> QED
      BY <1>4, <2>3 DEF SinceInv
  <1>7. CASE Commit(s) /\ job[s].kind = "clear"
    <2> SUFFICES ASSUME ~crowded' PROVE AllSince'
      BY <1>4 DEF SinceInv, AllSince
    <2>1. ~company /\ running = {s} /\ disk \in {Torn, Empty} /\ job[s].refs = Empty
      BY <1>7 DEF SinceInv, ClearsAlone, Commit
    <2>2. memory'[s] = Empty
      BY <1>7, <2>1 DEF IInv, TypeOK, Commit
    <2>3. \A t \in Surface : job'[t].refs = Empty
      BY <1>1, <1>2, <2>1 DEF IInv, OnlyRunning
    <2>4. BoundSince(Empty)'
      BY DEF BoundSince, Empty
    <2> QED
      BY <1>3, <2>1, <2>2, <2>3, <2>4 DEF AllSince, BoundSince
  <1> QED
    BY <1>4, <1>5, <1>6, <1>7 DEF SinceInv

LEMMA NextSince == IInv /\ SinceInv /\ [Next]_vars => SinceInv'
  <1> SUFFICES ASSUME IInv, SinceInv, [Next]_vars PROVE SinceInv'
    OBVIOUS
  <1>1. CASE Next
    BY <1>1, LaunchSince, ExitSince, BindSince, ClearSince, SaveSince, EndSince
    DEF Next, Change, Save
  <1>2. CASE UNCHANGED vars
    BY <1>2 DEF vars, SinceInv, ClearsAlone, AllSince, BoundSince
  <1> QED
    BY <1>1, <1>2

(* After a clear that no other process ran beside, every idle process      *)
(* knows only bindings made since, for any number of processes and entries *)
(* and through refused saves and crashes: the first Store on a new Vessel  *)
(* finds no entry bound.                                                   *)
THEOREM ClearedWhenAloneHolds == Spec => []ClearedWhenAlone
  <1>1. SinceInv => ClearedWhenAlone
    BY DEF SinceInv, AllSince, ClearedWhenAlone
  <1> QED
    BY <1>1, InitSince, NextSince, IInvHolds, PTL DEF Spec

-----------------------------------------------------------------------------
(* A Face.  Every copy of it that is on its way has counters of its own    *)
(* and, while the clock was not set back, files in the order in which they *)
(* were stored (Sane); one that only changes filler holds the operator's   *)
(* files as they are, until another is written (Carries).                  *)

(* In a finite set, one thing comes before no other.                       *)
LEMMA FiniteHasLast ==
    ASSUME NEW S, IsFiniteSet(S), S # {}, NEW R,
           \A x \in S : <<x, x>> \in R,
           \A x, y \in S : <<x, y>> \in R \/ <<y, x>> \in R,
           \A x, y, z \in S : <<x, y>> \in R /\ <<y, z>> \in R => <<x, z>> \in R
    PROVE  \E x \in S : \A y \in S : <<x, y>> \in R
<1> DEFINE Above(x) == {y \in S : <<y, x>> \in R}
<1> DEFINE T == {Above(x) : x \in S}
<1>1. T \subseteq FiniteSubsetsOf(S) /\ T # {}
  <2>1. \A x \in S : Above(x) \in SUBSET S
    OBVIOUS
  <2> HIDE DEF Above
  <2>2. \A x \in S : IsFiniteSet(Above(x))
    BY <2>1, FS_Subset
  <2>3. \A x \in S : Above(x) \in FiniteSubsetsOf(S)
    BY <2>1, <2>2 DEF FiniteSubsetsOf
  <2> QED BY <2>3
<1>2. IsWellFoundedOn(StrictSubsetOrdering(S), FiniteSubsetsOf(S))
  BY FS_StrictSubsetOrderingWellFounded
<1>3. \E U \in T : \A V \in T : ~ (<<V, U>> \in StrictSubsetOrdering(S))
  <2> HIDE DEF T
  <2> QED BY <1>1, <1>2, WFMin
<1>4. PICK x \in S : \A y \in S : ~ (<<Above(y), Above(x)>> \in StrictSubsetOrdering(S))
  <2> HIDE DEF Above
  <2>1. PICK U \in T : \A V \in T : ~ (<<V, U>> \in StrictSubsetOrdering(S))
    BY <1>3
  <2>2. PICK x \in S : U = Above(x)
    BY <2>1
  <2> QED BY <2>1, <2>2
<1>5. ASSUME NEW y \in S PROVE <<x, y>> \in R
  <2> SUFFICES ASSUME <<x, y>> \notin R PROVE FALSE
    OBVIOUS
  <2>1. <<y, x>> \in R
    OBVIOUS
  <2>2. Above(y) \subseteq Above(x)
    BY <2>1
  <2>3. x \in Above(x) /\ x \notin Above(y)
    OBVIOUS
  <2>4. <<Above(y), Above(x)>> \in StrictSubsetOrdering(S)
    BY <2>2, <2>3 DEF StrictSubsetOrdering
  <2> QED BY <1>4, <2>4
<1> QED BY <1>5

(* The greatest and the least of finitely many numbers.                    *)
LEMMA Extremes ==
    ASSUME NEW S \in SUBSET Int, IsFiniteSet(S), S # {}
    PROVE  /\ Max(S) \in S /\ \A y \in S : Max(S) >= y
           /\ Min(S) \in S /\ \A y \in S : Min(S) <= y
<1>1. \E x \in S : \A y \in S : x >= y
  <2> DEFINE R == {p \in S \X S : p[1] >= p[2]}
  <2>1. \A x, y \in S : <<x, y>> \in R <=> x >= y
    OBVIOUS
  <2> HIDE DEF R
  <2>2. \E x \in S : \A y \in S : <<x, y>> \in R
    <3>1. \A x \in S : <<x, x>> \in R
      BY <2>1
    <3>2. \A x, y \in S : <<x, y>> \in R \/ <<y, x>> \in R
      <4> SUFFICES ASSUME NEW x \in S, NEW y \in S PROVE <<x, y>> \in R \/ <<y, x>> \in R
        OBVIOUS
      <4>1. x \in Int /\ y \in Int
        OBVIOUS
      <4>2. x >= y \/ y >= x
        BY <4>1
      <4> QED BY <2>1, <4>2
    <3>3. \A x, y, z \in S : <<x, y>> \in R /\ <<y, z>> \in R => <<x, z>> \in R
      <4> SUFFICES ASSUME NEW x \in S, NEW y \in S, NEW z \in S, <<x, y>> \in R, <<y, z>> \in R
                   PROVE  <<x, z>> \in R
        OBVIOUS
      <4>1. x >= y /\ y >= z /\ x \in Int /\ y \in Int /\ z \in Int
        BY <2>1
      <4>2. x >= z
        BY <4>1
      <4> QED BY <2>1, <4>2
    <3> QED BY <3>1, <3>2, <3>3, FiniteHasLast
  <2> QED BY <2>1, <2>2
<1>2. \E x \in S : \A y \in S : x =< y
  <2> DEFINE R == {p \in S \X S : p[1] <= p[2]}
  <2>1. \A x, y \in S : <<x, y>> \in R <=> x <= y
    OBVIOUS
  <2> HIDE DEF R
  <2>2. \E x \in S : \A y \in S : <<x, y>> \in R
    <3>1. \A x \in S : <<x, x>> \in R
      BY <2>1
    <3>2. \A x, y \in S : <<x, y>> \in R \/ <<y, x>> \in R
      <4> SUFFICES ASSUME NEW x \in S, NEW y \in S PROVE <<x, y>> \in R \/ <<y, x>> \in R
        OBVIOUS
      <4>1. x \in Int /\ y \in Int
        OBVIOUS
      <4>2. x <= y \/ y <= x
        BY <4>1
      <4> QED BY <2>1, <4>2
    <3>3. \A x, y, z \in S : <<x, y>> \in R /\ <<y, z>> \in R => <<x, z>> \in R
      <4> SUFFICES ASSUME NEW x \in S, NEW y \in S, NEW z \in S, <<x, y>> \in R, <<y, z>> \in R
                   PROVE  <<x, z>> \in R
        OBVIOUS
      <4>1. x <= y /\ y <= z /\ x \in Int /\ y \in Int /\ z \in Int
        BY <2>1
      <4>2. x <= z
        BY <4>1
      <4> QED BY <2>1, <4>2
    <3> QED BY <3>1, <3>2, <3>3, FiniteHasLast
  <2> QED BY <2>1, <2>2
<1> QED BY <1>1, <1>2 DEF Max, Min

-----------------------------------------------------------------------------
(* An operation is a record, whatever it holds.                            *)
Field == {"kind", "todo", "read", "files", "ask", "restricted", "target", "stale", "answer"}
IsOperation(o) == o = [g \in Field |-> o[g]]

LEMMA Changes ==
    ASSUME NEW o, IsOperation(o), NEW g \in Field, NEW x
    PROVE  LET n == [o EXCEPT ![g] = x]
           IN  IsOperation(n) /\ n[g] = x /\ \A h \in Field : h # g => n[h] = o[h]
BY DEF IsOperation

LEMMA IdleIs ==
    /\ IsOperation(NoOperation) /\ NoOperation.kind = "idle" /\ NoOperation.todo = <<>>
    /\ NoOperation.read = Nothing /\ NoOperation.files = Nothing /\ NoOperation.ask = NoAsk
BY DEF IsOperation, NoOperation, Field

(* How an operation begins.                                                *)
LEMMA Changed ==
    ASSUME NEW kind, NEW files, NEW ask
    PROVE  LET n == Rewrite(kind, files, ask)
           IN  /\ IsOperation(n) /\ n.kind = kind /\ n.todo = ReadWrite
               /\ n.files = files /\ n.ask = ask /\ n.read = Nothing
<1> DEFINE n1 == [NoOperation EXCEPT !.kind = kind]
<1> DEFINE n2 == [n1 EXCEPT !.todo = ReadWrite]
<1> DEFINE n3 == [n2 EXCEPT !.files = files]
<1> DEFINE n4 == [n3 EXCEPT !.ask = ask]
<1>1. Rewrite(kind, files, ask) = n4
  BY DEF Rewrite
<1>2. IsOperation(n1) /\ n1.kind = kind /\ n1.read = Nothing
  BY IdleIs, Changes DEF Field
<1> HIDE DEF n1
<1>3. IsOperation(n2) /\ n2.kind = kind /\ n2.read = Nothing
      /\ n2.todo = ReadWrite
  BY <1>2, Changes DEF Field
<1> HIDE DEF n2
<1>4. IsOperation(n3) /\ n3.kind = kind /\ n3.read = Nothing
      /\ n3.todo = ReadWrite /\ n3.files = files
  BY <1>3, Changes DEF Field
<1> HIDE DEF n3
<1>5. IsOperation(n4) /\ n4.kind = kind /\ n4.read = Nothing
      /\ n4.todo = ReadWrite /\ n4.files = files /\ n4.ask = ask
  BY <1>4, Changes DEF Field
<1> QED BY <1>1, <1>5

LEMMA Looked ==
    ASSUME NEW kind
    PROVE  LET n == Look(kind)
           IN  /\ IsOperation(n) /\ n.kind = kind /\ n.todo = <<"touch">> /\ n.files = slot
               /\ n.read = Nothing /\ n.ask = NoAsk
<1> DEFINE n1 == [NoOperation EXCEPT !.kind = kind]
<1> DEFINE n2 == [n1 EXCEPT !.todo = <<"touch">>]
<1> DEFINE n3 == [n2 EXCEPT !.files = slot]
<1>1. Look(kind) = n3
  BY DEF Look
<1>2. IsOperation(n1) /\ n1.kind = kind /\ n1.read = Nothing /\ n1.ask = NoAsk
  BY IdleIs, Changes DEF Field
<1> HIDE DEF n1
<1>3. IsOperation(n2) /\ n2.kind = kind /\ n2.read = Nothing /\ n2.ask = NoAsk
      /\ n2.todo = <<"touch">>
  BY <1>2, Changes DEF Field
<1> HIDE DEF n2
<1>4. IsOperation(n3) /\ n3.kind = kind /\ n3.read = Nothing /\ n3.ask = NoAsk
      /\ n3.todo = <<"touch">> /\ n3.files = slot
  BY <1>3, Changes DEF Field
<1> QED BY <1>1, <1>4

-----------------------------------------------------------------------------
(* Files that are left out, filled up and stored.                          *)
LEMMA Left ==
    ASSUME NEW files, NEW names
    PROVE  LET rest == Without(files, names)
           IN  /\ DOMAIN rest = DOMAIN files \ names
               /\ OperatorFiles(rest) = OperatorFiles(files) \ names
               /\ Filler(rest) = Filler(files) \ names
               /\ \A f \in DOMAIN rest : rest[f] = files[f]
BY DEF Without, OperatorFiles, Filler

(* Without its filler, a Face is its operator's files.                     *)
Own(files) == Without(files, Filler(files))
LEMMA OwnIs ==
    ASSUME NEW files
    PROVE  /\ Own(files) = [f \in OperatorFiles(files) |-> files[f]]
           /\ DOMAIN Own(files) = OperatorFiles(files)
           /\ OperatorFiles(Own(files)) = OperatorFiles(files)
           /\ \A f \in OperatorFiles(files) : Own(files)[f] = files[f]
BY DEF Own, Without, OperatorFiles, Filler

LEMMA SameOwn ==
    ASSUME NEW files, NEW others, OperatorFiles(files) = OperatorFiles(others),
           \A f \in OperatorFiles(files) : files[f] = others[f]
    PROVE  Own(files) = Own(others)
BY OwnIs

(* What an operation may be asked: the files to store are files.           *)
AskOK(ask) ==
    \A f \in DOMAIN ask.put : f \in Nat \ {0} /\ ask.put[f] \in FileRecord

LEMMA AskedIs ==
    ASSUME NEW files, NEW ask
    PROVE  /\ DOMAIN Asked(files, ask) = (DOMAIN files \ ask.drop) \union DOMAIN ask.put
           /\ \A f \in DOMAIN Asked(files, ask) :
                 Asked(files, ask)[f] = IF f \in DOMAIN ask.put THEN ask.put[f] ELSE files[f]
BY DEF Asked

LEMMA AskedAreFiles ==
    ASSUME NEW files, AreFiles(files), NEW ask, AskOK(ask)
    PROVE  AreFiles(Asked(files, ask))
<1> DEFINE new == Asked(files, ask)
<1>1. /\ DOMAIN new = (DOMAIN files \ ask.drop) \union DOMAIN ask.put
      /\ \A f \in DOMAIN new :
            new[f] = IF f \in DOMAIN ask.put THEN ask.put[f] ELSE files[f]
  BY AskedIs
<1> HIDE DEF new
<1>2. AreFiles(new)
  BY <1>1 DEF AreFiles, AskOK, OperatorFiles, Filler
<1> QED BY <1>2 DEF new

(* Nothing asked, nothing changed.                                         *)
LEMMA AskedNothing ==
    /\ AskOK(NoAsk)
    /\ \A files : Asked(Own(files), NoAsk) = Own(files)
<1>1. NoAsk.put = Nothing /\ NoAsk.drop = {} /\ DOMAIN Nothing = {}
  BY DEF NoAsk, Ask, Nothing
<1>2. \A files : Asked(Own(files), NoAsk) = [f \in DOMAIN Own(files) |-> Own(files)[f]]
  BY <1>1 DEF Asked
<1> QED BY <1>1, <1>2 DEF AskOK, Own, Without

(* Storing a file and removing one change what was asked and nothing else  *)
(* of the operator's.                                                      *)
LEMMA StoredOwn ==
    ASSUME NEW files, NEW f, NEW entry, entry.origin # Generated,
           NEW put, DOMAIN put = {f}, put[f] = entry
    PROVE  Own(With(files, f, entry)) = Asked(Own(files), Ask(put, {}))
<1> DEFINE new == With(files, f, entry)
<1>1. /\ DOMAIN new = DOMAIN files \union {f} /\ new[f] = entry
      /\ \A g \in DOMAIN files : g # f => new[g] = files[g]
  BY DEF With
<1> HIDE DEF new
<1>2. OperatorFiles(new) = OperatorFiles(files) \union {f}
  BY <1>1 DEF OperatorFiles, Filler
<1>3. Own(new) = [g \in OperatorFiles(files) \union {f} |-> IF g = f THEN entry ELSE files[g]]
  <2>1. \A g \in OperatorFiles(new) : new[g] = IF g = f THEN entry ELSE files[g]
    BY <1>1, <1>2 DEF OperatorFiles
  <2> QED BY <1>2, <2>1, OwnIs
<1> DEFINE ask == Ask(put, {})
<1>4. DOMAIN ask.put = {f} /\ ask.put[f] = entry /\ ask.drop = {}
  BY DEF Ask
<1> HIDE DEF ask
<1>5. Asked(Own(files), ask)
        = [g \in OperatorFiles(files) \union {f} |-> IF g = f THEN entry ELSE files[g]]
  BY <1>4, OwnIs DEF Asked
<1> QED BY <1>3, <1>5 DEF new, ask

LEMMA RemovedOwn ==
    ASSUME NEW files, NEW f
    PROVE  Own(Without(files, {f})) = Asked(Own(files), Ask(Nothing, {f}))
<1> DEFINE new == Without(files, {f})
<1>1. /\ OperatorFiles(new) = OperatorFiles(files) \ {f}
      /\ \A g \in DOMAIN new : new[g] = files[g]
  BY Left
<1> HIDE DEF new
<1>2. Own(new) = [g \in OperatorFiles(files) \ {f} |-> files[g]]
  BY <1>1, OwnIs DEF OperatorFiles
<1> DEFINE ask == Ask(Nothing, {f})
<1>3. DOMAIN ask.put = {} /\ ask.drop = {f}
  BY DEF Ask, Nothing
<1> HIDE DEF ask
<1>4. Asked(Own(files), ask) = [g \in OperatorFiles(files) \ {f} |-> files[g]]
  BY <1>3, OwnIs DEF Asked
<1> QED BY <1>2, <1>4 DEF new, ask

(* generate_dummy_profile replaces the filler and nothing else.            *)
LEMMA FilledIs ==
    ASSUME NEW files, DOMAIN files \subseteq Nat \ {0}, NEW target, NEW now
    PROVE  LET full == Filled(files, target, now).files
           IN  /\ DOMAIN full \subseteq Nat \ {0}
               /\ OperatorFiles(full) = OperatorFiles(files)
               /\ \A f \in OperatorFiles(files) : full[f] = files[f]
               /\ \A f \in Filler(full) : full[f].store_seq = 0
<1> DEFINE sizes == FillerSizes(target)
<1> DEFINE kept == Without(files, Filler(files))
<1> DEFINE Adding(pool) ==
        [f \in DOMAIN kept \union pool |->
            IF f \in pool THEN Entry(Generated, sizes[f], now, 0, 0) ELSE kept[f]]
<1> DEFINE spared == {i \in 1..Len(sizes) : Spares(kept, i)}
<1> DEFINE fits == {i \in spared : Encoded(Adding({j \in spared : j <= i})) <= Capacity}
<1> DEFINE taken == {i \in spared : \A j \in spared : j <= i => j \in fits}
<1>1. Filled(files, target, now).files = Adding(taken)
  BY DEF Filled
<1>2. /\ DOMAIN kept = OperatorFiles(files) /\ OperatorFiles(kept) = OperatorFiles(files)
      /\ \A f \in OperatorFiles(files) : kept[f] = files[f] /\ files[f].origin # Generated
  BY OwnIs DEF Own, OperatorFiles, Filler
<1> HIDE DEF kept
<1>3. \A i \in spared : i \in Nat \ {0} /\ i \notin OperatorFiles(files)
  BY <1>2 DEF Spares
<1> HIDE DEF spared
<1>4. taken \subseteq spared
  OBVIOUS
<1> HIDE DEF taken, fits, sizes
<1> DEFINE full == Adding(taken)
<1>5. /\ DOMAIN full = OperatorFiles(files) \union taken
      /\ \A f \in taken : full[f] = Entry(Generated, sizes[f], now, 0, 0)
      /\ \A f \in OperatorFiles(files) : full[f] = files[f]
  BY <1>2, <1>3, <1>4
<1>6. \A f \in taken : full[f].origin = Generated /\ full[f].store_seq = 0
  BY <1>5 DEF Entry
<1> HIDE DEF full, Adding
<1>7. Filler(full) = taken /\ OperatorFiles(full) = OperatorFiles(files)
  BY <1>2, <1>3, <1>4, <1>5, <1>6 DEF Filler, OperatorFiles
<1>8. DOMAIN full \subseteq Nat \ {0}
  BY <1>3, <1>4, <1>5 DEF OperatorFiles
<1> QED BY <1>1, <1>5, <1>6, <1>7, <1>8 DEF full

-----------------------------------------------------------------------------
(* What holds of the Face and of each copy of it that is on its way: its   *)
(* files have counters of their own and, while the clock has not gone      *)
(* back, were stored in the order of their times and counters.  `b' is     *)
(* begun, `now' the clock and `back' whether it has gone back.             *)
Older(a, b) == a.added_at < b.added_at \/ (a.added_at = b.added_at /\ a.store_seq < b.store_seq)
Sane(files, b, now, back) ==
    /\ AreFiles(files) /\ IsFiniteSet(OperatorFiles(files))
    /\ \A f \in Filler(files) : files[f].store_seq = 0
    /\ \A f \in OperatorFiles(files) : files[f].store_seq <= b /\ files[f].n <= b
    /\ \A f, g \in OperatorFiles(files) : f # g => files[f].store_seq # files[g].store_seq
    /\ ~back => \A f \in OperatorFiles(files) : files[f].added_at <= now
    /\ ~back => \A f, g \in OperatorFiles(files) :
                         files[f].n < files[g].n => Older(files[f], files[g])

LEMMA FewerSane ==
    ASSUME NEW b, NEW now, NEW back, NEW files, Sane(files, b, now, back),
           NEW fewer, DOMAIN fewer \subseteq Nat \ {0},
           OperatorFiles(fewer) \subseteq OperatorFiles(files),
           \A f \in OperatorFiles(fewer) : fewer[f] = files[f],
           \A f \in Filler(fewer) : fewer[f].store_seq = 0
    PROVE  Sane(fewer, b, now, back)
BY FS_Subset DEF Sane, AreFiles

LEMMA WithoutSane ==
    ASSUME NEW b, NEW now, NEW back, NEW files, Sane(files, b, now, back), NEW names
    PROVE  Sane(Without(files, names), b, now, back)
<1> DEFINE rest == Without(files, names)
<1>1. /\ DOMAIN rest = DOMAIN files \ names
      /\ OperatorFiles(rest) = OperatorFiles(files) \ names
      /\ Filler(rest) = Filler(files) \ names
      /\ \A f \in DOMAIN rest : rest[f] = files[f]
  BY Left
<1> HIDE DEF rest
<1>2. OperatorFiles(rest) \subseteq DOMAIN rest /\ Filler(rest) \subseteq DOMAIN rest
  BY DEF OperatorFiles, Filler
<1>3. DOMAIN rest \subseteq Nat \ {0}
  BY <1>1 DEF Sane, AreFiles
<1>4. \A f \in Filler(rest) : rest[f].store_seq = 0
  BY <1>1, <1>2 DEF Sane
<1>5. Sane(rest, b, now, back)
  BY <1>1, <1>2, <1>3, <1>4, FewerSane
<1> QED BY <1>5 DEF rest

LEMMA FilledSane ==
    ASSUME NEW b, NEW now, NEW back, NEW files, Sane(files, b, now, back), NEW target, NEW at
    PROVE  Sane(Filled(files, target, at).files, b, now, back)
<1>1. DOMAIN files \subseteq Nat \ {0}
  BY DEF Sane, AreFiles
<1> QED BY <1>1, FilledIs, FewerSane

LEMMA NothingSane == \A b, now, back : Sane(Nothing, b, now, back)
<1>1. DOMAIN Nothing = {} /\ OperatorFiles(Nothing) = {} /\ Filler(Nothing) = {}
  BY DEF Nothing, OperatorFiles, Filler
<1> QED BY <1>1, FS_EmptySet DEF Sane, AreFiles

(* The next counter is above every counter in use, and one more at most.   *)
LEMMA NextStoreSeqIs ==
    ASSUME NEW b, NEW now, NEW back, NEW files, Sane(files, b, now, back), b \in Nat
    PROVE  /\ NextStoreSeq(files) \in Nat /\ NextStoreSeq(files) <= b + 1
           /\ \A f \in DOMAIN files : files[f].store_seq < NextStoreSeq(files)
<1> DEFINE S == {files[f].store_seq : f \in DOMAIN files} \union {0}
<1>1. \A f \in DOMAIN files : files[f].store_seq \in 0..b
  <2> SUFFICES ASSUME NEW f \in DOMAIN files PROVE files[f].store_seq \in 0..b
    OBVIOUS
  <2>1. CASE f \in Filler(files)
    BY <2>1 DEF Sane
  <2>2. CASE f \in OperatorFiles(files)
    <3>1. files[f] \in FileRecord /\ files[f].store_seq <= b
      BY <2>2 DEF Sane, AreFiles
    <3>2. files[f].store_seq \in Nat
      BY <3>1 DEF FileRecord
    <3> QED BY <3>1, <3>2
  <2> QED BY <2>1, <2>2 DEF OperatorFiles
<1>2. S \subseteq 0..b /\ S # {} /\ S \subseteq Int
  BY <1>1
<1>3. IsFiniteSet(S)
  <2>1. IsFiniteSet(0..b)
    BY FS_Interval
  <2> HIDE DEF S
  <2> QED BY <1>2, <2>1, FS_Subset
<1> HIDE DEF S
<1>4. Max(S) \in S /\ \A y \in S : Max(S) >= y
  BY <1>2, <1>3, Extremes
<1>5. NextStoreSeq(files) = 1 + Max(S)
  BY DEF NextStoreSeq, S
<1>6. \A f \in DOMAIN files : files[f].store_seq \in S
  BY DEF S
<1>7. Max(S) \in 0..b
  BY <1>2, <1>4
<1> QED BY <1>1, <1>4, <1>5, <1>6, <1>7

LEMMA LegacySane ==
    ASSUME NEW f \in Name, NEW b \in Nat, NEW now \in Nat, NEW back
    PROVE  Sane(Legacy(f), b, now, back)
<1> DEFINE old == Legacy(f)
<1>1. Min(Size) \in Nat
  <2>1. Size \in SUBSET Int /\ Size \subseteq Nat /\ IsFiniteSet(Size) /\ Size # {}
    BY SizeAssumption
  <2>2. Min(Size) \in Size
    BY <2>1, Extremes
  <2> QED BY <2>1, <2>2
<1>2. old = [g \in {f} |-> Entry("", Min(Size), BeforeTime, 0, 0)]
  BY DEF Legacy
<1>3. BeforeTime \in BeforeTime..MaxClock /\ 0 \in 0..MaxOps /\ BeforeTime <= now
  BY LimitsAssumption DEF BeforeTime
<1>4. Entry("", Min(Size), BeforeTime, 0, 0) \in FileRecord
  BY <1>1, <1>3 DEF Entry, FileRecord
<1> DEFINE e == Entry("", Min(Size), BeforeTime, 0, 0)
<1>5. DOMAIN old = {f} /\ old[f] = e
  BY <1>2
<1>6. e.origin = "" /\ e.store_seq = 0 /\ e.n = 0 /\ e.added_at = BeforeTime /\ e \in FileRecord
  BY <1>4 DEF Entry
<1> HIDE DEF e
<1> HIDE DEF old
<1>7. Filler(old) = {} /\ OperatorFiles(old) = {f}
  BY <1>5, <1>6 DEF Filler, OperatorFiles, Generated
<1>8. IsFiniteSet(OperatorFiles(old))
  BY <1>7, FS_Singleton
<1>9. AreFiles(old)
  BY <1>5, <1>6, <1>7, NameAssumption DEF AreFiles
<1>10. Sane(old, b, now, back)
  <2>1. \A g, k \in OperatorFiles(old) : g = k /\ old[g] = e
    BY <1>5, <1>7
  <2>2. e.store_seq <= b /\ e.n <= b /\ ~ (e.n < e.n) /\ e.added_at <= now
    <3>1. 0 \in Nat /\ 0 <= b /\ ~ (0 < 0)
      OBVIOUS
    <3>2. e.store_seq = 0 /\ e.n = 0 /\ e.added_at = BeforeTime
      BY <1>6
    <3>3. e.store_seq <= b /\ e.n <= b
      BY <3>1, <3>2
    <3>4. ~ (e.n < e.n)
      BY <3>1, <3>2
    <3> QED BY <1>3, <3>2, <3>3, <3>4
  <2>3. \A g \in OperatorFiles(old) : old[g].store_seq <= b /\ old[g].n <= b
    BY <2>1, <2>2
  <2>4. \A g, k \in OperatorFiles(old) : ~ (old[g].n < old[k].n)
    BY <2>1, <2>2
  <2>5. \A g \in OperatorFiles(old) : old[g].added_at <= now
    BY <2>1, <2>2
  <2> QED BY <1>7, <1>8, <1>9, <2>1, <2>3, <2>4, <2>5 DEF Sane
<1> QED BY <1>10 DEF old

(* A file that is stored is the last of its Face.                          *)
LEMMA StoredSane ==
    ASSUME NEW b, NEW now, NEW back, NEW files, Sane(files, b, now, back),
           b \in 0..MaxOps, b < MaxOps, now \in 0..MaxClock, NEW f \in Name, NEW size \in Size
    PROVE  Sane(With(files, f, Entry(Manual, size, now, NextStoreSeq(files), b + 1)),
                b + 1, now, back)
<1> DEFINE seq == NextStoreSeq(files)
<1> DEFINE new == Entry(Manual, size, now, seq, b + 1)
<1> DEFINE more == With(files, f, new)
<1>1. /\ seq \in Nat /\ seq <= b + 1
      /\ \A g \in DOMAIN files : files[g].store_seq < seq
  BY NextStoreSeqIs
<1>2. /\ new.origin = Manual /\ new.size = size /\ new.added_at = now
      /\ new.store_seq = seq /\ new.n = b + 1
      /\ new = [origin |-> Manual, size |-> size, added_at |-> now, store_seq |-> seq,
                n |-> b + 1]
  BY DEF Entry
<1> HIDE DEF seq, new
<1>3. /\ DOMAIN more = DOMAIN files \union {f} /\ more[f] = new
      /\ \A g \in DOMAIN files : g # f => more[g] = files[g]
  BY DEF With
<1> HIDE DEF more
<1>4. Filler(more) = Filler(files) \ {f}
  BY <1>2, <1>3 DEF Filler, Manual, Generated
<1>5. OperatorFiles(more) = OperatorFiles(files) \union {f}
  BY <1>3, <1>4 DEF Filler, OperatorFiles
<1>6. new \in FileRecord
  <2>1. now \in BeforeTime..MaxClock /\ b + 1 \in 0..MaxOps
    BY LimitsAssumption DEF BeforeTime
  <2>2. size \in Nat
    BY SizeAssumption
  <2> QED BY <1>1, <1>2, <2>1, <2>2 DEF FileRecord
<1>7. IsFiniteSet(OperatorFiles(more))
  BY <1>5, FS_AddElement DEF Sane
<1>8. AreFiles(more)
  <2>1. DOMAIN more \subseteq Nat \ {0}
    BY <1>3, NameAssumption DEF Sane, AreFiles
  <2>2. \A g \in OperatorFiles(more) : more[g] \in FileRecord
    BY <1>3, <1>5, <1>6 DEF Sane, AreFiles, OperatorFiles
  <2> QED BY <2>1, <2>2 DEF AreFiles
<1>9. \A g \in Filler(more) : more[g].store_seq = 0
  BY <1>3, <1>4 DEF Sane, Filler
(* What each file of the new Face was, or is. *)
<1>10. \A g \in OperatorFiles(more) : g = f \/ (g \in OperatorFiles(files) /\ more[g] = files[g])
  BY <1>3, <1>5 DEF OperatorFiles
<1>11. \A g \in OperatorFiles(files) :
          /\ files[g].store_seq \in Nat /\ files[g].n \in Nat /\ files[g].added_at \in Int
          /\ files[g].store_seq < seq /\ files[g].store_seq <= b /\ files[g].n <= b
  <2> SUFFICES ASSUME NEW g \in OperatorFiles(files)
               PROVE  /\ files[g].store_seq \in Nat /\ files[g].n \in Nat
                      /\ files[g].added_at \in Int /\ files[g].store_seq < seq
                      /\ files[g].store_seq <= b /\ files[g].n <= b
    OBVIOUS
  <2>1. files[g] \in FileRecord /\ files[g].store_seq <= b /\ files[g].n <= b
    BY DEF Sane, AreFiles
  <2>2. files[g].store_seq \in Nat /\ files[g].n \in Nat /\ files[g].added_at \in Int
    <3>1. BeforeTime..MaxClock \subseteq Int /\ 0..MaxOps \subseteq Nat
      BY LimitsAssumption DEF BeforeTime
    <3>2. files[g].store_seq \in Nat /\ files[g].n \in 0..MaxOps
          /\ files[g].added_at \in BeforeTime..MaxClock
      BY <2>1 DEF FileRecord
    <3> QED BY <3>1, <3>2
  <2>3. files[g].store_seq < seq
    BY <1>1 DEF OperatorFiles
  <2> QED BY <2>1, <2>2, <2>3
<1>12. \A g \in OperatorFiles(more) : more[g].store_seq <= b + 1 /\ more[g].n <= b + 1
  BY <1>1, <1>2, <1>3, <1>10, <1>11
<1>13. \A g, h \in OperatorFiles(more) : g # h => more[g].store_seq # more[h].store_seq
  <2> SUFFICES ASSUME NEW g \in OperatorFiles(more), NEW h \in OperatorFiles(more), g # h
               PROVE  more[g].store_seq # more[h].store_seq
    OBVIOUS
  <2>1. CASE g = f
    BY <1>2, <1>3, <1>10, <1>11, <2>1
  <2>2. CASE h = f
    BY <1>2, <1>3, <1>10, <1>11, <2>2
  <2>3. CASE g # f /\ h # f
    BY <1>10, <2>3 DEF Sane
  <2> QED BY <2>1, <2>2, <2>3
<1>14. ~back => \A g \in OperatorFiles(more) : more[g].added_at <= now
  BY <1>2, <1>3, <1>10 DEF Sane
<1>15. ~back => \A g, h \in OperatorFiles(more) :
          more[g].n < more[h].n => Older(more[g], more[h])
  <2> SUFFICES ASSUME ~back, NEW g \in OperatorFiles(more), NEW h \in OperatorFiles(more),
                      more[g].n < more[h].n
               PROVE  Older(more[g], more[h])
    OBVIOUS
  <2>1. g # f
    <3> SUFFICES ASSUME g = f PROVE FALSE
      OBVIOUS
    <3>1. more[g].n = b + 1
      BY <1>2, <1>3
    <3>2. more[h].n \in Nat /\ more[h].n <= b + 1
      BY <1>2, <1>3, <1>10, <1>11
    <3> QED BY <3>1, <3>2
  <2>2. CASE h = f
    <3>1. files[g].added_at <= now /\ files[g].added_at \in Int /\ files[g].store_seq \in Nat
          /\ files[g].store_seq < seq /\ more[g] = files[g]
      BY <1>10, <1>11, <2>1 DEF Sane
    <3>2. more[h].added_at = now /\ more[h].store_seq = seq
      BY <1>2, <1>3, <2>2
    <3> QED BY <3>1, <3>2 DEF Older
  <2>3. CASE h # f
    BY <1>10, <2>1, <2>3 DEF Sane
  <2> QED BY <2>2, <2>3
<1>16. Sane(more, b + 1, now, back)
  BY <1>7, <1>8, <1>9, <1>12, <1>13, <1>14, <1>15 DEF Sane
<1> QED BY <1>16 DEF more, new, seq

(* What is sane stays sane when another operation begins and when the      *)
(* clock is set.                                                           *)
LEMMA SaneLater ==
    ASSUME NEW b \in Nat, NEW now \in Nat, NEW back, NEW files, Sane(files, b, now, back)
    PROVE  /\ Sane(files, b + 1, now, back)
           /\ \A new \in Nat : Sane(files, b, new, back \/ new < now)
<1>1. \A f \in OperatorFiles(files) :
         /\ files[f].store_seq \in Nat /\ files[f].n \in Nat /\ files[f].added_at \in Int
         /\ files[f].store_seq <= b /\ files[f].n <= b
  <2> SUFFICES ASSUME NEW f \in OperatorFiles(files)
               PROVE  /\ files[f].store_seq \in Nat /\ files[f].n \in Nat
                      /\ files[f].added_at \in Int
                      /\ files[f].store_seq <= b /\ files[f].n <= b
    OBVIOUS
  <2>1. files[f] \in FileRecord /\ files[f].store_seq <= b /\ files[f].n <= b
    BY DEF Sane, AreFiles
  <2>2. BeforeTime..MaxClock \subseteq Int /\ 0..MaxOps \subseteq Nat
    BY LimitsAssumption DEF BeforeTime
  <2>3. files[f].store_seq \in Nat /\ files[f].n \in 0..MaxOps
        /\ files[f].added_at \in BeforeTime..MaxClock
    BY <2>1 DEF FileRecord
  <2> QED BY <2>1, <2>2, <2>3
<1>2. Sane(files, b + 1, now, back)
  <2>1. \A f \in OperatorFiles(files) : files[f].store_seq <= b + 1 /\ files[f].n <= b + 1
    BY <1>1
  <2> QED BY <2>1 DEF Sane
<1>3. ASSUME NEW new \in Nat PROVE Sane(files, b, new, back \/ new < now)
  <2>1. ~(back \/ new < now) => \A f \in OperatorFiles(files) : files[f].added_at <= new
    <3> SUFFICES ASSUME ~back, ~(new < now), NEW f \in OperatorFiles(files)
                 PROVE  files[f].added_at <= new
      OBVIOUS
    <3>1. files[f].added_at <= now /\ files[f].added_at \in Int
      BY <1>1 DEF Sane
    <3> QED BY <3>1
  <2> QED BY <2>1 DEF Sane
<1> QED BY <1>2, <1>3

-----------------------------------------------------------------------------
(* What holds of every operation: what it read and what it will write are  *)
(* sane, and one that hands a file back hands the most recent of what it   *)
(* read.                                                                   *)
Todos == {<<>>, ReadWrite, <<"count">>, <<"touch">>}
OpOK(o, b, now, back) ==
    /\ IsOperation(o) /\ o.todo \in Todos /\ AskOK(o.ask)
    /\ Sane(o.files, b, now, back) /\ Sane(o.read, b, now, back)
    /\ (o.kind = "retrieve" /\ o.todo = <<"touch">>) => o.answer = MostRecent(o.files)

(* An operation, when nothing was written since it read the Face, holds    *)
(* the operator's files that are there, changed as it was asked.           *)
Carries(o, files, dis) ==
    (o.todo = ReadWrite /\ ~o.stale /\ ~dis) => Own(o.files) = Asked(Own(files), o.ask)

FaceInv ==
    /\ clock \in 0..MaxClock /\ begun \in 0..MaxOps
    /\ Sane(slot, begun, clock, turnedBack) /\ AreFiles(stored)
    /\ op = [a \in Process |-> op[a]]
    /\ \A a \in Process : OpOK(op[a], begun, clock, turnedBack)
    /\ \A a \in Process : Carries(op[a], slot, disturbed)
    /\ ~disturbed => Own(slot) = stored

LEMMA TodoIs ==
    /\ <<>> # ReadWrite /\ <<>> # <<"count">> /\ <<>> # <<"touch">>
    /\ ReadWrite # <<"count">> /\ ReadWrite # <<"touch">> /\ <<"count">> # <<"touch">>
    /\ Tail(ReadWrite) = <<"count">>
    /\ \A todo \in Todos : (todo # <<>> /\ Head(todo) = "write") <=> todo = ReadWrite
    /\ \A todo \in Todos : (todo # <<>> /\ Head(todo) = "touch") <=> todo = <<"touch">>
<1>1. Head(ReadWrite) = "write" /\ Tail(ReadWrite) = <<"count">>
  BY DEF ReadWrite
<1>2. Head(<<"count">>) = "count" /\ Head(<<"touch">>) = "touch"
  OBVIOUS
<1>3. <<>> # ReadWrite /\ <<>> # <<"count">> /\ <<>> # <<"touch">>
  BY DEF ReadWrite
<1> QED BY <1>1, <1>2, <1>3 DEF Todos

LEMMA IdleOK ==
    \A b, now, back, files, dis :
        OpOK(NoOperation, b, now, back) /\ Carries(NoOperation, files, dis)
BY IdleIs, NothingSane, TodoIs, AskedNothing DEF OpOK, Carries, Todos

(* The Face's own files are files.                                         *)
LEMMA OwnAreFiles ==
    ASSUME NEW files, AreFiles(files) PROVE AreFiles(Own(files))
<1>1. OperatorFiles(files) \subseteq DOMAIN files
  BY DEF OperatorFiles
<1> QED BY <1>1, OwnIs DEF AreFiles

LEMMA OpLater ==
    ASSUME NEW b \in Nat, NEW now \in Nat, NEW back, NEW o, OpOK(o, b, now, back)
    PROVE  /\ OpOK(o, b + 1, now, back)
           /\ \A new \in Nat : OpOK(o, b, new, back \/ new < now)
BY SaneLater DEF OpOK

(* An operation begins, or fails: nothing but itself has changed.          *)
LEMMA Begun ==
    ASSUME FaceInv, NEW a \in Process, NEW new, Begin(a, new),
           OpOK(new, begun + 1, clock, turnedBack), Carries(new, slot, disturbed)
    PROVE  FaceInv'
<1>1. begun' = begun + 1 /\ begun < MaxOps /\ op' = [op EXCEPT ![a] = new]
      /\ UNCHANGED <<clock, slot, counted, stored, turnedBack, disturbed>>
  BY DEF Begin
<1>2. begun' \in 0..MaxOps /\ clock' \in 0..MaxClock /\ begun \in Nat /\ clock \in Nat
  BY <1>1, LimitsAssumption DEF FaceInv
<1>3. Sane(slot', begun', clock', turnedBack') /\ AreFiles(stored)'
  BY <1>1, <1>2, SaneLater DEF FaceInv, AreFiles, OperatorFiles, Filler, FileRecord
<1>4. op' = [b \in Process |-> op'[b]] /\ op'[a] = new
      /\ \A b \in Process : b # a => op'[b] = op[b]
  BY <1>1 DEF FaceInv
<1>5. ASSUME NEW b \in Process
      PROVE  OpOK(op'[b], begun', clock', turnedBack') /\ Carries(op'[b], slot', disturbed')
  <2>1. CASE b = a
    BY <1>1, <1>4, <2>1
  <2>2. CASE b # a
    BY <1>1, <1>2, <1>4, <2>2, OpLater DEF FaceInv
  <2> QED BY <2>1, <2>2
<1>6. ~disturbed' => Own(slot') = stored'
  BY <1>1 DEF FaceInv
<1> QED BY <1>2, <1>3, <1>4, <1>5, <1>6 DEF FaceInv

LEMMA Failed ==
    ASSUME FaceInv, NEW a \in Process, Fail(a) PROVE FaceInv'
BY IdleOK, Begun DEF Fail

(* A change and a look, as they begin.                                     *)
LEMMA ChangeOK ==
    ASSUME NEW kind, NEW files, NEW b, NEW now, NEW back, Sane(files, b, now, back),
           NEW ask, AskOK(ask),
           NEW o, IsOperation(o), o.kind = kind, o.todo = ReadWrite, o.files = files, o.ask = ask,
           Sane(o.read, b, now, back),
           NEW before, NEW dis, Own(files) = Asked(Own(before), ask)
    PROVE  OpOK(o, b, now, back) /\ Carries(o, before, dis)
BY TodoIs DEF OpOK, Carries, Todos

LEMMA LookOK ==
    ASSUME NEW b, NEW now, NEW back, NEW o, IsOperation(o), o.todo = <<"touch">>, o.ask = NoAsk,
           Sane(o.files, b, now, back), Sane(o.read, b, now, back),
           o.kind = "retrieve" => o.answer = MostRecent(o.files), NEW before, NEW dis
    PROVE  OpOK(o, b, now, back) /\ Carries(o, before, dis)
BY TodoIs, AskedNothing DEF OpOK, Carries, Todos

-----------------------------------------------------------------------------
(* Each step.                                                              *)
LEMMA AddPayloadKept ==
    ASSUME FaceInv, NEW a \in Process, NEW f \in Name, NEW size \in Size, NEW r \in BOOLEAN,
           AddPayload(a, f, size, r)
    PROVE  FaceInv'
<1> DEFINE entry == Entry(Manual, size, clock, NextStoreSeq(slot), begun + 1)
<1> DEFINE files == With(slot, f, entry)
<1> DEFINE ask == Ask([g \in {f} |-> entry], {})
<1> DEFINE o == Rewrite("store", files, ask)
<1> DEFINE new == [o EXCEPT !["restricted"] = r]
<1>1. Begin(a, new) /\ begun < MaxOps
  BY DEF AddPayload, Begin
<1>2. Sane(files, begun + 1, clock, turnedBack)
  BY <1>1, StoredSane DEF FaceInv
<1>3. Own(files) = Asked(Own(slot), ask)
  <2>1. entry.origin # Generated
    BY DEF Entry, Manual, Generated
  <2> HIDE DEF entry
  <2> DEFINE put == [g \in {f} |-> entry]
  <2>2. DOMAIN put = {f} /\ put[f] = entry
    OBVIOUS
  <2> HIDE DEF put
  <2>3. Own(With(slot, f, entry)) = Asked(Own(slot), Ask(put, {}))
    BY <2>1, <2>2, StoredOwn
  <2> QED BY <2>3 DEF put
<1>4. AskOK(ask)
  <2>1. DOMAIN ask.put = {f} /\ ask.put[f] = entry
    BY DEF Ask
  <2>2. f \in OperatorFiles(files) /\ files[f] = entry
    <3>1. files[f] = entry /\ f \in DOMAIN files
      BY DEF With
    <3>2. entry.origin # Generated
      BY DEF Entry, Manual, Generated
    <3> HIDE DEF entry, files
    <3> QED BY <3>1, <3>2 DEF OperatorFiles, Filler
  <2> HIDE DEF entry, files, ask
  <2> QED BY <1>2, <2>1, <2>2 DEF AskOK, Sane, AreFiles, OperatorFiles
<1> HIDE DEF entry, files, ask
<1>5. IsOperation(o) /\ o.kind = "store" /\ o.todo = ReadWrite /\ o.files = files
      /\ o.ask = ask /\ o.read = Nothing
  BY Changed
<1> HIDE DEF o
<1>6. IsOperation(new) /\ new.kind = "store" /\ new.todo = ReadWrite /\ new.files = files
      /\ new.ask = ask /\ new.read = Nothing
  BY <1>5, Changes DEF Field
<1> HIDE DEF new
<1>7. OpOK(new, begun + 1, clock, turnedBack) /\ Carries(new, slot, disturbed)
  BY <1>2, <1>3, <1>4, <1>6, NothingSane, ChangeOK
<1> QED BY <1>1, <1>7, Begun

(* The Face as it is, when the next operation counts.                      *)
LEMMA SlotSane ==
    ASSUME FaceInv
    PROVE  Sane(slot, begun + 1, clock, turnedBack) /\ DOMAIN slot \subseteq Nat \ {0}
<1>1. begun \in Nat /\ clock \in Nat
  BY LimitsAssumption DEF FaceInv
<1> QED BY <1>1, SaneLater DEF FaceInv, Sane, AreFiles

LEMMA RemoveFileKept ==
    ASSUME FaceInv, NEW a \in Process, NEW f \in Name, RemoveFile(a, f) PROVE FaceInv'
<1>1. CASE f \notin DOMAIN slot
  BY <1>1, Failed DEF RemoveFile
<1>2. CASE f \in DOMAIN slot
  <2> DEFINE files == Without(slot, {f})
  <2> DEFINE ask == Ask(Nothing, {f})
  <2> DEFINE new == Rewrite("remove", files, ask)
  <2>1. Begin(a, new)
    BY <1>2 DEF RemoveFile
  <2>2. Sane(files, begun + 1, clock, turnedBack)
    BY SlotSane, WithoutSane
  <2>a. AskOK(ask) /\ Own(files) = Asked(Own(slot), ask)
    <3>1. DOMAIN ask.put = {}
      BY DEF Ask, Nothing
    <3> QED BY <3>1, RemovedOwn DEF AskOK
  <2> HIDE DEF files, ask
  <2>3. IsOperation(new) /\ new.kind = "remove" /\ new.todo = ReadWrite /\ new.files = files
        /\ new.ask = ask /\ new.read = Nothing
    BY Changed
  <2> HIDE DEF new
  <2>4. OpOK(new, begun + 1, clock, turnedBack) /\ Carries(new, slot, disturbed)
    BY <2>2, <2>a, <2>3, NothingSane, ChangeOK
  <2> QED BY <2>1, <2>4, Begun
<1> QED BY <1>1, <1>2

LEMMA GenerateKept ==
    ASSUME FaceInv, NEW a \in Process, NEW t \in Target, Generate(a, t) PROVE FaceInv'
<1> DEFINE files == Filled(slot, t, clock).files
<1>1. CASE Filler(files) = {}
  BY <1>1, Failed DEF Generate
<1>2. CASE Filler(files) # {}
  <2> DEFINE o == Rewrite("generate", files, NoAsk)
  <2> DEFINE n1 == [o EXCEPT !["restricted"] = TRUE]
  <2> DEFINE n2 == [n1 EXCEPT !["target"] = t]
  <2> DEFINE new == [n2 EXCEPT !["read"] = slot]
  <2>1. Begin(a, new)
    BY <1>2 DEF Generate
  <2>2. Sane(files, begun + 1, clock, turnedBack) /\ Own(files) = Own(slot)
    BY SlotSane, FilledSane, FilledIs, SameOwn
  <2> HIDE DEF files
  <2>3. IsOperation(o) /\ o.kind = "generate" /\ o.todo = ReadWrite /\ o.files = files /\ o.ask = NoAsk
    BY Changed
  <2> HIDE DEF o
  <2>4. IsOperation(n1) /\ n1.kind = "generate" /\ n1.todo = ReadWrite /\ n1.files = files /\ n1.ask = NoAsk
    BY <2>3, Changes DEF Field
  <2> HIDE DEF n1
  <2>5. IsOperation(n2) /\ n2.kind = "generate" /\ n2.todo = ReadWrite /\ n2.files = files /\ n2.ask = NoAsk
    BY <2>4, Changes DEF Field
  <2> HIDE DEF n2
  <2>6. IsOperation(new) /\ new.kind = "generate" /\ new.todo = ReadWrite /\ new.files = files /\ new.ask = NoAsk
        /\ new.read = slot
    BY <2>5, Changes DEF Field
  <2> HIDE DEF new
  <2>7. OpOK(new, begun + 1, clock, turnedBack) /\ Carries(new, slot, disturbed)
    BY <2>2, <2>6, SlotSane, AskedNothing, ChangeOK
  <2> QED BY <2>1, <2>7, Begun
<1> QED BY <1>1, <1>2

LEMMA ClearFillerKept ==
    ASSUME FaceInv, NEW a \in Process, ClearFiller(a) PROVE FaceInv'
<1> DEFINE files == Without(slot, Filler(slot))
<1> DEFINE o == Rewrite("clear", files, NoAsk)
<1> DEFINE new == [o EXCEPT !["restricted"] = TRUE]
<1>1. Begin(a, new)
  BY DEF ClearFiller
<1>2. Sane(files, begun + 1, clock, turnedBack)
  BY SlotSane, WithoutSane
<1>3. Own(files) = Own(slot)
  <2>1. files = Own(slot)
    BY DEF Own
  <2> HIDE DEF files
  <2>2. OperatorFiles(files) = OperatorFiles(slot)
        /\ \A f \in OperatorFiles(slot) : files[f] = slot[f]
    BY <2>1, OwnIs
  <2> QED BY <2>2, SameOwn
<1> HIDE DEF files
<1>4. IsOperation(o) /\ o.kind = "clear" /\ o.todo = ReadWrite /\ o.files = files /\ o.ask = NoAsk
      /\ o.read = Nothing
  BY Changed
<1> HIDE DEF o
<1>5. IsOperation(new) /\ new.kind = "clear" /\ new.todo = ReadWrite /\ new.files = files /\ new.ask = NoAsk
      /\ new.read = Nothing
  BY <1>4, Changes DEF Field
<1> HIDE DEF new
<1>6. OpOK(new, begun + 1, clock, turnedBack) /\ Carries(new, slot, disturbed)
  BY <1>2, <1>3, <1>5, NothingSane, AskedNothing, ChangeOK
<1> QED BY <1>1, <1>6, Begun

LEMMA ListKept ==
    ASSUME FaceInv, NEW a \in Process, List(a) PROVE FaceInv'
<1> DEFINE new == Look("list")
<1>1. Begin(a, new)
  BY DEF List
<1>2. IsOperation(new) /\ new.kind = "list" /\ new.todo = <<"touch">> /\ new.files = slot
      /\ new.read = Nothing /\ new.ask = NoAsk
  BY Looked
<1> HIDE DEF new
<1>3. OpOK(new, begun + 1, clock, turnedBack) /\ Carries(new, slot, disturbed)
  BY <1>2, SlotSane, NothingSane, LookOK
<1> QED BY <1>1, <1>3, Begun

LEMMA RetrieveKept ==
    ASSUME FaceInv, NEW a \in Process, NEW name \in Name \union {0}, NEW hint \in Name \union {0},
           Retrieve(a, name, hint)
    PROVE  FaceInv'
<1>1. CASE DOMAIN slot = {} \/ (name # 0 /\ name \notin DOMAIN slot)
  BY <1>1, Failed DEF Retrieve
<1>2. CASE ~ (DOMAIN slot = {} \/ (name # 0 /\ name \notin DOMAIN slot))
  <2> DEFINE kind == IF name = 0 /\ hint = 0 THEN "retrieve" ELSE "retrieve named"
  <2> DEFINE answer == IF name # 0 THEN name
                       ELSE IF hint \in DOMAIN slot THEN hint ELSE MostRecent(slot)
  <2> DEFINE o == Look(kind)
  <2> DEFINE new == [o EXCEPT !["answer"] = answer]
  <2>1. Begin(a, new)
    BY <1>2 DEF Retrieve
  <2>2. kind = "retrieve" => answer = MostRecent(slot)
    BY SlotSane
  <2> HIDE DEF kind, answer
  <2>3. IsOperation(o) /\ o.kind = kind /\ o.todo = <<"touch">> /\ o.files = slot
        /\ o.read = Nothing /\ o.ask = NoAsk
    BY Looked
  <2> HIDE DEF o
  <2>4. IsOperation(new) /\ new.kind = kind /\ new.todo = <<"touch">> /\ new.files = slot
        /\ new.read = Nothing /\ new.ask = NoAsk /\ new.answer = answer
    BY <2>3, Changes DEF Field
  <2> HIDE DEF new
  <2>5. OpOK(new, begun + 1, clock, turnedBack) /\ Carries(new, slot, disturbed)
    BY <2>2, <2>4, SlotSane, NothingSane, LookOK
  <2> QED BY <2>1, <2>5, Begun
<1> QED BY <1>1, <1>2

(* An operation ends and leaves the Face alone.                            *)
LEMMA Ended ==
    ASSUME FaceInv, NEW a \in Process, op' = [op EXCEPT ![a] = NoOperation],
           UNCHANGED <<clock, slot, begun, stored, turnedBack>>, disturbed => disturbed'
    PROVE  FaceInv'
<1>1. clock' \in 0..MaxClock /\ begun' \in 0..MaxOps
      /\ Sane(slot', begun', clock', turnedBack')
  BY DEF FaceInv
<1>2. AreFiles(stored)'
  BY DEF FaceInv, AreFiles, OperatorFiles, Filler, FileRecord
<1>3. op' = [b \in Process |-> op'[b]] /\ op'[a] = NoOperation
      /\ \A b \in Process : b # a => op'[b] = op[b]
  BY DEF FaceInv
<1>4. ASSUME NEW b \in Process
      PROVE  OpOK(op'[b], begun', clock', turnedBack') /\ Carries(op'[b], slot', disturbed')
  <2>1. CASE b = a
    BY <1>3, <2>1, IdleOK
  <2>2. CASE b # a
    <3>1. OpOK(op[b], begun, clock, turnedBack) /\ Carries(op[b], slot, disturbed)
      BY DEF FaceInv
    <3>2. OpOK(op'[b], begun', clock', turnedBack')
      BY <1>3, <2>2, <3>1
    <3>3. Carries(op[b], slot, disturbed')
      BY <3>1 DEF Carries
    <3> QED BY <1>3, <2>2, <3>2, <3>3
  <2> QED BY <2>1, <2>2
<1>5. ~disturbed' => Own(slot') = stored'
  BY DEF FaceInv
<1> QED BY <1>1, <1>2, <1>3, <1>4, <1>5 DEF FaceInv

LEMMA CountKept ==
    ASSUME FaceInv, NEW a \in Process, Count(a) PROVE FaceInv'
<1>1. disturbed => disturbed'
  BY DEF Count
<1> QED BY <1>1, Ended DEF Count

LEMMA TouchKept ==
    ASSUME FaceInv, NEW a \in Process, Touch(a) PROVE FaceInv'
<1>1. disturbed => disturbed'
  BY DEF Touch
<1> QED BY <1>1, Ended DEF Touch

(* The Face is written: an operation that held an older one disturbs it,   *)
(* and the others that are on their way hold an older one from now on.     *)
LEMMA WriteFaceKept ==
    ASSUME FaceInv, NEW a \in Process, WriteFace(a) PROVE FaceInv'
<1> DEFINE o == op[a]
<1>1. OpOK(o, begun, clock, turnedBack) /\ Carries(o, slot, disturbed)
  BY DEF FaceInv
<1>2. At(a, "write") /\ UNCHANGED <<clock, counted, begun, turnedBack>>
  BY DEF WriteFace
<1>3. o.todo = ReadWrite /\ o.todo # <<>>
  BY <1>1, <1>2, TodoIs DEF OpOK, At, Finished
<1>4. CASE ~FitsOpen(o.files)
  BY <1>2, <1>4, Ended DEF WriteFace
<1>5. CASE FitsOpen(o.files)
  <2>1. /\ slot' = o.files
        /\ stored' = Asked(stored, o.ask)
        /\ disturbed' = (disturbed \/ o.stale \/ Halfway(a))
        /\ op' = [b \in Process |->
              IF b # a THEN [op[b] EXCEPT !["stale"] = op[b].stale \/ ~Finished(b)]
              ELSE IF Halfway(a) THEN NoOperation
              ELSE [o EXCEPT !["todo"] = Rest(a)]]
    BY <1>5 DEF WriteFace
  <2>2. Rest(a) = <<"count">>
    BY <1>3, TodoIs DEF Rest
  <2> HIDE DEF o
  <2>3. Sane(slot', begun', clock', turnedBack') /\ clock' \in 0..MaxClock /\ begun' \in 0..MaxOps
    BY <1>1, <1>2, <2>1 DEF OpOK, FaceInv
  <2>4. op' = [b \in Process |-> op'[b]]
    BY <2>1
  <2>5. AreFiles(stored')
    BY <1>1, <2>1, AskedAreFiles DEF FaceInv, OpOK
  <2>6. ASSUME NEW b \in Process, b # a
        PROVE  OpOK(op'[b], begun', clock', turnedBack') /\ Carries(op'[b], slot', disturbed')
    <3> DEFINE p == op[b]
    <3> DEFINE late == p.stale \/ ~Finished(b)
    <3> DEFINE q == [p EXCEPT !["stale"] = late]
    <3>1. op'[b] = q
      BY <2>1, <2>6
    <3>2. OpOK(p, begun, clock, turnedBack)
      BY DEF FaceInv
    <3>3. p.todo = ReadWrite => late
      BY TodoIs DEF Finished
    <3> HIDE DEF p, late
    <3>4. IsOperation(q) /\ q.todo = p.todo /\ q.files = p.files /\ q.read = p.read
          /\ q.kind = p.kind /\ q.answer = p.answer /\ q.stale = late /\ q.ask = p.ask
      BY <3>2, Changes DEF Field, OpOK
    <3> HIDE DEF q
    <3>5. OpOK(q, begun, clock, turnedBack)
      BY <3>2, <3>4 DEF OpOK
    <3>6. Carries(q, slot', disturbed')
      BY <3>3, <3>4 DEF Carries
    <3> QED BY <1>2, <3>1, <3>5, <3>6
  <2>7. OpOK(op'[a], begun', clock', turnedBack') /\ Carries(op'[a], slot', disturbed')
    <3>1. CASE Halfway(a)
      BY <2>1, <3>1, IdleOK
    <3>2. CASE ~Halfway(a)
      <4> DEFINE q == [o EXCEPT !["todo"] = <<"count">>]
      <4>1. op'[a] = q
        BY <2>1, <2>2, <3>2
      <4>2. IsOperation(q) /\ q.todo = <<"count">> /\ q.files = o.files /\ q.read = o.read
          /\ q.ask = o.ask
        BY <1>1, Changes DEF Field, OpOK
      <4> HIDE DEF q
      <4>3. OpOK(q, begun, clock, turnedBack) /\ Carries(q, slot', disturbed')
        BY <1>1, <4>2, TodoIs DEF OpOK, Carries, Todos
      <4> QED BY <1>2, <4>1, <4>3
    <3> QED BY <3>1, <3>2
  <2>8. ~disturbed' => Own(slot') = stored'
    <3> SUFFICES ASSUME ~disturbed' PROVE Own(slot') = stored'
      OBVIOUS
    <3>1. ~disturbed /\ ~o.stale
      BY <2>1
    <3>2. Own(slot') = Asked(Own(slot), o.ask)
      BY <1>1, <1>3, <2>1, <3>1 DEF Carries
    <3>3. Own(slot) = stored
      BY <3>1 DEF FaceInv
    <3> QED BY <2>1, <3>2, <3>3
  <2>9. AreFiles(stored)'
    BY <2>5 DEF AreFiles, OperatorFiles, Filler, FileRecord
  <2> QED BY <2>3, <2>4, <2>6, <2>7, <2>8, <2>9 DEF FaceInv
<1> QED BY <1>4, <1>5

LEMMA TickKept ==
    ASSUME FaceInv, Tick PROVE FaceInv'
<1>1. PICK now \in 0..MaxClock : clock' = now /\ turnedBack' = (turnedBack \/ now < clock)
  BY DEF Tick
<1>2. UNCHANGED <<slot, op, begun, stored, disturbed>>
  BY DEF Tick
<1>3. begun \in Nat /\ clock \in Nat /\ now \in Nat
  BY LimitsAssumption DEF FaceInv
<1>4. Sane(slot', begun', clock', turnedBack')
  BY <1>1, <1>2, <1>3, SaneLater DEF FaceInv
<1>5. \A a \in Process : OpOK(op'[a], begun', clock', turnedBack')
  BY <1>1, <1>2, <1>3, OpLater DEF FaceInv
<1>6. AreFiles(stored)'
  BY <1>2 DEF FaceInv, AreFiles, OperatorFiles, Filler, FileRecord
<1> QED BY <1>1, <1>2, <1>4, <1>5, <1>6 DEF FaceInv

LEMMA InvInit ==
    ASSUME FaceInit PROVE FaceInv
<1>1. clock = 0 /\ begun = 0 /\ op = [a \in Process |-> NoOperation] /\ stored = slot
  BY DEF FaceInit
<1>2. Sane(slot, begun, clock, turnedBack) /\ Own(slot) = slot
  <2>1. CASE slot = Nothing
    <3>1. Filler(slot) = {} /\ slot = [f \in DOMAIN slot |-> slot[f]]
      BY <2>1 DEF Nothing, Filler
    <3> QED BY <2>1, <3>1, NothingSane DEF Own, Without
  <2>2. CASE slot = Legacy(Min(Name))
    <3>1. Min(Name) \in Name
      <4>1. Name \in SUBSET Int /\ IsFiniteSet(Name) /\ Name # {}
        BY NameAssumption
      <4> QED BY <4>1, Extremes
    <3> DEFINE f == Min(Name)
    <3>2. slot = [g \in {f} |-> Entry("", Min(Size), BeforeTime, 0, 0)]
      BY <2>2 DEF Legacy
    <3> HIDE DEF f
    <3>3. Filler(slot) = {}
      BY <3>2 DEF Filler, Entry, Generated
    <3>4. slot = [g \in DOMAIN slot |-> slot[g]]
      BY <3>2
    <3>5. Own(slot) = slot
      BY <3>3, <3>4 DEF Own, Without
    <3> QED BY <1>1, <2>2, <3>1, <3>5, LegacySane
  <2> QED BY <2>1, <2>2 DEF FaceInit
<1>3. AreFiles(stored)
  BY <1>1, <1>2 DEF Sane
<1>4. clock \in 0..MaxClock /\ begun \in 0..MaxOps
  BY <1>1, LimitsAssumption
<1>5. \A a \in Process : op[a] = NoOperation
  BY <1>1
<1> QED BY <1>1, <1>2, <1>3, <1>4, <1>5, IdleOK DEF FaceInv

LEMMA InvNext ==
    ASSUME FaceInv, [FaceNext]_faceVars PROVE FaceInv'
<1>1. CASE UNCHANGED faceVars
  <2>1. AreFiles(stored)'
    BY <1>1 DEF faceVars, FaceInv, AreFiles, OperatorFiles, Filler, FileRecord
  <2> QED BY <1>1, <2>1 DEF faceVars, FaceInv
<1>2. CASE FaceNext
  BY <1>2, AddPayloadKept, RemoveFileKept, GenerateKept, ClearFillerKept, ListKept, RetrieveKept,
     WriteFaceKept, CountKept, TouchKept, TickKept DEF FaceNext
<1> QED BY <1>1, <1>2

LEMMA FaceKept == FaceSpec => []FaceInv
BY InvInit, InvNext, PTL DEF FaceSpec

-----------------------------------------------------------------------------
(* The theorems.                                                           *)

(* Every variable keeps its type, whatever the processes interleave and    *)
(* however often the clock is set; and two of the operator's files never   *)
(* share a counter, also when both were stored from the same Face          *)
(* (_next_store_seq and add_payload).                                      *)
THEOREM FaceTypeCorrect == FaceSpec => []FaceTypeOK
<1>1. FaceInv => FaceTypeOK
  BY DEF FaceInv, FaceTypeOK, OpOK, Sane
<1> QED BY <1>1, FaceKept, PTL

(* The operator's files are those each store asked for and no removal      *)
(* named: filling, clearing, and storing or removing another file take     *)
(* away none, change none and add none, unless two operations overlapped   *)
(* or one ended between its two slots (vessel_workflow_service.py          *)
(* 1270-1300, add_payload, remove_file).                                   *)
THEOREM StoredSurvivesHolds == FaceSpec => []StoredSurvives
<1>1. FaceInv => StoredSurvives
  BY DEF FaceInv, StoredSurvives, Own
<1> QED BY <1>1, FaceKept, PTL

(* The order in which a file is chosen has a last one.                     *)
LEMMA MostRecentIs ==
    ASSUME NEW b, NEW now, NEW back, NEW files, Sane(files, b, now, back), OperatorFiles(files) # {}
    PROVE  /\ MostRecent(files) \in OperatorFiles(files)
           /\ \A g \in OperatorFiles(files) :
                 Later(files[MostRecent(files)], files[g], MostRecent(files), g)
<1> DEFINE S == OperatorFiles(files)
<1> DEFINE R == {p \in S \X S : Later(files[p[1]], files[p[2]], p[1], p[2])}
<1>1. Candidates(files) = S /\ IsFiniteSet(S) /\ S \subseteq Nat
  BY DEF Candidates, Sane, AreFiles, OperatorFiles
<1>2. \A f \in S : files[f].added_at \in Int /\ files[f].store_seq \in Nat
  <2> SUFFICES ASSUME NEW f \in S PROVE files[f].added_at \in Int /\ files[f].store_seq \in Nat
    OBVIOUS
  <2>1. files[f] \in FileRecord
    BY DEF Sane, AreFiles
  <2>2. BeforeTime..MaxClock \subseteq Int
    OBVIOUS
  <2>3. files[f].added_at \in BeforeTime..MaxClock /\ files[f].store_seq \in Nat
    BY <2>1 DEF FileRecord
  <2> QED BY <2>2, <2>3
<1>3. \A f, g \in S : <<f, g>> \in R <=> Later(files[f], files[g], f, g)
  OBVIOUS
<1> HIDE DEF S, R
<1>4. \A f \in S : <<f, f>> \in R
  <2> SUFFICES ASSUME NEW f \in S PROVE <<f, f>> \in R
    OBVIOUS
  <2>1. f \in Int /\ f >= f
    BY <1>1
  <2>2. Later(files[f], files[f], f, f)
    BY <2>1 DEF Later
  <2> QED BY <1>3, <2>2
<1>5. \A f, g \in S : <<f, g>> \in R \/ <<g, f>> \in R
  <2> SUFFICES ASSUME NEW f \in S, NEW g \in S PROVE <<f, g>> \in R \/ <<g, f>> \in R
    OBVIOUS
  <2>1. f \in Int /\ g \in Int /\ files[f].added_at \in Int /\ files[g].added_at \in Int
        /\ files[f].store_seq \in Int /\ files[g].store_seq \in Int
    BY <1>1, <1>2
  <2>2. Later(files[f], files[g], f, g) \/ Later(files[g], files[f], g, f)
    BY <2>1 DEF Later
  <2> QED BY <1>3, <2>2
<1>6. \A f, g, h \in S : <<f, g>> \in R /\ <<g, h>> \in R => <<f, h>> \in R
  <2> SUFFICES ASSUME NEW f \in S, NEW g \in S, NEW h \in S, <<f, g>> \in R, <<g, h>> \in R
               PROVE  <<f, h>> \in R
    OBVIOUS
  <2>1. /\ f \in Int /\ g \in Int /\ h \in Int
        /\ files[f].added_at \in Int /\ files[g].added_at \in Int /\ files[h].added_at \in Int
        /\ files[f].store_seq \in Int /\ files[g].store_seq \in Int /\ files[h].store_seq \in Int
    BY <1>1, <1>2
  <2>2. Later(files[f], files[g], f, g) /\ Later(files[g], files[h], g, h)
    BY <1>3
  <2>3. Later(files[f], files[h], f, h)
    BY <2>1, <2>2 DEF Later
  <2> QED BY <1>3, <2>3
<1>7. S # {}
  BY DEF S
<1>8. \E f \in S : \A g \in S : <<f, g>> \in R
  BY <1>1, <1>4, <1>5, <1>6, <1>7, FiniteHasLast
<1>9. \E f \in S : \A g \in S : Later(files[f], files[g], f, g)
  BY <1>3, <1>8
<1>10. MostRecent(files) = CHOOSE f \in S : \A g \in S : Later(files[f], files[g], f, g)
  BY <1>1 DEF MostRecent
<1> QED BY <1>9, <1>10 DEF S

(* Without a name and without a hint, retrieve_file hands back one of the  *)
(* operator's files whenever there is one, and none of them was stored     *)
(* after it: filler that is generated later, a second that several files   *)
(* share and a file of the old format do not come before it, as long as    *)
(* the clock is not set back (vessel_workflow_service.py 1650-1680).       *)
THEOREM HandsBackLastHolds == FaceSpec => []HandsBackLast
<1>1. ASSUME FaceInv PROVE HandsBackLast
  <2> SUFFICES ASSUME NEW a \in Process, op[a].kind = "retrieve", At(a, "touch"), ~turnedBack,
                      OperatorFiles(op[a].files) # {}, NEW f \in OperatorFiles(op[a].files)
               PROVE  /\ op[a].answer \in OperatorFiles(op[a].files)
                      /\ op[a].files[f].n <= op[a].files[op[a].answer].n
    BY DEF HandsBackLast
  <2> DEFINE files == op[a].files
  <2> DEFINE m == MostRecent(files)
  <2>1. OpOK(op[a], begun, clock, turnedBack)
    BY <1>1 DEF FaceInv
  <2>2. op[a].answer = m /\ Sane(files, begun, clock, turnedBack)
    BY <2>1, TodoIs DEF OpOK, At, Finished
  <2> HIDE DEF files
  <2>3. m \in OperatorFiles(files) /\ Later(files[m], files[f], m, f)
    BY <2>2, MostRecentIs DEF files
  <2> HIDE DEF m
  <2>4. files[m] \in FileRecord /\ files[f] \in FileRecord
        /\ (files[m].n < files[f].n => Older(files[m], files[f]))
    BY <2>2, <2>3 DEF Sane, AreFiles, files
  <2>5. /\ files[m].n \in Int /\ files[f].n \in Int
        /\ files[m].added_at \in Int /\ files[f].added_at \in Int
        /\ files[m].store_seq \in Int /\ files[f].store_seq \in Int
    <3>1. \A r \in FileRecord : r.n \in Int /\ r.added_at \in Int /\ r.store_seq \in Int
      <4> SUFFICES ASSUME NEW r \in FileRecord
                   PROVE  r.n \in Int /\ r.added_at \in Int /\ r.store_seq \in Int
        OBVIOUS
      <4>1. 0..MaxOps \subseteq Int /\ BeforeTime..MaxClock \subseteq Int
        OBVIOUS
      <4>2. r.n \in 0..MaxOps /\ r.added_at \in BeforeTime..MaxClock /\ r.store_seq \in Nat
        BY DEF FileRecord
      <4> QED BY <4>1, <4>2
    <3> QED BY <2>4, <3>1
  <2>6. ~Older(files[m], files[f])
    BY <2>3, <2>5 DEF Older, Later
  <2>7. files[f].n <= files[m].n
    BY <2>4, <2>5, <2>6
  <2> QED BY <2>2, <2>3, <2>7 DEF files
<1> QED BY <1>1, FaceKept, PTL
=============================================================================
