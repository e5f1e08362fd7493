---------------------------- MODULE CueGate_proofs ----------------------------
(***************************************************************************)
(* Proofs about the object-cue gate, for any number of /video_feed viewers *)
(* beside the matcher thread, any entries and objects, and any length of   *)
(* the match history.                                                      *)
(*                                                                         *)
(* A match is earned because no update of the history, however it overlaps *)
(* with another, ever makes two hits out of one frame: a history, or the   *)
(* slice of it a thread is about to store, never holds more hits of a mode *)
(* than were counted, less those still to be appended.  The camera is let  *)
(* go because the count of consumers is never above the number of threads  *)
(* in their loop, so that the last one out finds that it is the last.      *)
(***************************************************************************)
EXTENDS CueGate, FiniteSetTheorems, SequenceTheorems, TLAPS

Slice == Seq(SUBSET MODES)

(* What a thread keeps: the one frame it appends, a slice of the history,  *)
(* or what it has counted and found stable.                                *)
LocalOK ==
    /\ local \in [Thread -> Slice]
    /\ \A t \in Thread :
          /\ pc[t] = "append" => Len(local[t]) = 1
          /\ pc[t] \in {"count", "publish"} => Len(local[t]) = 2

Inside == {t \in Thread : pc[t] \notin {"off", "enter", "release"}}

(* The consumers counted are inside; the hardware is open only while some  *)
(* thread is inside or about to close it; an unstarted matcher is off.     *)
CameraInv ==
    /\ consumers <= Cardinality(Inside)
    /\ camera => \E t \in Thread : pc[t] = "release" \/ t \in Inside
    /\ ~started => pc[Matcher] = "off"

IInv == TypeOK /\ LocalOK /\ CameraInv

-----------------------------------------------------------------------------
(* Threads *)

LEMMA ThreadsFinite ==
  /\ IsFiniteSet(Thread) /\ Matcher \in Thread /\ Cardinality(Thread) \in Nat
  /\ \A S \in SUBSET Thread : IsFiniteSet(S) /\ Cardinality(S) \in 0..Cardinality(Thread)
  <1>1. IsFiniteSet(Feed \union {Matcher}) /\ Thread = Feed \union {Matcher}
    BY ThreadAssumption, FS_AddElement DEF Thread
  <1>2. ASSUME NEW S \in SUBSET Thread
        PROVE  IsFiniteSet(S) /\ Cardinality(S) \in 0..Cardinality(Thread)
    <2>1. IsFiniteSet(S) /\ Cardinality(S) <= Cardinality(Thread)
      BY <1>1, FS_Subset
    <2>2. Cardinality(S) \in Nat /\ Cardinality(Thread) \in Nat
      BY <1>1, <2>1, FS_CardinalityType
    <2> QED
      BY <2>1, <2>2
  <1> QED
    BY <1>1, <1>2, FS_CardinalityType

(* One thread moves on. *)
LEMMA Moves ==
  ASSUME TypeOK, NEW t \in Thread, NEW l, Goto(t, l)
  PROVE  \A u \in Thread : pc'[u] = IF u = t THEN l ELSE pc[u]
  BY DEF TypeOK, Goto

LEMMA Keeps ==
  ASSUME LocalOK, NEW t \in Thread, NEW x \in Slice, Keep(t, x)
  PROVE  /\ local' \in [Thread -> Slice]
         /\ \A u \in Thread : local'[u] = IF u = t THEN x ELSE local[u]
  BY DEF LocalOK, Keep

(* The latest frames of a history, in their order. *)
LEMMA LastFramesOf ==
  ASSUME NEW h \in Slice
  PROVE  /\ LastFrames(h) \in Slice
         /\ \E off \in Nat : /\ Len(LastFrames(h)) + off = Len(h)
                             /\ \A i \in 1..Len(LastFrames(h)) : LastFrames(h)[i] = h[i + off]
  <1> DEFINE first == IF Len(h) > FRAMES THEN Len(h) - FRAMES + 1 ELSE 1
  <1>1. Len(h) \in Nat /\ FRAMES \in Nat \ {0} /\ first \in 1..(Len(h) + 1)
    BY FrameAssumption, LenProperties DEF Slice
  <1>2. \A i \in first..Len(h) : h[i] \in SUBSET MODES
    BY <1>1, ElementOfSeq DEF Slice
  <1>3. LastFrames(h) = SubSeq(h, first, Len(h))
    BY DEF LastFrames
  <1> HIDE DEF first
  <1>4. /\ LastFrames(h) \in Slice
        /\ Len(LastFrames(h)) = IF first <= Len(h) THEN Len(h) - first + 1 ELSE 0
        /\ \A i \in 1..(Len(h) - first + 1) : LastFrames(h)[i] = h[first + i - 1]
    BY <1>1, <1>2, <1>3, SubSeqProperties DEF Slice
  <1>5. first - 1 \in Nat /\ Len(LastFrames(h)) + (first - 1) = Len(h)
    BY <1>1, <1>4
  <1>6. \A i \in 1..Len(LastFrames(h)) : LastFrames(h)[i] = h[i + (first - 1)]
    <2> SUFFICES ASSUME NEW i \in 1..Len(LastFrames(h))
                 PROVE  LastFrames(h)[i] = h[i + (first - 1)]
      OBVIOUS
    <2>1. i \in 1..(Len(h) - first + 1) /\ first + i - 1 = i + (first - 1)
      BY <1>1, <1>4
    <2> QED
      BY <1>4, <2>1
  <1> QED
    BY <1>4, <1>5, <1>6
-----------------------------------------------------------------------------
(* Types, and the threads inside *)

Label == {"off", "enter", "first", "yield", "read", "append", "trim",
          "store", "count", "publish", "leave", "release"}
Outside == {"off", "enter", "release"}

(* A thread that stays on its side of the loop's edge changes no count. *)
LEMMA SameSide ==
  ASSUME TypeOK, NEW t \in Thread, NEW l \in Label, Goto(t, l),
         pc[t] \in Outside <=> l \in Outside
  PROVE  Inside' = Inside
  BY Moves DEF Inside, Outside

LEMMA ComesIn ==
  ASSUME TypeOK, NEW t \in Thread, NEW l \in Label, Goto(t, l),
         pc[t] \in Outside, l \notin Outside
  PROVE  Cardinality(Inside') = Cardinality(Inside) + 1 /\ Cardinality(Inside) \in Nat
  <1>1. Inside' = Inside \union {t} /\ t \notin Inside
    BY Moves DEF Inside, Outside
  <1>2. IsFiniteSet(Inside)
    BY ThreadsFinite DEF Inside
  <1> QED
    BY <1>1, <1>2, FS_AddElement, FS_CardinalityType

LEMMA GoesOut ==
  ASSUME TypeOK, NEW t \in Thread, NEW l \in Label, Goto(t, l),
         pc[t] \notin Outside, l \in Outside
  PROVE  /\ Inside' = Inside \ {t}
         /\ Cardinality(Inside') = Cardinality(Inside) - 1
         /\ Cardinality(Inside) \in Nat \ {0}
         /\ Cardinality(Inside') > 0 => \E u \in Thread \ {t} : u \in Inside
  <1>1. Inside' = Inside \ {t} /\ t \in Inside /\ Inside \subseteq Thread
    BY Moves DEF Inside, Outside
  <1>2. IsFiniteSet(Inside) /\ IsFiniteSet(Inside')
    BY ThreadsFinite, <1>1
  <1>3. Cardinality(Inside') = Cardinality(Inside) - 1
    BY <1>1, <1>2, FS_RemoveElement
  <1>4. Cardinality(Inside) \in Nat /\ Cardinality(Inside') \in Nat
    BY <1>2, FS_CardinalityType
  <1>5. Cardinality(Inside') > 0 => Inside' # {}
    BY <1>4, FS_EmptySet
  <1> QED
    BY <1>1, <1>3, <1>4, <1>5

(* What the slices are of does not change when a thread only goes on. *)
LEMMA LocalStays ==
  ASSUME TypeOK, LocalOK, NEW t \in Thread, NEW l \in Label \ {"append", "count", "publish"},
         Goto(t, l), UNCHANGED local
  PROVE  pc' \in [Thread -> Label] /\ LocalOK'
  <1>1. \A u \in Thread : pc'[u] = IF u = t THEN l ELSE pc[u]
    BY Moves
  <1>2. LocalOK'
    BY <1>1 DEF LocalOK
  <1> QED
    BY <1>2 DEF TypeOK, Label, Goto

LEMMA LocalMoves ==
  ASSUME TypeOK, LocalOK, NEW t \in Thread, NEW l \in Label, NEW x \in Slice,
         Goto(t, l), Keep(t, x), l = "append" => Len(x) = 1,
         l \in {"count", "publish"} => Len(x) = 2
  PROVE  pc' \in [Thread -> Label] /\ LocalOK'
  <1>1. \A u \in Thread : pc'[u] = IF u = t THEN l ELSE pc[u]
    BY Moves
  <1>2. LocalOK'
    BY <1>1, Keeps DEF LocalOK
  <1> QED
    BY <1>2 DEF TypeOK, Label, Goto

(* A step inside the loop that leaves the counts and the hardware alone. *)
LEMMA CameraStays ==
  ASSUME TypeOK, CameraInv, NEW t \in Thread, NEW l \in Label, Goto(t, l),
         pc[t] \in Outside <=> l \in Outside, pc[t] = "release" <=> l = "release",
         UNCHANGED <<camera, consumers>>, UNCHANGED started, pc[Matcher] # "off" \/ t # Matcher
  PROVE  CameraInv'
  <1>1. Inside' = Inside
    BY SameSide
  <1>2. \A u \in Thread : pc'[u] = IF u = t THEN l ELSE pc[u]
    BY Moves
  <1>3. \A u \in Thread : pc[u] = "release" <=> pc'[u] = "release"
    BY <1>2
  <1>4. ~started => pc'[Matcher] = "off"
    BY <1>2, ThreadsFinite DEF CameraInv
  <1> QED
    BY <1>1, <1>3, <1>4 DEF CameraInv

-----------------------------------------------------------------------------
LEMMA InitIInv == Init => IInv
  <1> SUFFICES ASSUME Init PROVE IInv
    OBVIOUS
  <1>1. TypeOK
    <2>1. consumers \in 0..Cardinality(Thread)
      BY ThreadsFinite DEF Init
    <2>2. earned \in [MODES -> 0..REQUIRED]
      BY FrameAssumption DEF Init
    <2>3. /\ frame \subseteq Object /\ history \in Seq(SUBSET MODES)
          /\ reference \in [MODES -> Object \union {NoObject}]
          /\ lastMatch \in MODES \union {"none", "ambiguous"}
      BY DEF Init
    <2>4. camera \in BOOLEAN /\ started \in BOOLEAN /\ stop \in BOOLEAN
      BY DEF Init
    <2>5. pc \in [Thread -> Label] /\ closer \in {"idle", "join", "reset", "camera"}
      BY DEF Init, Label
    <2> QED
      BY <2>1, <2>2, <2>3, <2>4, <2>5 DEF TypeOK, Label
  <1>2. LocalOK
    BY DEF Init, LocalOK, Slice
  <1>3. CameraInv
    <2>1. Inside = {}
      BY DEF Init, Inside
    <2> QED
      BY <2>1, FS_EmptySet, ThreadsFinite DEF Init, CameraInv
  <1> QED
    BY <1>1, <1>2, <1>3 DEF IInv

LEMMA LoopIInv ==
  ASSUME IInv, NEW t \in Thread, Loop(t)
  PROVE  IInv'
  <1> USE DEF IInv, lifecycle, matching
  <1>1. CASE Enter(t)
    <2>1. Cardinality(Inside') = Cardinality(Inside) + 1 /\ Cardinality(Inside) \in Nat
      BY <1>1, ComesIn DEF Enter, Outside, Label
    <2>2. LocalOK' /\ pc' \in [Thread -> Label]
      BY <1>1, LocalStays DEF Enter, Label
    <2>3. \A u \in Thread : pc'[u] = IF u = t THEN "first" ELSE pc[u]
      BY <1>1, Moves DEF Enter
    <2>4. CameraInv'
      BY <1>1, <2>1, <2>3, ThreadsFinite DEF Enter, CameraInv, TypeOK, Inside
    <2>5. consumers' \in 0..Cardinality(Thread)
      <3>1. Inside' \subseteq Thread
        BY DEF Inside
      <3>2. Cardinality(Inside') <= Cardinality(Thread) /\ Cardinality(Thread) \in Nat
        BY <3>1, ThreadsFinite
      <3> QED
        BY <1>1, <2>1, <3>2 DEF Enter, CameraInv, TypeOK
    <2> QED
      BY <1>1, <2>2, <2>4, <2>5 DEF Enter, TypeOK, Label
  <1>2. CASE CheckStop(t)
    <2> DEFINE l == IF stop THEN "leave" ELSE "read"
    <2>1. l \in Label \ {"append", "count", "publish"} /\ Goto(t, l) /\ pc[t] \notin Outside
          /\ l \notin Outside
      BY <1>2 DEF CheckStop, Label, Outside
    <2>2. pc[t] \notin {"off", "release"} /\ l # "release"
      BY <2>1 DEF Outside
    <2> HIDE DEF l
    <2>3. LocalOK' /\ pc' \in [Thread -> Label]
      BY <1>2, <2>1, LocalStays DEF CheckStop
    <2>4. CameraInv'
      BY <1>2, <2>1, <2>2, CameraStays DEF CheckStop
    <2> QED
      BY <1>2, <2>3, <2>4 DEF CheckStop, TypeOK, Label
  <1>3. CASE Grab(t)
    <2>1. PICK objects \in SUBSET Object :
            LET hits == {m \in MODES : reference[m] \in objects}
            IN  /\ frame' = objects /\ Keep(t, <<hits>>)
                /\ earned' = [m \in MODES |-> IF m \in hits /\ earned[m] < REQUIRED
                                              THEN earned[m] + 1 ELSE earned[m]]
      BY <1>3 DEF Grab
    <2> DEFINE hits == {m \in MODES : reference[m] \in objects}
    <2>2. <<hits>> \in Slice /\ Len(<<hits>>) = 1
      BY DEF Slice
    <2>3. LocalOK' /\ pc' \in [Thread -> Label]
      BY <1>3, <2>1, <2>2, LocalMoves DEF Grab, Label
    <2>4. Inside' = Inside
      BY <1>3, SameSide DEF Grab, Outside, Label
    <2>5. t \in Inside' /\ \A u \in Thread : pc'[u] = IF u = t THEN "append" ELSE pc[u]
      BY <1>3, Moves DEF Grab, Inside
    <2>6. CameraInv'
      BY <1>3, <2>4, <2>5, ThreadsFinite DEF Grab, CameraInv
    <2>7. earned' \in [MODES -> 0..REQUIRED]
      BY <2>1, FrameAssumption DEF TypeOK
    <2> QED
      BY <1>3, <2>1, <2>3, <2>6, <2>7 DEF Grab, TypeOK, Label
  <1>4. CASE ReadFails(t)
    <2>1. LocalOK' /\ pc' \in [Thread -> Label]
      BY <1>4, LocalStays DEF ReadFails, Label
    <2>2. Inside' = Inside
      BY <1>4, SameSide DEF ReadFails, Outside, Label
    <2>3. t \in Inside' /\ \A u \in Thread : pc'[u] = IF u = t THEN "yield" ELSE pc[u]
      BY <1>4, Moves DEF ReadFails, Inside
    <2>4. CameraInv'
      BY <1>4, <2>2, <2>3, ThreadsFinite DEF ReadFails, CameraInv
    <2>5. camera' \in BOOLEAN
      BY <1>4 DEF ReadFails, TypeOK
    <2> QED
      BY <1>4, <2>1, <2>4, <2>5 DEF ReadFails, TypeOK, Label
  <1> QED
    BY <1>1, <1>2, <1>3, <1>4 DEF Loop
LEMMA UpdateIInv ==
  ASSUME IInv, NEW t \in Thread, Update(t)
  PROVE  IInv'
  <1> USE DEF IInv, lifecycle, matching
  <1>r. ASSUME NEW l \in Label \ Outside, NEW x \in Slice, Goto(t, l), Keep(t, x),
               pc[t] \notin Outside, l # "append", l \in {"count", "publish"} => Len(x) = 2,
               UNCHANGED <<frame, reference, camera, consumers, lifecycle, earned>>,
               history' \in Slice, lastMatch' \in MODES \union {"none", "ambiguous"}
        PROVE  IInv'
    <2>1. LocalOK' /\ pc' \in [Thread -> Label]
      BY <1>r, LocalMoves
    <2>2. CameraInv'
      BY <1>r, CameraStays DEF Outside
    <2> QED
      BY <1>r, <2>1, <2>2 DEF TypeOK, Label, Slice
  <1>s. local[t] \in Slice /\ history \in Slice
    BY DEF LocalOK, TypeOK, Slice
  <1>p. <<>> \in Slice /\ \A A, B \in SUBSET MODES : <<A, B>> \in Slice /\ Len(<<A, B>>) = 2
    BY DEF Slice
  <1>1. CASE AppendHits(t)
    <2>1. history' \in Slice
      BY <1>1, <1>s, ConcatProperties DEF AppendHits, Slice
    <2> QED
      BY <1>1, <1>r, <1>p, <2>1 DEF AppendHits, TypeOK, Label, Outside
  <1>2. CASE Trim(t)
    BY <1>2, <1>r, <1>s, LastFramesOf DEF Trim, TypeOK, Label, Outside
  <1>3. CASE StoreHistory(t)
    BY <1>3, <1>r, <1>s, <1>p DEF StoreHistory, TypeOK, Label, Outside
  <1>4. CASE Count(t)
    <2>1. PICK m \in MODES \ local[t][1] :
            LET counted == local[t][1] \union {m}
            IN  /\ Keep(t, <<counted, local[t][2] \union (Stable(history) \intersect {m})>>)
                /\ Goto(t, IF counted = MODES THEN "publish" ELSE "count")
      BY <1>4 DEF Count
    <2> DEFINE counted == local[t][1] \union {m}
               stable == local[t][2] \union (Stable(history) \intersect {m})
               l == IF counted = MODES THEN "publish" ELSE "count"
    <2>2. local[t][1] \in SUBSET MODES /\ local[t][2] \in SUBSET MODES
      BY <1>4, <1>s DEF Count, LocalOK, Slice
    <2>3. counted \in SUBSET MODES /\ stable \in SUBSET MODES
      BY <2>2
    <2>4. <<counted, stable>> \in Slice /\ Len(<<counted, stable>>) = 2
      BY <1>p, <2>3
    <2>5. l \in {"count", "publish"} /\ Goto(t, l) /\ Keep(t, <<counted, stable>>)
      BY <2>1
    <2> HIDE DEF counted, stable, l
    <2> QED
      BY <1>4, <1>r, <1>s, <2>4, <2>5 DEF Count, TypeOK, Label, Outside
  <1>5. CASE Publish(t)
    <2>1. local[t][2] \in SUBSET MODES
      BY <1>5, <1>s DEF Publish, LocalOK, Slice
    <2>2. Answer(local[t][2]) \in MODES \union {"none", "ambiguous"}
      BY <2>1 DEF Answer
    <2> QED
      BY <1>5, <1>r, <1>s, <1>p, <2>2 DEF Publish, Label, Outside
  <1> QED
    BY <1>1, <1>2, <1>3, <1>4, <1>5 DEF Update

LEMMA FinishIInv ==
  ASSUME IInv, NEW t \in Thread, Finish(t) \/ FeedGone(t)
  PROVE  IInv'
  <1> USE DEF IInv, lifecycle, matching
  <1>1. CASE Leave(t)
    <2> DEFINE l == IF consumers' = 0 THEN "release" ELSE "off"
    <2>1. l \in Label \ {"append", "count", "publish"} /\ Goto(t, l) /\ l \in Outside
          /\ pc[t] \notin Outside
      BY <1>1 DEF Leave, Label, Outside
    <2>2. l = "release" <=> consumers' = 0
      OBVIOUS
    <2> HIDE DEF l
    <2>3. LocalOK' /\ pc' \in [Thread -> Label]
      BY <1>1, <2>1, LocalStays DEF Leave
    <2>4. /\ Inside' = Inside \ {t}
          /\ Cardinality(Inside') = Cardinality(Inside) - 1
          /\ Cardinality(Inside) \in Nat \ {0}
          /\ Cardinality(Inside') > 0 => \E u \in Thread \ {t} : u \in Inside
      BY <2>1, GoesOut
    <2>5. consumers \in Nat /\ consumers' = IF consumers > 0 THEN consumers - 1 ELSE 0
      BY <1>1, ThreadsFinite DEF Leave, TypeOK
    <2>6. consumers' <= Cardinality(Inside') /\ consumers' \in 0..Cardinality(Thread)
      <3>1. consumers <= Cardinality(Inside) /\ consumers <= Cardinality(Thread)
        BY DEF TypeOK, CameraInv
      <3> QED
        BY <2>4, <2>5, <3>1, ThreadsFinite
    <2>7. \A u \in Thread : pc'[u] = IF u = t THEN l ELSE pc[u]
      BY <2>1, Moves
    <2>8. \E u \in Thread : pc'[u] = "release" \/ u \in Inside'
      <3>1. CASE consumers' = 0
        BY <2>2, <2>7, <3>1
      <3>2. CASE consumers' # 0
        BY <2>4, <2>5, <2>6, <3>2
      <3> QED
        BY <3>1, <3>2
    <2>9. ~started => pc'[Matcher] = "off"
      BY <2>1, <2>7, ThreadsFinite DEF CameraInv, Outside
    <2>10. CameraInv'
      BY <1>1, <2>6, <2>8, <2>9 DEF Leave, CameraInv
    <2> QED
      BY <1>1, <2>3, <2>6, <2>10 DEF Leave, TypeOK, Label
  <1>2. CASE Release(t)
    <2>1. LocalOK' /\ pc' \in [Thread -> Label]
      BY <1>2, LocalStays DEF Release, Label
    <2>2. Inside' = Inside
      BY <1>2, SameSide DEF Release, Label, Outside
    <2>3. \A u \in Thread : pc'[u] = IF u = t THEN "off" ELSE pc[u]
      BY <1>2, Moves DEF Release
    <2>4. CameraInv'
      BY <1>2, <2>2, <2>3, ThreadsFinite DEF Release, CameraInv
    <2> QED
      BY <1>2, <2>1, <2>4 DEF Release, TypeOK, Label
  <1>3. CASE FeedGone(t)
    <2>1. PICK l \in {"off", "leave"} :
            /\ Goto(t, l) /\ (l = "off" => pc[t] = "enter") /\ (l = "leave" => pc[t] = "yield")
      BY <1>3 DEF FeedGone
    <2>2. LocalOK' /\ pc' \in [Thread -> Label]
      BY <1>3, <2>1, LocalStays DEF FeedGone, Label
    <2>3. CameraInv'
      BY <1>3, <2>1, CameraStays, ThreadAssumption DEF FeedGone, Label, Outside
    <2> QED
      BY <1>3, <2>2, <2>3 DEF FeedGone, TypeOK, Label
  <1> QED
    BY <1>1, <1>2, <1>3 DEF Finish

LEMMA LifecycleIInv ==
  ASSUME IInv, Start \/ (\E t \in Thread : Connect(t)) \/ CloseBegin \/ Close
  PROVE  IInv'
  <1> USE DEF IInv, lifecycle, matching
  <1>1. CASE Start
    <2>1. pc[Matcher] = "off" /\ Goto(Matcher, "enter") /\ Matcher \in Thread
      BY <1>1, ThreadsFinite DEF Start, CameraInv
    <2>2. LocalOK' /\ pc' \in [Thread -> Label]
      BY <1>1, <2>1, LocalStays DEF Start, Label
    <2>3. Inside' = Inside
      BY <2>1, SameSide DEF Label, Outside
    <2>4. \A u \in Thread : pc'[u] = IF u = Matcher THEN "enter" ELSE pc[u]
      BY <2>1, Moves
    <2>5. CameraInv'
      BY <1>1, <2>1, <2>3, <2>4 DEF Start, CameraInv
    <2> QED
      BY <1>1, <2>2, <2>5 DEF Start, TypeOK, Label
  <1>2. ASSUME NEW t \in Thread, Connect(t) PROVE IInv'
    <2>1. pc[t] = "off" /\ t # Matcher /\ Matcher \in Thread
      BY <1>2, ThreadAssumption, ThreadsFinite DEF Connect
    <2>2. /\ started' = TRUE /\ stop' \in BOOLEAN
          /\ \A u \in Thread : pc'[u] = IF u = t \/ (u = Matcher /\ ~started) THEN "enter"
                                        ELSE pc[u]
          /\ pc' \in [Thread -> Label]
      BY <1>2, <2>1 DEF Connect, Goto, TypeOK, Label
    <2>3. Inside' = Inside
      BY <2>1, <2>2 DEF Inside, CameraInv
    <2>4. LocalOK'
      BY <1>2, <2>2 DEF LocalOK, Connect
    <2>5. CameraInv'
      BY <1>2, <2>1, <2>2, <2>3 DEF Connect, CameraInv
    <2> QED
      BY <1>2, <2>2, <2>4, <2>5 DEF Connect, TypeOK, Label
  <1>3. ASSUME UNCHANGED <<frame, reference, matching, pc, local, earned>>,
               consumers' \in {0, consumers}, camera' \in BOOLEAN, camera' => camera,
               started' \in BOOLEAN, stop' \in BOOLEAN, ~started' => pc[Matcher] = "off",
               closer' \in {"idle", "join", "reset", "camera"}
        PROVE  IInv'
    <2>1. Inside' = Inside /\ Cardinality(Inside) \in Nat
      BY <1>3, ThreadsFinite DEF Inside
    <2>2. consumers' \in 0..Cardinality(Thread) /\ consumers' <= Cardinality(Inside)
      BY <1>3, <2>1, ThreadsFinite DEF TypeOK, CameraInv
    <2>4. CameraInv'
      BY <1>3, <2>1, <2>2 DEF CameraInv
    <2>5. LocalOK'
      BY <1>3 DEF LocalOK
    <2> QED
      BY <1>3, <2>2, <2>4, <2>5 DEF TypeOK
  <1>4. CASE CloseBegin
    BY <1>3, <1>4 DEF CloseBegin, TypeOK, CameraInv
  <1>5. CASE Join
    BY <1>3, <1>5 DEF Join, TypeOK
  <1>6. CASE ResetConsumers
    BY <1>3, <1>6 DEF ResetConsumers, TypeOK, CameraInv
  <1>7. CASE CloseCamera
    BY <1>3, <1>7 DEF CloseCamera, TypeOK, CameraInv
  <1> QED
    BY <1>1, <1>2, <1>4, <1>5, <1>6, <1>7 DEF Close

LEMMA RebindIInv ==
  ASSUME IInv, Rebind
  PROVE  IInv'
  <1> USE DEF IInv, lifecycle, matching
  <1>1. /\ reference' \in [MODES -> Object \union {NoObject}]
        /\ Reset /\ UNCHANGED <<frame, camera, consumers, lifecycle, pc, local>>
    BY DEF Rebind, ClearReferences, CommitReference, TypeOK
  <1>2. history' \in Slice /\ lastMatch' \in MODES \union {"none", "ambiguous"}
    BY <1>1 DEF Reset, Slice
  <1>3. earned' \in [MODES -> 0..REQUIRED]
    BY <1>1, FrameAssumption DEF Reset, EvidenceReset, TypeOK
  <1>4. TypeOK'
    BY <1>1, <1>2, <1>3 DEF TypeOK, Slice
  <1>5. LocalOK' /\ Inside' = Inside
    BY <1>1 DEF LocalOK, Inside
  <1> QED
    BY <1>1, <1>4, <1>5 DEF CameraInv

LEMMA NextIInv == IInv /\ [Next]_vars => IInv'
  <1> SUFFICES ASSUME IInv, [Next]_vars PROVE IInv'
    OBVIOUS
  <1>1. CASE Next
    BY <1>1, LoopIInv, UpdateIInv, FinishIInv, LifecycleIInv, RebindIInv DEF Next
  <1>2. CASE UNCHANGED vars
    BY <1>2 DEF vars, matching, lifecycle, IInv, TypeOK, LocalOK, CameraInv, Inside
  <1> QED
    BY <1>1, <1>2

(* The invariant that carries the theorems below. *)
THEOREM IInvHolds == Spec => []IInv
  BY InitIInv, NextIInv, PTL DEF Spec

(* Every variable of the gate keeps its type; the count of consumers is    *)
(* never negative and never above the number of threads.                   *)
THEOREM TypeCorrect == Spec => []TypeOK
  <1>1. IInv => TypeOK
    BY DEF IInv
  <1> QED
    BY <1>1, IInvHolds, PTL

(* Once the matcher and every viewer have left their loops the camera is   *)
(* closed, however starts, closes, viewers and reads interleaved.          *)
THEOREM CameraReleasedHolds == Spec => []CameraReleased
  <1>1. IInv => CameraReleased
    BY DEF IInv, CameraInv, CameraReleased, Inside
  <1> QED
    BY <1>1, IInvHolds, PTL
-----------------------------------------------------------------------------
(* Hits *)

(* The frames of a slice that matched a mode, and the threads that hold    *)
(* one still to be appended.                                               *)
HitsOf(h, m) == {i \in DOMAIN h : m \in h[i]}
Hits(h, m) == Cardinality(HitsOf(h, m))
Waiting(m) == {t \in Thread : pc[t] = "append" /\ m \in local[t][1]}
Covered(h, m) ==
    earned[m] < REQUIRED => Hits(h, m) + Cardinality(Waiting(m)) <= earned[m]

SlicesCovered ==
    /\ \A m \in MODES : Covered(history, m)
    /\ \A t \in Thread : pc[t] = "store" => \A m \in MODES : Covered(local[t], m)
CountsEarned ==
    \A t \in Thread : pc[t] \in {"count", "publish"} =>
        \A m \in local[t][2] : earned[m] = REQUIRED
EarnedInv == SlicesCovered /\ CountsEarned /\ MatchEarned

LEMMA HitsFinite ==
  ASSUME NEW h \in Slice, NEW m
  PROVE  /\ HitsOf(h, m) \subseteq 1..Len(h) /\ IsFiniteSet(HitsOf(h, m))
         /\ Len(h) \in Nat /\ Hits(h, m) \in Nat
  <1>1. Len(h) \in Nat /\ DOMAIN h = 1..Len(h)
    BY LenProperties DEF Slice
  <1>2. HitsOf(h, m) \subseteq 1..Len(h) /\ IsFiniteSet(1..Len(h))
    BY <1>1, FS_Interval DEF HitsOf
  <1>3. IsFiniteSet(HitsOf(h, m))
    BY <1>2, FS_Subset
  <1> QED
    BY <1>1, <1>2, <1>3, FS_CardinalityType DEF Hits

LEMMA NoHits == \A m : Hits(<<>>, m) = 0
  <1>1. \A m : HitsOf(<<>>, m) = {}
    BY DEF HitsOf
  <1> QED
    BY <1>1, FS_EmptySet DEF Hits

(* One more frame is at most one more hit, and none unless it matched. *)
LEMMA AppendedHits ==
  ASSUME NEW h \in Slice, NEW x \in Slice, Len(x) = 1, NEW m
  PROVE  /\ h \o x \in Slice
         /\ Hits(h \o x, m) = IF m \in x[1] THEN Hits(h, m) + 1 ELSE Hits(h, m)
  <1>1. Len(h) \in Nat /\ DOMAIN h = 1..Len(h)
    BY LenProperties DEF Slice
  <1>2. /\ h \o x \in Slice /\ Len(h \o x) = Len(h) + 1
        /\ \A i \in 1..(Len(h) + 1) : (h \o x)[i] = IF i <= Len(h) THEN h[i] ELSE x[i - Len(h)]
    BY ConcatProperties DEF Slice
  <1>3. DOMAIN (h \o x) = 1..(Len(h) + 1)
    BY <1>2, LenProperties DEF Slice
  <1>4. HitsOf(h \o x, m) = IF m \in x[1] THEN HitsOf(h, m) \union {Len(h) + 1}
                            ELSE HitsOf(h, m)
    BY <1>1, <1>2, <1>3 DEF HitsOf
  <1>5. Len(h) + 1 \notin HitsOf(h, m)
    BY <1>1 DEF HitsOf
  <1> QED
    BY <1>2, <1>4, <1>5, HitsFinite, FS_AddElement DEF Hits

(* The latest frames hold no more hits than the whole history. *)
LEMMA TrimmedHits ==
  ASSUME NEW h \in Slice, NEW m
  PROVE  Hits(LastFrames(h), m) <= Hits(h, m)
  <1> DEFINE s == LastFrames(h)
  <1>1. s \in Slice
    BY LastFramesOf
  <1>2. PICK off \in Nat : Len(s) + off = Len(h) /\ \A i \in 1..Len(s) : s[i] = h[i + off]
    BY LastFramesOf
  <1>3. /\ Len(h) \in Nat /\ DOMAIN h = 1..Len(h) /\ Len(s) \in Nat /\ DOMAIN s = 1..Len(s)
    BY <1>1, LenProperties DEF Slice
  <1> HIDE DEF s
  <1> DEFINE f == [i \in HitsOf(s, m) |-> i + off]
  <1>4. f \in [HitsOf(s, m) -> HitsOf(h, m)]
    <2>1. ASSUME NEW i \in HitsOf(s, m) PROVE i + off \in HitsOf(h, m)
      BY <1>2, <1>3, <2>1 DEF HitsOf
    <2> QED
      BY <2>1
  <1>5. \A i, j \in HitsOf(s, m) : f[i] = f[j] => i = j
    BY <1>3 DEF HitsOf
  <1>6. f \in Injection(HitsOf(s, m), HitsOf(h, m))
    BY <1>4, <1>5 DEF Injection, IsInjective
  <1>7. Cardinality(HitsOf(s, m)) <= Cardinality(HitsOf(h, m))
    BY <1>6, HitsFinite, FS_Injection
  <1> QED
    BY <1>7 DEF Hits, s

(* A mode that is stable over a covered history was earned. *)
LEMMA StableIsEarned ==
  ASSUME TypeOK, NEW h \in Slice, NEW m \in Stable(h), Covered(h, m)
  PROVE  earned[m] = REQUIRED
  <1>1. m \in MODES /\ Hits(h, m) >= REQUIRED
    BY DEF Stable, Hits, HitsOf
  <1>2. earned[m] \in 0..REQUIRED /\ REQUIRED \in Nat
    BY <1>1, FrameAssumption DEF TypeOK
  <1>3. Cardinality(Waiting(m)) \in Nat /\ Hits(h, m) \in Nat
    BY ThreadsFinite, HitsFinite DEF Waiting
  <1> QED
    BY <1>1, <1>2, <1>3 DEF Covered
-----------------------------------------------------------------------------
(* Steps that neither take a frame nor touch the history *)

Holding == {"append", "store", "count", "publish"}

LEMMA QuietEarned ==
  ASSUME EarnedInv, UNCHANGED <<history, lastMatch, local, earned>>,
         \A u \in Thread : pc'[u] = pc[u] \/ (pc[u] \notin Holding /\ pc'[u] \notin Holding)
  PROVE  EarnedInv'
  <1>1. \A m : Waiting(m)' = Waiting(m)
    BY DEF Waiting, Holding
  <1>2. SlicesCovered'
    BY <1>1 DEF EarnedInv, SlicesCovered, Covered, Holding
  <1>3. CountsEarned' /\ MatchEarned'
    BY DEF EarnedInv, CountsEarned, MatchEarned, Holding
  <1> QED
    BY <1>2, <1>3 DEF EarnedInv

(* A frame is counted for every mode it matches, and waits to be appended. *)
LEMMA GrabEarned ==
  ASSUME IInv, EarnedInv, NEW t \in Thread, Grab(t)
  PROVE  EarnedInv'
  <1>1. PICK hits \in SUBSET MODES :
          /\ Keep(t, <<hits>>)
          /\ earned' = [m \in MODES |-> IF m \in hits /\ earned[m] < REQUIRED
                                        THEN earned[m] + 1 ELSE earned[m]]
    BY DEF Grab
  <1>2. \A u \in Thread : pc'[u] = IF u = t THEN "append" ELSE pc[u]
    BY Moves DEF Grab, IInv
  <1>3. <<hits>> \in Slice
    BY DEF Slice
  <1>4. \A u \in Thread : local'[u] = IF u = t THEN <<hits>> ELSE local[u]
    BY <1>1, <1>3, Keeps DEF IInv
  <1>5. ASSUME NEW m \in MODES
        PROVE  /\ Cardinality(Waiting(m)') = Cardinality(Waiting(m)) + (IF m \in hits THEN 1 ELSE 0)
               /\ Cardinality(Waiting(m)) \in Nat
               /\ earned[m] \in Nat /\ earned'[m] \in Nat
               /\ earned'[m] < REQUIRED =>
                    earned'[m] = earned[m] + (IF m \in hits THEN 1 ELSE 0)
               /\ earned[m] = REQUIRED => earned'[m] = REQUIRED
    <2>1. Waiting(m)' = IF m \in hits THEN Waiting(m) \union {t} ELSE Waiting(m)
      BY <1>2, <1>4 DEF Waiting, Grab
    <2>2. t \notin Waiting(m) /\ IsFiniteSet(Waiting(m))
      BY ThreadsFinite DEF Waiting, Grab
    <2>3. earned[m] \in 0..REQUIRED /\ REQUIRED \in Nat
      BY FrameAssumption DEF IInv, TypeOK
    <2>4. earned'[m] = IF m \in hits /\ earned[m] < REQUIRED THEN earned[m] + 1 ELSE earned[m]
      BY <1>1
    <2>5. Cardinality(Waiting(m)) \in Nat
      BY <2>2, FS_CardinalityType
    <2>6. Cardinality(Waiting(m)') = Cardinality(Waiting(m)) + (IF m \in hits THEN 1 ELSE 0)
      <3>1. CASE m \in hits
        BY <2>1, <2>2, <2>5, <3>1, FS_AddElement
      <3>2. CASE m \notin hits
        BY <2>1, <2>5, <3>2
      <3> QED
        BY <3>1, <3>2
    <2> QED
      BY <2>3, <2>4, <2>5, <2>6
  <1>6. \A m \in MODES, h \in Slice : Hits(h, m) \in Nat
    BY HitsFinite
  <1>7. ASSUME NEW m \in MODES, NEW h \in Slice, Covered(h, m)
        PROVE  earned'[m] < REQUIRED => Hits(h, m) + Cardinality(Waiting(m)') <= earned'[m]
    <2>1. REQUIRED \in Nat /\ earned[m] \in 0..REQUIRED
      BY FrameAssumption DEF IInv, TypeOK
    <2> QED
      BY <1>5, <1>6, <1>7, <2>1 DEF Covered
  <1>8. SlicesCovered'
    <2>1. history' = history /\ history \in Slice
      BY DEF Grab, IInv, TypeOK, Slice, matching
    <2>2. \A m \in MODES : Covered(history, m)'
      BY <1>7, <2>1 DEF EarnedInv, SlicesCovered, Covered
    <2>3. ASSUME NEW u \in Thread, pc'[u] = "store", NEW m \in MODES
          PROVE  Covered(local[u], m)'
      <3>1. pc[u] = "store" /\ local'[u] = local[u] /\ local[u] \in Slice
        BY <1>2, <1>4, <2>3 DEF IInv, LocalOK
      <3>2. Covered(local[u], m)
        BY <3>1 DEF EarnedInv, SlicesCovered
      <3> QED
        BY <1>7, <3>1, <3>2 DEF Covered
    <2> QED
      BY <2>2, <2>3 DEF SlicesCovered
  <1>9. CountsEarned'
    <2> SUFFICES ASSUME NEW u \in Thread, pc'[u] \in {"count", "publish"},
                        NEW m \in local'[u][2]
                 PROVE  earned'[m] = REQUIRED
      BY DEF CountsEarned
    <2>1. u # t /\ pc[u] \in {"count", "publish"} /\ m \in local[u][2]
      BY <1>2, <1>4
    <2>2. earned[m] = REQUIRED /\ m \in MODES
      BY <2>1 DEF EarnedInv, CountsEarned, IInv, LocalOK, Slice
    <2> QED
      BY <1>5, <2>2
  <1>10. MatchEarned'
    <2> SUFFICES ASSUME lastMatch' \in MODES PROVE earned'[lastMatch'] >= REQUIRED
      BY DEF MatchEarned
    <2>1. lastMatch' = lastMatch /\ earned[lastMatch] >= REQUIRED
      BY DEF Grab, EarnedInv, MatchEarned, matching
    <2>2. earned[lastMatch] \in 0..REQUIRED /\ REQUIRED \in Nat
      BY <2>1, FrameAssumption DEF IInv, TypeOK
    <2> QED
      BY <1>5, <2>1, <2>2
  <1> QED
    BY <1>8, <1>9, <1>10 DEF EarnedInv

(* Appending takes the frame from those that wait. *)
LEMMA AppendEarned ==
  ASSUME IInv, EarnedInv, NEW t \in Thread, AppendHits(t)
  PROVE  EarnedInv'
  <1>1. \A u \in Thread : pc'[u] = IF u = t THEN "trim" ELSE pc[u]
    BY Moves DEF AppendHits, IInv
  <1>2. \A u \in Thread : local'[u] = IF u = t THEN <<>> ELSE local[u]
    BY DEF AppendHits, Keep, IInv, LocalOK
  <1>3. history \in Slice /\ local[t] \in Slice /\ Len(local[t]) = 1 /\ pc[t] = "append"
    BY DEF AppendHits, IInv, TypeOK, LocalOK, Slice
  <1>4. ASSUME NEW m \in MODES
        PROVE  /\ Cardinality(Waiting(m)') =
                    Cardinality(Waiting(m)) - (IF m \in local[t][1] THEN 1 ELSE 0)
               /\ Cardinality(Waiting(m)) \in Nat
               /\ Hits(history', m) = Hits(history, m) + (IF m \in local[t][1] THEN 1 ELSE 0)
               /\ Hits(history, m) \in Nat
    <2>1. Waiting(m)' = Waiting(m) \ {t} /\ (t \in Waiting(m) <=> m \in local[t][1])
      BY <1>1, <1>2, <1>3 DEF Waiting
    <2>2. IsFiniteSet(Waiting(m))
      BY ThreadsFinite DEF Waiting
    <2>3. history' = history \o local[t]
      BY DEF AppendHits
    <2>4. Hits(history, m) \in Nat
      BY <1>3, HitsFinite
    <2>5. Hits(history', m) = IF m \in local[t][1] THEN Hits(history, m) + 1 ELSE Hits(history, m)
      BY <1>3, <2>3, AppendedHits
    <2> QED
      BY <2>1, <2>2, <2>4, <2>5, FS_RemoveElement, FS_CardinalityType
  <1>5. UNCHANGED <<lastMatch, earned>>
    BY DEF AppendHits
  <1>6. \A m \in MODES : earned[m] \in Nat
    BY FrameAssumption DEF IInv, TypeOK
  <1>7. SlicesCovered'
    <2>1. ASSUME NEW m \in MODES PROVE Covered(history, m)'
      <3>1. Covered(history, m)
        BY DEF EarnedInv, SlicesCovered
      <3> QED
        BY <1>4, <1>5, <1>6, <3>1 DEF Covered
    <2>2. ASSUME NEW u \in Thread, pc'[u] = "store", NEW m \in MODES
          PROVE  Covered(local[u], m)'
      <3>1. pc[u] = "store" /\ local'[u] = local[u] /\ local[u] \in Slice
        BY <1>1, <1>2, <2>2 DEF IInv, LocalOK
      <3>2. Covered(local[u], m) /\ Hits(local[u], m) \in Nat
        BY <3>1, HitsFinite DEF EarnedInv, SlicesCovered
      <3> QED
        BY <1>4, <1>5, <1>6, <3>1, <3>2 DEF Covered
    <2> QED
      BY <2>1, <2>2 DEF SlicesCovered
  <1>8. CountsEarned' /\ MatchEarned'
    BY <1>1, <1>2, <1>5 DEF EarnedInv, CountsEarned, MatchEarned
  <1> QED
    BY <1>7, <1>8 DEF EarnedInv
(* The rest of an update: what it stores is covered already, and what it   *)
(* finds stable was earned.                                                *)
LEMMA StoreEarned ==
  ASSUME IInv, EarnedInv, NEW t \in Thread, Trim(t) \/ StoreHistory(t)
  PROVE  EarnedInv'
  <1>1. UNCHANGED <<lastMatch, earned>>
    BY DEF Trim, StoreHistory, matching
  <1>2. history \in Slice /\ local[t] \in Slice
    BY DEF IInv, TypeOK, LocalOK, Slice
  <1>3. \A m \in MODES : /\ earned[m] \in Nat /\ Cardinality(Waiting(m)) \in Nat
                         /\ Covered(history, m)
    BY FrameAssumption, ThreadsFinite DEF IInv, TypeOK, Waiting, EarnedInv, SlicesCovered
  <1>4. CASE Trim(t)
    <2>1. \A u \in Thread : /\ pc'[u] = IF u = t THEN "store" ELSE pc[u]
                            /\ local'[u] = IF u = t THEN LastFrames(history) ELSE local[u]
      BY <1>4, Moves DEF Trim, Keep, IInv, LocalOK
    <2>2. history' = history /\ \A m : Waiting(m)' = Waiting(m)
      BY <1>4, <2>1 DEF Trim, Waiting, matching
    <2>3. \A m \in MODES : /\ Hits(LastFrames(history), m) <= Hits(history, m)
                           /\ Hits(LastFrames(history), m) \in Nat /\ Hits(history, m) \in Nat
      BY <1>2, TrimmedHits, HitsFinite, LastFramesOf
    <2>4. \A m \in MODES : Covered(LastFrames(history), m)
      BY <1>3, <2>3 DEF Covered
    <2>5. SlicesCovered'
      <3>1. \A m \in MODES : Covered(history, m)'
        BY <1>1, <1>3, <2>2 DEF Covered
      <3>2. ASSUME NEW u \in Thread, pc'[u] = "store", NEW m \in MODES
            PROVE  Covered(local[u], m)'
        <4>1. Covered(local'[u], m)
          BY <2>1, <2>4, <3>2 DEF EarnedInv, SlicesCovered
        <4> QED
          BY <1>1, <2>2, <4>1 DEF Covered
      <3> QED
        BY <3>1, <3>2 DEF SlicesCovered
    <2>6. CountsEarned' /\ MatchEarned'
      BY <1>1, <2>1 DEF EarnedInv, CountsEarned, MatchEarned
    <2> QED
      BY <2>5, <2>6 DEF EarnedInv
  <1>5. CASE StoreHistory(t)
    <2>1. \A u \in Thread : /\ pc'[u] = IF u = t THEN "count" ELSE pc[u]
                            /\ local'[u] = IF u = t THEN <<{}, {}>> ELSE local[u]
      BY <1>5, Moves DEF StoreHistory, Keep, IInv, LocalOK
    <2>2. history' = local[t] /\ pc[t] = "store" /\ \A m : Waiting(m)' = Waiting(m)
      BY <1>5, <2>1 DEF StoreHistory, Waiting
    <2>3. SlicesCovered'
      <3>1. \A m \in MODES : Covered(local[t], m)
        BY <2>2 DEF EarnedInv, SlicesCovered
      <3>2. \A m \in MODES : Covered(history, m)'
        BY <1>1, <2>2, <3>1 DEF Covered
      <3>3. ASSUME NEW u \in Thread, pc'[u] = "store", NEW m \in MODES
            PROVE  Covered(local[u], m)'
        <4>1. Covered(local[u], m) /\ local'[u] = local[u]
          BY <2>1, <3>3 DEF EarnedInv, SlicesCovered
        <4> QED
          BY <1>1, <2>2, <4>1 DEF Covered
      <3> QED
        BY <3>2, <3>3 DEF SlicesCovered
    <2>4. CountsEarned' /\ MatchEarned'
      BY <1>1, <2>1 DEF EarnedInv, CountsEarned, MatchEarned
    <2> QED
      BY <2>3, <2>4 DEF EarnedInv
  <1> QED
    BY <1>4, <1>5

LEMMA CountEarned ==
  ASSUME IInv, EarnedInv, NEW t \in Thread, Count(t)
  PROVE  EarnedInv'
  <1>1. PICK m \in MODES \ local[t][1] :
          LET counted == local[t][1] \union {m}
          IN  /\ Keep(t, <<counted, local[t][2] \union (Stable(history) \intersect {m})>>)
              /\ Goto(t, IF counted = MODES THEN "publish" ELSE "count")
    BY DEF Count
  <1> DEFINE counted == local[t][1] \union {m}
             stable == local[t][2] \union (Stable(history) \intersect {m})
             l == IF counted = MODES THEN "publish" ELSE "count"
  <1>2. \A u \in Thread : /\ pc'[u] = IF u = t THEN l ELSE pc[u]
                          /\ local'[u] = IF u = t THEN <<counted, stable>> ELSE local[u]
    BY <1>1, Moves DEF Keep, IInv, LocalOK
  <1>3. l \in {"count", "publish"} /\ pc[t] = "count"
    BY DEF Count
  <1>4. \A n \in stable : earned[n] = REQUIRED
    <2>1. \A n \in local[t][2] : earned[n] = REQUIRED
      BY <1>3 DEF EarnedInv, CountsEarned
    <2>2. \A n \in Stable(history) : earned[n] = REQUIRED
      <3>1. history \in Slice /\ \A n \in Stable(history) : Covered(history, n)
        BY DEF IInv, TypeOK, Slice, EarnedInv, SlicesCovered, Stable
      <3> QED
        BY <3>1, StableIsEarned DEF IInv
    <2> QED
      BY <2>1, <2>2
  <1> HIDE DEF counted, stable, l
  <1>5. UNCHANGED <<history, lastMatch, earned>> /\ \A n : Waiting(n)' = Waiting(n)
    BY <1>2, <1>3 DEF Count, matching, Waiting
  <1>6. SlicesCovered'
    <2>1. ASSUME NEW n \in MODES PROVE Covered(history, n)'
      BY <1>5 DEF EarnedInv, SlicesCovered, Covered
    <2>2. ASSUME NEW u \in Thread, pc'[u] = "store", NEW n \in MODES
          PROVE  Covered(local[u], n)'
      <3>1. pc[u] = "store" /\ local'[u] = local[u]
        BY <1>2, <1>3, <2>2
      <3> QED
        BY <1>5, <3>1 DEF EarnedInv, SlicesCovered, Covered
    <2> QED
      BY <2>1, <2>2 DEF SlicesCovered
  <1>7. CountsEarned'
    BY <1>2, <1>4, <1>5 DEF EarnedInv, CountsEarned
  <1> QED
    BY <1>5, <1>6, <1>7 DEF EarnedInv, MatchEarned

LEMMA PublishEarned ==
  ASSUME IInv, EarnedInv, NEW t \in Thread, Publish(t)
  PROVE  EarnedInv'
  <1>1. \A u \in Thread : /\ pc'[u] = IF u = t THEN "yield" ELSE pc[u]
                          /\ local'[u] = IF u = t THEN <<>> ELSE local[u]
    BY Moves DEF Publish, Keep, IInv, LocalOK
  <1>2. UNCHANGED <<history, earned>> /\ pc[t] = "publish" /\ \A m : Waiting(m)' = Waiting(m)
    BY <1>1 DEF Publish, Waiting
  <1>3. SlicesCovered' /\ CountsEarned'
    BY <1>1, <1>2 DEF EarnedInv, SlicesCovered, CountsEarned, Covered
  <1>4. lastMatch' \in MODES => lastMatch' \in local[t][2]
    BY ModesAssumption DEF Publish, Answer
  <1>5. MatchEarned'
    BY <1>2, <1>4, FrameAssumption DEF EarnedInv, CountsEarned, MatchEarned
  <1> QED
    BY <1>3, <1>5 DEF EarnedInv

(* Setting or clearing a reference empties the history.  Evidence starts   *)
(* again at nothing unless an update is under way.                         *)
LEMMA RebindEarned ==
  ASSUME IInv, EarnedInv, Rebind
  PROVE  EarnedInv'
  <1>1. Reset /\ UNCHANGED <<pc, local>>
    BY DEF Rebind, ClearReferences, CommitReference
  <1>2. history' = <<>> /\ lastMatch' = "none" /\ \A m : Waiting(m)' = Waiting(m)
    BY <1>1 DEF Reset, Waiting
  <1>3. MatchEarned'
    BY <1>2, ModesAssumption DEF MatchEarned
  <1>4. CASE \E t \in Thread : Updating(t)
    <2>1. earned' = earned
      BY <1>1, <1>4 DEF Reset, EvidenceReset
    <2>2. \A m \in MODES : Covered(history, m)'
      <3> SUFFICES ASSUME NEW m \in MODES PROVE Covered(history, m)'
        OBVIOUS
      <3>1. /\ earned[m] \in Nat /\ Cardinality(Waiting(m)) \in Nat
            /\ Hits(history, m) \in Nat /\ Covered(history, m)
        BY HitsFinite, FrameAssumption, ThreadsFinite
        DEF IInv, TypeOK, Slice, Waiting, EarnedInv, SlicesCovered
      <3>2. Hits(history', m) = 0
        BY <1>2, NoHits
      <3> QED
        BY <1>2, <2>1, <3>1, <3>2 DEF Covered
    <2>3. SlicesCovered' /\ CountsEarned'
      BY <1>1, <1>2, <2>1, <2>2 DEF EarnedInv, SlicesCovered, CountsEarned, Covered
    <2> QED
      BY <1>3, <2>3 DEF EarnedInv
  <1>5. CASE \A t \in Thread : ~Updating(t)
    <2>1. \A m \in MODES : earned'[m] = 0
      BY <1>1, <1>5 DEF Reset, EvidenceReset
    <2>2. \A m : Waiting(m)' = {}
      BY <1>1, <1>5 DEF Waiting, Updating
    <2>3. \A m \in MODES : Covered(history, m)'
      <3> SUFFICES ASSUME NEW m \in MODES PROVE Covered(history, m)'
        OBVIOUS
      <3>1. Hits(history', m) = 0
        BY <1>2, NoHits
      <3>2. Cardinality(Waiting(m)') = 0
        BY <2>2, FS_EmptySet
      <3> QED
        BY <2>1, <3>1, <3>2 DEF Covered
    <2>4. SlicesCovered' /\ CountsEarned'
      BY <1>1, <1>5, <2>3 DEF SlicesCovered, CountsEarned, Updating
    <2> QED
      BY <1>3, <2>4 DEF EarnedInv
  <1> QED
    BY <1>4, <1>5

-----------------------------------------------------------------------------
LEMMA InitEarned == Init => EarnedInv
  <1> SUFFICES ASSUME Init PROVE EarnedInv
    OBVIOUS
  <1>1. \A m \in MODES : Hits(history, m) = 0 /\ Waiting(m) = {} /\ earned[m] = 0
    BY NoHits DEF Init, Waiting
  <1>2. SlicesCovered
    BY <1>1, FS_EmptySet DEF Init, SlicesCovered, Covered
  <1>3. CountsEarned /\ MatchEarned
    BY ModesAssumption DEF Init, CountsEarned, MatchEarned
  <1> QED
    BY <1>2, <1>3 DEF EarnedInv

LEMMA NextEarned == IInv /\ EarnedInv /\ [Next]_vars => EarnedInv'
  <1> SUFFICES ASSUME IInv, EarnedInv, [Next]_vars PROVE EarnedInv'
    OBVIOUS
  <1> USE DEF matching
  <1>q. ASSUME NEW t \in Thread, NEW l \in Label \ Holding, Goto(t, l), pc[t] \notin Holding,
               UNCHANGED <<history, lastMatch, local, earned>>
        PROVE  EarnedInv'
    <2>1. \A u \in Thread : pc'[u] = pc[u] \/ (pc[u] \notin Holding /\ pc'[u] \notin Holding)
      BY <1>q, Moves DEF IInv
    <2> QED
      BY <1>q, <2>1, QuietEarned
  <1>1. ASSUME NEW t \in Thread, Loop(t) PROVE EarnedInv'
    <2>1. CASE Enter(t)
      BY <1>q, <2>1 DEF Enter, Holding, Label
    <2>2. CASE CheckStop(t)
      <3>1. PICK l \in {"leave", "read"} : Goto(t, l)
        BY <2>2 DEF CheckStop
      <3> QED
        BY <1>q, <2>2, <3>1 DEF CheckStop, Holding, Label
    <2>3. CASE ReadFails(t)
      BY <1>q, <2>3 DEF ReadFails, Holding, Label
    <2> QED
      BY <1>1, <2>1, <2>2, <2>3, GrabEarned DEF Loop
  <1>2. ASSUME NEW t \in Thread, Update(t) PROVE EarnedInv'
    BY <1>2, AppendEarned, StoreEarned, CountEarned, PublishEarned DEF Update
  <1>3. ASSUME NEW t \in Thread, Finish(t) \/ FeedGone(t) PROVE EarnedInv'
    <2>1. CASE Leave(t)
      <3>1. PICK l \in {"release", "off"} : Goto(t, l)
        BY <2>1 DEF Leave
      <3> QED
        BY <1>q, <2>1, <3>1 DEF Leave, Holding, Label
    <2>2. CASE Release(t)
      BY <1>q, <2>2 DEF Release, Holding, Label
    <2>3. CASE FeedGone(t)
      BY <1>q, <2>3 DEF FeedGone, Holding, Label
    <2> QED
      BY <1>3, <2>1, <2>2, <2>3 DEF Finish
  <1>4. CASE Start
    <2>1. pc[Matcher] = "off" /\ Matcher \in Thread
      BY <1>4, ThreadsFinite DEF Start, IInv, CameraInv
    <2> QED
      BY <1>4, <1>q, <2>1 DEF Start, Holding, Label
  <1>5. ASSUME NEW t \in Thread, Connect(t) PROVE EarnedInv'
    <2>1. \A u \in Thread : pc'[u] = pc[u] \/ (pc[u] = "off" /\ pc'[u] = "enter")
      BY <1>5, ThreadAssumption, ThreadsFinite DEF Connect, Goto, IInv, TypeOK, CameraInv
    <2> QED
      BY <1>5, <2>1, QuietEarned DEF Connect, Holding
  <1>6. CASE CloseBegin \/ Close
    BY <1>6, QuietEarned DEF CloseBegin, Close, Join, ResetConsumers, CloseCamera
  <1>7. CASE UNCHANGED vars
    BY <1>7, QuietEarned DEF vars
  <1> QED
    BY <1>1, <1>2, <1>3, <1>4, <1>5, <1>6, <1>7, RebindEarned DEF Next

(* A reported match was earned, for any number of viewers that update the  *)
(* history without a lock beside the matcher: REQUIRED frames matched that *)
(* entry since its reference was set, but for those of an update that was  *)
(* under way then.                                                         *)
THEOREM MatchEarnedHolds == Spec => []MatchEarned
  <1>1. EarnedInv => MatchEarned
    BY DEF EarnedInv
  <1> QED
    BY <1>1, InitEarned, NextEarned, IInvHolds, PTL DEF Spec
=============================================================================
