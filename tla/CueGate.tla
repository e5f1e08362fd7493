------------------------------- MODULE CueGate -------------------------------
(***************************************************************************)
(* Object-cue matching inside one process (ai_gate.py): one background     *)
(* matcher thread and one thread per /video_feed viewer run the same       *)
(* generate_frames loop over one shared camera, one shared match history   *)
(* and one shared "which entry's object is present" answer; meanwhile      *)
(* references are bound and cleared, and the gate is started and closed.   *)
(*                                                                         *)
(* Only the steps the code brackets with self.lock are single steps here:  *)
(* _update_match_result appends, slices, stores, counts and publishes      *)
(* without it.                                                             *)
(***************************************************************************)
EXTENDS Integers, Sequences, FiniteSets

CONSTANTS
    MODES,     \* the entries an object can be bound to
    Object,    \* physical objects
    NoObject,  \* "no reference bound"
    Matcher,   \* the background thread
    Feed,      \* /video_feed viewers
    FRAMES,    \* MATCH_HISTORY_FRAMES
    REQUIRED   \* MATCH_HISTORY_REQUIRED

ASSUME ThreadAssumption == Matcher \notin Feed /\ IsFiniteSet(Feed)
ASSUME ModesAssumption == MODES \intersect {"none", "ambiguous"} = {}
ASSUME ObjectAssumption == NoObject \notin Object
ASSUME FrameAssumption == FRAMES \in Nat /\ REQUIRED \in 1..FRAMES

Thread == {Matcher} \union Feed

VARIABLES
    frame,      \* latest_frame: the objects it shows
    reference,  \* reference_data: the object bound to each mode
    history,    \* match_history: the modes each recent frame matched
    lastMatch,  \* last_match_mode
    camera,     \* is the hardware open?
    consumers,  \* _camera_consumers
    started,    \* _thread is not None
    stop,       \* _stop_event
    pc,         \* where each thread is in generate_frames
    local,      \* its slice of the history, its frame's modes, or the modes
                \* it has counted and those found stable
    closer,     \* where close() is
    earned      \* history: frames that matched each mode since its reference
                \* was last set or cleared with no update under way

matching == <<history, lastMatch>>
lifecycle == <<started, stop, closer>>
vars == <<frame, reference, matching, camera, consumers, lifecycle, pc, local, earned>>

Init ==
    /\ frame = {}
    /\ reference = [m \in MODES |-> NoObject]
    /\ history = <<>> /\ lastMatch = "none"
    /\ camera = FALSE /\ consumers = 0
    /\ started = FALSE /\ stop = FALSE /\ closer = "idle"
    /\ pc = [t \in Thread |-> "off"]
    /\ local = [t \in Thread |-> <<>>]
    /\ earned = [m \in MODES |-> 0]

Goto(t, l) == pc' = [pc EXCEPT ![t] = l]
Keep(t, x) == local' = [local EXCEPT ![t] = x]

-----------------------------------------------------------------------------
(* generate_frames *)

Enter(t) ==
    /\ pc[t] = "enter"
    /\ consumers' = consumers + 1
    /\ Goto(t, "first")
    /\ UNCHANGED <<frame, reference, matching, camera, lifecycle, local, earned>>

CheckStop(t) ==
    /\ pc[t] \in {"first", "yield"}
    /\ Goto(t, IF stop THEN "leave" ELSE "read")
    /\ UNCHANGED <<frame, reference, matching, camera, consumers, lifecycle, local, earned>>

(* camera.read opens the hardware when it is closed.  The references are   *)
(* copied with the frame; a frame matches only objects it shows (it may    *)
(* also miss one: that is a frame that does not show it).                  *)
Grab(t) ==
    /\ pc[t] = "read"
    /\ camera' = TRUE
    /\ \E objects \in SUBSET Object :
          LET hits == {m \in MODES : reference[m] \in objects}
          IN  /\ frame' = objects
              /\ Keep(t, <<hits>>)
              /\ earned' = [m \in MODES |-> IF m \in hits /\ earned[m] < REQUIRED
                                            THEN earned[m] + 1 ELSE earned[m]]
    /\ Goto(t, "append")
    /\ UNCHANGED <<reference, matching, consumers, lifecycle>>

(* No frame: a placeholder is yielded and nothing else happens. *)
ReadFails(t) ==
    /\ pc[t] = "read"
    /\ camera' \in {camera, TRUE}
    /\ Goto(t, "yield")
    /\ UNCHANGED <<frame, reference, matching, consumers, lifecycle, local, earned>>

(* A viewer that is gone is noticed where the generator yields. *)
FeedGone(t) ==
    /\ t \in Feed
    /\ \/ pc[t] = "enter" /\ Goto(t, "off")
       \/ pc[t] = "yield" /\ Goto(t, "leave")
    /\ UNCHANGED <<frame, reference, matching, camera, consumers, lifecycle, local, earned>>

-----------------------------------------------------------------------------
(* _update_match_result *)

AppendHits(t) ==
    /\ pc[t] = "append"
    /\ history' = history \o local[t]
    /\ Keep(t, <<>>)
    /\ Goto(t, "trim")
    /\ UNCHANGED <<frame, reference, lastMatch, camera, consumers, lifecycle, earned>>

(* Mutant: the oldest frames are kept instead of the latest. *)
LastFrames_Oldest(h) == SubSeq(h, 1, IF Len(h) < FRAMES THEN Len(h) ELSE FRAMES)

LastFrames(h) == SubSeq(h, IF Len(h) > FRAMES THEN Len(h) - FRAMES + 1 ELSE 1, Len(h))

Trim(t) ==
    /\ pc[t] = "trim"
    /\ Keep(t, LastFrames(history))
    /\ Goto(t, "store")
    /\ UNCHANGED <<frame, reference, matching, camera, consumers, lifecycle, earned>>

StoreHistory(t) ==
    /\ pc[t] = "store"
    /\ history' = local[t]
    /\ Keep(t, <<{}, {}>>)
    /\ Goto(t, "count")
    /\ UNCHANGED <<frame, reference, lastMatch, camera, consumers, lifecycle, earned>>

Stable(h) == {m \in MODES : Cardinality({i \in DOMAIN h : m \in h[i]}) >= REQUIRED}

(* Each mode is counted over the history as it then is. *)
Count(t) ==
    /\ pc[t] = "count"
    /\ \E m \in MODES \ local[t][1] :
          LET counted == local[t][1] \union {m}
          IN  /\ Keep(t, <<counted, local[t][2] \union (Stable(history) \intersect {m})>>)
              /\ Goto(t, IF counted = MODES THEN "publish" ELSE "count")
    /\ UNCHANGED <<frame, reference, matching, camera, consumers, lifecycle, earned>>

Answer(stable) ==
    IF stable = {} THEN "none"
    ELSE IF Cardinality(stable) > 1 THEN "ambiguous"
    ELSE CHOOSE m \in stable : TRUE

(* Mutant: no stable mode leaves the last answer standing. *)
Publish_KeepsNone(t) ==
    /\ pc[t] = "publish"
    /\ lastMatch' = IF local[t][2] = {} THEN lastMatch ELSE Answer(local[t][2])
    /\ Keep(t, <<>>)
    /\ Goto(t, "yield")
    /\ UNCHANGED <<frame, reference, history, camera, consumers, lifecycle, earned>>

Publish(t) ==
    /\ pc[t] = "publish"
    /\ lastMatch' = Answer(local[t][2])
    /\ Keep(t, <<>>)
    /\ Goto(t, "yield")
    /\ UNCHANGED <<frame, reference, history, camera, consumers, lifecycle, earned>>

-----------------------------------------------------------------------------
(* _finish_camera_consumer: counted under the lock, closed outside it. *)

(* Mutant: the count is not kept from going below zero. *)
Leave_Unbounded(t) ==
    /\ pc[t] = "leave"
    /\ consumers' = consumers - 1
    /\ Goto(t, IF consumers' = 0 THEN "release" ELSE "off")
    /\ UNCHANGED <<frame, reference, matching, camera, lifecycle, local, earned>>

Leave(t) ==
    /\ pc[t] = "leave"
    /\ consumers' = IF consumers > 0 THEN consumers - 1 ELSE 0
    /\ Goto(t, IF consumers' = 0 THEN "release" ELSE "off")
    /\ UNCHANGED <<frame, reference, matching, camera, lifecycle, local, earned>>

Release(t) ==
    /\ pc[t] = "release"
    /\ camera' = FALSE
    /\ Goto(t, "off")
    /\ UNCHANGED <<frame, reference, matching, consumers, lifecycle, local, earned>>

-----------------------------------------------------------------------------
(* start and close *)

Start ==
    /\ ~started
    /\ started' = TRUE /\ stop' = FALSE
    /\ Goto(Matcher, "enter")
    /\ UNCHANGED <<frame, reference, matching, camera, consumers, closer, local, earned>>

(* /video_feed: start(), then the response drives a generator of its own. *)
Connect(t) ==
    /\ t \in Feed /\ pc[t] = "off"
    /\ IF started THEN Goto(t, "enter") /\ UNCHANGED <<started, stop>>
       ELSE /\ started' = TRUE /\ stop' = FALSE
            /\ pc' = [pc EXCEPT ![t] = "enter", ![Matcher] = "enter"]
    /\ UNCHANGED <<frame, reference, matching, camera, consumers, closer, local, earned>>

CloseBegin ==
    /\ closer = "idle"
    /\ stop' = TRUE
    /\ closer' = IF started THEN "join" ELSE "reset"
    /\ UNCHANGED <<frame, reference, matching, camera, consumers, started, pc, local, earned>>

Join ==
    /\ closer = "join" /\ pc[Matcher] = "off"
    /\ started' = FALSE
    /\ closer' = "reset"
    /\ UNCHANGED <<frame, reference, matching, camera, consumers, stop, pc, local, earned>>

ResetConsumers ==
    /\ closer = "reset"
    /\ consumers' = 0
    /\ closer' = "camera"
    /\ UNCHANGED <<frame, reference, matching, camera, started, stop, pc, local, earned>>

CloseCamera ==
    /\ closer = "camera"
    /\ camera' = FALSE
    /\ closer' = "idle"
    /\ UNCHANGED <<frame, reference, matching, consumers, started, stop, pc, local, earned>>

-----------------------------------------------------------------------------
(* References; both calls reset the match state under the lock. *)

Updating(t) == pc[t] \in {"append", "trim", "store", "count", "publish"}
EvidenceReset ==
    earned' = IF \E t \in Thread : Updating(t) THEN earned ELSE [m \in MODES |-> 0]
Reset == history' = <<>> /\ lastMatch' = "none" /\ EvidenceReset

(* Mutant: frames of the replaced object stay in the history. *)
CommitReference_HistoryKept(m, o) ==
    /\ \A n \in MODES \ {m} : reference[n] # o
    /\ reference' = [reference EXCEPT ![m] = o]
    /\ lastMatch' = "none"
    /\ EvidenceReset
    /\ UNCHANGED <<frame, history, camera, consumers, lifecycle, pc, local>>

(* _commit_reference, unless the other entry's object looks the same. *)
CommitReference(m, o) ==
    /\ \A n \in MODES \ {m} : reference[n] # o
    /\ reference' = [reference EXCEPT ![m] = o]
    /\ Reset
    /\ UNCHANGED <<frame, camera, consumers, lifecycle, pc, local>>

ClearReferences ==
    /\ reference' = [m \in MODES |-> NoObject]
    /\ Reset
    /\ UNCHANGED <<frame, camera, consumers, lifecycle, pc, local>>

-----------------------------------------------------------------------------
Update(t) == AppendHits(t) \/ Trim(t) \/ StoreHistory(t) \/ Count(t) \/ Publish(t)
Finish(t) == Leave(t) \/ Release(t)
Loop(t) == Enter(t) \/ CheckStop(t) \/ Grab(t) \/ ReadFails(t)
Close == Join \/ ResetConsumers \/ CloseCamera
Rebind == ClearReferences \/ \E m \in MODES, o \in Object : CommitReference(m, o)

Next ==
    \/ \E t \in Thread : Loop(t) \/ Update(t) \/ Finish(t) \/ FeedGone(t) \/ Connect(t)
    \/ Start \/ CloseBegin \/ Close
    \/ Rebind

(* Every thread runs on.  A viewer may stop reading, which holds its       *)
(* generator at the yield, so nothing is assumed of it there.              *)
Fairness ==
    /\ WF_vars(Loop(Matcher))
    /\ \A t \in Thread : WF_vars(Update(t) \/ Finish(t)) 
    /\ \A t \in Feed : WF_vars(pc[t] = "read" /\ Loop(t))
    /\ WF_vars(Close)

Spec == Init /\ [][Next]_vars /\ Fairness

-----------------------------------------------------------------------------
(* Type invariant. *)
TypeOK ==
    /\ frame \subseteq Object
    /\ reference \in [MODES -> Object \union {NoObject}]
    /\ history \in Seq(SUBSET MODES)
    /\ lastMatch \in MODES \union {"none", "ambiguous"}
    /\ camera \in BOOLEAN /\ started \in BOOLEAN /\ stop \in BOOLEAN
    /\ consumers \in 0..Cardinality(Thread)
    /\ closer \in {"idle", "join", "reset", "camera"}
    /\ pc \in [Thread -> {"off", "enter", "first", "yield", "read", "append", "trim",
                          "store", "count", "publish", "leave", "release"}]
    /\ earned \in [MODES -> 0..REQUIRED]

(* A reported match was earned: REQUIRED frames matched that entry since   *)
(* its reference was set, whoever took them and however the unlocked       *)
(* updates of the history interleaved; only an update already under way    *)
(* when the reference changed may still bring older frames in.             *)
MatchEarned == lastMatch \in MODES => earned[lastMatch] >= REQUIRED

(* The hardware is let go: once every thread has left its loop the camera  *)
(* is closed, although close() resets the count under threads that still   *)
(* decrement it.                                                           *)
CameraReleased == (\A t \in Thread : pc[t] = "off") => ~camera

(* The matcher is wanted and updates the history alone: two threads whose  *)
(* unlocked updates keep overtaking each other can drop every new entry.   *)
Watching == started /\ ~stop /\ \A t \in Feed : ~Updating(t)
(* Its camera keeps delivering. *)
Delivering == []<><<Grab(Matcher)>>_vars

(* References are no longer set or cleared. *)
Settled == <>[][~Rebind]_vars

(* An object held in view is eventually matched, and stays matched: a lost *)
(* or reinstated history entry delays the answer and never freezes it.     *)
Presented ==
    \A m \in MODES :
        <>[](Watching /\ reference[m] # NoObject /\ frame = {reference[m]}) /\ Delivering
            /\ Settled => <>[](lastMatch = m)

(* An object taken away is eventually not matched any more. *)
Withdrawn == <>[](Watching /\ frame = {}) /\ Delivering => <>[](lastMatch = "none")
=============================================================================
