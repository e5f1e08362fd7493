------------------------------ MODULE CueSession ------------------------------
(***************************************************************************)
(* The operations that need the bound object, in one process: the console, *)
(* the command line or the WebUI.  Each starts the matcher, waits for a    *)
(* frame or a match, reads the gate's answer, and (but for the WebUI)      *)
(* closes the gate again, while another process contends for the camera.   *)
(*                                                                         *)
(* A matcher copies the references under the lock, and matches, counts and *)
(* publishes after it: a reference may be replaced or cleared meanwhile.   *)
(* Two updates at once are CueGate's.  No lock is held across the steps of *)
(* start() and close() either, and console workers overlap.                *)
(***************************************************************************)
EXTENDS Integers, Sequences, FiniteSets

CONSTANTS
    Object,     \* physical objects; a frame is the set it shows
    NoObject,   \* "no reference bound"
    NoFrame,    \* "no frame yet", "no scene captured"
    Surface,    \* which processes there are: "console", "cli", "web"
    Entry,      \* the entries bound during a run
    Earlier,    \* the references the file may hold when a process begins
    Workers     \* how many threads run operations

MODES == {"dummy", "secret"}
Frame == SUBSET Object
Worker == 1..Workers
Matcher == {1, 2}  \* threads that start() has created

ASSUME SurfaceAssumption == Surface \subseteq {"console", "cli", "web"}
ASSUME EntryAssumption == Entry \subseteq MODES
ASSUME EarlierAssumption == Earlier \subseteq [MODES -> Object \union {NoObject}]

VARIABLES
    surface,    \* what this process is, or "none" between processes
    hw,         \* who holds the camera: "free", "ours", "rival"
    backend,    \* "open", "unavailable" for less than two seconds, or "none"
    thread,     \* _thread: the matcher it names, 0 for None
    stop,       \* _stop_event
    loop,       \* where each matcher is in generate_frames
    consumers,  \* _camera_consumers
    frame,      \* latest_frame
    scene,      \* scene_frame
    refs,       \* reference_data: the object bound to each mode
    recent,     \* modes matched by the frame before (2 of 2 for 3 of 5)
    answer,     \* last_match_mode
    update,     \* what each matcher found in its frame, not yet published
    op,         \* each worker's operation
    seen,       \* history: the entries of Entry whose present reference has
                \* matched a frame
    carried     \* history: those whose former reference had matched in an
                \* update still under way when it was replaced or cleared

camera == <<hw, backend>>
matching == <<frame, recent, answer, update, seen, carried>>
gate == <<thread, stop, loop, consumers>>
bindings == <<scene, refs>>
sessionVars == <<surface, camera, gate, matching, bindings, op>>

Idle == [kind |-> "idle", mode |-> "none", todo |-> <<>>, cand |-> NoObject,
         joins |-> 0, result |-> "none"]
NoUpdate == [hits |-> {}, unsure |-> FALSE, stable |-> {}]

(* A process begins with nothing in memory but what the files hold. *)
SessionInit ==
    /\ surface = "none"
    /\ hw = "free"
    /\ backend = "none" /\ thread = 0 /\ stop = FALSE /\ consumers = 0
    /\ loop = [i \in Matcher |-> "off"]
    /\ frame = NoFrame /\ scene = NoFrame
    /\ refs = [m \in MODES |-> NoObject]
    /\ recent = {} /\ answer = "none" /\ seen = {} /\ carried = {}
    /\ update = [i \in Matcher |-> NoUpdate]
    /\ op = [w \in Worker |-> Idle]

-----------------------------------------------------------------------------
(* CameraFrameSource.  A failed attempt to open is not repeated for two    *)
(* seconds; one that succeeded is not repeated at all.                     *)

MayTry == backend = "none"

(* Mutant: an unavailable camera is not tried again before it is closed. *)
RetryDue_Never ==
    /\ backend = "none"
    /\ UNCHANGED sessionVars

RetryDue ==
    /\ backend = "unavailable"
    /\ backend' = "none"
    /\ UNCHANGED <<surface, hw, gate, matching, bindings, op>>

(* Only the WebUI keeps its matcher, so only its wait for a camera that    *)
(* another process holds is followed; elsewhere a read just fails.         *)
RivalOpens ==
    /\ surface = "web"
    /\ hw = "free"
    /\ hw' = "rival"
    /\ UNCHANGED <<surface, backend, gate, matching, bindings, op>>

RivalCloses ==
    /\ hw = "rival"
    /\ hw' = "free"
    /\ UNCHANGED <<surface, backend, gate, matching, bindings, op>>

(* The Pi's camera, and else what OpenCV finds, is opened, or is not there. *)
Opens ==
    /\ hw = "free"
    /\ backend' = "open" /\ hw' = "ours"

StaysShut ==
    /\ hw # "free"
    /\ backend' = "unavailable" /\ UNCHANGED hw

OpenAndRead(delivers) ==
    /\ IF MayTry THEN Opens \/ StaysShut ELSE UNCHANGED camera
    /\ delivers => backend' = "open"

CloseCamera ==
    /\ backend' = "none"
    /\ hw' = IF hw = "ours" THEN "free" ELSE hw

-----------------------------------------------------------------------------
(* What one frame says.  Without the experimental model, and when it has   *)
(* none to run, its verdict is ORB's.  An error of the model counts as     *)
(* little as a poor frame does.                                            *)

Verdict(match, model, quality) ==
    CASE ~quality -> "no_signal"
      [] quality /\ match /\ model \in {"accepted", "unavailable"} -> "accepted"
      [] quality /\ match # (model = "accepted") /\ model \in {"accepted", "rejected"}
             -> "ambiguous"
      [] OTHER -> "rejected"

(* match_descriptors: enough of the reference's features are in the frame.  *)
Matches(m, objects) == refs[m] \in objects

Answer(stable) ==
    IF stable = {} THEN "none"
    ELSE IF Cardinality(stable) > 1 THEN "ambiguous"
    ELSE CHOOSE m \in stable : TRUE

(* The console binds nothing, so what its latest frame shows is not kept.  *)
Kept(objects) == IF surface = "console" THEN {} ELSE objects

Readings == ({"accepted", "rejected", "unavailable"} \X {TRUE}) \union {<<"unavailable", FALSE>>}

(* For the modes whose reference is in the frame. *)
Outcomes ==
    [modes \in SUBSET MODES |->
        {LET verdict == [m \in MODES |-> Verdict(m \in modes, reading[1], reading[2])]
             unsure == \E m \in MODES : verdict[m] = "ambiguous"
         IN  [NoUpdate EXCEPT !.unsure = unsure,
                  !.hits = IF unsure THEN {} ELSE {m \in MODES : verdict[m] = "accepted"}] :
         reading \in Readings}]

Sights == {[shown |-> Kept(objects), modes |-> {m \in MODES : Matches(m, objects)}] : objects \in Frame}

Look(i, shown, o) ==
    /\ frame' = shown
    /\ update' = [update EXCEPT ![i] = o]
    /\ seen' = seen \union (o.hits \intersect Entry)
    /\ UNCHANGED <<recent, answer, carried>>

-----------------------------------------------------------------------------
(* generate_frames, run by each matcher. *)

Goto(i, l) == loop' = [loop EXCEPT ![i] = l]

Enter(i) ==
    /\ loop[i] = "enter"
    /\ consumers' = consumers + 1
    /\ Goto(i, "check")
    /\ UNCHANGED <<surface, camera, thread, stop, matching, bindings, op>>

Check(i) ==
    /\ loop[i] = "check"
    /\ Goto(i, IF stop THEN "leave" ELSE "read")
    /\ UNCHANGED <<surface, camera, thread, stop, consumers, matching, bindings, op>>

(* The frame is matched with a copy of the references. *)
Read(i) ==
    /\ loop[i] = "read"
    /\ \/ OpenAndRead(FALSE) /\ Goto(i, "check") /\ UNCHANGED matching
       \/ /\ OpenAndRead(TRUE) /\ Goto(i, "append")
          /\ \E s \in Sights : \E o \in Outcomes[s.modes] : Look(i, s.shown, o)
    /\ UNCHANGED <<surface, thread, stop, consumers, bindings, op>>

(* match_history is appended to and sliced, stored and counted, and then   *)
(* the answer is published; an ambiguous frame is answered first, and the  *)
(* history forgotten after it.                                             *)
SliceHistory(i) ==
    /\ loop[i] = "append"
    /\ Goto(i, "store")
    /\ update' = [update EXCEPT ![i].stable = update[i].hits \intersect recent]
    /\ answer' = IF update[i].unsure THEN "ambiguous" ELSE answer
    /\ UNCHANGED <<surface, camera, thread, stop, consumers, bindings, op, frame, recent, seen, carried>>

StoreHistory(i) ==
    /\ loop[i] = "store"
    /\ Goto(i, IF update[i].unsure THEN "check" ELSE "publish")
    /\ recent' = update[i].hits
    /\ update' = IF update[i].unsure THEN [update EXCEPT ![i] = NoUpdate] ELSE update
    /\ UNCHANGED <<surface, camera, thread, stop, consumers, bindings, op, frame, answer, seen, carried>>

Publish(i) ==
    /\ loop[i] = "publish"
    /\ Goto(i, "check")
    /\ answer' = Answer(update[i].stable)
    /\ update' = [update EXCEPT ![i] = NoUpdate]
    /\ UNCHANGED <<surface, camera, thread, stop, consumers, bindings, op, frame, recent, seen, carried>>

Update(i) == SliceHistory(i) \/ StoreHistory(i) \/ Publish(i)

Leave(i) ==
    /\ loop[i] = "leave"
    /\ consumers' = IF consumers > 0 THEN consumers - 1 ELSE 0
    /\ Goto(i, IF consumers' = 0 THEN "release" ELSE "off")
    /\ UNCHANGED <<surface, camera, thread, stop, matching, bindings, op>>

Release(i) ==
    /\ loop[i] = "release"
    /\ CloseCamera
    /\ Goto(i, "off")
    /\ UNCHANGED <<surface, thread, stop, consumers, matching, bindings, op>>

Loop(i) == loop[i] # "off" /\ (Enter(i) \/ Check(i) \/ Read(i) \/ Update(i) \/ Leave(i) \/ Release(i))

-----------------------------------------------------------------------------
(* Operations: what each surface does for each kind, step by step. *)

(* Mutant: the thread is joined before it is told to stop. *)
Closing_JoinFirst == <<"join", "stop", "release">>

Closing == <<"stop", "join", "release">>

(* The console's list and recover. *)
OpenVessel == <<"started?", "match", "decide">>

RunRetrieve == <<"started?", "frame", "prompt", "match", "decide">>
RunFile == <<"started?", "frame", "match", "decide">>
RunClear == <<"started?", "frame", "match", "cue">>
RunDestroy == <<"started?", "frame", "prompt", "decide">>
RunStore == <<"started?", "frame", "prompt", "scene", "prompt",
              "capture", "sample", "commit", "match", "bound">>
(* add and generate ask for a binding without having asked for a scene. *)
RunAdd == <<"started?", "frame", "capture">>
RunGenerate == RunAdd
(* add --camera-object, and every file command on a Face with a fingerprint *)
RunRegistered == <<"started?", "frame", "fingerprint">>

Page == <<"started?">>
RegisterScene == <<"started?", "scene">>
RegisterKey == <<"capture", "sample", "commit">>
RegisterImage == <<"sample_image", "commit">>
ResumeAndUse == <<"started?", "settle", "decide">>

Program ==
    [console |-> {<<"use", OpenVessel>>},
     cli     |-> {<<"retrieve", RunRetrieve>>, <<"use", RunFile>>, <<"use", RunClear>>,
                  <<"use", RunDestroy>>, <<"bind", RunStore>>, <<"use", RunAdd>>,
                  <<"use", RunGenerate>>, <<"use", RunRegistered>>},
     web     |-> {<<"use", Page>>, <<"use", RegisterScene>>, <<"bind", RegisterKey>>,
                  <<"image", RegisterImage>>, <<"use", ResumeAndUse>>}]

At(w, step) == op[w].todo # <<>> /\ Head(op[w].todo) = step

Keep(w, o) == op' = [op EXCEPT ![w] = o]
(* The finally block of the command line and the console closes the gate;  *)
(* the WebUI leaves the matcher running and lets go of its device lock.    *)
Go(o, rest) ==
    IF rest # <<>> THEN [o EXCEPT !.todo = rest]
    ELSE IF surface = "web" THEN [Idle EXCEPT !.result = o.result]
    ELSE [Idle EXCEPT !.kind = "over", !.todo = Closing, !.result = o.result]
Step(w) == Go(op[w], Tail(op[w].todo))
Jump(w, step) == [op[w] EXCEPT !.todo = <<step>> \o Tail(op[w].todo)]
Done(w) == Keep(w, Step(w))
Refuse(w) == Keep(w, Go(op[w], <<>>))

(* The device lock of the WebUI.  Its pages start the matcher without it;  *)
(* that race is the one two console workers have.                          *)
LockFree == \A w \in Worker : op[w].kind = "idle"

(* The command line runs one operation per process.  The console's screen  *)
(* can be left, and another opened, while its worker still waits.  Workers *)
(* are numbered in the order they begin.                                   *)
Free(w) ==
    /\ op[w].kind = "idle"
    /\ IF surface = "console" THEN \A v \in 1..(w - 1) : op[v].kind # "idle"
       ELSE w = 1 /\ LockFree

Named(kind, m) == IF kind \in {"bind", "image"} THEN m ELSE "none"

Begin(w) ==
    /\ surface # "none" /\ Free(w)
    /\ \E p \in Program[surface], m \in Entry :
          Keep(w, [Idle EXCEPT !.kind = p[1], !.mode = Named(p[1], m), !.todo = p[2]])
    /\ UNCHANGED <<surface, camera, gate, matching, bindings>>

-----------------------------------------------------------------------------
(* start() and close(), unlocked. *)

Started(w) ==
    /\ At(w, "started?")
    /\ Keep(w, IF thread = 0 THEN Jump(w, "start") ELSE Step(w))
    /\ UNCHANGED <<surface, camera, gate, matching, bindings>>

Start(w) ==
    /\ At(w, "start")
    /\ \E i \in {j \in Matcher : loop[j] = "off" /\ j # thread} :
          thread' = i /\ Goto(i, "enter")
    /\ stop' = FALSE
    /\ Done(w)
    /\ UNCHANGED <<surface, camera, consumers, matching, bindings>>

Stop(w) ==
    /\ At(w, "stop")
    /\ stop' = TRUE
    /\ Keep(w, [Step(w) EXCEPT !.result = "none"])
    /\ UNCHANGED <<surface, camera, thread, loop, consumers, matching, bindings>>

Join(w) ==
    /\ At(w, "join")
    /\ Keep(w, IF thread = 0 THEN Step(w) ELSE [Jump(w, "await") EXCEPT !.joins = thread])
    /\ UNCHANGED <<surface, camera, gate, matching, bindings>>

Await(w) ==
    /\ At(w, "await") /\ loop[op[w].joins] = "off"
    /\ thread' = 0
    /\ Keep(w, [Step(w) EXCEPT !.joins = 0])
    /\ UNCHANGED <<surface, camera, stop, loop, consumers, matching, bindings>>

ReleaseCamera(w) ==
    /\ At(w, "release")
    /\ consumers' = 0
    /\ CloseCamera
    /\ Keep(w, [Idle EXCEPT !.kind = "over"])
    /\ UNCHANGED <<surface, thread, stop, loop, matching, bindings>>

Close(w) == Stop(w) \/ Join(w) \/ Await(w) \/ ReleaseCamera(w)

-----------------------------------------------------------------------------
(* Waiting: a wait is also over when its ten seconds are. *)

Frames(w) ==
    /\ At(w, "frame")
    /\ IF frame # NoFrame THEN Done(w) ELSE Refuse(w)
    /\ UNCHANGED <<surface, camera, gate, matching, bindings>>

(* The WebUI goes on whatever came of its wait (_resume_cue_matching). *)
Settle(w) ==
    /\ At(w, "settle")
    /\ Done(w)
    /\ UNCHANGED <<surface, camera, gate, matching, bindings>>

Expected(w) == IF op[w].kind = "bind" THEN {op[w].mode} ELSE MODES

Matched(w) == answer \in Expected(w)

(* The interactive command line reads the gate even after its wait. *)
ReadsOn(w) == surface = "cli" /\ op[w].kind = "retrieve"

Match(w) ==
    /\ At(w, "match")
    /\ \/ Matched(w) /\ Done(w)
       \/ ~Matched(w) /\ Refuse(w)
       \/ ~Matched(w) /\ ReadsOn(w) /\ Done(w)
    /\ UNCHANGED <<surface, camera, gate, matching, bindings>>

(* The operator presses Enter. *)
Prompt(w) ==
    /\ At(w, "prompt")
    /\ Done(w)
    /\ UNCHANGED <<surface, camera, gate, matching, bindings>>

-----------------------------------------------------------------------------
(* Authorisation *)

(* get_auth_sequence: what is matched when it is confident enough; else    *)
(* the dummy's token under coercion_safe, or none.                         *)
Tokens == (IF answer \in MODES THEN {answer} ELSE {}) \union {"dummy", "none"}

(* A Face whose registry record holds a fingerprint is opened by the       *)
(* latest frame, when there is one and its fingerprint is like the         *)
(* record's; a Face without, by the cue.                                   *)
CameraProfile == IF frame = NoFrame THEN {} ELSE {"fingerprint"}
Presented(w) ==
    (MODES \intersect Tokens) \union (IF At(w, "cue") THEN {} ELSE CameraProfile)

(* The passphrase is right, and the Face is the one that was asked for or  *)
(* that it opens.                                                          *)
Decide(w) ==
    /\ At(w, "decide") \/ At(w, "cue")
    /\ \/ Refuse(w)
       \/ \E how \in Presented(w) : Keep(w, [Step(w) EXCEPT !.result = how])
    /\ UNCHANGED <<surface, camera, gate, matching, bindings>>

(* _ensure_object_binding: a Face's first fingerprint is recorded, another *)
(* has to be like the recorded one.  The console, which tries each Face,   *)
(* does not wait for a match when it comes to one that has a fingerprint.  *)
EnsureObjectBinding(w) ==
    /\ At(w, "fingerprint") \/ (surface = "console" /\ At(w, "match"))
    /\ \/ Refuse(w)
       \/ \E how \in CameraProfile : Keep(w, [Go(op[w], <<>>) EXCEPT !.result = how])
    /\ UNCHANGED <<surface, camera, gate, matching, bindings>>

-----------------------------------------------------------------------------
(* Binding *)

CaptureScene(w) ==
    /\ At(w, "scene")
    /\ IF frame # NoFrame THEN scene' = frame /\ Done(w)
       ELSE Refuse(w) /\ UNCHANGED scene
    /\ UNCHANGED <<surface, camera, gate, matching, refs>>

(* change_binary, and object_mask: one thing, and nothing else, differs    *)
(* from the scene.                                                         *)
Changed == (frame \ scene) \union (scene \ frame)
Mask == IF NoFrame \in {frame, scene} \/ Cardinality(Changed) # 1 THEN {} ELSE Changed

(* object_reference_state: what a thing taken away leaves bare is too plain. *)
Candidates == {o \in Mask : o \in frame}

CaptureReference(w) ==
    /\ At(w, "capture")
    /\ IF Mask # {} THEN Done(w) ELSE Refuse(w)
    /\ UNCHANGED <<surface, camera, gate, matching, bindings>>

(* _best_object_reference_state: from frames after that one. *)
Sample(w) ==
    /\ At(w, "sample")
    /\ \/ Refuse(w)
       \/ \E o \in Candidates : Keep(w, [Step(w) EXCEPT !.cand = o])
    /\ UNCHANGED <<surface, camera, gate, matching, bindings>>

SampleImage(w) ==
    /\ At(w, "sample_image")
    /\ \E o \in Object : Keep(w, [Step(w) EXCEPT !.cand = o])
    /\ UNCHANGED <<surface, camera, gate, matching, bindings>>

Distinct(w) == \A m \in MODES \ {op[w].mode} : refs[m] # op[w].cand
Repeatable(w) == op[w].kind # "bind" \/ (frame # NoFrame /\ op[w].cand \in frame)

(* The present references of these modes have matched nothing, but an      *)
(* update under way may yet publish what matched the former ones.          *)
Forget(modes) ==
    /\ seen' = seen \ modes
    /\ carried' = (carried \ modes)
                     \union (modes \intersect Entry \intersect UNION {update[i].hits : i \in Matcher})

(* Mutant: the answer to the old reference stays. *)
Reset_AnswerKept(m) == recent' = {} /\ Forget({m}) /\ UNCHANGED <<frame, answer, update>>

(* The match state begins again with a reference that is set or cleared. *)
Reset(m) == recent' = {} /\ answer' = "none" /\ Forget({m}) /\ UNCHANGED <<frame, update>>

(* A camera binding uses up its scene; a refused one leaves it. *)
Commit(w) ==
    /\ At(w, "commit")
    /\ \/ /\ Refuse(w)  \* also when the save fails
          /\ UNCHANGED <<matching, bindings>>
       \/ /\ Distinct(w) /\ Repeatable(w)
          /\ refs' = [refs EXCEPT ![op[w].mode] = op[w].cand]
          /\ Reset(op[w].mode)
          /\ scene' = IF op[w].kind = "bind" THEN NoFrame ELSE scene
          /\ Done(w)
    /\ UNCHANGED <<surface, camera, gate>>

Bound(w) ==
    /\ At(w, "bound")
    /\ Keep(w, [Step(w) EXCEPT !.result = "bound"])
    /\ UNCHANGED <<surface, camera, gate, matching, bindings>>

(* Mutant: the answer stays when the references are cleared. *)
ClearReferences_AnswerKept ==
    /\ surface = "console" \/ (surface = "web" /\ LockFree)
    /\ refs' = [m \in MODES |-> NoObject]
    /\ recent' = {} /\ Forget(MODES)
    /\ UNCHANGED <<surface, camera, gate, frame, answer, update, scene, op>>

(* Creating a Vessel in the console, or clearing in the WebUI. *)
ClearReferences ==
    /\ surface = "console" \/ (surface = "web" /\ LockFree)
    /\ refs' = [m \in MODES |-> NoObject]
    /\ recent' = {} /\ answer' = "none" /\ Forget(MODES)
    /\ UNCHANGED <<surface, camera, gate, frame, update, scene, op>>

-----------------------------------------------------------------------------
(* The process ends, at any time and for any reason.  The next begins with *)
(* what the file holds, written by it or by others, and nothing else.      *)
ProcessEnds ==
    /\ \E w \in Worker : op[w].kind # "idle"
    /\ surface' = "none"
    /\ hw' = IF hw = "ours" THEN "free" ELSE hw
    /\ backend' = "none" /\ thread' = 0 /\ stop' = FALSE /\ consumers' = 0
    /\ loop' = [i \in Matcher |-> "off"]
    /\ frame' = NoFrame /\ scene' = NoFrame
    /\ recent' = {} /\ answer' = "none" /\ seen' = {} /\ carried' = {}
    /\ update' = [i \in Matcher |-> NoUpdate]
    /\ op' = [w \in Worker |-> Idle]
    /\ refs' = [m \in MODES |-> NoObject]

Launch ==
    /\ surface = "none"
    /\ surface' \in Surface
    /\ refs' \in Earlier
    /\ UNCHANGED <<camera, gate, matching, scene, op>>

Bind(w) == CaptureScene(w) \/ CaptureReference(w) \/ Sample(w) \/ SampleImage(w) \/ Commit(w) \/ Bound(w)
Work(w) ==
    /\ op[w].todo # <<>>
    /\ \/ Started(w) \/ Start(w) \/ Frames(w) \/ Settle(w) \/ Match(w)
       \/ Decide(w) \/ EnsureObjectBinding(w) \/ Bind(w) \/ Close(w)

SessionNext ==
    \/ RetryDue \/ RivalOpens \/ RivalCloses
    \/ \E i \in Matcher : Loop(i)
    \/ \E w \in Worker : Begin(w) \/ Prompt(w) \/ Work(w)
    \/ ClearReferences \/ ProcessEnds \/ Launch

(* Threads run on, and two seconds pass.  Nothing is assumed of operators, *)
(* of what the camera sees or of the rival.                                *)
Fairness ==
    /\ \A i \in Matcher : WF_(loop[i])(Loop(i))
    /\ \A w \in Worker : WF_(op[w])(Work(w))
    /\ WF_backend(RetryDue)

SessionSpec == SessionInit /\ [][SessionNext]_sessionVars /\ Fairness

-----------------------------------------------------------------------------
(* Every variable keeps its type, and a worker whose operation is over has *)
(* nothing left to do.                                                     *)
StepName == {"started?", "start", "match", "decide", "cue", "frame", "prompt", "scene", "capture",
             "sample", "commit", "bound", "fingerprint", "settle", "sample_image",
             "stop", "join", "await", "release"}
LoopStep == {"off", "enter", "check", "read", "append", "store", "publish", "leave", "release"}
Operation ==
    [kind : {"idle", "over", "use", "retrieve", "bind", "image"}, mode : Entry \union {"none"},
     todo : Seq(StepName), cand : Object \union {NoObject}, joins : {0} \union Matcher,
     result : MODES \union {"none", "fingerprint", "bound"}]
SessionTypeOK ==
    /\ surface \in Surface \union {"none"}
    /\ hw \in {"free", "ours", "rival"} /\ backend \in {"none", "open", "unavailable"}
    /\ thread \in {0} \union Matcher /\ stop \in BOOLEAN /\ consumers \in Nat
    /\ loop \in [Matcher -> LoopStep]
    /\ update \in [Matcher -> [hits : SUBSET MODES, unsure : BOOLEAN, stable : SUBSET MODES]]
    /\ {frame, scene} \subseteq Frame \union {NoFrame}
    /\ refs \in [MODES -> Object \union {NoObject}]
    /\ recent \subseteq MODES /\ answer \in MODES \union {"none", "ambiguous"}
    /\ seen \subseteq Entry /\ carried \subseteq Entry
    /\ op \in [Worker -> Operation]
    /\ \A w \in Worker : op[w].kind = "idle" => op[w].todo = <<>>

(* Whatever asks, the cue opens the secret Face only after its present     *)
(* reference has matched a frame of this process: not by the fallback, not *)
(* by an answer that outlived its reference, and not by frames read under  *)
(* another reference, with one exception: an update that had matched the   *)
(* former reference and was under way when that was replaced or cleared    *)
(* publishes its answer after the reset.  A match is not required to be    *)
(* recent: the answer of a matcher that was stopped, or whose camera is    *)
(* gone, stands until the next update.                                     *)
SecretEarned ==
    [][\A w \in Worker :
          op[w].result # "secret" /\ op'[w].result = "secret"
              => "secret" \in seen \union carried]_sessionVars

(* The command line reports an object bound only when the reference it set *)
(* has matched since: an answer about another object, or from before, does *)
(* not vouch for it, with the same exception of an update that was under   *)
(* way at the commit and had matched the reference before.                 *)
BindingChecked ==
    [][\A w \in Worker :
          op[w].result # "bound" /\ op'[w].result = "bound"
              => op[w].mode \in seen \union carried]_sessionVars

(* An operation comes to an end, or waits for its operator, though two     *)
(* workers start and close one gate without a lock, one may join the       *)
(* thread the other has just created, and the camera may never come.       *)
OpEnds ==
    \A w \in Worker :
        []<>(op[w].todo = <<>> \/ At(w, "prompt"))

(* A matcher that looks on while the rival stays away has the camera time  *)
(* and again: no opening of an earlier operation will do, since every one  *)
(* that was lost is made up for.                                           *)
Looking == \E i \in Matcher : loop[i] \in {"check", "read", "append", "store", "publish"}
CameraComes == <>[](Looking /\ ~stop /\ hw # "rival") => []<>(backend = "open")
=============================================================================
