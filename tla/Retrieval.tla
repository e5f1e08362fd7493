----------------------------- MODULE Retrieval -----------------------------
(***************************************************************************)
(* How a retrieval is counted and recorded: AttemptLimiter and AuditLog    *)
(* composed along the paths of cli.py (_run_retrieve_command, the `file'   *)
(* commands).  Each command is a process of its own; the WebUI writes its  *)
(* events meanwhile.                                                       *)
(***************************************************************************)
EXTENDS AttemptLimiter, AuditLog

CONSTANT Web         \* the WebUI, a writer of events

ASSUME WhoWrites == Writer = Command \union {Web}

VARIABLE pc          \* where each retrieval stands

vars == <<limiterVars, auditVars, pc>>

Init == LimiterInit /\ AuditInit /\ pc = [l \in Command |-> "idle"]

Go(l, from, to) == pc[l] = from /\ pc' = [pc EXCEPT ![l] = to]

(* FileAttemptLimiter() at the start of a command *)
Start(l) == Quiet(l) /\ Go(l, "idle", "loaded") /\ Load(l) /\ UNCHANGED auditVars

Check(l) ==
    /\ \/ Go(l, "loaded", "admitted") /\ Admit(l)
       \/ Go(l, "loaded", "idle") /\ Refuse(l)
    /\ UNCHANGED auditVars

(* The `file' commands and the console's list and recover, or a command    *)
(* that ends before it tries: checked, and never counted.                  *)
Uncounted(l) == Go(l, "admitted", "idle") /\ UNCHANGED <<limiterVars, auditVars>>

(* No object in view: counted without an event. *)
NoObject(l) == Go(l, "admitted", "idle") /\ RecordFailure(l) /\ UNCHANGED auditVars

(* A wrong passphrase: its event, then the count. *)
WrongPassphrase(l) == Go(l, "admitted", "failing") /\ BeginEvent(l) /\ UNCHANGED limiterVars
CountFailure(l) ==
    /\ Quiet(l) /\ Go(l, "failing", "idle")
    /\ RecordFailure(l) /\ UNCHANGED auditVars

(* The payload is handed over: the count is cleared, then the event. *)
Succeed(l) == Go(l, "admitted", "recording") /\ RecordSuccess(l) /\ UNCHANGED auditVars
Record(l) == Go(l, "recording", "idle") /\ BeginEvent(l) /\ UNCHANGED limiterVars

(* Ctrl-C, or the power fails. *)
Interrupt(l) ==
    /\ pc[l] # "idle" \/ ~Quiet(l)
    /\ pc' = [pc EXCEPT ![l] = "idle"]
    /\ DieInEvent({l}) /\ UNCHANGED limiterVars

WriteStep == \E w \in Writer : Event(w) /\ UNCHANGED <<limiterVars, pc>>
OtherEvent == BeginEvent(Web) /\ UNCHANGED <<limiterVars, pc>>
Elapse == Tick /\ UNCHANGED <<auditVars, pc>>
Corrupt == Damage /\ UNCHANGED <<auditVars, pc>>

Next ==
    \/ \E l \in Command :
          \/ Start(l) \/ Check(l) \/ Uncounted(l) \/ NoObject(l) \/ WrongPassphrase(l)
          \/ CountFailure(l) \/ Succeed(l) \/ Record(l) \/ Interrupt(l)
    \/ WriteStep \/ OtherEvent \/ Elapse \/ Corrupt

Spec == Init /\ [][Next]_vars
=============================================================================
