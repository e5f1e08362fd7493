--------------------------- MODULE AttemptLimiter ---------------------------
(***************************************************************************)
(* Failed attempts (attempt_limiter.py, state_store.py).  Every command of *)
(* the command line makes a FileAttemptLimiter: it loads the counts when   *)
(* the command starts and saves all of them when it ends, minutes later.   *)
(* They share one scope, "cli-retrieve".  The WebUI's limiter is the same  *)
(* class without the file, used by one body at a time.                     *)
(*                                                                         *)
(* LocalStateStore replaces the record atomically (a synced temporary file *)
(* is renamed), so a save happens or does not.  The disk may damage it.    *)
(***************************************************************************)
EXTENDS Naturals

CONSTANTS
    Command,     \* processes of the command line
    MaxFailures, \* access_max_failures
    Lockout,     \* access_lockout_seconds, in ticks
    MaxClock     \* bound: ticks

(* config.py 94-99: neither setting goes below one. *)
ASSUME LimitAssumption ==
    MaxFailures \in Nat \ {0} /\ Lockout \in Nat \ {0} /\ MaxClock \in Nat \ {0}

VARIABLES
    clock,       \* time.time
    record,      \* access_attempts.json: its phase and the scope's state
    memory,      \* _state of each command's limiter
    loaded,      \* commands whose memory is what the file held since they loaded it
    tries,       \* failures counted since a success or a served lockout, up to MaxFailures
    lostUpdate   \* a command saved although another had saved since it loaded

limiterVars == <<clock, record, memory, loaded, tries, lostUpdate>>

AttemptState == [failures : 0..MaxFailures, locked_until : 0..MaxClock + Lockout]
Fresh == [failures |-> 0, locked_until |-> 0]

LimiterInit ==
    /\ clock = 1
    /\ record = [phase |-> "uninitialized", state |-> Fresh]
    /\ memory = [l \in Command |-> Fresh]
    /\ loaded = {} /\ lostUpdate = FALSE
    /\ tries = 0

(* _load: a corrupt record counts for nothing. *)
Load(l) ==
    /\ memory' = [memory EXCEPT ![l] = IF record.phase = "corrupt" THEN Fresh ELSE record.state]
    /\ loaded' = loaded \union {l}
    /\ UNCHANGED <<clock, record, tries, lostUpdate>>

(* write_record: ALLOWED_TRANSITIONS leaves "corrupt" without a successor. *)
MayWrite == record.phase # "corrupt"

(* _save: the record for state s *)
Saved(s) == [phase |-> "initialized", state |-> s]

(* The limiter's own state becomes s and is saved, or the save raises. *)
Set(l, s) ==
    /\ memory' = [memory EXCEPT ![l] = s]
    /\ IF ~MayWrite THEN UNCHANGED <<record, loaded, lostUpdate>>
       ELSE /\ record' = Saved(s)
            /\ loaded' = loaded \intersect {l}
            /\ lostUpdate' = (lostUpdate \/ l \notin loaded)

(* Mutant: the lockout is lifted in the second before it ends. *)
Locked_Early(s) == s.locked_until > clock + 1

Locked(s) == s.locked_until > clock

(* Mutant: the count survives the lockout. *)
Served_Kept(s) == FALSE

Served(s) == s.locked_until # 0 /\ ~Locked(s)

(* check: allowed, and a lockout that was served is forgotten. *)
Admit(l) ==
    /\ ~Locked(memory[l])
    /\ IF Served(memory[l]) THEN Set(l, Fresh) /\ tries' = 0 /\ UNCHANGED clock
       ELSE UNCHANGED limiterVars

Refuse(l) == Locked(memory[l]) /\ UNCHANGED limiterVars

Failed(s) ==
    [failures |-> s.failures + 1,
     locked_until |-> IF s.failures + 1 >= MaxFailures THEN clock + Lockout ELSE 0]

RecordFailure(l) ==
    /\ Set(l, Failed(memory[l]))
    /\ tries' = IF record.state.locked_until \in 1..clock THEN 1
                ELSE IF tries < MaxFailures THEN tries + 1 ELSE tries
    /\ UNCHANGED clock

RecordSuccess(l) == Set(l, Fresh) /\ tries' = 0 /\ UNCHANGED clock

Damage ==
    /\ record.phase = "initialized"
    /\ record' = [phase |-> "corrupt", state |-> Fresh]
    /\ UNCHANGED <<clock, memory, loaded, tries, lostUpdate>>

Tick ==
    /\ clock < MaxClock /\ clock' = clock + 1
    /\ UNCHANGED <<record, memory, loaded, tries, lostUpdate>>

-----------------------------------------------------------------------------
(* Properties *)

(* Every variable keeps its type, and no count passes MaxFailures. *)
LimiterTypeOK ==
    /\ clock \in 1..MaxClock
    /\ record.phase \in {"uninitialized", "initialized", "corrupt"}
    /\ record.state \in AttemptState /\ memory \in [Command -> AttemptState]
    /\ loaded \subseteq Command

(* attempt_limiter.py 43-57: who is locked out has failed MaxFailures      *)
(* times since the last success or the last lockout that was served, and   *)
(* after that many failures there is a lockout - unless a command saved    *)
(* over another's count or the record is corrupt.                          *)
LockoutEarned ==
    ~lostUpdate /\ record.phase # "corrupt" =>
        /\ record.state.locked_until > clock => tries >= MaxFailures
        /\ tries >= MaxFailures => record.state.locked_until # 0

(* attempt_limiter.py 36-50 and 78-88: a lockout that runs is shortened    *)
(* only by a command that saves over what was saved since it loaded, or by *)
(* damage to the record.                                                   *)
LockoutStands ==
    [][(record.state.locked_until > clock
          /\ record'.state.locked_until < record.state.locked_until) =>
              lostUpdate' \/ record'.phase = "corrupt"]_limiterVars
=============================================================================
