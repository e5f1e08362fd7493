------------------------------ MODULE AuditLog ------------------------------
(***************************************************************************)
(* The audit log (audit.py): one JSON record a line, each with its number, *)
(* the hash of the record before and an HMAC under a key made on first     *)
(* use.  An event opens, reads and closes the key and the log before it    *)
(* appends, without a lock: the command line, the WebUI's event loop and   *)
(* its worker threads all write.  A process may die at any step.           *)
(*                                                                         *)
(* A record's hash is its identity here, and nobody alters what is on      *)
(* disk: what is checked is what these writers do to their own chain.      *)
(***************************************************************************)
EXTENDS Naturals, Sequences, FiniteSets, FiniteSetsExt

CONSTANTS
    Writer,      \* threads and processes that write events
    MaxEvents    \* bound: events begun

VARIABLES
    lines,       \* the log
    auth,        \* the key file
    writer,      \* what each writer has read so far
    begun,       \* events begun
    overlapped   \* two events were being written at once

auditVars == <<lines, auth, writer, begun, overlapped>>

Missing == "missing"       \* no key file
Empty == "empty"           \* a key file with nothing in it
Older == "older"           \* a key from an earlier use
GENESIS == 0               \* GENESIS_HASH

(* Writers are none of these marks of a key file. *)
ASSUME WriterAssumption == {Missing, Empty, Older} \intersect Writer = {}
ASSUME EventsAssumption == MaxEvents \in Nat

(* `ok': the line parses; `ended': it has its newline. *)
Line(seq, prev, id, key) ==
    [ok |-> TRUE, ended |-> TRUE, seq |-> seq, prev |-> prev, id |-> id, key |-> key]

Records(log) == {i \in DOMAIN log : log[i].ok}
Before(log, i) == {j \in Records(log) : j < i}
HashOfLast(log, records) == IF records = {} THEN GENESIS ELSE log[Max(records)].id

(* Mutant: blank and broken lines count. *)
NextChainState_Counts(log) ==
    [seq |-> Len(log) + 1, prev |-> HashOfLast(log, Records(log))]

(* _next_chain_state: after the last line that parses. *)
NextChainState(log) ==
    LET good == Records(log)
    IN  [seq |-> IF good = {} THEN 1 ELSE log[Max(good)].seq + 1,
         prev |-> HashOfLast(log, good)]

(* open(path, "a"): a last line without its newline takes in the record. *)
Appended(log, line) ==
    IF log # <<>> /\ ~log[Len(log)].ended
    THEN [log EXCEPT ![Len(log)].ok = FALSE, ![Len(log)].ended = line.ended]
    ELSE Append(log, line)

(* verify_log_integrity: the lines with an error.  It counts the records   *)
(* it has read, and remembers the hash of the last.                        *)
Rejected(log, key) ==
    {i \in DOMAIN log : ~ /\ log[i].ok
                          /\ log[i].seq = Cardinality(Before(log, i)) + 1
                          /\ log[i].prev = HashOfLast(log, Before(log, i))
                          /\ log[i].key = key}

-----------------------------------------------------------------------------
(* audit_event, step by step *)

NoEvent == [step |-> "idle", key |-> Missing, id |-> 0, seq |-> 0, prev |-> GENESIS]

(* A first use, or a log whose last record the power failure cut short. *)
AuditInit ==
    /\ \/ lines = <<>> /\ auth = Missing
       \/ /\ auth = Older
          /\ lines = <<Line(1, GENESIS, MaxEvents + 1, Older),
                       [Line(2, MaxEvents + 1, MaxEvents + 2, Older) EXCEPT !.ok = FALSE, !.ended = FALSE]>>
    /\ writer = [w \in Writer |-> NoEvent]
    /\ begun = 0 /\ overlapped = FALSE

Quiet(w) == writer[w].step = "idle"

(* _load_or_create_auth_material, the file there or not *)
BeginEvent(w) ==
    /\ Quiet(w) /\ begun < MaxEvents
    /\ begun' = begun + 1
    /\ writer' = [writer EXCEPT ![w] =
          [step |-> IF auth = Missing THEN "create" ELSE "chain",
           key |-> auth, id |-> begun + 1, seq |-> 0, prev |-> GENESIS]]
    /\ overlapped' = (overlapped \/ \E v \in Writer : ~Quiet(v))
    /\ UNCHANGED <<lines, auth>>

CreateKey(w) ==
    /\ writer[w].step = "create"
    /\ auth' = Empty
    /\ writer' = [writer EXCEPT ![w].step = "fill"]
    /\ UNCHANGED <<lines, begun, overlapped>>

FillKey(w) ==
    /\ writer[w].step = "fill"
    /\ auth' = w
    /\ writer' = [writer EXCEPT ![w].step = "chain", ![w].key = w]
    /\ UNCHANGED <<lines, begun, overlapped>>

ReadChain(w) ==
    /\ writer[w].step = "chain"
    /\ writer' = [writer EXCEPT ![w].step = "append",
                     ![w].seq = NextChainState(lines).seq,
                     ![w].prev = NextChainState(lines).prev]
    /\ UNCHANGED <<lines, auth, begun, overlapped>>

Written(w) == LET e == writer[w] IN Line(e.seq, e.prev, e.id, e.key)

WriteEvent(w) ==
    /\ writer[w].step = "append"
    /\ lines' = Appended(lines, Written(w))
    /\ writer' = [writer EXCEPT ![w] = NoEvent]
    /\ UNCHANGED <<auth, begun, overlapped>>

(* A process dies with its writers: the record one of them appends may be  *)
(* there in part, or all but its newline.                                  *)
DieInEvent(dying) ==
    /\ \/ lines' = lines
       \/ \E w \in dying, whole \in BOOLEAN :
            /\ writer[w].step = "append"
            /\ lines' = Appended(lines,
                                 [Written(w) EXCEPT !.ok = whole, !.ended = FALSE])
    /\ writer' = [w \in Writer |-> IF w \in dying THEN NoEvent ELSE writer[w]]
    /\ UNCHANGED <<auth, begun, overlapped>>

Event(w) == CreateKey(w) \/ FillKey(w) \/ ReadChain(w) \/ WriteEvent(w)

-----------------------------------------------------------------------------
(* Properties *)

(* audit.py 56-94 and 109-133: when no two events were written at once,    *)
(* verification rejects the lines a crash has torn and no other: the chain *)
(* goes on behind them.                                                    *)
ChainHeals ==
    ~overlapped => Rejected(lines, auth) = DOMAIN lines \ Records(lines)
=============================================================================
