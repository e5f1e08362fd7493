---------------------------- MODULE ApprovalFlow ----------------------------
(***************************************************************************)
(* The dual-approval gate of approval_flow.py: an operator requests        *)
(* approval for an action, a supervisor turns the request into a           *)
(* short-lived grant, the operator consumes the grant once.                *)
(*                                                                         *)
(* Every public call first drops expired entries with the clock it reads   *)
(* there, then tests expiry again with a later reading; ReadGap is how far *)
(* the clock can move between two readings of one call.                    *)
(***************************************************************************)
EXTENDS Integers

CONSTANTS
    Action,                \* action ids an operator may name
    DUAL_APPROVAL_ACTIONS, \* the ones that need a supervisor
    Nonce,                 \* the nonces os.urandom can return (never twice)
    RequestTTL,            \* _REQUEST_TTL
    GrantTTL,              \* _GRANT_TTL
    ReadGap,               \* clock movement between two readings of one call
    MaxTime                \* bound: the clock stops here

ASSUME ActionAssumption == DUAL_APPROVAL_ACTIONS \subseteq Action
ASSUME TimeAssumption ==
    /\ RequestTTL \in Nat
    /\ GrantTTL \in Nat
    /\ ReadGap \in Nat
    /\ MaxTime \in Nat

VARIABLES
    pending,     \* _pending: the open requests, at most one per action
    grants,      \* _grants: the grants, one per nonce
    supervisor,  \* RoleStore: is a supervisor passphrase configured?
    now,         \* time.monotonic()
    result,      \* reason tag of the last call's outcome
    opened,      \* history: every request ever created
    approvals,   \* history: the last grant issued for each nonce
    spent        \* history: the consumed (action, nonce) pairs

vars == <<pending, grants, supervisor, now, result, opened, approvals, spent>>

ApprovalRequest == [action : Action, nonce : Nonce, created_at : Nat]
ApprovalGrant == [action : Action, nonce : Nonce, granted_at : Nat]
Reason == {"none", "not_required", "already_pending", "request_created",
           "no_request", "request_expired", "supervisor_not_configured",
           "wrong_passphrase", "granted", "no_grant", "action_mismatch",
           "grant_expired", "consumed", "KeyError", "status", "set", "cleared"}

RequestExpired(r, t) == t - r.created_at > RequestTTL
GrantExpired(g, t) == t - g.granted_at > GrantTTL

(* _purge_expired at time t: expired requests take their grants along. *)
PurgedPending(t) == {r \in pending : ~RequestExpired(r, t)}
PurgedGrants(t) ==
    {g \in grants : /\ ~GrantExpired(g, t)
                    /\ \A r \in pending : r.nonce = g.nonce => ~RequestExpired(r, t)}

(* The readings a call can make after one at t. *)
LaterReading(t) == {u \in t..(t + ReadGap) : u <= MaxTime}

Init ==
    /\ pending = {} /\ grants = {}
    /\ supervisor \in BOOLEAN
    /\ now = 0
    /\ result = "none"
    /\ opened = {} /\ approvals = {} /\ spent = {}

-----------------------------------------------------------------------------
(* request(action_id) *)

RequestNotRequired(a) ==
    /\ a \notin DUAL_APPROVAL_ACTIONS
    /\ pending' = PurgedPending(now)
    /\ grants' = PurgedGrants(now)
    /\ result' = "not_required"
    /\ UNCHANGED <<supervisor, now, opened, approvals, spent>>

RequestAlreadyPending(a) ==
    /\ a \in DUAL_APPROVAL_ACTIONS
    /\ \E t \in LaterReading(now), r \in PurgedPending(now) :
          /\ r.action = a
          /\ ~RequestExpired(r, t)
          /\ result' = "already_pending"
          /\ now' = t
    /\ pending' = PurgedPending(now)
    /\ grants' = PurgedGrants(now)
    /\ UNCHANGED <<supervisor, opened, approvals, spent>>

RequestCreated(a) ==
    /\ a \in DUAL_APPROVAL_ACTIONS
    /\ \E t \in LaterReading(now), n \in Nonce :
          /\ \A r \in PurgedPending(now) : r.action = a => RequestExpired(r, t)
          /\ \A r \in opened : r.nonce # n
          /\ LET req == [action |-> a, nonce |-> n, created_at |-> t]
             IN  /\ pending' = {r \in PurgedPending(now) : r.action # a} \union {req}
                 /\ opened' = opened \union {req}
          /\ result' = "request_created"
          /\ now' = t
    /\ grants' = PurgedGrants(now)
    /\ UNCHANGED <<supervisor, approvals, spent>>

Request(a) == RequestNotRequired(a) \/ RequestAlreadyPending(a) \/ RequestCreated(a)

-----------------------------------------------------------------------------
(* grant(nonce, passphrase, role_store); the request is looked up before   *)
(* the purge and tested after it.                                          *)

GrantNoRequest(n) ==
    /\ \A r \in pending : r.nonce # n
    /\ pending' = PurgedPending(now)
    /\ grants' = PurgedGrants(now)
    /\ result' = "no_request"
    /\ UNCHANGED <<supervisor, now, opened, approvals, spent>>

GrantRequestExpired(n) ==
    \E t \in LaterReading(now), r \in pending :
        /\ r.nonce = n
        /\ RequestExpired(r, t)
        /\ pending' = {q \in PurgedPending(now) : q.action # r.action}
        /\ grants' = PurgedGrants(now)
        /\ result' = "request_expired"
        /\ now' = t
        /\ UNCHANGED <<supervisor, opened, approvals, spent>>

(* verify_supervisor, with the right passphrase or a wrong one *)
Verified(right) == supervisor /\ right

GrantVerified(n, right) ==
    \E t \in LaterReading(now), r \in pending :
        /\ r.nonce = n
        /\ ~RequestExpired(r, t)
        /\ pending' = PurgedPending(now)
        /\ \/ /\ Verified(right)
              /\ \E u \in LaterReading(t) :
                    LET g == [action |-> r.action, nonce |-> n, granted_at |-> u]
                    IN  /\ grants' = {h \in PurgedGrants(now) : h.nonce # n} \union {g}
                        /\ approvals' = {h \in approvals : h.nonce # n} \union {g}
                        /\ now' = u
              /\ result' = "granted"
           \/ /\ ~Verified(right)
              /\ grants' = PurgedGrants(now)
              /\ now' = t
              /\ result' = IF supervisor THEN "wrong_passphrase"
                                         ELSE "supervisor_not_configured"
              /\ UNCHANGED approvals
        /\ UNCHANGED <<supervisor, opened, spent>>

Grant(n) ==
    GrantNoRequest(n) \/ GrantRequestExpired(n) \/ \E right \in BOOLEAN : GrantVerified(n, right)

-----------------------------------------------------------------------------
(* consume(action_id, nonce); the grant is looked up before the purge.     *)

ConsumeNoGrant(a, n) ==
    /\ \A g \in grants : g.nonce # n
    /\ pending' = PurgedPending(now)
    /\ grants' = PurgedGrants(now)
    /\ result' = "no_grant"
    /\ UNCHANGED <<supervisor, now, opened, approvals, spent>>

ConsumeMismatch(a, n) ==
    /\ \E g \in grants : g.nonce = n /\ g.action # a
    /\ pending' = PurgedPending(now)
    /\ grants' = PurgedGrants(now)
    /\ result' = "action_mismatch"
    /\ UNCHANGED <<supervisor, now, opened, approvals, spent>>

ConsumeExpired(a, n) ==
    \E t \in LaterReading(now), g \in grants :
        /\ g.nonce = n /\ g.action = a
        /\ GrantExpired(g, t)
        /\ pending' = {r \in PurgedPending(now) : r.action # a}
        /\ grants' = {h \in PurgedGrants(now) : h.nonce # n}
        /\ result' = "grant_expired"
        /\ now' = t
        /\ UNCHANGED <<supervisor, opened, approvals, spent>>

(* Mutant: the request stays open when its grant is consumed. *)
ConsumeGranted_RequestKept(a, n) ==
    \E t \in LaterReading(now), g \in PurgedGrants(now) :
        /\ g.nonce = n /\ g.action = a
        /\ ~GrantExpired(g, t)
        /\ pending' = PurgedPending(now)
        /\ grants' = {h \in PurgedGrants(now) : h.nonce # n}
        /\ spent' = spent \union {[action |-> a, nonce |-> n]}
        /\ result' = "consumed"
        /\ now' = t
        /\ UNCHANGED <<supervisor, opened, approvals>>

(* Mutant: the grant is accepted for any action. *)
ConsumeGranted_AnyAction(a, n) ==
    \E t \in LaterReading(now), g \in PurgedGrants(now) :
        /\ g.nonce = n
        /\ ~GrantExpired(g, t)
        /\ pending' = {r \in PurgedPending(now) : r.action # a}
        /\ grants' = {h \in PurgedGrants(now) : h.nonce # n}
        /\ spent' = spent \union {[action |-> a, nonce |-> n]}
        /\ result' = "consumed"
        /\ now' = t
        /\ UNCHANGED <<supervisor, opened, approvals>>

ConsumeGranted(a, n) ==
    \E t \in LaterReading(now), g \in PurgedGrants(now) :
        /\ g.nonce = n /\ g.action = a
        /\ ~GrantExpired(g, t)
        /\ pending' = {r \in PurgedPending(now) : r.action # a}
        /\ grants' = {h \in PurgedGrants(now) : h.nonce # n}
        /\ spent' = spent \union {[action |-> a, nonce |-> n]}
        /\ result' = "consumed"
        /\ now' = t
        /\ UNCHANGED <<supervisor, opened, approvals>>

(* The purge dropped the grant with its expired request although the grant *)
(* itself has not expired: "del self._grants[nonce]" raises.               *)
ConsumeKeyError(a, n) ==
    \E t \in LaterReading(now), g \in grants \ PurgedGrants(now) :
        /\ g.nonce = n /\ g.action = a
        /\ ~GrantExpired(g, t)
        /\ pending' = PurgedPending(now)
        /\ grants' = PurgedGrants(now)
        /\ result' = "KeyError"
        /\ now' = t
        /\ UNCHANGED <<supervisor, opened, approvals, spent>>

Consume(a, n) ==
    \/ ConsumeNoGrant(a, n)
    \/ ConsumeMismatch(a, n)
    \/ ConsumeExpired(a, n)
    \/ ConsumeGranted(a, n)
    \/ ConsumeKeyError(a, n)

-----------------------------------------------------------------------------
(* status(action_id) changes state only through the purge. *)
Status(a) ==
    /\ pending' = PurgedPending(now)
    /\ grants' = PurgedGrants(now)
    /\ result' = "status"
    /\ UNCHANGED <<supervisor, now, opened, approvals, spent>>

(* RoleStore.configure_supervisor / clear *)
ConfigureSupervisor ==
    /\ supervisor' = TRUE
    /\ result' = "set"
    /\ UNCHANGED <<pending, grants, now, opened, approvals, spent>>

ClearSupervisor ==
    /\ supervisor' = FALSE
    /\ result' = "cleared"
    /\ UNCHANGED <<pending, grants, now, opened, approvals, spent>>

Tick ==
    /\ now < MaxTime
    /\ now' = now + 1
    /\ UNCHANGED <<pending, grants, supervisor, result, opened, approvals, spent>>

Next ==
    \/ \E a \in Action : Request(a) \/ Status(a)
    \/ \E n \in Nonce : Grant(n)
    \/ \E a \in Action, n \in Nonce : Consume(a, n)
    \/ ConfigureSupervisor \/ ClearSupervisor
    \/ Tick

Spec == Init /\ [][Next]_vars

-----------------------------------------------------------------------------
(* Type invariant. *)
TypeOK ==
    /\ pending \subseteq ApprovalRequest
    /\ grants \subseteq ApprovalGrant
    /\ supervisor \in BOOLEAN
    /\ now \in Nat
    /\ result \in Reason
    /\ opened \subseteq ApprovalRequest
    /\ approvals \subseteq ApprovalGrant
    /\ spent \subseteq [action : Action, nonce : Nonce]

(* A consumed nonce is dead: no open request carries it (so no supervisor  *)
(* can approve it again) and no grant carries it (so it cannot be          *)
(* replayed), even when the grant outlived its own request.                *)
SingleUse ==
    \A s \in spent : /\ \A r \in pending : r.nonce # s.nonce
                     /\ \A g \in grants : g.nonce # s.nonce

(* A successful consume is covered by a supervisor's verification of that  *)
(* very nonce, for that action, at most GrantTTL ago, of a request made    *)
(* for that action at most RequestTTL (and the gap between two readings)   *)
(* before the verification.                                                *)
ConsumeCovered ==
    [][spent' # spent =>
         \E g \in approvals, r \in opened :
            /\ spent' = spent \union {[action |-> g.action, nonce |-> g.nonce]}
            /\ now' - g.granted_at <= GrantTTL
            /\ r.nonce = g.nonce /\ r.action = g.action
            /\ g.granted_at - r.created_at <= RequestTTL + ReadGap]_vars
=============================================================================
