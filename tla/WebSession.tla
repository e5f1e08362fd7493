----------------------------- MODULE WebSession -----------------------------
(***************************************************************************)
(* Who may do what in the WebUI (web_server.py): page sessions opened with *)
(* a role token or the shared WEB_TOKEN, restricted confirmations, the     *)
(* route table, and the device lock the blocking routes queue for.         *)
(*                                                                         *)
(* FastAPI evaluates a route's dependencies when the request arrives and   *)
(* runs its body later: in the threadpool under _DEVICE_OPERATION_LOCK, or *)
(* on the event loop.  Between the two, other requests, the console and    *)
(* the clock move.  What the bodies do to the containers is the subject of *)
(* VesselStore and WebTarget; what the limiters count, of AttemptLimiter.  *)
(***************************************************************************)
EXTENDS Integers, FiniteSets

CONSTANTS
    Client,        \* browsers, each at an address of its own
    Loopback,      \* the ones on the device itself
    Told,          \* Told[c]: roles whose tokens the operator hands to c
    ToldWeb,       \* clients the operator hands the WEB_TOKEN to
    NoClient,      \* the lock is free
    Env,           \* deployments: [profile, field, pinned]
    Route,         \* bound: the routes requested
    UITTL,         \* UI_SESSION_TTL_SECONDS
    RestrictedTTL  \* RESTRICTED_SESSION_TTL_SECONDS

ROLES == {"store", "recover"}

ASSUME ClientAssumption == Loopback \subseteq Client /\ NoClient \notin Client
ASSUME ToldAssumption == Told \in [Client -> SUBSET ROLES] /\ ToldWeb \subseteq Client
ASSUME EnvAssumption == \A e \in Env : e.pinned \subseteq ROLES
ASSUME TimeAssumption == UITTL \in Nat \ {0} /\ RestrictedTTL \in Nat \ {0}

VARIABLES
    env,        \* the deployment the process was started in
    issued,     \* roles with a token in the file as it reads (access_tokens.bin)
    saving,     \* what the console is about to write to it: none or one
                \* set of roles
    page,       \* _ui_sessions: the session behind each client's cookie
    confirmed,  \* _restricted_sessions: time left to each client's confirmation
    csrf,       \* clients that have the current WEB_TOKEN from a page
    req,        \* each client's device request: idle, admitted or holding
    holder,     \* who holds _DEVICE_OPERATION_LOCK
    revoked,    \* history: what is left of one session lifetime since the
                \* file last ceased to name each role
    bare        \* history: what is left of one session lifetime since the
                \* file, having named a role, read as naming none

sessions == <<page, confirmed>>
tokens == <<issued, saving>>
history == <<revoked, bare>>
vars == <<env, tokens, sessions, csrf, req, holder, history>>

-----------------------------------------------------------------------------
(* Deployment policy (capabilities.py) *)

MAINTENANCE_CAPABILITIES == {"entry_maintenance", "audit_export", "token_rotation",
                             "session_reset", "diagnostics_detail"}
FIELD_CAPABILITIES == {"metadata_check", "metadata_reduce", "entry_maintenance",
                       "audit_export", "diagnostics_detail", "restricted_action"}
STANDARD_CAPABILITIES == MAINTENANCE_CAPABILITIES \union FIELD_CAPABILITIES
                            \union {"rapid_local_clear"}
Policies == [standard |-> STANDARD_CAPABILITIES, field |-> FIELD_CAPABILITIES,
             maintenance |-> MAINTENANCE_CAPABILITIES]
Enabled(cap) == cap = "none" \/ cap \in Policies[env.profile]

-----------------------------------------------------------------------------
(* The routes: dependencies checked on arrival; then, in the body, whether *)
(* it takes the device lock, the capability it needs, and when it asks for *)
(* a live restricted confirmation ("recheck" is the panic route's own test *)
(* of the page session).                                                   *)

RecoverDeps == {"web", "ui"}
StoreDeps == {"web", "ui", "store"}
Body(deps, locked, cap, confirm) ==
    [deps |-> deps, locked |-> locked, cap |-> cap, confirm |-> confirm]

(* The restricted actions: the capability, and whether a live confirmation *)
(* is needed on top of the (public) phrase.                                *)
Action(cap, confirm) == [cap |-> cap, confirm |-> confirm]
RESTRICTED_ACTION_POLICIES == [
    clear_unmatched_entry |-> Action("restricted_action", "always"),
    clear_local_access_path |-> Action("restricted_action", "always"),
    initialize_container |-> Action("restricted_action", "always"),
    destroy_face |-> Action("restricted_action", "never"),
    rapid_local_clear |-> Action("rapid_local_clear", "recheck")]
ActionBody(deps, a) == Body(deps, TRUE, RESTRICTED_ACTION_POLICIES[a].cap,
                            RESTRICTED_ACTION_POLICIES[a].confirm)

RegisterScene == Body(StoreDeps, TRUE, "none", "never")
RegisterKey == Body(StoreDeps, TRUE, "none", "never")
ReplaceKey == Body(StoreDeps, TRUE, "none", "always")
Store == Body(StoreDeps, TRUE, "none", "never")
StoreOverwrite == Body(StoreDeps, TRUE, "none", "always")
Retrieve == Body(RecoverDeps, TRUE, "none", "never")
DestroyFace == ActionBody(RecoverDeps, "destroy_face")
PurgeOther == ActionBody(RecoverDeps, "clear_unmatched_entry")
EmergencyBrick == ActionBody(RecoverDeps, "clear_local_access_path")
EmergencyInitialize == ActionBody(RecoverDeps, "initialize_container")
PanicTrigger == ActionBody({"web"}, "rapid_local_clear")
EntryStatus == Body(StoreDeps \union {"confirmed"}, FALSE, "entry_maintenance", "never")
MetadataCheck == Body(StoreDeps, FALSE, "metadata_check", "never")
MetadataScrub == Body(StoreDeps, FALSE, "metadata_reduce", "never")
RotateToken == Body(StoreDeps, FALSE, "token_rotation", "field")
ResetSession == Body(StoreDeps, FALSE, "session_reset", "field")
Diagnostics == Body(StoreDeps, FALSE, "none", "never")
ExportLogs == Body(StoreDeps, FALSE, "audit_export", "field")
OperatorPages == Body(StoreDeps, FALSE, "none", "never")

Routes == [
    register_scene |-> RegisterScene, register_key |-> RegisterKey,
    replace_key |-> ReplaceKey, store |-> Store, store_overwrite |-> StoreOverwrite,
    retrieve |-> Retrieve, destroy_face |-> DestroyFace, purge_other |-> PurgeOther,
    brick |-> EmergencyBrick, initialize |-> EmergencyInitialize,
    panic |-> PanicTrigger, entry_status |-> EntryStatus,
    metadata_check |-> MetadataCheck, metadata_scrub |-> MetadataScrub,
    rotate_token |-> RotateToken, reset_session |-> ResetSession,
    diagnostics |-> Diagnostics, logs |-> ExportLogs, operator |-> OperatorPages]

(* The pages, each with what it needs; all of them carry WEB_TOKEN. *)
Pages == [home |-> {"ui"}, retrieve |-> {"ui"}, emergency |-> {"ui"},
          store |-> {"ui", "store"}, maintenance |-> {"ui", "store"},
          entries |-> {"ui", "store"}]

ASSUME RouteAssumption == Route \subseteq DOMAIN Routes

-----------------------------------------------------------------------------
(* Sessions.  A token is random, so what matters of the two tables is the  *)
(* session each client's cookie names and the time it has left.  The code  *)
(* drops an expired session when it is next asked for and a browser drops  *)
(* the cookie at the same age: here it goes when its time is up.  Both     *)
(* forms are served only to a client that has no session of that kind.     *)

NoPage == [role |-> "recover", rest |-> 0, via |-> "none"]
UISession == [role : ROLES, rest : 0..UITTL, via : ROLES \union {"web", "none"}]

(* _ui_unlocked and _restricted_session_valid, for a client's own cookies. *)
Unlocked(c) == c \in Loopback \/ page[c].rest > 0
Confirmed(c) == confirmed[c] > 0

(* _ui_session_role: a missing session reads as the narrower role. *)
SessionRole(c) == IF c \in Loopback THEN "store" ELSE page[c].role

(* A request keeps the cookies it was sent with: are their sessions alive? *)
IdleRequest == [at |-> "idle", route |-> "none", page |-> FALSE, conf |-> FALSE,
                left |-> FALSE]
Request == [at : {"idle", "admitted", "holding"}, route : Route \union {"none"},
            page : BOOLEAN, conf : BOOLEAN, left : BOOLEAN]

(* issued_roles: a role pinned in the environment counts as issued. *)
IssuedRoles == issued \union env.pinned

Init ==
    /\ env \in Env
    /\ issued = {} /\ saving = {} /\ csrf = {}
    /\ page = [c \in Client |-> NoPage]
    /\ confirmed = [c \in Client |-> 0]
    /\ req = [c \in Client |-> IdleRequest]
    /\ holder = NoClient
    /\ revoked = [r \in ROLES |-> 0]
    /\ bare = 0

-----------------------------------------------------------------------------
(* The console's Access Tokens screen (access_token_service.py).  _save    *)
(* truncates the file and then writes it, and _load reads an empty file as *)
(* one that names no role.  When power fails in between, or the console is *)
(* killed, it stays empty.  (A file cut in the middle lets nobody in: every *)
(* read of it raises.)                                                     *)

Truncate(roles) ==
    /\ saving = {}
    /\ issued' = {} /\ saving' = {roles}
    /\ revoked' = [r \in ROLES |-> IF r \in issued THEN UITTL ELSE revoked[r]]
    /\ bare' = IF issued # {} /\ env.pinned = {} THEN UITTL ELSE bare
    /\ UNCHANGED <<env, sessions, csrf, req, holder>>

Issue(r) == r \notin IssuedRoles /\ Truncate(issued \union {r})
Revoke(r) == r \in issued \ env.pinned /\ Truncate(issued \ {r})

Written ==
    /\ \E roles \in saving : issued' = roles
    /\ saving' = {}
    /\ UNCHANGED <<env, sessions, csrf, req, holder, history>>

ConsoleDies ==
    /\ saving # {} /\ saving' = {}
    /\ UNCHANGED <<env, issued, sessions, csrf, req, holder, history>>

-----------------------------------------------------------------------------
(* Opening and closing a page session *)

(* verify: the role a presented token grants, as a set of at most one. *)
Verify(cred) == {cred} \intersect IssuedRoles

(* Mutant: the shared token keeps opening sessions next to role tokens. *)
GrantedRole_WebAlways(cred) == IF cred = "web" THEN {"store"} ELSE Verify(cred)

(* unlock_submit: WEB_TOKEN opens a session until a role token exists. *)
GrantedRole(cred) ==
    IF cred = "web" THEN {r \in {"store"} : IssuedRoles = {}} ELSE Verify(cred)

MayPresent(c, cred) ==
    IF cred = "web" THEN c \in ToldWeb \union csrf ELSE cred \in Told[c]

Unlock(c, cred) ==
    /\ ~Unlocked(c) /\ MayPresent(c, cred)
    /\ \E r \in GrantedRole(cred) :
          page' = [page EXCEPT ![c] = [role |-> r, rest |-> UITTL, via |-> cred]]
    /\ UNCHANGED <<env, tokens, confirmed, csrf, req, holder, history>>

(* A request whose sessions are dropped has none; left if it still waits. *)
Dropped(q) == [at |-> q.at, route |-> q.route, page |-> FALSE, conf |-> FALSE,
               left |-> q.left \/ q.at = "admitted"]

(* lock_session drops both sessions of the cookies it is sent. *)
LockSession(c) ==
    /\ page' = [page EXCEPT ![c] = NoPage]
    /\ confirmed' = [confirmed EXCEPT ![c] = 0]
    /\ req' = [req EXCEPT ![c] = Dropped(req[c])]
    /\ UNCHANGED <<env, tokens, csrf, holder, history>>

(* Mutant: a page load renews the session. *)
LoadedSession_Sliding(c) ==
    IF c \in Loopback THEN page[c] ELSE [page[c] EXCEPT !.rest = UITTL]

(* _template_context only reads the session. *)
LoadedSession(c) == page[c]

(* The dependencies of a route, for the cookies the request carries. *)
DepHolds(d, c) ==
    CASE d = "web" -> c \in csrf
      [] d = "ui" -> Unlocked(c)
      [] d = "store" -> SessionRole(c) = "store"
      [] d = "confirmed" -> Confirmed(c)

(* A page: an unlocked client is served one that carries WEB_TOKEN. *)
LoadPage(c) ==
    /\ \E p \in DOMAIN Pages : \A d \in Pages[p] : DepHolds(d, c)
    /\ csrf' = csrf \union {c}
    /\ page' = [page EXCEPT ![c] = LoadedSession(c)]
    /\ UNCHANGED <<env, tokens, confirmed, req, holder, history>>

(* restricted_confirm with the right phrase. *)
RestrictedConfirm(c) ==
    /\ c \in csrf /\ Unlocked(c) /\ ~Confirmed(c)
    /\ confirmed' = [confirmed EXCEPT ![c] = RestrictedTTL]
    /\ UNCHANGED <<env, tokens, page, csrf, req, holder, history>>

-----------------------------------------------------------------------------
(* Requests *)

Admit(c, r) ==
    /\ req[c].at = "idle"
    /\ \A d \in Routes[r].deps : DepHolds(d, c)
    /\ req' = [req EXCEPT ![c] = [at |-> "admitted", route |-> r, page |-> page[c].rest > 0,
                                  conf |-> Confirmed(c), left |-> FALSE]]
    /\ UNCHANGED <<env, tokens, sessions, csrf, holder, history>>

(* Mutant: the confirmation is tested with the dependencies only. *)
BodyAllows_OnArrival(c) == Enabled(Routes[req[c].route].cap)

(* require_restricted_action, _require_restricted_when_field_mode and the  *)
(* panic route's own checks, made in the body.                             *)
BodyAllows(c) ==
    LET r == Routes[req[c].route]
    IN  /\ Enabled(r.cap)
        /\ r.confirm = "always" => req[c].conf
        /\ r.confirm = "field" /\ env.field => req[c].conf
        /\ r.confirm = "recheck" => c \in Loopback \/ req[c].page

(* A failed check or a wrong phrase ends the request. *)
Refuse(c) ==
    /\ req[c].at = "admitted"
    /\ req' = [req EXCEPT ![c] = IdleRequest]
    /\ UNCHANGED <<env, tokens, sessions, csrf, holder, history>>

(* _locked: the body starts once the lock is free and its checks pass. *)
Acquire(c) ==
    /\ req[c].at = "admitted" /\ Routes[req[c].route].locked
    /\ holder = NoClient
    /\ BodyAllows(c)
    /\ req' = [req EXCEPT ![c].at = "holding"]
    /\ holder' = c
    /\ UNCHANGED <<env, tokens, sessions, csrf, history>>

(* Mutant: a body that raises keeps the lock. *)
Release_OnReturn(c) == {NoClient, c}

(* "with _DEVICE_OPERATION_LOCK" frees it on return and on an exception. *)
Release(c) == {NoClient}

Finish(c) ==
    /\ req[c].at = "holding"
    /\ req' = [req EXCEPT ![c] = IdleRequest]
    /\ holder' \in Release(c)
    /\ UNCHANGED <<env, tokens, sessions, csrf, history>>

(* A route that runs on the event loop. *)
RunOnLoop(c) ==
    /\ req[c].at = "admitted" /\ ~Routes[req[c].route].locked
    /\ BodyAllows(c)
    /\ csrf' = IF req[c].route = "rotate_token" THEN {c} ELSE csrf
    /\ confirmed' = IF req[c].route = "reset_session" /\ req[c].conf
                    THEN [confirmed EXCEPT ![c] = 0] ELSE confirmed
    /\ req' = [req EXCEPT ![c] = IdleRequest]
    /\ UNCHANGED <<env, tokens, page, holder, history>>

-----------------------------------------------------------------------------
(* A restart forgets every session and draws a new WEB_TOKEN; the role     *)
(* tokens are on disk.                                                     *)
Restart ==
    /\ page' = [c \in Client |-> NoPage]
    /\ confirmed' = [c \in Client |-> 0]
    /\ req' = [c \in Client |-> IdleRequest]
    /\ holder' = NoClient /\ csrf' = {}
    /\ UNCHANGED <<env, tokens, history>>

Aged(n) == IF n = 0 THEN 0 ELSE n - 1

OlderPage(u) == IF u.rest <= 1 THEN NoPage
                ELSE [role |-> u.role, rest |-> u.rest - 1, via |-> u.via]
Older(q, pageRest, confRest) ==
    [at |-> q.at, route |-> q.route, page |-> q.page /\ pageRest > 1,
     conf |-> q.conf /\ confRest > 1, left |-> q.left]

Tick ==
    /\ page' = [c \in Client |-> OlderPage(page[c])]
    /\ confirmed' = [c \in Client |-> Aged(confirmed[c])]
    /\ revoked' = [r \in ROLES |-> Aged(revoked[r])]
    /\ bare' = IF IssuedRoles = {} THEN bare ELSE Aged(bare)
    /\ req' = [c \in Client |-> Older(req[c], page[c].rest, confirmed[c])]
    /\ UNCHANGED <<env, tokens, csrf, holder>>

Next ==
    \/ \E r \in ROLES : Issue(r) \/ Revoke(r)
    \/ Written \/ ConsoleDies
    \/ \E c \in Client :
          \/ \E cred \in ROLES \union {"web"} : Unlock(c, cred)
          \/ LockSession(c) \/ LoadPage(c) \/ RestrictedConfirm(c)
          \/ \E r \in Route : Admit(c, r)
          \/ Refuse(c) \/ Acquire(c) \/ Finish(c) \/ RunOnLoop(c)
    \/ Restart
    \/ Tick

Spec == Init /\ [][Next]_vars

-----------------------------------------------------------------------------
(* Properties *)

(* Every variable keeps its type. *)
TypeOK ==
    /\ env \in Env
    /\ issued \subseteq ROLES /\ saving \subseteq SUBSET ROLES
    /\ csrf \subseteq Client
    /\ page \in [Client -> UISession]
    /\ confirmed \in [Client -> 0..RestrictedTTL]
    /\ req \in [Client -> Request]
    /\ holder \in Client \union {NoClient}
    /\ revoked \in [ROLES -> 0..UITTL] /\ bare \in 0..UITTL

(* unlock_submit: a client that was handed only the recover token reads    *)
(* WEB_TOKEN in its pages and opens no store session with it while the     *)
(* token file names a role.  The file names none once the last role is     *)
(* revoked, and whenever it is being rewritten, although roles are in use: *)
(* a store session opened then ends no later than one lifetime after the   *)
(* file names a role again.                                                *)
NoEscalation ==
    \A c \in Client \ ToldWeb :
        page[c].role = "store" /\ "store" \notin Told[c] => page[c].rest <= bare

(* A revoked role token is worth nothing one session lifetime later: the   *)
(* sessions it opened end then, however often they are used (sessions are  *)
(* not renewed, and none is opened after the revocation).                  *)
RevokedExpires ==
    \A c \in Client : \A r \in ROLES \ IssuedRoles :
        page[c].via = r => page[c].rest <= revoked[r]

(* A request whose client locked the session it was sent with, while it    *)
(* waited for the device, is refused when its turn comes, if its body      *)
(* tests a session under the lock: overwriting an entry, replacing its     *)
(* key, clearing the other entry, the local clear, the initialization      *)
(* (confirmation) and the panic route (page session).  The bodies of the   *)
(* other routes test none and run although the client has left: a store, a *)
(* retrieval, with what its destroy passphrase clears, and destroy_face.   *)
NotAfterLeaving ==
    \A c \in Client \ Loopback :
        req[c].at = "holding" /\ Routes[req[c].route].confirm \in {"always", "recheck"}
            => ~req[c].left

(* Two bodies never use the device at once, and the lock is held only      *)
(* while its holder's body runs: whatever a body raises, and whether its   *)
(* client has left or been forgotten, the next request can have it.        *)
DeviceExclusive == \A c \in Client : req[c].at = "holding" <=> holder = c

=============================================================================
