---------------------------- MODULE WebUI_proofs ----------------------------
(***************************************************************************)
(* The WebUI from both sides: the sessions it keeps (WebSession), for any  *)
(* clients, deployments, routes and lifetimes, and the console that starts *)
(* and stops its process (Console), for any number of servers and keys.    *)
(* The two models are independent; each theorem names its specification.   *)
(***************************************************************************)
EXTENDS WebSession, Console, TLAPS

-----------------------------------------------------------------------------
(* Sessions: what a client may do is what its token gave it, for as long   *)
(* as the token is good.                                                   *)

(* Every variable of the session model keeps its type. *)
THEOREM TypeCorrect == Spec => []TypeOK
<1>1. Init => TypeOK
  <2> SUFFICES ASSUME Init PROVE TypeOK
    OBVIOUS
  <2>1. NoPage \in UISession /\ IdleRequest \in Request
    BY TimeAssumption DEF NoPage, UISession, IdleRequest, Request, ROLES
  <2>2. 0 \in 0..RestrictedTTL /\ 0 \in 0..UITTL
    BY TimeAssumption
  <2> QED BY <2>1, <2>2 DEF Init, TypeOK
<1>2. TypeOK /\ [Next]_vars => TypeOK'
  <2> SUFFICES ASSUME TypeOK, [Next]_vars PROVE TypeOK'
    OBVIOUS
  <2> USE TimeAssumption DEF TypeOK, sessions, tokens, history
  <2>0. IdleRequest \in Request /\ NoPage \in UISession /\ 0 \in 0..RestrictedTTL
    BY DEF IdleRequest, Request, NoPage, UISession, ROLES
  <2>1. ASSUME NEW r \in ROLES, Issue(r) \/ Revoke(r) PROVE TypeOK'
    <3>1. PICK roles \in SUBSET ROLES : Truncate(roles)
      BY <2>1 DEF Issue, Revoke
    <3>2. UITTL \in 0..UITTL
      OBVIOUS
    <3>3. revoked' \in [ROLES -> 0..UITTL] /\ bare' \in 0..UITTL
      BY <3>1, <3>2 DEF Truncate
    <3> QED BY <3>1, <3>3 DEF Truncate
  <2>1a. ASSUME Written \/ ConsoleDies PROVE TypeOK'
    <3>1. issued' \subseteq ROLES
      BY <2>1a DEF Written, ConsoleDies
    <3> QED BY <2>1a, <3>1 DEF Written, ConsoleDies
  <2>2. ASSUME NEW c \in Client, NEW cred \in ROLES \union {"web"}, Unlock(c, cred)
        PROVE TypeOK'
    <3>1. PICK r \in GrantedRole(cred) :
             page' = [page EXCEPT ![c] = [role |-> r, rest |-> UITTL, via |-> cred]]
      BY <2>2 DEF Unlock
    <3>2. r \in ROLES
      BY <3>1, EnvAssumption DEF GrantedRole, Verify, IssuedRoles, ROLES
    <3> QED BY <2>2, <3>1, <3>2 DEF Unlock, UISession
  <2>3. ASSUME NEW c \in Client, LockSession(c) PROVE TypeOK'
    <3>1. NoPage \in UISession /\ 0 \in 0..RestrictedTTL
      BY DEF NoPage, UISession, ROLES
    <3>2. Dropped(req[c]) \in Request
      BY DEF Dropped, Request
    <3> QED BY <2>3, <3>1, <3>2 DEF LockSession
  <2>4. ASSUME NEW c \in Client, LoadPage(c) PROVE TypeOK'
    BY <2>4 DEF LoadPage, LoadedSession
  <2>5. ASSUME NEW c \in Client, RestrictedConfirm(c) PROVE TypeOK'
    BY <2>5 DEF RestrictedConfirm
  <2>6. ASSUME NEW c \in Client, NEW r \in Route, Admit(c, r) PROVE TypeOK'
    <3>1. [at |-> "admitted", route |-> r, page |-> page[c].rest > 0,
           conf |-> Confirmed(c), left |-> FALSE] \in Request
      BY DEF Request, Confirmed
    <3> QED BY <2>6, <3>1 DEF Admit
  <2>7. ASSUME NEW c \in Client, Refuse(c) PROVE TypeOK'
    BY <2>7, <2>0 DEF Refuse
  <2>8. ASSUME NEW c \in Client, Acquire(c) PROVE TypeOK'
    <3>1. [req[c] EXCEPT !.at = "holding"] \in Request
      BY DEF Request
    <3> QED BY <2>8, <3>1 DEF Acquire
  <2>9. ASSUME NEW c \in Client, Finish(c) PROVE TypeOK'
    BY <2>9, <2>0 DEF Finish, Release
  <2>10. ASSUME NEW c \in Client, RunOnLoop(c) PROVE TypeOK'
    BY <2>10, <2>0 DEF RunOnLoop
  <2>11. ASSUME Restart PROVE TypeOK'
    BY <2>11, <2>0 DEF Restart
  <2>12. ASSUME Tick PROVE TypeOK'
    <3>1. \A c \in Client : OlderPage(page[c]) \in UISession
      BY <2>0 DEF OlderPage, UISession
    <3>2. \A c \in Client : Older(req[c], page[c].rest, confirmed[c]) \in Request
      BY DEF Older, Request
    <3>3. /\ \A c \in Client : Aged(confirmed[c]) \in 0..RestrictedTTL
          /\ \A r \in ROLES : Aged(revoked[r]) \in 0..UITTL
          /\ Aged(bare) \in 0..UITTL
      BY DEF Aged
    <3> QED BY <2>12, <3>1, <3>2, <3>3 DEF Tick
  <2>13. CASE UNCHANGED vars
    BY <2>13 DEF vars
  <2> QED BY <2>1, <2>1a, <2>2, <2>3, <2>4, <2>5, <2>6, <2>7, <2>8, <2>9, <2>10, <2>11,
             <2>12, <2>13 DEF Next
<1> QED BY <1>1, <1>2, PTL DEF Spec

(* Between the truncation of the token file and its writing it names none. *)
Emptied == saving # {} => issued = {}

LEMMA EmptiedHolds == Spec => []Emptied
<1>1. Init => Emptied
  BY DEF Init, Emptied
<1>2. Emptied /\ [Next]_vars => Emptied'
  <2> SUFFICES ASSUME Emptied, [Next]_vars PROVE Emptied'
    OBVIOUS
  <2>1. CASE \E r \in ROLES : Issue(r) \/ Revoke(r)
    BY <2>1 DEF Issue, Revoke, Truncate, Emptied
  <2>2. CASE Written \/ ConsoleDies
    BY <2>2 DEF Written, ConsoleDies, Emptied
  <2>3. CASE UNCHANGED tokens
    BY <2>3 DEF tokens, Emptied
  <2> QED BY <2>1, <2>2, <2>3 DEF Next, vars, Unlock, LockSession, LoadPage,
             RestrictedConfirm, Admit, Refuse, Acquire, Finish, RunOnLoop, Restart, Tick
<1> QED BY <1>1, <1>2, PTL DEF Spec

(* Until a role token has been issued, only clients that were handed the   *)
(* WEB_TOKEN have a session, a page that shows it, or asked to rotate it.  *)
(* When the file names no role any more, the lifetime is counted in full.  *)
Outsiders == Client \ (ToldWeb \union Loopback)
OutsidersHaveNothing ==
    \A c \in Outsiders : /\ c \notin csrf /\ page[c].rest = 0
                         /\ req[c].at # "idle" => req[c].route # "rotate_token"
NothingNarrower ==
    IssuedRoles = {} => \/ bare = UITTL
                        \/ bare = 0 /\ OutsidersHaveNothing

(* Rotating the token needs the token. *)
LEMMA RotateNeedsToken == "web" \in Routes["rotate_token"].deps
BY DEF Routes, RotateToken, Body, StoreDeps

(* Time passing takes as much from a session as from a lifetime counted    *)
(* beside it.                                                              *)
LEMMA AgingTogether ==
  ASSUME NEW u \in UISession, NEW n \in Nat, u.rest <= n
  PROVE  OlderPage(u).rest <= Aged(n)
  BY TimeAssumption DEF OlderPage, Aged, UISession, NoPage

(* A client handed only the recover token opens no store session with the  *)
(* WEB_TOKEN of its pages while the token file names a role; one opened    *)
(* while it named none, the moments of its rewriting included, ends within *)
(* one lifetime of the file naming a role again.                           *)
THEOREM NoEscalationHolds == Spec => []NoEscalation
<1>1. Init => NothingNarrower /\ NoEscalation
  BY DEF Init, NothingNarrower, OutsidersHaveNothing, Outsiders, NoEscalation, NoPage,
         IdleRequest
<1>2. TypeOK /\ Emptied /\ NothingNarrower /\ NoEscalation /\ [Next]_vars
        => (NothingNarrower /\ NoEscalation)'
  <2> SUFFICES ASSUME TypeOK, Emptied, NothingNarrower, NoEscalation, [Next]_vars
               PROVE  NothingNarrower' /\ NoEscalation'
    OBVIOUS
  <2> USE DEF IssuedRoles, sessions, tokens, history
  <2>t. /\ page \in [Client -> UISession] /\ req \in [Client -> Request]
        /\ bare \in 0..UITTL /\ UITTL \in Nat \ {0} /\ issued \subseteq ROLES
    BY TimeAssumption DEF TypeOK
  <2>n. ASSUME UNCHANGED <<env, issued, bare>>, OutsidersHaveNothing => OutsidersHaveNothing'
        PROVE  NothingNarrower'
    BY <2>n DEF NothingNarrower
  <2>e. ASSUME UNCHANGED bare,
               \A c \in Client : page'[c] = page[c] \/ page'[c].rest = 0
        PROVE  NoEscalation'
    BY <2>e, <2>t DEF NoEscalation
  <2>1. ASSUME NEW r \in ROLES, Issue(r) \/ Revoke(r) PROVE NothingNarrower' /\ NoEscalation'
    <3>1. /\ UNCHANGED <<env, page, csrf, req>> /\ issued' = {}
          /\ bare' = IF issued # {} /\ env.pinned = {} THEN UITTL ELSE bare
      BY <2>1 DEF Issue, Revoke, Truncate
    <3>2. NothingNarrower'
      BY <3>1 DEF NothingNarrower, OutsidersHaveNothing
    <3>3. \A c \in Client : page[c].rest <= UITTL
      BY <2>t DEF UISession
    <3> QED BY <3>1, <3>2, <3>3, <2>t DEF NoEscalation
  <2>1a. ASSUME Written \/ ConsoleDies PROVE NothingNarrower' /\ NoEscalation'
    <3>1. UNCHANGED <<env, page, csrf, req, bare>>
      BY <2>1a DEF Written, ConsoleDies
    <3>2. NoEscalation'
      BY <3>1 DEF NoEscalation
    <3>3. CASE issued' = issued
      BY <3>1, <3>2, <3>3 DEF NothingNarrower, OutsidersHaveNothing
    <3>4. CASE issued' # issued
      <4>1. PICK roles \in saving : issued' = roles
        BY <2>1a, <3>4 DEF Written, ConsoleDies
      <4>2. issued = {}
        BY <4>1 DEF Emptied
      <4> QED BY <3>1, <3>2, <4>2 DEF NothingNarrower, OutsidersHaveNothing
    <3> QED BY <3>3, <3>4
  <2>2. ASSUME NEW c \in Client, NEW cred \in ROLES \union {"web"}, Unlock(c, cred)
        PROVE NothingNarrower' /\ NoEscalation'
    <3>1. PICK r \in GrantedRole(cred) :
             page' = [page EXCEPT ![c] = [role |-> r, rest |-> UITTL, via |-> cred]]
      BY <2>2 DEF Unlock
    <3>2. c \notin Loopback /\ UNCHANGED <<env, issued, csrf, req, bare>>
      BY <2>2 DEF Unlock, Unlocked
    <3>3. /\ \A d \in Client : d # c => page'[d] = page[d]
          /\ page'[c] = [role |-> r, rest |-> UITTL, via |-> cred]
      BY <3>1, <2>t
    <3>4. CASE cred = "web"
      <4>1. IssuedRoles = {} /\ c \in ToldWeb \union csrf
        BY <2>2, <3>1, <3>4 DEF Unlock, MayPresent, GrantedRole
      <4>2. bare = UITTL \/ (bare = 0 /\ OutsidersHaveNothing /\ c \in ToldWeb)
        BY <3>2, <4>1 DEF NothingNarrower, OutsidersHaveNothing, Outsiders
      <4>3. NothingNarrower'
        BY <3>2, <3>3, <4>2, <2>n DEF OutsidersHaveNothing, Outsiders, NothingNarrower
      <4>4. NoEscalation'
        BY <3>2, <3>3, <4>2, <2>t DEF NoEscalation
      <4> QED BY <4>3, <4>4
    <3>5. CASE cred # "web"
      <4>1. r = cred /\ IssuedRoles # {} /\ cred \in Told[c]
        BY <2>2, <3>1, <3>5 DEF Unlock, MayPresent, GrantedRole, Verify
      <4>2. NothingNarrower'
        BY <3>2, <4>1 DEF NothingNarrower
      <4>3. NoEscalation'
        BY <3>2, <3>3, <4>1 DEF NoEscalation
      <4> QED BY <4>2, <4>3
    <3> QED BY <3>4, <3>5
  <2>3. ASSUME NEW c \in Client, LockSession(c) PROVE NothingNarrower' /\ NoEscalation'
    <3>1. \A d \in Client : req'[d].at = req[d].at /\ req'[d].route = req[d].route
      BY <2>3, <2>t DEF LockSession, Dropped
    <3>2. \A d \in Client : page'[d] = page[d] \/ page'[d].rest = 0
      BY <2>3, <2>t DEF LockSession, NoPage
    <3>3. UNCHANGED <<env, issued, bare, csrf>>
      BY <2>3 DEF LockSession
    <3>4. OutsidersHaveNothing => OutsidersHaveNothing'
      BY <3>1, <3>2, <3>3 DEF OutsidersHaveNothing, Outsiders
    <3> QED BY <3>2, <3>3, <3>4, <2>n, <2>e
  <2>4. ASSUME NEW c \in Client, LoadPage(c) PROVE NothingNarrower' /\ NoEscalation'
    <3>1. PICK p \in DOMAIN Pages : \A d \in Pages[p] : DepHolds(d, c)
      BY <2>4 DEF LoadPage
    <3>2. "ui" \in Pages[p]
      BY <3>1 DEF Pages
    <3>3. c \in Loopback \/ page[c].rest > 0
      BY <3>1, <3>2 DEF DepHolds, Unlocked
    <3>4. UNCHANGED <<env, issued, bare, page, req>> /\ csrf' = csrf \union {c}
      BY <2>4, <2>t DEF LoadPage, LoadedSession
    <3>5. OutsidersHaveNothing => OutsidersHaveNothing'
      BY <3>3, <3>4 DEF OutsidersHaveNothing, Outsiders
    <3> QED BY <3>4, <3>5, <2>n, <2>e
  <2>5. ASSUME NEW c \in Client, RunOnLoop(c) PROVE NothingNarrower' /\ NoEscalation'
    <3>1. \A d \in Client : req'[d] = req[d] \/ req'[d].at = "idle"
      BY <2>5, <2>t DEF RunOnLoop, IdleRequest
    <3>2. csrf' = csrf \/ (csrf' = {c} /\ req[c].at # "idle" /\ req[c].route = "rotate_token")
      BY <2>5 DEF RunOnLoop
    <3>3. UNCHANGED <<env, issued, bare, page>>
      BY <2>5 DEF RunOnLoop
    <3>4. OutsidersHaveNothing => OutsidersHaveNothing'
      BY <3>1, <3>2, <3>3 DEF OutsidersHaveNothing, Outsiders
    <3> QED BY <3>3, <3>4, <2>n, <2>e
  <2>6. ASSUME NEW c \in Client, NEW r \in Route, Admit(c, r)
        PROVE  NothingNarrower' /\ NoEscalation'
    <3>1. r = "rotate_token" => c \in csrf
      BY <2>6, RotateNeedsToken DEF Admit, DepHolds
    <3>2. /\ UNCHANGED <<env, issued, bare, page, csrf>>
          /\ \A d \in Client : req'[d] = req[d] \/ (d = c /\ req'[d].route = r)
      BY <2>6, <2>t DEF Admit
    <3>3. OutsidersHaveNothing => OutsidersHaveNothing'
      BY <3>1, <3>2 DEF OutsidersHaveNothing, Outsiders
    <3> QED BY <3>2, <3>3, <2>n, <2>e
  <2>7. ASSUME NEW c \in Client, RestrictedConfirm(c) \/ Refuse(c) \/ Acquire(c) \/ Finish(c)
        PROVE NothingNarrower' /\ NoEscalation'
    <3>1. /\ UNCHANGED <<env, issued, bare, page, csrf>>
          /\ \A d \in Client : \/ req'[d].at = "idle"
                               \/ req'[d].route = req[d].route /\ req[d].at # "idle"
                               \/ req'[d] = req[d]
      BY <2>7, <2>t DEF RestrictedConfirm, Refuse, Acquire, Finish, IdleRequest, Request
    <3>2. OutsidersHaveNothing => OutsidersHaveNothing'
      BY <3>1 DEF OutsidersHaveNothing, Outsiders
    <3> QED BY <3>1, <3>2, <2>n, <2>e
  <2>8. CASE Restart
    <3>1. /\ UNCHANGED <<env, issued, bare>> /\ csrf' = {}
          /\ \A d \in Client : page'[d].rest = 0 /\ req'[d].at = "idle"
      BY <2>8 DEF Restart, NoPage, IdleRequest
    <3>2. OutsidersHaveNothing'
      BY <3>1 DEF OutsidersHaveNothing, Outsiders
    <3> QED BY <3>1, <3>2, <2>n, <2>e
  <2>9. CASE Tick
    <3>1. /\ UNCHANGED <<env, issued, csrf>>
          /\ bare' = IF IssuedRoles = {} THEN bare ELSE Aged(bare)
          /\ \A d \in Client : page'[d] = OlderPage(page[d])
          /\ \A d \in Client : req'[d].at = req[d].at /\ req'[d].route = req[d].route
      BY <2>9 DEF Tick, Older
    <3>2. \A d \in Client : /\ page'[d].rest \in Nat /\ page'[d].rest <= page[d].rest
                            /\ page'[d].role = page[d].role \/ page'[d].rest = 0
      <4> SUFFICES ASSUME NEW d \in Client
                   PROVE  /\ OlderPage(page[d]).rest \in Nat
                          /\ OlderPage(page[d]).rest <= page[d].rest
                          /\ \/ OlderPage(page[d]).role = page[d].role
                             \/ OlderPage(page[d]).rest = 0
        BY <3>1
      <4>1. page[d].rest \in Nat
        BY <2>t DEF UISession
      <4> QED BY <4>1 DEF OlderPage, NoPage
    <3>3. NothingNarrower'
      <4>1. \A d \in Client : page[d].rest = 0 => page'[d].rest = 0
        BY <2>t, <3>2 DEF UISession
      <4>2. OutsidersHaveNothing => OutsidersHaveNothing'
        BY <3>1, <4>1 DEF OutsidersHaveNothing, Outsiders
      <4> QED BY <3>1, <4>2 DEF NothingNarrower
    <3>4. ASSUME NEW c \in Client \ ToldWeb, page'[c].role = "store", "store" \notin Told[c]
          PROVE  page'[c].rest <= bare'
      <4>1. page[c] \in UISession /\ bare \in Nat
        BY <2>t
      <4>2. CASE page'[c].rest = 0
        <5>1. bare' \in Nat
          BY <3>1, <4>1 DEF Aged
        <5> QED BY <4>2, <5>1
      <4>3. CASE page'[c].rest # 0
        <5>1. page[c].rest <= bare
          BY <3>2, <3>4, <4>3 DEF NoEscalation
        <5>2. page'[c].rest <= Aged(bare)
          BY <3>1, <4>1, <5>1, AgingTogether
        <5>3. page'[c].rest <= bare
          BY <3>2, <4>1, <5>1 DEF UISession
        <5> QED BY <3>1, <5>2, <5>3
      <4> QED BY <4>2, <4>3
    <3> QED BY <3>3, <3>4 DEF NoEscalation
  <2>10. CASE UNCHANGED vars
    BY <2>10, <2>n, <2>e DEF vars, OutsidersHaveNothing
  <2> QED BY <2>1, <2>1a, <2>2, <2>3, <2>4, <2>5, <2>6, <2>7, <2>8, <2>9, <2>10 DEF Next
<1> QED BY <1>1, <1>2, TypeCorrect, EmptiedHolds, PTL DEF Spec

-----------------------------------------------------------------------------
(* What a waiting request whose sessions were locked still carries. *)
LeftWithNothing ==
    \A c \in Client : req[c].at = "admitted" /\ req[c].left => ~req[c].page /\ ~req[c].conf

(* A request whose client locked the session it was sent with, while it    *)
(* waited for the device, is refused if its body tests a session under the *)
(* lock.  The bodies that test none (a store, a retrieval, destroy_face)   *)
(* run although the client has left: nothing is said of them.              *)
THEOREM NotAfterLeavingHolds == Spec => []NotAfterLeaving
<1>1. Init => LeftWithNothing /\ NotAfterLeaving
  BY DEF Init, LeftWithNothing, NotAfterLeaving, IdleRequest
<1>2. TypeOK /\ LeftWithNothing /\ NotAfterLeaving /\ [Next]_vars
        => (LeftWithNothing /\ NotAfterLeaving)'
  <2> SUFFICES ASSUME TypeOK, LeftWithNothing, NotAfterLeaving, [Next]_vars
               PROVE  LeftWithNothing' /\ NotAfterLeaving'
    OBVIOUS
  <2> USE DEF LeftWithNothing, NotAfterLeaving, tokens, sessions, history
  <2>1. ASSUME NEW c \in Client, LockSession(c) PROVE LeftWithNothing' /\ NotAfterLeaving'
    <3>1. \A d \in Client : req'[d].at = req[d].at /\ req'[d].route = req[d].route
      BY <2>1 DEF LockSession, Dropped, TypeOK, Request
    <3>2. \A d \in Client : req[d].at = "holding" => req'[d].left = req[d].left
      BY <2>1 DEF LockSession, Dropped, TypeOK, Request
    <3>3. \A d \in Client : req'[d].at = "admitted" /\ req'[d].left
                               => ~req'[d].page /\ ~req'[d].conf
      BY <2>1 DEF LockSession, Dropped, TypeOK, Request
    <3> QED BY <3>1, <3>2, <3>3
  <2>2. ASSUME NEW c \in Client, NEW r \in Route, Admit(c, r)
        PROVE  LeftWithNothing' /\ NotAfterLeaving'
    BY <2>2 DEF Admit, TypeOK
  <2>3. ASSUME NEW c \in Client, Acquire(c) PROVE LeftWithNothing' /\ NotAfterLeaving'
    BY <2>3 DEF Acquire, BodyAllows, TypeOK, Request
  <2>4. ASSUME NEW c \in Client, Refuse(c) \/ Finish(c) \/ RunOnLoop(c)
        PROVE  LeftWithNothing' /\ NotAfterLeaving'
    BY <2>4 DEF Refuse, Finish, RunOnLoop, IdleRequest, TypeOK
  <2>5. ASSUME NEW c \in Client, NEW cred \in ROLES \union {"web"},
               Unlock(c, cred) \/ LoadPage(c) \/ RestrictedConfirm(c)
        PROVE  LeftWithNothing' /\ NotAfterLeaving'
    BY <2>5 DEF Unlock, LoadPage, RestrictedConfirm
  <2>6. ASSUME NEW r \in ROLES, Issue(r) \/ Revoke(r) \/ Written \/ ConsoleDies
        PROVE LeftWithNothing' /\ NotAfterLeaving'
    BY <2>6 DEF Issue, Revoke, Truncate, Written, ConsoleDies
  <2>7. CASE Restart
    BY <2>7 DEF Restart, IdleRequest
  <2>8. CASE Tick
    BY <2>8 DEF Tick, Older
  <2>9. CASE UNCHANGED vars
    BY <2>9 DEF vars
  <2> QED BY <2>1, <2>2, <2>3, <2>4, <2>5, <2>6, <2>7, <2>8, <2>9 DEF Next, ROLES
<1> QED BY <1>1, <1>2, TypeCorrect, PTL DEF Spec

(* Two bodies never use the device at once, and the lock is held only      *)
(* while its holder's body runs (_locked).                                 *)
THEOREM DeviceExclusiveHolds == Spec => []DeviceExclusive
<1>1. Init => DeviceExclusive
  BY ClientAssumption DEF Init, DeviceExclusive, IdleRequest
<1>2. TypeOK /\ DeviceExclusive /\ [Next]_vars => DeviceExclusive'
  <2> SUFFICES ASSUME TypeOK, DeviceExclusive, [Next]_vars PROVE DeviceExclusive'
    OBVIOUS
  <2> USE ClientAssumption DEF DeviceExclusive, tokens, sessions, history
  <2>1. ASSUME NEW c \in Client, LockSession(c) PROVE DeviceExclusive'
    BY <2>1 DEF LockSession, Dropped, TypeOK, Request
  <2>2. ASSUME NEW c \in Client, NEW r \in Route, Admit(c, r) PROVE DeviceExclusive'
    BY <2>2 DEF Admit, TypeOK
  <2>3. ASSUME NEW c \in Client, Acquire(c) PROVE DeviceExclusive'
    BY <2>3 DEF Acquire, TypeOK, Request
  <2>4. ASSUME NEW c \in Client, Refuse(c) \/ Finish(c) \/ RunOnLoop(c)
        PROVE  DeviceExclusive'
    BY <2>4 DEF Refuse, Finish, Release, RunOnLoop, IdleRequest, TypeOK
  <2>5. ASSUME NEW c \in Client, NEW cred \in ROLES \union {"web"},
               Unlock(c, cred) \/ LoadPage(c) \/ RestrictedConfirm(c)
        PROVE  DeviceExclusive'
    BY <2>5 DEF Unlock, LoadPage, RestrictedConfirm
  <2>6. ASSUME NEW r \in ROLES, Issue(r) \/ Revoke(r) \/ Written \/ ConsoleDies
        PROVE  DeviceExclusive'
    BY <2>6 DEF Issue, Revoke, Truncate, Written, ConsoleDies
  <2>7. CASE Restart
    BY <2>7 DEF Restart, IdleRequest
  <2>8. CASE Tick
    BY <2>8 DEF Tick, Older
  <2>9. CASE UNCHANGED vars
    BY <2>9 DEF vars
  <2> QED BY <2>1, <2>2, <2>3, <2>4, <2>5, <2>6, <2>7, <2>8, <2>9 DEF Next, ROLES
<1> QED BY <1>1, <1>2, TypeCorrect, PTL DEF Spec
-----------------------------------------------------------------------------
(* The sessions a role token opened are over one session lifetime after    *)
(* its revocation, however often they are used and the server restarts.    *)
THEOREM RevokedExpiresHolds == Spec => []RevokedExpires
<1>1. Init => RevokedExpires
  BY DEF Init, RevokedExpires, NoPage, ROLES
<1>2. TypeOK /\ Emptied /\ RevokedExpires /\ [Next]_vars => RevokedExpires'
  <2> SUFFICES ASSUME TypeOK, Emptied, RevokedExpires, [Next]_vars PROVE RevokedExpires'
    OBVIOUS
  <2> USE DEF RevokedExpires, IssuedRoles, tokens, sessions, history
  <2>p. /\ page \in [Client -> UISession] /\ revoked \in [ROLES -> 0..UITTL]
        /\ NoPage.via \notin ROLES
    BY DEF TypeOK, NoPage, ROLES
  <2>1. ASSUME NEW r \in ROLES, Issue(r) \/ Revoke(r) PROVE RevokedExpires'
    <3>1. \A c \in Client : page[c].rest <= UITTL
      BY <2>p, TimeAssumption DEF UISession
    <3>2. /\ UNCHANGED <<env, page>> /\ issued' = {}
          /\ \A q \in ROLES : revoked'[q] = IF q \in issued THEN UITTL ELSE revoked[q]
      BY <2>1 DEF Issue, Revoke, Truncate
    <3> QED BY <3>1, <3>2
  <2>2. ASSUME Written \/ ConsoleDies PROVE RevokedExpires'
    <3>1. UNCHANGED <<env, page, revoked>>
      BY <2>2 DEF Written, ConsoleDies
    <3>2. issued \subseteq issued'
      BY <2>2 DEF Written, ConsoleDies, Emptied
    <3> QED BY <3>1, <3>2
  <2>3. ASSUME NEW c \in Client, NEW cred \in ROLES \union {"web"}, Unlock(c, cred)
        PROVE  RevokedExpires'
    <3>1. PICK r \in GrantedRole(cred) :
             page' = [page EXCEPT ![c] = [role |-> r, rest |-> UITTL, via |-> cred]]
      BY <2>3 DEF Unlock
    <3>2. page'[c].via = cred /\ \A d \in Client \ {c} : page'[d] = page[d]
      BY <2>p, <3>1
    <3>3. cred \in ROLES => cred \in IssuedRoles
      BY <3>1 DEF GrantedRole, Verify, ROLES
    <3> QED BY <2>3, <3>2, <3>3 DEF Unlock
  <2>4. ASSUME NEW c \in Client, LockSession(c) PROVE RevokedExpires'
    <3>1. page'[c] = NoPage /\ \A d \in Client \ {c} : page'[d] = page[d]
      BY <2>4, <2>p DEF LockSession
    <3> QED BY <2>4, <2>p, <3>1 DEF LockSession
  <2>5. ASSUME NEW c \in Client, LoadPage(c) PROVE RevokedExpires'
    <3>1. page' = page
      BY <2>5, <2>p DEF LoadPage, LoadedSession
    <3> QED BY <2>5, <3>1 DEF LoadPage
  <2>6. ASSUME NEW c \in Client, NEW r \in Route, Admit(c, r) PROVE RevokedExpires'
    BY <2>6 DEF Admit
  <2>7. ASSUME NEW c \in Client,
               RestrictedConfirm(c) \/ Refuse(c) \/ Acquire(c) \/ Finish(c) \/ RunOnLoop(c)
        PROVE  RevokedExpires'
    BY <2>7 DEF RestrictedConfirm, Refuse, Acquire, Finish, RunOnLoop
  <2>8. CASE Restart
    BY <2>8, <2>p DEF Restart
  <2>9. CASE Tick
    <3> SUFFICES ASSUME NEW c \in Client, NEW r \in ROLES \ IssuedRoles', page'[c].via = r
                 PROVE  page'[c].rest <= revoked'[r]
      OBVIOUS
    <3>1. page'[c] = OlderPage(page[c]) /\ revoked'[r] = Aged(revoked[r])
      BY <2>9 DEF Tick
    <3>2. page'[c] = NoPage \/ page'[c].via = page[c].via
      BY <3>1 DEF OlderPage
    <3>3. page[c].via = r /\ r \in ROLES \ IssuedRoles
      BY <2>9, <2>p, <3>2 DEF Tick
    <3>4. page[c].rest <= revoked[r] /\ revoked[r] \in Nat /\ page[c] \in UISession
      BY <2>p, <3>3, TimeAssumption
    <3> QED BY <3>1, <3>4, AgingTogether
  <2>10. CASE UNCHANGED vars
    BY <2>10 DEF vars
  <2> QED BY <2>1, <2>2, <2>3, <2>4, <2>5, <2>6, <2>7, <2>8, <2>9, <2>10 DEF Next
<1> QED BY <1>1, <1>2, TypeCorrect, EmptiedHolds, PTL DEF Spec

-----------------------------------------------------------------------------
(* The console. While it is sealed, every server that lives is beyond its  *)
(* reach or the one it is stopping (SealInv). And unless something         *)
(* disturbed it, at most one server lives, which it knows and whose token  *)
(* is the published one until its own end (TokenInv).                      *)

(* What the console believes is a server or nothing. *)
LEMMA ListenerType == Listener \in Server \union {None}
BY DEF Listener, PortIsOpen

LEMMA BeliefTypes ==
    ASSUME ConsoleTypeOK
    PROVE  /\ Known \in Server \union {None} /\ Chosen \in Server \union {None}
           /\ ProbedPid \in Server \union {None}
           /\ IsRunning \in BOOLEAN
BY ListenerType DEF ConsoleTypeOK, Known, Chosen, ProbedPid, IsRunning, Alive, KnownUp

LEMMA SignalTypes ==
    ASSUME ConsoleTypeOK, NEW s \in Server \union {None}
    PROVE  /\ s # None => Terminated(s) \in [Server -> Status]
           /\ Killed(s) \in [Server -> Status]
BY DEF ConsoleTypeOK, Terminated, Killed, Status, Alive

LEMMA BecomesType ==
    ASSUME ConsoleTypeOK, NEW s \in Server, NEW how \in Status, Becomes(s, how)
    PROVE  srv' \in [Server -> Status]
BY DEF ConsoleTypeOK, Becomes

(* Both threads, the servers and whoever is at the keys keep every type. *)
THEOREM ConsoleTypeCorrect == ConsoleSpec => []ConsoleTypeOK
<1>1. ConsoleInit => ConsoleTypeOK
  <2> SUFFICES ASSUME ConsoleInit PROVE ConsoleTypeOK
    OBVIOUS
  <2>1. 0 \in 0..MaxKeys /\ 0 \in 0..MaxLaunches
    BY BoundAssumption
  <2>2. srv \in [Server -> Status]
    BY DEF ConsoleInit, Status
  <2> QED BY <2>1, <2>2 DEF ConsoleInit, ConsoleTypeOK, Thread
<1>2. ConsoleTypeOK /\ [ConsoleNext]_consoleVars => ConsoleTypeOK'
  <2> SUFFICES ASSUME ConsoleTypeOK, [ConsoleNext]_consoleVars PROVE ConsoleTypeOK'
    OBVIOUS
  <2>0. /\ Known \in Server \union {None} /\ Chosen \in Server \union {None}
        /\ ProbedPid \in Server \union {None} /\ Listener \in Server \union {None}
        /\ IsRunning \in BOOLEAN
    BY ListenerType, BeliefTypes
  <2> USE DEF ConsoleTypeOK, service, control, counts, Go, Thread
  <2>1. ASSUME NEW t \in Thread, Kill(t) PROVE ConsoleTypeOK'
    BY <2>1, SignalTypes DEF Kill
  <2>2. ASSUME NEW t \in Thread, EndStop(t) PROVE ConsoleTypeOK'
    BY <2>2 DEF EndStop
  <2>3. ASSUME NEW t \in Thread, BeginStop(t) PROVE srv' \in [Server -> Status]
    BY <2>0, <2>3, SignalTypes DEF BeginStop
  <2>4. ASSUME Expire \/ HandleTimeout \/ OnTimeout PROVE ConsoleTypeOK'
    BY <2>0, <2>4 DEF Expire, HandleTimeout, OnTimeout, Starting
  <2>5. ASSUME TimeoutStops PROVE ConsoleTypeOK'
    BY <2>0, <2>5, <2>3 DEF TimeoutStops, BeginStop
  <2>6. ASSUME OnKey \/ Refresh \/ AskRetract \/ Decline PROVE ConsoleTypeOK'
    <3> HIDE DEF Go
    <3>1. CASE OnKey
      BY <2>0, <3>1, BoundAssumption DEF OnKey, Listens
    <3>2. CASE Refresh \/ AskRetract \/ Decline
      BY <2>0, <3>2 DEF Refresh, AskRetract, Decline, Go
    <3> QED BY <2>6, <3>1, <3>2
  <2>7. ASSUME Retract PROVE ConsoleTypeOK'
    BY <2>0, <2>7, <2>3 DEF Retract, BeginStop
  <2>8. ASSUME ExposeFound PROVE ConsoleTypeOK'
    BY <2>0, <2>8 DEF ExposeFound
  <2>9. ASSUME NEW s \in Server, Expose(s) PROVE ConsoleTypeOK'
    BY <2>9 DEF Expose, Status
  <2>10. ASSUME StartedUp \/ StartFails PROVE ConsoleTypeOK'
    BY <2>10 DEF StartedUp, StartFails
  <2>11. ASSUME StartTimesOut PROVE ConsoleTypeOK'
    BY <2>11, SignalTypes DEF StartTimesOut, Alive
  <2>12. ASSUME CleanUp PROVE ConsoleTypeOK'
    BY <2>12, SignalTypes DEF CleanUp
  <2>13. ASSUME TriggerStandby \/ StandbyAsks \/ StandbyStops PROVE ConsoleTypeOK'
    <3>1. CASE TriggerStandby
      BY <3>1 DEF TriggerStandby
    <3>2. CASE StandbyAsks
      BY <2>0, <3>2 DEF StandbyAsks
    <3>3. CASE StandbyStops
      BY <2>0, <3>3, <2>3 DEF StandbyStops, BeginStop
    <3> QED BY <2>13, <3>1, <3>2, <3>3
  <2>14. ASSUME Recover \/ Launch \/ Quit PROVE ConsoleTypeOK'
    <3>1. CASE Recover
      BY <3>1 DEF Recover
    <3>2. CASE Launch
      BY <3>2, BoundAssumption DEF Launch
    <3>3. CASE Quit
      BY <3>3 DEF Quit, Starting, Stopping
    <3> QED BY <2>14, <3>1, <3>2, <3>3
  <2>15. ASSUME NEW s \in Server,
                HandStart(s) \/ Publish(s) \/ Bind(s) \/ Close(s) \/ Shutdown(s) \/ Crash(s)
         PROVE  ConsoleTypeOK'
    <3>1. srv' \in [Server -> Status]
      BY <2>15, BecomesType DEF HandStart, Publish, Bind, Close, Shutdown, Crash, Status
    <3> QED BY <2>15, <3>1 DEF HandStart, Publish, Bind, Close, Shutdown, Crash
  <2>16. CASE UNCHANGED consoleVars
    BY <2>16 DEF consoleVars
  <2> QED BY <2>1, <2>2, <2>4, <2>5, <2>6, <2>7, <2>8, <2>9, <2>10, <2>11, <2>12, <2>13, <2>14,
             <2>15, <2>16 DEF ConsoleNext, TimerThread, Console, Waits
<1> QED BY <1>1, <1>2, PTL DEF ConsoleSpec

-----------------------------------------------------------------------------
(* While the console is sealed, its thread only ends a stop or asks, and   *)
(* once standby has decided what to go for, every server that lives is     *)
(* none of that, or the one it is stopping.                                *)
SealInv == sealed =>
    /\ at["ui"] \in {"idle", "confirm", "stopping", "killed", "sealing", "retracting"}
    /\ at["ui"] \notin {"sealing", "retracting"} =>
          \A s \in Server : Alive(s) => s \in beyond \/ (at["ui"] = "stopping" /\ s = target["ui"])

(* No signal brings a process to life. *)
LEMMA SignalsEnd ==
    ASSUME ConsoleTypeOK, NEW r \in Server \union {None}, NEW s \in Server
    PROVE  /\ r # None /\ srv' = Terminated(r) /\ Alive(s)' => Alive(s)
           /\ srv' = Killed(r) /\ Alive(s)' => Alive(s) /\ s # r
BY DEF ConsoleTypeOK, Terminated, Killed, Alive, Server, None

(* On the standby screen no server serves that standby went for: neither   *)
(* keys nor timer bring one up, and what stop() takes is gone after it.    *)
THEOREM SealedServesNothingHolds == ConsoleSpec => []SealedServesNothing
<1>1. ConsoleInit => SealInv
  BY DEF ConsoleInit, SealInv
<1>2. ConsoleTypeOK /\ SealInv /\ [ConsoleNext]_consoleVars => SealInv'
  <2> SUFFICES ASSUME ConsoleTypeOK, SealInv, [ConsoleNext]_consoleVars, sealed'
               PROVE  SealInv'
    BY DEF SealInv
  <2> USE DEF ConsoleTypeOK, SealInv, service, control, counts, Go, Thread
  <2>0. None \notin Server
    BY DEF None, Server
  <2>1. ASSUME UNCHANGED <<sealed, beyond, at, target>>,
               \A s \in Server : Alive(s)' => Alive(s)
        PROVE  SealInv'
    BY <2>1
  <2>2. Chosen \in Server \union {None}
    BY BeliefTypes
  <2>3. ASSUME Kill("timer") PROVE SealInv'
    BY <2>3, SignalsEnd DEF Kill
  <2>4. ASSUME Kill("ui") PROVE SealInv'
    BY <2>4, SignalsEnd DEF Kill
  <2>5. ASSUME EndStop("timer") PROVE SealInv'
    BY <2>5 DEF EndStop, Alive
  <2>6. ASSUME EndStop("ui") PROVE SealInv'
    BY <2>6, <2>0 DEF EndStop, Gone, Stopping, Alive
  <2>7. ASSUME NEW t \in Thread, BeginStop(t), NEW s \in Server, Alive(s)' PROVE Alive(s)
    <3>1. CASE Chosen = None
      BY <2>7, <3>1 DEF BeginStop, Alive
    <3>2. CASE Chosen # None
      BY <2>2, <2>7, <3>2, SignalsEnd DEF BeginStop
    <3> QED BY <3>1, <3>2
  <2>8. ASSUME Expire \/ HandleTimeout \/ OnTimeout PROVE SealInv'
    BY <2>8 DEF Expire, HandleTimeout, OnTimeout, Alive
  <2>9. ASSUME TimeoutStops PROVE SealInv'
    <3>1. \A s \in Server : Alive(s)' => Alive(s)
      BY <2>9, <2>7 DEF TimeoutStops
    <3> QED BY <2>9, <3>1 DEF TimeoutStops, BeginStop
  <2>10. ASSUME OnKey \/ Refresh \/ AskRetract \/ Decline PROVE SealInv'
    BY <2>10 DEF OnKey, Refresh, AskRetract, Decline, Alive
  <2>11. ASSUME Retract PROVE SealInv'
    <3>1. \A s \in Server : Alive(s)' => Alive(s)
      BY <2>11, <2>7 DEF Retract
    <3> QED BY <2>11, <3>1 DEF Retract, BeginStop
  <2>12. ASSUME ExposeFound \/ StartedUp \/ StartFails \/ StartTimesOut \/ CleanUp
                \/ (\E s \in Server : Expose(s)) \/ Recover \/ Launch \/ Quit
         PROVE  FALSE
    BY <2>12 DEF ExposeFound, StartedUp, StartFails, StartTimesOut, CleanUp, Expose, Recover,
                 Launch, Quit, MayExpose
  <2>13. ASSUME TriggerStandby \/ StandbyAsks PROVE SealInv'
    <3>1. CASE TriggerStandby
      BY <3>1 DEF TriggerStandby
    <3>2. CASE StandbyAsks
      BY <3>2 DEF StandbyAsks, Alive
    <3> QED BY <2>13, <3>1, <3>2
  <2>17. ASSUME StandbyStops PROVE SealInv'
    <3>1. \A s \in Server : Alive(s)' => Alive(s)
      BY <2>17, <2>7 DEF StandbyStops
    <3>2. Chosen = Sought
      BY DEF Chosen, Sought, Known
    <3>3. \A s \in Server : Alive(s) => s \in beyond' \/ s = target'["ui"]
      BY <2>17, <3>2 DEF StandbyStops, BeginStop
    <3> QED BY <2>17, <3>1, <3>3 DEF StandbyStops, BeginStop
  <2>14. ASSUME NEW s \in Server, HandStart(s) PROVE SealInv'
    BY <2>14 DEF HandStart, Becomes, Alive
  <2>15. ASSUME NEW s \in Server, Publish(s) \/ Bind(s) \/ Close(s) \/ Shutdown(s) \/ Crash(s)
         PROVE  SealInv'
    BY <2>15, <2>1, <2>0 DEF Publish, Bind, Close, Shutdown, Crash, Becomes, Alive
  <2>16. CASE UNCHANGED consoleVars
    BY <2>16, <2>1 DEF consoleVars, Alive
  <2> QED BY <2>3, <2>4, <2>5, <2>6, <2>8, <2>9, <2>10, <2>11, <2>12, <2>13, <2>14, <2>15, <2>16,
             <2>17 DEF ConsoleNext, TimerThread, Console, Waits
<1>3. ConsoleTypeOK /\ SealInv => SealedServesNothing
  BY DEF SealInv, SealedServesNothing, ConsoleTypeOK, Serving, Alive, Server, None
<1> QED BY <1>1, <1>2, <1>3, ConsoleTypeCorrect, PTL DEF ConsoleSpec

-----------------------------------------------------------------------------
(* Undisturbed, one server lives at a time, and somebody answers for it in *)
(* each of its states: the console's start until it is up, the pid file    *)
(* and the published token while it has its port, the stop that told it to *)
(* end until it is gone.                                                   *)
Up(s) == srv[s] \in {"booting", "published", "serving", "told"}
StoppedBy(t, s) == at[t] = "stopping" /\ target[t] = s

OneAlive == \A r, s \in Server : Alive(r) /\ Alive(s) => r = s
OnRecord == \A s \in Server : Up(s) => pidFile = s
Published == \A s \in Server : Up(s) /\ srv[s] # "booting" => token = s
ComingUp ==
    \A s \in Server : srv[s] \in {"booting", "published"} => at["ui"] = "starting" /\ process = s
GoingDown ==
    \A s \in Server : srv[s] \in {"told", "closing"} =>
        \/ \E t \in Thread : StoppedBy(t, s)
        \/ at["ui"] = "cleaning" /\ target["ui"] = s
StopsIt ==
    \A t \in Thread : /\ Stopping(t) => \A s \in Server : Up(s) => target[t] = s
                      /\ at[t] = "killed" => ~Alive(target[t])
StartsAlone ==
    /\ Starting => /\ at["timer"] \in {"off", "told"}
                   /\ \A s \in Server : Alive(s) => process = s
    /\ at["ui"] = "cleaning" => process = target["ui"] /\ process # None

Watched == /\ OneAlive /\ OnRecord /\ Published /\ ComingUp /\ GoingDown /\ StopsIt
           /\ StartsAlone
TokenInv == ~disturbed => Watched

(* What has its port or is about to is alive; nobody else is then.         *)
LEMMA LivesAlone ==
    ASSUME ConsoleTypeOK, Watched
    PROVE  /\ None \notin Server
           /\ \A s \in Server : Up(s) => Alive(s)
           /\ \A s \in Server : Alive(s) => Up(s) \/ srv[s] = "closing"
           /\ PortIsOpen => \E s \in Server : Serving(s) /\ Up(s)
BY DEF ConsoleTypeOK, Status, Up, Alive, Serving, PortIsOpen, None, Server

(* The pid of a server that is up is kept, and it is the one a stop takes. *)
LEMMA KnownStays ==
    ASSUME ConsoleTypeOK, Watched, NEW s \in Server, Up(s)
    PROVE  Chosen = s /\ ProbedPid = s /\ (Serving(s) => IsRunning)
<1>1. Alive(s) /\ None \notin Server /\ pidFile = s
  BY LivesAlone DEF Watched, OnRecord
<1>2. Alive(process) => process = s
  BY <1>1 DEF Watched, OneAlive, ConsoleTypeOK, Alive
<1>3. Known = s
  BY <1>1 DEF Known
<1>4. ~Serving(s) => Alive(process)
  BY <1>1 DEF Up, Serving, Watched, ComingUp
<1>5. Serving(s) => PortIsOpen
  BY DEF PortIsOpen
<1> QED BY <1>1, <1>2, <1>3, <1>4, <1>5 DEF Chosen, ProbedPid, IsRunning, KnownUp

(* A stop that begins outside a start takes the one server there is.       *)
LEMMA StopBegins ==
    ASSUME ConsoleTypeOK, Watched, NEW t \in Thread, BeginStop(t), ~Starting,
           ~Stopping(t), pidFile' \in {pidFile, ProbedPid},
           UNCHANGED <<token, process>>
    PROVE  Watched'
<1> USE DEF ConsoleTypeOK, Thread
<1>0. /\ None \notin Server /\ Chosen \in Server \union {None}
      /\ at' = [at EXCEPT ![t] = "stopping"] /\ target' = [target EXCEPT ![t] = Chosen]
  BY LivesAlone, BeliefTypes DEF BeginStop, Go
<1>1. \A s \in Server : srv[s] \notin {"booting", "published"}
  BY DEF Watched, ComingUp, Starting
<1>2. \A s \in Server : srv'[s] = IF s = Chosen /\ srv[s] = "serving" THEN "told" ELSE srv[s]
  BY <1>0, <1>1 DEF BeginStop, Terminated
<1>3. \A s \in Server : /\ Up(s)' = Up(s) /\ Alive(s)' = Alive(s)
                        /\ Up(s) => Chosen = s /\ ProbedPid = s
  BY <1>2, KnownStays DEF Up, Alive
<1>4. OneAlive' /\ OnRecord' /\ Published' /\ ComingUp'
  BY <1>1, <1>2, <1>3 DEF Watched, OneAlive, OnRecord, Published, ComingUp, Up
<1>5. GoingDown'
  BY <1>0, <1>2 DEF Watched, GoingDown, StoppedBy, Starting, Stopping
<1>6. StopsIt'
  BY <1>0, <1>2, <1>3 DEF Watched, StopsIt, Stopping, Alive
<1>7. StartsAlone'
  BY <1>0 DEF Watched, StartsAlone, Starting
<1> QED BY <1>4, <1>5, <1>6, <1>7 DEF Watched

(* Noting a pid, and moving a thread between its places outside of starts  *)
(* and stops, disturbs nobody.                                             *)
LEMMA PidNoted ==
    ASSUME ConsoleTypeOK, Watched, pidFile' \in {pidFile, ProbedPid},
           UNCHANGED <<srv, token, process, target>>,
           NEW t \in Thread, NEW where, at' = [at EXCEPT ![t] = where],
           where = at[t] \/ (/\ where \notin {"stopping", "killed", "starting", "cleaning"}
                            /\ ~Stopping(t) /\ (Starting => t = "timer" /\ where = "off"))
    PROVE  Watched'
<1> USE DEF ConsoleTypeOK, Thread
<1>1. \A s \in Server : Up(s)' = Up(s) /\ Alive(s)' = Alive(s)
  BY DEF Up, Alive
<1>2. \A s \in Server : Up(s) => pidFile' = s
  BY KnownStays DEF Watched, OnRecord
<1>3. OneAlive' /\ OnRecord' /\ Published'
  BY <1>1, <1>2 DEF Watched, OneAlive, OnRecord, Published
<1>4. ComingUp' /\ GoingDown'
  BY DEF Watched, ComingUp, GoingDown, StoppedBy, Starting, Stopping
<1>5. StopsIt'
  BY <1>1 DEF Watched, StopsIt, Stopping, Alive
<1>6. StartsAlone'
  BY <1>1 DEF Watched, StartsAlone, Starting
<1> QED BY <1>3, <1>4, <1>5, <1>6 DEF Watched

(* A server that a signal or a crash ends answers to nobody any more.      *)
LEMMA ServerDies ==
    ASSUME ConsoleTypeOK, Watched, NEW s \in Server, srv' = [srv EXCEPT ![s] = "dead"],
           token' = token \/ (token' = None /\ srv[s] = "closing"),
           UNCHANGED <<pidFile, process, at, target>>
    PROVE  Watched'
<1> USE DEF ConsoleTypeOK
<1>1. \A r \in Server : /\ r # s => srv'[r] = srv[r] /\ Up(r)' = Up(r) /\ Alive(r)' = Alive(r)
                        /\ r = s => ~Up(r)' /\ ~Alive(r)'
  BY DEF Up, Alive
<1>2. srv[s] = "closing" => \A r \in Server : ~Up(r)
  BY LivesAlone DEF Watched, OneAlive, Up, Alive
<1>3. OneAlive' /\ OnRecord' /\ Published'
  BY <1>1, <1>2 DEF Watched, OneAlive, OnRecord, Published
<1>4. ComingUp' /\ GoingDown'
  BY <1>1 DEF Watched, ComingUp, GoingDown, StoppedBy
<1>5. StopsIt' /\ StartsAlone'
  BY <1>1, LivesAlone DEF Watched, StopsIt, StartsAlone, Stopping, Starting, Alive
<1> QED BY <1>3, <1>4, <1>5 DEF Watched

(* The token of the server that serves is the published one, as long as    *)
(* nothing was started by hand or beside a stop, and no start or stop was  *)
(* cut off: one server's end never takes another's token.                  *)
THEOREM TokenTellsHolds == ConsoleSpec => []TokenTells
<1>1. ConsoleInit => TokenInv
  BY DEF ConsoleInit, TokenInv, Watched, OneAlive, OnRecord, Published, ComingUp, GoingDown,
         StopsIt, StartsAlone, Up, Alive, Stopping, Starting, Thread
<1>2. ConsoleTypeOK /\ TokenInv /\ [ConsoleNext]_consoleVars => TokenInv'
  <2> SUFFICES ASSUME ConsoleTypeOK, ~disturbed => Watched, [ConsoleNext]_consoleVars, ~disturbed'
               PROVE  Watched'
    BY DEF TokenInv
  <2> USE DEF ConsoleTypeOK, service, control, counts, Go, Thread
  <2>0. ~disturbed => Watched /\ None \notin Server
    BY LivesAlone
  <2>1. ASSUME NEW t \in Thread, Kill(t) PROVE Watched'
    <3>1. Watched /\ None \notin Server /\ target[t] \in Server
      BY <2>0, <2>1 DEF Kill
    <3>2. ~Alive(target[t])'
      BY <2>1, <3>1 DEF Kill, Killed, Alive
    <3>3. \A s \in Server : /\ s # target[t] => srv'[s] = srv[s]
                            /\ s = target[t] => ~Up(s)' /\ srv'[s] # "closing"
      BY <2>1, <3>1, <3>2 DEF Kill, Killed, Up, Alive
    <3>4. \A s \in Server : (Up(s)' => Up(s)) /\ (Alive(s)' => Alive(s))
      BY <2>1, <3>3, <3>2 DEF Kill, Up, Alive
    <3>5. OneAlive' /\ OnRecord' /\ Published'
      BY <2>1, <3>1, <3>3, <3>4 DEF Kill, Watched, OneAlive, OnRecord, Published
    <3>6. ComingUp' /\ GoingDown'
      BY <2>1, <3>1, <3>3 DEF Kill, Watched, ComingUp, GoingDown, StoppedBy, Up
    <3>7. StopsIt' /\ StartsAlone'
      BY <2>1, <3>1, <3>2, <3>3, <3>4 DEF Kill, Watched, StopsIt, StartsAlone, Stopping, Starting, Alive
    <3> QED BY <3>5, <3>6, <3>7 DEF Watched
  <2>2. ASSUME NEW t \in Thread, EndStop(t) PROVE Watched'
    <3>1. Watched /\ None \notin Server
      BY <2>0, <2>2 DEF EndStop
    <3>2. \A s \in Server : ~Up(s) /\ Up(s)' = Up(s) /\ Alive(s)' = Alive(s)
                            /\ (Alive(s) => s # target[t])
      BY <2>2, <3>1, LivesAlone DEF EndStop, Watched, StopsIt, Stopping, Gone, Up, Alive
    <3>3. ~Starting \/ t = "ui"
      BY <2>2, <3>1 DEF EndStop, Stopping, Watched, StartsAlone
    <3>4. OneAlive' /\ OnRecord' /\ Published'
      BY <3>1, <3>2 DEF Watched, OneAlive, OnRecord, Published
    <3>5. ComingUp' /\ GoingDown'
      BY <2>2, <3>1, <3>2, <3>3 DEF EndStop, Watched, ComingUp, GoingDown, StoppedBy, Up, Starting,
                                    Stopping, Alive
    <3>6. StopsIt' /\ StartsAlone'
      BY <2>2, <3>1, <3>2, <3>3 DEF EndStop, Watched, StopsIt, StartsAlone, Stopping, Starting, Alive
    <3> QED BY <3>4, <3>5, <3>6 DEF Watched
  <2>3. ASSUME Expire \/ HandleTimeout \/ OnTimeout PROVE Watched'
    <3>1. Watched
      BY <2>0, <2>3 DEF Expire, HandleTimeout, OnTimeout
    <3>2. at' = [at EXCEPT !["timer"] = at'["timer"]] /\ ~Stopping("timer")
      BY <2>3 DEF Expire, HandleTimeout, OnTimeout, Stopping
    <3>3. Starting => OnTimeout
      BY <2>3, <3>1 DEF Expire, HandleTimeout, Watched, StartsAlone
    <3>4. at'["timer"] \in {"off", "due", "ending"} /\ (OnTimeout => at'["timer"] = "off")
      BY <2>3 DEF Expire, HandleTimeout, OnTimeout
    <3>5. UNCHANGED <<srv, token, process, target>> /\ pidFile' \in {pidFile, ProbedPid}
      BY <2>3 DEF Expire, HandleTimeout, OnTimeout
    <3> QED BY <3>1, <3>2, <3>3, <3>4, <3>5, PidNoted
  <2>4. ASSUME TimeoutStops PROVE Watched'
    <3>1. Watched
      BY <2>0, <2>4 DEF TimeoutStops
    <3>2. ~Starting /\ ~Stopping("timer")
      BY <2>4, <3>1 DEF TimeoutStops, Watched, StartsAlone, Stopping
    <3> QED BY <2>4, <3>1, <3>2, StopBegins DEF TimeoutStops
  <2>5. ASSUME OnKey \/ Refresh \/ AskRetract \/ Decline \/ ExposeFound \/ Launch PROVE Watched'
    <3>1. Watched /\ ~Starting /\ ~Stopping("ui")
      BY <2>0, <2>5 DEF OnKey, Refresh, AskRetract, Decline, ExposeFound, Launch, Listens, Starting,
                        Stopping
    <3>2. at' = [at EXCEPT !["ui"] = at'["ui"]]
      BY <2>5 DEF OnKey, Refresh, AskRetract, Decline, ExposeFound, Launch
    <3>3. at'["ui"] \in {at["ui"], "idle", "confirm"}
      BY <2>5 DEF OnKey, Refresh, AskRetract, Decline, ExposeFound, Launch
    <3>4. UNCHANGED <<srv, token, process, target>>
      BY <2>5 DEF OnKey, Refresh, AskRetract, Decline, ExposeFound, Launch
    <3>5. CASE ExposeFound
      <4>1. \A s \in Server : ~Serving(s)
        BY <3>1, <3>5, KnownStays DEF ExposeFound, Up, Serving
      <4> QED BY <3>5, <4>1, <2>0, <3>1 DEF ExposeFound, Listener, PortIsOpen
    <3>6. CASE ~ExposeFound
      <4>1. pidFile' \in {pidFile, ProbedPid}
        BY <2>5, <3>6 DEF OnKey, Refresh, AskRetract, Decline, Launch
      <4> QED BY <3>1, <3>2, <3>3, <3>4, <4>1, PidNoted
    <3> QED BY <3>5, <3>6
  <2>6. ASSUME Retract PROVE Watched'
    <3>1. Watched /\ ~Starting /\ ~Stopping("ui")
      BY <2>0, <2>6 DEF Retract, Starting, Stopping
    <3> QED BY <2>6, <3>1, StopBegins DEF Retract
  <2>7. ASSUME NEW s \in Server, Expose(s) PROVE Watched'
    <3>1. Watched /\ at["timer"] \in {"off", "told"} /\ at["ui"] = "idle"
      BY <2>0, <2>7 DEF Expose
    <3>2. \A r \in Server : ~Serving(r)
      BY <2>7, <3>1, KnownStays DEF Expose, Up, Serving
    <3>3. \A r \in Server : ~Alive(r)
      BY <3>1, <3>2, LivesAlone DEF Watched, ComingUp, GoingDown, StoppedBy, Up, Serving
    <3>4. /\ srv' = [srv EXCEPT ![s] = "booting"] /\ process' = s /\ pidFile' = s
          /\ at' = [at EXCEPT !["ui"] = "starting"] /\ UNCHANGED target
      BY <2>7 DEF Expose
    <3>5. \A r \in Server : r # s => ~Alive(r)' /\ ~Up(r)' /\ srv'[r] \notin {"closing"}
      BY <3>1, <3>3, <3>4, LivesAlone DEF Alive, Up
    <3>6. OneAlive' /\ OnRecord' /\ Published' /\ ComingUp' /\ GoingDown'
      BY <3>4, <3>5 DEF OneAlive, OnRecord, Published, ComingUp, GoingDown, Up
    <3>7. StopsIt' /\ StartsAlone'
      BY <3>1, <3>4, <3>5 DEF StopsIt, StartsAlone, Stopping, Starting
    <3> QED BY <3>6, <3>7 DEF Watched
  <2>8. ASSUME StartedUp PROVE Watched'
    <3>1. Watched /\ None \notin Server
      BY <2>0, <2>8 DEF StartedUp
    <3>2. \A s \in Server : srv[s] \notin {"booting", "published"}
      BY <2>8, <3>1, LivesAlone DEF StartedUp, Watched, OneAlive, ComingUp, Serving, Alive, Up
    <3>3. \A s \in Server : Up(s)' = Up(s) /\ Alive(s)' = Alive(s)
      BY <2>8 DEF StartedUp, Up, Alive
    <3>4. OneAlive' /\ OnRecord' /\ Published' /\ ComingUp'
      BY <2>8, <3>1, <3>2, <3>3 DEF StartedUp, Watched, OneAlive, OnRecord, Published, ComingUp
    <3>5. GoingDown' /\ StopsIt' /\ StartsAlone'
      BY <2>8, <3>1, <3>3 DEF StartedUp, Watched, GoingDown, StoppedBy, StopsIt, StartsAlone,
                              Stopping, Starting, Alive
    <3> QED BY <3>4, <3>5 DEF Watched
  <2>9. ASSUME StartFails PROVE Watched'
    <3>1. Watched /\ None \notin Server
      BY <2>0, <2>9 DEF StartFails
    <3>2. \A s \in Server : ~Alive(s) /\ ~Up(s) /\ ~Alive(s)' /\ ~Up(s)' /\ srv[s] # "closing"
      BY <2>9, <3>1, LivesAlone DEF StartFails, Watched, StartsAlone, Starting, Alive, Up
    <3>3. OneAlive' /\ OnRecord' /\ Published' /\ ComingUp' /\ GoingDown'
      BY <2>9, <3>2 DEF StartFails, OneAlive, OnRecord, Published, ComingUp, GoingDown, Up
    <3>4. StopsIt' /\ StartsAlone'
      BY <2>9, <3>1, <3>2 DEF StartFails, Watched, StopsIt, StartsAlone, Stopping, Starting, Alive
    <3> QED BY <3>3, <3>4 DEF Watched
  <2>10. ASSUME StartTimesOut PROVE Watched'
    <3>1. Watched /\ None \notin Server /\ process \in Server
      BY <2>0, <2>10 DEF StartTimesOut, Alive
    <3>2. /\ srv[process] \in {"booting", "published", "closing"}
          /\ \A s \in Server : s # process => ~Alive(s)
      BY <2>10, <3>1 DEF StartTimesOut, Alive, PortIsOpen, Serving, Watched, OneAlive, Status
    <3>3. /\ srv' = [srv EXCEPT ![process] = IF @ = "booting" THEN "dead" ELSE "closing"]
          /\ target' = [target EXCEPT !["ui"] = process]
          /\ at' = [at EXCEPT !["ui"] = "cleaning"] /\ UNCHANGED <<process, pidFile, token>>
      BY <2>10, <3>2 DEF StartTimesOut, Terminated
    <3>4. \A s \in Server : ~Up(s)' /\ (Alive(s)' => Alive(s)) /\ (s # process => srv'[s] # "closing")
      <4> TAKE s \in Server
      <4>1. CASE s = process
        BY <3>1, <3>2, <3>3, <4>1 DEF Alive, Up
      <4>2. CASE s # process
        BY <3>1, <3>2, <3>3, <4>2 DEF Alive, Up
      <4> QED BY <4>1, <4>2
    <3>5. OneAlive' /\ OnRecord' /\ Published' /\ ComingUp'
      BY <3>1, <3>4 DEF Watched, OneAlive, OnRecord, Published, ComingUp, Up
    <3>6. GoingDown'
      BY <3>1, <3>3, <3>4 DEF GoingDown, Up
    <3>7. StopsIt' /\ StartsAlone'
      BY <2>10, <3>1, <3>3, <3>4 DEF StartTimesOut, Watched, StopsIt, StartsAlone, Stopping, Starting
    <3> QED BY <3>5, <3>6, <3>7 DEF Watched
  <2>11. ASSUME CleanUp PROVE Watched'
    <3>1. Watched /\ None \notin Server /\ at["ui"] = "cleaning"
      BY <2>0, <2>11 DEF CleanUp
    <3>2. \A s \in Server : srv'[s] = IF Alive(s) THEN "dead" ELSE srv[s]
      BY <2>11, <3>1 DEF CleanUp, Killed, Gone, Alive, Watched, StartsAlone, Starting
    <3>3. \A s \in Server : ~Alive(s)' /\ ~Up(s)' /\ srv'[s] # "closing"
      BY <3>1, <3>2 DEF Alive, Up
    <3>4. OneAlive' /\ OnRecord' /\ Published' /\ ComingUp' /\ GoingDown'
      BY <3>3 DEF OneAlive, OnRecord, Published, ComingUp, GoingDown, Up
    <3>5. StopsIt' /\ StartsAlone'
      BY <2>11, <3>1, <3>3 DEF CleanUp, StopsIt, StartsAlone, Stopping, Starting, Alive
    <3> QED BY <3>4, <3>5 DEF Watched
  <2>12. ASSUME TriggerStandby \/ StandbyAsks PROVE Watched'
    <3>1. Watched /\ ~Starting /\ ~Stopping("ui")
      BY <2>0, <2>12 DEF TriggerStandby, StandbyAsks, Starting, Stopping
    <3>2. PICK where \in {"sealing", "retracting", "idle"} : at' = [at EXCEPT !["ui"] = where]
      BY <2>12 DEF TriggerStandby, StandbyAsks
    <3>3. UNCHANGED <<srv, token, process, target>> /\ pidFile' \in {pidFile, ProbedPid}
      BY <2>12 DEF TriggerStandby, StandbyAsks
    <3> QED BY <3>1, <3>2, <3>3, PidNoted
  <2>18. ASSUME StandbyStops PROVE Watched'
    <3>1. Watched /\ ~Starting /\ ~Stopping("ui")
      BY <2>0, <2>18 DEF StandbyStops, Starting, Stopping
    <3> QED BY <2>18, <3>1, StopBegins DEF StandbyStops
  <2>13. ASSUME Recover \/ UNCHANGED consoleVars PROVE Watched'
    <3>1. /\ Watched /\ UNCHANGED <<srv, token, process, target, pidFile>>
          /\ at' = [at EXCEPT !["ui"] = at["ui"]]
      BY <2>0, <2>13 DEF Recover, consoleVars
    <3> QED BY <3>1, PidNoted
  <2>14. ASSUME Quit PROVE Watched'
    <3>1. Watched /\ None \notin Server /\ ~Starting /\ \A t \in Thread : ~Stopping(t)
      BY <2>0, <2>14 DEF Quit
    <3>2. \A s \in Server : /\ srv[s] \notin {"booting", "published", "told", "closing"}
                            /\ Up(s)' = Up(s) /\ Alive(s)' = Alive(s)
      BY <2>14, <3>1 DEF Quit, Watched, ComingUp, GoingDown, StoppedBy, Stopping, Starting, Up, Alive
    <3>3. OneAlive' /\ OnRecord' /\ Published' /\ ComingUp' /\ GoingDown'
      BY <2>14, <3>1, <3>2 DEF Quit, Watched, OneAlive, OnRecord, Published, ComingUp, GoingDown
    <3>4. StopsIt' /\ StartsAlone'
      BY <2>14 DEF Quit, StopsIt, StartsAlone, Stopping, Starting
    <3> QED BY <3>3, <3>4 DEF Watched
  <2>15. ASSUME NEW s \in Server, HandStart(s) PROVE FALSE
    BY <2>15 DEF HandStart
  <2>16. ASSUME NEW s \in Server, Publish(s) \/ Bind(s) \/ Close(s) PROVE Watched'
    <3>1. /\ Watched /\ None \notin Server /\ Up(s) /\ Alive(s)
          /\ UNCHANGED <<process, pidFile, at, target>>
      BY <2>0, <2>16, LivesAlone DEF Publish, Bind, Close, Up
    <3>2. \A r \in Server : r # s => ~Alive(r) /\ ~Up(r) /\ srv[r] # "closing"
      BY <3>1, LivesAlone DEF Watched, OneAlive, Alive
    <3>3. CASE Publish(s) \/ Bind(s)
      <4>1. srv' = [srv EXCEPT ![s] = IF @ = "booting" THEN "published" ELSE "serving"]
        BY <3>2, <3>3 DEF Publish, Bind, Becomes, PortIsOpen, Serving, Up
      <4>2. \A r \in Server : Up(r)' = Up(r) /\ Alive(r)' = Alive(r)
        BY <3>1, <3>3, <4>1 DEF Up, Alive
      <4>3. token' = s
        BY <3>1, <3>3 DEF Publish, Bind, Watched, Published
      <4>4. OneAlive' /\ OnRecord' /\ Published'
        BY <3>1, <3>2, <4>2, <4>3 DEF Watched, OneAlive, OnRecord, Published
      <4>5. ComingUp' /\ GoingDown'
        BY <3>1, <3>2, <3>3, <4>1 DEF Publish, Bind, Watched, ComingUp, GoingDown, StoppedBy
      <4>6. StopsIt' /\ StartsAlone'
        BY <3>1, <4>2, <4>1 DEF Watched, StopsIt, StartsAlone, Stopping, Starting, Alive
      <4> QED BY <4>4, <4>5, <4>6 DEF Watched
    <3>4. CASE Close(s)
      <4>1. srv[s] = "told" /\ srv' = [srv EXCEPT ![s] = "closing"] /\ UNCHANGED token
        BY <3>4 DEF Close, Becomes
      <4>2. \A r \in Server : ~Up(r)' /\ (Alive(r)' => Alive(r))
        BY <3>1, <3>2, <4>1 DEF Up, Alive
      <4>3. OneAlive' /\ OnRecord' /\ Published' /\ ComingUp'
        BY <3>1, <4>2 DEF Watched, OneAlive, OnRecord, Published, ComingUp, Up
      <4>4. GoingDown'
        BY <3>1, <3>2, <4>1 DEF Watched, GoingDown, StoppedBy
      <4>5. StopsIt' /\ StartsAlone'
        BY <3>1, <4>1, <4>2 DEF Watched, StopsIt, StartsAlone, Stopping, Starting, Alive
      <4> QED BY <4>3, <4>4, <4>5 DEF Watched
    <3> QED BY <2>16, <3>3, <3>4
  <2>17. ASSUME NEW s \in Server, Shutdown(s) \/ Crash(s) PROVE Watched'
    BY <2>0, <2>17, ServerDies DEF Shutdown, Crash, Becomes
  <2> QED BY <2>1, <2>2, <2>3, <2>4, <2>5, <2>6, <2>7, <2>8, <2>9, <2>10, <2>11, <2>12, <2>13,
             <2>14, <2>15, <2>16, <2>17, <2>18 DEF ConsoleNext, TimerThread, Console, Waits
<1>3. ConsoleTypeOK /\ TokenInv => TokenTells
  BY DEF TokenInv, TokenTells, Watched, Published, Up, Serving
<1> QED BY <1>1, <1>2, <1>3, ConsoleTypeCorrect, PTL DEF ConsoleSpec
=============================================================================
