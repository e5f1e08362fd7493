------------------------ MODULE Authorization_proofs ------------------------
(***************************************************************************)
(* What an operation must have been shown before it goes on: the approval  *)
(* of a second person (ApprovalFlow), for every set of actions and nonces, *)
(* every TTL and every gap between two clock readings of a call; and the   *)
(* bound object in front of the camera (CueSession), for any surface and   *)
(* any entries bound before or during the run.                             *)
(***************************************************************************)
EXTENDS ApprovalFlow, CueSession, TLAPS

-----------------------------------------------------------------------------
(* The dual-approval gate.                                                 *)

(* A nonce names one request for ever; open requests are among those made. *)
NonceNamesRequest ==
    /\ pending \subseteq opened
    /\ \A r, q \in opened : r.nonce = q.nonce => r = q

(* What a grant says was verified: its request exists, is for the same     *)
(* action and was not older than RequestTTL when the supervisor answered.  *)
GrantsVerified ==
    /\ grants \subseteq approvals
    /\ \A g \in approvals : \E r \in opened :
          /\ r.nonce = g.nonce /\ r.action = g.action
          /\ g.granted_at - r.created_at <= RequestTTL + ReadGap

(* Only requested nonces are ever spent. *)
SpentWasRequested == \A s \in spent : \E r \in opened : r.nonce = s.nonce

IInv == TypeOK /\ NonceNamesRequest /\ GrantsVerified /\ SpentWasRequested /\ SingleUse

-----------------------------------------------------------------------------
(* The purge only removes entries. *)
LEMMA PurgeShrinks ==
    ASSUME NEW t
    PROVE  PurgedPending(t) \subseteq pending /\ PurgedGrants(t) \subseteq grants
BY DEF PurgedPending, PurgedGrants

(* A later reading of a natural-number clock is a natural number not       *)
(* before it and at most ReadGap after it.                                 *)
LEMMA LaterReadingNat ==
    ASSUME NEW t \in Nat, NEW u \in LaterReading(t)
    PROVE  u \in Nat /\ t <= u /\ u <= t + ReadGap
BY TimeAssumption DEF LaterReading

(* A call that only drops requests and grants, reads the clock and reports *)
(* keeps the invariant.                                                    *)
LEMMA DroppingKeepsIInv ==
    ASSUME IInv,
           pending' \subseteq pending, grants' \subseteq grants,
           supervisor' \in BOOLEAN, now' \in Nat, result' \in Reason,
           UNCHANGED <<opened, approvals, spent>>
    PROVE  IInv'
BY DEF IInv, TypeOK, NonceNamesRequest, GrantsVerified, SpentWasRequested, SingleUse

LEMMA RequestKeepsIInv ==
    ASSUME IInv, NEW a \in Action, Request(a)
    PROVE  IInv'
<1>0. now \in Nat /\ supervisor \in BOOLEAN
  BY DEF IInv, TypeOK
<1>1. CASE RequestNotRequired(a)
  BY <1>0, <1>1, PurgeShrinks, DroppingKeepsIInv DEF RequestNotRequired, Reason
<1>2. CASE RequestAlreadyPending(a)
  BY <1>0, <1>2, PurgeShrinks, LaterReadingNat, DroppingKeepsIInv
     DEF RequestAlreadyPending, Reason
<1>3. CASE RequestCreated(a)
  <2>1. PICK t \in LaterReading(now), n \in Nonce :
           /\ \A r \in opened : r.nonce # n
           /\ pending' = {r \in PurgedPending(now) : r.action # a}
                 \union {[action |-> a, nonce |-> n, created_at |-> t]}
           /\ opened' = opened \union {[action |-> a, nonce |-> n, created_at |-> t]}
           /\ now' = t
           /\ result' = "request_created"
    BY <1>3 DEF RequestCreated
  <2> DEFINE req == [action |-> a, nonce |-> n, created_at |-> t]
  <2>2. /\ req \in ApprovalRequest /\ req.nonce = n
        /\ grants' \subseteq grants
        /\ UNCHANGED <<supervisor, approvals, spent>>
        /\ pending' \subseteq pending \union {req}
    BY <1>0, <1>3, <2>1, PurgeShrinks, LaterReadingNat DEF RequestCreated, ApprovalRequest
  <2>3. opened' = opened \union {req} /\ \A r \in opened : r.nonce # n
    BY <2>1
  <2> HIDE DEF req
  <2>4. TypeOK'
    BY <1>0, <2>1, <2>2, <2>3, LaterReadingNat DEF IInv, TypeOK, Reason
  <2>5. NonceNamesRequest'
    BY <2>2, <2>3 DEF IInv, NonceNamesRequest
  <2>6. GrantsVerified'
    BY <2>2, <2>3 DEF IInv, GrantsVerified
  <2>7. SpentWasRequested'
    BY <2>2, <2>3 DEF IInv, SpentWasRequested
  <2>8. SingleUse'
    <3>1. \A s \in spent : s.nonce # n
      BY <2>3 DEF IInv, SpentWasRequested
    <3> QED
      BY <2>2, <3>1 DEF IInv, SingleUse
  <2> QED
    BY <2>4, <2>5, <2>6, <2>7, <2>8 DEF IInv
<1> QED
  BY <1>1, <1>2, <1>3 DEF Request

LEMMA GrantKeepsIInv ==
    ASSUME IInv, NEW n \in Nonce, Grant(n)
    PROVE  IInv'
<1>0. now \in Nat /\ supervisor \in BOOLEAN
  BY DEF IInv, TypeOK
<1>1. CASE GrantNoRequest(n)
  BY <1>0, <1>1, PurgeShrinks, DroppingKeepsIInv DEF GrantNoRequest, Reason
<1>2. CASE GrantRequestExpired(n)
  <2>1. /\ pending' \subseteq pending /\ grants' \subseteq grants
        /\ now' \in Nat /\ result' = "request_expired"
        /\ UNCHANGED <<supervisor, opened, approvals, spent>>
    BY <1>0, <1>2, PurgeShrinks, LaterReadingNat DEF GrantRequestExpired
  <2> QED
    BY <1>0, <2>1, DroppingKeepsIInv DEF Reason
<1>3. ASSUME NEW right \in BOOLEAN, GrantVerified(n, right)
      PROVE  IInv'
  <2>1. PICK t \in LaterReading(now), r \in pending :
           /\ r.nonce = n
           /\ ~RequestExpired(r, t)
           /\ pending' = PurgedPending(now)
           /\ \/ /\ supervisor /\ right
                 /\ \E u \in LaterReading(t) :
                       LET g == [action |-> r.action, nonce |-> n, granted_at |-> u]
                       IN  /\ grants' = {h \in PurgedGrants(now) : h.nonce # n} \union {g}
                           /\ approvals' = {h \in approvals : h.nonce # n} \union {g}
                           /\ now' = u
                 /\ result' = "granted"
              \/ /\ ~(supervisor /\ right)
                 /\ grants' = PurgedGrants(now)
                 /\ now' = t
                 /\ result' = IF supervisor THEN "wrong_passphrase"
                                            ELSE "supervisor_not_configured"
                 /\ UNCHANGED approvals
           /\ UNCHANGED <<supervisor, opened, spent>>
    BY <1>3 DEF GrantVerified, Verified
  <2>2. CASE ~(supervisor /\ right)
    BY <1>0, <2>1, <2>2, PurgeShrinks, LaterReadingNat, DroppingKeepsIInv DEF Reason
  <2>3. CASE supervisor /\ right
    <3>1. PICK u \in LaterReading(t) :
             /\ grants' = {h \in PurgedGrants(now) : h.nonce # n}
                   \union {[action |-> r.action, nonce |-> n, granted_at |-> u]}
             /\ approvals' = {h \in approvals : h.nonce # n}
                   \union {[action |-> r.action, nonce |-> n, granted_at |-> u]}
             /\ now' = u
      BY <2>1, <2>3
    <3> DEFINE g == [action |-> r.action, nonce |-> n, granted_at |-> u]
    <3>2. t \in Nat /\ u \in Nat /\ u <= t + ReadGap
      BY <1>0, LaterReadingNat
    <3>3. /\ r \in ApprovalRequest /\ r \in opened
          /\ \A q \in opened : q.nonce = n => q = r
      BY <2>1 DEF IInv, TypeOK, NonceNamesRequest
    <3>4. /\ g \in ApprovalGrant
          /\ g.nonce = r.nonce /\ g.nonce = n /\ g.action = r.action
          /\ g.granted_at = u
      BY <2>1, <3>2, <3>3 DEF ApprovalGrant, ApprovalRequest
    <3>5. g.granted_at - r.created_at <= RequestTTL + ReadGap
      BY <2>1, <3>2, <3>3, <3>4, TimeAssumption DEF RequestExpired, ApprovalRequest
    <3>6. /\ grants' \subseteq {h \in grants : h.nonce # n} \union {g}
          /\ approvals' = {h \in approvals : h.nonce # n} \union {g}
          /\ pending' \subseteq pending
          /\ UNCHANGED <<supervisor, opened, spent>>
          /\ now' \in Nat /\ result' = "granted"
      BY <2>1, <2>3, <3>1, <3>2, PurgeShrinks
    <3> HIDE DEF g
    <3>7. TypeOK'
      BY <3>4, <3>6 DEF IInv, TypeOK, Reason
    <3>8. NonceNamesRequest'
      BY <3>6 DEF IInv, NonceNamesRequest
    <3>9. GrantsVerified'
      BY <3>3, <3>4, <3>5, <3>6 DEF IInv, GrantsVerified
    <3>10. SpentWasRequested'
      BY <3>6 DEF IInv, SpentWasRequested
    <3>11. SingleUse'
      <4>1. \A s \in spent : s.nonce # n
        BY <2>1 DEF IInv, SingleUse
      <4> QED
        BY <3>4, <3>6, <4>1 DEF IInv, SingleUse
    <3> QED
      BY <3>7, <3>8, <3>9, <3>10, <3>11 DEF IInv
  <2> QED
    BY <2>2, <2>3
<1> QED
  BY <1>1, <1>2, <1>3 DEF Grant

(* What a successful consume establishes about the grant it used. *)
LEMMA ConsumeGrantedFacts ==
    ASSUME IInv, NEW a \in Action, NEW n \in Nonce, ConsumeGranted(a, n)
    PROVE  \E g \in grants :
              /\ g.nonce = n /\ g.action = a
              /\ now' \in Nat
              /\ now' - g.granted_at <= GrantTTL
              /\ result' = "consumed"
              /\ spent' = spent \union {[action |-> a, nonce |-> n]}
              /\ pending' \subseteq {r \in pending : r.action # a}
              /\ grants' \subseteq {h \in grants : h.nonce # n}
              /\ UNCHANGED <<supervisor, opened, approvals>>
<1>1. PICK t \in LaterReading(now), g \in PurgedGrants(now) :
         /\ g.nonce = n /\ g.action = a
         /\ ~GrantExpired(g, t)
         /\ pending' = {r \in PurgedPending(now) : r.action # a}
         /\ grants' = {h \in PurgedGrants(now) : h.nonce # n}
         /\ spent' = spent \union {[action |-> a, nonce |-> n]}
         /\ result' = "consumed"
         /\ now' = t
         /\ UNCHANGED <<supervisor, opened, approvals>>
  BY DEF ConsumeGranted
<1>2. g \in grants /\ g \in ApprovalGrant /\ now \in Nat
  BY PurgeShrinks DEF IInv, TypeOK
<1>3. t \in Nat
  BY <1>2, LaterReadingNat
<1>4. now' - g.granted_at <= GrantTTL
  BY <1>1, <1>2, <1>3, TimeAssumption DEF GrantExpired, ApprovalGrant
<1> QED
  BY <1>1, <1>2, <1>3, <1>4, PurgeShrinks

LEMMA ConsumeKeepsIInv ==
    ASSUME IInv, NEW a \in Action, NEW n \in Nonce, Consume(a, n)
    PROVE  IInv'
<1>0. now \in Nat /\ supervisor \in BOOLEAN
  BY DEF IInv, TypeOK
<1>1. CASE ConsumeNoGrant(a, n)
  BY <1>0, <1>1, PurgeShrinks, DroppingKeepsIInv DEF ConsumeNoGrant, Reason
<1>2. CASE ConsumeMismatch(a, n)
  BY <1>0, <1>2, PurgeShrinks, DroppingKeepsIInv DEF ConsumeMismatch, Reason
<1>3. CASE ConsumeExpired(a, n)
  <2>1. /\ pending' \subseteq pending /\ grants' \subseteq grants
        /\ now' \in Nat /\ result' = "grant_expired"
        /\ UNCHANGED <<supervisor, opened, approvals, spent>>
    BY <1>0, <1>3, PurgeShrinks, LaterReadingNat DEF ConsumeExpired
  <2> QED
    BY <1>0, <2>1, DroppingKeepsIInv DEF Reason
<1>4. CASE ConsumeGranted(a, n)
  <2>1. PICK g \in grants :
           /\ g.nonce = n /\ g.action = a
           /\ now' \in Nat /\ result' = "consumed"
           /\ spent' = spent \union {[action |-> a, nonce |-> n]}
           /\ pending' \subseteq {r \in pending : r.action # a}
           /\ grants' \subseteq {h \in grants : h.nonce # n}
           /\ UNCHANGED <<supervisor, opened, approvals>>
    BY <1>4, ConsumeGrantedFacts
  <2>2. PICK q \in opened : q.nonce = n /\ q.action = a
    BY <2>1 DEF IInv, GrantsVerified
  <2>3. TypeOK'
    BY <2>1 DEF IInv, TypeOK, Reason
  <2>4. NonceNamesRequest' /\ GrantsVerified'
    BY <2>1 DEF IInv, NonceNamesRequest, GrantsVerified
  <2>5. SpentWasRequested'
    BY <2>1, <2>2 DEF IInv, SpentWasRequested
  <2>6. SingleUse'
    <3>1. \A r \in pending' : r.nonce # n
      BY <2>1, <2>2 DEF IInv, NonceNamesRequest
    <3>2. \A h \in grants' : h.nonce # n
      BY <2>1
    <3> QED
      BY <2>1, <3>1, <3>2 DEF IInv, SingleUse
  <2> QED
    BY <2>3, <2>4, <2>5, <2>6 DEF IInv
<1>5. CASE ConsumeKeyError(a, n)
  BY <1>0, <1>5, PurgeShrinks, LaterReadingNat, DroppingKeepsIInv
     DEF ConsumeKeyError, Reason
<1> QED
  BY <1>1, <1>2, <1>3, <1>4, <1>5 DEF Consume

LEMMA OthersKeepIInv ==
    ASSUME IInv,
           \/ \E a \in Action : Status(a)
           \/ ConfigureSupervisor \/ ClearSupervisor \/ Tick \/ UNCHANGED vars
    PROVE  IInv'
<1>0. now \in Nat /\ supervisor \in BOOLEAN /\ result \in Reason
  BY DEF IInv, TypeOK
<1>1. ASSUME NEW a \in Action, Status(a) PROVE IInv'
  BY <1>0, <1>1, PurgeShrinks, DroppingKeepsIInv DEF Status, Reason
<1>2. CASE ConfigureSupervisor \/ ClearSupervisor
  BY <1>0, <1>2, DroppingKeepsIInv DEF ConfigureSupervisor, ClearSupervisor, Reason
<1>3. CASE Tick \/ UNCHANGED vars
  BY <1>0, <1>3, DroppingKeepsIInv DEF Tick, vars
<1> QED
  BY <1>1, <1>2, <1>3

-----------------------------------------------------------------------------
(* The strengthened invariant is inductive: approval_flow.py never has a   *)
(* grant that no supervisor verification backs, and never a live entry for *)
(* a consumed nonce.                                                       *)
THEOREM IInvHolds == Spec => []IInv
<1>1. Init => IInv
  BY TimeAssumption
     DEF Init, IInv, TypeOK, NonceNamesRequest, GrantsVerified, SpentWasRequested,
         SingleUse, Reason
<1>2. IInv /\ [Next]_vars => IInv'
  BY RequestKeepsIInv, GrantKeepsIInv, ConsumeKeepsIInv, OthersKeepIInv DEF Next
<1> QED
  BY <1>1, <1>2, PTL DEF Spec

(* Every reachable state of the gate is well typed. *)
THEOREM TypeCorrect == Spec => []TypeOK
BY IInvHolds, PTL DEF IInv

(* Single use: once DualApprovalGate.consume succeeded for a nonce, no     *)
(* request or grant with that nonce exists again, whatever is called next. *)
THEOREM SingleUseHolds == Spec => []SingleUse
BY IInvHolds, PTL DEF IInv

(* Every consume that succeeds is backed by a supervisor verification of   *)
(* that nonce and action that is at most GrantTTL old.                     *)
THEOREM ConsumeCoveredHolds == Spec => ConsumeCovered
<1> DEFINE Covered ==
      spent' # spent =>
         \E g \in approvals, r \in opened :
            /\ spent' = spent \union {[action |-> g.action, nonce |-> g.nonce]}
            /\ now' - g.granted_at <= GrantTTL
            /\ r.nonce = g.nonce /\ r.action = g.action
            /\ g.granted_at - r.created_at <= RequestTTL + ReadGap
<1>1. IInv /\ [Next]_vars => [Covered]_vars
  <2>1. ASSUME IInv, NEW a \in Action, NEW n \in Nonce, ConsumeGranted(a, n)
        PROVE  Covered
    <3>1. PICK g \in grants :
             /\ g.nonce = n /\ g.action = a
             /\ now' - g.granted_at <= GrantTTL
             /\ spent' = spent \union {[action |-> a, nonce |-> n]}
      BY <2>1, ConsumeGrantedFacts
    <3>2. /\ g \in approvals
          /\ \E r \in opened :
                /\ r.nonce = g.nonce /\ r.action = g.action
                /\ g.granted_at - r.created_at <= RequestTTL + ReadGap
      BY <2>1 DEF IInv, GrantsVerified
    <3> QED
      BY <3>1, <3>2
  <2>2. ASSUME Next PROVE spent' = spent \/ \E a \in Action, n \in Nonce : ConsumeGranted(a, n)
    BY <2>2
       DEF Next, Request, RequestNotRequired, RequestAlreadyPending, RequestCreated,
           Grant, GrantNoRequest, GrantRequestExpired, GrantVerified,
           Consume, ConsumeNoGrant, ConsumeMismatch, ConsumeExpired, ConsumeKeyError,
           Status, ConfigureSupervisor, ClearSupervisor, Tick
  <2> QED
    BY <2>1, <2>2 DEF vars
<1> QED
  BY <1>1, IInvHolds, PTL DEF Spec, ConsumeCovered

-----------------------------------------------------------------------------
(* The object cue as an operation meets it. An operation is the list of    *)
(* steps it has left, and the invariant (SessionInv) says how such a list  *)
(* is laid out: only the command line checks a binding, right after it has *)
(* waited for a match (OpInv). An answer of an entry that is bound in the  *)
(* run is vouched for (AnswerSeen), and so is what an update under way may *)
(* yet publish.                                                            *)

(* The mode's present reference has matched, or an update that had matched *)
(* the former one was under way when that was replaced or cleared.         *)
Vouched == seen \union carried
AnswerSeen ==
    /\ \A m \in Entry : answer = m => m \in Vouched
    /\ \A i \in Matcher : /\ update[i].stable \subseteq update[i].hits
                          /\ update[i].hits \intersect Entry \subseteq Vouched

(* What an operation still has to do: only the command line's store checks *)
(* a binding, and it does so right after it has waited for the match.      *)
Bindless(o) == \A i \in 1..Len(o.todo) : o.todo[i] # "bound"
Sound(o) ==
    /\ o \in Operation
    /\ o.kind = "idle" => o.todo = <<>>
    /\ ~Bindless(o) => o.kind = "bind" /\ o.mode \in Entry
    /\ \A i \in 2..Len(o.todo) : o.todo[i] = "bound" => o.todo[i - 1] = "match"
Alone ==
    /\ surface # "console" => \A w \in Worker \ {1} : op[w].kind = "idle"
    /\ surface = "none" => \A w \in Worker : op[w].kind = "idle"
OpInv ==
    /\ \A w \in Worker : /\ Sound(op[w])
                         /\ ~Bindless(op[w]) => surface = "cli"
                         /\ At(w, "bound") => op[w].mode \in Vouched
    /\ Alone

-----------------------------------------------------------------------------
(* Sequences of steps: one less, one put in front.                         *)
LEMMA TailFacts ==
    ASSUME NEW s \in Seq(StepName), s # <<>>
    PROVE  /\ Len(s) \in Nat /\ Len(s) > 0 /\ Head(s) = s[1] /\ s[1] \in StepName
           /\ Tail(s) \in Seq(StepName) /\ Len(Tail(s)) = Len(s) - 1
           /\ \A i \in 1..Len(Tail(s)) : Tail(s)[i] = s[i + 1]
OBVIOUS

LEMMA PutFacts ==
    ASSUME NEW s \in Seq(StepName), s # <<>>, NEW x \in StepName
    PROVE  /\ <<x>> \o Tail(s) \in Seq(StepName) /\ Len(<<x>> \o Tail(s)) = Len(s)
           /\ (<<x>> \o Tail(s))[1] = x
           /\ \A i \in 2..Len(s) : (<<x>> \o Tail(s))[i] = s[i]
<1>1. Tail(s) \in Seq(StepName) /\ Len(Tail(s)) = Len(s) - 1 /\ Len(s) \in Nat
      /\ \A i \in 1..Len(Tail(s)) : Tail(s)[i] = s[i + 1]
  BY TailFacts
<1>2. <<x>> \in Seq(StepName) /\ Len(<<x>>) = 1 /\ <<x>>[1] = x
  OBVIOUS
<1> DEFINE t == Tail(s)
<1>3. /\ <<x>> \o t \in Seq(StepName) /\ Len(<<x>> \o t) = 1 + Len(t)
      /\ \A i \in 1..(1 + Len(t)) : (<<x>> \o t)[i] = IF i <= 1 THEN <<x>>[i] ELSE t[i - 1]
  BY <1>1, <1>2
<1>4. \A i \in 2..Len(s) : (<<x>> \o t)[i] = s[i]
  <2> SUFFICES ASSUME NEW i \in 2..Len(s) PROVE (<<x>> \o t)[i] = s[i]
    OBVIOUS
  <2>1. i - 1 \in 1..Len(t) /\ i \in 1..(1 + Len(t)) /\ ~(i <= 1) /\ (i - 1) + 1 = i
    BY <1>1
  <2> QED BY <1>1, <1>3, <2>1
<1> QED BY <1>1, <1>2, <1>3, <1>4

(* Every program is made of steps, and only one of them has to check what  *)
(* it bound.                                                               *)
LEMMA Programs ==
    ASSUME NEW s \in {"console", "cli", "web"}, NEW p \in Program[s]
    PROVE  /\ p[1] \in {"use", "retrieve", "bind", "image"}
           /\ p[2] \in Seq(StepName) /\ p[2] # <<>>
           /\ \A i \in 1..Len(p[2]) : p[2][i] = "bound" => s = "cli" /\ p[1] = "bind"
           /\ \A i \in 2..Len(p[2]) : p[2][i] = "bound" => p[2][i - 1] = "match"
           /\ p[2][1] # "bound"
<1> USE DEF StepName
<1>1. CASE s = "console"
  <2>1. p = <<"use", OpenVessel>>
    BY <1>1 DEF Program
  <2> QED BY <1>1, <2>1 DEF OpenVessel
<1>2. CASE s = "web"
  <2>1. \/ p = <<"use", Page>> \/ p = <<"use", RegisterScene>> \/ p = <<"bind", RegisterKey>>
        \/ p = <<"image", RegisterImage>> \/ p = <<"use", ResumeAndUse>>
    BY <1>2 DEF Program
  <2>2. CASE p = <<"use", Page>>
    BY <2>2 DEF Page
  <2>3. CASE p = <<"use", RegisterScene>>
    BY <2>3 DEF RegisterScene
  <2>4. CASE p = <<"bind", RegisterKey>>
    BY <2>4 DEF RegisterKey
  <2>5. CASE p = <<"image", RegisterImage>>
    BY <2>5 DEF RegisterImage
  <2>6. CASE p = <<"use", ResumeAndUse>>
    BY <2>6 DEF ResumeAndUse
  <2> QED BY <2>1, <2>2, <2>3, <2>4, <2>5, <2>6
<1>3. CASE s = "cli"
  <2>1. \/ p = <<"retrieve", RunRetrieve>> \/ p = <<"use", RunFile>> \/ p = <<"use", RunClear>>
        \/ p = <<"use", RunDestroy>> \/ p = <<"bind", RunStore>> \/ p = <<"use", RunAdd>>
        \/ p = <<"use", RunRegistered>>
    BY <1>3 DEF Program, RunGenerate
  <2>2. CASE p = <<"bind", RunStore>>
    BY <1>3, <2>2 DEF RunStore
  <2>3. CASE p = <<"retrieve", RunRetrieve>>
    BY <2>3 DEF RunRetrieve
  <2>4. CASE p = <<"use", RunFile>>
    BY <2>4 DEF RunFile
  <2>5. CASE p = <<"use", RunClear>>
    BY <2>5 DEF RunClear
  <2>6. CASE p = <<"use", RunDestroy>>
    BY <2>6 DEF RunDestroy
  <2>7. CASE p = <<"use", RunAdd>>
    BY <2>7 DEF RunAdd
  <2>8. CASE p = <<"use", RunRegistered>>
    BY <2>8 DEF RunRegistered
  <2> QED BY <2>1, <2>2, <2>3, <2>4, <2>5, <2>6, <2>7, <2>8
<1> QED BY <1>1, <1>2, <1>3

(* Nothing to do, and the three steps of close(), bind nothing.            *)
LEMMA Ends ==
    ASSUME NEW r \in MODES \union {"none", "fingerprint", "bound"}
    PROVE  LET over == [Idle EXCEPT !.kind = "over", !.todo = Closing, !.result = r]
               idle == [Idle EXCEPT !.result = r]
           IN  /\ Sound(over) /\ Bindless(over) /\ over.result = r
               /\ Sound(idle) /\ Bindless(idle) /\ idle.result = r
               /\ over.todo[1] # "bound" /\ idle.todo = <<>>
<1>1. /\ Closing \in Seq(StepName) /\ Len(Closing) = 3
      /\ Closing[1] = "stop" /\ Closing[2] = "join" /\ Closing[3] = "release"
  BY DEF Closing, StepName
<1>2. \A i \in 1..Len(Closing) : Closing[i] # "bound"
  BY <1>1
<1>3. <<>> \in Seq(StepName) /\ Len(<<>>) = 0
  OBVIOUS
<1> DEFINE over == [Idle EXCEPT !.kind = "over", !.todo = Closing, !.result = r]
<1> DEFINE idle == [Idle EXCEPT !.result = r]
<1>4. Idle \in Operation /\ Idle.kind = "idle" /\ Idle.todo = <<>>
  BY <1>3 DEF Idle, Operation
<1>5. over \in Operation /\ idle \in Operation
  BY <1>1, <1>4 DEF Operation
<1>6. /\ over.kind = "over" /\ over.todo = Closing /\ over.result = r
      /\ idle.kind = "idle" /\ idle.todo = <<>> /\ idle.result = r
  BY <1>4 DEF Operation
<1> HIDE DEF over, idle
<1>7. Bindless(over) /\ Bindless(idle)
  BY <1>2, <1>3, <1>6 DEF Bindless
<1>8. Sound(over)
  BY <1>2, <1>5, <1>6, <1>7, 1 \in 1..3, \A i \in 2..Len(Closing) : i \in 1..Len(Closing) DEF Sound
<1>9. Sound(idle)
  BY <1>3, <1>5, <1>6, <1>7 DEF Sound
<1> QED BY <1>1, <1>6, <1>7, <1>8, <1>9 DEF over, idle

(* The finally block, and what comes before it.                            *)
LEMMA Drops ==
    ASSUME NEW o, Sound(o)
    PROVE  /\ Sound(Go(o, <<>>)) /\ Bindless(Go(o, <<>>)) /\ Go(o, <<>>).result = o.result
           /\ Go(o, <<>>).todo # <<>> => Go(o, <<>>).todo[1] # "bound"
<1>1. o.result \in MODES \union {"none", "fingerprint", "bound"}
  BY DEF Sound, Operation
<1> QED BY <1>1, Ends DEF Go

LEMMA Advances ==
    ASSUME NEW o, Sound(o), o.todo # <<>>, NEW n, n = Go(o, Tail(o.todo))
    PROVE  /\ Sound(n) /\ n.result = o.result
           /\ ~Bindless(n) => ~Bindless(o) /\ n.mode = o.mode
           /\ n.todo # <<>> /\ n.todo[1] = "bound" => o.todo[1] = "match" /\ ~Bindless(n)
<1>1. CASE Tail(o.todo) = <<>>
  BY <1>1, Drops
<1>2. CASE Tail(o.todo) # <<>>
  <2>1. n = [o EXCEPT !.todo = Tail(o.todo)]
    BY <1>2 DEF Go
  <2>2. o \in Operation /\ o.todo \in Seq(StepName) /\ o.kind # "idle"
    BY DEF Sound, Operation
  <2> DEFINE t == Tail(o.todo)
  <2> DEFINE d == o.todo
  <2>3. /\ t \in Seq(StepName) /\ d \in Seq(StepName) /\ Len(d) \in Nat /\ Len(d) > 1
        /\ Len(t) = Len(d) - 1
        /\ \A i \in 1..Len(t) : t[i] = d[i + 1]
    BY <1>2, <2>2, TailFacts
  <2>4. /\ n \in Operation /\ n.todo = t /\ n.kind = o.kind /\ n.mode = o.mode
        /\ n.result = o.result
    BY <2>1, <2>2, <2>3 DEF Operation
  <2>5. \A i \in 2..Len(d) : d[i] = "bound" => d[i - 1] = "match"
    BY DEF Sound
  <2> HIDE DEF t
  <2>6. (\E i \in 1..Len(t) : t[i] = "bound") => \E i \in 1..Len(d) : d[i] = "bound"
    <3> SUFFICES ASSUME NEW i \in 1..Len(t), t[i] = "bound" PROVE \E j \in 1..Len(d) : d[j] = "bound"
      OBVIOUS
    <3> QED BY <2>3, i + 1 \in 1..Len(d)
  <2>7. \A i \in 2..Len(t) : t[i] = "bound" => t[i - 1] = "match"
    <3> SUFFICES ASSUME NEW i \in 2..Len(t), t[i] = "bound" PROVE t[i - 1] = "match"
      OBVIOUS
    <3>1. /\ i \in 1..Len(t) /\ i - 1 \in 1..Len(t) /\ (i - 1) + 1 = i
          /\ i + 1 \in 2..Len(d) /\ (i + 1) - 1 = i
      BY <2>3
    <3>2. t[i] = d[i + 1] /\ t[i - 1] = d[i]
      BY <2>3, <3>1
    <3> QED BY <2>5, <3>1, <3>2
  <2>8. t[1] = "bound" => d[1] = "match" /\ ~Bindless(n)
    <3>1. 1 \in 1..Len(t) /\ 2 \in 2..Len(d) /\ 1 + 1 = 2 /\ 2 - 1 = 1
      BY <2>3
    <3>2. t[1] = d[2]
      BY <2>3, <3>1
    <3>3. t[1] = "bound" => ~Bindless(n)
      BY <2>4, <3>1 DEF Bindless
    <3> QED BY <2>5, <3>1, <3>2, <3>3
  <2>9. ~Bindless(n) => ~Bindless(o)
    BY <2>4, <2>6 DEF Bindless
  <2> QED BY <2>2, <2>4, <2>7, <2>8, <2>9 DEF Sound
<1> QED BY <1>1, <1>2

LEMMA Jumps ==
    ASSUME NEW o, Sound(o), o.todo # <<>>, o.todo[1] # "match",
           NEW x \in StepName \ {"bound"}, NEW n, n = [o EXCEPT !.todo = <<x>> \o Tail(o.todo)]
    PROVE  /\ Sound(n) /\ n.result = o.result
           /\ ~Bindless(n) => ~Bindless(o) /\ n.mode = o.mode
           /\ n.todo # <<>> /\ n.todo[1] # "bound"
<1>1. o \in Operation /\ o.todo \in Seq(StepName) /\ o.kind # "idle"
  BY DEF Sound, Operation
<1> DEFINE t == <<x>> \o Tail(o.todo)
<1>2. /\ t \in Seq(StepName) /\ Len(t) = Len(o.todo) /\ t[1] = x
      /\ \A i \in 2..Len(o.todo) : t[i] = o.todo[i]
  BY <1>1, PutFacts
<1>3. Len(o.todo) \in Nat /\ Len(o.todo) > 0
  BY <1>1
<1> HIDE DEF t
<1>4. /\ n \in Operation /\ n.todo = t /\ n.kind = o.kind /\ n.mode = o.mode /\ n.result = o.result
  BY <1>1, <1>2 DEF Operation, t
<1>5. ~Bindless(n) => ~Bindless(o)
  <2> SUFFICES ASSUME NEW i \in 1..Len(t), t[i] = "bound" PROVE ~Bindless(o)
    BY <1>4 DEF Bindless
  <2>1. i \in 2..Len(o.todo)
    BY <1>2, <1>3
  <2> QED BY <1>2, <1>3, <2>1 DEF Bindless
<1>6. \A i \in 2..Len(t) : t[i] = "bound" => t[i - 1] = "match"
  <2> SUFFICES ASSUME NEW i \in 2..Len(t), t[i] = "bound" PROVE t[i - 1] = "match"
    OBVIOUS
  <2>1. o.todo[i] = "bound" /\ o.todo[i - 1] = "match"
    BY <1>2 DEF Sound
  <2>2. i - 1 \in 2..Len(o.todo)
    BY <1>2, <1>3, <2>1
  <2> QED BY <1>2, <2>1, <2>2
<1>7. t # <<>>
  BY <1>2, <1>3
<1> QED BY <1>1, <1>2, <1>4, <1>5, <1>6, <1>7 DEF Sound

(* What an operation found, whom it waits for, and what it sampled does    *)
(* not change what it still has to do.                                     *)
LEMMA Notes ==
    ASSUME NEW o, Sound(o), NEW n,
           \/ \E r \in MODES \union {"none", "fingerprint", "bound"} : n = [o EXCEPT !.result = r]
           \/ \E j \in {0} \union Matcher : n = [o EXCEPT !.joins = j]
           \/ \E x \in Object \union {NoObject} : n = [o EXCEPT !.cand = x]
    PROVE  /\ Sound(n) /\ (Bindless(n) <=> Bindless(o)) /\ n.mode = o.mode /\ n.todo = o.todo
BY DEF Sound, Operation, Bindless

-----------------------------------------------------------------------------
(* What a mode's file, the matcher's answer and the other variables may be *)
(* is independent of the operations.                                       *)
Updates == [hits : SUBSET MODES, unsure : BOOLEAN, stable : SUBSET MODES]
RestTypeOK ==
    /\ surface \in Surface \union {"none"}
    /\ hw \in {"free", "ours", "rival"} /\ backend \in {"none", "open", "unavailable"}
    /\ thread \in {0} \union Matcher /\ stop \in BOOLEAN /\ consumers \in Nat
    /\ loop \in [Matcher -> LoopStep] /\ update \in [Matcher -> Updates]
    /\ {frame, scene} \subseteq Frame \union {NoFrame}
    /\ refs \in [MODES -> Object \union {NoObject}]
    /\ recent \subseteq MODES /\ answer \in MODES \union {"none", "ambiguous"}
    /\ seen \subseteq Entry /\ carried \subseteq Entry
SessionInv == RestTypeOK /\ op \in [Worker -> Operation] /\ OpInv /\ AnswerSeen

LEMMA TypeOf == SessionInv => SessionTypeOK
BY DEF SessionInv, RestTypeOK, SessionTypeOK, OpInv, Sound, Updates

(* What a frame says of each mode.                                         *)
LEMMA Sees ==
    ASSUME RestTypeOK, NEW s \in Sights, NEW o \in Outcomes[s.modes]
    PROVE  s.shown \in Frame /\ o \in Updates /\ o.stable = {}
<1>1. s.shown \in Frame /\ s.modes \in SUBSET MODES
  <2>1. PICK objects \in Frame :
            s = [shown |-> Kept(objects), modes |-> {m \in MODES : Matches(m, objects)}]
    BY DEF Sights
  <2> QED BY <2>1 DEF Kept, Frame
<1>2. PICK reading \in Readings :
         o = LET verdict == [m \in MODES |-> Verdict(m \in s.modes, reading[1], reading[2])]
                 unsure == \E m \in MODES : verdict[m] = "ambiguous"
             IN  [NoUpdate EXCEPT !.unsure = unsure,
                      !.hits = IF unsure THEN {} ELSE {m \in MODES : verdict[m] = "accepted"}]
  BY <1>1 DEF Outcomes
<1> DEFINE verdict == [m \in MODES |-> Verdict(m \in s.modes, reading[1], reading[2])]
<1> DEFINE unsure == \E m \in MODES : verdict[m] = "ambiguous"
<1> DEFINE hits == IF unsure THEN {} ELSE {m \in MODES : verdict[m] = "accepted"}
<1>3. unsure \in BOOLEAN /\ hits \in SUBSET MODES
  OBVIOUS
<1>4. o = [hits |-> hits, unsure |-> unsure, stable |-> {}]
  BY <1>2 DEF NoUpdate
<1> HIDE DEF unsure, hits
<1> QED BY <1>1, <1>3, <1>4 DEF Updates

LEMMA AnswerIs ==
    ASSUME NEW stable \in SUBSET MODES
    PROVE  /\ Answer(stable) \in MODES \union {"none", "ambiguous"}
           /\ Answer(stable) \in MODES => Answer(stable) \in stable
<1>1. stable # {} => (CHOOSE m \in stable : TRUE) \in stable
  OBVIOUS
<1> QED BY <1>1 DEF Answer, MODES

(* The steps of the matcher and the camera leave the operations alone, and *)
(* a frame that answers with a mode counts as one that matched it.         *)
LEMMA UpdateKeeps ==
    ASSUME SessionInv, NEW i \in Matcher, Update(i)
    PROVE  RestTypeOK' /\ AnswerSeen' /\ UNCHANGED <<surface, op, seen, carried>>
<1> USE DEF SessionInv, camera, matching, gate, bindings
<1>1. /\ update[i] \in Updates /\ update[i].stable \subseteq update[i].hits
      /\ update[i].hits \intersect Entry \subseteq Vouched
  BY DEF RestTypeOK, AnswerSeen
<1>2. /\ UNCHANGED <<surface, hw, backend, thread, stop, consumers, scene, refs, op, frame, seen, carried>>
      /\ Vouched' = Vouched
      /\ loop' \in [Matcher -> LoopStep]
  BY DEF Update, SliceHistory, StoreHistory, Publish, Goto, RestTypeOK, LoopStep, Vouched
<1>3. NoUpdate \in Updates /\ NoUpdate.stable = {} /\ NoUpdate.hits = {}
  BY DEF NoUpdate, Updates
<1>4. ASSUME NEW u \in Updates, update' = [update EXCEPT ![i] = u], u.stable \subseteq u.hits,
             u.hits \intersect Entry \subseteq Vouched, recent' \subseteq MODES,
             answer' \in MODES \union {"none", "ambiguous"},
             \A m \in Entry : answer' = m => m \in Vouched
      PROVE  RestTypeOK' /\ AnswerSeen'
  <2>1. RestTypeOK'
    BY <1>2, <1>4 DEF RestTypeOK
  <2>2. \A j \in Matcher : update'[j] = IF j = i THEN u ELSE update[j]
    BY <1>4 DEF RestTypeOK
  <2>3. AnswerSeen'
    BY <1>2, <1>4, <2>2 DEF AnswerSeen
  <2> QED BY <2>1, <2>3
<1>5. CASE SliceHistory(i)
  <2> DEFINE u == [update[i] EXCEPT !.stable = update[i].hits \intersect recent]
  <2>1. u \in Updates /\ u.stable \subseteq u.hits /\ u.hits = update[i].hits
    BY <1>1 DEF Updates
  <2>2. update' = [update EXCEPT ![i] = u] /\ recent' = recent
        /\ answer' = IF update[i].unsure THEN "ambiguous" ELSE answer
    <3>1. update' = [update EXCEPT ![i].stable = update[i].hits \intersect recent]
      BY <1>5 DEF SliceHistory
    <3> QED BY <1>5, <3>1 DEF SliceHistory
  <2>3. /\ recent' \subseteq MODES /\ answer' \in MODES \union {"none", "ambiguous"}
        /\ \A m \in Entry : answer' = m => m \in Vouched
    BY <2>2, EntryAssumption DEF RestTypeOK, AnswerSeen, MODES
  <2> HIDE DEF u
  <2> QED BY <1>1, <1>2, <1>4, <2>1, <2>2, <2>3
<1>6. CASE StoreHistory(i)
  <2>1. /\ recent' \subseteq MODES /\ answer' = answer
        /\ answer' \in MODES \union {"none", "ambiguous"}
        /\ \A m \in Entry : answer' = m => m \in Vouched
    BY <1>1, <1>6 DEF StoreHistory, RestTypeOK, AnswerSeen, Updates
  <2>2. update' = [update EXCEPT ![i] = NoUpdate] \/ update' = [update EXCEPT ![i] = update[i]]
    BY <1>6 DEF StoreHistory, RestTypeOK
  <2> QED BY <1>1, <1>2, <1>3, <1>4, <2>1, <2>2
<1>7. CASE Publish(i)
  <2>1. update' = [update EXCEPT ![i] = NoUpdate] /\ recent' = recent
        /\ answer' = Answer(update[i].stable)
    BY <1>7 DEF Publish
  <2>2. update[i].stable \in SUBSET MODES
    BY <1>1 DEF Updates
  <2>3. /\ answer' \in MODES \union {"none", "ambiguous"}
        /\ answer' \in MODES => answer' \in update[i].stable
    BY <2>1, <2>2, AnswerIs
  <2>4. \A m \in Entry : answer' = m => m \in Vouched
    BY <1>1, <2>3, EntryAssumption
  <2>5. recent' \subseteq MODES
    BY <2>1 DEF RestTypeOK
  <2> QED BY <1>2, <1>3, <1>4, <2>1, <2>3, <2>4, <2>5
<1> QED BY <1>2, <1>5, <1>6, <1>7 DEF Update

LEMMA LoopKeeps ==
    ASSUME SessionInv, RetryDue \/ RivalOpens \/ RivalCloses \/ \E i \in Matcher : Loop(i)
    PROVE  RestTypeOK' /\ AnswerSeen' /\ Vouched \subseteq Vouched' /\ UNCHANGED <<surface, op>>
<1> USE DEF SessionInv, camera, matching, gate, bindings
<1>1. CASE RetryDue \/ RivalOpens \/ RivalCloses
  BY <1>1 DEF RetryDue, RivalOpens, RivalCloses, RestTypeOK, AnswerSeen, Vouched
<1>2. ASSUME NEW i \in Matcher, Enter(i) \/ Check(i) \/ Leave(i) \/ Release(i)
      PROVE  RestTypeOK' /\ AnswerSeen' /\ Vouched \subseteq Vouched' /\ UNCHANGED <<surface, op>>
  BY <1>2 DEF Enter, Check, Leave, Release, Goto, CloseCamera, RestTypeOK, AnswerSeen, Vouched, LoopStep
<1>3. ASSUME NEW i \in Matcher, Read(i)
      PROVE  RestTypeOK' /\ AnswerSeen' /\ Vouched \subseteq Vouched' /\ UNCHANGED <<surface, op>>
  <2>1. /\ hw' \in {"free", "ours", "rival"} /\ backend' \in {"none", "open", "unavailable"}
        /\ loop' \in [Matcher -> LoopStep]
        /\ UNCHANGED <<surface, thread, stop, consumers, bindings, op>>
    BY <1>3 DEF Read, OpenAndRead, MayTry, Opens, StaysShut, Goto, RestTypeOK, LoopStep
  <2>2. CASE UNCHANGED matching
    BY <2>1, <2>2 DEF RestTypeOK, AnswerSeen, Vouched
  <2>3. CASE \E s \in Sights : \E o \in Outcomes[s.modes] : Look(i, s.shown, o)
    <3>0. PICK s \in Sights : \E o \in Outcomes[s.modes] : Look(i, s.shown, o)
      BY <2>3
    <3>1. PICK o \in Outcomes[s.modes] : Look(i, s.shown, o)
      BY <3>0
    <3>2. s.shown \in Frame /\ o \in Updates /\ o.stable = {}
      BY <3>1, Sees
    <3>3. /\ frame' = s.shown /\ recent' = recent /\ answer' = answer /\ carried' = carried
          /\ seen' = seen \union (o.hits \intersect Entry)
          /\ update' = [update EXCEPT ![i] = o]
      BY <3>1 DEF Look
    <3>4. Vouched' = Vouched \union (o.hits \intersect Entry)
      BY <3>3 DEF Vouched
    <3>5. RestTypeOK'
      BY <2>1, <3>2, <3>3 DEF RestTypeOK
    <3>6. \A j \in Matcher : update'[j] = IF j = i THEN o ELSE update[j]
      BY <3>3 DEF RestTypeOK
    <3>7. AnswerSeen'
      BY <3>2, <3>3, <3>4, <3>6 DEF AnswerSeen
    <3> QED BY <2>1, <3>4, <3>5, <3>7
  <2> QED BY <1>3, <2>2, <2>3 DEF Read
<1>4. ASSUME NEW i \in Matcher, Update(i)
      PROVE  RestTypeOK' /\ AnswerSeen' /\ Vouched \subseteq Vouched' /\ UNCHANGED <<surface, op>>
  BY <1>4, UpdateKeeps DEF Vouched
<1> QED BY <1>1, <1>2, <1>3, <1>4 DEF Loop

-----------------------------------------------------------------------------
(* The one worker that goes on keeps what is said of all, if it does so of *)
(* itself: when a binding is yet to be checked, there is no other.         *)
Reports(w, n) ==
    /\ n.result = "secret" => op[w].result = "secret" \/ answer = "secret"
    /\ n.result = "bound" => op[w].result = "bound" \/ At(w, "bound")
ReportsOK == \A w \in Worker : Reports(w, op'[w])

LEMMA Moved ==
    ASSUME SessionInv, NEW w \in Worker, NEW n, op' = [op EXCEPT ![w] = n], surface' = surface,
           op[w].todo # <<>>, Sound(n), Reports(w, n),
           ~Bindless(n) => ~Bindless(op[w]),
           n.todo # <<>> /\ n.todo[1] = "bound" => ~Bindless(n) /\ n.mode \in Vouched'
    PROVE  OpInv' /\ op' \in [Worker -> Operation] /\ ReportsOK
<1>1. /\ op \in [Worker -> Operation] /\ n \in Operation /\ op'[w] = n
      /\ \A v \in Worker : v # w => op'[v] = op[v]
      /\ op' \in [Worker -> Operation]
  BY DEF SessionInv, Sound
<1>2. op[w].kind # "idle" /\ surface # "none" /\ \A v \in Worker : Sound(op[v])
      /\ (surface # "console" => w = 1)
  BY DEF SessionInv, OpInv, Sound, Alone
<1>3. \A v \in Worker : v # w /\ ~Bindless(op[v]) => surface = "cli" /\ op[v].kind # "idle" /\ v = 1
  BY DEF SessionInv, OpInv, Sound, Alone
<1>4. \A v \in Worker : v # w => Bindless(op[v])
  BY <1>2, <1>3
<1>5. Alone'
  BY <1>1, <1>2 DEF SessionInv, OpInv, Alone
<1>6. \A o : Sound(o) /\ o.todo # <<>> /\ Head(o.todo) = "bound" => ~Bindless(o) /\ o.todo[1] = "bound"
  <2> SUFFICES ASSUME NEW o, Sound(o), o.todo # <<>>, Head(o.todo) = "bound"
               PROVE  ~Bindless(o) /\ o.todo[1] = "bound"
    OBVIOUS
  <2>1. o.todo \in Seq(StepName)
    BY DEF Sound, Operation
  <2>2. 1 \in 1..Len(o.todo) /\ o.todo[1] = "bound"
    BY <2>1, TailFacts
  <2> QED BY <2>2 DEF Bindless
<1>7. ASSUME NEW v \in Worker
      PROVE  /\ Sound(op'[v]) /\ (~Bindless(op'[v]) => surface' = "cli")
             /\ At(v, "bound")' => op'[v].mode \in Vouched'
  <2>1. CASE v = w
    <3>1. At(v, "bound")' => n.todo # <<>> /\ Head(n.todo) = "bound"
      BY <1>1, <2>1 DEF At
    <3>2. ~Bindless(op[w]) => surface = "cli"
      BY DEF SessionInv, OpInv
    <3> QED BY <1>1, <1>6, <2>1, <3>1, <3>2
  <2>2. CASE v # w
    <3>1. At(v, "bound")' => op[v].todo # <<>> /\ Head(op[v].todo) = "bound"
      BY <1>1, <2>2 DEF At
    <3> QED BY <1>1, <1>2, <1>4, <1>6, <2>2, <3>1
  <2> QED BY <2>1, <2>2
<1>8. ReportsOK
  BY <1>1 DEF ReportsOK, Reports
<1>9. \A v \in Worker : /\ Sound(op'[v]) /\ (Bindless(op'[v]) \/ surface' = "cli")
                        /\ At(v, "bound")' => op'[v].mode \in Vouched'
  BY <1>7
<1> QED BY <1>1, <1>5, <1>8, <1>9 DEF OpInv

(* Where a worker stands.                                                  *)
LEMMA Stands ==
    ASSUME SessionInv, NEW w \in Worker, NEW x, At(w, x)
    PROVE  /\ op[w] \in Operation /\ Sound(op[w]) /\ op[w].todo # <<>> /\ op[w].todo[1] = x
           /\ op[w].kind # "idle"
<1>1. op[w] \in Operation /\ Sound(op[w]) /\ op[w].todo # <<>> /\ Head(op[w].todo) = x
  BY DEF SessionInv, OpInv, At
<1>2. op[w].todo \in Seq(StepName)
  BY <1>1 DEF Operation
<1> QED BY <1>1, <1>2, TailFacts DEF Sound

(* A worker gives up, with what it found, or goes on to its next step: the *)
(* check of a binding comes after no step but the wait for the match.      *)
Conclusion == OpInv' /\ op' \in [Worker -> Operation] /\ ReportsOK
LEMMA Dropped ==
    ASSUME SessionInv, NEW w \in Worker, NEW x, At(w, x), surface' = surface, Refuse(w)
    PROVE  Conclusion
<1>1. Sound(op[w]) /\ op[w].todo # <<>>
  BY Stands
<1>2. op' = [op EXCEPT ![w] = Go(op[w], <<>>)]
  BY DEF Refuse, Keep
<1> QED BY <1>1, <1>2, Drops, Moved DEF Reports, Conclusion

LEMMA DroppedWith ==
    ASSUME SessionInv, NEW w \in Worker, NEW x, At(w, x), surface' = surface,
           Keep(w, [Go(op[w], <<>>) EXCEPT !.result = "fingerprint"])
    PROVE  Conclusion
<1>1. Sound(op[w]) /\ op[w].todo # <<>>
  BY Stands
<1> DEFINE o == Go(op[w], <<>>)
<1> DEFINE n == [o EXCEPT !.result = "fingerprint"]
<1>2. op' = [op EXCEPT ![w] = n]
  BY DEF Keep
<1>3. /\ Sound(o) /\ Bindless(o) /\ (o.todo # <<>> => o.todo[1] # "bound")
  BY <1>1, Drops
<1>4. Sound(n) /\ Bindless(n) /\ n.todo = o.todo
  BY <1>3, Notes
<1>5. n.result = "fingerprint"
  BY <1>3 DEF Sound, Operation
<1> HIDE DEF n, o
<1> QED BY <1>1, <1>2, <1>3, <1>4, <1>5, Moved DEF Reports, Conclusion

LEMMA Stepped ==
    ASSUME SessionInv, NEW w \in Worker, NEW x, x # "match", At(w, x), surface' = surface,
           \/ Done(w)
           \/ \E r \in MODES \union {"none", "fingerprint", "bound"} :
                 /\ Keep(w, [Step(w) EXCEPT !.result = r])
                 /\ r = "secret" => answer = "secret"
                 /\ r = "bound" => x = "bound"
           \/ \E j \in {0} \union Matcher : Keep(w, [Step(w) EXCEPT !.joins = j])
           \/ \E o \in Object \union {NoObject} : Keep(w, [Step(w) EXCEPT !.cand = o])
    PROVE  Conclusion
<1>1. Sound(op[w]) /\ op[w].todo # <<>> /\ op[w].todo[1] = x
  BY Stands
<1> DEFINE o == Step(w)
<1>2. /\ Sound(o) /\ o.result = op[w].result
      /\ ~Bindless(o) => ~Bindless(op[w])
      /\ ~(o.todo # <<>> /\ o.todo[1] = "bound")
  BY <1>1, Advances DEF Step
<1>3. ASSUME NEW n, Sound(n), Bindless(n) <=> Bindless(o), n.todo = o.todo, Reports(w, n),
             op' = [op EXCEPT ![w] = n]
      PROVE  Conclusion
  BY <1>1, <1>2, <1>3, Moved DEF Conclusion
<1> HIDE DEF o
<1>4. CASE op' = [op EXCEPT ![w] = o]
  BY <1>2, <1>3, <1>4 DEF Reports
<1>5. ASSUME NEW r \in MODES \union {"none", "fingerprint", "bound"},
             op' = [op EXCEPT ![w] = [o EXCEPT !.result = r]],
             r = "secret" => answer = "secret", r = "bound" => x = "bound"
      PROVE  Conclusion
  <2> DEFINE n == [o EXCEPT !.result = r]
  <2>1. Sound(n) /\ (Bindless(n) <=> Bindless(o)) /\ n.todo = o.todo
    BY <1>2, Notes
  <2>2. n.result = r
    BY <1>2 DEF Sound, Operation
  <2> HIDE DEF n
  <2>3. Reports(w, n)
    BY <1>5, <2>2 DEF Reports
  <2>4. op' = [op EXCEPT ![w] = n]
    BY <1>5 DEF n
  <2> QED BY <1>3, <2>1, <2>3, <2>4
<1>6. ASSUME NEW j \in {0} \union Matcher, op' = [op EXCEPT ![w] = [o EXCEPT !.joins = j]]
      PROVE  Conclusion
  <2> DEFINE n == [o EXCEPT !.joins = j]
  <2>1. Sound(n) /\ (Bindless(n) <=> Bindless(o)) /\ n.todo = o.todo
    BY <1>2, Notes
  <2>2. n.result = o.result
    BY <1>2 DEF Sound, Operation
  <2> HIDE DEF n
  <2>3. Reports(w, n)
    BY <1>2, <2>2 DEF Reports
  <2>4. op' = [op EXCEPT ![w] = n]
    BY <1>6 DEF n
  <2> QED BY <1>3, <2>1, <2>3, <2>4
<1>7. ASSUME NEW c \in Object \union {NoObject}, op' = [op EXCEPT ![w] = [o EXCEPT !.cand = c]]
      PROVE  Conclusion
  <2> DEFINE n == [o EXCEPT !.cand = c]
  <2>1. Sound(n) /\ (Bindless(n) <=> Bindless(o)) /\ n.todo = o.todo
    BY <1>2, Notes
  <2>2. n.result = o.result
    BY <1>2 DEF Sound, Operation
  <2> HIDE DEF n
  <2>3. Reports(w, n)
    BY <1>2, <2>2 DEF Reports
  <2>4. op' = [op EXCEPT ![w] = n]
    BY <1>7 DEF n
  <2> QED BY <1>3, <2>1, <2>3, <2>4
<1> QED BY <1>4, <1>5, <1>6, <1>7 DEF Done, Keep, o

LEMMA Jumped ==
    ASSUME SessionInv, NEW w \in Worker, NEW x, x # "match", At(w, x), surface' = surface,
           NEW y \in StepName \ {"bound"},
           \/ Keep(w, Jump(w, y))
           \/ \E j \in {0} \union Matcher : Keep(w, [Jump(w, y) EXCEPT !.joins = j])
    PROVE  Conclusion
<1>1. Sound(op[w]) /\ op[w].todo # <<>> /\ op[w].todo[1] = x
  BY Stands
<1> DEFINE o == Jump(w, y)
<1>2. /\ Sound(o) /\ o.result = op[w].result
      /\ ~Bindless(o) => ~Bindless(op[w])
      /\ ~(o.todo # <<>> /\ o.todo[1] = "bound")
  <2>1. o = [op[w] EXCEPT !.todo = <<y>> \o Tail(op[w].todo)]
    BY DEF Jump
  <2> HIDE DEF o
  <2> QED BY <1>1, <2>1, Jumps
<1>3. ASSUME NEW n, Sound(n), Bindless(n) <=> Bindless(o), n.todo = o.todo, n.result = o.result,
             op' = [op EXCEPT ![w] = n]
      PROVE  Conclusion
  BY <1>1, <1>2, <1>3, Moved DEF Conclusion, Reports
<1> HIDE DEF o
<1>4. CASE op' = [op EXCEPT ![w] = o]
  BY <1>2, <1>3, <1>4
<1>5. ASSUME NEW j \in {0} \union Matcher, op' = [op EXCEPT ![w] = [o EXCEPT !.joins = j]]
      PROVE  Conclusion
  <2> DEFINE n == [o EXCEPT !.joins = j]
  <2>1. Sound(n) /\ (Bindless(n) <=> Bindless(o)) /\ n.todo = o.todo
    BY <1>2, Notes
  <2>2. n.result = o.result
    BY <1>2 DEF Sound, Operation
  <2> HIDE DEF n
  <2>3. op' = [op EXCEPT ![w] = n]
    BY <1>5 DEF n
  <2> QED BY <1>3, <2>1, <2>2, <2>3
<1> QED BY <1>4, <1>5 DEF Keep, o

-----------------------------------------------------------------------------
(* What an operation's own steps do.                                       *)
Steady == RestTypeOK' /\ AnswerSeen' /\ Conclusion

LEMMA BeginKeeps ==
    ASSUME SessionInv, NEW w \in Worker, Begin(w) PROVE Steady
<1>1. RestTypeOK' /\ AnswerSeen' /\ surface' = surface /\ Vouched' = Vouched
  BY DEF Begin, SessionInv, RestTypeOK, AnswerSeen, Vouched, camera, gate, matching, bindings
<1>2. PICK p \in Program[surface], m \in Entry :
         op' = [op EXCEPT ![w] =
            [Idle EXCEPT !.kind = p[1], !.mode = Named(p[1], m), !.todo = p[2]]]
  BY DEF Begin, Keep
<1> DEFINE n == [Idle EXCEPT !.kind = p[1], !.mode = Named(p[1], m), !.todo = p[2]]
<1>3. surface \in {"console", "cli", "web"}
  BY SurfaceAssumption DEF Begin, SessionInv, RestTypeOK
<1>4. /\ p[1] \in {"use", "retrieve", "bind", "image"} /\ p[2] \in Seq(StepName) /\ p[2] # <<>>
      /\ \A i \in 1..Len(p[2]) : p[2][i] = "bound" => surface = "cli" /\ p[1] = "bind"
      /\ \A i \in 2..Len(p[2]) : p[2][i] = "bound" => p[2][i - 1] = "match"
      /\ p[2][1] # "bound"
  BY <1>3, Programs
<1>5. /\ Idle \in Operation /\ Idle.result = "none"
      /\ Named(p[1], m) \in Entry \union {"none"}
      /\ p[1] = "bind" => Named(p[1], m) = m
  <2>1. <<>> \in Seq(StepName)
    OBVIOUS
  <2> QED BY <2>1 DEF Idle, Operation, Named
<1>6. /\ n \in Operation /\ n.kind = p[1] /\ n.todo = p[2] /\ n.result = "none"
      /\ p[1] = "bind" => n.mode = m
  BY <1>4, <1>5 DEF Operation
<1> HIDE DEF n
<1>7. ~Bindless(n) => n.kind = "bind" /\ n.mode \in Entry /\ surface = "cli"
  BY <1>4, <1>6 DEF Bindless
<1>8. Sound(n)
  BY <1>4, <1>6, <1>7 DEF Sound
<1>9. /\ op' \in [Worker -> Operation] /\ op'[w] = n /\ op[w].kind = "idle"
      /\ \A v \in Worker : v # w => op'[v] = op[v]
  BY <1>2, <1>6 DEF SessionInv, Begin, Free, n
<1>10. Alone'
  BY <1>1, <1>9 DEF Alone, SessionInv, OpInv, Begin, Free
<1>11. ReportsOK
  BY <1>6, <1>9 DEF ReportsOK, Reports
<1>12. \A v \in Worker : /\ Sound(op'[v]) /\ (Bindless(op'[v]) \/ surface' = "cli")
                         /\ At(v, "bound")' => op'[v].mode \in Vouched'
  <2> SUFFICES ASSUME NEW v \in Worker
               PROVE  /\ Sound(op'[v]) /\ (Bindless(op'[v]) \/ surface' = "cli")
                      /\ At(v, "bound")' => op'[v].mode \in Vouched'
    OBVIOUS
  <2>1. CASE v = w
    <3>1. ~At(v, "bound")'
      BY <1>4, <1>6, <1>9, <2>1, TailFacts DEF At
    <3> QED BY <1>1, <1>7, <1>8, <1>9, <2>1, <3>1
  <2>2. CASE v # w
    BY <1>1, <1>9, <2>2 DEF SessionInv, OpInv, At
  <2> QED BY <2>1, <2>2
<1> QED BY <1>1, <1>9, <1>10, <1>11, <1>12 DEF Steady, Conclusion, OpInv

LEMMA GateKeeps ==
    ASSUME SessionInv, NEW w \in Worker,
           Started(w) \/ Start(w) \/ Stop(w) \/ Join(w) \/ Await(w) \/ ReleaseCamera(w)
    PROVE  Steady
<1> USE DEF camera, gate, matching, bindings
<1>0. thread \in {0} \union Matcher /\ loop \in [Matcher -> LoopStep]
  BY DEF SessionInv, RestTypeOK
<1>1. RestTypeOK'
  <2> USE DEF SessionInv, RestTypeOK
  <2>1. CASE Started(w) \/ Stop(w) \/ Join(w) \/ Await(w)
    BY <2>1 DEF Started, Stop, Join, Await
  <2>2. CASE Start(w)
    BY <2>2 DEF Start, Goto, LoopStep
  <2>3. CASE ReleaseCamera(w)
    BY <2>3 DEF ReleaseCamera, CloseCamera
  <2> QED BY <2>1, <2>2, <2>3
<1>2. surface' = surface /\ Vouched' = Vouched /\ answer' = answer /\ update' = update
  BY DEF Vouched, Started, Start, Stop, Join, Await, ReleaseCamera
<1>3. AnswerSeen'
  BY <1>2 DEF AnswerSeen, SessionInv
<1>4. Conclusion
  <2>1. CASE Started(w)
    BY <1>2, <2>1, Jumped, Stepped DEF Started, StepName, Done
  <2>2. CASE Start(w)
    BY <1>2, <2>2, Stepped DEF Start
  <2>3. CASE Stop(w)
    BY <1>2, <2>3, Stepped, "none" \in MODES \union {"none", "fingerprint", "bound"},
       "none" # "secret", "none" # "bound", "stop" # "match" DEF Stop
  <2>4. CASE Join(w)
    BY <1>0, <1>2, <2>4, Jumped, Stepped DEF Join, StepName, Done
  <2>5. CASE Await(w)
    BY <1>2, <2>5, Stepped DEF Await
  <2>6. CASE ReleaseCamera(w)
    <3> DEFINE n == [Idle EXCEPT !.kind = "over"]
    <3>1. op' = [op EXCEPT ![w] = n] /\ At(w, "release")
      BY <2>6 DEF ReleaseCamera, Keep
    <3>2. <<>> \in Seq(StepName) /\ Len(<<>>) = 0
      OBVIOUS
    <3>3. Idle \in Operation /\ Idle.todo = <<>> /\ Idle.result = "none"
      BY <3>2 DEF Idle, Operation
    <3>4. n \in Operation /\ n.kind = "over" /\ n.todo = <<>> /\ n.result = "none"
      BY <3>3 DEF Operation
    <3> HIDE DEF n
    <3>5. Sound(n) /\ Bindless(n)
      BY <3>2, <3>4 DEF Sound, Bindless
    <3>6. op[w].todo # <<>>
      BY <3>1, Stands
    <3> QED BY <1>2, <3>1, <3>4, <3>5, <3>6, Moved DEF Conclusion, Reports
  <2> QED BY <2>1, <2>2, <2>3, <2>4, <2>5, <2>6
<1> QED BY <1>1, <1>3, <1>4 DEF Steady

LEMMA WaitKeeps ==
    ASSUME SessionInv, NEW w \in Worker,
           \/ Frames(w) \/ Settle(w) \/ Match(w) \/ Prompt(w) \/ Decide(w) \/ EnsureObjectBinding(w)
    PROVE  Steady
<1> USE DEF camera, gate, matching, bindings
<1>1. /\ RestTypeOK' /\ AnswerSeen'
      /\ surface' = surface /\ Vouched' = Vouched /\ answer' = answer
  BY DEF Vouched, Frames, Settle, Match, Prompt, Decide, EnsureObjectBinding, SessionInv, RestTypeOK, AnswerSeen
<1>2. Conclusion
  <2>1. CASE Frames(w) \/ Settle(w) \/ Prompt(w)
    BY <1>1, <2>1, Dropped, Stepped DEF Frames, Settle, Prompt
  <2>2. CASE Match(w)
    <3>1. CASE Refuse(w)
      BY <1>1, <2>2, <3>1, Dropped DEF Match
    <3>2. CASE Done(w)
      <4>1. Sound(op[w]) /\ op[w].todo # <<>> /\ op[w].todo[1] = "match"
        BY <2>2, Stands DEF Match
      <4> DEFINE n == Step(w)
      <4>2. /\ Sound(n) /\ n.result = op[w].result
            /\ ~Bindless(n) => ~Bindless(op[w]) /\ n.mode = op[w].mode
            /\ n.todo # <<>> /\ n.todo[1] = "bound" => ~Bindless(n)
        BY <4>1, Advances DEF Step
      <4>3. op' = [op EXCEPT ![w] = n]
        BY <3>2 DEF Done, Keep
      <4>4. CASE Bindless(op[w])
        BY <1>1, <4>1, <4>2, <4>3, <4>4, Moved DEF Conclusion, Reports
      <4>5. CASE ~Bindless(op[w])
        <5>1. op[w].kind = "bind" /\ op[w].mode \in Entry
          BY <4>1, <4>5 DEF Sound
        <5>2. CASE Matched(w)
          <6>1. op[w].mode \in Vouched
            BY <5>1, <5>2 DEF Matched, Expected, SessionInv, AnswerSeen
          <6> HIDE DEF n
          <6> QED BY <1>1, <4>1, <4>2, <4>3, <4>5, <6>1, Moved DEF Conclusion, Reports
        <5>3. CASE ~Matched(w)
          BY <1>1, <2>2, <5>1, <5>3, Dropped DEF Match, ReadsOn
        <5> QED BY <5>2, <5>3
      <4> QED BY <4>4, <4>5
    <3> QED BY <2>2, <3>1, <3>2 DEF Match
  <2>3. CASE Decide(w)
    <3>1. PICK x \in {"decide", "cue"} : At(w, x)
      BY <2>3 DEF Decide
    <3>2. CASE Refuse(w)
      BY <1>1, <3>1, <3>2, Dropped
    <3>3. ASSUME NEW how \in Presented(w), Keep(w, [Step(w) EXCEPT !.result = how])
          PROVE  Conclusion
      <4>1. /\ how \in MODES \union {"none", "fingerprint", "bound"}
            /\ how = "secret" => answer = "secret"
            /\ how # "bound"
        BY <3>3 DEF Presented, Tokens, CameraProfile, MODES
      <4> QED BY <1>1, <3>1, <3>3, <4>1, Stepped
    <3> QED BY <2>3, <3>2, <3>3 DEF Decide
  <2>4. CASE EnsureObjectBinding(w)
    <3>1. PICK x : At(w, x)
      BY <2>4 DEF EnsureObjectBinding
    <3>2. CASE Refuse(w)
      BY <1>1, <3>1, <3>2, Dropped
    <3>3. CASE Keep(w, [Go(op[w], <<>>) EXCEPT !.result = "fingerprint"])
      BY <1>1, <3>1, <3>3, DroppedWith
    <3> QED BY <2>4, <3>2, <3>3 DEF EnsureObjectBinding, CameraProfile
  <2> QED BY <2>1, <2>2, <2>3, <2>4
<1> QED BY <1>1, <1>2 DEF Steady

(* What an update under way may yet publish is carried over a reset.       *)
LEMMA Forgets ==
    ASSUME AnswerSeen, NEW modes, Forget(modes), answer' = "none", UNCHANGED update
    PROVE  AnswerSeen'
<1>1. ASSUME NEW i \in Matcher, NEW m \in update[i].hits \intersect Entry
      PROVE  m \in Vouched'
  BY <1>1 DEF Forget, AnswerSeen, Vouched
<1>2. \A m \in Entry : answer' # m
  BY EntryAssumption DEF MODES
<1> QED BY <1>1, <1>2 DEF AnswerSeen

LEMMA BindKeeps ==
    ASSUME SessionInv, NEW w \in Worker, Bind(w) PROVE Steady
<1> USE DEF camera, gate, matching, bindings
<1>0. \A o \in Candidates : o \in Object
  BY DEF Candidates, Mask, Changed, SessionInv, RestTypeOK, Frame
<1>1. CASE CaptureScene(w) \/ CaptureReference(w) \/ Bound(w)
  <2>1. RestTypeOK' /\ AnswerSeen' /\ surface' = surface
    BY <1>1 DEF CaptureScene, CaptureReference, Bound, SessionInv, RestTypeOK, AnswerSeen, Vouched
  <2>2. CASE CaptureScene(w) \/ CaptureReference(w)
    BY <2>1, <2>2, Dropped, Stepped DEF CaptureScene, CaptureReference, Steady
  <2>3. CASE Bound(w)
    BY <2>1, <2>3, Stepped, "bound" \in MODES \union {"none", "fingerprint", "bound"},
       "bound" # "secret", "bound" # "match" DEF Bound, Steady
  <2> QED BY <1>1, <2>2, <2>3
<1>2. CASE Sample(w) \/ SampleImage(w)
  <2>1. RestTypeOK' /\ AnswerSeen' /\ surface' = surface
    BY <1>2 DEF Sample, SampleImage, SessionInv, RestTypeOK, AnswerSeen, Vouched
  <2>2. CASE Sample(w)
    BY <1>0, <2>1, <2>2, Dropped, Stepped DEF Sample, Steady
  <2>3. CASE SampleImage(w)
    BY <2>1, <2>3, Stepped DEF SampleImage, Steady
  <2> QED BY <1>2, <2>2, <2>3
<1>3. CASE Commit(w)
  <2>1. surface' = surface /\ At(w, "commit")
    BY <1>3 DEF Commit
  <2>2. CASE Refuse(w) /\ UNCHANGED <<matching, bindings>>
    <3>1. RestTypeOK' /\ AnswerSeen'
      BY <1>3, <2>2 DEF Commit, SessionInv, RestTypeOK, AnswerSeen, Vouched
    <3> QED BY <2>1, <2>2, <3>1, Dropped DEF Steady
  <2>3. ASSUME Done(w), Reset(op[w].mode), refs' = [refs EXCEPT ![op[w].mode] = op[w].cand],
               scene' = IF op[w].kind = "bind" THEN NoFrame ELSE scene
        PROVE  Steady
    <3>1. op[w].cand \in Object \union {NoObject}
      BY DEF SessionInv, Operation
    <3>2. refs' \in [MODES -> Object \union {NoObject}]
      BY <2>3, <3>1 DEF SessionInv, RestTypeOK
    <3>3. RestTypeOK'
      BY <1>3, <2>3, <3>2 DEF Commit, Reset, Forget, SessionInv, RestTypeOK
    <3>4. AnswerSeen'
      BY <2>3, Forgets DEF Reset, SessionInv
    <3> QED BY <2>1, <2>3, <3>3, <3>4, Stepped DEF Steady
  <2> QED BY <1>3, <2>2, <2>3 DEF Commit
<1> QED BY <1>1, <1>2, <1>3 DEF Bind

(* Clearing the references, the end of the process and the next one.       *)
LEMMA NobodyBinds ==
    ASSUME SessionInv, UNCHANGED op, surface' = surface,
           surface # "cli" \/ Vouched \subseteq Vouched'
    PROVE  Conclusion
BY DEF SessionInv, OpInv, Alone, At, Conclusion, ReportsOK, Reports, Bindless

LEMMA ClearKeeps ==
    ASSUME SessionInv, ClearReferences PROVE Steady
<1>1. /\ surface' = surface /\ surface # "cli" /\ UNCHANGED op
  BY DEF ClearReferences
<1>2. RestTypeOK'
  BY DEF ClearReferences, Forget, SessionInv, RestTypeOK, camera, gate
<1>3. AnswerSeen'
  BY Forgets DEF ClearReferences, SessionInv
<1> QED BY <1>1, <1>2, <1>3, NobodyBinds DEF Steady

LEMMA BeginsAgain ==
    /\ Sound(Idle) /\ Bindless(Idle)
    /\ Idle \in Operation /\ Idle.kind = "idle" /\ Idle.todo = <<>> /\ Idle.result = "none"
<1>1. <<>> \in Seq(StepName) /\ Len(<<>>) = 0
  OBVIOUS
<1>2. Idle \in Operation /\ Idle.kind = "idle" /\ Idle.todo = <<>> /\ Idle.result = "none"
  BY <1>1 DEF Idle, Operation
<1>3. Bindless(Idle) /\ Sound(Idle)
  BY <1>1, <1>2 DEF Bindless, Sound
<1> QED BY <1>2, <1>3

LEMMA EndKeeps ==
    ASSUME SessionInv, ProcessEnds PROVE Steady
<1>1. RestTypeOK'
  BY DEF ProcessEnds, SessionInv, RestTypeOK, NoUpdate, Updates, LoopStep
<1>2. AnswerSeen'
  BY EntryAssumption DEF ProcessEnds, AnswerSeen, MODES, NoUpdate
<1>3. op' = [w \in Worker |-> Idle] /\ surface' = "none"
  BY DEF ProcessEnds
<1>4. Conclusion
  BY <1>3, BeginsAgain DEF Conclusion, OpInv, Alone, ReportsOK, Reports, At
<1> QED BY <1>1, <1>2, <1>4 DEF Steady

LEMMA LaunchKeeps ==
    ASSUME SessionInv, Launch PROVE Steady
<1>1. RestTypeOK'
  BY EarlierAssumption DEF Launch, SessionInv, RestTypeOK, camera, gate, matching
<1>2. AnswerSeen'
  BY DEF Launch, SessionInv, AnswerSeen, Vouched, matching
<1>3. /\ op' = op /\ Vouched' = Vouched
      /\ \A w \in Worker : op[w].kind = "idle" /\ Sound(op[w])
  BY DEF Launch, matching, Vouched, SessionInv, OpInv, Alone
<1>4. \A w \in Worker : op[w].todo = <<>> /\ Bindless(op[w])
  BY <1>3 DEF Sound, Bindless
<1>5. Conclusion
  BY <1>3, <1>4 DEF Conclusion, SessionInv, OpInv, Alone, ReportsOK, Reports, At
<1> QED BY <1>1, <1>2, <1>5 DEF Steady

LEMMA StepKeeps == SessionInv /\ [SessionNext]_sessionVars => SessionInv' /\ ReportsOK
<1> SUFFICES ASSUME SessionInv, [SessionNext]_sessionVars PROVE Steady
  BY DEF Steady, Conclusion, SessionInv
<1>1. CASE RetryDue \/ RivalOpens \/ RivalCloses \/ \E i \in Matcher : Loop(i)
  BY <1>1, LoopKeeps, NobodyBinds DEF Steady
<1>2. ASSUME NEW w \in Worker, Begin(w) \/ Prompt(w) \/ Work(w) PROVE Steady
  BY <1>2, BeginKeeps, WaitKeeps, GateKeeps, BindKeeps DEF Work, Close
<1>3. CASE ClearReferences \/ ProcessEnds \/ Launch
  BY <1>3, ClearKeeps, EndKeeps, LaunchKeeps
<1>4. CASE UNCHANGED sessionVars
  <2>1. /\ UNCHANGED <<op, surface, seen, carried, answer, update>> /\ RestTypeOK'
    BY <1>4 DEF sessionVars, camera, gate, matching, bindings, SessionInv, RestTypeOK
  <2> QED BY <2>1, NobodyBinds DEF Steady, SessionInv, AnswerSeen, Vouched
<1> QED BY <1>1, <1>2, <1>3, <1>4 DEF SessionNext

LEMMA SessionInvHolds == SessionSpec => []SessionInv
<1>1. SessionInit => SessionInv
  <2> SUFFICES ASSUME SessionInit PROVE SessionInv
    OBVIOUS
  <2>1. RestTypeOK
    BY DEF SessionInit, RestTypeOK, NoUpdate, Updates, LoopStep
  <2>2. AnswerSeen
    BY EntryAssumption DEF SessionInit, AnswerSeen, MODES, NoUpdate
  <2>3. OpInv /\ op \in [Worker -> Operation]
    BY BeginsAgain DEF SessionInit, OpInv, Alone, At
  <2> QED BY <2>1, <2>2, <2>3 DEF SessionInv
<1>2. SessionInv /\ [SessionNext]_sessionVars => SessionInv'
  BY StepKeeps
<1> QED BY <1>1, <1>2, PTL DEF SessionSpec

-----------------------------------------------------------------------------
(* The matcher's threads, its workers and their operations keep their      *)
(* types, however start(), close() and the frames interleave.              *)
THEOREM SessionTypeCorrect == SessionSpec => []SessionTypeOK
BY SessionInvHolds, TypeOf, PTL

(* The cue opens the secret Face only after its present reference has      *)
(* matched a frame of this process, whatever binds, clears and restarts    *)
(* come in between, or by an update that had matched the former reference  *)
(* and was under way when that was replaced or cleared. How long ago the   *)
(* match was is not said.                                                  *)
THEOREM SecretEarnedHolds ==
    ASSUME "secret" \in Entry PROVE SessionSpec => SecretEarned
<1>1. SessionInv /\ [SessionNext]_sessionVars =>
        [\A w \in Worker :
            op[w].result # "secret" /\ op'[w].result = "secret" => "secret" \in seen \union carried]_sessionVars
  BY StepKeeps DEF ReportsOK, Reports, SessionInv, AnswerSeen, Vouched
<1> QED BY <1>1, SessionInvHolds, PTL DEF SessionSpec, SecretEarned

(* The command line reports an object bound only when the reference it set *)
(* has matched since, or by an update under way at the commit that had     *)
(* matched the reference before.                                           *)
THEOREM BindingCheckedHolds == SessionSpec => BindingChecked
<1>1. SessionInv /\ [SessionNext]_sessionVars =>
        [\A w \in Worker :
            op[w].result # "bound" /\ op'[w].result = "bound" => op[w].mode \in seen \union carried]_sessionVars
  BY StepKeeps DEF ReportsOK, Reports, SessionInv, OpInv, Vouched
<1> QED BY <1>1, SessionInvHolds, PTL DEF SessionSpec, BindingChecked
=============================================================================
