----------------------------- MODULE ConsoleProofs -----------------------------
(***************************************************************************)
(* What Console, and Accounts under it, guarantee for any tenants,         *)
(* sessions, passes and number of requests under way; and, at the end,     *)
(* Bootstrap, the setup and the stores that both rest on.                  *)
(***************************************************************************)
EXTENDS Console, Bootstrap, Integers, SequenceTheorems, WellFoundedInduction, TLAPS

(* The inductive invariant.                                                *)

Steps == {None, "login", "session", "membership", "act", "describe", "update", "remove", "answered"}
Origins == {None, "start", "switcher", "create", "delete", "config", "left"}
TenantOps == {"switch", "create", "delete"}

Record ==
  [op : {None, "login", "me"} \cup Ops, at : Steps, from : Origins,
   who : Session \cup Pass \cup {None}, target : Tenant \cup Pass \cup {None},
   tenant : Tenant \cup {NoTenant}, members : SUBSET Tenant,
   moved : SUBSET Session, to : Tenant \cup {NoTenant},
   last : BOOLEAN, acted : BOOLEAN, stale : BOOLEAN]

Pages == {Home, Tenants} \cup {Config(t) : t \in Tenant}

TabState ==
  [on : BOOLEAN, me : {"due", "asked"}, user : Tenant \cup {NoTenant},
   members : SUBSET Tenant, hash : Pages, route : Pages]

PassState == [tenant : Tenant \cup {NoTenant}, state : {None, "valid", "revoked", "gone"}]

Shape ==
  /\ tenants \subseteq Tenant
  /\ rows \subseteq Session
  /\ of \in [Session -> Tenant \cup {NoTenant}]
  /\ pass \in [Pass -> PassState]
  /\ link \in [Enrollment -> {None, "hello", "up"}]
  /\ request \in [Request -> Record]
  /\ told \subseteq Pass
  /\ tab \in TabState

\* A deletion under way moves nobody into the tenant it deletes, and a request
\* that came with a dead bearer is not let in.
RequestOK(q) ==
  /\ q.op = None => q.at = None /\ ~q.stale
  /\ q.op \in TenantOps => q.target \in Tenant
  /\ q.at = "remove" => q.op = "delete" /\ q.to # q.target
  /\ q.stale => q.at \in {"session", "answered"}

\* Whoever is in the tenant of a deletion that has moved its sessions is about
\* to be moved, came in since, or belongs to a user with no other tenant.
Held(q) ==
  \A s \in rows : of[s] = q.target => s \in q.moved \/ s \in joined \/ q.last

Requests == \A r \in Request : RequestOK(request[r])
Entered == \A r \in Deleting : Held(request[r])
Dead == \A k \in told : pass[k].state \in {"revoked", "gone"}
StaleIsDead == \A r \in Request : request[r].stale => request[r].who \in told

IInv == Shape /\ Requests /\ Entered /\ Dead /\ StaleIsDead

-----------------------------------------------------------------------------
(* What a handler does to its request.                                     *)

\* The request of slot r becomes q, which is no deletion that has moved its
\* sessions, is stale only if its bearer is dead, and is not let in if it was stale.
Becomes(r, q) ==
  /\ q \in Record /\ RequestOK(q) /\ q.at # "remove"
  /\ q.stale => q.who \in told
  /\ q.at = "act" => ~request[r].stale
  /\ request' = [request EXCEPT ![r] = q]

LEMMA FreeIsRecord ==
  Free \in Record /\ RequestOK(Free) /\ Free.at \notin {"remove", "act"} /\ ~Free.stale
BY DEF Free, Record, RequestOK, Steps, Origins, TenantOps, Ops, None, NoTenant

\* An answer keeps who asked and what; one that nobody waits for is dropped.
LEMMA AnswerBecomes ==
  ASSUME IInv, NEW r \in Request, request[r].op # None,
         NEW t \in Tenant \cup {NoTenant}, NEW m \in SUBSET Tenant, Answer(r, t, m)
  PROVE  \E q : Becomes(r, q)
<1>1. CASE request[r].from = None
  <2>1. request' = [request EXCEPT ![r] = Free]
    BY <1>1 DEF Answer, IInv, Shape
  <2> QED
    BY <2>1, FreeIsRecord DEF Becomes
<1>2. CASE request[r].from # None
  <2> DEFINE q == [request[r] EXCEPT !.at = "answered", !.tenant = t, !.members = m]
  <2>1. request' = [request EXCEPT ![r] = q]
    BY <1>2 DEF Answer, IInv, Shape
  <2>2. request[r] \in Record /\ RequestOK(request[r]) /\ (request[r].stale => request[r].who \in told)
    BY DEF IInv, Shape, Requests, StaleIsDead
  <2>3. q \in Record /\ q.at = "answered"
    BY <2>2 DEF Record, Steps
  <2>4. q.op = request[r].op /\ q.target = request[r].target /\ q.stale = request[r].stale /\ q.who = request[r].who
    BY <2>2 DEF Record
  <2> HIDE DEF q
  <2> QED
    BY <2>1, <2>2, <2>3, <2>4 DEF Becomes, RequestOK
<1> QED
  BY <1>1, <1>2

LEMMA RefuseBecomes ==
  ASSUME IInv, NEW r \in Request, request[r].op # None, Refuse(r)
  PROVE  \E q : Becomes(r, q)
<1>1. NoTenant \in Tenant \cup {NoTenant} /\ {} \in SUBSET Tenant
  OBVIOUS
<1> QED
  BY <1>1, AnswerBecomes DEF Refuse

\* A request goes a step further, with the tenant that was found.
LEMMA AdvanceBecomes ==
  ASSUME IInv, NEW r \in Request, request[r].op # None, ~request[r].stale,
         NEW at \in {"membership", "act", "describe", "update"},
         NEW t \in Tenant \cup {NoTenant},
         request' = [request EXCEPT ![r].at = at, ![r].tenant = t]
  PROVE  \E q : Becomes(r, q)
<1> DEFINE q == [request[r] EXCEPT !.at = at, !.tenant = t]
<1>1. request[r] \in Record /\ RequestOK(request[r])
  BY DEF IInv, Shape, Requests
<1>2. request' = [request EXCEPT ![r] = q]
  BY <1>1 DEF IInv, Shape, Record
<1>3. q \in Record /\ q.at = at
  BY <1>1, ZenonT(60) DEF Record, Steps
<1>4. q.op = request[r].op /\ q.target = request[r].target /\ q.stale = request[r].stale
  BY ONLY <1>1 DEF Record
<1> HIDE DEF q
<1> QED
  BY <1>1, <1>2, <1>3, <1>4 DEF Becomes, RequestOK

LEMMA GoToBecomes ==
  ASSUME IInv, NEW r \in Request, request[r].op # None, ~request[r].stale,
         NEW at \in {"membership", "act", "describe", "update"}, GoTo(r, at)
  PROVE  \E q : Becomes(r, q)
<1>1. request[r] \in Record
  BY DEF IInv, Shape
<1>2. request[r].tenant \in Tenant \cup {NoTenant}
  BY <1>1 DEF Record
<1>3. request' = [request EXCEPT ![r].at = at, ![r].tenant = request[r].tenant]
  BY <1>1 DEF GoTo, IInv, Shape, Record
<1> QED
  BY <1>2, <1>3, AdvanceBecomes

\* A switch and a creation resolve the session once more.
LEMMA AgainBecomes ==
  ASSUME IInv, NEW r \in Request, request[r].op # None, Again(r)
  PROVE  \E q : Becomes(r, q)
<1> DEFINE q == [request[r] EXCEPT !.at = "session", !.acted = TRUE]
<1>1. request[r] \in Record /\ RequestOK(request[r]) /\ (request[r].stale => request[r].who \in told)
  BY DEF IInv, Shape, Requests, StaleIsDead
<1>2. request' = [request EXCEPT ![r] = q]
  BY <1>1 DEF IInv, Shape, Record, Again
<1>3. q \in Record /\ q.at = "session"
  BY <1>1 DEF Record, Steps
<1>4. q.op = request[r].op /\ q.target = request[r].target /\ q.stale = request[r].stale /\ q.who = request[r].who
  BY <1>1 DEF Record
<1> HIDE DEF q
<1> QED
  BY <1>1, <1>2, <1>3, <1>4 DEF Becomes, RequestOK

\* A new request is stale exactly when its bearer is dead.
LEMMA AskedBecomes ==
  ASSUME IInv, NEW r \in Request, NEW from \in Origins, NEW who \in Session \cup Pass,
         NEW op \in {"me"} \cup Ops, NEW target \in Tenant \cup Pass \cup {None},
         op \in TenantOps => target \in Tenant, Asked(r, from, who, op, target)
  PROVE  \E q : Becomes(r, q)
<1> DEFINE dead == who \in told
           q == [Free EXCEPT !.op = op, !.at = "session", !.from = from, !.who = who,
                             !.target = target, !.stale = dead]
<1>1. request' = [request EXCEPT ![r] = q] /\ dead \in BOOLEAN /\ (dead => who \in told)
  BY DEF Asked
<1> HIDE DEF dead
<1>2. q \in Record
  BY <1>1, FreeIsRecord DEF Free, Record, Steps
<1>3. q.op = op /\ q.at = "session" /\ q.target = target /\ q.who = who /\ q.stale = dead
  BY DEF Free
<1>4. op # None
  BY DEF Ops, None
<1> HIDE DEF q
<1> QED
  BY <1>1, <1>2, <1>3, <1>4 DEF Becomes, RequestOK

-----------------------------------------------------------------------------
(* What a step does to the requests, and to who is in which tenant.        *)

\* The requests req are the current ones, but that some were answered, left or
\* taken a step further and others came.
Follows(req) ==
  /\ req \in [Request -> Record]
  /\ \A p \in Request :
       /\ RequestOK(req[p])
       /\ req[p].stale => req[p].who \in told
       /\ request[p].stale => req[p].at # "act"
       /\ req[p].at = "remove" =>
            /\ At(p, "remove")
            /\ req[p].target = request[p].target /\ req[p].moved = request[p].moved
            /\ req[p].last = request[p].last

\* No request that is stale is let in.
KeptOut == \A p \in Request : request[p].stale => request'[p].at # "act"

LEMMA SameFollows ==
  ASSUME IInv
  PROVE  Follows(request)
BY DEF IInv, Shape, Requests, RequestOK, StaleIsDead, Follows, At

LEMMA SlotFollows ==
  ASSUME NEW req, Follows(req), NEW r \in Request, NEW q \in Record, RequestOK(q),
         q.at # "remove", q.stale => q.who \in told, q.at = "act" => ~request[r].stale
  PROVE  Follows([req EXCEPT ![r] = q])
<1> DEFINE new == [req EXCEPT ![r] = q]
<1>1. new \in [Request -> Record]
  BY DEF Follows
<1>2. new[r] = q /\ \A p \in Request \ {r} : new[p] = req[p]
  BY DEF Follows
<1> HIDE DEF new
<1>3. \A p \in Request :
        /\ RequestOK(new[p])
        /\ new[p].stale => new[p].who \in told
        /\ request[p].stale => new[p].at # "act"
        /\ new[p].at = "remove" =>
             /\ At(p, "remove")
             /\ new[p].target = request[p].target /\ new[p].moved = request[p].moved
             /\ new[p].last = request[p].last
  <2> TAKE p \in Request
  <2>1. CASE p = r
    BY <1>2, <2>1
  <2>2. CASE p # r
    BY <1>2, <2>2 DEF Follows
  <2> QED
    BY <2>1, <2>2
<1>4. Follows(new)
  BY <1>1, <1>3 DEF Follows
<1> QED
  BY <1>4 DEF new

LEMMA BecomesFollows ==
  ASSUME IInv, NEW r \in Request, \E q : Becomes(r, q)
  PROVE  Follows(request')
<1>1. PICK q : Becomes(r, q)
  OBVIOUS
<1>2. Follows([request EXCEPT ![r] = q])
  BY <1>1, SameFollows, SlotFollows DEF Becomes
<1> QED
  BY <1>1, <1>2 DEF Becomes

\* The sessions S enter tenant t, or nobody moves and S is empty.
Enter(S, t) ==
  /\ \A s \in rows' : \/ s \in S /\ of'[s] = t
                      \/ s \notin S /\ s \in rows /\ of'[s] = of[s]
  /\ Joins(S, t)

LEMMA NobodyEnters ==
  ASSUME IInv, UNCHANGED <<rows, of, joined>>
  PROVE  Enter({}, NoTenant)
<1>1. rows' = rows /\ of' = of /\ joined' = joined
  OBVIOUS
<1> QED
  BY <1>1 DEF Enter, Joins

LEMMA EnterHeld ==
  ASSUME IInv, Follows(request'), NEW S, NEW t, Enter(S, t), told \subseteq told'
  PROVE  Requests' /\ Entered' /\ StaleIsDead'
<1>1. Requests' /\ StaleIsDead'
  BY DEF Follows, Requests, RequestOK, StaleIsDead
<1>2. Entered'
  <2>1. SUFFICES ASSUME NEW p \in Request, request'[p].at = "remove", NEW s \in rows',
                        of'[s] = request'[p].target
                 PROVE  s \in request'[p].moved \/ s \in joined' \/ request'[p].last
    BY DEF Entered, Deleting, Held, At
  <2>2. /\ p \in Deleting
        /\ request'[p].target = request[p].target /\ request'[p].moved = request[p].moved
        /\ request'[p].last = request[p].last
    BY <2>1 DEF Follows, Deleting
  <2>3. CASE s \in S /\ of'[s] = t
    <3>1. request[p].target = t
      BY <2>1, <2>2, <2>3
    <3>2. joined' = joined \cup S
      BY <2>2, <3>1 DEF Enter, Joins
    <3> QED
      BY <2>3, <3>2
  <2>4. CASE s \notin S /\ s \in rows /\ of'[s] = of[s]
    <3>1. s \in joined => s \in joined'
      BY <2>4 DEF Enter, Joins
    <3>2. s \in request[p].moved \/ s \in joined \/ request[p].last
      BY <2>1, <2>2, <2>4 DEF IInv, Entered, Held
    <3> QED
      BY <2>2, <3>1, <3>2
  <2> QED
    BY <2>1, <2>3, <2>4 DEF Enter
<1> QED
  BY <1>1, <1>2

\* A step that touches nothing but requests keeps the invariant.
LEMMA RequestStep ==
  ASSUME IInv, Follows(request'), tab' \in TabState,
         UNCHANGED <<tenants, rows, of, pass, link, joined, told>>
  PROVE  IInv' /\ KeptOut
<1>1. /\ tenants' = tenants /\ rows' = rows /\ of' = of /\ pass' = pass /\ link' = link
      /\ joined' = joined /\ told' = told
  OBVIOUS
<1>2. Enter({}, NoTenant)
  BY NobodyEnters
<1>3. Requests' /\ Entered' /\ StaleIsDead'
  BY <1>1, <1>2, EnterHeld
<1>4. Shape'
  BY <1>1 DEF Shape, IInv, Follows
<1>5. Dead'
  BY <1>1 DEF Dead, IInv
<1> QED
  BY <1>3, <1>4, <1>5 DEF IInv, Follows, KeptOut

-----------------------------------------------------------------------------
(* The handlers.                                                           *)

\* A handler has a request: its slot is in use.
LEMMA InUse ==
  ASSUME IInv, NEW r \in Request, request[r].at # None
  PROVE  /\ request[r].op # None
         /\ request[r] \in Record /\ RequestOK(request[r])
         /\ request[r].stale => request[r].at \in {"session", "answered"}
BY DEF IInv, Shape, Requests, RequestOK

\* A dead pass lets nobody in, and is nobody's session.
LEMMA DeadIsRefused ==
  ASSUME IInv, NEW k \in told
  PROVE  ~Valid(k) /\ k \notin Session /\ ~Live(k)
<1>1. k \in Pass
  BY DEF IInv, Shape
<1>2. k \notin Session
  BY <1>1, PassAssumption DEF Pass
<1>3. ~Valid(k)
  BY DEF IInv, Dead, Valid
<1> QED
  BY <1>2, <1>3 DEF Live, IInv, Shape

LEMMA FindSessionStep ==
  ASSUME IInv, NEW r \in Request, FindSession(r), UNCHANGED tab
  PROVE  IInv' /\ KeptOut
<1> DEFINE who == request[r].who
<1>1. At(r, "session") /\ request[r].at # None
  BY DEF FindSession, At, None
<1>2. /\ request[r].op # None /\ request[r] \in Record
      /\ request[r].stale => who \in told
  BY <1>1, InUse DEF IInv, StaleIsDead
<1>3. Live(who) \/ Valid(who) => ~request[r].stale
  BY <1>2, DeadIsRefused
<1>4. \E q : Becomes(r, q)
  <2>1. CASE Live(who)
    <3>1. of[who] \in Tenant \cup {NoTenant}
      BY <2>1 DEF Live, IInv, Shape
    <3>2. request' = [request EXCEPT ![r].at = "membership", ![r].tenant = of[who]]
      BY <2>1 DEF FindSession
    <3> QED
      BY <1>2, <1>3, <2>1, <3>1, <3>2, AdvanceBecomes
  <2>2. CASE ~Live(who) /\ who \in Credential /\ Valid(who)
    <3>1. pass[who].tenant \in Tenant \cup {NoTenant}
      BY <2>2 DEF Pass, PassState, IInv, Shape
    <3>2. request' = [request EXCEPT ![r].at = "act", ![r].tenant = pass[who].tenant]
      BY <2>2 DEF FindSession
    <3> QED
      BY <1>2, <1>3, <2>2, <3>1, <3>2, AdvanceBecomes
  <2>3. CASE ~Live(who) /\ ~(who \in Credential /\ Valid(who))
    <3>1. Refuse(r)
      BY <2>3 DEF FindSession
    <3> QED
      BY <1>2, <3>1, RefuseBecomes
  <2> QED
    BY <2>1, <2>2, <2>3
<1>5. Follows(request')
  BY <1>4, BecomesFollows
<1>6. tab' \in TabState /\ UNCHANGED <<tenants, rows, of, pass, link, joined, told>>
  BY DEF IInv, Shape, FindSession
<1> QED
  BY <1>5, <1>6, RequestStep

LEMMA FindMembershipStep ==
  ASSUME IInv, NEW r \in Request, FindMembership(r), UNCHANGED tab
  PROVE  IInv' /\ KeptOut
<1>1. At(r, "membership") /\ request[r].at # None
  BY DEF FindMembership, At, None
<1>2. request[r].op # None /\ ~request[r].stale
  BY <1>1, InUse DEF At
<1>3. Refuse(r) \/ GoTo(r, "describe") \/ GoTo(r, "act")
  BY DEF FindMembership
<1>4. \E q : Becomes(r, q)
  BY <1>2, <1>3, RefuseBecomes, GoToBecomes
<1>5. Follows(request')
  BY <1>4, BecomesFollows
<1>6. tab' \in TabState /\ UNCHANGED <<tenants, rows, of, pass, link, joined, told>>
  BY DEF IInv, Shape, FindMembership
<1> QED
  BY <1>5, <1>6, RequestStep

LEMMA DescribeStep ==
  ASSUME IInv, NEW r \in Request, Describe(r), UNCHANGED tab
  PROVE  IInv' /\ KeptOut
<1>1. request[r].at # None
  BY DEF Describe, Acts, At, None
<1>2. /\ request[r].op # None
      /\ request[r].tenant \in Tenant \cup {NoTenant}
      /\ tenants \in SUBSET Tenant
  BY <1>1, InUse DEF Record, IInv, Shape
<1>3. \E q : Becomes(r, q)
  BY <1>2, AnswerBecomes DEF Describe
<1>4. Follows(request')
  BY <1>3, BecomesFollows
<1>5. tab' \in TabState /\ UNCHANGED <<tenants, rows, of, pass, link, joined, told>>
  BY DEF IInv, Shape, Describe
<1> QED
  BY <1>4, <1>5, RequestStep

LEMMA CheckSwitchStep ==
  ASSUME IInv, NEW r \in Request, CheckSwitch(r), UNCHANGED tab
  PROVE  IInv' /\ KeptOut
<1>1. At(r, "act") /\ request[r].at # None
  BY DEF CheckSwitch, Acts, At, None
<1>2. request[r].op # None /\ ~request[r].stale
  BY <1>1, InUse DEF At
<1>3. Refuse(r) \/ GoTo(r, "update")
  BY DEF CheckSwitch
<1>4. \E q : Becomes(r, q)
  BY <1>2, <1>3, RefuseBecomes, GoToBecomes
<1>5. Follows(request')
  BY <1>4, BecomesFollows
<1>6. tab' \in TabState /\ UNCHANGED <<tenants, rows, of, pass, link, joined, told>>
  BY DEF IInv, Shape, CheckSwitch
<1> QED
  BY <1>5, <1>6, RequestStep

LEMMA DeadlockStep ==
  ASSUME IInv, NEW r \in Request, Deadlock(r), UNCHANGED tab
  PROVE  IInv' /\ KeptOut
<1>1. request[r].at # None
  BY DEF Deadlock, WaitsFor, Deleting, At, None
<1>2. \E q : Becomes(r, q)
  BY <1>1, InUse, RefuseBecomes DEF Deadlock
<1>3. Follows(request')
  BY <1>2, BecomesFollows
<1>4. tab' \in TabState /\ UNCHANGED <<tenants, rows, of, pass, link, joined, told>>
  BY DEF IInv, Shape, Deadlock
<1> QED
  BY <1>3, <1>4, RequestStep

-----------------------------------------------------------------------------
(* Sessions that enter a tenant.                                           *)

\* What is left to show of a step that moves sessions S into tenant t.
LEMMA EnterStep ==
  ASSUME IInv, Follows(request'), NEW S, NEW t, Enter(S, t),
         tenants' \subseteq Tenant, rows' \subseteq Session,
         of' \in [Session -> Tenant \cup {NoTenant}],
         UNCHANGED <<pass, link, told, tab>>
  PROVE  IInv' /\ KeptOut
<1>1. pass' = pass /\ link' = link /\ told' = told /\ tab' = tab
  OBVIOUS
<1>2. Requests' /\ Entered' /\ StaleIsDead'
  BY <1>1, EnterHeld
<1>3. Shape'
  BY <1>1 DEF Shape, IInv, Follows
<1>4. Dead'
  BY <1>1 DEF Dead, IInv
<1> QED
  BY <1>2, <1>3, <1>4 DEF IInv, Follows, KeptOut

LEMMA CreateSessionStep ==
  ASSUME IInv, NEW r \in Request, NEW s \in Session, CreateSession(r, s), UNCHANGED tab
  PROVE  IInv' /\ KeptOut
<1> DEFINE t == request[r].tenant
<1>1. request[r] \in Record
  BY DEF IInv, Shape
<1>2. \E q : Becomes(r, q)
  BY FreeIsRecord DEF Becomes, CreateSession
<1>3. Follows(request')
  BY <1>2, BecomesFollows
<1>4. UNCHANGED <<tenants, pass, link, told, tab>>
  BY DEF CreateSession
<1>5. CASE t \in tenants
  <2>1. rows' = rows \cup {s} /\ of' = [of EXCEPT ![s] = t] /\ Joins({s}, t)
    BY <1>5 DEF CreateSession
  <2>2. Enter({s}, t)
    BY <2>1 DEF Enter, IInv, Shape
  <2>3. tenants' \subseteq Tenant /\ rows' \subseteq Session /\ of' \in [Session -> Tenant \cup {NoTenant}]
    BY <1>4, <1>5, <2>1 DEF IInv, Shape
  <2> QED
    BY <1>3, <1>4, <2>2, <2>3, EnterStep
<1>6. CASE t \notin tenants
  <2>1. UNCHANGED <<tenants, rows, of, pass, link, joined, told>> /\ tab' \in TabState
    BY <1>4, <1>6 DEF CreateSession, IInv, Shape
  <2> QED
    BY <1>3, <2>1, RequestStep
<1> QED
  BY <1>5, <1>6

LEMMA UpdateSessionTenantStep ==
  ASSUME IInv, NEW r \in Request, UpdateSessionTenant(r), UNCHANGED tab
  PROVE  IInv' /\ KeptOut
<1> DEFINE s == request[r].who
           t == request[r].target
<1>1. request[r].at # None
  BY DEF UpdateSessionTenant, At, None
<1>2. Refuse(r) \/ Again(r)
  BY DEF UpdateSessionTenant
<1>3. Follows(request')
  BY <1>1, <1>2, InUse, RefuseBecomes, AgainBecomes, BecomesFollows
<1>4. UNCHANGED <<tenants, rows, pass, link, told, tab>>
  BY DEF UpdateSessionTenant
<1>5. CASE s \in rows /\ t \in tenants
  <2>1. of' = [of EXCEPT ![s] = t] /\ Joins({s}, t) /\ rows' = rows
    BY <1>4, <1>5 DEF UpdateSessionTenant
  <2>2. Enter({s}, t)
    BY <2>1, <1>5 DEF Enter, IInv, Shape
  <2>3. tenants' \subseteq Tenant /\ rows' \subseteq Session /\ of' \in [Session -> Tenant \cup {NoTenant}]
    BY <1>4, <1>5, <2>1 DEF IInv, Shape
  <2> QED
    BY <1>3, <1>4, <2>2, <2>3, EnterStep
<1>6. CASE ~(s \in rows /\ t \in tenants)
  <2>1. UNCHANGED <<tenants, rows, of, pass, link, joined, told>> /\ tab' \in TabState
    BY <1>4, <1>6 DEF UpdateSessionTenant, IInv, Shape
  <2> QED
    BY <1>3, <2>1, RequestStep
<1> QED
  BY <1>5, <1>6

LEMMA CreateTenantStep ==
  ASSUME IInv, NEW r \in Request, CreateTenant(r), UNCHANGED tab
  PROVE  IInv' /\ KeptOut
<1> DEFINE s == request[r].who
           t == request[r].target
<1>1. request[r].at # None /\ request[r].op = "create"
  BY DEF CreateTenant, Acts, At, None
<1>2. Refuse(r) \/ Again(r)
  BY DEF CreateTenant
<1>3. Follows(request')
  BY <1>1, <1>2, InUse, RefuseBecomes, AgainBecomes, BecomesFollows
<1>4. UNCHANGED <<rows, pass, link, told, tab>>
  BY DEF CreateTenant
<1>5. CASE s \in rows /\ t \notin tenants
  <2>1. /\ tenants' = tenants \cup {t} /\ of' = [of EXCEPT ![s] = t] /\ Joins({s}, t)
        /\ rows' = rows
    BY <1>4, <1>5 DEF CreateTenant
  <2>2. t \in Tenant
    BY <1>1 DEF IInv, Requests, RequestOK, TenantOps
  <2>3. Enter({s}, t)
    BY <2>1, <1>5 DEF Enter, IInv, Shape
  <2>4. tenants' \subseteq Tenant /\ rows' \subseteq Session /\ of' \in [Session -> Tenant \cup {NoTenant}]
    BY <2>1, <2>2, <1>5 DEF IInv, Shape
  <2> QED
    BY <1>3, <1>4, <2>3, <2>4, EnterStep
<1>6. CASE ~(s \in rows /\ t \notin tenants)
  <2>1. UNCHANGED <<tenants, rows, of, pass, link, joined, told>> /\ tab' \in TabState
    BY <1>4, <1>6 DEF CreateTenant, IInv, Shape
  <2> QED
    BY <1>3, <2>1, RequestStep
<1> QED
  BY <1>5, <1>6

-----------------------------------------------------------------------------
(* The deletion of a tenant.                                               *)

\* Min returns the least element of a non-empty set of naturals, so the first
\* of the other tenants by name is one of them.
LEMMA LeastTenant ==
  ASSUME NEW I, I \subseteq Nat, I # {}
  PROVE  Min(I) \in I
<1>1. \E i \in I : \A j \in I : ~(<<j, i>> \in OpToRel(<, Nat))
  BY NatLessThanWellFounded, WFMin
<1>2. \A i, j \in Nat : (<<j, i>> \in OpToRel(<, Nat)) <=> j < i
  BY Zenon DEF OpToRel
<1>3. \E i \in I : \A j \in I : ~(j < i)
  BY <1>1, <1>2
<1>4. \E i \in I : \A j \in I : i <= j
  BY <1>3
<1> QED
  BY <1>4 DEF Min

\* The sessions of a deleted tenant move to another one, or there is none.
LEMMA AlternativeIsOther ==
  ASSUME IInv, NEW t \in tenants
  PROVE  /\ Alternative(t) \in Tenant \cup {NoTenant} /\ Alternative(t) # t
         /\ Alternative(t) = NoTenant => tenants = {t}
<1>1. tenants \subseteq Nat \ {0} /\ tenants \subseteq Tenant
  BY TenantAssumption DEF IInv, Shape
<1>2. CASE tenants \subseteq {t}
  <2>1. Alternative(t) = NoTenant
    BY <1>2 DEF Alternative
  <2> QED
    BY <1>1, <1>2, <2>1 DEF NoTenant
<1>3. CASE ~(tenants \subseteq {t})
  <2>1. tenants \ {t} \subseteq Nat /\ tenants \ {t} # {}
    BY <1>1, <1>3
  <2>2. Alternative(t) \in tenants \ {t}
    BY <1>3, <2>1, LeastTenant DEF Alternative
  <2> QED
    BY <1>1, <2>2 DEF NoTenant
<1> QED
  BY <1>2, <1>3

\* When the sessions have been moved, as far as the transaction sees, every
\* session of the tenant is among them or its user has no other tenant.
LEMMA MoveSessionsStep ==
  ASSUME IInv, NEW r \in Request, MoveSessions(r), UNCHANGED tab
  PROVE  IInv' /\ KeptOut
<1> DEFINE t == request[r].target
           to == Alternative(t)
           moved == IF to = NoTenant THEN {} ELSE InTenant(t)
           last == tenants = {t}
           q == [request[r] EXCEPT !.at = "remove", !.to = to, !.moved = moved, !.last = last]
<1>1. /\ request[r].at = "act" /\ request[r].at # None /\ request[r].op = "delete"
  BY DEF MoveSessions, Acts, At, None
<1>2. /\ request[r].op # None /\ request[r] \in Record /\ RequestOK(request[r])
      /\ ~request[r].stale
  BY <1>1, InUse
<1>3. UNCHANGED <<tenants, rows, of, pass, link, joined, told>> /\ tab' \in TabState
  BY DEF MoveSessions, IInv, Shape
<1>4. CASE ~(request[r].who \in Session /\ t \in tenants \ Protected)
  <2>1. Refuse(r)
    BY <1>4 DEF MoveSessions
  <2>2. Follows(request')
    BY <1>2, <2>1, RefuseBecomes, BecomesFollows
  <2> QED
    BY <1>3, <2>2, RequestStep
<1>5. CASE request[r].who \in Session /\ t \in tenants \ Protected
  <2>1. t \in tenants
    BY <1>5
  <2>2. to \in Tenant \cup {NoTenant} /\ to # t /\ (to = NoTenant => last)
    BY <2>1, AlternativeIsOther
  <2>3. moved \subseteq Session /\ last \in BOOLEAN
    BY DEF InTenant, IInv, Shape
  <2>4. \A s \in rows : of[s] = t => s \in moved \/ last
    BY <2>2 DEF InTenant
  <2>5. request' = [request EXCEPT ![r] = q]
    BY <1>2, <1>5 DEF MoveSessions, IInv, Shape, Record
  <2> HIDE DEF to, moved, last
  <2>6. q \in Record /\ q.at = "remove" /\ q.to = to /\ q.moved = moved /\ q.last = last
    BY <1>2, <2>2, <2>3, ZenonT(60) DEF Record, Steps
  <2>7. q.op = "delete" /\ q.target = t /\ ~q.stale
    BY <1>1, <1>2 DEF Record
  <2> HIDE DEF q
  <2>8. RequestOK(q)
    BY <1>1, <1>2, <2>2, <2>6, <2>7 DEF RequestOK, None
  <2>9. /\ request' \in [Request -> Record] /\ request'[r] = q
        /\ \A p \in Request \ {r} : request'[p] = request[p]
    BY <2>5, <2>6 DEF IInv, Shape
  <2>10. Shape' /\ Dead'
    BY <1>3, <2>9 DEF Shape, Dead, IInv
  <2>11. Requests' /\ StaleIsDead'
    BY <1>3, <2>7, <2>8, <2>9 DEF Requests, StaleIsDead, IInv
  <2>12. Entered'
    <3>1. SUFFICES ASSUME NEW p \in Request, request'[p].at = "remove", NEW s \in rows,
                          of[s] = request'[p].target
                   PROVE  s \in request'[p].moved \/ s \in joined \/ request'[p].last
      BY <1>3 DEF Entered, Deleting, Held, At
    <3>2. CASE p = r
      BY <2>4, <2>6, <2>7, <2>9, <3>1, <3>2
    <3>3. CASE p # r
      BY <2>9, <3>1, <3>3 DEF IInv, Entered, Deleting, Held, At
    <3> QED
      BY <3>2, <3>3
  <2>13. KeptOut
    BY <1>2, <2>6, <2>9 DEF KeptOut, IInv, Requests, RequestOK
  <2> QED
    BY <2>10, <2>11, <2>12, <2>13 DEF IInv
<1> QED
  BY <1>4, <1>5

\* The moved sessions enter their new tenant; who stayed goes with the old one,
\* and its passes die.
LEMMA RemoveTenantStep ==
  ASSUME IInv, NEW r \in Request, RemoveTenant(r), UNCHANGED tab
  PROVE  IInv' /\ KeptOut
<1> DEFINE t == request[r].target
           to == request[r].to
           kept == request[r].moved
           passes == {k \in Pass : pass[k].tenant = t}
<1>1. request[r].at # None
  BY DEF RemoveTenant, At, None
<1>2. request[r].op # None /\ request[r] \in Record
  BY <1>1, InUse
<1>3. /\ to \in Tenant \cup {NoTenant} /\ kept \subseteq Session
      /\ request[r].tenant \in Tenant \cup {NoTenant} /\ {} \in SUBSET Tenant
  BY <1>2 DEF Record
<1>4. Refuse(r) \/ Answer(r, request[r].tenant, {})
  BY DEF RemoveTenant
<1>5. Follows(request')
  BY <1>2, <1>3, <1>4, RefuseBecomes, AnswerBecomes, BecomesFollows
<1>6. link' = link /\ tab' = tab
  BY DEF RemoveTenant
<1>7. CASE t \notin tenants
  <2>1. UNCHANGED <<tenants, rows, of, pass, link, joined, told>> /\ tab' \in TabState
    BY <1>6, <1>7 DEF RemoveTenant, IInv, Shape
  <2> QED
    BY <1>5, <2>1, RequestStep
<1>8. CASE t \in tenants
  <2>1. /\ tenants' = tenants \ {t}
        /\ of' = [s \in Session |-> IF s \in kept THEN to ELSE of[s]]
        /\ rows' \subseteq rows
        /\ Joins(kept, to)
        /\ pass' = [k \in Pass |-> IF k \in passes THEN [pass[k] EXCEPT !.state = "gone"]
                                   ELSE pass[k]]
        /\ told' = told \cup passes
    BY <1>8 DEF RemoveTenant
  <2>2. Enter(kept, to)
    BY <2>1 DEF Enter, IInv, Shape
  <2>3. told \subseteq told' /\ told' \subseteq Pass
    BY <2>1 DEF IInv, Shape
  <2>4. Requests' /\ Entered' /\ StaleIsDead'
    BY <1>5, <2>2, <2>3, EnterHeld
  <2>5. \A k \in Pass : /\ pass'[k] \in PassState
                        /\ k \in passes => pass'[k].state = "gone"
                        /\ k \notin passes => pass'[k] = pass[k]
    BY <2>1 DEF IInv, Shape, PassState
  <2>6. /\ tenants' \subseteq Tenant /\ rows' \subseteq Session
        /\ of' \in [Session -> Tenant \cup {NoTenant}]
    BY <1>3, <2>1 DEF IInv, Shape
  <2>7. pass' \in [Pass -> PassState]
    BY <2>1, <2>5
  <2>8. Shape'
    BY <1>5, <1>6, <2>3, <2>6, <2>7 DEF IInv, Shape, Follows
  <2>9. Dead'
    BY <2>1, <2>3, <2>5 DEF IInv, Dead
  <2> QED
    BY <1>5, <2>4, <2>8, <2>9 DEF IInv, Follows, KeptOut
<1> QED
  BY <1>7, <1>8

-----------------------------------------------------------------------------
(* Passes.                                                                 *)

\* What is left to show of a step that mints or ends passes.
LEMMA PassStep ==
  ASSUME IInv, Follows(request'), pass' \in [Pass -> PassState],
         told \subseteq told', told' \subseteq Pass,
         \A k \in told' : pass'[k].state \in {"revoked", "gone"},
         UNCHANGED <<tenants, rows, of, link, joined, tab>>
  PROVE  IInv' /\ KeptOut
<1>1. /\ tenants' = tenants /\ rows' = rows /\ of' = of /\ link' = link /\ tab' = tab
      /\ joined' = joined
  OBVIOUS
<1>2. Requests' /\ Entered' /\ StaleIsDead'
  BY <1>1, NobodyEnters, EnterHeld
<1>3. Shape'
  BY <1>1 DEF Shape, IInv, Follows
<1> QED
  BY <1>2, <1>3 DEF IInv, Dead, Follows, KeptOut

\* A pass is minted where none was, so no dead one comes back.
LEMMA MintStep ==
  ASSUME IInv, Follows(request'), NEW k \in Pass, NEW t, Insert(k, t) \/ pass' = pass,
         UNCHANGED <<tenants, rows, of, link, joined, told, tab>>
  PROVE  IInv' /\ KeptOut
<1>1. pass' = pass \/ (pass[k].state = None /\ t \in tenants /\ pass' = [pass EXCEPT ![k] = [tenant |-> t, state |-> "valid"]])
  BY DEF Insert
<1>2. CASE pass' = pass
  BY <1>2, PassStep DEF IInv, Shape, Dead
<1>3. CASE pass[k].state = None /\ t \in tenants /\ pass' = [pass EXCEPT ![k] = [tenant |-> t, state |-> "valid"]]
  <2>1. pass' \in [Pass -> PassState] /\ \A x \in Pass \ {k} : pass'[x] = pass[x]
    BY <1>3 DEF IInv, Shape, PassState
  <2>2. k \notin told
    BY <1>3 DEF IInv, Dead, None
  <2>3. \A x \in told : pass'[x].state \in {"revoked", "gone"}
    BY <2>1, <2>2 DEF IInv, Shape, Dead
  <2> QED
    BY <2>1, <2>3, PassStep DEF IInv, Shape
<1> QED
  BY <1>1, <1>2, <1>3

\* A pass that is ended is dead from then on.
LEMMA EndStep ==
  ASSUME IInv, Follows(request'), NEW r \in Request, NEW K \in SUBSET Pass,
         NEW state \in {"revoked", "gone"}, End(r, K, state),
         UNCHANGED <<tenants, rows, of, link, joined, tab>>
  PROVE  IInv' /\ KeptOut
<1> DEFINE k == request[r].target
<1>1. CASE UNCHANGED <<pass, told>>
  BY <1>1, PassStep DEF IInv, Shape, Dead
<1>2. CASE k \in K /\ pass' = [pass EXCEPT ![k].state = state] /\ told' = told \cup {k}
  <2>1. /\ pass' \in [Pass -> PassState] /\ pass'[k].state = state
        /\ \A x \in Pass \ {k} : pass'[x] = pass[x]
    BY <1>2 DEF IInv, Shape, PassState
  <2>2. told \subseteq told' /\ told' \subseteq Pass
    BY <1>2 DEF IInv, Shape
  <2>3. \A x \in told' : pass'[x].state \in {"revoked", "gone"}
    BY <1>2, <2>1 DEF IInv, Shape, Dead
  <2> QED
    BY <2>1, <2>2, <2>3, PassStep
<1> QED
  BY <1>1, <1>2 DEF End

LEMMA MintTokenStep ==
  ASSUME IInv, NEW r \in Request, MintToken(r) \/ MintCredential(r), UNCHANGED tab
  PROVE  IInv' /\ KeptOut
<1>1. /\ request[r].at # None /\ request[r].target \in Pass /\ Refuse(r)
      /\ Insert(request[r].target, request[r].tenant) \/ pass' = pass
      /\ UNCHANGED <<tenants, rows, of, link, joined, told, tab>>
  BY DEF MintToken, MintCredential, Acts, At, None, Pass
<1>2. Follows(request')
  BY <1>1, InUse, RefuseBecomes, BecomesFollows
<1> QED
  BY <1>1, <1>2, MintStep

LEMMA EndTokenStep ==
  ASSUME IInv, NEW r \in Request, Deactivate(r) \/ RevokeCredential(r) \/ DeleteToken(r),
         UNCHANGED tab
  PROVE  IInv' /\ KeptOut
<1>1. /\ request[r].at # None /\ Refuse(r)
      /\ UNCHANGED <<tenants, rows, of, link, joined, tab>>
  BY DEF Deactivate, RevokeCredential, DeleteToken, Acts, At, None
<1>2. Follows(request')
  BY <1>1, InUse, RefuseBecomes, BecomesFollows
<1>3. CASE Deactivate(r)
  <2>1. Revocable \in SUBSET Pass /\ End(r, Revocable, "revoked")
    BY <1>3 DEF Deactivate, Revocable, Pass
  <2> QED
    BY <1>1, <1>2, <2>1, EndStep
<1>4. CASE RevokeCredential(r)
  <2>1. PICK K \in SUBSET Pass : End(r, K, "revoked")
    BY <1>4 DEF RevokeCredential, Pass
  <2> QED
    BY <1>1, <1>2, <2>1, EndStep
<1>5. CASE DeleteToken(r)
  <2>1. Enrollment \in SUBSET Pass /\ End(r, Enrollment, "gone")
    BY <1>5 DEF DeleteToken, Pass
  <2> QED
    BY <1>1, <1>2, <2>1, EndStep
<1> QED
  BY <1>3, <1>4, <1>5

-----------------------------------------------------------------------------
(* The API's steps.                                                        *)

LEMMA HandleStep ==
  ASSUME IInv, NEW r \in Request, Handle(r), UNCHANGED tab
  PROVE  IInv' /\ KeptOut
<1>1. CASE \E s \in Session : CreateSession(r, s)
  BY <1>1, CreateSessionStep
<1>2. CASE FindSession(r)
  BY <1>2, FindSessionStep
<1>3. CASE FindMembership(r)
  BY <1>3, FindMembershipStep
<1>4. CASE Describe(r)
  BY <1>4, DescribeStep
<1>5. CASE CheckSwitch(r)
  BY <1>5, CheckSwitchStep
<1>6. CASE UpdateSessionTenant(r)
  BY <1>6, UpdateSessionTenantStep
<1>7. CASE CreateTenant(r)
  BY <1>7, CreateTenantStep
<1>8. CASE MoveSessions(r)
  BY <1>8, MoveSessionsStep
<1>9. CASE RemoveTenant(r)
  BY <1>9, RemoveTenantStep
<1>10. CASE Deadlock(r)
  BY <1>10, DeadlockStep
<1>11. CASE MintToken(r) \/ MintCredential(r)
  BY <1>11, MintTokenStep
<1>12. CASE Deactivate(r) \/ RevokeCredential(r) \/ DeleteToken(r)
  BY <1>12, EndTokenStep
<1> QED
  BY <1>1, <1>2, <1>3, <1>4, <1>5, <1>6, <1>7, <1>8, <1>9, <1>10, <1>11, <1>12 DEF Handle

LEMMA LoadMembershipsStep ==
  ASSUME IInv, NEW r \in Request, LoadMemberships(r), UNCHANGED tab
  PROVE  IInv' /\ KeptOut
<1>1. PICK t \in tenants :
        request' = [request EXCEPT ![r] = [Free EXCEPT !.op = "login", !.at = "login", !.tenant = t]]
  BY DEF LoadMemberships
<1> DEFINE q == [Free EXCEPT !.op = "login", !.at = "login", !.tenant = t]
<1>2. t \in Tenant
  BY DEF IInv, Shape
<1>3. q \in Record
  BY <1>2, FreeIsRecord DEF Free, Record, Steps
<1>4. q.op = "login" /\ q.at = "login" /\ ~q.stale
  BY DEF Free
<1>5. request' = [request EXCEPT ![r] = q]
  BY <1>1
<1> HIDE DEF q
<1>6. Becomes(r, q)
  BY <1>3, <1>4, <1>5 DEF Becomes, RequestOK, TenantOps, None
<1>7. Follows(request')
  BY <1>6, BecomesFollows
<1>8. tab' \in TabState /\ UNCHANGED <<tenants, rows, of, pass, link, joined, told>>
  BY DEF IInv, Shape, LoadMemberships
<1> QED
  BY <1>7, <1>8, RequestStep

LEMMA AskStep ==
  ASSUME IInv, NEW r \in Request, NEW op \in Ops, NEW who \in Bearers(op),
         NEW x \in Targets(op), Ask(r, who, op, x), UNCHANGED tab
  PROVE  IInv' /\ KeptOut
<1>1. who \in Session \cup Pass
  BY DEF Bearers, Pass, IInv, Shape
<1>2. CASE op \in TenantOps
  <2>1. Targets(op) = Tenant
    BY <1>2 DEF Targets, TenantOps
  <2> QED
    BY <1>1, <2>1, AskedBecomes, BecomesFollows, RequestStep DEF Ask, IInv, Shape, Origins
<1>3. CASE op \notin TenantOps
  <2>1. Targets(op) \subseteq Pass
    BY <1>3 DEF Targets, TenantOps, Ops
  <2> QED
    BY <1>1, <1>3, <2>1, AskedBecomes, BecomesFollows, RequestStep DEF Ask, IInv, Shape, Origins
<1> QED
  BY <1>2, <1>3

\* Steps of the agents' connections, and time.
LEMMA LinkStep ==
  ASSUME IInv, link' \in [Enrollment -> {None, "hello", "up"}],
         UNCHANGED <<tenants, rows, of, pass, request, joined, told, tab>>
  PROVE  IInv' /\ KeptOut
<1>1. /\ tenants' = tenants /\ rows' = rows /\ of' = of /\ pass' = pass
      /\ request' = request /\ joined' = joined /\ told' = told /\ tab' = tab
  OBVIOUS
<1>2. Follows(request')
  BY <1>1, SameFollows
<1>3. Requests' /\ Entered' /\ StaleIsDead'
  BY <1>1, <1>2, NobodyEnters, EnterHeld
<1>4. Shape' /\ Dead'
  BY <1>1 DEF IInv, Shape, Dead
<1> QED
  BY <1>2, <1>3, <1>4 DEF IInv, Follows, KeptOut

LEMMA ElsewhereStep ==
  ASSUME IInv, Elsewhere, UNCHANGED tab
  PROVE  IInv' /\ KeptOut
<1>1. CASE \E r \in Request : LoadMemberships(r)
  BY <1>1, LoadMembershipsStep
<1>2. CASE \E r \in Request, op \in Ops : \E who \in Bearers(op), x \in Targets(op) : Ask(r, who, op, x)
  BY <1>2, AskStep
<1>3. CASE \E s \in Session : Expire(s)
  <2>1. UNCHANGED <<tenants, rows, of, pass, link, request, joined, told, tab>>
    BY <1>3 DEF Expire
  <2> QED
    BY <2>1, LinkStep DEF IInv, Shape
<1>4. CASE \E k \in Enrollment : Consume(k) \/ Hello(k) \/ HangUp(k)
  <2>1. UNCHANGED <<tenants, rows, of, pass, request, joined, told, tab>>
    BY <1>4 DEF Consume, Hello, HangUp
  <2>2. link' \in [Enrollment -> {None, "hello", "up"}]
    BY <1>4 DEF Consume, Hello, HangUp, IInv, Shape
  <2> QED
    BY <2>1, <2>2, LinkStep
<1> QED
  BY <1>1, <1>2, <1>3, <1>4 DEF Elsewhere

-----------------------------------------------------------------------------
(* The tab's steps.                                                        *)

\* What the configuration page asks by itself is a switch to a tenant that the
\* tab knows.
LEMMA RenderFollows ==
  ASSUME IInv, NEW new \in TabState, NEW req, Follows(req), Render(new, req)
  PROVE  Follows(request') /\ tab' \in TabState
<1>1. CASE request' = req /\ (tab' = new \/ tab' = [new EXCEPT !.hash = Tenants])
  BY <1>1 DEF TabState, Pages
<1>2. CASE /\ new.route.tenant \in new.members /\ tab' = new
           /\ \E q \in Request : request' = [req EXCEPT ![q] = [Free EXCEPT !.op = "switch", !.at = "session",
                 !.from = "config", !.who = Mine, !.target = new.route.tenant]]
  <2> DEFINE x == [Free EXCEPT !.op = "switch", !.at = "session",
                 !.from = "config", !.who = Mine, !.target = new.route.tenant]
  <2>1. new.route.tenant \in Tenant
    BY <1>2 DEF TabState
  <2>2. x \in Record
    BY <2>1, FreeIsRecord, MineAssumption DEF Free, Record, Steps, Origins, Ops
  <2>3. x.op = "switch" /\ x.at = "session" /\ x.target \in Tenant /\ ~x.stale
    BY <2>1 DEF Free
  <2>4. PICK q \in Request : request' = [req EXCEPT ![q] = x]
    BY <1>2
  <2> HIDE DEF x
  <2>5. RequestOK(x)
    BY <2>3 DEF RequestOK, None
  <2> QED
    BY <1>2, <2>2, <2>3, <2>4, <2>5, SlotFollows
<1> QED
  BY <1>1, <1>2 DEF Render

\* An answer whose page is gone is still an answer.
LEMMA LeaveFollows ==
  ASSUME IInv, NEW p
  PROVE  Follows(Leave(p))
<1> DEFINE req == Leave(p)
<1>1. \A r \in Request :
        /\ req[r] \in Record /\ req[r].op = request[r].op /\ req[r].at = request[r].at
        /\ req[r].who = request[r].who /\ req[r].target = request[r].target
        /\ req[r].moved = request[r].moved /\ req[r].to = request[r].to
        /\ req[r].last = request[r].last /\ req[r].stale = request[r].stale
  <2> TAKE r \in Request
  <2>1. request[r] \in Record
    BY DEF IInv, Shape
  <2>2. CASE request[r].from \in AskedBy(p)
    <3>1. req[r] = [request[r] EXCEPT !.from = "left"]
      BY <2>2 DEF Leave
    <3> QED
      BY <2>1, <3>1 DEF Record, Origins
  <2>3. CASE request[r].from \notin AskedBy(p)
    <3>1. req[r] = request[r]
      BY <2>3 DEF Leave
    <3> QED
      BY <2>1, <3>1
  <2> QED
    BY <2>2, <2>3
<1>2. req \in [Request -> Record]
  BY <1>1 DEF Leave
<1> HIDE DEF req
<1>3. Follows(req)
  BY <1>1, <1>2 DEF Follows, RequestOK, At, IInv, Requests, StaleIsDead
<1> QED
  BY <1>3 DEF req

LEMMA UseStep ==
  ASSUME IInv, Use
  PROVE  IInv' /\ KeptOut
<1>1. CASE \E p \in {Home, Tenants} \cup {Config(t) : t \in Tenant} : Navigate(p)
  <2>1. PICK p \in Pages : Navigate(p)
    BY <1>1 DEF Pages
  <2>2. tab' \in TabState /\ request' = request
    BY <2>1 DEF Navigate, IInv, Shape, TabState
  <2>3. UNCHANGED <<tenants, rows, of, pass, link, joined, told>>
    BY <2>1 DEF Navigate, Idle
  <2> QED
    BY <2>2, <2>3, SameFollows, RequestStep
<1>2. CASE \E r \in Request, t \in Tenant : Pick(r, t) \/ SubmitCreate(r, t) \/ ConfirmDelete(r, t)
  <2>1. PICK r \in Request, t \in Tenant :
             /\ \/ Asked(r, "switcher", Mine, "switch", t)
                \/ Asked(r, "create", Mine, "create", t)
                \/ Asked(r, "delete", Mine, "delete", t)
             /\ UNCHANGED <<tenants, rows, of, pass, link, joined, told, tab>>
    BY <1>2 DEF Pick, SubmitCreate, ConfirmDelete, Idle
  <2>2. \E q : Becomes(r, q)
    BY <2>1, AskedBecomes, MineAssumption DEF Origins, Ops
  <2> QED
    BY <2>1, <2>2, BecomesFollows, RequestStep DEF IInv, Shape
<1> QED
  BY <1>1, <1>2 DEF Use

LEMMA ReceiveStep ==
  ASSUME IInv, NEW r \in Request, Receive(r)
  PROVE  IInv' /\ KeptOut
<1>1. request[r] \in Record /\ tab \in TabState
  BY DEF IInv, Shape
<1>2. Follows(Without(r))
  BY SameFollows, FreeIsRecord, SlotFollows DEF Without
<1>3. UNCHANGED <<tenants, rows, of, pass, link, joined, told>>
  BY DEF Receive, Idle
<1>4. CASE AskMe(r) /\ UNCHANGED tab
  <2> DEFINE q == [Free EXCEPT !.op = "me", !.at = "session", !.from = request[r].from, !.who = Mine]
  <2>1. q \in Record
    BY <1>1, FreeIsRecord, MineAssumption, ZenonT(60) DEF Free, Record, Steps
  <2>2. q.op = "me" /\ q.at = "session" /\ ~q.stale
    BY DEF Free
  <2>3. request' = [request EXCEPT ![r] = q]
    BY <1>4 DEF AskMe
  <2> HIDE DEF q
  <2>4. Becomes(r, q)
    BY <2>1, <2>2, <2>3 DEF Becomes, RequestOK, TenantOps, None
  <2> QED
    BY <1>1, <1>3, <1>4, <2>4, BecomesFollows, RequestStep
<1>5. CASE request[r].tenant # NoTenant /\ Render(Updated(r), Without(r))
  <2>1. request[r].tenant \in Tenant /\ request[r].members \subseteq Tenant
    BY <1>1, <1>5 DEF Record
  <2>2. Updated(r) \in TabState
    BY <1>1, <2>1 DEF Updated, UserOnly, TabState, Pages
  <2>3. Follows(request') /\ tab' \in TabState
    BY <1>2, <1>5, <2>2, RenderFollows
  <2> QED
    BY <1>3, <2>3, RequestStep
<1>6. CASE request' = Without(r) /\ tab' \in TabState
  BY <1>2, <1>3, <1>6, RequestStep
<1>7. [tab EXCEPT !.on = ~(request[r].op = "me" /\ request[r].from # "start")] \in TabState
  BY <1>1 DEF TabState
<1> QED
  BY <1>1, <1>4, <1>5, <1>6, <1>7 DEF Receive

LEMMA AnswersStep ==
  ASSUME IInv, Answers
  PROVE  IInv' /\ KeptOut
<1>1. CASE HashChange
  <2>1. tab \in TabState /\ [tab EXCEPT !.route = tab.hash] \in TabState
    BY DEF IInv, Shape, TabState
  <2>2. PICK req \in {request, Leave(tab.route.page)} : Render([tab EXCEPT !.route = tab.hash], req)
    BY <1>1 DEF HashChange
  <2>3. Follows(req)
    BY SameFollows, LeaveFollows
  <2>4. Follows(request') /\ tab' \in TabState
    BY <2>1, <2>2, <2>3, RenderFollows
  <2>5. UNCHANGED <<tenants, rows, of, pass, link, joined, told>>
    BY <1>1 DEF HashChange, Idle
  <2> QED
    BY <2>4, <2>5, RequestStep
<1>2. CASE \E r \in Request : LoadMe(r)
  <2>1. PICK r \in Request : LoadMe(r)
    BY <1>2
  <2>2. \E q : Becomes(r, q)
    BY <2>1, AskedBecomes, MineAssumption DEF LoadMe, Origins, TenantOps
  <2>3. tab' \in TabState
    BY <2>1 DEF LoadMe, IInv, Shape, TabState
  <2>4. UNCHANGED <<tenants, rows, of, pass, link, joined, told>>
    BY <2>1 DEF LoadMe, Idle
  <2> QED
    BY <2>2, <2>3, <2>4, BecomesFollows, RequestStep
<1>3. CASE \E r \in Request : Receive(r)
  BY <1>3, ReceiveStep
<1> QED
  BY <1>1, <1>2, <1>3 DEF Answers

-----------------------------------------------------------------------------
(* The theorems.                                                           *)

LEMMA NextStep ==
  ASSUME IInv, [Next]_vars
  PROVE  IInv' /\ KeptOut
<1>1. CASE Others
  BY <1>1, ElsewhereStep DEF Others
<1>2. CASE Use
  BY <1>2, UseStep
<1>3. CASE Answers
  BY <1>3, AnswersStep
<1>4. CASE \E r \in Request : Serve(r)
  BY <1>4, HandleStep DEF Serve
<1>5. CASE UNCHANGED vars
  <2>1. UNCHANGED <<tenants, rows, of, pass, link, request, joined, told, tab>>
    BY <1>5 DEF vars, server, screen
  <2> QED
    BY <2>1, LinkStep DEF IInv, Shape
<1> QED
  BY <1>1, <1>2, <1>3, <1>4, <1>5 DEF Next

LEMMA Invariance == Spec => []IInv
<1>1. Opened => IInv
  <2> SUFFICES ASSUME Opened PROVE IInv
    OBVIOUS
  <2>1. tenants = Founded /\ tenants \subseteq Tenant
    BY TenantAssumption DEF Opened, Init
  <2>2. \A r \in Request : request[r] = Free
    BY DEF Opened, Init
  <2>3. told = {} /\ rows \subseteq Session
    BY DEF Opened, Init
  <2>4. of \in [Session -> Tenant \cup {NoTenant}]
    BY <2>1 DEF Opened, Init
  <2>5. pass \in [Pass -> PassState]
    BY <2>1 DEF Opened, Init, PassState
  <2>6. link \in [Enrollment -> {None, "hello", "up"}] /\ request \in [Request -> Record]
    BY FreeIsRecord DEF Opened, Init
  <2>7. tab \in TabState
    <3>1. PICK start \in {Tenants} \cup {Config(t) : t \in tenants} :
            tab = [on |-> \A k \in Pass : pass[k].state = None, me |-> "due", user |-> NoTenant,
                   members |-> {}, hash |-> start, route |-> start]
      BY DEF Opened
    <3>2. start \in Pages
      BY <2>1 DEF Pages
    <3> DEFINE on == \A k \in Pass : pass[k].state = None
    <3>3. on \in BOOLEAN
      OBVIOUS
    <3>4. tab = [on |-> on, me |-> "due", user |-> NoTenant, members |-> {}, hash |-> start, route |-> start]
      BY <3>1
    <3> HIDE DEF on
    <3> QED
      BY <3>2, <3>3, <3>4 DEF TabState
  <2>8. Shape
    BY <2>1, <2>3, <2>4, <2>5, <2>6, <2>7 DEF Shape
  <2>9. Requests /\ Entered /\ Dead /\ StaleIsDead
    BY <2>2, <2>3, FreeIsRecord DEF Requests, Entered, Deleting, Dead, StaleIsDead, At
  <2> QED
    BY <2>8, <2>9 DEF IInv
<1>2. IInv /\ [Next]_vars => IInv'
  BY NextStep
<1> QED
  BY <1>1, <1>2, PTL DEF Spec

\* Only the deletion of a tenant deletes sessions.
LEMMA OnlyDeletionDeletes ==
  ASSUME [Next]_vars
  PROVE  rows \subseteq rows' \/ \E r \in Request : RemoveTenant(r)
<1>1. CASE Others
  BY <1>1 DEF Others, Elsewhere, LoadMemberships, Ask, Expire, Consume, Hello, HangUp
<1>2. CASE Use
  BY <1>2 DEF Use, Pick, SubmitCreate, ConfirmDelete, Navigate, Idle
<1>3. CASE Answers
  BY <1>3 DEF Answers, HashChange, LoadMe, Receive, Idle
<1>4. CASE \E r \in Request : Serve(r)
  <2>1. PICK r \in Request : Handle(r)
    BY <1>4 DEF Serve
  <2>2. CASE \E s \in Session : CreateSession(r, s)
    BY <2>2 DEF CreateSession
  <2>3. CASE RemoveTenant(r)
    BY <2>3
  <2>4. CASE ~RemoveTenant(r) /\ ~ \E s \in Session : CreateSession(r, s)
    <3>1. UNCHANGED rows
      BY <2>1, <2>4 DEF Handle, FindSession, FindMembership, Describe, CheckSwitch,
           UpdateSessionTenant, CreateTenant, MoveSessions, Deadlock,
           MintToken, MintCredential, Deactivate, RevokeCredential, DeleteToken
    <3> QED
      BY <3>1
  <2> QED
    BY <2>2, <2>3, <2>4
<1>5. CASE UNCHANGED vars
  BY <1>5 DEF vars, server
<1> QED
  BY <1>1, <1>2, <1>3, <1>4, <1>5 DEF Next

\* deleteTenant moves the sessions of the tenant to another one of their user's
\* before the tenant goes: it ends no session but those of a user without
\* another tenant and those that came into the tenant after the move.
THEOREM NoSessionLost == Spec => SessionsKept
<1>1. IInv /\ [Next]_vars =>
        [\A s \in rows \ rows' :
           s \in joined \/ \E r \in Deleting : request[r].target = of[s] /\ request[r].last]_server
  <2> SUFFICES ASSUME IInv, [Next]_vars, NEW s \in rows \ rows'
               PROVE  s \in joined \/ \E r \in Deleting : request[r].target = of[s] /\ request[r].last
    OBVIOUS
  <2>1. PICK r \in Request : RemoveTenant(r)
    BY OnlyDeletionDeletes
  <2> DEFINE t == request[r].target
  <2>2. r \in Deleting
    BY <2>1 DEF RemoveTenant, Deleting
  <2>3. t \in tenants
    BY <2>1 DEF RemoveTenant
  <2>4. /\ of' = [x \in Session |-> IF x \in request[r].moved THEN request[r].to ELSE of[x]]
        /\ rows' = rows \ {x \in Session : of'[x] = t}
    BY <2>1, <2>3 DEF RemoveTenant
  <2>5. s \in Session /\ of'[s] = t
    BY <2>4 DEF IInv, Shape
  <2>6. request[r].to # t
    BY <2>2 DEF IInv, Requests, RequestOK, Deleting, At
  <2>7. s \notin request[r].moved /\ of[s] = t
    BY <2>4, <2>5, <2>6
  <2>8. s \in joined \/ request[r].last
    BY <2>2, <2>7 DEF IInv, Entered, Held
  <2> QED
    BY <2>2, <2>7, <2>8
<1> QED
  BY <1>1, Invariance, PTL DEF Spec, SessionsKept

\* Once a token or a credential was revoked or deleted, or its tenant was, it
\* opens no connection, and no request that comes with it is let in: the row
\* is read after the bearer is presented, and no row comes back to life.
THEOREM DeadPassRefused == Spec => DeadPassStaysOut
<1>1. IInv /\ [Next]_vars =>
        [/\ \A k \in told \cap Enrollment : link[k] = None => link'[k] = None
         /\ \A r \in Request : request[r].stale => ~At(r, "act")']_server
  <2> SUFFICES ASSUME IInv, [Next]_vars
               PROVE  /\ \A k \in told \cap Enrollment : link[k] = None => link'[k] = None
                      /\ \A r \in Request : request[r].stale => ~At(r, "act")'
    OBVIOUS
  <2>1. \A r \in Request : request[r].stale => ~At(r, "act")'
    BY NextStep DEF KeptOut, At
  <2>2. link' = link \/ \E k \in Enrollment : Consume(k) \/ Hello(k) \/ HangUp(k)
    <3>1. CASE Others
      BY <3>1 DEF Others, Elsewhere, LoadMemberships, Ask, Expire
    <3>2. CASE Use
      BY <3>2 DEF Use, Pick, SubmitCreate, ConfirmDelete, Navigate, Idle
    <3>3. CASE Answers
      BY <3>3 DEF Answers, HashChange, LoadMe, Receive, Idle
    <3>4. CASE \E r \in Request : Serve(r)
      <4>1. PICK r \in Request : Handle(r)
        BY <3>4 DEF Serve
      <4>2. CASE \/ \E s \in Session : CreateSession(r, s)
                 \/ FindSession(r) \/ FindMembership(r) \/ Describe(r)
                 \/ CheckSwitch(r) \/ UpdateSessionTenant(r)
        BY ONLY <4>2 DEF CreateSession, FindSession, FindMembership, Describe, CheckSwitch,
                         UpdateSessionTenant
      <4>3. CASE \/ CreateTenant(r) \/ MoveSessions(r) \/ RemoveTenant(r) \/ Deadlock(r)
        BY ONLY <4>3 DEF CreateTenant, MoveSessions, RemoveTenant, Deadlock
      <4>4. CASE \/ MintToken(r) \/ MintCredential(r) \/ Deactivate(r) \/ RevokeCredential(r)
                 \/ DeleteToken(r)
        BY ONLY <4>4 DEF MintToken, MintCredential, Deactivate, RevokeCredential, DeleteToken
      <4> QED
        BY <4>1, <4>2, <4>3, <4>4 DEF Handle
    <3>5. CASE UNCHANGED vars
      BY <3>5 DEF vars, server
    <3> QED
      BY <3>1, <3>2, <3>3, <3>4, <3>5 DEF Next
  <2>3. ASSUME NEW k \in told \cap Enrollment, link[k] = None
        PROVE  link'[k] = None
    <3>1. CASE link' = link
      BY <2>3, <3>1
    <3>2. CASE \E e \in Enrollment : Consume(e) \/ Hello(e) \/ HangUp(e)
      <4>1. PICK e \in Enrollment : Consume(e) \/ Hello(e) \/ HangUp(e)
        BY <3>2
      <4>2. e # k
        BY <2>3, <4>1, DeadIsRefused DEF Consume, Hello, HangUp, None
      <4> QED
        BY <2>3, <4>1, <4>2 DEF Consume, Hello, HangUp, IInv, Shape
    <3> QED
      BY <2>2, <3>1, <3>2
  <2> QED
    BY <2>1, <2>3
<1> QED
  BY <1>1, Invariance, PTL DEF Spec, DeadPassStaysOut

-----------------------------------------------------------------------------
(* What a tab shows that is left alone.                                    *)

\* Sequences in which nothing comes twice.
In(x, s) == \E i \in 1 .. Len(s) : s[i] = x
Distinct(s) == \A i, j \in 1 .. Len(s) : s[i] = s[j] => i = j
Final(s) == s[Len(s)]

\* Requests that answer what the session's tenant is.
Reader(q) == q.op = "me" \/ q.acted
InRead(q) == q.from # None /\ Reader(q) /\ q.at # "session"

\* The session will yet be read for this one, or for the one that follows it.
Will(q) ==
  /\ q.from # None
  /\ \/ q.at = "session" /\ Reader(q)
     \/ q.op = "delete" /\ q.at = "answered" /\ q.tenant # NoTenant

Refused(q) == q.at = "answered" /\ q.tenant = NoTenant

\* What the tab asks.
OwnOK(q) ==
  /\ q.from = None => q.at # "answered"
  /\ q.from # None =>
       /\ q.who = Mine /\ q.op \in {"me"} \cup TenantOps /\ q.at \notin {None, "login"}
       /\ q.acted => /\ q.op \in {"switch", "create"}
                     /\ q.at \in {"session", "membership", "describe", "answered"}
       /\ q.at = "describe" => q.acted
       /\ q.at = "update" => q.op = "switch"
       /\ q.at \in {"act", "describe", "update", "remove"} => q.tenant # NoTenant
       /\ q.at = "answered" /\ q.tenant # NoTenant => Reader(q) \/ q.op = "delete"
       /\ q.from = "start" => q.op = "me"

Asks(req) == \A r \in Request : OwnOK(req[r])

\* Before /me is answered nothing else is asked, and pages ask while they are mounted.
TabIs(tb, req, w) ==
  /\ tb.me = "due" => tb.user = NoTenant /\ \A r \in Request : req[r].from = None
  /\ tb.user = NoTenant => w = NoTenant /\ \A r \in Request : req[r].from \in {None, "start"}
  /\ \A r \in Request : req[r].from = "start" => tb.user = NoTenant
  /\ \A r, p \in Request : req[r].from = "start" /\ req[p].from = "start" => r = p
  /\ \A r \in Request : /\ req[r].from \in {"create", "delete"} => tb.route.page = "tenants"
                        /\ req[r].from = "config" => tb.route.page = "config"

ReadsAre(req, rd) ==
  /\ rd \in Seq(Request) /\ Distinct(rd)
  /\ \A r \in Request : InRead(req[r]) <=> In(r, rd)

\* Whoever has read last has found the session where it is.
LastIs(req, rd, user, now) ==
  \/ \E r \in Request : Will(req[r])
  \/ rd = <<>> /\ user \in {now, NoTenant}
  \/ rd # <<>> /\ (req[Final(rd)].tenant = now \/ Refused(req[Final(rd)]))

\* q takes the session to tenant t, or is refused.
Towards(q, t) ==
  /\ q.op \in {"switch", "create"} /\ q.target = t /\ q.from \in {"switcher", "create", "config"}
  /\ q.acted /\ q.at # "answered" =>
       of[Mine] = t /\ t \in tenants /\ (q.at # "session" => q.tenant = t)
  /\ q.at = "answered" /\ q.tenant # NoTenant => q.tenant = t /\ t \in q.members

Sole(r) == Own(r) /\ \A p \in Request : Own(p) => p = r

\* The switch to the tenant that the user chose is under way, ...
Chosen(r) ==
  /\ Towards(request[r], wanted)
  /\ tab.hash = tab.route
  /\ request[r].from = "config" => tab.route = Config(wanted)

\* ... or one that the configuration page, not yet taken along, makes against it, ...
Bounced(r) ==
  /\ Towards(request[r], request[r].target) /\ request[r].from = "config"
  /\ tab.hash = Config(wanted) /\ tab.route \in {Config(request[r].target), Config(wanted)}
  /\ tab.user = wanted /\ wanted \in tab.members

\* ... or none: the page is about to make it, it is done, or there is no such tenant.
Rest ==
  \/ tab.hash = Config(wanted) /\ tab.hash # tab.route
  \/ tab.user = wanted /\ tab.hash \in {tab.route, Tenants, Config(wanted)}
  \/ wanted \notin tab.members /\ tab.hash \in {tab.route, Tenants}

Want ==
  wanted # NoTenant =>
    \/ \E r \in Request : Sole(r) /\ (Chosen(r) \/ Bounced(r))
    \/ (\A r \in Request : ~Own(r)) /\ Rest

CInv ==
  /\ Asks(request)
  /\ TabIs(tab, request, wanted)
  /\ ~disturbed => Live(Mine) /\ ReadsAre(request, reads)
  /\ ~disturbed /\ tab.on => LastIs(request, reads, tab.user, of[Mine]) /\ Want

-----------------------------------------------------------------------------
LEMMA Appended ==
  ASSUME NEW s \in Seq(Request), Distinct(s), NEW r \in Request, ~In(r, s)
  PROVE  /\ Append(s, r) \in Seq(Request) /\ Append(s, r) # <<>> /\ Distinct(Append(s, r))
         /\ \A p : In(p, Append(s, r)) <=> In(p, s) \/ p = r
         /\ Final(Append(s, r)) = r
<1> DEFINE a == Append(s, r)
<1>1. /\ a \in Seq(Request) /\ Len(a) = Len(s) + 1 /\ Len(s) \in Nat
      /\ \A i \in 1 .. Len(s) : a[i] = s[i]
      /\ a[Len(s) + 1] = r
  BY AppendProperties, LenProperties
<1> HIDE DEF a
<1>2. \A i \in 1 .. Len(a) : i \in 1 .. Len(s) \/ i = Len(s) + 1
  BY <1>1
<1>3. \A i \in 1 .. Len(s) : i \in 1 .. Len(a)
  BY <1>1
<1>4. Len(s) + 1 \in 1 .. Len(a)
  BY <1>1
<1>5. Distinct(a)
  BY <1>1, <1>2, <1>3 DEF Distinct, In
<1>6. \A p : In(p, a) <=> In(p, s) \/ p = r
  BY <1>1, <1>2, <1>3, <1>4 DEF In
<1>7. a # <<>>
  BY <1>1
<1> QED
  BY <1>1, <1>5, <1>6, <1>7 DEF a, Final

LEMMA FinalIn ==
  ASSUME NEW s \in Seq(Request), s # <<>>
  PROVE  Final(s) \in Request /\ In(Final(s), s) /\ Head(s) \in Request /\ In(Head(s), s)
<1>1. Len(s) \in Nat \ {0} /\ Head(s) = s[1]
  BY EmptySeq, LenProperties
<1>2. 1 \in 1 .. Len(s) /\ Len(s) \in 1 .. Len(s)
  BY <1>1
<1> QED
  BY <1>1, <1>2, ElementOfSeq DEF Final, In

LEMMA NoElement ==
  ASSUME NEW s \in Seq(Request)
  PROVE  s = <<>> <=> Len(s) = 0
<1>1. Len(<<>>) = 0
  BY EmptySeq
<1>2. s = <<>> => Len(s) = 0
  BY <1>1, Zenon
<1>3. s # <<>> => Len(s) # 0
  BY EmptySeq
<1> QED
  BY <1>2, <1>3

LEMMA Tailed ==
  ASSUME NEW s \in Seq(Request), Distinct(s), s # <<>>
  PROVE  /\ Tail(s) \in Seq(Request) /\ Distinct(Tail(s))
         /\ \A p : In(p, Tail(s)) <=> In(p, s) /\ p # Head(s)
         /\ Tail(s) = <<>> => Final(s) = Head(s)
         /\ Tail(s) # <<>> => Final(Tail(s)) = Final(s)
<1> DEFINE t == Tail(s)
<1>1. /\ t \in Seq(Request) /\ Len(t) = Len(s) - 1
      /\ \A i \in 1 .. Len(t) : t[i] = s[i + 1]
  BY HeadTailProperties
<1>2. Len(s) \in Nat \ {0} /\ Head(s) = s[1]
  BY EmptySeq, LenProperties
<1>3. t = <<>> => Len(t) = 0
  BY <1>1, NoElement
<1>4. t # <<>> => Len(t) # 0
  BY <1>1, NoElement
<1> HIDE DEF t
<1>5. \A i \in 1 .. Len(t) : i + 1 \in 1 .. Len(s)
  BY <1>1, <1>2
<1>6. \A i \in 1 .. Len(s) : i = 1 \/ (i - 1 \in 1 .. Len(t) /\ t[i - 1] = s[i])
  <2> TAKE i \in 1 .. Len(s)
  <2>1. CASE i # 1
    <3>1. i - 1 \in 1 .. Len(t) /\ (i - 1) + 1 = i
      BY <1>1, <1>2, <2>1
    <3> QED
      BY <1>1, <3>1
  <2> QED
    BY <2>1
<1>7. Distinct(t)
  <2> SUFFICES ASSUME NEW i \in 1 .. Len(t), NEW j \in 1 .. Len(t), t[i] = t[j] PROVE i = j
    BY DEF Distinct
  <2>1. s[i + 1] = s[j + 1] /\ i + 1 \in 1 .. Len(s) /\ j + 1 \in 1 .. Len(s)
    BY <1>1, <1>5
  <2>2. i + 1 = j + 1
    BY <2>1 DEF Distinct
  <2> QED
    BY <2>2
<1>8. ASSUME NEW p, In(p, t) PROVE In(p, s) /\ p # Head(s)
  <2>1. PICK i \in 1 .. Len(t) : t[i] = p
    BY <1>8 DEF In
  <2>2. s[i + 1] = p /\ i + 1 \in 1 .. Len(s) /\ i + 1 # 1
    BY <1>1, <1>5, <2>1
  <2>3. 1 \in 1 .. Len(s)
    BY <1>2
  <2> QED
    BY <1>2, <2>2, <2>3 DEF Distinct, In
<1>9. ASSUME NEW p, In(p, s), p # Head(s) PROVE In(p, t)
  BY <1>2, <1>6, <1>9 DEF In
<1>10. t = <<>> => Final(s) = Head(s)
  <2> SUFFICES ASSUME Len(t) = 0 PROVE s[Len(s)] = s[1]
    BY <1>2, <1>3 DEF Final
  <2>1. Len(s) = 1
    BY <1>1, <1>2
  <2> QED
    BY <2>1
<1>11. t # <<>> => Final(t) = Final(s)
  <2> SUFFICES ASSUME t # <<>> PROVE t[Len(t)] = s[Len(s)]
    BY DEF Final
  <2>1. Len(t) \in 1 .. Len(t) /\ Len(t) + 1 = Len(s)
    BY <1>1, <1>2, <1>4
  <2> QED
    BY <1>1, <2>1
<1> QED
  BY <1>1, <1>7, <1>8, <1>9, <1>10, <1>11 DEF t

LEMMA NoTenantIsNone == NoTenant \notin Tenant
BY TenantAssumption DEF NoTenant

-----------------------------------------------------------------------------
\* What others do.
Foreign ==
  /\ \A p \in Request :
       \/ request'[p] = request[p]
       \/ request[p].from = None /\ request'[p].from = None /\ request'[p].at # "answered"
  /\ UNCHANGED <<tab, reads, wanted>>
  /\ disturbed => disturbed'
  /\ ~disturbed' /\ Live(Mine) =>
       of'[Mine] = of[Mine] /\ Live(Mine)' /\ (of[Mine] \in tenants => of[Mine] \in tenants')

LEMMA ForeignStep ==
  ASSUME CInv, Foreign
  PROVE  CInv'
<1>1. /\ tab' = tab /\ reads' = reads /\ wanted' = wanted
      /\ \A p \in Request : request'[p] = request[p] \/ (request[p].from = None /\ request'[p].from = None)
  BY DEF Foreign
<1>2. Asks(request)'
  BY DEF Foreign, CInv, Asks, OwnOK
<1>3. TabIs(tab, request, wanted)'
  BY <1>1 DEF CInv, TabIs, None
<1>4. ASSUME ~disturbed' PROVE Live(Mine)' /\ ReadsAre(request, reads)'
  <2>1. ~disturbed /\ Live(Mine)' /\ ReadsAre(request, reads)
    BY <1>4 DEF Foreign, CInv
  <2>2. \A p \in Request : InRead(request'[p]) <=> InRead(request[p])
    BY <1>1 DEF InRead
  <2> QED
    BY <1>1, <2>1, <2>2 DEF ReadsAre
<1>5. ASSUME ~disturbed', tab.on
      PROVE  LastIs(request, reads, tab.user, of[Mine])' /\ Want'
  <2>1. /\ ~disturbed /\ Live(Mine) /\ ReadsAre(request, reads)
        /\ LastIs(request, reads, tab.user, of[Mine]) /\ Want
    BY <1>5 DEF Foreign, CInv
  <2>2. of'[Mine] = of[Mine] /\ (of[Mine] \in tenants => of[Mine] \in tenants')
    BY <1>5, <2>1 DEF Foreign
  <2>3. LastIs(request, reads, tab.user, of[Mine])'
    <3>1. CASE \E r \in Request : Will(request[r])
      BY <1>1, <3>1 DEF LastIs, Will
    <3>2. CASE reads # <<>> /\ (request[Final(reads)].tenant = of[Mine] \/ Refused(request[Final(reads)]))
      <4>1. Final(reads) \in Request /\ InRead(request[Final(reads)])
        BY <2>1, <3>2, FinalIn DEF ReadsAre
      <4>2. request'[Final(reads)] = request[Final(reads)]
        BY <1>1, <4>1 DEF InRead
      <4> QED
        BY <1>1, <2>2, <3>2, <4>2 DEF LastIs
    <3> QED
      BY <1>1, <2>1, <2>2, <3>1, <3>2 DEF LastIs
  <2>4. Want'
    <3>1. \A p \in Request : (Own(p)' <=> Own(p)) /\ (Own(p) => request'[p] = request[p])
      BY <1>1 DEF Own
    <3>2. \A q, t : Towards(q, t) => Towards(q, t)'
      BY <2>2 DEF Towards
    <3>3. SUFFICES ASSUME wanted # NoTenant
                   PROVE  \/ \E r \in Request : Sole(r)' /\ (Chosen(r)' \/ Bounced(r)')
                          \/ (\A r \in Request : ~Own(r)') /\ Rest'
      BY <1>1 DEF Want
    <3>4. CASE \E r \in Request : Sole(r) /\ (Chosen(r) \/ Bounced(r))
      <4>1. PICK r \in Request : Sole(r) /\ (Chosen(r) \/ Bounced(r))
        BY <3>4
      <4>2. Sole(r)' /\ request'[r] = request[r]
        BY <3>1, <4>1 DEF Sole
      <4>3. PICK q : q = request[r]
        OBVIOUS
      <4>4. Chosen(r) => Chosen(r)'
        BY <1>1, <3>2, <4>2, <4>3 DEF Chosen, Config, Page
      <4>5. Bounced(r) => Bounced(r)'
        BY <1>1, <3>2, <4>2, <4>3 DEF Bounced, Config, Page
      <4> QED
        BY <4>1, <4>2, <4>4, <4>5
    <3>5. CASE (\A r \in Request : ~Own(r)) /\ Rest
      <4>1. Rest'
        BY <1>1, <3>5 DEF Rest, Config, Page, Tenants
      <4> QED
        BY <3>1, <3>5, <4>1
    <3> QED
      BY <2>1, <3>3, <3>4, <3>5 DEF Want
  <2> QED
    BY <2>3, <2>4
<1> QED
  BY <1>1, <1>2, <1>3, <1>4, <1>5 DEF CInv

\* What one who is not asking for the tab does to request r of the API.
Bare(r) ==
  /\ \A p \in Request \ {r} : request'[p] = request[p]
  /\ request'[r].from = None /\ request'[r].at # "answered"

LEMMA SlotIsBare ==
  ASSUME IInv, NEW r \in Request, NEW q, q.from = None, q.at # "answered",
         request' = [request EXCEPT ![r] = q]
  PROVE  Bare(r)
BY DEF Bare, IInv, Shape

LEMMA BareAnswer ==
  ASSUME IInv, NEW r \in Request, ~Own(r), NEW t, NEW m, Answer(r, t, m)
  PROVE  Bare(r)
<1>1. request' = [request EXCEPT ![r] = Free]
  BY DEF Answer, Own, IInv, Shape
<1> QED
  BY <1>1, SlotIsBare DEF Free, None

LEMMA BareGo ==
  ASSUME IInv, NEW r \in Request, ~Own(r), NEW at, at # "answered", NEW t,
         \/ request' = [request EXCEPT ![r].at = at]
         \/ request' = [request EXCEPT ![r].at = at, ![r].tenant = t]
         \/ request' = [request EXCEPT ![r].at = at, ![r].acted = t]
  PROVE  Bare(r)
<1>1. request[r] \in Record /\ request \in [Request -> Record] /\ request[r].from = None
  BY DEF IInv, Shape, Own
<1>2. CASE request' = [request EXCEPT ![r].at = at]
  BY <1>1, <1>2 DEF Bare, Record
<1>3. CASE request' = [request EXCEPT ![r].at = at, ![r].tenant = t]
  BY <1>1, <1>3 DEF Bare, Record
<1>4. CASE request' = [request EXCEPT ![r].at = at, ![r].acted = t]
  BY <1>1, <1>4 DEF Bare, Record
<1> QED
  BY <1>2, <1>3, <1>4

LEMMA BareHandle ==
  ASSUME IInv, NEW r \in Request, ~Own(r), Handle(r)
  PROVE  Bare(r)
<1>1. CASE \E s \in Session : CreateSession(r, s)
  <2>1. request' = [request EXCEPT ![r] = Free]
    BY <1>1 DEF CreateSession
  <2> QED
    BY <2>1, SlotIsBare DEF Free, None
<1>2. CASE FindSession(r)
  BY <1>2, BareAnswer, BareGo DEF FindSession, Refuse
<1>3. CASE FindMembership(r) \/ CheckSwitch(r)
  BY <1>3, BareAnswer, BareGo DEF FindMembership, CheckSwitch, Refuse, GoTo
<1>4. CASE UpdateSessionTenant(r) \/ CreateTenant(r)
  BY <1>4, BareAnswer, BareGo DEF UpdateSessionTenant, CreateTenant, Refuse, Again
<1>5. CASE MoveSessions(r)
  <2>1. CASE Refuse(r)
    BY <2>1, BareAnswer DEF Refuse
  <2>2. CASE ~Refuse(r)
    <3> DEFINE to == Alternative(request[r].target)
               moved == IF to = NoTenant THEN {} ELSE InTenant(request[r].target)
               last == tenants = {request[r].target}
    <3>1. request' = [request EXCEPT ![r].at = "remove", ![r].to = to, ![r].moved = moved, ![r].last = last]
      BY <1>5, <2>2 DEF MoveSessions
    <3> HIDE DEF to, moved, last
    <3>2. request[r] \in Record /\ request \in [Request -> Record] /\ request[r].from = None
      BY DEF IInv, Shape, Own
    <3> QED
      BY <3>1, <3>2 DEF Bare, Record
  <2> QED
    BY <2>1, <2>2
<1>6. CASE Describe(r) \/ RemoveTenant(r) \/ Deadlock(r) \/ MintToken(r) \/ MintCredential(r)
           \/ Deactivate(r) \/ RevokeCredential(r) \/ DeleteToken(r)
  BY <1>6, BareAnswer DEF Describe, RemoveTenant, Deadlock, MintToken, MintCredential,
       Deactivate, RevokeCredential, DeleteToken, Refuse
<1> QED
  BY <1>1, <1>2, <1>3, <1>4, <1>5, <1>6 DEF Handle

\* No handler looks at the clock, and a tenant goes with the sessions in it.
LEMMA HandleKeeps ==
  ASSUME IInv, NEW r \in Request, Handle(r)
  PROVE  /\ expired' = expired
         /\ Mine \in rows' /\ of'[Mine] = of[Mine] /\ of[Mine] \in tenants => of[Mine] \in tenants'
<1>1. CASE RemoveTenant(r)
  <2>1. expired' = expired
    BY <1>1 DEF RemoveTenant
  <2>2. ASSUME Mine \in rows', of'[Mine] = of[Mine], of[Mine] \in tenants
        PROVE  of[Mine] \in tenants'
    BY <1>1, <2>2, MineAssumption DEF RemoveTenant
  <2> QED
    BY <2>1, <2>2
<1>2. CASE ~RemoveTenant(r)
  <2>1. expired' = expired /\ tenants \subseteq tenants'
    BY <1>2 DEF Handle, CreateSession, FindSession, FindMembership, Describe, CheckSwitch,
         UpdateSessionTenant, CreateTenant, MoveSessions, Deadlock,
         MintToken, MintCredential, Deactivate, RevokeCredential, DeleteToken
  <2> QED
    BY <2>1
<1> QED
  BY <1>1, <1>2

LEMMA ServeForeign ==
  ASSUME IInv, CInv, NEW r \in Request, ~Own(r), Serve(r)
  PROVE  Foreign
<1>1. /\ Bare(r) /\ request[r].from = None
      /\ expired' = expired
      /\ Mine \in rows' /\ of'[Mine] = of[Mine] /\ of[Mine] \in tenants => of[Mine] \in tenants'
  BY BareHandle, HandleKeeps DEF Serve, Own
<1>2. /\ tab' = tab /\ wanted' = wanted /\ reads' = reads
      /\ disturbed' = (disturbed \/ Mine \notin rows' \/ of'[Mine] # of[Mine])
  BY DEF Serve
<1> QED
  BY <1>1, <1>2 DEF Foreign, Bare, Live

LEMMA OthersForeign ==
  ASSUME IInv, CInv, Others
  PROVE  Foreign
<1>1. /\ tab' = tab /\ wanted' = wanted /\ reads' = reads
      /\ disturbed' = (disturbed \/ Mine \in expired')
  BY DEF Others
<1>2. \A r \in Request : request[r].op = None => ~Own(r)
  BY DEF CInv, Asks, OwnOK, Own, TenantOps, None
<1>3. rows' = rows /\ of' = of /\ tenants' = tenants
  BY DEF Others, Elsewhere, LoadMemberships, Ask, Expire, Consume, Hello, HangUp
<1>4. \A p \in Request :
        \/ request'[p] = request[p]
        \/ request[p].from = None /\ request'[p].from = None /\ request'[p].at # "answered"
  <2>1. CASE \E r \in Request : LoadMemberships(r)
    <3>1. PICK r \in Request, t \in tenants :
            /\ Vacant(r)
            /\ request' = [request EXCEPT ![r] = [Free EXCEPT !.op = "login", !.at = "login", !.tenant = t]]
      BY <2>1 DEF LoadMemberships
    <3>2. Bare(r)
      BY <3>1, SlotIsBare DEF Free, None
    <3> QED
      BY <1>2, <3>1, <3>2 DEF Bare, Vacant, Own
  <2>2. CASE \E r \in Request, op \in Ops : \E who \in Bearers(op), x \in Targets(op) : Ask(r, who, op, x)
    <3>1. PICK r, op, who, x : r \in Request /\ Asked(r, None, who, op, x)
      BY <2>2 DEF Ask
    <3>2. Bare(r)
      BY <3>1, SlotIsBare DEF Asked, Free, None
    <3> QED
      BY <1>2, <3>1, <3>2 DEF Asked, Bare, Vacant, Own
  <2>3. CASE \/ \E s \in Session : Expire(s)
             \/ \E k \in Enrollment : Consume(k) \/ Hello(k) \/ HangUp(k)
    BY <2>3 DEF Expire, Consume, Hello, HangUp
  <2> QED
    BY <2>1, <2>2, <2>3 DEF Others, Elsewhere
<1> QED
  BY <1>1, <1>3, <1>4 DEF Foreign, Live

LEMMA StutterForeign ==
  ASSUME UNCHANGED vars
  PROVE  Foreign
BY DEF vars, server, screen, Foreign, Live

-----------------------------------------------------------------------------
\* The tab's own request r, o until now, becomes q: the session moves for it and
\* will be read, or it is not concerned, or it reads the session.
Moves(r, q) ==
  LET o == request[r] IN
  /\ request' = [request EXCEPT ![r] = q]
  /\ OwnOK(q) /\ q.from = o.from /\ q.op = o.op /\ q.target = o.target
  /\ ~disturbed' =>
       /\ \A t : Towards(o, t) => Towards(q, t)'
       /\ \/ Will(q) /\ reads' = reads /\ ~InRead(o) /\ ~InRead(q)
          \/ /\ of'[Mine] = of[Mine] /\ reads' = reads /\ (InRead(q) <=> InRead(o))
             /\ ~Will(o) /\ o.at # "answered" /\ (InRead(q) => q.tenant = o.tenant \/ Refused(q))
          \/ reads' = Append(reads, r) /\ ~InRead(o) /\ InRead(q) /\ q.tenant = of'[Mine]

LEMMA MovesStep ==
  ASSUME IInv, CInv, NEW r \in Request, Own(r), Serve(r), NEW q, Moves(r, q)
  PROVE  CInv'
<1> DEFINE o == request[r]
<1>1. /\ tab' = tab /\ wanted' = wanted /\ (disturbed => disturbed')
      /\ request'[r] = q /\ \A p \in Request \ {r} : request'[p] = request[p]
      /\ OwnOK(q) /\ q.from = o.from /\ q.op = o.op /\ q.target = o.target
      /\ q.from # None
  BY DEF Serve, Moves, IInv, Shape, Own
<1> HIDE DEF o
<1>2. \A p \in Request : request'[p].from = request[p].from
  BY <1>1 DEF o
<1>3. Asks(request)'
  BY <1>1 DEF CInv, Asks
<1>4. TabIs(tab, request, wanted)'
  BY <1>1, <1>2 DEF CInv, TabIs
<1>5. SUFFICES ASSUME ~disturbed'
               PROVE  /\ Live(Mine)' /\ ReadsAre(request, reads)'
                      /\ tab.on => LastIs(request, reads, tab.user, of[Mine])' /\ Want'
  BY <1>1, <1>3, <1>4 DEF CInv
<1>6. ~disturbed /\ Live(Mine) /\ Live(Mine)' /\ ReadsAre(request, reads)
  BY <1>1, <1>5, HandleKeeps DEF CInv, Serve, Live
<1>7. /\ \A t : Towards(o, t) => Towards(q, t)'
      /\ \/ Will(q) /\ reads' = reads /\ ~InRead(o) /\ ~InRead(q)
         \/ /\ of'[Mine] = of[Mine] /\ reads' = reads /\ (InRead(q) <=> InRead(o))
            /\ ~Will(o) /\ o.at # "answered" /\ (InRead(q) => q.tenant = o.tenant \/ Refused(q))
         \/ reads' = Append(reads, r) /\ ~InRead(o) /\ InRead(q) /\ q.tenant = of'[Mine]
  BY <1>5 DEF Moves, o
<1>8. ASSUME reads' = reads, InRead(q) <=> InRead(o)
      PROVE  ReadsAre(request, reads)'
  BY <1>1, <1>6, <1>8 DEF ReadsAre, o
<1>9. ASSUME reads' = Append(reads, r), ~InRead(o), InRead(q)
      PROVE  ReadsAre(request, reads)'
  <2>1. reads \in Seq(Request) /\ Distinct(reads) /\ ~In(r, reads)
    BY <1>6, <1>9 DEF ReadsAre, o
  <2>2. /\ reads' \in Seq(Request) /\ reads' # <<>> /\ Distinct(reads')
        /\ \A p : In(p, reads') <=> In(p, reads) \/ p = r
        /\ Final(reads') = r
    BY <1>9, <2>1, Appended
  <2>3. ASSUME NEW p \in Request PROVE InRead(request'[p]) <=> In(p, reads')
    BY <1>1, <1>6, <1>9, <2>2 DEF ReadsAre
  <2> QED
    BY <2>2, <2>3 DEF ReadsAre
<1>10. ASSUME tab.on PROVE LastIs(request, reads, tab.user, of[Mine])'
  <2>1. LastIs(request, reads, tab.user, of[Mine])
    BY <1>6, <1>10 DEF CInv
  <2>2. CASE Will(q)
    BY <1>1, <2>2 DEF LastIs
  <2>3. CASE reads' = Append(reads, r) /\ ~InRead(o) /\ InRead(q) /\ q.tenant = of'[Mine]
    <3>1. reads \in Seq(Request) /\ Distinct(reads) /\ ~In(r, reads)
      BY <1>6, <2>3 DEF ReadsAre, o
    <3>2. reads' # <<>> /\ Final(reads') = r
      BY <2>3, <3>1, Appended
    <3> QED
      BY <1>1, <2>3, <3>2 DEF LastIs
  <2>4. CASE /\ of'[Mine] = of[Mine] /\ reads' = reads /\ (InRead(q) <=> InRead(o))
             /\ ~Will(o) /\ o.at # "answered" /\ (InRead(q) => q.tenant = o.tenant \/ Refused(q))
    <3>1. CASE \E p \in Request : Will(request[p])
      <4>1. PICK p \in Request : Will(request[p])
        BY <3>1
      <4>2. Will(request'[p])
        BY <1>1, <2>4, <4>1 DEF o
      <4> QED
        BY <4>2 DEF LastIs
    <3>2. CASE reads = <<>> /\ tab.user \in {of[Mine], NoTenant}
      BY <1>1, <2>4, <3>2 DEF LastIs
    <3>3. CASE reads # <<>> /\ (request[Final(reads)].tenant = of[Mine] \/ Refused(request[Final(reads)]))
      <4>1. PICK f : f = Final(reads)
        OBVIOUS
      <4>2. f \in Request /\ InRead(request[f])
        BY <1>6, <3>3, <4>1, FinalIn DEF ReadsAre
      <4>3. CASE f = r
        <5>1. InRead(q) /\ (q.tenant = of[Mine] \/ Refused(q))
          BY <2>4, <3>3, <4>1, <4>2, <4>3 DEF o, Refused
        <5> QED
          BY <1>1, <2>4, <3>3, <4>1, <4>3, <5>1 DEF LastIs
      <4>4. CASE f # r
        <5>1. request'[f] = request[f]
          BY <1>1, <4>2, <4>4
        <5> QED
          BY <1>1, <2>4, <3>3, <4>1, <5>1 DEF LastIs
      <4> QED
        BY <4>3, <4>4
    <3> QED
      BY <2>1, <3>1, <3>2, <3>3 DEF LastIs
  <2> QED
    BY <1>7, <2>2, <2>3, <2>4
<1>11. ASSUME tab.on PROVE Want'
  <2>1. SUFFICES ASSUME wanted # NoTenant
                 PROVE  \E p \in Request : Sole(p)' /\ (Chosen(p)' \/ Bounced(p)')
    BY <1>1 DEF Want
  <2>2. Sole(r) /\ (Chosen(r) \/ Bounced(r))
    BY <1>6, <1>11, <2>1 DEF CInv, Want, Sole
  <2>3. Sole(r)'
    BY <1>2, <2>2 DEF Sole, Own
  <2>4. /\ Chosen(r) => Chosen(r)'
        /\ Bounced(r) => Bounced(r)'
    <3>1. \A t : Towards(request[r], t) => Towards(request[r], t)'
      BY <1>1, <1>7 DEF o, Towards
    <3>2. request'[r].from = request[r].from /\ request'[r].target = request[r].target
      BY <1>1 DEF o
    <3> QED
      BY <1>1, <3>1, <3>2 DEF Chosen, Bounced, Config, Page
  <2> QED
    BY <2>2, <2>3, <2>4
<1> QED
  BY <1>6, <1>7, <1>8, <1>9, <1>10, <1>11

-----------------------------------------------------------------------------
\* One that is past the reading of the session goes a step further, or is
\* answered, and no session moves.
LEMMA FurtherMoves ==
  ASSUME IInv, CInv, NEW r \in Request, Own(r), Serve(r), NEW q, OwnOK(q),
         request' = [request EXCEPT ![r] = q],
         request[r].at \notin {"session", "answered"}, q.at # "session",
         q.from = request[r].from, q.op = request[r].op, q.target = request[r].target,
         q.acted = request[r].acted, q.tenant = request[r].tenant \/ Refused(q),
         q.at = "answered" /\ q.tenant # NoTenant => q.members = tenants /\ Reader(q),
         of' = of, tenants' = tenants
  PROVE  Moves(r, q)
<1> DEFINE o == request[r]
<1>1. reads' = reads
  BY DEF Serve, At
<1>2. ~Will(o)
  BY DEF Will
<1>3. InRead(q) <=> InRead(o)
  BY DEF InRead, Reader
<1>4. ASSUME NEW t, Towards(o, t) PROVE Towards(q, t)'
  <2>1. o.acted => of[Mine] = t /\ t \in tenants /\ o.tenant = t
    BY <1>4 DEF Towards
  <2>2. Reader(q) /\ q.op \in {"switch", "create"} => o.acted
    BY DEF Reader
  <2> QED
    BY <1>4, <2>1, <2>2 DEF Towards, Refused
<1> QED
  BY <1>1, <1>2, <1>3, <1>4 DEF Moves

LEMMA RefuseMoves ==
  ASSUME IInv, CInv, NEW r \in Request, Own(r), Serve(r), Refuse(r),
         request[r].at \notin {"session", "answered"}, of' = of, tenants' = tenants
  PROVE  \E q : Moves(r, q)
<1>1. PICK q : q = [request[r] EXCEPT !.at = "answered", !.tenant = NoTenant, !.members = {}]
  OBVIOUS
<1>2. request' = [request EXCEPT ![r] = q]
  BY <1>1 DEF Refuse, Answer, Own, IInv, Shape
<1>3. request[r] \in Record /\ OwnOK(request[r])
  BY DEF CInv, Asks, IInv, Shape
<1>4. /\ q.at = "answered" /\ q.tenant = NoTenant
      /\ q.from = request[r].from /\ q.op = request[r].op /\ q.target = request[r].target
      /\ q.acted = request[r].acted /\ q.who = request[r].who
  BY <1>1, <1>3 DEF Record
<1>5. OwnOK(q)
  BY <1>3, <1>4 DEF OwnOK, Own, None
<1>6. Refused(q)
  BY <1>4 DEF Refused
<1> QED
  BY <1>2, <1>4, <1>5, <1>6, FurtherMoves

\* The request takes step at.
LEMMA GoMoves ==
  ASSUME IInv, CInv, NEW r \in Request, Own(r), Serve(r), NEW at, GoTo(r, at),
         request[r].at \notin {"session", "answered"}, request[r].tenant # NoTenant,
         \/ at = "describe" /\ request[r].acted
         \/ at \in {"act", "remove"} /\ ~request[r].acted
         \/ at = "update" /\ ~request[r].acted /\ request[r].op = "switch",
         of' = of, tenants' = tenants
  PROVE  \E q : Moves(r, q)
<1>1. PICK q : q = [request[r] EXCEPT !.at = at]
  OBVIOUS
<1>2. request' = [request EXCEPT ![r] = q]
  BY <1>1 DEF GoTo, Own, IInv, Shape
<1>3. request[r] \in Record /\ OwnOK(request[r])
  BY DEF CInv, Asks, IInv, Shape
<1>4. /\ q.at = at /\ q.tenant = request[r].tenant
      /\ q.from = request[r].from /\ q.op = request[r].op /\ q.target = request[r].target
      /\ q.acted = request[r].acted /\ q.who = request[r].who
  BY <1>1, <1>3 DEF Record
<1>5. q.at \notin {"session", "answered"}
  BY <1>4
<1>6. OwnOK(q)
  BY <1>3, <1>4 DEF OwnOK, Own, None
<1> QED
  BY <1>2, <1>4, <1>5, <1>6, FurtherMoves

LEMMA FindSessionMoves ==
  ASSUME IInv, CInv, NEW r \in Request, Own(r), Serve(r), FindSession(r)
  PROVE  \E q : Moves(r, q)
<1>1. /\ request[r] \in Record /\ OwnOK(request[r]) /\ request[r].who = Mine
      /\ request[r].at = "session" /\ request[r].from # None
  BY DEF CInv, Asks, OwnOK, IInv, Shape, Own, FindSession, At
<1>2. of' = of /\ tenants' = tenants /\ (disturbed => disturbed')
  BY DEF FindSession, Serve
<1>3. CASE Live(Mine)
  <2>1. PICK q : q = [request[r] EXCEPT !.at = "membership", !.tenant = of[Mine]]
    OBVIOUS
  <2>2. request' = [request EXCEPT ![r] = q]
    BY <1>1, <1>3, <2>1 DEF FindSession, IInv, Shape
  <2>3. /\ q.at = "membership" /\ q.tenant = of[Mine]
        /\ q.from = request[r].from /\ q.op = request[r].op /\ q.target = request[r].target
        /\ q.acted = request[r].acted /\ q.who = request[r].who
    BY <1>1, <2>1 DEF Record
  <2>4. OwnOK(q)
    BY <1>1, <2>3 DEF OwnOK, None
  <2>5. ASSUME NEW t, Towards(request[r], t) PROVE Towards(q, t)'
    BY <1>1, <1>2, <2>3, <2>5 DEF Towards
  <2>6. CASE Reader(request[r])
    <3>1. reads' = Append(reads, r)
      BY <1>1, <2>6 DEF Serve, At, Own, Reader
    <3>2. ~InRead(request[r]) /\ InRead(q)
      BY <1>1, <2>3, <2>6 DEF InRead, Reader
    <3> QED
      BY <1>2, <2>2, <2>3, <2>4, <2>5, <3>1, <3>2 DEF Moves
  <2>7. CASE ~Reader(request[r])
    <3>1. reads' = reads
      BY <1>1, <2>7 DEF Serve, At, Own, Reader
    <3>2. ~InRead(request[r]) /\ ~InRead(q) /\ ~Will(request[r])
      BY <1>1, <2>3, <2>7 DEF InRead, Reader, Will
    <3> QED
      BY <1>1, <1>2, <2>2, <2>3, <2>4, <2>5, <3>1, <3>2 DEF Moves
  <2> QED
    BY <2>6, <2>7
<1>4. CASE ~Live(Mine)
  <2>1. disturbed'
    BY <1>2, <1>4 DEF CInv
  <2>2. Refuse(r)
    BY <1>1, <1>4, MineAssumption, PassAssumption DEF FindSession
  <2>3. PICK q : q = [request[r] EXCEPT !.at = "answered", !.tenant = NoTenant, !.members = {}]
    OBVIOUS
  <2>4. request' = [request EXCEPT ![r] = q]
    BY <1>1, <2>2, <2>3 DEF Refuse, Answer, IInv, Shape
  <2>5. /\ q.at = "answered" /\ q.tenant = NoTenant
        /\ q.from = request[r].from /\ q.op = request[r].op /\ q.target = request[r].target
        /\ q.acted = request[r].acted /\ q.who = request[r].who
    BY <1>1, <2>3 DEF Record
  <2>6. OwnOK(q)
    BY <1>1, <2>5 DEF OwnOK, None
  <2> QED
    BY <2>1, <2>4, <2>5, <2>6 DEF Moves
<1> QED
  BY <1>3, <1>4

\* The session moves for request r, which is read again.
LEMMA AgainMoves ==
  ASSUME IInv, CInv, NEW r \in Request, Own(r), Serve(r), Again(r),
         request[r].at \notin {"session", "answered"},
         ~request[r].acted, request[r].op \in {"switch", "create"},
         of'[Mine] = request[r].target, request[r].target \in tenants'
  PROVE  \E q : Moves(r, q)
<1>1. PICK q : q = [request[r] EXCEPT !.at = "session", !.acted = TRUE]
  OBVIOUS
<1>2. request' = [request EXCEPT ![r] = q]
  BY <1>1 DEF Again, IInv, Shape
<1>3. request[r] \in Record /\ OwnOK(request[r]) /\ request[r].from # None
  BY DEF CInv, Asks, IInv, Shape, Own
<1>4. /\ q.at = "session" /\ q.acted /\ q.tenant = request[r].tenant
      /\ q.from = request[r].from /\ q.op = request[r].op /\ q.target = request[r].target
      /\ q.who = request[r].who
  BY <1>1, <1>3 DEF Record
<1>5. OwnOK(q)
  BY <1>3, <1>4 DEF OwnOK, None
<1>6. reads' = reads
  BY DEF Serve, At
<1>7. Will(q) /\ ~InRead(q) /\ ~InRead(request[r])
  BY <1>3, <1>4 DEF Will, InRead, Reader
<1>8. ASSUME NEW t, Towards(request[r], t) PROVE Towards(q, t)'
  BY <1>4, <1>8 DEF Towards
<1> QED
  BY <1>2, <1>4, <1>5, <1>6, <1>7, <1>8 DEF Moves

LEMMA MembershipMoves ==
  ASSUME IInv, CInv, NEW r \in Request, Own(r), Serve(r),
         \/ FindMembership(r) \/ CheckSwitch(r) \/ Deadlock(r)
  PROVE  \E q : Moves(r, q)
<1>1. /\ request[r] \in Record /\ OwnOK(request[r]) /\ request[r].from # None /\ RequestOK(request[r])
      /\ tenants \subseteq Tenant
  BY DEF CInv, Asks, IInv, Shape, Requests, Own
<1>2. of' = of /\ tenants' = tenants
  BY DEF FindMembership, CheckSwitch, Deadlock
<1>3. request[r].at \notin {"session", "answered"}
  BY DEF FindMembership, CheckSwitch, Deadlock, WaitsFor, Deleting, Acts, At
<1>4. CASE Refuse(r)
  BY <1>2, <1>3, <1>4, RefuseMoves
<1>5. CASE FindMembership(r) /\ ~Refuse(r)
  <2>1. request[r].tenant # NoTenant
    BY <1>1, <1>5, NoTenantIsNone DEF FindMembership
  <2>2. CASE request[r].acted
    <3>1. GoTo(r, "describe")
      BY <1>5, <2>2 DEF FindMembership
    <3> QED
      BY <1>2, <1>3, <2>1, <2>2, <3>1, GoMoves
  <2>3. CASE ~request[r].acted
    <3>1. GoTo(r, "act")
      BY <1>5, <2>3 DEF FindMembership
    <3> QED
      BY <1>2, <1>3, <2>1, <2>3, <3>1, GoMoves
  <2> QED
    BY <2>2, <2>3
<1>6. CASE CheckSwitch(r) /\ ~Refuse(r)
  <2>1. GoTo(r, "update") /\ request[r].op = "switch" /\ request[r].at = "act"
    BY <1>6 DEF CheckSwitch, Acts, At
  <2>2. request[r].tenant # NoTenant /\ ~request[r].acted
    BY <1>1, <2>1 DEF OwnOK
  <2> QED
    BY <1>2, <1>3, <2>1, <2>2, GoMoves
<1> QED
  BY <1>4, <1>5, <1>6 DEF Deadlock

LEMMA DescribeMoves ==
  ASSUME IInv, CInv, NEW r \in Request, Own(r), Serve(r), Describe(r)
  PROVE  \E q : Moves(r, q)
<1>1. PICK q : q = [request[r] EXCEPT !.at = "answered", !.tenant = request[r].tenant, !.members = tenants]
  OBVIOUS
<1>2. request[r] \in Record /\ OwnOK(request[r]) /\ request[r].from # None
  BY DEF CInv, Asks, IInv, Shape, Own
<1>3. request' = [request EXCEPT ![r] = q]
  BY <1>1, <1>2 DEF Describe, Answer, IInv, Shape
<1>4. /\ q.at = "answered" /\ q.tenant = request[r].tenant /\ q.members = tenants
      /\ q.from = request[r].from /\ q.op = request[r].op /\ q.target = request[r].target
      /\ q.acted = request[r].acted /\ q.who = request[r].who
  BY <1>1, <1>2 DEF Record
<1>5. request[r].at = "describe" \/ (request[r].at = "act" /\ request[r].op = "me")
  BY DEF Describe, Acts, At
<1>6. Reader(q) /\ OwnOK(q)
  BY <1>2, <1>4, <1>5 DEF OwnOK, Reader, None
<1>7. of' = of /\ tenants' = tenants
  BY DEF Describe
<1>8. request[r].at \notin {"session", "answered"} /\ q.at # "session"
  BY <1>4, <1>5
<1> QED
  BY <1>3, <1>4, <1>6, <1>7, <1>8, FurtherMoves

LEMMA ActMoves ==
  ASSUME IInv, CInv, NEW r \in Request, Own(r), Serve(r),
         UpdateSessionTenant(r) \/ CreateTenant(r)
  PROVE  \E q : Moves(r, q)
<1>1. /\ request[r] \in Record /\ OwnOK(request[r]) /\ request[r].from # None
      /\ request[r].who = Mine /\ of \in [Session -> Tenant \cup {NoTenant}]
  BY DEF CInv, Asks, IInv, Shape, Own, OwnOK
<1>2. /\ request[r].at \in {"update", "act"}
      /\ request[r].op \in {"switch", "create"}
  BY <1>1 DEF UpdateSessionTenant, CreateTenant, Acts, At, OwnOK
<1>3. ~request[r].acted /\ request[r].at \notin {"session", "answered"}
  BY <1>1, <1>2 DEF OwnOK
<1>4. \/ of' = of /\ tenants' = tenants /\ Refuse(r)
      \/ of'[Mine] = request[r].target /\ request[r].target \in tenants' /\ Again(r)
  BY <1>1, MineAssumption DEF UpdateSessionTenant, CreateTenant
<1> QED
  BY <1>2, <1>3, <1>4, RefuseMoves, AgainMoves

LEMMA MoveSessionsMoves ==
  ASSUME IInv, CInv, NEW r \in Request, Own(r), Serve(r), MoveSessions(r)
  PROVE  \E q : Moves(r, q)
<1>1. request[r] \in Record /\ OwnOK(request[r]) /\ request[r].from # None
  BY DEF CInv, Asks, IInv, Shape, Own
<1>2. request[r].at = "act" /\ request[r].op = "delete" /\ of' = of /\ tenants' = tenants
  BY DEF MoveSessions, Acts, At
<1>3. request[r].at \notin {"session", "answered"}
  BY <1>2
<1>4. CASE Refuse(r)
  BY <1>2, <1>3, <1>4, RefuseMoves
<1>5. CASE ~Refuse(r)
  <2> DEFINE to == Alternative(request[r].target)
             moved == IF to = NoTenant THEN {} ELSE InTenant(request[r].target)
             last == tenants = {request[r].target}
  <2>1. request' = [request EXCEPT ![r].at = "remove", ![r].to = to, ![r].moved = moved, ![r].last = last]
    BY <1>5 DEF MoveSessions
  <2> HIDE DEF to, moved, last
  <2>2. PICK q : q = [request[r] EXCEPT !.at = "remove", !.to = to, !.moved = moved, !.last = last]
    OBVIOUS
  <2>3. request' = [request EXCEPT ![r] = q]
    BY <1>1, <2>1, <2>2 DEF IInv, Shape, Record
  <2>4. /\ q.at = "remove" /\ q.tenant = request[r].tenant
        /\ q.from = request[r].from /\ q.op = request[r].op /\ q.target = request[r].target
        /\ q.acted = request[r].acted /\ q.who = request[r].who
    BY <1>1, <2>2 DEF Record
  <2>5. OwnOK(q) /\ q.at # "session" /\ q.at # "answered"
    BY <1>1, <1>2, <2>4 DEF OwnOK, None
  <2> QED
    BY <1>2, <1>3, <2>3, <2>4, <2>5, FurtherMoves
<1> QED
  BY <1>4, <1>5

LEMMA RemoveMoves ==
  ASSUME IInv, CInv, NEW r \in Request, Own(r), Serve(r), RemoveTenant(r)
  PROVE  \E q : Moves(r, q)
<1>1. request[r] \in Record /\ OwnOK(request[r]) /\ request[r].from # None /\ RequestOK(request[r])
  BY DEF CInv, Asks, IInv, Shape, Requests, Own
<1>2. request[r].at = "remove" /\ request[r].op = "delete"
  BY <1>1 DEF RemoveTenant, At, RequestOK
<1>3. request[r].at \notin {"session", "answered"}
  BY <1>2
<1>4. CASE Refuse(r) /\ of' = of /\ tenants' = tenants
  BY <1>3, <1>4, RefuseMoves
<1>5. CASE Answer(r, request[r].tenant, {})
  <2>1. PICK q : q = [request[r] EXCEPT !.at = "answered", !.tenant = request[r].tenant, !.members = {}]
    OBVIOUS
  <2>2. request' = [request EXCEPT ![r] = q]
    BY <1>1, <1>5, <2>1 DEF Answer, IInv, Shape
  <2>3. /\ q.at = "answered" /\ q.tenant = request[r].tenant
        /\ q.from = request[r].from /\ q.op = request[r].op /\ q.target = request[r].target
        /\ q.acted = request[r].acted /\ q.who = request[r].who
    BY <1>1, <2>1 DEF Record
  <2>4. ~request[r].acted /\ request[r].tenant # NoTenant
    BY <1>1, <1>2 DEF OwnOK
  <2>5. OwnOK(q)
    BY <1>1, <1>2, <2>3, <2>4 DEF OwnOK, None
  <2>6. Will(q) /\ ~InRead(q) /\ ~InRead(request[r])
    BY <1>1, <1>2, <2>3, <2>4 DEF Will, InRead, Reader
  <2>7. reads' = reads /\ \A t : ~Towards(request[r], t)
    BY <1>2 DEF Serve, At, Towards
  <2> QED
    BY <2>2, <2>3, <2>5, <2>6, <2>7 DEF Moves
<1> QED
  BY <1>4, <1>5 DEF RemoveTenant

LEMMA ServeShown ==
  ASSUME IInv, CInv, NEW r \in Request, Serve(r)
  PROVE  CInv'
<1>1. CASE ~Own(r)
  BY <1>1, ServeForeign, ForeignStep
<1>2. CASE Own(r)
  <2>1. OwnOK(request[r]) /\ request[r].from # None
    BY <1>2 DEF CInv, Asks, Own
  <2>2. /\ ~ \E s \in Session : CreateSession(r, s)
        /\ ~MintToken(r) /\ ~MintCredential(r) /\ ~Deactivate(r) /\ ~RevokeCredential(r) /\ ~DeleteToken(r)
    BY <2>1 DEF OwnOK, TenantOps, CreateSession, MintToken, MintCredential, Deactivate,
         RevokeCredential, DeleteToken, Acts, At
  <2>3. \E q : Moves(r, q)
    BY <1>2, <2>2, FindSessionMoves, MembershipMoves, DescribeMoves, ActMoves,
       MoveSessionsMoves, RemoveMoves DEF Serve, Handle
  <2> QED
    BY <1>2, <2>3, MovesStep
<1> QED
  BY <1>1, <1>2

-----------------------------------------------------------------------------
(* The tab's own steps, in which the session stays where it is.            *)

\* A request that the tab has just made.
Fresh(q) ==
  /\ q.from \in {"start", "switcher", "create", "delete", "config"} /\ q.who = Mine
  /\ q.op \in {"me"} \cup TenantOps
  /\ q.at = "session" /\ ~q.acted /\ (q.from = "start" => q.op = "me")

\* What is said of req holds of new.
Carries(req, new, rd) ==
  ReadsAre(req, rd) => /\ ReadsAre(new, rd)
                       /\ \A user, now : LastIs(req, rd, user, now) => LastIs(new, rd, user, now)

LEMMA FreshCarries ==
  ASSUME NEW req \in [Request -> Record], Asks(req), NEW r \in Request, req[r].from = None,
         NEW q, Fresh(q), NEW new, new = [req EXCEPT ![r] = q]
  PROVE  /\ Asks(new) /\ \A rd : Carries(req, new, rd)
         /\ new[r] = q /\ \A p \in Request \ {r} : new[p] = req[p]
<1>1. new[r] = q /\ \A p \in Request \ {r} : new[p] = req[p]
  OBVIOUS
<1>2. OwnOK(q)
  BY DEF Fresh, OwnOK, None
<1>3. Asks(new)
  BY <1>1, <1>2 DEF Asks
<1>4. ~InRead(q) /\ ~InRead(req[r]) /\ ~Will(req[r])
  BY DEF Fresh, InRead, Will
<1>5. ASSUME NEW rd, ReadsAre(req, rd)
      PROVE  /\ ReadsAre(new, rd)
             /\ \A user, now : LastIs(req, rd, user, now) => LastIs(new, rd, user, now)
  <2>1. ReadsAre(new, rd)
    BY <1>1, <1>4, <1>5 DEF ReadsAre
  <2>2. ASSUME NEW user, NEW now, LastIs(req, rd, user, now) PROVE LastIs(new, rd, user, now)
    <3>1. CASE \E p \in Request : Will(req[p])
      BY <1>1, <1>4, <3>1 DEF LastIs
    <3>2. CASE ~ \E p \in Request : Will(req[p])
      <4>1. rd # <<>> => Final(rd) \in Request /\ InRead(req[Final(rd)])
        BY <1>5, FinalIn DEF ReadsAre
      <4>2. rd # <<>> => new[Final(rd)] = req[Final(rd)]
        BY <1>1, <1>4, <4>1
      <4> QED
        BY <2>2, <3>2, <4>2 DEF LastIs
    <3> QED
      BY <3>1, <3>2
  <2> QED
    BY <2>1, <2>2
<1> QED
  BY <1>1, <1>3, <1>5 DEF Carries

\* The answer of request r has been received.
LEMMA DroppedCarries ==
  ASSUME IInv, Asks(request), NEW r \in Request, NEW new, new = Without(r)
  PROVE  /\ Asks(new) /\ new \in [Request -> Record]
         /\ new[r] = Free /\ Free.from = None /\ ~InRead(Free)
         /\ \A p \in Request \ {r} : new[p] = request[p]
         /\ ~InRead(request[r]) /\ ~Will(request[r]) => \A rd : Carries(request, new, rd)
<1>1. new[r] = Free /\ new \in [Request -> Record] /\ \A p \in Request \ {r} : new[p] = request[p]
  BY FreeIsRecord DEF Without, IInv, Shape
<1>2. Free.from = None /\ Free.at = None
  BY DEF Free
<1>3. OwnOK(Free) /\ ~InRead(Free)
  BY <1>2 DEF OwnOK, InRead, None
<1>4. Asks(new)
  BY <1>1, <1>3 DEF Asks
<1>5. ASSUME NEW rd, ReadsAre(request, rd), ~InRead(request[r]), ~Will(request[r])
      PROVE  /\ ReadsAre(new, rd)
             /\ \A user, now : LastIs(request, rd, user, now) => LastIs(new, rd, user, now)
  <2>1. ReadsAre(new, rd)
    BY <1>1, <1>3, <1>5 DEF ReadsAre
  <2>2. ASSUME NEW user, NEW now, LastIs(request, rd, user, now) PROVE LastIs(new, rd, user, now)
    <3>1. CASE \E p \in Request : Will(request[p])
      BY <1>1, <1>5, <3>1 DEF LastIs
    <3>2. CASE ~ \E p \in Request : Will(request[p])
      <4>1. rd # <<>> => Final(rd) \in Request /\ InRead(request[Final(rd)])
        BY <1>5, FinalIn DEF ReadsAre
      <4>2. rd # <<>> => new[Final(rd)] = request[Final(rd)]
        BY <1>1, <1>5, <4>1
      <4> QED
        BY <2>2, <3>2, <4>2 DEF LastIs
    <3> QED
      BY <3>1, <3>2
  <2> QED
    BY <2>1, <2>2
<1> QED
  BY <1>1, <1>2, <1>3, <1>4, <1>5 DEF Carries

\* The watchers of the configuration page change neither what was read nor the user.
LEMMA RenderCarries ==
  ASSUME NEW new \in TabState, NEW req \in [Request -> Record], Asks(req),
         NEW w, TabIs(new, req, w), Render(new, req)
  PROVE  /\ Asks(request') /\ TabIs(tab', request', w) /\ \A rd : Carries(req, request', rd)
         /\ tab'.user = new.user /\ tab'.members = new.members /\ tab'.route = new.route /\ tab'.on = new.on
<1>1. CASE new.route.page = "config" /\ new.user # NoTenant /\ new.route.tenant \notin new.members
  <2>1. tab' = [new EXCEPT !.hash = Tenants] /\ request' = req
    BY <1>1 DEF Render
  <2>2. /\ tab'.user = new.user /\ tab'.members = new.members /\ tab'.route = new.route /\ tab'.on = new.on
        /\ tab'.me = new.me
    BY <2>1 DEF TabState
  <2> QED
    BY <2>1, <2>2 DEF Carries, TabIs
<1>2. CASE /\ new.route.page = "config" /\ new.user # NoTenant /\ new.route.tenant \in new.members
           /\ new.route.tenant # new.user
  <2>1. PICK q \in Request : /\ req[q].op = None
                             /\ request' = [req EXCEPT ![q] = [Free EXCEPT !.op = "switch", !.at = "session",
                                  !.from = "config", !.who = Mine, !.target = new.route.tenant]]
    BY <1>2 DEF Render
  <2>2. PICK f : f = [Free EXCEPT !.op = "switch", !.at = "session",
                                  !.from = "config", !.who = Mine, !.target = new.route.tenant]
    OBVIOUS
  <2>3. Fresh(f) /\ f.from = "config"
    BY <2>2 DEF Fresh, Free, TenantOps
  <2>4. req[q].from = None
    BY <2>1 DEF Asks, OwnOK, TenantOps, None
  <2>5. /\ Asks(request') /\ \A rd : Carries(req, request', rd)
        /\ request'[q] = f /\ \A p \in Request \ {q} : request'[p] = req[p]
    <3>1. request' = [req EXCEPT ![q] = f]
      BY <2>1, <2>2
    <3> QED
      BY <2>3, <2>4, <3>1, FreshCarries
  <2>6. tab' = new
    BY <1>2 DEF Render
  <2>7. new.me # "due"
    BY <1>2 DEF TabIs
  <2>8. TabIs(new, request', w)
    BY <1>2, <2>3, <2>5, <2>7 DEF TabIs
  <2> QED
    BY <2>5, <2>6, <2>8
<1>3. CASE tab' = new /\ request' = req
  BY <1>3 DEF Carries
<1> QED
  BY <1>1, <1>2, <1>3 DEF Render

LEMMA AskedFresh ==
  ASSUME IInv, CInv, NEW r \in Request, NEW from, NEW op, NEW target, Asked(r, from, Mine, op, target),
         from \in {"start", "switcher", "create", "delete"}, op \in {"me"} \cup TenantOps,
         from = "start" => op = "me"
  PROVE  \E q : /\ Fresh(q) /\ q.from = from /\ q.op = op /\ q.target = target
                /\ ~Own(r) /\ Asks(request') /\ \A rd : Carries(request, request', rd)
                /\ request'[r] = q /\ \A p \in Request \ {r} : request'[p] = request[p]
<1>1. PICK q : q = [Free EXCEPT !.op = op, !.at = "session", !.from = from, !.who = Mine,
                                !.target = target, !.stale = Mine \in told]
  OBVIOUS
<1>2. Fresh(q) /\ q.from = from /\ q.op = op /\ q.target = target
  BY <1>1 DEF Fresh, Free
<1>3. request' = [request EXCEPT ![r] = q]
  BY <1>1 DEF Asked
<1>4. request \in [Request -> Record] /\ Asks(request)
  BY DEF IInv, Shape, CInv
<1>5. request[r].from = None
  BY <1>4 DEF Asked, Vacant, Asks, OwnOK, TenantOps, None
<1>6. /\ Asks(request') /\ \A rd : Carries(request, request', rd)
      /\ request'[r] = q /\ \A p \in Request \ {r} : request'[p] = request[p]
  BY <1>2, <1>3, <1>4, <1>5, FreshCarries
<1> QED
  BY <1>2, <1>5, <1>6 DEF Own

\* What the user asks of the API.
LEMMA AskShown ==
  ASSUME IInv, CInv, NEW r \in Request, NEW from, NEW op, NEW t,
         Asked(r, from, Mine, op, t), tab.user # NoTenant,
         \/ from = "switcher" /\ op = "switch"
         \/ from = "create" /\ op = "create" /\ Mounted("tenants")
         \/ from = "delete" /\ op = "delete" /\ Mounted("tenants"),
         Wants(IF op = "delete" THEN NoTenant ELSE t), Idle, UNCHANGED <<tab, reads, disturbed>>
  PROVE  CInv'
<1>1. PICK q : /\ Fresh(q) /\ q.from = from /\ q.op = op /\ q.target = t
               /\ ~Own(r) /\ Asks(request') /\ \A rd : Carries(request, request', rd)
               /\ request'[r] = q /\ \A p \in Request \ {r} : request'[p] = request[p]
  BY AskedFresh DEF TenantOps
<1>2. tab' = tab /\ reads' = reads /\ disturbed' = disturbed /\ of' = of /\ (Live(Mine)' <=> Live(Mine))
  BY DEF Idle, Live
<1>3. TabIs(tab, request, wanted)
  BY DEF CInv
<1>4. TabIs(tab', request', wanted')
  <2>1. tab.me # "due" /\ q.from # "start"
    BY <1>1, <1>3 DEF TabIs
  <2>2. \A p \in Request : request'[p].from = "start" => FALSE
    BY <1>1, <1>3, <2>1 DEF TabIs
  <2>3. \A p \in Request : /\ request'[p].from \in {"create", "delete"} => tab.route.page = "tenants"
                           /\ request'[p].from = "config" => tab.route.page = "config"
    BY <1>1, <1>3 DEF TabIs, Mounted
  <2> QED
    BY <1>2, <2>1, <2>2, <2>3 DEF TabIs
<1>5. ~disturbed /\ tab.on => Want'
  <2>1. SUFFICES ASSUME wanted' # NoTenant PROVE \E p \in Request : Sole(p)' /\ Chosen(p)'
    BY DEF Want
  <2>2. Quiet /\ op # "delete" /\ wanted' = t
    BY <2>1 DEF Wants
  <2>3. Sole(r)'
    BY <1>1, <2>2 DEF Sole, Own, Quiet, Fresh, None
  <2>4. Towards(q, t)'
    BY <1>1, <2>2 DEF Towards, Fresh
  <2>5. Chosen(r)'
    BY <1>1, <1>2, <2>2, <2>4 DEF Chosen, Quiet
  <2> QED
    BY <2>3, <2>5
<1> QED
  BY <1>1, <1>2, <1>4, <1>5 DEF CInv, Carries

LEMMA NavigateShown ==
  ASSUME IInv, CInv, NEW p \in {Home, Tenants} \cup {Config(t) : t \in Tenant}, Navigate(p)
  PROVE  CInv'
<1>1. /\ tab' = [tab EXCEPT !.hash = p] /\ tab \in TabState /\ p # tab.hash /\ tab.user # NoTenant
      /\ request' = request /\ reads' = reads /\ disturbed' = disturbed /\ of' = of
      /\ (Live(Mine)' <=> Live(Mine))
  BY DEF Navigate, Acting, Idle, Live, IInv, Shape
<1>2. /\ tab'.hash = p /\ tab'.route = tab.route /\ tab'.user = tab.user
      /\ tab'.me = tab.me /\ tab'.on = tab.on
  BY <1>1 DEF TabState
<1>3. TabIs(tab', request', wanted')
  BY <1>1, <1>2 DEF CInv, TabIs
<1>4. ~disturbed /\ tab.on => Want'
  <2>1. SUFFICES ASSUME wanted' # NoTenant PROVE (\A r \in Request : ~Own(r)') /\ Rest'
    BY DEF Want
  <2>2. Quiet /\ wanted' = p.tenant
    BY <2>1 DEF Navigate, Wants
  <2>3. p = Config(wanted')
    BY <2>1, <2>2 DEF Home, Tenants, Config, Page
  <2>4. Rest'
    BY <1>1, <1>2, <2>2, <2>3 DEF Rest, Quiet, Config, Page
  <2> QED
    BY <1>1, <2>2, <2>4 DEF Quiet, Own
<1> QED
  BY <1>1, <1>2, <1>3, <1>4 DEF CInv

LEMMA UseShown ==
  ASSUME IInv, CInv, Use
  PROVE  CInv'
<1>1. CASE \E r \in Request, t \in Tenant : Pick(r, t) \/ SubmitCreate(r, t) \/ ConfirmDelete(r, t)
  <2>1. PICK r \in Request, t \in Tenant : Pick(r, t) \/ SubmitCreate(r, t) \/ ConfirmDelete(r, t)
    BY <1>1
  <2>2. CASE Pick(r, t)
    BY <2>2, AskShown DEF Pick, Acting
  <2>3. CASE SubmitCreate(r, t)
    BY <2>3, AskShown DEF SubmitCreate, Acting
  <2>4. CASE ConfirmDelete(r, t)
    BY <2>4, AskShown DEF ConfirmDelete, Acting
  <2> QED
    BY <2>1, <2>2, <2>3, <2>4
<1>2. CASE \E p \in {Home, Tenants} \cup {Config(t) : t \in Tenant} : Navigate(p)
  BY <1>2, NavigateShown
<1> QED
  BY <1>1, <1>2 DEF Use

LEMMA LoadMeShown ==
  ASSUME IInv, CInv, NEW r \in Request, LoadMe(r)
  PROVE  CInv'
<1>1. PICK q : /\ Fresh(q) /\ q.from = "start" /\ q.op = "me"
               /\ ~Own(r) /\ Asks(request') /\ \A rd : Carries(request, request', rd)
               /\ request'[r] = q /\ \A p \in Request \ {r} : request'[p] = request[p]
  BY AskedFresh DEF LoadMe
<1>2. /\ tab' = [tab EXCEPT !.me = "asked"] /\ tab \in TabState /\ tab.me = "due"
      /\ reads' = reads /\ disturbed' = disturbed /\ wanted' = wanted /\ of' = of
      /\ (Live(Mine)' <=> Live(Mine))
  BY DEF LoadMe, Idle, Live, IInv, Shape
<1>3. /\ tab'.me = "asked" /\ tab'.hash = tab.hash /\ tab'.route = tab.route /\ tab'.user = tab.user
      /\ tab'.on = tab.on
  BY <1>2 DEF TabState
<1>4. /\ tab.user = NoTenant /\ wanted = NoTenant /\ \A p \in Request : request[p].from = None
  BY <1>2 DEF CInv, TabIs
<1>5. TabIs(tab', request', wanted')
  BY <1>1, <1>2, <1>3, <1>4 DEF TabIs, None
<1>6. Want'
  BY <1>2, <1>4 DEF Want
<1> QED
  BY <1>1, <1>2, <1>3, <1>5, <1>6 DEF CInv, Carries

\* A configuration page that does not show its user's tenant asks to switch.
Switches(req, t) ==
  \E q \in Request : /\ request'[q].from = "config" /\ Towards(request'[q], t)
                     /\ \A p \in Request \ {q} : request'[p] = req[p]

LEMMA RenderCases ==
  ASSUME NEW new \in TabState, NEW req \in [Request -> Record], Render(new, req), new.user # NoTenant
  PROVE  \/ /\ new.route.page = "config" /\ new.route.tenant \notin new.members
            /\ tab' = [new EXCEPT !.hash = Tenants] /\ request' = req
         \/ /\ new.route.page = "config" /\ new.route.tenant \in new.members
            /\ new.route.tenant # new.user
            /\ tab' = new /\ Switches(req, new.route.tenant)
         \/ /\ new.route.page = "config" => new.route.tenant = new.user /\ new.route.tenant \in new.members
            /\ tab' = new /\ request' = req
<1>1. CASE /\ new.route.page = "config" /\ new.route.tenant \in new.members
           /\ new.route.tenant # new.user
  <2>1. PICK q \in Request : request' = [req EXCEPT ![q] = [Free EXCEPT !.op = "switch", !.at = "session",
                                  !.from = "config", !.who = Mine, !.target = new.route.tenant]]
    BY <1>1 DEF Render
  <2>2. PICK f : f = [Free EXCEPT !.op = "switch", !.at = "session",
                                  !.from = "config", !.who = Mine, !.target = new.route.tenant]
    OBVIOUS
  <2>3. f.from = "config" /\ Towards(f, new.route.tenant)
    BY <2>2 DEF Free, Towards
  <2>4. request'[q] = f /\ \A p \in Request \ {q} : request'[p] = req[p]
    BY <2>1, <2>2
  <2>5. tab' = new
    BY <1>1 DEF Render
  <2> QED
    BY <1>1, <2>3, <2>4, <2>5 DEF Switches
<1>2. CASE new.route.page = "config" /\ new.route.tenant \notin new.members
  BY <1>2 DEF Render
<1>3. CASE new.route.page = "config" => new.route.tenant = new.user
  BY <1>3 DEF Render
<1> QED
  BY <1>1, <1>2, <1>3

\* The route of a configuration page is that of its tenant.
LEMMA RouteIsConfig ==
  ASSUME NEW tb \in TabState, tb.route.page = "config"
  PROVE  tb.route = Config(tb.route.tenant)
BY DEF TabState, Pages, Home, Tenants, Config, Page

LEMMA ConfigIs ==
  ASSUME NEW t
  PROVE  /\ Config(t).page = "config" /\ Config(t).tenant = t
         /\ \A x : Config(x) = Config(t) => x = t
         /\ Config(t) # Tenants /\ Tenants.page = "tenants"
BY DEF Tenants, Config, Page

\* Pages that are unmounted leave requests behind.
LEMMA LeftIs ==
  ASSUME IInv, NEW p, NEW req, req = Leave(p)
  PROVE  /\ req \in [Request -> Record]
         /\ \A r \in Request :
              \/ request[r].from \notin AskedBy(p) /\ req[r] = request[r]
              \/ /\ request[r].from \in AskedBy(p) /\ req[r].from = "left"
                 /\ req[r].op = request[r].op /\ req[r].at = request[r].at
                 /\ req[r].who = request[r].who /\ req[r].tenant = request[r].tenant
                 /\ req[r].acted = request[r].acted
<1>1. \A r \in Request : request[r] \in Record
  BY DEF IInv, Shape
<1>2. \A r \in Request : [request[r] EXCEPT !.from = "left"] \in Record
  BY <1>1 DEF Record, Origins
<1>3. req \in [Request -> Record]
  BY <1>1, <1>2 DEF Leave
<1>4. ASSUME NEW r \in Request
      PROVE  \/ request[r].from \notin AskedBy(p) /\ req[r] = request[r]
             \/ /\ request[r].from \in AskedBy(p) /\ req[r].from = "left"
                /\ req[r].op = request[r].op /\ req[r].at = request[r].at
                /\ req[r].who = request[r].who /\ req[r].tenant = request[r].tenant
                /\ req[r].acted = request[r].acted
  <2>1. CASE request[r].from \in AskedBy(p)
    <3>1. req[r] = [request[r] EXCEPT !.from = "left"]
      BY <2>1 DEF Leave
    <3> QED
      BY <1>1, <2>1, <3>1 DEF Record
  <2>2. CASE request[r].from \notin AskedBy(p)
    BY <2>2 DEF Leave
  <2> QED
    BY <2>1, <2>2
<1> QED
  BY <1>3, <1>4

LEMMA AskedByIs ==
  ASSUME NEW tb \in TabState
  PROVE  /\ tb.route.page \in {"home", "tenants", "config"}
         /\ AskedBy(tb.route.page) \subseteq {"create", "delete", "config"}
         /\ tb.route.page = "tenants" => AskedBy(tb.route.page) = {"create", "delete"}
         /\ tb.route.page = "config" => AskedBy(tb.route.page) = {"config"}
         /\ tb.hash.page \in {"home", "tenants", "config"}
BY DEF TabState, Pages, Home, Tenants, Config, Page, AskedBy

\* What the tab's requests are, once pages have changed.
Turned == IF tab.hash.page = tab.route.page THEN request ELSE Leave(tab.route.page)

LEMMA TurnedIs ==
  ASSUME IInv, CInv, NEW req, req = Turned, NEW new, new = [tab EXCEPT !.route = tab.hash]
  PROVE  /\ req \in [Request -> Record] /\ Asks(req) /\ TabIs(new, req, wanted)
         /\ \A rd : Carries(request, req, rd)
         /\ \A r \in Request : req[r].from = None <=> request[r].from = None
         /\ new \in TabState /\ new.route = tab.hash /\ new.hash = tab.hash /\ new.user = tab.user
         /\ new.members = tab.members /\ new.on = tab.on /\ new.me = tab.me
<1>1. /\ req \in [Request -> Record] /\ tab \in TabState
      /\ \A r \in Request :
           \/ req[r] = request[r]
           \/ /\ request[r].from \in {"create", "delete", "config"} /\ req[r].from = "left"
              /\ req[r].op = request[r].op /\ req[r].at = request[r].at
              /\ req[r].who = request[r].who /\ req[r].tenant = request[r].tenant
              /\ req[r].acted = request[r].acted
  <2>1. tab \in TabState /\ request \in [Request -> Record]
    BY DEF IInv, Shape
  <2>2. CASE tab.hash.page = tab.route.page
    BY <2>1, <2>2 DEF Turned
  <2>3. CASE tab.hash.page # tab.route.page
    <3>1. req = Leave(tab.route.page)
      BY <2>3 DEF Turned
    <3>2. AskedBy(tab.route.page) \subseteq {"create", "delete", "config"}
      BY <2>1, AskedByIs
    <3> QED
      <4>1. PICK p : p = tab.route.page
        OBVIOUS
      <4>2. /\ req \in [Request -> Record]
            /\ \A r \in Request :
                 \/ request[r].from \notin AskedBy(p) /\ req[r] = request[r]
                 \/ /\ request[r].from \in AskedBy(p) /\ req[r].from = "left"
                    /\ req[r].op = request[r].op /\ req[r].at = request[r].at
                    /\ req[r].who = request[r].who /\ req[r].tenant = request[r].tenant
                    /\ req[r].acted = request[r].acted
        BY <3>1, <4>1, LeftIs
      <4> QED
        BY <2>1, <3>2, <4>1, <4>2
  <2> QED
    BY <2>2, <2>3
<1>2. /\ new \in TabState /\ new.route = tab.hash /\ new.hash = tab.hash /\ new.user = tab.user
      /\ new.members = tab.members /\ new.on = tab.on /\ new.me = tab.me
  BY <1>1 DEF TabState
<1>3. ASSUME NEW r \in Request
      PROVE  /\ OwnOK(req[r]) /\ (InRead(req[r]) <=> InRead(request[r]))
             /\ (Will(req[r]) <=> Will(request[r])) /\ (Refused(req[r]) <=> Refused(request[r]))
             /\ req[r].tenant = request[r].tenant
             /\ req[r].from = None <=> request[r].from = None
  <2>1. CASE req[r] = request[r]
    BY <2>1 DEF CInv, Asks
  <2>2. CASE /\ request[r].from \in {"create", "delete", "config"} /\ req[r].from = "left"
             /\ req[r].op = request[r].op /\ req[r].at = request[r].at
             /\ req[r].who = request[r].who /\ req[r].tenant = request[r].tenant
             /\ req[r].acted = request[r].acted
    <3>1. OwnOK(request[r]) /\ request[r].from # None /\ req[r].from # None /\ req[r].from # "start"
      BY <2>2 DEF CInv, Asks, None
    <3>2. OwnOK(req[r])
      BY <2>2, <3>1 DEF OwnOK, Reader
    <3> QED
      BY <2>2, <3>1, <3>2 DEF InRead, Will, Refused, Reader
  <2> QED
    BY <1>1, <2>1, <2>2
<1>4. Asks(req)
  BY <1>3 DEF Asks
<1>5. ASSUME NEW rd, ReadsAre(request, rd)
      PROVE  /\ ReadsAre(req, rd)
             /\ \A user, now : LastIs(request, rd, user, now) => LastIs(req, rd, user, now)
  <2>1. ReadsAre(req, rd)
    BY <1>3, <1>5 DEF ReadsAre
  <2>2. rd # <<>> => Final(rd) \in Request
    BY <1>5, FinalIn DEF ReadsAre
  <2> QED
    BY <1>3, <2>1, <2>2 DEF LastIs
<1>6. TabIs(new, req, wanted)
  <2>1. /\ tab.me = "due" => tab.user = NoTenant /\ \A r \in Request : req[r].from = None
        /\ tab.user = NoTenant => wanted = NoTenant /\ \A r \in Request : req[r].from \in {None, "start"}
    BY <1>1, <1>3 DEF CInv, TabIs, None
  <2>2. \A r \in Request : req[r].from = "start" => request[r].from = "start"
    BY <1>1
  <2>3. ASSUME NEW r \in Request
        PROVE  /\ req[r].from \in {"create", "delete"} => tab.hash.page = "tenants"
               /\ req[r].from = "config" => tab.hash.page = "config"
    <3>1. CASE tab.hash.page = tab.route.page
      BY <3>1 DEF CInv, TabIs, Turned
    <3>2. CASE tab.hash.page # tab.route.page
      <4>1. \/ request[r].from \notin AskedBy(tab.route.page) /\ req[r] = request[r]
            \/ req[r].from = "left"
        BY <3>2, LeftIs DEF Turned
      <4>2. /\ request[r].from \in {"create", "delete"} => request[r].from \in AskedBy(tab.route.page)
            /\ request[r].from = "config" => request[r].from \in AskedBy(tab.route.page)
        <5>1. /\ request[r].from \in {"create", "delete"} => tab.route.page = "tenants"
              /\ request[r].from = "config" => tab.route.page = "config"
          BY DEF CInv, TabIs
        <5>2. /\ tab.route.page = "tenants" => AskedBy(tab.route.page) = {"create", "delete"}
              /\ tab.route.page = "config" => AskedBy(tab.route.page) = {"config"}
          BY <1>1, AskedByIs
        <5> QED
          BY <5>1, <5>2
      <4>3. CASE req[r].from = "left"
        BY <4>3
      <4>4. CASE request[r].from \notin AskedBy(tab.route.page) /\ req[r] = request[r]
        BY <4>2, <4>4
      <4> QED
        BY <4>1, <4>3, <4>4
    <3> QED
      BY <3>1, <3>2
  <2> QED
    BY <1>2, <2>1, <2>2, <2>3 DEF CInv, TabIs
<1> QED
  BY <1>1, <1>2, <1>3, <1>4, <1>5, <1>6 DEF Carries

LEMMA HashChangeShown ==
  ASSUME IInv, CInv, HashChange
  PROVE  CInv'
<1>1. PICK new : new = [tab EXCEPT !.route = tab.hash]
  OBVIOUS
<1>2. PICK req : req = Turned
  OBVIOUS
<1>3. /\ Render(new, req) /\ tab.hash # tab.route
      /\ reads' = reads /\ disturbed' = disturbed /\ wanted' = wanted /\ of' = of
      /\ (Live(Mine)' <=> Live(Mine))
  BY <1>1, <1>2 DEF HashChange, Turned, Idle, Live
<1>4. /\ req \in [Request -> Record] /\ Asks(req) /\ TabIs(new, req, wanted)
      /\ \A rd : Carries(request, req, rd)
      /\ \A r \in Request : req[r].from = None <=> request[r].from = None
      /\ new \in TabState /\ new.route = tab.hash /\ new.hash = tab.hash /\ new.user = tab.user
      /\ new.members = tab.members /\ new.on = tab.on
  BY <1>1, <1>2, TurnedIs
<1>5. /\ Asks(request') /\ TabIs(tab', request', wanted) /\ \A rd : Carries(req, request', rd)
      /\ tab'.user = tab.user /\ tab'.members = tab.members /\ tab'.route = tab.hash /\ tab'.on = tab.on
  BY <1>3, <1>4, RenderCarries
<1>6. ASSUME ~disturbed, tab.on, wanted # NoTenant
      PROVE  \/ \E r \in Request : Sole(r)' /\ (Chosen(r)' \/ Bounced(r)')
             \/ (\A r \in Request : ~Own(r)') /\ Rest'
  <2>1. tab.user # NoTenant
    BY <1>6 DEF CInv, TabIs
  <2>2. \/ /\ new.route.page = "config" /\ new.route.tenant \notin new.members
           /\ tab' = [new EXCEPT !.hash = Tenants] /\ request' = req
        \/ /\ new.route.page = "config" /\ new.route.tenant \in new.members
           /\ new.route.tenant # new.user
           /\ tab' = new /\ Switches(req, new.route.tenant)
        \/ /\ new.route.page = "config" => new.route.tenant = new.user /\ new.route.tenant \in new.members
           /\ tab' = new /\ request' = req
    BY <1>3, <1>4, <2>1, RenderCases
  <2>3. CASE \E r \in Request : Sole(r) /\ (Chosen(r) \/ Bounced(r))
    <3>1. PICK r \in Request : Sole(r) /\ (Chosen(r) \/ Bounced(r))
      BY <2>3
    <3>2. Bounced(r)
      BY <1>3, <3>1 DEF Chosen
    <3>3. /\ tab.hash = Config(wanted) /\ tab.route = Config(request[r].target)
          /\ tab.user = wanted /\ wanted \in tab.members
          /\ request[r].from = "config" /\ Towards(request[r], request[r].target)
      BY <1>3, <3>2 DEF Bounced
    <3>4. req = request
      BY <1>2, <3>3, ConfigIs DEF Turned
    <3>5. tab' = new /\ request' = request
      BY <1>4, <2>2, <3>3, <3>4, ConfigIs
    <3>6. Towards(request[r], request[r].target)'
      BY <3>3, <3>5 DEF Towards, HashChange, Idle
    <3>7. Bounced(r)'
      BY <1>3, <1>4, <3>3, <3>5, <3>6 DEF Bounced, Config, Page
    <3>8. Sole(r)'
      BY <3>1, <3>5 DEF Sole, Own
    <3> QED
      BY <3>7, <3>8
  <2>4. CASE (\A r \in Request : ~Own(r)) /\ Rest
    <3>1. \A r \in Request : req[r].from = None
      BY <1>4, <2>4 DEF Own
    <3>2. request' = req => \A r \in Request : ~Own(r)'
      BY <3>1 DEF Own
    <3>3. CASE tab.hash = Config(wanted)
      <4>1. new.route.page = "config" /\ new.route.tenant = wanted /\ new.route = Config(wanted)
        BY <1>4, <3>3, ConfigIs
      <4>2. CASE wanted \notin tab.members
        <5>1. tab' = [new EXCEPT !.hash = Tenants] /\ request' = req
          BY <1>4, <2>2, <4>1, <4>2, <2>1
        <5>2. tab'.hash = Tenants
          BY <1>4, <5>1 DEF TabState
        <5>3. Rest'
          BY <1>3, <1>5, <4>2, <5>2 DEF Rest, Tenants, Page
        <5> QED
          BY <3>2, <5>1, <5>3
      <4>3. CASE wanted \in tab.members /\ wanted # tab.user
        <5>1. tab' = new /\ Switches(req, wanted)
          BY <1>4, <2>2, <4>1, <4>3
        <5>2. PICK q \in Request : /\ request'[q].from = "config" /\ Towards(request'[q], wanted)
                                   /\ \A p \in Request \ {q} : request'[p] = req[p]
          BY <5>1 DEF Switches
        <5>3. Sole(q)'
          BY <3>1, <5>2 DEF Sole, Own, None
        <5>4. Towards(request[q], wanted)'
          BY <1>3, <5>2 DEF Towards, HashChange, Idle
        <5>5. Chosen(q)'
          BY <1>3, <1>4, <4>1, <5>1, <5>4 DEF Chosen, Config, Page
        <5> QED
          BY <5>3, <5>5
      <4>4. CASE wanted \in tab.members /\ wanted = tab.user
        <5>1. tab' = new /\ request' = req
          BY <1>4, <2>2, <4>1, <4>4
        <5>2. Rest'
          BY <1>3, <1>4, <4>4, <5>1 DEF Rest
        <5> QED
          BY <3>2, <5>1, <5>2
      <4> QED
        BY <4>2, <4>3, <4>4
    <3>4. CASE tab.hash # Config(wanted)
      <4>1. tab.hash = Tenants /\ (tab.user = wanted \/ wanted \notin tab.members)
        BY <1>3, <2>4, <3>4 DEF Rest
      <4>2. tab' = new /\ request' = req
        BY <1>4, <2>2, <4>1, ConfigIs
      <4>3. Rest'
        BY <1>3, <1>4, <4>1, <4>2 DEF Rest
      <4> QED
        BY <3>2, <4>2, <4>3
    <3> QED
      BY <3>3, <3>4
  <2> QED
    BY <1>6, <2>3, <2>4 DEF CInv, Want
<1>7. ~disturbed /\ tab.on => Want'
  BY <1>3, <1>6 DEF Want
<1> QED
  BY <1>3, <1>4, <1>5, <1>7 DEF CInv, Carries

\* What the answer of request r leaves of what was read.
LEMMA ReceiveFacts ==
  ASSUME IInv, CInv, NEW r \in Request, Receive(r)
  PROVE  /\ request[r] \in Record /\ OwnOK(request[r]) /\ request[r].from # None
         /\ request[r].at = "answered" /\ request[r].who = Mine
         /\ tab \in TabState /\ tab.on /\ tab.me # "due"
         /\ of' = of /\ tenants' = tenants /\ (Live(Mine)' <=> Live(Mine)) /\ (disturbed => disturbed')
         /\ ~disturbed' => /\ ReadsAre(request, reads)
                           /\ InRead(request[r]) =>
                                /\ request[r].op # "delete" => reads # <<>> /\ r = Head(reads)
                           /\ ~InRead(request[r]) => reads' = reads
                           /\ reads # <<>> /\ r = Head(reads) => reads' = Tail(reads)
<1>1. /\ request[r] \in Record /\ OwnOK(request[r])
      /\ request[r].at = "answered" /\ tab \in TabState /\ tab.on
  BY DEF Receive, At, CInv, Asks, IInv, Shape
<1>2. request[r].from # None /\ request[r].who = Mine
  BY <1>1 DEF OwnOK
<1>3. tab.me # "due"
  BY <1>2 DEF CInv, TabIs
<1>4. of' = of /\ tenants' = tenants /\ (Live(Mine)' <=> Live(Mine)) /\ (disturbed => disturbed')
  BY DEF Receive, Idle, Live
<1>5. ASSUME ~disturbed'
      PROVE  /\ ReadsAre(request, reads)
             /\ InRead(request[r]) => /\ request[r].op # "delete" => reads # <<>> /\ r = Head(reads)
             /\ ~InRead(request[r]) => reads' = reads
             /\ reads # <<>> /\ r = Head(reads) => reads' = Tail(reads)
  <2>1. ReadsAre(request, reads)
    BY <1>4, <1>5 DEF CInv
  <2>2. /\ reads \in Seq(Request) /\ (InRead(request[r]) <=> In(r, reads))
        /\ reads = <<>> => ~In(r, reads)
        /\ reads # <<>> => In(Head(reads), reads)
    <3>1. reads \in Seq(Request) /\ (InRead(request[r]) <=> In(r, reads))
      BY <2>1 DEF ReadsAre
    <3>2. reads = <<>> => ~In(r, reads)
      <4>1. reads = <<>> => Len(reads) = 0
        BY <3>1, NoElement
      <4> QED
        BY <4>1 DEF In
    <3> QED
      BY <3>1, <3>2, FinalIn
  <2>3. request[r].op # "delete" => reads = <<>> \/ r = Head(reads)
    BY <1>5 DEF Receive
  <2>4. reads' = IF reads # <<>> /\ r = Head(reads) THEN Tail(reads) ELSE reads
    BY <1>5 DEF Receive
  <2>5. /\ ~InRead(request[r]) => reads' = reads
        /\ reads # <<>> /\ r = Head(reads) => reads' = Tail(reads)
    BY <2>2, <2>4
  <2> QED
    BY <2>1, <2>2, <2>3, <2>5
<1> QED
  BY <1>1, <1>2, <1>3, <1>4, <1>5

\* An answered request that has read the session was the first of those that did.
LEMMA FirstRead ==
  ASSUME IInv, CInv, NEW r \in Request, Receive(r), ~disturbed', InRead(request[r]),
         NEW new, new = Without(r)
  PROVE  /\ ReadsAre(new, reads') /\ reads # <<>>
         /\ reads' = <<>> => Final(reads) = r
         /\ reads' # <<>> => /\ Final(reads') = Final(reads) /\ Final(reads) \in Request \ {r}
                             /\ InRead(new[Final(reads)])
<1>1. /\ OwnOK(request[r]) /\ ReadsAre(request, reads)
      /\ request[r].op # "delete" => reads # <<>> /\ r = Head(reads)
      /\ reads # <<>> /\ r = Head(reads) => reads' = Tail(reads)
  BY ReceiveFacts
<1>2. reads # <<>> /\ r = Head(reads) /\ reads' = Tail(reads)
  BY <1>1 DEF OwnOK, InRead, Reader
<1>3. /\ new[r] = Free /\ ~InRead(Free)
      /\ \A p \in Request \ {r} : new[p] = request[p]
  BY DroppedCarries DEF CInv
<1>4. /\ reads' \in Seq(Request) /\ Distinct(reads')
      /\ \A p : In(p, reads') <=> In(p, reads) /\ p # r
      /\ reads' = <<>> => Final(reads) = r
      /\ reads' # <<>> => Final(reads') = Final(reads)
  BY <1>1, <1>2, Tailed DEF ReadsAre
<1>5. ReadsAre(new, reads')
  BY <1>1, <1>3, <1>4 DEF ReadsAre
<1>6. ASSUME reads' # <<>>
      PROVE  /\ Final(reads') = Final(reads) /\ Final(reads) \in Request \ {r}
             /\ InRead(new[Final(reads)])
  <2>1. Final(reads') \in Request /\ In(Final(reads'), reads')
    BY <1>4, <1>6, FinalIn
  <2> QED
    BY <1>4, <1>5, <1>6, <2>1 DEF ReadsAre
<1> QED
  BY <1>2, <1>4, <1>5, <1>6

\* A request less, with the same tab or one that is shut.
LEMMA DroppedTab ==
  ASSUME CInv, NEW r \in Request, NEW new, new[r] = Free, Free.from = None,
         \A p \in Request \ {r} : new[p] = request[p],
         NEW tb, tb.me = tab.me, tb.user = tab.user, tb.route = tab.route,
         NEW w \in {wanted, NoTenant}
  PROVE  TabIs(tb, new, w)
BY DEF CInv, TabIs, None

LEMMA DeletedShown ==
  ASSUME IInv, CInv, NEW r \in Request, Receive(r),
         request[r].op = "delete", request[r].tenant # NoTenant
  PROVE  CInv'
<1>1. /\ request[r].from # None /\ OwnOK(request[r]) /\ tab.me # "due"
      /\ of' = of /\ (Live(Mine)' <=> Live(Mine)) /\ (disturbed => disturbed')
      /\ ~disturbed' => ReadsAre(request, reads) /\ (~InRead(request[r]) => reads' = reads)
  BY ReceiveFacts
<1>2. AskMe(r) /\ tab' = tab /\ wanted' = wanted
  BY DEF Receive
<1>3. PICK q : q = [Free EXCEPT !.op = "me", !.at = "session", !.from = request[r].from, !.who = Mine]
  OBVIOUS
<1>4. request'[r] = q /\ \A p \in Request \ {r} : request'[p] = request[p]
  BY <1>2, <1>3 DEF AskMe, IInv, Shape
<1>5. /\ q.from = request[r].from /\ q.op = "me" /\ q.at = "session" /\ ~q.acted /\ q.who = Mine
  BY <1>3 DEF Free
<1>6. OwnOK(q) /\ Will(q) /\ ~InRead(q)
  BY <1>1, <1>5 DEF OwnOK, Will, InRead, Reader, None
<1>7. ~InRead(request[r])
  BY <1>1 DEF OwnOK, InRead, Reader
<1>8. Asks(request)'
  BY <1>4, <1>6 DEF CInv, Asks
<1>9. TabIs(tab, request, wanted)'
  <2>1. \A p \in Request : request'[p].from = request[p].from
    BY <1>4, <1>5
  <2> QED
    BY <1>2, <2>1 DEF CInv, TabIs
<1>10. ~disturbed' => ReadsAre(request, reads)'
  BY <1>1, <1>4, <1>6, <1>7 DEF ReadsAre
<1>11. LastIs(request, reads, tab.user, of[Mine])'
  BY <1>4, <1>6 DEF LastIs
<1>12. ~disturbed /\ tab.on => Want'
  <2>1. \A p \in Request : Sole(p) => ~Chosen(p) /\ ~Bounced(p)
    BY <1>1 DEF Sole, Own, Chosen, Bounced, Towards
  <2> QED
    BY <1>1, <1>2, <2>1 DEF CInv, Want, Own
<1> QED
  BY <1>1, <1>2, <1>8, <1>9, <1>10, <1>11, <1>12 DEF CInv

LEMMA LeftShown ==
  ASSUME IInv, CInv, NEW r \in Request, Receive(r),
         request[r].op # "delete", request[r].tenant # NoTenant, request[r].from = "left"
  PROVE  CInv'
<1>1. disturbed' /\ request' = Without(r) /\ tab' = tab /\ wanted' = wanted
  BY DEF Receive
<1>2. Asks(request') /\ TabIs(tab, request', wanted)
  BY <1>1, DroppedCarries, DroppedTab DEF CInv
<1> QED
  BY <1>1, <1>2 DEF CInv

LEMMA RefusedShown ==
  ASSUME IInv, CInv, NEW r \in Request, Receive(r), request[r].tenant = NoTenant
  PROVE  CInv'
<1> DEFINE o == request[r]
<1>1. /\ o.from # None /\ OwnOK(o) /\ o.at = "answered" /\ tab \in TabState /\ tab.on
      /\ of' = of /\ (Live(Mine)' <=> Live(Mine)) /\ (disturbed => disturbed')
      /\ ~disturbed' => ReadsAre(request, reads) /\ (~InRead(o) => reads' = reads)
  BY ReceiveFacts
<1>2. /\ wanted' = NoTenant /\ request' = Without(r)
      /\ tab' = [tab EXCEPT !.on = ~(o.op = "me" /\ o.from # "start")]
      /\ o.acted => disturbed'
  BY DEF Receive
<1>3. /\ tab'.me = tab.me /\ tab'.user = tab.user /\ tab'.route = tab.route
      /\ tab'.on <=> ~(o.op = "me" /\ o.from # "start")
  BY <1>1, <1>2 DEF TabState
<1> HIDE DEF o
<1>4. /\ Asks(request') /\ request'[r] = Free /\ Free.from = None
      /\ \A p \in Request \ {r} : request'[p] = request[p]
      /\ ~InRead(o) /\ ~Will(o) => \A rd : Carries(request, request', rd)
  BY <1>2, DroppedCarries DEF CInv, o
<1>5. TabIs(tab', request', wanted')
  BY <1>2, <1>3, <1>4, DroppedTab
<1>6. ~Will(o)
  BY <1>1 DEF Will, o
<1>7. Want'
  BY <1>2 DEF Want
<1>8. ASSUME ~disturbed', InRead(o)
      PROVE  ReadsAre(request', reads') /\ (tab'.on => LastIs(request', reads', tab'.user, of[Mine]))
  <2>1. /\ ReadsAre(request', reads')
        /\ reads' # <<>> => Final(reads) \in Request \ {r} /\ InRead(request'[Final(reads)])
    BY <1>2, <1>8, FirstRead DEF o
  <2>2. ASSUME tab'.on PROVE reads' = <<>> /\ tab'.user = NoTenant
    <3>1. o.from = "start"
      BY <1>2, <1>3, <1>8, <2>2 DEF InRead, Reader
    <3>2. tab.user = NoTenant /\ \A p \in Request \ {r} : request[p].from = None
      BY <3>1 DEF CInv, TabIs, o
    <3>3. \A p \in Request \ {r} : ~InRead(request'[p])
      BY <1>4, <3>2 DEF InRead
    <3> QED
      BY <1>3, <2>1, <3>2, <3>3
  <2> QED
    BY <2>1, <2>2 DEF LastIs
<1>9. ASSUME ~disturbed', ~InRead(o)
      PROVE  ReadsAre(request', reads') /\ (tab'.on => LastIs(request', reads', tab'.user, of[Mine]))
  BY <1>1, <1>3, <1>4, <1>6, <1>9 DEF CInv, Carries
<1> QED
  BY <1>1, <1>4, <1>5, <1>7, <1>8, <1>9 DEF CInv

LEMMA AnsweredShown ==
  ASSUME IInv, CInv, NEW r \in Request, Receive(r),
         request[r].op # "delete", request[r].tenant # NoTenant, request[r].from # "left"
  PROVE  CInv'
<1> DEFINE o == request[r]
<1>1. /\ o.from # None /\ OwnOK(o) /\ o \in Record /\ o.at = "answered"
      /\ tab \in TabState /\ tab.on /\ tab.me # "due"
      /\ of' = of /\ tenants' = tenants /\ (Live(Mine)' <=> Live(Mine)) /\ (disturbed => disturbed')
  BY ReceiveFacts
<1>2. PICK new : new = Updated(r)
  OBVIOUS
<1>3. PICK req : req = Without(r)
  OBVIOUS
<1>4. Render(new, req) /\ wanted' = wanted
  BY <1>2, <1>3 DEF Receive
<1>5. /\ new.user = o.tenant /\ new.members = o.members /\ new.route = tab.route
      /\ new.on = tab.on /\ new.me = tab.me
      /\ new.hash = IF o.from = "switcher" /\ tab.route.page = "config" /\ tab.route.tenant # o.tenant
                    THEN Config(o.tenant) ELSE tab.hash
  BY <1>1, <1>2 DEF Updated, UserOnly, TabState, Mounted
<1>6. new \in TabState
  <2>1. o.tenant \in Tenant /\ o.members \in SUBSET Tenant
    BY <1>1 DEF Record
  <2>2. tab.hash \in Pages /\ Config(o.tenant) \in Pages
    BY <1>1, <2>1 DEF TabState, Pages
  <2> QED
    BY <1>1, <1>2, <2>1, <2>2 DEF Updated, UserOnly, TabState
<1> HIDE DEF o
<1>7. /\ Asks(req) /\ req \in [Request -> Record]
      /\ req[r] = Free /\ Free.from = None /\ \A p \in Request \ {r} : req[p] = request[p]
  BY <1>3, DroppedCarries DEF CInv
<1>8. TabIs(new, req, wanted)
  <2>1. \A p \in Request \ {r} : request[p].from # "start"
    <3>1. CASE o.from = "start"
      BY <3>1 DEF CInv, TabIs, o
    <3>2. CASE o.from # "start"
      BY <1>1, <3>2 DEF CInv, TabIs, o
    <3> QED
      BY <3>1, <3>2
  <2>2. new.user # NoTenant /\ new.me # "due"
    BY <1>1, <1>5 DEF o
  <2> QED
    BY <1>5, <1>7, <2>1, <2>2 DEF CInv, TabIs, None
<1>9. /\ Asks(request') /\ TabIs(tab', request', wanted) /\ \A rd : Carries(req, request', rd)
      /\ tab'.user = o.tenant /\ tab'.members = o.members /\ tab'.route = tab.route /\ tab'.on = tab.on
  BY <1>4, <1>5, <1>6, <1>7, <1>8, RenderCarries
<1>10. ASSUME ~disturbed'
       PROVE  ReadsAre(request', reads') /\ LastIs(request', reads', tab'.user, of[Mine])
  <2>1. InRead(o)
    BY <1>1 DEF OwnOK, InRead, o
  <2>2. /\ ReadsAre(req, reads') /\ reads # <<>>
        /\ reads' = <<>> => Final(reads) = r
        /\ reads' # <<>> => /\ Final(reads') = Final(reads) /\ Final(reads) \in Request \ {r}
    BY <1>3, <1>10, <2>1, FirstRead DEF o
  <2>3. LastIs(request, reads, tab.user, of[Mine])
    BY <1>1, <1>10 DEF CInv
  <2>4. LastIs(req, reads', o.tenant, of[Mine])
    <3>1. CASE \E p \in Request : Will(request[p])
      <4>1. ~Will(o)
        BY <1>1 DEF Will, o
      <4> QED
        BY <1>7, <3>1, <4>1 DEF LastIs, o
    <3>2. CASE request[Final(reads)].tenant = of[Mine] \/ Refused(request[Final(reads)])
      <4>1. CASE reads' = <<>>
        BY <2>2, <3>2, <4>1 DEF LastIs, Refused, o
      <4>2. CASE reads' # <<>>
        <5>1. req[Final(reads')] = request[Final(reads)]
          BY <1>7, <2>2, <4>2
        <5> QED
          BY <3>2, <4>2, <5>1 DEF LastIs
      <4> QED
        BY <4>1, <4>2
    <3> QED
      BY <2>2, <2>3, <3>1, <3>2 DEF LastIs
  <2> QED
    BY <1>9, <2>2, <2>4 DEF Carries
<1>11. ASSUME ~disturbed', wanted # NoTenant
       PROVE  \/ \E p \in Request : Sole(p)' /\ (Chosen(p)' \/ Bounced(p)')
              \/ (\A p \in Request : ~Own(p)') /\ Rest'
  <2>1. Sole(r) /\ (Chosen(r) \/ Bounced(r))
    BY <1>1, <1>11 DEF CInv, Want, Sole, Own, o
  <2>2. \A p \in Request : req[p].from = None
    BY <1>7, <2>1 DEF Sole, Own
  <2>3. \/ /\ new.route.page = "config" /\ new.route.tenant \notin new.members
           /\ tab' = [new EXCEPT !.hash = Tenants] /\ request' = req
        \/ /\ new.route.page = "config" /\ new.route.tenant \in new.members
           /\ new.route.tenant # new.user
           /\ tab' = new /\ Switches(req, new.route.tenant)
        \/ /\ new.route.page = "config" => new.route.tenant = new.user /\ new.route.tenant \in new.members
           /\ tab' = new /\ request' = req
    BY <1>4, <1>5, <1>6, <1>7, RenderCases DEF o
  <2>4. request' = req => \A p \in Request : ~Own(p)'
    BY <2>2 DEF Own
  <2>5. ASSUME NEW t, Switches(req, t)
        PROVE  \E q \in Request : Sole(q)' /\ request'[q].from = "config" /\ Towards(request[q], t)'
    <3>1. PICK q \in Request : /\ request'[q].from = "config" /\ Towards(request'[q], t)
                               /\ \A p \in Request \ {q} : request'[p] = req[p]
      BY <2>5 DEF Switches
    <3>2. Sole(q)'
      BY <2>2, <3>1 DEF Sole, Own, None
    <3>3. Towards(request[q], t)'
      BY <1>1, <3>1 DEF Towards
    <3> QED
      BY <3>1, <3>2, <3>3
  <2>6. tab' = [new EXCEPT !.hash = Tenants] => tab'.hash = Tenants
    BY <1>6 DEF TabState
  <2>7. tab.route.page = "config" => tab.route = Config(tab.route.tenant)
    BY <1>1, RouteIsConfig
  <2>8. CASE Chosen(r)
    <3>1. /\ o.tenant = wanted /\ wanted \in o.members /\ tab.hash = tab.route
          /\ o.from \in {"switcher", "create", "config"}
          /\ o.from = "config" => tab.route = Config(wanted)
          /\ o.from = "create" => tab.route.page = "tenants"
      BY <1>1, <2>8 DEF Chosen, Towards, CInv, TabIs, o
    <3>2. CASE tab' = [new EXCEPT !.hash = Tenants] /\ request' = req
      <4>1. Rest'
        BY <1>4, <1>9, <2>6, <3>1, <3>2 DEF Rest, Tenants, Page
      <4> QED
        BY <2>4, <3>2, <4>1
    <3>3. CASE /\ new.route.page = "config" /\ new.route.tenant \in new.members
               /\ new.route.tenant # new.user
               /\ tab' = new /\ Switches(req, new.route.tenant)
      <4>1. PICK q \in Request : /\ Sole(q)' /\ request'[q].from = "config"
                                 /\ Towards(request[q], new.route.tenant)'
        BY <2>5, <3>3
      <4>2. o.from = "switcher"
        BY <1>5, <3>1, <3>3, ConfigIs
      <4>3. tab'.hash = Config(wanted) /\ tab'.route = Config(new.route.tenant)
        BY <1>5, <2>7, <3>1, <3>3, <4>2
      <4>4. request'[q].target = new.route.tenant /\ Towards(request[q], request[q].target)'
        BY <4>1 DEF Towards
      <4>5. Bounced(q)'
        BY <1>4, <1>9, <3>1, <4>1, <4>3, <4>4 DEF Bounced, Config, Page
      <4> QED
        BY <4>1, <4>5
    <3>4. CASE tab' = new /\ request' = req
      <4>1. tab'.hash \in {tab'.route, Config(wanted)}
        BY <1>5, <3>1, <3>4
      <4>2. Rest'
        BY <1>4, <1>9, <3>1, <4>1 DEF Rest, Config, Page
      <4> QED
        BY <2>4, <3>4, <4>2
    <3> QED
      BY <2>3, <3>2, <3>3, <3>4
  <2>9. CASE Bounced(r)
    <3>1. /\ o.tenant = o.target /\ o.target \in o.members /\ o.from = "config"
          /\ tab.hash = Config(wanted) /\ tab.route \in {Config(o.target), Config(wanted)}
      BY <1>1, <2>9 DEF Bounced, Towards, o
    <3>2. new.hash = Config(wanted) /\ new.route = tab.route /\ new.user = o.target /\ new.members = o.members
      BY <1>5, <3>1
    <3>3. CASE tab.route = Config(o.target)
      <4>1. tab' = new /\ request' = req
        BY <2>3, <3>1, <3>2, <3>3, ConfigIs
      <4>2. Rest'
        <5>1. CASE o.target = wanted
          BY <1>4, <3>2, <3>3, <4>1, <5>1 DEF Rest
        <5>2. CASE o.target # wanted
          <6>1. Config(wanted) # Config(o.target)
            BY <5>2, ConfigIs
          <6> QED
            BY <1>4, <3>2, <3>3, <4>1, <6>1 DEF Rest, Config, Page
        <5> QED
          BY <5>1, <5>2
      <4> QED
        BY <2>4, <4>1, <4>2
    <3>4. CASE tab.route = Config(wanted) /\ o.target # wanted
      <4>1. new.route.page = "config" /\ new.route.tenant = wanted
        BY <3>2, <3>4, ConfigIs
      <4>2. CASE wanted \notin o.members
        <5>1. tab' = [new EXCEPT !.hash = Tenants] /\ request' = req
          BY <2>3, <3>2, <4>1, <4>2
        <5>2. Rest'
          BY <1>4, <1>9, <2>6, <4>2, <5>1 DEF Rest, Tenants, Page
        <5> QED
          BY <2>4, <5>1, <5>2
      <4>3. CASE wanted \in o.members
        <5>1. tab' = new /\ Switches(req, new.route.tenant)
          BY <2>3, <3>2, <3>4, <4>1, <4>3
        <5>2. PICK q \in Request : /\ Sole(q)' /\ request'[q].from = "config"
                                   /\ Towards(request[q], new.route.tenant)'
          BY <2>5, <5>1
        <5>3. Chosen(q)'
          BY <1>4, <3>2, <3>4, <4>1, <5>1, <5>2 DEF Chosen, Config, Page
        <5> QED
          BY <5>2, <5>3
      <4> QED
        BY <4>2, <4>3
    <3> QED
      BY <3>1, <3>3, <3>4
  <2> QED
    BY <2>1, <2>8, <2>9
<1>12. ~disturbed' => Want'
  BY <1>4, <1>11 DEF Want
<1> QED
  BY <1>1, <1>4, <1>9, <1>10, <1>12 DEF CInv

LEMMA ReceiveShown ==
  ASSUME IInv, CInv, NEW r \in Request, Receive(r)
  PROVE  CInv'
BY DeletedShown, LeftShown, RefusedShown, AnsweredShown

LEMMA NextShown ==
  ASSUME IInv, CInv, [Next]_vars
  PROVE  CInv'
<1>1. CASE Others
  BY <1>1, OthersForeign, ForeignStep
<1>2. CASE Use
  BY <1>2, UseShown
<1>3. CASE Answers
  BY <1>3, HashChangeShown, LoadMeShown, ReceiveShown DEF Answers
<1>4. CASE \E r \in Request : Serve(r)
  BY <1>4, ServeShown
<1>5. CASE UNCHANGED vars
  BY <1>5, StutterForeign, ForeignStep
<1> QED
  BY <1>1, <1>2, <1>3, <1>4, <1>5 DEF Next

LEMMA OpenedShown ==
  ASSUME Opened
  PROVE  CInv
<1>1. /\ \A r \in Request : request[r] = Free
      /\ reads = <<>> /\ disturbed = FALSE /\ wanted = NoTenant
      /\ tab.me = "due" /\ tab.user = NoTenant
      /\ Live(Mine)
  BY DEF Opened, Init, Live
<1>2. Free.from = None /\ Free.at = None
  BY DEF Free
<1>3. OwnOK(Free) /\ ~InRead(Free)
  BY <1>2 DEF OwnOK, InRead, None
<1>4. Asks(request) /\ TabIs(tab, request, wanted)
  BY <1>1, <1>2, <1>3 DEF Asks, TabIs, None
<1>5. ReadsAre(request, reads)
  <2>1. reads \in Seq(Request) /\ Len(reads) = 0
    BY <1>1, EmptySeq
  <2>2. Distinct(reads) /\ \A r \in Request : ~In(r, reads)
    BY <2>1 DEF Distinct, In
  <2> QED
    BY <1>1, <1>3, <2>1, <2>2 DEF ReadsAre
<1> QED
  BY <1>1, <1>4, <1>5 DEF CInv, LastIs, Want

LEMMA ShownFollows ==
  ASSUME IInv, CInv
  PROVE  ShownIsChosen
<1> SUFFICES ASSUME Quiet, tab.on, tab.user # NoTenant, ~disturbed
             PROVE  tab.user = of[Mine] /\ (wanted \in tab.members => wanted = tab.user)
  BY DEF ShownIsChosen
<1>1. /\ ReadsAre(request, reads) /\ LastIs(request, reads, tab.user, of[Mine]) /\ Want
      /\ tab.hash = tab.route /\ \A r \in Request : request[r].from = None
  BY DEF CInv, Quiet, Own
<1>2. \A r \in Request : ~InRead(request[r]) /\ ~Will(request[r])
  BY <1>1 DEF InRead, Will
<1>3. reads = <<>>
  BY <1>1, <1>2, FinalIn DEF ReadsAre
<1>4. tab.user = of[Mine]
  BY <1>1, <1>2, <1>3 DEF LastIs
<1>5. ASSUME wanted \in tab.members PROVE wanted = tab.user
  <2>1. wanted # NoTenant => wanted = tab.user
    BY <1>1, <1>5 DEF Want, Rest, Sole, Own
  <2>2. tab.members \subseteq Tenant
    BY DEF IInv, Shape, TabState
  <2> QED
    BY <1>5, <2>1, <2>2, NoTenantIsNone
<1> QED
  BY <1>4, <1>5

\* While it is left alone, a tab that has its answers shows the tenant its
\* session is in, which is the one the user chose last if there is such a
\* tenant: however the switcher and the configuration page switch in between,
\* the last that read the session read it after the last that moved it.
THEOREM ChosenShown == Spec => []ShownIsChosen
<1>1. IInv /\ CInv /\ [Next]_vars => CInv'
  BY NextShown
<1>2. Opened => CInv
  BY OpenedShown
<1>3. IInv /\ CInv => ShownIsChosen
  BY ShownFollows
<1> QED
  BY <1>1, <1>2, <1>3, Invariance, PTL DEF Spec

-----------------------------------------------------------------------------
(***************************************************************************)
(* Bootstrap: the configuration names a seeded database, and the stores of *)
(* a process that was not set up twice at once are on it, for any          *)
(* databases, any number of requests, crashes and outages.                 *)
(***************************************************************************)

\* The wizard works on one database from the transaction to the swap.
SeededFirst ==
  /\ ConfiguredIsSeeded
  /\ \A h \in Handler : setup[h].at \in {"config", "swap"} => setup[h].db \in admins

\* Every variable keeps its type, and with it the setups under way.
THEOREM BootTypeCorrect == BootSpec => []BootTypeOK
<1> USE DatabaseAssumption, FaultsAssumption
<1>1. BootInit => BootTypeOK
  <2> SUFFICES ASSUME BootInit PROVE BootTypeOK
    OBVIOUS
  <2>1. setup \in [Handler -> {NoSetup} \cup [at : {"schema", "seed", "config", "swap"}, db : Database]]
    BY DEF BootInit
  <2>2. faults \in 0 .. MaxFaults
    BY DEF BootInit
  <2>3. admins \cup up \subseteq Database /\ {file, preset, env} \subseteq Database \cup {NoUrl}
    BY DEF BootInit
  <2>5. images \subseteq Database \X Repo /\ due \cup missed \subseteq Repo /\ baked \in BOOLEAN
    BY DEF BootInit
  <2>4. store \in [Store -> Database \cup {Unset, Memory, Failed}]
    BY DEF BootInit
  <2> QED
    BY <2>1, <2>2, <2>3, <2>4, <2>5 DEF BootInit, BootTypeOK
<1>2. BootTypeOK /\ [BootNext]_bootVars => BootTypeOK'
  <2> SUFFICES ASSUME BootTypeOK, [BootNext]_bootVars PROVE BootTypeOK'
    OBVIOUS
  <2> USE DEF BootTypeOK, publication
  <2>1. CASE Start
    BY <2>1 DEF Start, Attached
  <2>2. CASE Stop
    <3>1. setup' \in [Handler -> {NoSetup}]
      BY <2>2 DEF Stop
    <3>2. store' \in [Store -> {Unset}]
      BY <2>2 DEF Stop
    <3>3. faults' \in 0 .. MaxFaults
      BY <2>2 DEF Stop
    <3> QED
      BY <2>2, <3>1, <3>2, <3>3 DEF Stop
  <2>3. ASSUME NEW r \in Repo, Publish(r) PROVE BootTypeOK'
    <3>1. images' \subseteq Database \X Repo
      BY <2>3 DEF Publish
    <3>2. faults' \in 0 .. MaxFaults
      BY <2>3 DEF Publish
    <3>3. due' \cup missed' \subseteq Repo
      BY <2>3 DEF Publish
    <3> QED
      BY <2>3, <3>1, <3>2, <3>3 DEF Publish
  <2>4. ASSUME NEW d \in Database, Outage(d) \/ Recover(d) PROVE BootTypeOK'
    BY <2>4 DEF Outage, Recover
  <2>5. ASSUME NEW h \in Handler, NEW s \in Store, Open(h, s) PROVE BootTypeOK'
    BY <2>5 DEF Open
  <2>6. ASSUME NEW o \in opening, FinishOpen(o) PROVE BootTypeOK'
    BY <2>6 DEF FinishOpen
  <2>7. ASSUME NEW h \in Handler, NEW d \in Database, BeginSetup(h, d) PROVE BootTypeOK'
    BY <2>7 DEF BeginSetup
  <2>8. ASSUME NEW h \in Handler, EnsureSchema(h) PROVE BootTypeOK'
    BY <2>8 DEF EnsureSchema, IsAt, MoveTo, EndSetup, NoSetup
  <2>9. ASSUME NEW h \in Handler, SeedAdmin(h) PROVE BootTypeOK'
    BY <2>9 DEF SeedAdmin, IsAt, MoveTo, EndSetup, NoSetup
  <2>10. ASSUME NEW h \in Handler, WriteConfig(h) PROVE BootTypeOK'
    <3>1. setup[h] \in [at : {"schema", "seed", "config", "swap"}, db : Database]
      BY <2>10 DEF WriteConfig, IsAt, NoSetup, NoUrl
    <3>2. CASE file' = setup[h].db /\ env' = setup[h].db /\ MoveTo(h, "swap")
      BY <2>10, <3>1, <3>2 DEF WriteConfig, MoveTo
    <3>3. CASE UNCHANGED <<file, env>> /\ EndSetup(h)
      BY <2>10, <3>3 DEF WriteConfig, EndSetup
    <3> QED
      BY <2>10, <3>2, <3>3 DEF WriteConfig
  <2>11. ASSUME NEW h \in Handler, SwapAuth(h) PROVE BootTypeOK'
    BY <2>11 DEF SwapAuth, Attached, IsAt, EndSetup, NoSetup
  <2>12. CASE UNCHANGED bootVars
    BY <2>12 DEF bootVars
  <2> QED
    BY <2>1, <2>2, <2>3, <2>4, <2>5, <2>6, <2>7, <2>8, <2>9, <2>10, <2>11, <2>12
    DEF BootNext, SetupStep
<1> QED
  BY <1>1, <1>2, PTL DEF BootSpec

-----------------------------------------------------------------------------
\* No step undoes the seeding of a database, and the file is written by a
\* setup that has seeded its own.
THEOREM ConfiguredAreSeeded == BootSpec => []ConfiguredIsSeeded
<1> USE DatabaseAssumption DEF SeededFirst, ConfiguredIsSeeded, BootTypeOK, publication
<1>1. BootInit => SeededFirst
  BY DEF BootInit, NoSetup, NoUrl
<1>2. BootTypeOK /\ SeededFirst /\ [BootNext]_bootVars => SeededFirst'
  <2> SUFFICES ASSUME BootTypeOK, SeededFirst, [BootNext]_bootVars PROVE SeededFirst'
    OBVIOUS
  <2>1. CASE Start \/ \E r \in Repo : Publish(r)
    BY <2>1 DEF Start, Publish
  <2>2. CASE Stop
    BY <2>2 DEF Stop, NoSetup, NoUrl
  <2>3. ASSUME NEW d \in Database, Outage(d) \/ Recover(d) PROVE SeededFirst'
    BY <2>3 DEF Outage, Recover
  <2>4. ASSUME NEW h \in Handler, NEW s \in Store, Open(h, s) PROVE SeededFirst'
    BY <2>4 DEF Open
  <2>5. ASSUME NEW o \in opening, FinishOpen(o) PROVE SeededFirst'
    BY <2>5 DEF FinishOpen
  <2>6. ASSUME NEW h \in Handler, NEW d \in Database, BeginSetup(h, d) PROVE SeededFirst'
    BY <2>6 DEF BeginSetup
  <2>7. ASSUME NEW h \in Handler, EnsureSchema(h) PROVE SeededFirst'
    BY <2>7 DEF EnsureSchema, IsAt, MoveTo, EndSetup, NoSetup, NoUrl
  <2>8. ASSUME NEW h \in Handler, SeedAdmin(h) PROVE SeededFirst'
    BY <2>8 DEF SeedAdmin, IsAt, MoveTo, EndSetup, NoSetup, NoUrl
  <2>9. ASSUME NEW h \in Handler, WriteConfig(h) PROVE SeededFirst'
    BY <2>9 DEF WriteConfig, IsAt, MoveTo, EndSetup, NoSetup, NoUrl
  <2>10. ASSUME NEW h \in Handler, SwapAuth(h) PROVE SeededFirst'
    BY <2>10 DEF SwapAuth, IsAt, EndSetup, NoSetup, NoUrl
  <2>11. CASE UNCHANGED bootVars
    BY <2>11 DEF bootVars
  <2> QED
    BY <2>1, <2>2, <2>3, <2>4, <2>5, <2>6, <2>7, <2>8, <2>9, <2>10, <2>11 DEF BootNext, SetupStep
<1> QED
  BY <1>1, <1>2, BootTypeCorrect, PTL DEF BootSpec

-----------------------------------------------------------------------------
\* As long as setups do not overlap there is one at most; until it writes no
\* database is configured, and then it is the one of the file.
OneSetup ==
  /\ \A h, i \in Settling : h = i
  /\ \A h \in Settling : setup[h].at # "swap" => Configured = NoUrl
  /\ \A h \in Settling : setup[h].at = "swap" => file = setup[h].db

\* What the process has opened, and what it is about to open, is the database
\* it is configured for, but for what came too early.
OnConfigured ==
  /\ env = Configured
  /\ Configured = NoUrl => opening = {}
  /\ \A o \in opening : o.db = Configured
  /\ \A s \in Store \ early : store[s] \in {Unset, Configured}
  /\ Configured = NoUrl => \A s \in Store \ early : store[s] = Unset
  /\ Configured # NoUrl /\ Settling = {} => auth = Configured \/ "auth" \in early

\* A process that is not there has nothing.
Down == /\ opening = {} /\ Settling = {} /\ env = NoUrl
        /\ \A s \in Store : store[s] = Unset

OneDatabase == (serving /\ ~overlapped => OneSetup /\ OnConfigured) /\ (~serving => Down)

\* Once no setup is under way, a process that was not set up twice at once
\* serves from the database it is configured for.
THEOREM StoresAreOne == BootSpec => []StoresAgree
<1> USE DatabaseAssumption DEF OneDatabase, OneSetup, OnConfigured, Configured, Down, Settling
<1>1. BootInit => OneDatabase
  BY DEF BootInit
<1>2. BootTypeOK /\ OneDatabase /\ [BootNext]_bootVars => OneDatabase'
  <2> SUFFICES ASSUME BootTypeOK, OneDatabase, [BootNext]_bootVars PROVE OneDatabase'
    OBVIOUS
  <2> USE DEF BootTypeOK, publication
  <2>1. CASE Start
    BY <2>1 DEF Start, Attached
  <2>2. CASE Stop
    BY <2>2 DEF Stop
  <2>3. ASSUME NEW r \in Repo, Publish(r) PROVE OneDatabase'
    BY <2>3 DEF Publish
  <2>4. ASSUME NEW d \in Database, Outage(d) \/ Recover(d) PROVE OneDatabase'
    BY <2>4 DEF Outage, Recover
  <2>5. ASSUME NEW h \in Handler, NEW s \in Store, Open(h, s) PROVE OneDatabase'
    BY <2>5 DEF Open
  <2>6. ASSUME NEW o \in opening, FinishOpen(o) PROVE OneDatabase'
    BY <2>6 DEF FinishOpen
  <2>7. ASSUME NEW h \in Handler, NEW d \in Database, BeginSetup(h, d) PROVE OneDatabase'
    BY <2>7 DEF BeginSetup, SetupRequired, NoSetup
  <2>8. ASSUME NEW h \in Handler, EnsureSchema(h) PROVE OneDatabase'
    BY <2>8 DEF EnsureSchema, IsAt, MoveTo, EndSetup, NoSetup, NoUrl
  <2>9. ASSUME NEW h \in Handler, SeedAdmin(h) PROVE OneDatabase'
    BY <2>9 DEF SeedAdmin, IsAt, MoveTo, EndSetup, NoSetup, NoUrl
  <2>10. ASSUME NEW h \in Handler, WriteConfig(h) PROVE OneDatabase'
    BY <2>10 DEF WriteConfig, IsAt, MoveTo, EndSetup, NoSetup, NoUrl
  <2>11. ASSUME NEW h \in Handler, SwapAuth(h) PROVE OneDatabase'
    BY <2>11 DEF SwapAuth, Attached, IsAt, EndSetup, NoSetup, NoUrl
  <2>12. CASE UNCHANGED bootVars
    BY <2>12 DEF bootVars
  <2> QED
    BY <2>1, <2>2, <2>3, <2>4, <2>5, <2>6, <2>7, <2>8, <2>9, <2>10, <2>11, <2>12
    DEF BootNext, SetupStep
<1>3. OneDatabase => StoresAgree
  BY DEF StoresAgree
<1> QED
  BY <1>1, <1>2, <1>3, BootTypeCorrect, PTL DEF BootSpec

=============================================================================
