------------------------------ MODULE Accounts ------------------------------
(***************************************************************************)
(* Tenants, sessions and passes as the API keeps them in Postgres: login,  *)
(* switching, creating and deleting tenants, enrollment tokens and API     *)
(* credentials, and the agents' connections the tokens open.               *)
(*                                                                         *)
(* There is one user, the admin the setup wizard created: nothing else     *)
(* inserts a user, and whoever creates a tenant becomes its owner, so the  *)
(* tenants that exist are the user's memberships.                          *)
(*                                                                         *)
(* Every await of a handler is a step.  A request is a record that passes  *)
(* from "session" to "membership" (resolveSession), to "act" and on to     *)
(* "answered"; a switch and a creation resolve once more.                  *)
(***************************************************************************)
EXTENDS Naturals, FiniteSets, FiniteSetsExt

CONSTANTS Tenant,      \* ids of tenants, numbered in the order of their names
          Founded,     \* those that exist at first
          Protected,   \* the default webhook tenant, where one is configured
          Session, Enrollment, Credential,
          Request,     \* slots for the requests under way
          MaxAsks      \* bound: requests and connections

ASSUME TenantAssumption == Tenant \subseteq Nat \ {0} /\ Founded \subseteq Tenant /\ Protected \subseteq Founded
ASSUME AsksAssumption == MaxAsks \in Nat
\* Bearer tokens are 32 random bytes each: no session has the token of a pass.
ASSUME PassAssumption == Session \cap (Enrollment \cup Credential) = {}

VARIABLES
  tenants,  \* rows of tenants, and the user's memberships
  rows,     \* rows of sessions
  expired,  \* sessions past expires_at
  of,       \* sessions.tenant_id, 0 before the login
  pass,     \* enrollment tokens and credentials: tenant and state
  link,     \* the connection an agent has with a token
  request,
  asks,
  \* --- history ---
  joined,   \* sessions that came into a tenant while it was being deleted
  told      \* passes whose revocation took effect

server == <<tenants, rows, expired, of, pass, link, request, asks, joined, told>>

Pass == Enrollment \cup Credential
NoTenant == 0
None == "none"

Free == [op |-> None, at |-> None, from |-> None, who |-> None, target |-> None,
         tenant |-> NoTenant, members |-> {}, moved |-> {}, to |-> NoTenant,
         last |-> FALSE, acted |-> FALSE, stale |-> FALSE]

Init ==
  /\ tenants = Founded
  /\ of \in [Session -> Founded \cup {NoTenant}]
  /\ rows = {s \in Session : of[s] # NoTenant} /\ expired = {}
  /\ \/ pass = [k \in Pass |-> [tenant |-> NoTenant, state |-> None]]
     \/ \E t \in Founded : pass = [k \in Pass |-> [tenant |-> t, state |-> "valid"]]
  /\ link = [k \in Enrollment |-> None]
  /\ request = [r \in Request |-> Free]
  /\ asks = 0
  /\ joined = {} /\ told = {}

-----------------------------------------------------------------------------
\* The slots are alike: the first free one is taken.
Vacant(r) == request[r].op = None /\ r = CHOOSE q \in Request : request[q].op = None

At(r, at) == request[r].at = at
GoTo(r, at) == request' = [request EXCEPT ![r].at = at]
Again(r) == request' = [request EXCEPT ![r].at = "session", ![r].acted = TRUE]

\* Answers are kept for the tabs only.
Answer(r, t, m) ==
  request' = [request EXCEPT ![r] =
    IF @.from = None THEN Free
    ELSE [@ EXCEPT !.at = "answered", !.tenant = t, !.members = m]]
Refuse(r) == Answer(r, NoTenant, {})

Live(s) == s \in rows \ expired
Valid(k) == pass[k].state = "valid"

\* Deletions that have moved the sessions and not yet committed.
Deleting == {r \in Request : At(r, "remove")}

\* A session that enters a tenant after its sessions were moved out.
Joins(S, t) ==
  joined' = IF \E r \in Deleting : request[r].target = t THEN joined \cup S ELSE joined \ S

\* Rows an open deletion has updated.
Locked(s) == \E r \in Deleting : s \in request[r].moved

-----------------------------------------------------------------------------
(* Login, and the way in of every other request.                           *)

\* findMemberships has no ORDER BY: the first row is any of them.
LoadMemberships(r) ==
  /\ Vacant(r) /\ asks < MaxAsks
  /\ \E t \in tenants :
       request' = [request EXCEPT ![r] = [Free EXCEPT !.op = "login", !.at = "login", !.tenant = t]]
  /\ asks' = asks + 1
  /\ UNCHANGED <<tenants, rows, expired, of, pass, link, joined, told>>

\* sessions.tenant_id references tenants.
CreateSession(r, s) ==
  /\ At(r, "login") /\ of[s] = NoTenant
  /\ request' = [request EXCEPT ![r] = Free]
  /\ IF request[r].tenant \in tenants
     THEN /\ rows' = rows \cup {s}
          /\ of' = [of EXCEPT ![s] = request[r].tenant]
          /\ Joins({s}, request[r].tenant)
     ELSE UNCHANGED <<rows, of, joined>>
  /\ UNCHANGED <<tenants, expired, pass, link, asks, told>>

Expire(s) ==
  /\ Live(s) /\ asks < MaxAsks
  /\ asks' = asks + 1
  /\ expired' = expired \cup {s}
  /\ UNCHANGED <<tenants, rows, of, pass, link, request, joined, told>>

\* Someone who has been given a bearer token sends a request.
Asked(r, from, who, op, target) ==
  Vacant(r) /\
  request' = [request EXCEPT ![r] =
    [Free EXCEPT !.op = op, !.at = "session", !.from = from, !.who = who, !.target = target,
                 !.stale = who \in told]]

Ask(r, who, op, target) ==
  /\ Asked(r, None, who, op, target) /\ asks < MaxAsks
  /\ asks' = asks + 1
  /\ UNCHANGED <<tenants, rows, expired, of, pass, link, joined, told>>

\* The session's row; a bearer that is no session may be a credential.
FindSession(r) ==
  LET who == request[r].who IN
  /\ At(r, "session")
  /\ IF Live(who)
     THEN request' = [request EXCEPT ![r].at = "membership", ![r].tenant = of[who]]
     ELSE IF who \in Credential /\ Valid(who)
     THEN request' = [request EXCEPT ![r].at = "act", ![r].tenant = pass[who].tenant]
     ELSE Refuse(r)
  /\ UNCHANGED <<tenants, rows, expired, of, pass, link, asks, joined, told>>

\* The tenant the session had a moment ago must still be a membership.
FindMembership(r) ==
  /\ At(r, "membership")
  /\ IF request[r].tenant \notin tenants THEN Refuse(r)
     ELSE GoTo(r, IF request[r].acted THEN "describe" ELSE "act")
  /\ UNCHANGED <<tenants, rows, expired, of, pass, link, asks, joined, told>>

Acts(r, op) == At(r, "act") /\ request[r].op = op

\* buildMeResponse, at the end of a switch, a creation and /me.
Describe(r) ==
  /\ At(r, "describe") \/ Acts(r, "me")
  /\ Answer(r, request[r].tenant, tenants)
  /\ UNCHANGED <<tenants, rows, expired, of, pass, link, asks, joined, told>>

-----------------------------------------------------------------------------
(* Tenants.                                                                *)

CheckSwitch(r) ==
  /\ Acts(r, "switch")
  /\ IF request[r].who \in Session /\ request[r].target \in tenants
     THEN GoTo(r, "update") ELSE Refuse(r)
  /\ UNCHANGED <<tenants, rows, expired, of, pass, link, asks, joined, told>>

\* Waits for the row's lock; fails if the row, or the tenant, has gone.
UpdateSessionTenant(r) ==
  LET s == request[r].who  t == request[r].target IN
  /\ At(r, "update") /\ ~Locked(s)
  /\ IF s \in rows /\ t \in tenants
     THEN of' = [of EXCEPT ![s] = t] /\ Joins({s}, t) /\ Again(r)
     ELSE UNCHANGED <<of, joined>> /\ Refuse(r)
  /\ UNCHANGED <<tenants, rows, expired, pass, link, asks, told>>

\* One transaction: the tenant, the membership, the session.
CreateTenant(r) ==
  LET s == request[r].who  t == request[r].target IN
  /\ Acts(r, "create") /\ ~Locked(s)
  /\ IF s \in rows /\ t \notin tenants
     THEN /\ tenants' = tenants \cup {t}
          /\ of' = [of EXCEPT ![s] = t]
          /\ Joins({s}, t)
          /\ Again(r)
     ELSE UNCHANGED <<tenants, of, joined>> /\ Refuse(r)
  /\ UNCHANGED <<rows, expired, pass, link, asks, told>>

\* Mistake: any membership will do, the one that is going included.
AnyTenant(t) == Min(tenants)

\* ORDER BY name LIMIT 1 among the user's other tenants.
Alternative(t) == IF tenants \subseteq {t} THEN NoTenant ELSE Min(tenants \ {t})

InTenant(t) == {s \in rows : of[s] = t}

\* The checks and the first statement.  The tenant's sessions move, as far
\* as this transaction sees; their rows are locked, and so is the tenant
\* they move to.
MoveSessions(r) ==
  LET t == request[r].target IN
  /\ Acts(r, "delete")
  /\ \A s \in InTenant(t) : ~Locked(s)
  /\ IF request[r].who \in Session /\ t \in tenants \ Protected
     THEN request' = [request EXCEPT ![r].at = "remove", ![r].to = Alternative(t),
            ![r].moved = IF Alternative(t) = NoTenant THEN {} ELSE InTenant(t),
            ![r].last = tenants = {t}]
     ELSE Refuse(r)
  /\ UNCHANGED <<tenants, rows, expired, of, pass, link, asks, joined, told>>

\* A deletion waits for whoever has moved sessions into its tenant.
WaitsFor(r, q) ==
  /\ r # q /\ {r, q} \subseteq Deleting
  /\ request[q].moved # {} /\ request[q].to = request[r].target

\* The rest, up to COMMIT: what is still, or again, in the tenant goes with
\* it, sessions and passes.
RemoveTenant(r) ==
  LET t == request[r].target  to == request[r].to
      kept == request[r].moved
      passes == {k \in Pass : pass[k].tenant = t} IN
  /\ At(r, "remove")
  /\ \A q \in Request : ~WaitsFor(r, q)
  /\ IF t \in tenants
     THEN /\ tenants' = tenants \ {t}
          /\ of' = [s \in Session |-> IF s \in kept THEN to ELSE of[s]]
          /\ rows' = rows \ {s \in Session : of'[s] = t}
          /\ Joins(kept, to)
          /\ pass' = [k \in Pass |-> IF k \in passes THEN [pass[k] EXCEPT !.state = "gone"]
                                     ELSE pass[k]]
          /\ told' = told \cup passes
          /\ Answer(r, request[r].tenant, {})
     ELSE UNCHANGED <<tenants, rows, of, joined, pass, told>> /\ Refuse(r)
  /\ UNCHANGED <<expired, link, asks>>

\* Postgres ends one of two deletions that wait for each other.
Deadlock(r) ==
  /\ \E q \in Request : WaitsFor(r, q) /\ WaitsFor(q, r)
  /\ Refuse(r)
  /\ UNCHANGED <<tenants, rows, expired, of, pass, link, asks, joined, told>>

-----------------------------------------------------------------------------
(* Passes: enrollment tokens and API credentials.                          *)

\* Both tables reference tenants.
Insert(k, t) ==
  pass' = IF pass[k].state = None /\ t \in tenants
          THEN [pass EXCEPT ![k] = [tenant |-> t, state |-> "valid"]] ELSE pass

\* An update or a delete of one's own tenant's passes; what it finds it ends.
End(r, K, state) ==
  LET k == request[r].target
  IN  IF k \in K /\ pass[k].tenant = request[r].tenant
      THEN pass' = [pass EXCEPT ![k].state = state] /\ told' = told \cup {k}
      ELSE UNCHANGED <<pass, told>>

\* A session mints either; a credential with the scope, enrollment tokens.
MintToken(r) ==
  /\ Acts(r, "mint") /\ request[r].target \in Enrollment
  /\ Insert(request[r].target, request[r].tenant)
  /\ Refuse(r)
  /\ UNCHANGED <<tenants, rows, expired, of, link, asks, joined, told>>

MintCredential(r) ==
  /\ Acts(r, "mint") /\ request[r].target \in Credential
  /\ IF request[r].who \in Session THEN Insert(request[r].target, request[r].tenant) ELSE pass' = pass
  /\ Refuse(r)
  /\ UNCHANGED <<tenants, rows, expired, of, link, asks, joined, told>>

\* deactivate: any bearer of the tenant may, and only once.
Revocable == {k \in Enrollment : Valid(k)}

Deactivate(r) ==
  /\ Acts(r, "revoke") /\ request[r].target \in Enrollment
  /\ End(r, Revocable, "revoked")
  /\ Refuse(r)
  /\ UNCHANGED <<tenants, rows, expired, of, link, asks, joined>>

\* A session only.
RevokeCredential(r) ==
  /\ Acts(r, "revoke") /\ request[r].target \in Credential
  /\ End(r, IF request[r].who \in Session THEN {k \in Credential : Valid(k)} ELSE {}, "revoked")
  /\ Refuse(r)
  /\ UNCHANGED <<tenants, rows, expired, of, link, asks, joined>>

\* Deletion of an enrollment token, whatever became of it.
DeleteToken(r) ==
  /\ Acts(r, "drop")
  /\ End(r, Enrollment, "gone")
  /\ Refuse(r)
  /\ UNCHANGED <<tenants, rows, expired, of, link, asks, joined>>

\* Mistake: the used token is recognised before its revocation is looked at.
ConsumeKnown(k) ==
  /\ link[k] = None /\ pass[k].state \in {"valid", "revoked"}
  /\ asks < MaxAsks /\ asks' = asks + 1
  /\ link' = [link EXCEPT ![k] = "hello"]
  /\ UNCHANGED <<tenants, rows, expired, of, pass, request, joined, told>>

\* An agent connects: a token may be used again until it is revoked.
Consume(k) ==
  /\ link[k] = None /\ Valid(k)
  /\ asks < MaxAsks /\ asks' = asks + 1
  /\ link' = [link EXCEPT ![k] = "hello"]
  /\ UNCHANGED <<tenants, rows, expired, of, pass, request, joined, told>>

\* The tenant's settings are read, then the agent is let in.
Hello(k) ==
  /\ link[k] = "hello"
  /\ link' = [link EXCEPT ![k] = "up"]
  /\ UNCHANGED <<tenants, rows, expired, of, pass, request, asks, joined, told>>

HangUp(k) ==
  /\ link[k] # None
  /\ link' = [link EXCEPT ![k] = None]
  /\ UNCHANGED <<tenants, rows, expired, of, pass, request, asks, joined, told>>

-----------------------------------------------------------------------------
\* What is asked, and by whom: a credential has no session to switch and no
\* tenants, and what concerns no existing pass changes nothing.
Targets(op) ==
  CASE op \in {"switch", "create", "delete"} -> Tenant
    [] op = "mint" -> {k \in Pass : pass[k].state = None}
    [] op \in {"revoke", "drop"} -> {k \in Pass : pass[k].state # None}

Bearers(op) == rows \cup {k \in Credential : op \in {"mint", "revoke", "drop"} /\ pass[k].state # None}
Ops == {"switch", "create", "delete", "mint", "revoke", "drop"}

Handle(r) ==
  \/ \E s \in Session : CreateSession(r, s)
  \/ FindSession(r) \/ FindMembership(r) \/ Describe(r)
  \/ CheckSwitch(r) \/ UpdateSessionTenant(r) \/ CreateTenant(r)
  \/ MoveSessions(r) \/ RemoveTenant(r) \/ Deadlock(r)
  \/ MintToken(r) \/ MintCredential(r) \/ Deactivate(r) \/ RevokeCredential(r) \/ DeleteToken(r)

Elsewhere ==
  \/ \E r \in Request : LoadMemberships(r)
  \/ \E r \in Request, op \in Ops : \E who \in Bearers(op), x \in Targets(op) : Ask(r, who, op, x)
  \/ \E s \in Session : Expire(s)
  \/ \E k \in Enrollment : Consume(k) \/ Hello(k) \/ HangUp(k)

-----------------------------------------------------------------------------
(* Properties.                                                             *)

\* The deletion of a tenant takes along no session whose user has another
\* tenant to go to, but for those that entered the tenant meanwhile, and those
\* it left in it because there was no other when it moved the rest (last): a
\* tenant created before it commits does not save them.
SessionsKept ==
  [][\A s \in rows \ rows' :
       s \in joined \/ \E r \in Deleting : request[r].target = of[s] /\ request[r].last]_server

\* Once a token was deactivated or deleted, or its tenant was, no agent gets
\* in with it; nor does a credential do anything once it is revoked.
DeadPassStaysOut ==
  [][/\ \A k \in told \cap Enrollment : link[k] = None => link'[k] = None
     /\ \A r \in Request : request[r].stale => ~At(r, "act")']_server

=============================================================================
