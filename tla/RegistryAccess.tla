--------------------------- MODULE RegistryAccess ---------------------------
(***************************************************************************)
(* Who may use the container registry: the token endpoint and the          *)
(* visibility of repositories (apps/api/src/server.ts), the signing key    *)
(* (packages/registry-auth), and the check every /v2 handler begins with   *)
(* (apps/api/src/registry/routes.ts, auth.ts).  What the handlers then do  *)
(* is in Registry.                                                         *)
(*                                                                         *)
(* Clients share nothing but the server, so one client is the general      *)
(* case: a docker daemon, podman or crane, with one bearer or none, that   *)
(* keeps the registry token it was given last.  A token's life and the     *)
(* time since something was true are counted in ticks.                     *)
(***************************************************************************)
EXTENDS Naturals

CONSTANTS Repository,
          Forced,    \* those always public: the agent's and the operator's
          Admin,     \* sessions of owners and administrators
          Reader,    \* API credentials and enrollment tokens
          Job,       \* what a client may be after: sets of operations
          TTL,       \* ticks a registry token lives
          MaxRestarts \* bound: restarts of the process

None == "none"
Catalog == "catalog"
Bearer == Admin \cup Reader

ASSUME AccessAssumption ==
  /\ Forced \subseteq Repository /\ {None, Catalog} \cap (Repository \cup Bearer) = {}
  /\ Admin \cap Reader = {}
  /\ TTL \in Nat \ {0} /\ MaxRestarts \in Nat

VARIABLES
  key,     \* the signing key of the process
  restarts,
  up,      \* the database can be reached
  live,    \* bearers that are neither revoked nor expired
  public,  \* rows of registry_repository_visibility that say public
  \* --- the client ---
  bearer, job,
  op,      \* the operation it is at
  token,   \* the registry token it has
  at,      \* where its request, or its request for a token, stands
  asked,   \* scopes it asks a token for
  todo,    \* repositories whose visibility is still to be read for that
  \* --- history ---
  dead,    \* ticks since a bearer was live
  private  \* ticks since a repository was public

server == <<key, restarts, up, live, public>>
client == <<bearer, job, op, token, at, asked, todo>>
ages == <<dead, private>>
vars == <<server, client, ages>>

\* Of another key than any there is, and past its time: no token at all.
NoToken == [access |-> {}, key |-> 0, left |-> 0]

Init ==
  /\ key = 1 /\ restarts = 0 /\ up = TRUE
  /\ live \in SUBSET Bearer
  /\ public \in SUBSET Repository
  /\ bearer \in Bearer \cup {None} /\ job \in Job /\ op \in job
  /\ token = NoToken /\ at = "idle" /\ asked = {} /\ todo = {}
  /\ dead = [b \in Bearer |-> IF b \in live THEN 0 ELSE TTL]
  /\ private = [r \in Repository |-> IF r \in Forced \cup public THEN 0 ELSE TTL]

-----------------------------------------------------------------------------
(* Scopes: a repository, or the catalog, and an action.                    *)

\* parseRegistryPath: what a path is about.
Subject(o) == IF o.kind = "catalog" THEN Catalog ELSE o.repo

Action(o) ==
  CASE o.kind = "catalog" -> "*"
    [] o.kind = "read" -> "pull"
    [] o.kind = "write" -> "push"
    [] o.kind = "delete" -> "delete"

\* The scope the handler needs that a method and a path lead to.
Needed(o) == IF o.kind = "ping" THEN {} ELSE {<<Subject(o), Action(o)>>}

\* What the challenge of a 401 names.
Challenge == Needed(op)

\* The repositories among the scopes a client asks for.
Repos(S) == {r \in Repository : \E s \in S : s[1] = r}

PullOnly(S) == S # {} /\ \A s \in S : s[1] \in Repository /\ s[2] = "pull"

\* grantAllows.
Allows(access, s) == {s, <<s[1], "*">>} \cap access # {}

\* Pulls for everyone, pushes for those who may; "delete" and the catalog for
\* nobody.
MayGrant(s, canPush) == s[1] \in Repository /\ (s[2] = "pull" \/ (s[2] \in {"push", "*"} /\ canPush))

\* Mistake: a request is granted whole, or not at all.
GrantedWhole(S, canPush) == {s \in S : \A q \in S : MayGrant(q, canPush)}

\* filterAllowedActions: what may not be granted is left out of the token.
Granted(S, canPush) == {s \in S : MayGrant(s, canPush)}

\* getRegistryRepoVisibility; without a row, or the database, private.
Visible(r) == up /\ r \in public

\* isRepoPubliclyPullable.
PubliclyPullable(r) == r \in Forced \/ Visible(r)

-----------------------------------------------------------------------------
(* A request to /v2: requireAuth.                                          *)

\* The token names the key of this process.
KnownKey == token.key = key

\* Mistake: exp is not looked at.
SignedByUs == KnownKey

\* verifyRegistryToken.
Verified == KnownKey /\ token.left > 0

Stand(place) == at' = place /\ UNCHANGED <<server, bearer, job, op, ages>>

\* The client turns to another operation; a new one of its processes has no token.
Turn(o) ==
  /\ at = "idle" /\ o \in job
  /\ op' = o
  /\ token' \in {token, NoToken}
  /\ UNCHANGED <<server, bearer, job, at, asked, todo, ages>>

\* A valid token decides alone: one that lacks the scope is refused, where no
\* token, or one past its time, gets a public repository read.
Send ==
  /\ at \in {"idle", "granted"}
  /\ \/ /\ Verified /\ \A n \in Needed(op) : Allows(token.access, n)
        /\ Stand("serving")
     \/ /\ Verified /\ \E n \in Needed(op) : ~Allows(token.access, n)
        /\ Stand("denied")
     \/ /\ ~Verified /\ PullOnly(Needed(op))
        /\ Stand("visibility")
     \/ /\ ~Verified /\ ~PullOnly(Needed(op))
        /\ Stand("challenged")
  /\ UNCHANGED <<token, asked, todo>>

\* The visibility is read for the request itself.
ReadVisibility ==
  /\ at = "visibility"
  /\ Stand(IF \A r \in Repos(Needed(op)) : PubliclyPullable(r) THEN "serving" ELSE "challenged")
  /\ UNCHANGED <<token, asked, todo>>

\* The handler does its work, or answers 503 without its database.
Serve ==
  /\ at \in {"serving", "denied"}
  /\ Stand("idle")
  /\ UNCHANGED <<token, asked, todo>>

-----------------------------------------------------------------------------
(* The token endpoint.                                                     *)

Sign(access) ==
  /\ token' = [access |-> access, key |-> key, left |-> TTL]
  /\ Stand("granted")
  /\ asked' = {} /\ todo' = {}

Refuse == Stand("idle") /\ asked' = {} /\ todo' = {} /\ UNCHANGED token

\* Without a grant, pulls of public repositories alone can be had.
Anonymous(S) ==
  IF PullOnly(S)
  THEN Stand("public") /\ asked' = S /\ todo' = Repos(S) /\ UNCHANGED token
  ELSE Refuse

\* The client asks for what the challenge names, or for all it is after.
AskToken ==
  /\ at = "challenged"
  /\ \E S \in {Challenge, UNION {Needed(o) : o \in job}} :
       IF bearer = None THEN Anonymous(S)
       ELSE Stand("bearer") /\ asked' = S /\ UNCHANGED <<token, todo>>

LiveBearer == bearer \in live

\* resolveSession, then peekEnrollmentToken; a database that does not answer
\* fails the request.  What is granted is signed at once.
ResolveBearer ==
  /\ at = "bearer"
  /\ \/ ~up /\ Refuse
     \/ up /\ LiveBearer /\ Sign(Granted(asked, bearer \in Admin))
     \/ up /\ ~LiveBearer /\ Anonymous(asked)

\* The visibility of each repository is read by a query of its own.
ReadPublic(r) ==
  /\ at = "public" /\ r \in todo
  /\ \/ ~PubliclyPullable(r) /\ Refuse
     \/ PubliclyPullable(r) /\ todo = {r} /\ Sign(Granted(asked, FALSE))
     \/ /\ PubliclyPullable(r) /\ todo # {r}
        /\ todo' = todo \ {r}
        /\ Stand("public") /\ UNCHANGED <<token, asked>>

-----------------------------------------------------------------------------
(* The world about them.                                                   *)

\* requireAdminSession.
Administered == live \cap Admin # {}

\* setRegistryRepoVisibility.
Upsert(r, visible) == public' = IF visible THEN public \cup {r} ELSE public \ {r}

\* PUT .../visibility: what is forced stays public.
SetVisibility(r, visible) ==
  /\ up /\ Administered
  /\ r \in Forced => visible
  /\ Upsert(r, visible)
  /\ private' = IF visible THEN [private EXCEPT ![r] = 0] ELSE private
  /\ UNCHANGED <<key, restarts, up, live, client, dead>>

Revoke(b) ==
  /\ b \in live
  /\ live' = live \ {b}
  /\ UNCHANGED <<key, restarts, up, public, client, ages>>

Reach == up' = ~up /\ UNCHANGED <<key, restarts, live, public, client, ages>>

\* generateSelfSignedRSA: no two keys are the same.
NewKey == key + 1

\* ensureRegistryAuth at boot: key and certificate are read, or made anew when
\* either is gone.  Requests under way are lost.
Restart ==
  /\ restarts < MaxRestarts /\ restarts' = restarts + 1
  /\ key' \in {key, NewKey}
  /\ at' = IF at \in {"challenged", "granted"} THEN at ELSE "idle"
  /\ asked' = {} /\ todo' = {}
  /\ UNCHANGED <<up, live, public, bearer, job, op, token, ages>>

Older(age) == IF age < TTL THEN age + 1 ELSE age

\* The queries of one request for a token, and then the client to use it, take
\* less than a tick.
Tick ==
  /\ at \notin {"public", "granted"}
  /\ token' = [token EXCEPT !.left = IF @ > 0 THEN @ - 1 ELSE @]
  /\ dead' = [b \in Bearer |-> IF b \in live THEN 0 ELSE Older(dead[b])]
  /\ private' = [r \in Repository |-> IF r \in Forced \cup public THEN 0 ELSE Older(private[r])]
  /\ UNCHANGED <<server, bearer, job, op, at, asked, todo>>

-----------------------------------------------------------------------------
Answer == ReadVisibility \/ Serve \/ ResolveBearer \/ \E r \in Repository : ReadPublic(r)

Next ==
  \/ \E o \in job : Turn(o)
  \/ Send \/ AskToken \/ Answer
  \/ \E r \in Repository, visible \in BOOLEAN : SetVisibility(r, visible)
  \/ \E b \in Bearer : Revoke(b)
  \/ Reach \/ Restart \/ Tick

\* Requests are answered, time passes, the client tries again.  Nobody has to
\* change a visibility, revoke a bearer, or restart anything.
Spec == Init /\ [][Next]_vars
FairSpec == Spec /\ WF_vars(Answer) /\ WF_vars(Send) /\ WF_vars(AskToken) /\ WF_vars(Tick)

-----------------------------------------------------------------------------
(* Properties.                                                             *)

\* The repository was public, or the client's bearer good for the action, less
\* than a token's life ago.
Entitled(s) ==
  \/ s[2] = "pull" /\ private[s[1]] < TTL
  \/ bearer # None /\ dead[bearer] < TTL /\ (s[2] = "pull" \/ bearer \in Admin)

\* Whatever is revoked, made private or restarted between the grant of a token
\* and its use, a request gets through only on what was right less than a
\* token's life before.
ServedOnRecentRight ==
  [][at # "serving" /\ at' = "serving" => \A n \in Needed(op) : Entitled(n)]_vars

\* What the client is at, it may do now.
Permitted ==
  CASE op.kind = "read" -> PubliclyPullable(op.repo) \/ (up /\ bearer \in live)
    [] op.kind = "write" -> up /\ bearer \in live \cap Admin
    [] op.kind = "ping" -> up /\ bearer \in live
    [] OTHER -> FALSE

\* A client that keeps at what it may do gets through again and again: whatever
\* token it is left with, of a lost key or of narrower scopes than it needs, it
\* is not refused for good.  To get through is to pass requireAuth: a pool whose
\* first opening failed is kept until the next start, and the handler then
\* answers 503 (Bootstrap).
PermittedGetThrough == <>[]Permitted => []<>(at = "serving")

=============================================================================
