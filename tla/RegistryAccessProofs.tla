------------------------ MODULE RegistryAccessProofs ------------------------
(***************************************************************************)
(* Who gets through to the registry's handlers has had the right to        *)
(* within the life of a token, for any repositories, users and restarts.   *)
(***************************************************************************)
EXTENDS RegistryAccess, Integers, TLAPS

Pull == "pull"

\* The right to s was there n ticks ago or later.
Recent(s, n) ==
  \/ s[2] = Pull /\ s[1] \in Repository /\ private[s[1]] <= n
  \/ bearer # None /\ dead[bearer] <= n /\ (s[2] = Pull \/ bearer \in Admin)

\* The ages count from what is so now.
Ages ==
  /\ dead \in [Bearer -> 0 .. TTL] /\ private \in [Repository -> 0 .. TTL]
  /\ bearer \in Bearer \cup {None}
  /\ live \subseteq Bearer /\ \A b \in live : dead[b] = 0
  /\ public \subseteq Repository /\ \A r \in Forced \cup public : private[r] = 0

TokenShape ==
  /\ key \in Nat /\ token.key \in Nat /\ token.key <= key
  /\ token.left \in 0 .. TTL
  /\ token = [access |-> token.access, key |-> token.key, left |-> token.left]

\* A token that would pass grants what was right when it was signed, or later.
TokenRight ==
  token.key = key /\ token.left > 0 => \A s \in token.access : Recent(s, TTL - token.left)

Reading == at = "visibility" => PullOnly(Needed(op))

\* While a token for pulls is made out, no time passes.
Asking ==
  at = "public" =>
    /\ PullOnly(asked) /\ todo \subseteq Repos(asked)
    /\ \A r \in Repos(asked) \ todo : private[r] = 0

AccessInv == Ages /\ TokenShape /\ TokenRight /\ Reading /\ Asking

LEMMA AccessConstants == TTL \in Nat \ {0} /\ Forced \subseteq Repository /\ None \notin Bearer
BY AccessAssumption DEF Bearer

LEMMA AccessInit ==
  ASSUME Init
  PROVE  AccessInv
<1>1. TTL \in Nat \ {0} /\ Forced \subseteq Repository
  BY AccessConstants
<1>2. Ages
  <2>1. /\ live \in SUBSET Bearer /\ public \in SUBSET Repository
        /\ bearer \in Bearer \cup {None}
        /\ dead = [b \in Bearer |-> IF b \in live THEN 0 ELSE TTL]
        /\ private = [r \in Repository |-> IF r \in Forced \cup public THEN 0 ELSE TTL]
    BY DEF Init
  <2>2. 0 \in 0 .. TTL /\ TTL \in 0 .. TTL
    BY <1>1
  <2>3. dead \in [Bearer -> 0 .. TTL] /\ private \in [Repository -> 0 .. TTL]
    BY <2>1, <2>2
  <2>4. /\ \A b \in live : dead[b] = 0
        /\ \A r \in Forced \cup public : private[r] = 0
    BY <1>1, <2>1
  <2> QED
    BY <2>1, <2>3, <2>4 DEF Ages
<1>3. TokenShape /\ TokenRight
  BY <1>1 DEF Init, NoToken, TokenShape, TokenRight
<1>4. Reading /\ Asking
  BY DEF Init, Reading, Asking
<1> QED
  BY <1>2, <1>3, <1>4 DEF AccessInv

\* What was right stays so for as long as no time passes.
LEMMA RecentStays ==
  ASSUME Ages, bearer' = bearer, dead' = dead,
         \A r \in Repository : private'[r] = private[r] \/ private'[r] = 0,
         NEW s, NEW n \in Nat, Recent(s, n)
  PROVE  Recent(s, n)'
BY DEF Recent, Ages, Pull, None, Bearer

\* The same token under the same key.
LEMMA SameToken ==
  ASSUME AccessInv, bearer' = bearer, dead' = dead,
         \A r \in Repository : private'[r] = private[r] \/ private'[r] = 0,
         UNCHANGED <<key, token>>
  PROVE  TokenShape' /\ TokenRight'
<1>1. TokenShape'
  BY DEF AccessInv, TokenShape
<1>2. ASSUME token.key = key, token.left > 0, NEW s \in token.access
      PROVE  Recent(s, TTL - token.left)'
  <2>1. Recent(s, TTL - token.left) /\ TTL - token.left \in Nat
    BY <1>2, AccessConstants DEF AccessInv, TokenRight, TokenShape
  <2>2. (TTL - token.left)' = TTL - token.left
    OBVIOUS
  <2>3. PICK n : n = TTL - token.left
    OBVIOUS
  <2>4. Recent(s, n)'
    BY <2>1, <2>3, RecentStays DEF AccessInv
  <2> QED
    BY <2>3, <2>4 DEF Recent
<1> QED
  BY <1>1, <1>2 DEF TokenRight

LEMMA FreshToken ==
  ASSUME AccessInv, NEW access, UNCHANGED <<key, bearer, dead, private>>,
         token' = [access |-> access, key |-> key, left |-> TTL],
         \A s \in access : Recent(s, 0)
  PROVE  TokenShape' /\ TokenRight'
<1>1. token'.access = access /\ token'.key = key /\ token'.left = TTL /\ key' = key
  OBVIOUS
<1>2. TokenShape'
  BY <1>1, AccessConstants DEF AccessInv, TokenShape
<1>3. TTL - token'.left = 0
  BY <1>1, AccessConstants
<1> QED
  BY <1>1, <1>2, <1>3 DEF TokenRight, Recent, Pull, None

LEMMA LostToken ==
  ASSUME AccessInv, key' = key, token' = NoToken
  PROVE  TokenShape' /\ TokenRight'
BY AccessConstants DEF AccessInv, TokenShape, TokenRight, NoToken

\* The clock and the rows stand still.
LEMMA AgesStay ==
  ASSUME Ages, UNCHANGED <<live, public, bearer, dead, private>>
  PROVE  Ages'
BY DEF Ages, Bearer, None

LEMMA StandStep ==
  ASSUME NEW place, Stand(place)
  PROVE  at' = place /\ UNCHANGED <<key, live, public, bearer, op, dead, private, up>>
BY DEF Stand, server, ages

LEMMA RefuseStep ==
  ASSUME AccessInv, Refuse
  PROVE  AccessInv'
<1>1. at' = "idle" /\ UNCHANGED <<key, live, public, bearer, op, dead, private, token>>
  BY StandStep DEF Refuse
<1>2. Reading' /\ Asking'
  BY <1>1 DEF Reading, Asking
<1> QED
  BY <1>1, <1>2, AgesStay, SameToken DEF AccessInv

LEMMA AnonymousStep ==
  ASSUME AccessInv, NEW S, Anonymous(S)
  PROVE  AccessInv'
<1>1. CASE PullOnly(S)
  <2>1. at' = "public" /\ UNCHANGED <<key, live, public, bearer, op, dead, private, token>>
    BY <1>1, StandStep DEF Anonymous
  <2>2. asked' = S /\ todo' = Repos(S)
    BY <1>1 DEF Anonymous
  <2>3. Reading' /\ Asking'
    BY <1>1, <2>1, <2>2 DEF Reading, Asking, Repos
  <2> QED
    BY <2>1, <2>3, AgesStay, SameToken DEF AccessInv
<1>2. CASE ~PullOnly(S)
  BY <1>2, RefuseStep DEF Anonymous
<1> QED
  BY <1>1, <1>2

LEMMA SignStep ==
  ASSUME AccessInv, NEW access, Sign(access), \A s \in access : Recent(s, 0)
  PROVE  AccessInv'
<1>1. /\ at' = "granted" /\ UNCHANGED <<key, live, public, bearer, op, dead, private>>
      /\ token' = [access |-> access, key |-> key, left |-> TTL]
  BY StandStep DEF Sign
<1>2. Reading' /\ Asking'
  BY <1>1 DEF Reading, Asking
<1> QED
  BY <1>1, <1>2, AgesStay, FreshToken DEF AccessInv

LEMMA ReadPublicStep ==
  ASSUME AccessInv, NEW r \in Repository, ReadPublic(r)
  PROVE  AccessInv'
<1>1. at = "public" /\ r \in todo
  BY DEF ReadPublic
<1>2. /\ PullOnly(asked) /\ todo \subseteq Repos(asked)
      /\ \A q \in Repos(asked) \ todo : private[q] = 0
  BY <1>1 DEF AccessInv, Asking
<1>3. CASE ~PubliclyPullable(r)
  BY <1>3, RefuseStep DEF ReadPublic
<1>4. CASE PubliclyPullable(r)
  <2>1. private[r] = 0
    BY <1>4 DEF AccessInv, Ages, PubliclyPullable, Visible
  <2>2. CASE todo = {r} /\ Sign(Granted(asked, FALSE))
    <3>1. ASSUME NEW s \in Granted(asked, FALSE) PROVE Recent(s, 0)
      <4>1. s \in asked /\ s[1] \in Repository /\ s[2] = Pull
        BY <1>2 DEF Granted, PullOnly, Pull
      <4>2. s[1] \in Repos(asked)
        BY <4>1 DEF Repos
      <4> QED
        BY <1>2, <2>1, <2>2, <4>1, <4>2 DEF Recent
    <3> QED
      BY <2>2, <3>1, SignStep
  <2>3. CASE todo' = todo \ {r} /\ Stand("public") /\ UNCHANGED <<token, asked>>
    <3>1. at' = "public" /\ UNCHANGED <<key, live, public, bearer, op, dead, private, token, asked>>
      BY <2>3, StandStep
    <3>2. Reading' /\ Asking'
      BY <1>2, <2>1, <2>3, <3>1 DEF Reading, Asking, Repos, PullOnly
    <3> QED
      BY <3>1, <3>2, AgesStay, SameToken DEF AccessInv
  <2> QED
    BY <1>4, <2>2, <2>3 DEF ReadPublic
<1> QED
  BY <1>3, <1>4

LEMMA ResolveBearerStep ==
  ASSUME AccessInv, ResolveBearer
  PROVE  AccessInv'
<1>1. CASE LiveBearer /\ Sign(Granted(asked, bearer \in Admin))
  <2>1. bearer # None /\ dead[bearer] = 0
    BY <1>1, AccessConstants DEF LiveBearer, AccessInv, Ages
  <2>2. ASSUME NEW s \in Granted(asked, bearer \in Admin) PROVE Recent(s, 0)
    <3>1. s[2] = Pull \/ bearer \in Admin
      BY DEF Granted, MayGrant, Pull
    <3> QED
      BY <2>1, <3>1 DEF Recent
  <2> QED
    BY <1>1, <2>2, SignStep
<1> QED
  BY <1>1, RefuseStep, AnonymousStep DEF ResolveBearer

\* Where the request stands is all that changes.
LEMMA MovesStep ==
  ASSUME AccessInv,
         UNCHANGED <<key, live, public, bearer, op, dead, private, token>>,
         at' \notin {"visibility", "public"}
  PROVE  AccessInv'
<1>1. Reading' /\ Asking'
  BY DEF Reading, Asking
<1> QED
  BY <1>1, AgesStay, SameToken DEF AccessInv

LEMMA SendStep ==
  ASSUME AccessInv, Send
  PROVE  AccessInv'
<1>1. PICK place \in {"serving", "denied", "visibility", "challenged"} :
        Stand(place) /\ (place = "visibility" => PullOnly(Needed(op)))
  BY DEF Send
<1>2. at' = place /\ UNCHANGED <<key, live, public, bearer, op, dead, private>>
  BY <1>1, StandStep
<1>3. token' = token
  BY DEF Send
<1>4. Needed(op)' = Needed(op)
  BY <1>2 DEF Needed, Subject, Action, Catalog
<1>5. Reading' /\ Asking'
  BY <1>1, <1>2, <1>4 DEF Reading, Asking, PullOnly
<1> QED
  BY <1>2, <1>3, <1>5, AgesStay, SameToken DEF AccessInv

LEMMA TickStep ==
  ASSUME AccessInv, Tick
  PROVE  AccessInv'
<1>1. TTL \in Nat \ {0} /\ Forced \subseteq Repository
  BY AccessConstants
<1>2. /\ at \notin {"public", "granted"}
      /\ token' = [token EXCEPT !.left = IF @ > 0 THEN @ - 1 ELSE @]
      /\ dead' = [b \in Bearer |-> IF b \in live THEN 0 ELSE Older(dead[b])]
      /\ private' = [r \in Repository |-> IF r \in Forced \cup public THEN 0 ELSE Older(private[r])]
      /\ UNCHANGED <<key, live, public, bearer, op, at, asked, todo>>
  BY DEF Tick, server
<1>3. \A n \in 0 .. TTL : Older(n) \in 0 .. TTL /\ Older(n) <= n + 1
  BY <1>1 DEF Older
<1>4. /\ dead \in [Bearer -> 0 .. TTL] /\ private \in [Repository -> 0 .. TTL]
      /\ bearer \in Bearer \cup {None}
  BY DEF AccessInv, Ages
<1>5. /\ \A b \in Bearer : dead'[b] \in 0 .. TTL /\ dead'[b] <= dead[b] + 1
      /\ \A r \in Repository : private'[r] \in 0 .. TTL /\ private'[r] <= private[r] + 1
  <2>1. ASSUME NEW b \in Bearer PROVE dead'[b] \in 0 .. TTL /\ dead'[b] <= dead[b] + 1
    <3>1. dead[b] \in 0 .. TTL /\ dead'[b] = IF b \in live THEN 0 ELSE Older(dead[b])
      BY <1>2, <1>4
    <3> QED
      BY <1>1, <1>3, <3>1
  <2>2. ASSUME NEW r \in Repository PROVE private'[r] \in 0 .. TTL /\ private'[r] <= private[r] + 1
    <3>1. /\ private[r] \in 0 .. TTL
          /\ private'[r] = IF r \in Forced \cup public THEN 0 ELSE Older(private[r])
      BY <1>2, <1>4
    <3> QED
      BY <1>1, <1>3, <3>1
  <2> QED
    BY <2>1, <2>2
<1>6. Ages'
  <2>1. /\ dead' \in [Bearer -> 0 .. TTL] /\ private' \in [Repository -> 0 .. TTL]
    BY <1>2, <1>5
  <2>2. /\ \A b \in live : dead'[b] = 0
        /\ \A r \in Forced \cup public : private'[r] = 0
        /\ live \subseteq Bearer /\ public \subseteq Repository
    BY <1>1, <1>2 DEF AccessInv, Ages
  <2> QED
    BY <1>2, <1>4, <2>1, <2>2 DEF Ages, Bearer, None
<1>7. /\ TokenShape /\ token.left \in 0 .. TTL
      /\ token'.access = token.access /\ token'.key = token.key
      /\ token'.left = (IF token.left > 0 THEN token.left - 1 ELSE token.left)
      /\ token' = [access |-> token'.access, key |-> token'.key, left |-> token'.left]
  BY <1>2 DEF AccessInv, TokenShape
<1>8. TokenShape'
  BY <1>1, <1>2, <1>7 DEF TokenShape
<1>9. TokenRight'
  <2> SUFFICES ASSUME token.key = key, token'.left > 0, NEW s \in token.access
               PROVE  Recent(s, TTL - token.left)'
    BY <1>2, <1>7 DEF TokenRight
  <2>1. Recent(s, TTL - token.left) /\ token'.left = token.left - 1 /\ token.left > 0
    BY <1>7 DEF AccessInv, TokenRight
  <2>2. TTL - token'.left = (TTL - token.left) + 1 /\ TTL - token.left \in Nat
    BY <1>1, <1>7, <2>1
  <2>3. CASE s[2] = Pull /\ s[1] \in Repository /\ private[s[1]] <= TTL - token.left
    <3>1. private'[s[1]] <= TTL - token'.left
      BY <1>4, <1>5, <2>2, <2>3
    <3> QED
      BY <2>3, <3>1 DEF Recent, Pull
  <2>4. CASE bearer # None /\ dead[bearer] <= TTL - token.left /\ (s[2] = Pull \/ bearer \in Admin)
    <3>1. dead'[bearer] <= TTL - token'.left
      BY <1>4, <1>5, <2>2, <2>4
    <3> QED
      BY <1>2, <2>4, <3>1 DEF Recent, Pull, None
  <2> QED
    BY <2>1, <2>3, <2>4 DEF Recent
<1>10. Reading' /\ Asking'
  <2>1. Needed(op)' = Needed(op)
    BY <1>2 DEF Needed, Subject, Action, Catalog
  <2> QED
    BY <1>2, <2>1 DEF AccessInv, Reading, Asking, PullOnly
<1> QED
  BY <1>6, <1>8, <1>9, <1>10 DEF AccessInv

LEMMA RestartStep ==
  ASSUME AccessInv, Restart
  PROVE  AccessInv'
<1>1. /\ key' \in {key, key + 1} /\ at' \notin {"public", "visibility"}
      /\ UNCHANGED <<live, public, bearer, op, dead, private, token>>
  BY DEF Restart, NewKey, ages
<1>2. CASE key' = key
  BY <1>1, <1>2, MovesStep
<1>3. CASE key' = key + 1
  <2>1. TokenShape' /\ TokenRight'
    BY <1>1, <1>3 DEF AccessInv, TokenShape, TokenRight
  <2>2. Reading' /\ Asking'
    BY <1>1 DEF Reading, Asking
  <2> QED
    BY <1>1, <2>1, <2>2, AgesStay DEF AccessInv
<1> QED
  BY <1>1, <1>2, <1>3

LEMMA SetVisibilityStep ==
  ASSUME AccessInv, NEW r \in Repository, NEW visible \in BOOLEAN,
         SetVisibility(r, visible)
  PROVE  AccessInv'
<1>1. /\ r \in Forced => visible
      /\ public' = IF visible THEN public \cup {r} ELSE public \ {r}
      /\ private' = IF visible THEN [private EXCEPT ![r] = 0] ELSE private
      /\ UNCHANGED <<key, live, bearer, op, at, asked, todo, token, dead>>
  BY DEF SetVisibility, Upsert, client
<1>2. TTL \in Nat /\ Forced \subseteq Repository /\ private \in [Repository -> 0 .. TTL]
  BY AccessConstants DEF AccessInv, Ages
<1>3. \A q \in Repository : private'[q] = private[q] \/ private'[q] = 0
  BY <1>1, <1>2
<1>4. Ages'
  <2>1. private' \in [Repository -> 0 .. TTL]
    BY <1>1, <1>2
  <2>2. public' \subseteq Repository /\ \A q \in Forced \cup public' : private'[q] = 0
    BY <1>1, <1>2 DEF AccessInv, Ages
  <2> QED
    BY <1>1, <2>1, <2>2 DEF AccessInv, Ages, Bearer, None
<1>5. Reading' /\ Asking'
  <2>1. Needed(op)' = Needed(op)
    BY <1>1 DEF Needed, Subject, Action, Catalog
  <2>2. \A q \in Repos(asked) : private[q] = 0 => private'[q] = 0
    BY <1>3 DEF Repos
  <2> QED
    BY <1>1, <2>1, <2>2 DEF AccessInv, Reading, Asking, PullOnly, Repos
<1> QED
  BY <1>1, <1>3, <1>4, <1>5, SameToken DEF AccessInv

LEMMA StillStep ==
  ASSUME AccessInv,
         UNCHANGED <<key, public, bearer, op, at, asked, todo, token, dead, private>>,
         live' \subseteq live
  PROVE  AccessInv'
<1>1. Ages'
  BY DEF AccessInv, Ages, Bearer, None
<1>2. Needed(op)' = Needed(op)
  BY DEF Needed, Subject, Action, Catalog
<1>3. Reading' /\ Asking'
  BY <1>2 DEF AccessInv, Reading, Asking, PullOnly, Repos
<1> QED
  BY <1>1, <1>3, SameToken DEF AccessInv

LEMMA AccessNext ==
  ASSUME AccessInv, Next
  PROVE  AccessInv'
<1>1. ASSUME NEW o \in job, Turn(o) PROVE AccessInv'
  <2>1. /\ at' = at /\ at = "idle" /\ token' \in {token, NoToken}
        /\ UNCHANGED <<key, live, public, bearer, dead, private>>
    BY <1>1 DEF Turn, server, ages
  <2>2. Reading' /\ Asking'
    BY <2>1 DEF Reading, Asking
  <2> QED
    BY <2>1, <2>2, AgesStay, SameToken, LostToken DEF AccessInv
<1>2. CASE Send
  BY <1>2, SendStep
<1>3. CASE AskToken
  <2>1. PICK S : \/ Anonymous(S)
                 \/ Stand("bearer") /\ token' = token
    BY <1>3 DEF AskToken
  <2>2. CASE Anonymous(S)
    BY <2>2, AnonymousStep
  <2>3. CASE Stand("bearer") /\ token' = token
    BY <2>3, StandStep, MovesStep
  <2> QED
    BY <2>1, <2>2, <2>3
<1>4. CASE ReadVisibility \/ Serve
  <2>1. at' \in {"serving", "challenged", "idle"} /\ token' = token
    BY <1>4, StandStep DEF ReadVisibility, Serve
  <2>2. UNCHANGED <<key, live, public, bearer, op, dead, private>>
    BY <1>4 DEF ReadVisibility, Serve, Stand, server, ages
  <2> QED
    BY <2>1, <2>2, MovesStep
<1>5. CASE ResolveBearer
  BY <1>5, ResolveBearerStep
<1>6. ASSUME NEW r \in Repository, ReadPublic(r) PROVE AccessInv'
  BY <1>6, ReadPublicStep
<1>7. ASSUME NEW r \in Repository, NEW visible \in BOOLEAN, SetVisibility(r, visible) PROVE AccessInv'
  BY <1>7, SetVisibilityStep
<1>8. CASE Reach \/ \E b \in Bearer : Revoke(b)
  BY <1>8, StillStep DEF Reach, Revoke, client, ages
<1>9. CASE Restart
  BY <1>9, RestartStep
<1>10. CASE Tick
  BY <1>10, TickStep
<1> QED
  BY <1>1, <1>2, <1>3, <1>4, <1>5, <1>6, <1>7, <1>8, <1>9, <1>10 DEF Next, Answer

LEMMA ServedIsEntitled ==
  ASSUME AccessInv, Next, at # "serving", at' = "serving"
  PROVE  \A n \in Needed(op) : Entitled(n)
<1>1. TTL \in Nat \ {0}
  BY AccessConstants
<1>2. CASE Send
  <2>1. /\ token.key = key /\ token.left > 0
        /\ \A n \in Needed(op) : Allows(token.access, n)
    BY <1>2 DEF Send, Stand, Verified, KnownKey
  <2> SUFFICES ASSUME NEW n \in Needed(op) PROVE Entitled(n)
    OBVIOUS
  <2>2. PICK s \in token.access : s = n \/ s = <<n[1], "*">>
    BY <2>1 DEF Allows
  <2>3. Recent(s, TTL - token.left)
    BY <2>1 DEF AccessInv, TokenRight
  <2>4. TTL - token.left \in Nat /\ TTL - token.left < TTL
    BY <1>1, <2>1 DEF AccessInv, TokenShape
  <2>5. CASE s[2] = Pull /\ s[1] \in Repository /\ private[s[1]] <= TTL - token.left
    <3>1. s = n
      BY <2>2, <2>5 DEF Pull
    <3>2. private[s[1]] < TTL
      BY <1>1, <2>4, <2>5 DEF AccessInv, Ages
    <3> QED
      BY <2>5, <3>1, <3>2 DEF Entitled, Pull
  <2>6. CASE bearer # None /\ dead[bearer] <= TTL - token.left /\ (s[2] = Pull \/ bearer \in Admin)
    <3>1. dead[bearer] < TTL
      BY <1>1, <2>4, <2>6 DEF AccessInv, Ages
    <3>2. n[2] = Pull \/ bearer \in Admin
      BY <2>2, <2>6 DEF Pull
    <3> QED
      BY <2>6, <3>1, <3>2 DEF Entitled, Pull
  <2> QED
    BY <2>3, <2>5, <2>6 DEF Recent
<1>3. CASE ReadVisibility
  <2>1. at = "visibility" /\ \A r \in Repos(Needed(op)) : PubliclyPullable(r)
    BY <1>3 DEF ReadVisibility, Stand
  <2>2. PullOnly(Needed(op))
    BY <2>1 DEF AccessInv, Reading
  <2> SUFFICES ASSUME NEW n \in Needed(op) PROVE Entitled(n)
    OBVIOUS
  <2>3. n[1] \in Repository /\ n[2] = Pull /\ n[1] \in Repos(Needed(op))
    BY <2>2 DEF PullOnly, Repos, Pull
  <2>4. private[n[1]] = 0
    BY <2>1, <2>3 DEF PubliclyPullable, Visible, AccessInv, Ages
  <2>5. private[n[1]] < TTL
    BY <1>1, <2>4
  <2> QED
    BY <2>3, <2>5 DEF Entitled, Pull
<1>4. ~(Serve \/ ResolveBearer \/ AskToken \/ Restart \/ Tick \/ Reach)
  BY DEF Serve, ResolveBearer, AskToken, Restart, Tick, Reach,
         Stand, Anonymous, Refuse, Sign, client
<1>5. /\ \A o : ~Turn(o)
      /\ \A r : ~ReadPublic(r)
      /\ \A r, visible : ~SetVisibility(r, visible)
      /\ \A b : ~Revoke(b)
  BY DEF Turn, ReadPublic, SetVisibility, Revoke,
         Stand, Refuse, Sign, client
<1> QED
  BY <1>2, <1>3, <1>4, <1>5 DEF Next, Answer

\* A request to /v2 gets through (requireAuth) only on what was right less than
\* a token's life before, whatever is revoked, made private or restarted between
\* the grant of a token and its use: for any repositories, bearers and jobs.
THEOREM ServedOnRecentRights == Spec => ServedOnRecentRight
<1>1. Init => AccessInv
  BY AccessInit
<1>2. AccessInv /\ [Next]_vars => AccessInv'
  <2>1. ASSUME AccessInv, UNCHANGED vars PROVE AccessInv'
    BY <2>1, StillStep DEF vars, server, client, ages
  <2> QED
    BY <2>1, AccessNext
<1>3. AccessInv /\ [Next]_vars =>
        [at # "serving" /\ at' = "serving" => \A n \in Needed(op) : Entitled(n)]_vars
  BY ServedIsEntitled
<1> QED
  BY <1>1, <1>2, <1>3, PTL DEF Spec, ServedOnRecentRight
=============================================================================
