------------------------------ MODULE Console -------------------------------
(***************************************************************************)
(* A tab of the web console on top of Accounts: App.vue's user and route,  *)
(* the tenant switcher, the tenants page and the configuration page of a   *)
(* tenant, which makes its tenant the session's by itself.                 *)
(*                                                                         *)
(* What the tab asks is a request of Accounts whose answer is kept until   *)
(* the tab receives it, in any order.  Everybody else, other tabs of the   *)
(* same browser included, is Accounts!Elsewhere.                           *)
(***************************************************************************)
EXTENDS Accounts, Sequences

CONSTANT Mine  \* the session whose token the tab keeps

ASSUME MineAssumption == Mine \in Session

VARIABLES
  tab,       \* user, memberships, window.location.hash and route of the tab
  \* --- history ---
  reads,     \* the tab's requests in the order the session was read for them,
             \* until the session is disturbed
  disturbed, \* the session moved without the tab, or an answer went astray
  wanted     \* the tenant the user chose last

screen == <<tab, reads, disturbed, wanted>>
vars == <<server, screen>>

Page(p, t) == [page |-> p, tenant |-> t]
Home == Page("home", NoTenant)
Tenants == Page("tenants", NoTenant)
Config(t) == Page("config", t)

Mounted(p) == tab.route.page = p
Own(r) == request[r].from # None
Outstanding(from) == \E r \in Request : request[r].from = from
Quiet == tab.hash = tab.route /\ \A r \in Request : ~Own(r)

\* App.vue is mounted: the token is there, /me is asked.  Or no tab is open;
\* the passes, and the other sessions, that exist at first are for that case.
Opened ==
  /\ Init
  /\ Mine \in rows
  /\ \E start \in {Tenants} \cup {Config(t) : t \in tenants} :
       tab = [on |-> \A k \in Pass : pass[k].state = None, me |-> "due", user |-> NoTenant, members |-> {}, hash |-> start, route |-> start]
  /\ tab.on => rows = {Mine}
  /\ reads = <<>> /\ disturbed = FALSE /\ wanted = NoTenant

\* What an unmounted page emits is lost; its handlers run on.
AskedBy(p) == CASE p = "tenants" -> {"create", "delete"} [] p = "config" -> {"config"} [] p = "home" -> {}
Leave(p) ==
  [r \in Request |-> IF request[r].from \in AskedBy(p) THEN [request[r] EXCEPT !.from = "left"]
                      ELSE request[r]]

\* The configuration page watches user and route: ensureSwitched.
Render(new, req) ==
  IF new.route.page = "config" /\ new.user # NoTenant /\ new.route.tenant \notin new.members
  THEN tab' = [new EXCEPT !.hash = Tenants] /\ request' = req
  ELSE IF new.route.page = "config" /\ new.user # NoTenant /\ new.route.tenant # new.user
  THEN /\ tab' = new
       /\ \E q \in Request :
            /\ req[q].op = None /\ q = CHOOSE p \in Request : req[p].op = None
            /\ request' = [req EXCEPT ![q] = [Free EXCEPT !.op = "switch", !.at = "session",
                 !.from = "config", !.who = Mine, !.target = new.route.tenant]]
  ELSE tab' = new /\ request' = req

-----------------------------------------------------------------------------
(* The user.                                                               *)

Acting == tab.on /\ tab.user # NoTenant /\ asks < MaxAsks /\ asks' = asks + 1
Wants(t) == wanted' = IF Quiet THEN t ELSE NoTenant
Idle == UNCHANGED <<tenants, rows, expired, of, pass, link, joined, told>>

\* TenantSwitcher's select is disabled while it is busy.
Pick(r, t) ==
  /\ Acting /\ t \in tab.members \ {tab.user} /\ ~Outstanding("switcher")
  /\ Asked(r, "switcher", Mine, "switch", t)
  /\ Wants(t)
  /\ Idle /\ UNCHANGED <<tab, reads, disturbed>>

Navigate(p) ==
  /\ Acting /\ p # tab.hash
  /\ tab' = [tab EXCEPT !.hash = p]
  /\ Wants(IF p.tenant \in tab.members THEN p.tenant ELSE NoTenant)
  /\ Idle /\ UNCHANGED <<request, reads, disturbed>>

SubmitCreate(r, t) ==
  /\ Acting /\ Mounted("tenants") /\ ~Outstanding("create")
  /\ Asked(r, "create", Mine, "create", t)
  /\ Wants(t)
  /\ Idle /\ UNCHANGED <<tab, reads, disturbed>>

ConfirmDelete(r, t) ==
  /\ Acting /\ Mounted("tenants") /\ t \in tab.members /\ ~Outstanding("delete")
  /\ Asked(r, "delete", Mine, "delete", t)
  /\ Wants(NoTenant)
  /\ Idle /\ UNCHANGED <<tab, reads, disturbed>>

-----------------------------------------------------------------------------
(* The tab.                                                                *)

\* loadMe.
LoadMe(r) ==
  /\ tab.on /\ tab.me = "due"
  /\ tab' = [tab EXCEPT !.me = "asked"]
  /\ Asked(r, "start", Mine, "me", None)
  /\ Idle /\ UNCHANGED <<asks, reads, disturbed, wanted>>

\* The hashchange event: pages are unmounted and mounted, watchers run.
HashChange ==
  /\ tab.on /\ tab.hash # tab.route
  /\ Render([tab EXCEPT !.route = tab.hash],
            IF tab.hash.page = tab.route.page THEN request ELSE Leave(tab.route.page))
  /\ Idle /\ UNCHANGED <<asks, reads, disturbed, wanted>>

\* Mistake: the page is not told.
UserOnly(r) == [tab EXCEPT !.user = request[r].tenant, !.members = request[r].members]

\* Mistake: whoever switched, the page follows.
FollowAlways(r) ==
  [UserOnly(r) EXCEPT !.hash = IF Mounted("config") THEN Config(request[r].tenant) ELSE @]

\* The answer's user; the switcher takes the configuration page along.
Updated(r) ==
  [UserOnly(r) EXCEPT !.hash =
     IF request[r].from = "switcher" /\ Mounted("config") /\ tab.route.tenant # request[r].tenant
     THEN Config(request[r].tenant) ELSE @]

Without(r) == [request EXCEPT ![r] = Free]
AskMe(r) ==
  request' = [request EXCEPT ![r] =
    [Free EXCEPT !.op = "me", !.at = "session", !.from = request[r].from, !.who = Mine]]

Receive(r) ==
  LET ok == request[r].tenant # NoTenant  from == request[r].from  op == request[r].op IN
  /\ At(r, "answered") /\ tab.on
  /\ \/ /\ op = "delete" /\ ok
        /\ AskMe(r) /\ UNCHANGED <<tab, wanted>>
     \/ /\ op # "delete" /\ ok /\ from # "left"
        /\ Render(Updated(r), Without(r)) /\ UNCHANGED wanted
     \/ /\ op # "delete" /\ ok /\ from = "left"
        /\ request' = Without(r) /\ UNCHANGED <<tab, wanted>>
     \/ /\ ~ok /\ wanted' = NoTenant
        /\ request' = Without(r)
        /\ tab' = [tab EXCEPT !.on = ~(op = "me" /\ from # "start")]
  /\ disturbed' = \/ disturbed
                  \/ op # "delete" /\ (from = "left" \/ (reads # <<>> /\ r # Head(reads)))
                  \/ ~ok /\ request[r].acted
  /\ reads' = IF disturbed' THEN <<>>
              ELSE IF reads # <<>> /\ r = Head(reads) THEN Tail(reads) ELSE reads
  /\ Idle /\ UNCHANGED asks

-----------------------------------------------------------------------------
\* A step of the API, and what it means to the tab.
Serve(r) ==
  /\ Handle(r)
  /\ reads' = IF At(r, "session") /\ Own(r) /\ (request[r].op = "me" \/ request[r].acted)
              THEN Append(reads, r) ELSE reads
  /\ disturbed' = (disturbed \/ Mine \notin rows' \/ (of'[Mine] # of[Mine] /\ ~Own(r)))
  /\ UNCHANGED <<tab, wanted>>

Others == Elsewhere /\ disturbed' = (disturbed \/ Mine \in expired') /\ UNCHANGED <<tab, reads, wanted>>

Use ==
  \/ \E r \in Request, t \in Tenant : Pick(r, t) \/ SubmitCreate(r, t) \/ ConfirmDelete(r, t)
  \/ \E p \in {Home, Tenants} \cup {Config(t) : t \in Tenant} : Navigate(p)

Answers == HashChange \/ \E r \in Request : LoadMe(r) \/ Receive(r)

Next == Others \/ Use \/ Answers \/ \E r \in Request : Serve(r)

\* Requests are handled, answers and events arrive; nobody has to ask.
Spec == Opened /\ [][Next]_vars
FairSpec == Spec /\ WF_vars(Answers) /\ \A r \in Request : WF_vars(Serve(r))

-----------------------------------------------------------------------------
(* Properties.                                                             *)

\* A tab that waits for nothing shows the tenant its session is in, and the
\* one its user chose last, unless the session moved elsewhere or an answer
\* came out of order or after its page was left.  What the user does next
\* acts on the session's tenant, not on the one shown.
ShownIsChosen ==
  (Quiet /\ tab.on /\ tab.user # NoTenant /\ ~disturbed) =>
    tab.user = of[Mine] /\ (wanted \in tab.members => wanted = tab.user)

\* Switcher and configuration page, which both switch, do not keep each
\* other going: the tab comes to rest when its user does.
SwitchesEnd == <>[](tab.on => Quiet)

=============================================================================
