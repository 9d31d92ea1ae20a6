------------------------------ MODULE Bootstrap ------------------------------
(***************************************************************************)
(* How the API process comes by its database: the setup wizard             *)
(* (setupRoutes.ts), the configuration file, the environment, the auth     *)
(* store that is swapped while the process runs, and six stores that are   *)
(* opened on first use and then kept, whatever they found.                 *)
(*                                                                         *)
(* What the stores hold is in Accounts and the other models.               *)
(***************************************************************************)
EXTENDS Naturals, FiniteSets

CONSTANTS Database,    \* databases the wizard may be given
          Handler,     \* requests under way: setups, first uses of a store
          Used,        \* bound: the stores that are used
          MaxFaults    \* bound: outages, crashes, pushes that fail

ASSUME FaultsAssumption == MaxFaults \in Nat

VARIABLES
  file,     \* databaseUrl of kaiad.config.json, or None
  preset,   \* DATABASE_URL the process was started with, or None
  env,      \* DATABASE_URL of the process, or None
  auth,     \* where the swappable auth store points
  store,    \* what each store has become
  opening,  \* first uses under way: who, which store, on which database
  setup,    \* POST /api/v1/setup/complete under way
  serving,  \* the process listens
  baked,    \* the installation brings both bundles and crane along
  due,      \* the images publishBakedBundle has yet to look at
  admins,   \* databases with the admin and the default tenant
  images,   \* the images in the registry of each database
  up,       \* databases that can be reached
  faults,
  \* --- history of this process ---
  early,    \* stores opened without a database or in an outage
  missed,   \* images whose push failed: crane, or the database was gone
  overlapped  \* two setups were under way at once

bootVars == <<file, preset, env, auth, store, opening, setup, serving, baked, due, admins, images,
              up, faults, early, missed, overlapped>>

\* What the wizard, the stores and the setups leave alone.
publication == <<baked, due, images, missed>>

Repo == {"kaiad-agent", "kaiad-operator"}

NoUrl == "none"
Unset == "unset"
Memory == "memory"
Failed == "failed"

\* Stores that fall back to memory, and stores that fall back to an error; the
\* last two keep what an opening came to, the others the promise of it.
Falling == {"domain", "settings", "credentials"}
Pooled == {"registry", "builds"}
Store == (Falling \cup Pooled \cup {"enrollment"}) \cap Used

ASSUME DatabaseAssumption == Database \cap {NoUrl, Unset, Memory, Failed} = {}

NoSetup == [at |-> NoUrl, db |-> NoUrl]

BootInit ==
  /\ file = NoUrl /\ preset = NoUrl /\ env = NoUrl
  /\ auth = Memory
  /\ store = [s \in Store |-> Unset]
  /\ opening = {} /\ setup = [h \in Handler |-> NoSetup]
  /\ serving = FALSE
  /\ baked \in BOOLEAN /\ due = {} /\ missed = {}
  /\ admins = {} /\ images = {}
  /\ up \in {Database, {}}
  /\ faults = 0
  /\ early = {} /\ overlapped = FALSE

-----------------------------------------------------------------------------
(* The process.                                                            *)

SetupRequired == env = NoUrl /\ file = NoUrl

\* swapAuthStoreToPostgres: a database that does not answer leaves the store as it was.
Attached(db, otherwise) == IF db \in up THEN db ELSE otherwise

\* The database a process is configured for: bootstrapEnv puts the file's over
\* the one in the environment.
Configured == IF file # NoUrl THEN file ELSE preset

\* bootstrapEnv, the auth store, then listen: an auth store that cannot be
\* attached stays in memory.  Each start may be given another environment.
Start ==
  /\ ~serving
  /\ serving' = TRUE
  /\ \E given \in Database \cup {NoUrl} :
       preset' = given /\ env' = (IF file # NoUrl THEN file ELSE given)
  /\ auth' = Attached(env', Memory)
  /\ early' = IF env' \in Database \ up THEN {"auth"} ELSE {}
  /\ due' = Repo
  /\ UNCHANGED <<file, store, opening, setup, baked, admins, images, up, faults, missed, overlapped>>

Stop ==
  /\ serving /\ faults < MaxFaults
  /\ faults' = faults + 1
  /\ serving' = FALSE /\ preset' = NoUrl /\ env' = NoUrl /\ auth' = Memory
  /\ store' = [s \in Store |-> Unset]
  /\ opening' = {} /\ setup' = [h \in Handler |-> NoSetup]
  /\ due' = {}
  /\ early' = {} /\ missed' = {} /\ overlapped' = FALSE
  /\ UNCHANGED <<file, baked, admins, images, up>>

Outage(d) ==
  /\ d \in up /\ faults < MaxFaults
  /\ faults' = faults + 1
  /\ up' = up \ {d}
  /\ UNCHANGED <<file, preset, env, auth, store, opening, setup, serving, publication, admins,
                 early, overlapped>>

Recover(d) ==
  /\ d \notin up
  /\ up' = up \cup {d}
  /\ UNCHANGED <<file, preset, env, auth, store, opening, setup, serving, publication, admins, faults,
                 early, overlapped>>

-----------------------------------------------------------------------------
(* First use of a store.                                                   *)

\* The gate answers for /api while setup is required.  A heartbeat opens the
\* domain store, a pull token the credentials, an agent's token the
\* enrollment store, the publication the registry, the drift timer the builds.
Ungated == Store \ {"settings"}
Gate(s) == ~SetupRequired \/ s \in Ungated

\* The URL is read when the opening begins.
Open(h, s) ==
  /\ serving /\ Gate(s)
  /\ store[s] = Unset
  /\ s \notin Pooled => \A o \in opening : o.store # s
  /\ \A o \in opening : o.by # h
  /\ setup[h] = NoSetup
  /\ early' = IF env = NoUrl THEN early \cup {s} ELSE early
  /\ IF env = NoUrl
     THEN /\ store' = [store EXCEPT ![s] = IF s \in Falling THEN Memory ELSE Failed]
          /\ opening' = opening
     ELSE opening' = opening \cup {[by |-> h, store |-> s, db |-> env]} /\ store' = store
  /\ UNCHANGED <<file, preset, env, auth, setup, serving, publication, admins, up, faults, overlapped>>

\* ensureCoreSchema answers; what comes last is kept, and for good.
FinishOpen(o) ==
  /\ o \in opening
  /\ opening' = opening \ {o}
  /\ store' = [store EXCEPT ![o.store] = IF o.db \in up THEN o.db ELSE Failed]
  /\ early' = IF o.db \in up THEN early ELSE early \cup {o.store}
  /\ UNCHANGED <<file, preset, env, auth, setup, serving, publication, admins, up, faults, overlapped>>

\* Agent, then operator, each whatever became of the other.
Turn(r) == serving /\ r \in due /\ (r = "kaiad-agent" \/ "kaiad-agent" \notin due)

\* Mistake: the registry is asked before it was opened.
PublishUnopened(r) ==
  /\ Turn(r)
  /\ due' = due \ {r}
  /\ images' = images \cup ({store["registry"]} \intersect up) \X {r}
  /\ UNCHANGED <<file, preset, env, auth, store, opening, setup, serving, baked, admins, up, faults,
                 early, missed, overlapped>>

\* publishBakedBundle, once after listen.  Without the registry, its bundle or
\* crane it gives up; crane pushes to the process itself and may fail.
\* Either way it is logged, and no one tries again before the next start.
Publish(r) ==
  /\ Turn(r) /\ store["registry"] # Unset
  /\ due' = due \ {r}
  /\ \/ /\ ~baked \/ store["registry"] \notin Database
        /\ UNCHANGED <<images, missed, faults>>
     \/ /\ baked /\ store["registry"] \in up
        /\ images' = images \cup {<<store["registry"], r>>}
        /\ UNCHANGED <<missed, faults>>
     \/ /\ baked /\ store["registry"] \in Database
        /\ IF store["registry"] \in up
             THEN faults < MaxFaults /\ faults' = faults + 1
             ELSE faults' = faults
        /\ missed' = missed \cup {r}
        /\ UNCHANGED images
  /\ UNCHANGED <<file, preset, env, auth, store, opening, setup, serving, baked, admins, up,
                 early, overlapped>>

-----------------------------------------------------------------------------
(* The wizard.                                                             *)

Settling == {h \in Handler : setup[h] # NoSetup}
IsAt(h, at) == setup[h].at = at
MoveTo(h, at) == setup' = [setup EXCEPT ![h].at = at]
EndSetup(h) == setup' = [setup EXCEPT ![h] = NoSetup]

BeginSetup(h, d) ==
  /\ serving /\ SetupRequired
  /\ setup[h] = NoSetup /\ \A o \in opening : o.by # h
  /\ setup' = [setup EXCEPT ![h] = [at |-> "schema", db |-> d]]
  /\ overlapped' = (overlapped \/ Settling # {})
  /\ UNCHANGED <<file, preset, env, auth, store, opening, serving, publication, admins, up, faults, early>>

\* Mistake: the file before the admin.
ConfigFirst(h) ==
  /\ IsAt(h, "schema")
  /\ file' = setup[h].db /\ MoveTo(h, "seed")
  /\ UNCHANGED <<preset, env, auth, store, opening, serving, publication, admins, up, faults,
                 early, overlapped>>

EnsureSchema(h) ==
  /\ IsAt(h, "schema")
  /\ IF setup[h].db \in up THEN MoveTo(h, "seed") ELSE EndSetup(h)
  /\ UNCHANGED <<file, preset, env, auth, store, opening, serving, publication, admins, up, faults,
                 early, overlapped>>

\* Tenant, admin and membership in one transaction.
SeedAdmin(h) ==
  /\ IsAt(h, "seed")
  /\ IF setup[h].db \in up
     THEN admins' = admins \cup {setup[h].db} /\ MoveTo(h, "config")
     ELSE admins' = admins /\ EndSetup(h)
  /\ UNCHANGED <<file, preset, env, auth, store, opening, serving, publication, up, faults,
                 early, overlapped>>

\* Mistake: the file is written, the environment is left for the next start.
WriteFileOnly(h) ==
  /\ IsAt(h, "config")
  /\ file' = setup[h].db /\ env' = env
  /\ MoveTo(h, "swap")
  /\ UNCHANGED <<preset, auth, store, opening, serving, publication, admins, up, faults, early, overlapped>>

\* The file, and with it the environment; a write that fails ends the setup.
WriteConfig(h) ==
  /\ IsAt(h, "config")
  /\ \/ file' = setup[h].db /\ env' = setup[h].db /\ MoveTo(h, "swap")
     \/ UNCHANGED <<file, env>> /\ EndSetup(h)
  /\ UNCHANGED <<preset, auth, store, opening, serving, publication, admins, up, faults, early, overlapped>>

\* onSetupComplete; a failure is logged.
SwapAuth(h) ==
  /\ IsAt(h, "swap")
  /\ auth' = Attached(setup[h].db, auth)
  /\ early' = IF setup[h].db \in up THEN early ELSE early \cup {"auth"}
  /\ EndSetup(h)
  /\ UNCHANGED <<file, preset, env, store, opening, serving, publication, admins, up, faults, overlapped>>

-----------------------------------------------------------------------------
SetupStep(h) == EnsureSchema(h) \/ SeedAdmin(h) \/ WriteConfig(h) \/ SwapAuth(h)

BootNext ==
  \/ Start \/ Stop
  \/ \E r \in Repo : Publish(r)
  \/ \E d \in Database : Outage(d) \/ Recover(d)
  \/ \E h \in Handler : \E s \in Store : Open(h, s)
  \/ \E o \in opening : FinishOpen(o)
  \/ \E h \in Handler : SetupStep(h) \/ \E d \in Database : BeginSetup(h, d)

BootSpec == BootInit /\ [][BootNext]_bootVars

\* A supervisor restarts the process, the boot publishes, databases answer in
\* the end; nobody has to run the wizard or to use a store.
FairBootSpec ==
  /\ BootSpec
  /\ WF_bootVars(Start) /\ WF_bootVars(\E r \in Repo : Publish(r))
  /\ WF_bootVars(\E h \in Handler : Open(h, "registry"))
  /\ \A d \in Database : WF_bootVars(Recover(d))
  /\ WF_bootVars(\E o \in opening : FinishOpen(o))
  /\ \A h \in Handler : WF_bootVars(SetupStep(h))

-----------------------------------------------------------------------------
(* Properties.                                                             *)

BootTypeOK ==
  /\ {file, preset, env} \subseteq Database \cup {NoUrl}
  /\ auth \in Database \cup {Memory}
  /\ store \in [Store -> Database \cup {Unset, Memory, Failed}]
  /\ opening \subseteq [by : Handler, store : Store, db : Database]
  /\ setup \in [Handler -> {NoSetup} \cup [at : {"schema", "seed", "config", "swap"}, db : Database]]
  /\ admins \cup up \subseteq Database
  /\ images \subseteq Database \X Repo /\ due \cup missed \subseteq Repo
  /\ faults \in 0 .. MaxFaults
  /\ serving \in BOOLEAN /\ baked \in BOOLEAN

\* A configuration that says setup is complete names a database with the admin
\* the wizard was told to create, whatever crashed or overlapped: without it
\* nobody could log in, and the wizard would not run again.
ConfiguredIsSeeded == file # NoUrl => file \in admins

\* Once no setup is under way, the stores of a process that is configured for a
\* database are on it, all of them, but for those first used before there was
\* one or in an outage, and for setups that overlapped.  It is the file's, also
\* where the process was started with another DATABASE_URL; without a file, the
\* environment's.
StoresAgree ==
  (serving /\ Configured # NoUrl /\ Settling = {} /\ ~overlapped) =>
    /\ env = Configured
    /\ auth = Configured \/ "auth" \in early
    /\ \A s \in Store \ early : store[s] \in {Unset, Configured}

\* A process that is configured while its images are due publishes them to its
\* database, one whatever becomes of the other.  Unless the installation lacks
\* the bundles or crane, the registry was opened too early or in an outage, the
\* push itself failed, setups overlapped, or the process stops before.
BootPublishes ==
  \A r \in Repo : (serving /\ env # NoUrl /\ r \in due) ~>
    \/ <<Configured, r>> \in images
    \/ ~baked \/ "registry" \in early \/ r \in missed
    \/ overlapped \/ ~serving

=============================================================================
