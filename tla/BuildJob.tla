----------------------------- MODULE BuildJob -----------------------------
(***************************************************************************)
(* What one build does between its claim and its end (runBuild of          *)
(* apps/worker/src/builds.ts): clone, read kaiad.yaml, run the container   *)
(* or docker build, capture, assemble the image in the registry, tag.      *)
(* Builds.tla has this as one step; here every tool is a child process     *)
(* that may fail, hang, be killed by its timeout, or die with the worker.  *)
(*                                                                         *)
(* The builds are those of one service, in the order they were queued.     *)
(* Its commits may be built again: a manual build has no commit until it   *)
(* starts, and two workers may build one commit at the same time.          *)
(***************************************************************************)
EXTENDS Naturals, Sequences, FiniteSets

CONSTANTS Worker, Commit, MaxBuild,
          File,            \* what kaiad.yaml may say
          PipelineName,    \* MonitoredService.pipelineName, or Null
          HostDir,         \* KAIAD_BUILDS_HOST_DIR is set
          BasicAuth,       \* the registry takes the worker's password
          Null,
          MaxFaults        \* bound: workers that die, database and file calls that fail

Build == 1 .. MaxBuild

\* What a tag may name: who wrote it, and whether it has its entrypoint.
Image == [by : Build, whole : BOOLEAN]

ASSUME JobAssumption ==
  /\ MaxBuild \in Nat /\ MaxFaults \in Nat
  /\ Null \notin Commit \union Image /\ HostDir \in BOOLEAN /\ BasicAuth \in BOOLEAN

VARIABLES
  repo,     \* kaiad.yaml of each commit
  pipeline, \* the pipeline the service is bound to, or Null
  sshKey,   \* its key: "path" (or none), "upload", or "garbled" (does not decrypt)
  keypair,  \* the API has written the registry's signing keys
  row,      \* service_builds
  job,      \* per worker: the build, and the steps it has left
  proc,     \* per worker: its child process runs, is killed, or there is none
  auth,     \* per worker: cachedRegistryAuth
  reaping,  \* per worker: the directories its fs.rm removes
  dirs,     \* builds with a directory under /data/builds
  keys,     \* builds with a private key in /tmp
  tag,      \* the image each commit's tag names in the registry
  latest,   \* the image :latest names
  orphans,  \* history: builds whose worker died before it had cleaned up
  stray,    \* history: what a worker that lives has left for good, and of which build
  faults

vars == <<repo, pipeline, sshKey, keypair, row, job, proc, auth, reaping,
          dirs, keys, tag, latest, orphans, stray, faults>>
given == <<repo, pipeline, sshKey>>

Idle == [build |-> 0, steps |-> <<>>]

Init ==
  /\ repo \in [Commit -> File]
  /\ pipeline \in PipelineName
  /\ sshKey \in {"path", "upload", "garbled"}
  /\ keypair \in BOOLEAN
  /\ row \in [Build -> [status : {"queued"}, sha : Commit \union {Null}, image : {FALSE}]]
  /\ \A a, b \in Build : a # b /\ row[a].sha # Null => row[a].sha # row[b].sha
  /\ job = [w \in Worker |-> Idle]
  /\ proc = [w \in Worker |-> "none"]
  /\ auth = [w \in Worker |-> "unknown"]
  /\ reaping = [w \in Worker |-> {}]
  /\ dirs = {} /\ keys = {} /\ orphans = {} /\ stray = {}
  /\ tag = [c \in Commit |-> Null] /\ latest = Null
  /\ faults = 0

-----------------------------------------------------------------------------
(* kaiad.yaml.                                                             *)

OneMode(d) == d.dockerfile => d.build = Null /\ ~d.runtime /\ d.artifacts = {}
SourcesListed(d) == d.runtime => d.copy \union d.layers \subseteq d.artifacts
InnerChecks(d) == OneMode(d) /\ SourcesListed(d) /\ d.domains \subseteq d.ports

\* pipelineDefinitionSchema alone looks into the environments.
FullChecks(d) ==
  InnerChecks(d) /\ \A e \in DOMAIN d.environments :
    e # "Bad_Name" /\ d.environments[e] \subseteq d.ports

Pipelines(f) == {f.services[n] : n \in DOMAIN f.services}

\* A file has one pipeline or names several; each lists its layers.
ASSUME FileAssumption ==
  \A f \in File : /\ f.form = "single" => "root" \in DOMAIN f.services
                  /\ \A d \in Pipelines(f) : IsFiniteSet(d.layers)

parsePipelineYaml(f) ==
  \/ f.form = "single" /\ \A d \in Pipelines(f) : FullChecks(d)
  \/ f.form = "multi" /\ DOMAIN f.services # {} /\ \A d \in Pipelines(f) : InnerChecks(d)

\* The name under which selectPipeline finds the one it takes.
Selected(f) == IF f.form = "single" THEN "root" ELSE pipeline

selectPipeline(f) ==
  IF f.form = "single" THEN pipeline = Null ELSE pipeline \in DOMAIN f.services

\* resolveDeps: a dependency is what its latest successful build left, "image"
\* or "no image"; it fails on one that was never built.
Vars(d) == {<<"kaiad", "registry_host">>} \union
  UNION {{<<n, "version">>} \union (IF d.dependsOn[n] = "image" THEN {<<n, "image">>} ELSE {}) :
           n \in DOMAIN d.dependsOn}
Resolved(d) == \A n \in DOMAIN d.dependsOn : d.dependsOn[n] # "unbuilt"
substitutePipeline(d) == d.uses \subseteq Vars(d)

Definition(b) == LET f == repo[row[b].sha] IN f.services[Selected(f)]

-----------------------------------------------------------------------------
(* The steps of a build.                                                   *)

Resolve == <<"key", "git ls-remote">>

Clone == <<"mkdir", "banner", "key", "git init", "git remote", "git fetch", "git checkout">>

\* Steps of the worker itself, without a child.
Own == {"mkdir", "banner", "key", "capture"}

Appends(d) == [i \in 1 .. Cardinality(d.layers) + (IF d.copy = {} THEN 0 ELSE 1) |-> "crane append"]

buildRuntimeImage(d) ==
  (IF d.copy = {} THEN <<>> ELSE <<"tar">>) \o Appends(d)
    \o (IF Appends(d) = <<>> THEN <<"crane copy">> ELSE <<"crane push">>)
    \o <<"crane mutate", "crane tag">>

buildViaDockerfile == <<"docker build", "docker save", "crane push", "crane tag">>
runBuildContainer(d) == IF d.build = Null THEN <<>> ELSE <<"docker run">>

Steps(d) ==
  IF d.dockerfile THEN buildViaDockerfile
  ELSE runBuildContainer(d) \o <<"capture">>
         \o (IF d.runtime THEN buildRuntimeImage(d) ELSE <<>>)

Untimed == {"git init", "git remote", "git checkout"}

\* Tools with a child that keeps their pipes open when they are killed.
Forks == {"git ls-remote", "git fetch", "docker save"}

\* Steps for which the registry's entry of the docker config was made just before.
Authenticated(d, step) ==
  \/ step \in {"docker save", "tar", "crane append", "crane copy"}
  \/ step = "docker run" /\ d.build = "kaiad"

Pushes == {"crane push", "crane copy", "crane mutate", "crane tag"}

Step(w) == Head(job[w].steps)

-----------------------------------------------------------------------------
(* How a build goes on, and how it ends.                                   *)

\* getRegistryAuthConfig: found or not, the first answer is kept.
getRegistryAuthConfig(w) ==
  auth' = [auth EXCEPT ![w] = IF @ # "unknown" THEN @ ELSE IF keypair THEN "token" ELSE "basic"]

\* Mistake: the directory is removed when the build succeeds, not in a finally.
FinallyIfDone(w) ==
  /\ job' = [job EXCEPT ![w] = Idle]
  /\ proc' = [proc EXCEPT ![w] = "none"]
  /\ reaping' = [reaping EXCEPT ![w] =
                   @ \union {b \in dirs \intersect {job[w].build} : row'[b].status = "success"}]

\* The finally of runBuild, whose fs.rm is not awaited.
Finally(w) ==
  /\ job' = [job EXCEPT ![w] = Idle]
  /\ proc' = [proc EXCEPT ![w] = "none"]
  /\ reaping' = [reaping EXCEPT ![w] = @ \union (dirs \intersect {job[w].build})]

\* The finally of cloneAtSha and of gitLsRemoteHead.
RemoveKey(w) == keys' = keys \ {job[w].build}

Set(w, status) == row' = [row EXCEPT ![job[w].build].status = status]

End(w, status) == Set(w, status) /\ Finally(w) /\ RemoveKey(w) /\ UNCHANGED <<dirs, auth>>

Succeed(w, image) ==
  /\ row' = [row EXCEPT ![job[w].build].status = "success", ![job[w].build].image = image]
  /\ Finally(w) /\ RemoveKey(w)
  /\ UNCHANGED <<dirs, auth>>

\* The build goes on with these steps, or is done.
Proceed(w, steps) ==
  LET d == Definition(job[w].build)
  IN  \/ steps = <<>> /\ Succeed(w, d.dockerfile \/ d.runtime)
      \/ /\ steps # <<>>
         /\ job' = [job EXCEPT ![w].steps = steps]
         /\ proc' = [proc EXCEPT ![w] = IF Head(steps) \in Own THEN "none" ELSE "runs"]
         /\ IF Authenticated(d, Head(steps)) THEN getRegistryAuthConfig(w) ELSE UNCHANGED auth
         /\ keys' = IF Step(w) = "git checkout" THEN keys \ {job[w].build} ELSE keys
         /\ UNCHANGED <<row, dirs, reaping>>

-----------------------------------------------------------------------------
(* claimNextBuild, and the start of runBuild.                              *)

Oldest == {b \in Build : row[b].status = "queued" /\ \A a \in 1 .. b - 1 : row[a].status # "queued"}

\* A manual build has no commit yet: gitLsRemoteHead comes first.
Claim(w) ==
  /\ job[w] = Idle
  /\ \E b \in Oldest :
       /\ row' = [row EXCEPT ![b].status = "running"]
       /\ job' = [job EXCEPT ![w] = [build |-> b, steps |-> IF row[b].sha = Null THEN Resolve ELSE Clone]]
  /\ UNCHANGED <<given, keypair, proc, auth, reaping, dirs, keys, tag, latest, orphans, stray, faults>>

AtStep(w, steps) == job[w] # Idle /\ Step(w) \in steps
GoOn(w) == job' = [job EXCEPT ![w].steps = Tail(@)]

MakeDirs(w) ==
  /\ AtStep(w, {"mkdir"}) /\ GoOn(w)
  /\ dirs' = dirs \union {job[w].build}
  /\ UNCHANGED <<given, keypair, row, proc, auth, reaping, keys, tag, latest, orphans, stray, faults>>

LogBanner(w) ==
  /\ AtStep(w, {"banner"}) /\ GoOn(w)
  /\ UNCHANGED <<given, keypair, row, proc, auth, reaping, dirs, keys, tag, latest, orphans, stray, faults>>

\* A key that cannot be decrypted throws.
sshAuthEnvForKey(w) ==
  /\ AtStep(w, {"key"})
  /\ IF sshKey = "garbled" THEN End(w, "failed")
     ELSE /\ GoOn(w)
          /\ proc' = [proc EXCEPT ![w] = "runs"]
          /\ keys' = IF sshKey = "upload" THEN keys \union {job[w].build} ELSE keys
          /\ UNCHANGED <<row, auth, reaping, dirs>>
  /\ UNCHANGED <<given, keypair, tag, latest, orphans, stray, faults>>

-----------------------------------------------------------------------------
(* What follows when the tool of a step has closed.                        *)

\* The head of the branch; it may be gone.
ResolveHead(w, ok) ==
  \/ End(w, "failed")
  \/ /\ ok /\ RemoveKey(w)
     /\ \E c \in Commit : row' = [row EXCEPT ![job[w].build].sha = c]
     /\ job' = [job EXCEPT ![w].steps = Clone]
     /\ proc' = [proc EXCEPT ![w] = "none"]
     /\ UNCHANGED <<auth, reaping, dirs>>

\* After the checkout: kaiad.yaml, its pipeline, its dependencies, its variables.
Planned(w) ==
  LET f == repo[row[job[w].build].sha]
      d == Definition(job[w].build)
  IN  \/ f.form = "none" /\ End(w, "no_pipeline")
      \/ /\ f.form # "none"
         /\ IF /\ parsePipelineYaml(f) /\ selectPipeline(f)
               /\ Resolved(d) /\ substitutePipeline(d)
               /\ d.build # Null => HostDir
              THEN Proceed(w, Steps(d))
              ELSE End(w, "failed")

\* Mistake: a failing mutate is taken as lightly as a failing tag.
LightFailures == {"crane mutate", "crane tag"}

\* Steps whose failure does not fail the build.
Light == {"crane tag"}

Continue(w, ok) ==
  IF Step(w) = "git ls-remote" THEN ResolveHead(w, ok)
  ELSE IF ~ok /\ Step(w) \notin Light THEN End(w, "failed")
  ELSE IF Step(w) = "git checkout" THEN Planned(w)
  ELSE Proceed(w, Tail(job[w].steps))

\* What the step leaves in the registry (external).  A push that failed, or
\* was cut off, may have arrived all the same.
Lands(w, ok) ==
  LET b == job[w].build
      c == row[b].sha
      written == [by |-> b, whole |-> Step(w) = "crane mutate" \/ Definition(b).dockerfile]
  IN  IF Step(w) \notin Pushes THEN UNCHANGED <<tag, latest>>
      ELSE \E arrived \in {TRUE, ok} :
             IF Step(w) = "crane tag"
               THEN latest' = (IF arrived THEN tag[c] ELSE latest) /\ UNCHANGED tag
               ELSE tag' = (IF arrived THEN [tag EXCEPT ![c] = written] ELSE tag) /\ UNCHANGED latest

Close(w, ok) ==
  Continue(w, ok) /\ Lands(w, ok) /\ UNCHANGED <<given, keypair, orphans, stray, faults>>

\* runProcStreaming, runProc: the child ends by itself.  No push succeeds with
\* a password the registry does not take.
Exits(w) ==
  /\ proc[w] = "runs"
  /\ \E ok \in BOOLEAN :
       /\ ok /\ Step(w) \in Pushes => auth[w] = "token" \/ BasicAuth
       /\ Close(w, ok)

\* Its timeout sends SIGKILL; "close" waits for a child of its own.
TimesOut(w) ==
  /\ proc[w] = "runs" /\ Step(w) \notin Untimed
  /\ \/ Close(w, FALSE)
     \/ /\ Step(w) \in Forks
        /\ proc' = [proc EXCEPT ![w] = "killed"]
        /\ UNCHANGED <<given, keypair, row, job, auth, reaping, dirs, keys, tag, latest, orphans, stray, faults>>

ChildEnds(w) == proc[w] = "killed" /\ Close(w, FALSE)

\* captureArtifacts of what the container left, and the check that no argument
\* of the entrypoint has a comma.  Without a container there is nothing to capture.
Capture(w) ==
  LET d == Definition(job[w].build)
  IN  /\ AtStep(w, {"capture"})
      /\ \E made \in {d.artifacts, {}} :
           /\ d.build = Null => made = {}
           /\ IF d.artifacts \subseteq made /\ ~(d.runtime /\ d.comma)
                THEN Proceed(w, Tail(job[w].steps)) ELSE End(w, "failed")
      /\ UNCHANGED <<given, keypair, tag, latest, orphans, stray, faults>>

-----------------------------------------------------------------------------
(* Around it.                                                              *)

\* The fs.rm of the finally has done its work.
Removed(w, b) ==
  /\ b \in reaping[w]
  /\ reaping' = [reaping EXCEPT ![w] = @ \ {b}]
  /\ dirs' = dirs \ {b}
  /\ UNCHANGED <<given, keypair, row, job, proc, auth, keys, tag, latest, orphans, stray, faults>>

Fault == faults < MaxFaults /\ faults' = faults + 1

\* It fails, which is ignored.
RemovalFails(w, b) ==
  /\ Fault /\ b \in reaping[w]
  /\ reaping' = [reaping EXCEPT ![w] = @ \ {b}]
  /\ stray' = stray \union {<<b, "directory">>}
  /\ UNCHANGED <<given, keypair, row, job, proc, auth, dirs, keys, tag, latest, orphans>>

\* When a build throws, the update to "failed" may fail as well.
Thrown == {"running", "failed"}

\* A mkdir or the banner's update of the log fails: the try whose finally
\* removes the directory has not begun.
ThrowsEarly(w) ==
  /\ Fault /\ AtStep(w, {"mkdir", "banner"})
  /\ \E status \in Thrown : Set(w, status)
  /\ job' = [job EXCEPT ![w] = Idle] /\ proc' = [proc EXCEPT ![w] = "none"]
  /\ dirs' \in {dirs, dirs \union {job[w].build}}
  /\ stray' = stray \union ({job[w].build} \intersect dirs') \X {"directory"}
  /\ UNCHANGED <<given, keypair, auth, reaping, keys, tag, latest, orphans>>

\* sshAuthEnvForKey fails, with nothing or part of the key written, before the
\* try whose finally removes it; or that removal fails, when the git steps end.
ThrowsWithKey(w) ==
  LET b == job[w].build
  IN  /\ Fault
      /\ \/ AtStep(w, {"key"}) /\ keys' \in {keys, IF sshKey = "upload" THEN keys \union {b} ELSE keys}
         \/ proc[w] # "none" /\ b \in keys /\ UNCHANGED keys
      /\ stray' = stray \union ({b} \intersect keys') \X {"key"}
      /\ \E status \in Thrown : Set(w, status)
      /\ Finally(w)
      /\ UNCHANGED <<given, keypair, auth, dirs, tag, latest, orphans>>

\* A log or status update fails while the step's tool has done its work.
Throws(w) ==
  /\ Fault /\ proc[w] = "runs"
  /\ \E status \in Thrown : End(w, status)
  /\ Lands(w, TRUE)
  /\ UNCHANGED <<given, keypair, orphans, stray>>

\* The worker's process dies, its tools with it, and starts again.
Dies(w) ==
  /\ Fault
  /\ job[w] # Idle \/ reaping[w] # {}
  /\ orphans' = orphans \union reaping[w] \union ({job[w].build} \intersect Build)
  /\ job' = [job EXCEPT ![w] = Idle]
  /\ proc' = [proc EXCEPT ![w] = "none"]
  /\ auth' = [auth EXCEPT ![w] = "unknown"]
  /\ reaping' = [reaping EXCEPT ![w] = {}]
  /\ IF proc[w] = "runs" THEN Lands(w, FALSE) ELSE UNCHANGED <<tag, latest>>
  /\ UNCHANGED <<given, keypair, row, dirs, keys, stray>>

\* ensureRegistryAuth of the API, external to the worker.
KeysWritten ==
  /\ ~keypair /\ keypair' = TRUE
  /\ UNCHANGED <<given, row, job, proc, auth, reaping, dirs, keys, tag, latest, orphans, stray, faults>>

Next ==
  \/ \E w \in Worker :
       \/ Claim(w) \/ MakeDirs(w) \/ LogBanner(w) \/ sshAuthEnvForKey(w)
       \/ Exits(w) \/ TimesOut(w) \/ ChildEnds(w) \/ Capture(w)
       \/ Throws(w) \/ ThrowsEarly(w) \/ ThrowsWithKey(w) \/ Dies(w)
       \/ \E b \in Build : Removed(w, b) \/ RemovalFails(w, b)
  \/ KeysWritten

Spec == Init /\ [][Next]_vars

\* The timers fire and the worker's own steps are taken.  Of the tools only
\* those that have no timeout are taken to end.
Fairness ==
  \A w \in Worker :
    /\ WF_vars(MakeDirs(w) \/ LogBanner(w) \/ sshAuthEnvForKey(w) \/ Capture(w))
    /\ WF_vars(TimesOut(w))
    /\ WF_vars(Exits(w) /\ Step(w) \in Untimed)
    /\ \A b \in Build : WF_vars(Removed(w, b))

FairSpec == Spec /\ Fairness

-----------------------------------------------------------------------------
(* Properties.                                                             *)

TypeOK ==
  /\ \A b \in Build : /\ row[b].status \in {"queued", "running", "success", "failed", "no_pipeline"}
                      /\ row[b].sha \in Commit \union {Null} /\ row[b].image \in BOOLEAN
  /\ \A w \in Worker : job[w].build \in 0 .. MaxBuild /\ proc[w] \in {"none", "runs", "killed"}
                         /\ auth[w] \in {"unknown", "token", "basic"} /\ reaping[w] \subseteq dirs
  /\ dirs \subseteq Build /\ keys \subseteq Build /\ orphans \subseteq Build
  /\ stray \subseteq Build \X {"directory", "key"}
  /\ faults \in 0 .. MaxFaults

\* The image reference of a successful build names an image that has its
\* entrypoint: push and mutate are two writes of one tag, in whatever order
\* two workers make theirs.  Only another build of the commit that has not
\* succeeded (it is under way, it failed or its worker died between its two
\* writes) may have put an unfinished image in its place.
RefsWhole ==
  \A b \in Build : row[b].status = "success" /\ row[b].image =>
    LET image == tag[row[b].sha]
    IN  image # Null /\ (image.whole \/ row[image.by].status # "success")

\* A build leaves nothing behind: its directory and the private key it cloned
\* with are removed, however it ends and whichever of its tools hangs.  Except
\* when its worker dies, when a killed tool has a child that never ends, when a
\* call between making the directory or the key and the try block that guards it
\* fails, and when the removal itself fails.
Reaped ==
  \A b \in Build :
    b \in dirs \union keys ~>
      \/ /\ b \in dirs => <<b, "directory">> \in stray
         /\ b \in keys => <<b, "key">> \in stray
      \/ b \in orphans
      \/ \E w \in Worker : job[w].build = b /\ proc[w] = "killed"
=============================================================================
