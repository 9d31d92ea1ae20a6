--------------------------- MODULE BuildJobProofs ---------------------------
(***************************************************************************)
(* The image reference a build that succeeded leaves behind names a whole  *)
(* image, for any files, commits, workers, builds and faults.              *)
(***************************************************************************)
EXTENDS BuildJob, Integers, SequenceTheorems, FiniteSetTheorems, TLAPS

Tools ==
  {"docker build", "docker save", "docker run", "capture", "tar", "crane append",
   "crane copy", "crane push", "crane mutate", "crane tag"}
Git == {"key", "git ls-remote", "mkdir", "banner", "git init", "git remote", "git fetch", "git checkout"}
Tool == Tools \cup Git
Writes == {"crane copy", "crane push"}
Finish == "crane mutate"

\* Some step of S is still to come.
Ahead(steps, S) == \E i \in 1 .. Len(steps) : steps[i] \in S

\* After each write of an image that lacks its entrypoint comes the one that adds it.
Mutated(steps) ==
  \A i \in 1 .. Len(steps) : steps[i] \in Writes => \E j \in i + 1 .. Len(steps) : steps[j] = Finish

\* What is left of Clone.
Cloned(steps) ==
  \/ steps = Clone
  \/ steps = <<"banner", "key", "git init", "git remote", "git fetch", "git checkout">>
  \/ steps = <<"key", "git init", "git remote", "git fetch", "git checkout">>
  \/ steps = <<"git init", "git remote", "git fetch", "git checkout">>
  \/ steps = <<"git remote", "git fetch", "git checkout">>
  \/ steps = <<"git fetch", "git checkout">>
  \/ steps = <<"git checkout">>

Cloning(b, steps) ==
  \/ row[b].sha = Null /\ (steps = Resolve \/ steps = <<"git ls-remote">>)
  \/ row[b].sha \in Commit /\ Cloned(steps)

Building(b, steps) ==
  /\ row[b].sha \in Commit
  /\ steps \in Seq(Tools) /\ steps # <<>>
  /\ Definition(b).dockerfile \/ Mutated(steps)
  /\ Definition(b).dockerfile \/ Definition(b).runtime =>
       tag[row[b].sha] # Null \/ Ahead(steps, Writes)

AtIt(w) ==
  \/ job[w] = Idle
  \/ /\ job[w].build \in Build /\ row[job[w].build].status = "running"
     /\ Cloning(job[w].build, job[w].steps) \/ Building(job[w].build, job[w].steps)

Alone == \A v, w \in Worker : job[v] # Idle /\ job[v].build = job[w].build => v = w

TagOK(c) ==
  tag[c] # Null =>
    /\ tag[c] \in Image
    /\ row[tag[c].by].sha = c
    /\ ~tag[c].whole =>
         /\ row[tag[c].by].status \notin {"queued", "success"}
         /\ \A w \in Worker : job[w].build = tag[c].by => Ahead(job[w].steps, {Finish})

Referred ==
  \A b \in Build : row[b].status = "success" /\ row[b].image =>
    row[b].sha \in Commit /\ tag[row[b].sha] # Null

JobRow == [status : {"queued", "running", "success", "failed", "no_pipeline"},
           sha : Commit \cup {Null}, image : BOOLEAN]

JobShape ==
  /\ repo \in [Commit -> File]
  /\ row \in [Build -> JobRow]
  /\ job \in [Worker -> [build : Nat, steps : Seq(Tool)]]
  /\ tag \in [Commit -> Image \cup {Null}]

JobInv ==
  /\ JobShape
  /\ \A w \in Worker : AtIt(w)
  /\ Alone
  /\ \A c \in Commit : TagOK(c)
  /\ Referred

\* The build b of worker w wrote its tag, or did not.
Wrote(b) ==
  \/ tag' = tag
  \/ \E whole \in BOOLEAN :
       row[b].sha \in Commit /\ tag' = [tag EXCEPT ![row[b].sha] = [by |-> b, whole |-> whole]]

\* Worker w takes build b to row r and goes on with j.
Takes(w, b, r, j) ==
  /\ r \in JobRow /\ r.status # "queued"
  /\ row[b].sha # Null => r.sha = row[b].sha
  /\ row' = [row EXCEPT ![b] = r]
  /\ j \in [build : Nat, steps : Seq(Tool)] /\ (j = Idle \/ j.build = b)
  /\ job' = [job EXCEPT ![w] = j]
  /\ UNCHANGED <<repo, pipeline>>
  /\ \A v \in Worker \ {w} : job[v].build # b

LEMMA IdleHasNone == Idle.build = 0 /\ Idle.steps = <<>> /\ 0 \notin Build
<1>1. Idle.build = 0 /\ Idle.steps = <<>>
  BY DEF Idle
<1>2. 0 \notin Build
  BY JobAssumption DEF Build
<1> QED
  BY <1>1, <1>2

LEMMA RecordSteps ==
  ASSUME NEW x \in [build : Nat, steps : Seq(Tool)], NEW t
  PROVE  [x EXCEPT !.steps = t] = [build |-> x.build, steps |-> t]
OBVIOUS

LEMMA TakesStep ==
  ASSUME JobInv, NEW w \in Worker, NEW b \in Build, NEW r, NEW j,
         Takes(w, b, r, j), Wrote(b), AtIt(w)',
         \A c \in Commit : tag'[c] # Null /\ tag'[c].by = b /\ ~tag'[c].whole =>
           r.status # "success" /\ (j # Idle => Ahead(j.steps, {Finish})),
         r.status = "success" /\ r.image => r.sha \in Commit /\ tag'[r.sha] # Null
  PROVE  JobInv'
<1>1. /\ JobShape /\ r \in JobRow /\ row' = [row EXCEPT ![b] = r]
      /\ job' = [job EXCEPT ![w] = j] /\ j \in [build : Nat, steps : Seq(Tool)]
      /\ j = Idle \/ j.build = b
      /\ repo' = repo /\ pipeline' = pipeline
  BY DEF JobInv, Takes
<1>2. row'[b] = r /\ \A a \in Build \ {b} : row'[a] = row[a]
  BY <1>1 DEF JobShape
<1>3. job'[w] = j /\ \A v \in Worker \ {w} : job'[v] = job[v] /\ job[v].build # b
  BY <1>1 DEF JobShape, Takes
<1>4. \A c \in Commit :
        \/ tag'[c] = tag[c]
        \/ tag'[c] # Null /\ tag'[c] \in Image /\ tag'[c].by = b /\ row[b].sha = c
  <2> TAKE c \in Commit
  <2>1. CASE tag' = tag
    BY <2>1
  <2>2. CASE \E whole \in BOOLEAN :
               row[b].sha \in Commit /\ tag' = [tag EXCEPT ![row[b].sha] = [by |-> b, whole |-> whole]]
    <3>1. PICK whole \in BOOLEAN :
               row[b].sha \in Commit /\ tag' = [tag EXCEPT ![row[b].sha] = [by |-> b, whole |-> whole]]
      BY <2>2
    <3> DEFINE x == [by |-> b, whole |-> whole]
    <3>2. x \in Image /\ x.by = b
      BY DEF Image
    <3>3. Null \notin Image
      BY JobAssumption
    <3> HIDE DEF x
    <3> QED
      BY <1>1, <3>1, <3>2, <3>3 DEF JobShape, x
  <2> QED
    BY <2>1, <2>2 DEF Wrote
<1>5. \A a \in Build : row[a].sha # Null => row'[a].sha = row[a].sha
  BY <1>2 DEF Takes
<1>6. JobShape'
  <2>1. tag' \in [Commit -> Image \cup {Null}]
    BY <1>1, <1>4 DEF JobShape, Wrote
  <2>2. row' \in [Build -> JobRow] /\ job' \in [Worker -> [build : Nat, steps : Seq(Tool)]]
    BY <1>1 DEF JobShape
  <2> QED
    BY <1>1, <2>1, <2>2 DEF JobShape, Build, Image, JobRow
<1>7. \A v \in Worker : AtIt(v)'
  <2> SUFFICES ASSUME NEW v \in Worker \ {w} PROVE AtIt(v)'
    OBVIOUS
  <2>1. AtIt(v) /\ job'[v] = job[v] /\ job[v].build # b
    BY <1>3 DEF JobInv
  <2>2. CASE job[v] = Idle
    BY <2>1, <2>2 DEF AtIt, Idle
  <2>3. CASE job[v] # Idle
    <3> DEFINE a == job[v].build
    <3>1. a \in Build /\ row'[a] = row[a] /\ row[a].status = "running"
      BY <1>2, <2>1, <2>3 DEF AtIt
    <3>2. Definition(a)' = Definition(a)
      BY <1>1, <2>1, <3>1 DEF Definition, Selected
    <3>3. row[a].sha \in Commit /\ tag[row[a].sha] # Null => tag'[row[a].sha] # Null
      BY <1>4
    <3>4. Cloning(a, job[v].steps) => Cloning(a, job[v].steps)'
      BY <2>1, <3>1 DEF Cloning
    <3>5. Building(a, job[v].steps) => Building(a, job[v].steps)'
      BY <2>1, <3>1, <3>2, <3>3 DEF Building, Mutated, Ahead
    <3> QED
      BY <2>1, <2>3, <3>1, <3>4, <3>5 DEF AtIt, Build
  <2> QED
    BY <2>2, <2>3
<1>8. Alone'
  <2> SUFFICES ASSUME NEW u \in Worker, NEW v \in Worker, job'[u] # Idle, job'[u].build = job'[v].build
               PROVE  u = v
    BY DEF Alone, Idle
  <2>1. CASE u # w /\ v # w
    BY <1>3, <2>1 DEF JobInv, Alone
  <2>2. CASE u = w /\ v # w
    BY <1>1, <1>3, <2>2
  <2>3. CASE u # w /\ v = w
    <3>1. job[u].build \in Build /\ job[u].build # b
      BY <1>3, <2>3 DEF JobInv, AtIt
    <3>2. j = Idle
      BY <1>1, <1>3, <2>3, <3>1
    <3> QED
      BY <1>3, <2>3, <3>1, <3>2 DEF Idle, Build
  <2> QED
    BY <2>1, <2>2, <2>3
<1>9. \A c \in Commit : TagOK(c)'
  <2> SUFFICES ASSUME NEW c \in Commit, tag'[c] # Null
               PROVE  /\ tag'[c] \in Image
                      /\ row'[tag'[c].by].sha = c
                      /\ ~tag'[c].whole =>
                           /\ row'[tag'[c].by].status \notin {"queued", "success"}
                           /\ \A v \in Worker : job'[v].build = tag'[c].by => Ahead(job'[v].steps, {Finish})
    BY DEF TagOK, Ahead, Image, Build
  <2>1. tag'[c] \in Image /\ row[tag'[c].by].sha = c
    <3>1. TagOK(c)
      BY DEF JobInv
    <3> QED
      BY <1>4, <3>1 DEF TagOK
  <2>2. tag'[c].by \in Build
    BY <2>1 DEF Image
  <2>3. row'[tag'[c].by].sha = c
    BY <1>5, <2>1, <2>2, JobAssumption
  <2>4. CASE tag'[c].by = b /\ ~tag'[c].whole
    <3>1. row'[b].status \notin {"queued", "success"}
      BY <1>2, <2>4 DEF Takes
    <3>2. ASSUME NEW v \in Worker, job'[v].build = b
          PROVE  Ahead(job'[v].steps, {Finish})
      <4>1. v = w /\ j.build = b
        BY <1>3, <3>2
      <4>2. j # Idle
        BY <4>1, IdleHasNone
      <4> QED
        BY <1>3, <2>4, <4>1, <4>2
    <3> QED
      BY <2>1, <2>3, <2>4, <3>1, <3>2
  <2>5. CASE tag'[c].by # b /\ ~tag'[c].whole
    <3>1. tag'[c] = tag[c] /\ TagOK(c)
      BY <1>4, <2>5 DEF JobInv
    <3>2. row'[tag[c].by] = row[tag[c].by]
      BY <1>2, <2>2, <2>5, <3>1
    <3>3. ASSUME NEW v \in Worker, job'[v].build = tag[c].by
          PROVE  Ahead(job'[v].steps, {Finish})
      <4>1. j.build = b \/ j.build = 0
        BY <1>1, IdleHasNone
      <4>2. v # w
        BY <1>3, <2>2, <2>5, <3>1, <3>3, <4>1, IdleHasNone
      <4> QED
        BY <1>3, <2>5, <3>1, <3>3, <4>2 DEF TagOK
    <3> QED
      BY <2>1, <2>3, <2>5, <3>1, <3>2, <3>3 DEF TagOK
  <2> QED
    BY <2>1, <2>3, <2>4, <2>5
<1>10. Referred'
  <2> SUFFICES ASSUME NEW a \in Build, row'[a].status = "success", row'[a].image
               PROVE  row'[a].sha \in Commit /\ tag'[row'[a].sha] # Null
    BY DEF Referred, Build
  <2>1. CASE a = b
    BY <1>2, <2>1
  <2>2. CASE a # b
    BY <1>2, <1>4, <2>2 DEF JobInv, Referred
  <2> QED
    BY <2>1, <2>2
<1> QED
  BY <1>6, <1>7, <1>8, <1>9, <1>10 DEF JobInv

LEMMA JobUnchanged ==
  ASSUME JobInv, UNCHANGED <<repo, pipeline, row, job, tag>>
  PROVE  JobInv'
<1>1. JobShape'
  BY DEF JobInv, JobShape, JobRow, Build, Image
<1>2. \A b : Definition(b)' = Definition(b)
  BY DEF Definition, Selected
<1>3. ASSUME NEW w \in Worker PROVE AtIt(w)'
  <2> DEFINE b == job[w].build
             s == job[w].steps
  <2>1. AtIt(w) /\ job'[w] = job[w]
    BY DEF JobInv
  <2>2. Cloning(b, s) => Cloning(b, s)'
    BY DEF Cloning
  <2>3. Building(b, s) => Building(b, s)'
    BY <1>2 DEF Building, Mutated, Ahead
  <2> QED
    BY <2>1, <2>2, <2>3 DEF AtIt, Idle, Build
<1>4. Alone'
  BY DEF JobInv, Alone, Idle
<1>5. ASSUME NEW c \in Commit PROVE TagOK(c)'
  BY DEF JobInv, TagOK, Ahead, Build, Image
<1>6. Referred'
  BY DEF JobInv, Referred, Build
<1> QED
  BY <1>1, <1>3, <1>4, <1>5, <1>6 DEF JobInv

-----------------------------------------------------------------------------
\* The steps of a definition.

LEMMA Concatenated ==
  ASSUME NEW U \in Seq(Tool), NEW V \in Seq(Tool)
  PROVE  /\ U \o V \in Seq(Tool)
         /\ Len(U) \in Nat /\ Len(V) \in Nat /\ Len(U \o V) = Len(U) + Len(V)
         /\ \A i \in 1 .. Len(U) : i \in 1 .. Len(U \o V) /\ (U \o V)[i] = U[i]
         /\ \A i \in 1 .. Len(V) : Len(U) + i \in 1 .. Len(U \o V) /\ (U \o V)[Len(U) + i] = V[i]
         /\ \A i \in 1 .. Len(U \o V) :
              i \in 1 .. Len(U) \/ (i - Len(U) \in 1 .. Len(V) /\ (U \o V)[i] = V[i - Len(U)])
<1> DEFINE W == U \o V
<1>1. W \in Seq(Tool) /\ Len(W) = Len(U) + Len(V)
  BY ConcatProperties
<1>2. \A i \in 1 .. Len(U) + Len(V) : W[i] = IF i <= Len(U) THEN U[i] ELSE V[i - Len(U)]
  BY ConcatProperties
<1>3. Len(U) \in Nat /\ Len(V) \in Nat
  BY LenProperties
<1> HIDE DEF W
<1>4. \A i \in 1 .. Len(U) : i \in 1 .. Len(W) /\ W[i] = U[i]
  BY <1>1, <1>2, <1>3
<1>5. \A i \in 1 .. Len(V) : Len(U) + i \in 1 .. Len(W) /\ W[Len(U) + i] = V[i]
  <2> TAKE i \in 1 .. Len(V)
  <2>1. Len(U) + i \in 1 .. Len(W) /\ ~(Len(U) + i <= Len(U)) /\ (Len(U) + i) - Len(U) = i
    BY <1>1, <1>3
  <2> QED
    BY <1>1, <1>2, <2>1
<1>6. \A i \in 1 .. Len(W) : i \in 1 .. Len(U) \/ (i - Len(U) \in 1 .. Len(V) /\ W[i] = V[i - Len(U)])
  <2> TAKE i \in 1 .. Len(W)
  <2>1. CASE i <= Len(U)
    <3>1. i \in 1 .. Len(U)
      BY <1>1, <1>3, <2>1
    <3> QED
      BY <3>1
  <2>2. CASE ~(i <= Len(U))
    <3>1. i - Len(U) \in 1 .. Len(V)
      BY <1>1, <1>3, <2>2
    <3> QED
      BY <1>1, <1>2, <2>2, <3>1
  <2> QED
    BY <2>1, <2>2
<1> QED
  BY <1>1, <1>3, <1>4, <1>5, <1>6 DEF W

LEMMA AheadConcat ==
  ASSUME NEW U \in Seq(Tool), NEW V \in Seq(Tool), NEW S
  PROVE  Ahead(U \o V, S) <=> Ahead(U, S) \/ Ahead(V, S)
<1>1. ASSUME Ahead(U \o V, S) PROVE Ahead(U, S) \/ Ahead(V, S)
  <2>1. PICK i \in 1 .. Len(U \o V) : (U \o V)[i] \in S
    BY <1>1 DEF Ahead
  <2>2. CASE i \in 1 .. Len(U)
    <3>1. U[i] \in S
      BY <2>1, <2>2, Concatenated
    <3> QED
      BY <2>2, <3>1 DEF Ahead
  <2>3. CASE i - Len(U) \in 1 .. Len(V) /\ (U \o V)[i] = V[i - Len(U)]
    BY <2>1, <2>3 DEF Ahead
  <2> QED
    BY <2>1, <2>2, <2>3, Concatenated
<1>2. ASSUME Ahead(U, S) PROVE Ahead(U \o V, S)
  <2>1. PICK i \in 1 .. Len(U) : U[i] \in S
    BY <1>2 DEF Ahead
  <2>2. i \in 1 .. Len(U \o V) /\ (U \o V)[i] = U[i]
    BY Concatenated
  <2> QED
    BY <2>1, <2>2 DEF Ahead
<1>3. ASSUME Ahead(V, S) PROVE Ahead(U \o V, S)
  <2>1. PICK i \in 1 .. Len(V) : V[i] \in S
    BY <1>3 DEF Ahead
  <2>2. Len(U) + i \in 1 .. Len(U \o V) /\ (U \o V)[Len(U) + i] = V[i]
    BY Concatenated
  <2> QED
    BY <2>1, <2>2 DEF Ahead
<1> QED
  BY <1>1, <1>2, <1>3

\* Tools that are named one by one.
LEMMA AheadOnes ==
  ASSUME NEW S
  PROVE  /\ ~Ahead(<<>>, S)
         /\ \A t : Ahead(<<t>>, S) <=> t \in S
         /\ \A t, u : Ahead(<<t, u>>, S) <=> t \in S \/ u \in S
         /\ \A t, u, v, x : v \in S => Ahead(<<t, u, v, x>>, S)
<1>1. ~Ahead(<<>>, S)
  BY DEF Ahead
<1>2. \A t : Ahead(<<t>>, S) <=> t \in S
  BY DEF Ahead
<1>3. \A t, u : Ahead(<<t, u>>, S) <=> t \in S \/ u \in S
  BY DEF Ahead
<1>4. \A t, u, v, x : v \in S => Ahead(<<t, u, v, x>>, S)
  <2> TAKE t, u, v, x
  <2>1. 3 \in 1 .. Len(<<t, u, v, x>>) /\ <<t, u, v, x>>[3] = v
    OBVIOUS
  <2> QED
    BY <2>1 DEF Ahead
<1> QED
  BY <1>1, <1>2, <1>3, <1>4

LEMMA MutatedAtLast ==
  ASSUME NEW Y \in Seq(Tool), NEW z \in Tool \ Writes
  PROVE  Mutated(Y \o <<Finish, z>>)
<1>1. Finish \in Tool \ Writes
  BY DEF Tool, Tools, Git, Writes, Finish
<1> DEFINE Z == <<Finish, z>>
<1>2. Z \in Seq(Tool) /\ Len(Z) = 2 /\ Z[1] = Finish /\ Z[2] = z
  BY <1>1
<1> HIDE DEF Z
<1>3. /\ Len(Y \o Z) = Len(Y) + 2 /\ Len(Y) \in Nat
      /\ (Y \o Z)[Len(Y) + 1] = Finish /\ (Y \o Z)[Len(Y) + 2] = z
  <2>1. 1 \in 1 .. Len(Z) /\ 2 \in 1 .. Len(Z)
    BY <1>2
  <2>2. /\ Len(Y \o Z) = Len(Y) + Len(Z) /\ Len(Y) \in Nat
        /\ \A k \in 1 .. Len(Z) : (Y \o Z)[Len(Y) + k] = Z[k]
    <3>1. Z \in Seq(Tool)
      BY <1>2
    <3> QED
      BY ONLY <3>1, Concatenated, Y \in Seq(Tool)
  <2> QED
    BY <1>2, <2>2
<1>4. SUFFICES ASSUME NEW i \in 1 .. Len(Y \o Z), (Y \o Z)[i] \in Writes
               PROVE  \E j \in i + 1 .. Len(Y \o Z) : (Y \o Z)[j] = Finish
  BY DEF Mutated, Z
<1>5. i # Len(Y) + 1 /\ i # Len(Y) + 2
  BY <1>1, <1>3, <1>4
<1>6. Len(Y) + 1 \in i + 1 .. Len(Y \o Z)
  BY <1>3, <1>5
<1> QED
  BY <1>3, <1>6

LEMMA MutatedAfter ==
  ASSUME NEW U \in Seq(Tool), NEW V \in Seq(Tool), ~Ahead(U, Writes), Mutated(V)
  PROVE  Mutated(U \o V)
<1> SUFFICES ASSUME NEW i \in 1 .. Len(U \o V), (U \o V)[i] \in Writes
             PROVE  \E j \in i + 1 .. Len(U \o V) : (U \o V)[j] = Finish
  BY DEF Mutated
<1>1. Len(U) \in Nat /\ Len(V) \in Nat /\ Len(U \o V) = Len(U) + Len(V)
  BY Concatenated
<1>2. i - Len(U) \in 1 .. Len(V) /\ V[i - Len(U)] \in Writes
  BY Concatenated DEF Ahead
<1>3. PICK j \in (i - Len(U)) + 1 .. Len(V) : V[j] = Finish
  BY <1>2 DEF Mutated
<1>4. j \in 1 .. Len(V) /\ Len(U) + j \in i + 1 .. Len(U \o V)
  BY <1>1, <1>2, <1>3
<1>5. (U \o V)[Len(U) + j] = Finish
  BY <1>3, <1>4, Concatenated
<1> QED
  BY <1>4, <1>5

\* The tools of a list are known, and strings.
Tooled(s) == s \in Seq(Tools) /\ s \in Seq(Tool)

LEMMA TooledOnes ==
  /\ Tooled(<<>>)
  /\ \A t \in Tools : Tooled(<<t>>)
  /\ \A t, u \in Tools : Tooled(<<t, u>>)
  /\ \A s, t \in Seq(Tools) : s \in Seq(Tool) /\ t \in Seq(Tool) => Tooled(s \o t)
<1>1. \A t \in Tools : t \in Tool
  BY DEF Tools, Git, Tool
<1>2. Tooled(<<>>)
  BY DEF Tooled
<1>3. \A t \in Tools : Tooled(<<t>>)
  BY <1>1 DEF Tooled
<1>4. \A t, u \in Tools : Tooled(<<t, u>>)
  BY <1>1 DEF Tooled
<1>5. \A s, t \in Seq(Tools) : s \in Seq(Tool) /\ t \in Seq(Tool) => Tooled(s \o t)
  BY ConcatProperties DEF Tooled
<1> QED
  BY <1>2, <1>3, <1>4, <1>5

\* The cardinality that BuildJob speaks of is the one the library has facts about.
LEMMA JobCardinality == \A S : Cardinality(S) = Cardinality(S)
BY DEF Cardinality, Cardinality

LEMMA StepsSound ==
  ASSUME NEW d, IsFiniteSet(d.layers)
  PROVE  /\ Tooled(Steps(d)) /\ Steps(d) # <<>>
         /\ d.dockerfile \/ Mutated(Steps(d))
         /\ d.dockerfile \/ d.runtime => Ahead(Steps(d), Writes)
<1> DEFINE S == Steps(d)
<1>1. CASE d.dockerfile
  <2> DEFINE D == <<"docker build", "docker save", "crane push", "crane tag">>
  <2>1. S = D
    BY <1>1 DEF Steps, buildViaDockerfile
  <2>2. D \in Seq(Tools)
    BY DEF Tools
  <2>3. D \in Seq(Tool)
    BY DEF Tool, Tools, Git
  <2>4. D # <<>>
    OBVIOUS
  <2>5. Ahead(D, Writes)
    <3>1. "crane push" \in Writes
      BY DEF Writes
    <3> QED
      BY <3>1, AheadOnes
  <2> HIDE DEF S, D
  <2> QED
    BY <1>1, <2>1, <2>2, <2>3, <2>4, <2>5 DEF S, Tooled
<1>2. CASE ~d.dockerfile
  <2> DEFINE R == runBuildContainer(d)
             C == <<"capture">>
             U == R \o C
  <2>1. Tooled(C) /\ ~Ahead(C, Writes)
    <3>1. "capture" \in Tools /\ "capture" \notin Writes
      BY DEF Tools, Writes
    <3> QED
      BY <3>1, TooledOnes, AheadOnes
  <2>2. Tooled(R) /\ ~Ahead(R, Writes)
    <3>1. "docker run" \in Tools /\ "docker run" \notin Writes
      BY DEF Tools, Writes
    <3>2. R = <<>> \/ R = <<"docker run">>
      BY DEF runBuildContainer
    <3>3. CASE R = <<>>
      BY <3>3, TooledOnes, AheadOnes
    <3>4. CASE R = <<"docker run">>
      <4>1. Tooled(<<"docker run">>)
        BY <3>1, TooledOnes
      <4>2. ~Ahead(<<"docker run">>, Writes)
        BY <3>1, AheadOnes
      <4> QED
        BY <3>4, <4>1, <4>2
    <3> QED
      BY <3>2, <3>3, <3>4
  <2>3. Len(C) = 1
    OBVIOUS
  <2> HIDE DEF R, C
  <2>4. Tooled(U) /\ U # <<>> /\ ~Ahead(U, Writes)
    <3>1. Tooled(U) /\ ~Ahead(U, Writes)
      BY <2>1, <2>2, AheadConcat, TooledOnes DEF Tooled
    <3>2. Len(U) = Len(R) + Len(C) /\ Len(R) \in Nat
      BY <2>1, <2>2, Concatenated DEF Tooled
    <3>3. U # <<>>
      BY <2>3, <3>2
    <3> QED
      BY <3>1, <3>3
  <2>5. CASE ~d.runtime
    <3>1. S = U \o <<>>
      BY <1>2, <2>5 DEF Steps, R, C
    <3> HIDE DEF U, S
    <3>2. S = U
      BY <2>4, <3>1, ConcatEmptySeq DEF Tooled
    <3>3. Mutated(S)
      BY <2>4, <3>2 DEF Mutated, Ahead
    <3> QED
      BY <1>2, <2>4, <2>5, <3>2, <3>3 DEF S
  <2>6. CASE d.runtime
    <3> DEFINE T == IF d.copy = {} THEN <<>> ELSE <<"tar">>
               A == Appends(d)
               P == IF A = <<>> THEN <<"crane copy">> ELSE <<"crane push">>
               Y == T \o A \o P
               Z == <<"crane mutate", "crane tag">>
    <3>1. S = U \o (Y \o Z)
      BY <1>2, <2>6 DEF Steps, buildRuntimeImage, R, C
    <3>2. Tooled(A)
      <4>1. \A t \in Tools, n \in Nat : [i \in 1 .. n |-> t] \in Seq(Tools)
        OBVIOUS
      <4>2. "crane append" \in Tools
        BY DEF Tools
      <4>3. Cardinality(d.layers) + (IF d.copy = {} THEN 0 ELSE 1) \in Nat
        BY FS_CardinalityType
      <4>4. [i \in 1 .. Cardinality(d.layers) + (IF d.copy = {} THEN 0 ELSE 1) |-> "crane append"] \in Seq(Tools)
        BY <4>1, <4>2, <4>3, Zenon
      <4>5. A \in Seq(Tools)
        BY <4>4, JobCardinality DEF Appends
      <4>6. A \in Seq(Tool)
        BY <4>5, SeqMonotonic DEF Tool
      <4> QED
        BY <4>5, <4>6 DEF Tooled
    <3> HIDE DEF A
    <3>3. Tooled(T)
      BY TooledOnes DEF Tools
    <3>4. Tooled(P) /\ Ahead(P, Writes)
      <4>1. P = <<"crane copy">> \/ P = <<"crane push">>
        OBVIOUS
      <4>2. {"crane copy", "crane push"} \subseteq Tools \cap Writes
        BY DEF Tools, Writes
      <4> HIDE DEF P
      <4>3. Tooled(P)
        BY ONLY <4>1, <4>2, TooledOnes
      <4>4. Ahead(P, Writes)
        BY ONLY <4>1, <4>2, AheadOnes
      <4> QED
        BY <4>3, <4>4
    <3>5. Tooled(Z)
      BY TooledOnes DEF Tools
    <3> HIDE DEF T, P, U
    <3>6. Tooled(T \o A)
      BY <3>2, <3>3, TooledOnes DEF Tooled
    <3>7. Tooled(Y) /\ Ahead(Y, Writes)
      BY <3>4, <3>6, TooledOnes, AheadConcat DEF Tooled
    <3> HIDE DEF Y
    <3>8. Mutated(Y \o Z)
      <4>1. "crane tag" \in Tool \ Writes /\ Z = <<Finish, "crane tag">>
        BY DEF Tool, Tools, Git, Writes, Finish
      <4> HIDE DEF Z
      <4> QED
        BY <3>7, <4>1, MutatedAtLast DEF Tooled
    <3> HIDE DEF Z
    <3>9. Tooled(Y \o Z) /\ Ahead(Y \o Z, Writes)
      BY <3>5, <3>7, TooledOnes, AheadConcat DEF Tooled
    <3>10. Tooled(U \o (Y \o Z)) /\ Ahead(U \o (Y \o Z), Writes) /\ Mutated(U \o (Y \o Z))
      BY <2>4, <3>8, <3>9, TooledOnes, AheadConcat, MutatedAfter DEF Tooled
    <3>11. U \o (Y \o Z) # <<>>
      BY <3>10, AheadOnes
    <3> QED
      BY <3>1, <3>10, <3>11
  <2> QED
    BY <2>5, <2>6
<1> QED
  BY <1>1, <1>2

-----------------------------------------------------------------------------
\* The next step of a build.

LEMMA AheadNone ==
  ASSUME NEW T, NEW s \in Seq(T), NEW S, T \cap S = {}
  PROVE  ~Ahead(s, S)
BY ElementOfSeq DEF Ahead

LEMMA CloneHead ==
  ASSUME NEW b, NEW s, Cloning(b, s)
  PROVE  /\ s \in Seq(Git) /\ s # <<>> /\ Head(s) \in Git
         /\ Head(s) = "git ls-remote" => row[b].sha = Null
         /\ Head(s) \notin {"key", "git ls-remote"} => row[b].sha \in Commit
         /\ Head(s) \notin {"git ls-remote", "git checkout"} => Cloning(b, Tail(s)) /\ Tail(s) # <<>>
<1> DEFINE resolve == "git ls-remote"
           mkdir == "mkdir"
           banner == "banner"
           key == "key"
           init == "git init"
           remote == "git remote"
           fetch == "git fetch"
           checkout == "git checkout"
<1>1. {resolve, mkdir, banner, key, init, remote, fetch, checkout} = Git
  BY DEF Git
<1>2. /\ resolve \notin {mkdir, banner, key, init, remote, fetch, checkout}
      /\ checkout \notin {resolve, mkdir, banner, key, init, remote, fetch}
  OBVIOUS
<1>3. /\ Cloned(s) <=>
           \/ s = <<mkdir, banner, key, init, remote, fetch, checkout>>
           \/ s = <<banner, key, init, remote, fetch, checkout>>
           \/ s = <<key, init, remote, fetch, checkout>>
           \/ s = <<init, remote, fetch, checkout>>
           \/ s = <<remote, fetch, checkout>>
           \/ s = <<fetch, checkout>>
           \/ s = <<checkout>>
      /\ Resolve = <<key, resolve>>
  BY DEF Cloned, Clone, Resolve
<1>4. /\ row[b].sha = Null => Cloning(b, <<resolve>>)
      /\ row[b].sha \in Commit => Cloning(b, <<banner, key, init, remote, fetch, checkout>>)
      /\ row[b].sha \in Commit => Cloning(b, <<key, init, remote, fetch, checkout>>)
      /\ row[b].sha \in Commit => Cloning(b, <<init, remote, fetch, checkout>>)
      /\ row[b].sha \in Commit => Cloning(b, <<remote, fetch, checkout>>)
      /\ row[b].sha \in Commit => Cloning(b, <<fetch, checkout>>)
      /\ row[b].sha \in Commit => Cloning(b, <<checkout>>)
  BY DEF Cloning, Cloned
<1> DEFINE nulled == row[b].sha = Null
           known == row[b].sha \in Commit
<1>5. (nulled /\ (s = <<key, resolve>> \/ s = <<resolve>>)) \/ (known /\ Cloned(s))
  BY <1>3 DEF Cloning
<1> HIDE DEF resolve, mkdir, banner, key, init, remote, fetch, checkout
<1>6. CASE nulled /\ s = <<resolve>>
  <2>1. s \in Seq(Git) /\ s # <<>> /\ Head(s) = resolve
    BY <1>1, <1>6
  <2> QED
    BY <1>1, <1>6, <2>1 DEF resolve, key
<1>7. CASE nulled /\ s = <<key, resolve>>
  <2>1. s \in Seq(Git) /\ s # <<>> /\ Head(s) = key
    BY <1>1, <1>7
  <2>2. Tail(s) = <<resolve>> /\ Tail(s) # <<>>
    BY <1>7
  <2> QED
    BY <1>1, <1>2, <1>4, <1>7, <2>1, <2>2 DEF resolve, key, checkout
<1>8. CASE known /\ s = <<mkdir, banner, key, init, remote, fetch, checkout>>
  <2>1. s \in Seq(Git) /\ s # <<>> /\ Head(s) = mkdir
    BY <1>1, <1>8
  <2>2. Tail(s) = <<banner, key, init, remote, fetch, checkout>> /\ Tail(s) # <<>>
    BY <1>8
  <2> QED
    BY <1>1, <1>2, <1>4, <1>8, <2>1, <2>2 DEF resolve, checkout
<1>9. CASE known /\ s = <<banner, key, init, remote, fetch, checkout>>
  <2>1. s \in Seq(Git) /\ s # <<>> /\ Head(s) = banner
    BY <1>1, <1>9
  <2>2. Tail(s) = <<key, init, remote, fetch, checkout>> /\ Tail(s) # <<>>
    BY <1>9
  <2> QED
    BY <1>1, <1>2, <1>4, <1>9, <2>1, <2>2 DEF resolve, checkout
<1>10. CASE known /\ s = <<key, init, remote, fetch, checkout>>
  <2>1. s \in Seq(Git) /\ s # <<>> /\ Head(s) = key
    BY <1>1, <1>10
  <2>2. Tail(s) = <<init, remote, fetch, checkout>> /\ Tail(s) # <<>>
    BY <1>10
  <2> QED
    BY <1>1, <1>2, <1>4, <1>10, <2>1, <2>2 DEF resolve, checkout
<1>11. CASE known /\ s = <<init, remote, fetch, checkout>>
  <2>1. s \in Seq(Git) /\ s # <<>> /\ Head(s) = init
    BY <1>1, <1>11
  <2>2. Tail(s) = <<remote, fetch, checkout>> /\ Tail(s) # <<>>
    BY <1>11
  <2> QED
    BY <1>1, <1>2, <1>4, <1>11, <2>1, <2>2 DEF resolve, checkout
<1>12. CASE known /\ s = <<remote, fetch, checkout>>
  <2>1. s \in Seq(Git) /\ s # <<>> /\ Head(s) = remote
    BY <1>1, <1>12
  <2>2. Tail(s) = <<fetch, checkout>> /\ Tail(s) # <<>>
    BY <1>12
  <2> QED
    BY <1>1, <1>2, <1>4, <1>12, <2>1, <2>2 DEF resolve, checkout
<1>13. CASE known /\ s = <<fetch, checkout>>
  <2>1. s \in Seq(Git) /\ s # <<>> /\ Head(s) = fetch
    BY <1>1, <1>13
  <2>2. Tail(s) = <<checkout>> /\ Tail(s) # <<>>
    BY <1>13
  <2> QED
    BY <1>1, <1>2, <1>4, <1>13, <2>1, <2>2 DEF resolve, checkout
<1>14. CASE known /\ s = <<checkout>>
  <2>1. s \in Seq(Git) /\ s # <<>> /\ Head(s) = checkout
    BY <1>1, <1>14
  <2> QED
    BY <1>1, <1>2, <1>14, <2>1 DEF resolve, checkout
<1> QED
  BY <1>3, <1>5, <1>6, <1>7, <1>8, <1>9, <1>10, <1>11, <1>12, <1>13, <1>14

LEMMA CloneTyped == Clone \in Seq(Tool) /\ Resolve \in Seq(Tool) /\ Clone # <<>> /\ Resolve # <<>>
<1>1. Clone \in Seq(Git) /\ Resolve \in Seq(Git) /\ Clone # <<>> /\ Resolve # <<>>
  BY DEF Clone, Resolve, Git
<1>2. Git \subseteq Tool
  BY DEF Tool
<1> QED
  BY <1>1, <1>2

\* What follows the first of the steps.
LEMMA AheadTail ==
  ASSUME NEW s \in Seq(Tool), s # <<>>
  PROVE  /\ Head(s) \in Tool /\ Tail(s) \in Seq(Tool)
         /\ \A S : Ahead(s, S) <=> Head(s) \in S \/ Ahead(Tail(s), S)
         /\ Mutated(s) => Mutated(Tail(s)) /\ (Head(s) \in Writes => Ahead(Tail(s), {Finish}))
<1> DEFINE t == Tail(s)
<1>1. /\ Head(s) \in Tool /\ t \in Seq(Tool) /\ Len(t) = Len(s) - 1
      /\ \A i \in 1 .. Len(t) : t[i] = s[i + 1]
  BY HeadTailProperties
<1>2. Len(s) \in Nat \ {0} /\ Head(s) = s[1]
  BY EmptySeq
<1> HIDE DEF t
<1>3. \A i \in 1 .. Len(t) : i + 1 \in 1 .. Len(s)
  BY <1>1, <1>2
<1>4. \A i \in 1 .. Len(s) : i = 1 \/ (i - 1 \in 1 .. Len(t) /\ t[i - 1] = s[i])
  <2> TAKE i \in 1 .. Len(s)
  <2>1. CASE i # 1
    <3>1. i - 1 \in 1 .. Len(t) /\ (i - 1) + 1 = i
      BY <1>1, <1>2, <2>1
    <3> QED
      BY <1>1, <3>1
  <2> QED
    BY <2>1
<1>5. \A S : Ahead(s, S) <=> Head(s) \in S \/ Ahead(t, S)
  <2> TAKE S
  <2>1. ASSUME Ahead(s, S) PROVE Head(s) \in S \/ Ahead(t, S)
    BY <1>2, <1>4, <2>1 DEF Ahead
  <2>2. ASSUME Head(s) \in S PROVE Ahead(s, S)
    BY <1>2, <2>2 DEF Ahead
  <2>3. ASSUME Ahead(t, S) PROVE Ahead(s, S)
    BY <1>1, <1>3, <2>3 DEF Ahead
  <2> QED
    BY <2>1, <2>2, <2>3
<1>6. ASSUME Mutated(s) PROVE Mutated(t)
  <2> SUFFICES ASSUME NEW i \in 1 .. Len(t), t[i] \in Writes
               PROVE  \E j \in i + 1 .. Len(t) : t[j] = Finish
    BY DEF Mutated
  <2>1. i + 1 \in 1 .. Len(s) /\ s[i + 1] \in Writes
    BY <1>1, <1>3
  <2>2. PICK j \in (i + 1) + 1 .. Len(s) : s[j] = Finish
    BY <1>6, <2>1 DEF Mutated
  <2>3. j \in 1 .. Len(s) /\ j # 1 /\ j - 1 \in i + 1 .. Len(t)
    BY <1>1, <1>2, <2>2
  <2> QED
    BY <1>4, <2>2, <2>3
<1>7. ASSUME Mutated(s), Head(s) \in Writes PROVE Ahead(t, {Finish})
  <2>1. PICK j \in 1 + 1 .. Len(s) : s[j] = Finish
    BY <1>2, <1>7 DEF Mutated
  <2>2. j - 1 \in 1 .. Len(t) /\ t[j - 1] = Finish
    BY <1>1, <1>2, <1>4, <2>1
  <2> QED
    BY <2>2 DEF Ahead
<1> QED
  BY <1>1, <1>5, <1>6, <1>7 DEF t

LEMMA WorkerAtIt ==
  ASSUME JobInv, NEW w \in Worker, job[w] # Idle,
         NEW b, b = job[w].build, NEW s, s = job[w].steps
  PROVE  /\ b \in Build /\ row[b] \in JobRow /\ row[b].status = "running"
         /\ s \in Seq(Tool) /\ s # <<>>
         /\ Cloning(b, s) \/ Building(b, s)
         /\ Cloning(b, s) => Head(s) \in Git
         /\ Building(b, s) => Head(s) \in Tools
         /\ \A v \in Worker \ {w} : job[v].build # b
<1>1. AtIt(w) /\ JobShape /\ Alone
  BY DEF JobInv
<1>2. b \in Build /\ row[b] \in JobRow /\ row[b].status = "running" /\ s \in Seq(Tool)
  BY <1>1 DEF AtIt, JobShape
<1>3. Cloning(b, s) \/ Building(b, s)
  BY <1>1 DEF AtIt
<1>4. Building(b, s) => Head(s) \in Tools /\ s # <<>>
  BY HeadTailProperties DEF Building
<1> QED
  BY <1>1, <1>2, <1>3, <1>4, CloneHead DEF Alone

-----------------------------------------------------------------------------
\* What a step leaves in the registry.

Of(w) == job[w].build
Left(w) == job[w].steps

\* What build b writes with a tool.
Written(b, tool) == [by |-> b, whole |-> tool = Finish \/ Definition(b).dockerfile]

LEMMA WhatIsWritten ==
  ASSUME NEW b \in Build, NEW tool
  PROVE  /\ Written(b, tool) \in Image /\ Written(b, tool).by = b
         /\ Written(b, tool).whole <=> (tool = Finish \/ Definition(b).dockerfile)
<1> DEFINE whole == tool = Finish \/ Definition(b).dockerfile
<1>1. Written(b, tool) = [by |-> b, whole |-> whole] /\ whole \in BOOLEAN
  BY DEF Written
<1>2. Written(b, tool) \in Image /\ Written(b, tool).by = b /\ Written(b, tool).whole = whole
  <2> HIDE DEF whole
  <2> QED
    BY <1>1 DEF Image
<1> QED
  BY <1>2

LEMMA LandsWrote ==
  ASSUME JobInv, NEW w \in Worker, job[w] # Idle,
         NEW ok \in BOOLEAN, Lands(w, ok)
  PROVE  /\ Wrote(Of(w))
         /\ tag' # tag => /\ Building(Of(w), Left(w)) /\ Head(Left(w)) \in Writes \cup {Finish}
                          /\ tag' = [tag EXCEPT ![row[Of(w)].sha] = Written(Of(w), Head(Left(w)))]
         /\ ok /\ Building(Of(w), Left(w)) /\ Head(Left(w)) \in Writes \cup {Finish} =>
              tag' = [tag EXCEPT ![row[Of(w)].sha] = Written(Of(w), Head(Left(w)))]
<1>0. PICK b, s : b = Of(w) /\ s = Left(w)
  OBVIOUS
<1>a. b = job[w].build /\ s = job[w].steps
  BY <1>0 DEF Of, Left
<1> DEFINE tool == Head(s)
<1>1. b \in Build /\ (Cloning(b, s) \/ Building(b, s))
  BY <1>a, WorkerAtIt
<1>2. Cloning(b, s) => tool \notin Pushes
  BY CloneHead DEF Git, Pushes
<1>3. Pushes = Writes \cup {Finish, "crane tag"} /\ "crane tag" \notin Writes \cup {Finish}
  BY DEF Pushes, Writes, Finish
<1>4. CASE tool \notin Writes \cup {Finish}
  <2>1. tag' = tag
    BY <1>a, <1>3, <1>4 DEF Lands, Step
  <2> QED
    BY <1>0, <1>4, <2>1 DEF Wrote
<1>5. CASE tool \in Writes \cup {Finish}
  <2>1. Building(b, s) /\ row[b].sha \in Commit
    BY <1>1, <1>2, <1>3, <1>5 DEF Building
  <2> DEFINE x == Written(b, tool)
  <2>2. PICK whole \in BOOLEAN : x = [by |-> b, whole |-> whole]
    BY DEF Written
  <2>3. PICK arrived \in {TRUE, ok} : tag' = IF arrived THEN [tag EXCEPT ![row[b].sha] = x] ELSE tag
    BY <1>a, <1>3, <1>5 DEF Lands, Step, Written, Finish
  <2>4. ok => arrived
    BY <2>3
  <2> HIDE DEF x
  <2>5. Wrote(b)
    BY <2>1, <2>2, <2>3 DEF Wrote
  <2>6. tag' # tag \/ ok => tag' = [tag EXCEPT ![row[b].sha] = x]
    BY <2>3, <2>4
  <2> QED
    BY <1>0, <1>5, <2>1, <2>5, <2>6 DEF x
<1> QED
  BY <1>4, <1>5

\* Worker w's build ends without success.
LEMMA EndStep ==
  ASSUME JobInv, NEW w \in Worker, job[w] # Idle,
         NEW status \in {"failed", "running", "no_pipeline"},
         row' = [row EXCEPT ![Of(w)].status = status], job' = [job EXCEPT ![w] = Idle],
         Wrote(Of(w)), UNCHANGED <<repo, pipeline>>
  PROVE  JobInv'
<1> DEFINE b == job[w].build
           r == [row[b] EXCEPT !.status = status]
<1>1. /\ b \in Build /\ row[b] \in JobRow
      /\ \A v \in Worker \ {w} : job[v].build # b
  BY WorkerAtIt
<1>2. row \in [Build -> JobRow] /\ job \in [Worker -> [build : Nat, steps : Seq(Tool)]]
  BY DEF JobInv, JobShape
<1>3. r \in JobRow /\ r.status = status /\ r.sha = row[b].sha
  BY <1>1 DEF JobRow
<1>4. row' = [row EXCEPT ![b] = r] /\ job' = [job EXCEPT ![w] = Idle]
  BY <1>1, <1>2 DEF Of, JobRow
<1>5. Idle \in [build : Nat, steps : Seq(Tool)]
  BY DEF Idle
<1> HIDE DEF r, b
<1>6. Takes(w, b, r, Idle)
  BY <1>1, <1>3, <1>4, <1>5 DEF Takes
<1>7. AtIt(w)'
  BY <1>2, <1>4 DEF AtIt, Idle
<1> QED
  BY <1>1, <1>3, <1>6, <1>7, TakesStep DEF b, Of

\* The steps s are what is left of a definition when the tag is what it will be, ...
Built(b, s) ==
  LET d == Definition(b) IN
  /\ row[b].sha \in Commit /\ s \in Seq(Tools)
  /\ d.dockerfile \/ Mutated(s)
  /\ d.dockerfile \/ d.runtime => tag'[row[b].sha] # Null \/ Ahead(s, Writes)

\* ... and may follow, what b wrote being whole or about to be.
Due(b, s) ==
  /\ (s # <<>> /\ Cloning(b, s)) \/ Built(b, s)
  /\ \A c \in Commit : tag'[c] # Null /\ tag'[c].by = b /\ ~tag'[c].whole => Ahead(s, {Finish})

\* Worker w's build goes on with steps s, or succeeds if there are none.
LEMMA ProceedStep ==
  ASSUME JobInv, NEW w \in Worker, job[w] # Idle,
         NEW s \in Seq(Tool), Proceed(w, s), Wrote(Of(w)), UNCHANGED <<repo, pipeline>>,
         Due(Of(w), s)
  PROVE  JobInv'
<1>0. PICK b, d : b = Of(w) /\ d = Definition(b)
  OBVIOUS
<1>b. b = job[w].build
  BY <1>0 DEF Of
<1>a. /\ (s # <<>> /\ Cloning(b, s)) \/ Built(b, s)
      /\ \A c \in Commit : tag'[c] # Null /\ tag'[c].by = b /\ ~tag'[c].whole => Ahead(s, {Finish})
  BY <1>0 DEF Due
<1>1. /\ b \in Build /\ row[b] \in JobRow /\ row[b].status = "running"
      /\ \A v \in Worker \ {w} : job[v].build # b
  BY <1>b, WorkerAtIt
<1>2. row \in [Build -> JobRow] /\ job \in [Worker -> [build : Nat, steps : Seq(Tool)]]
  BY DEF JobInv, JobShape
<1>3. CASE s = <<>>
  <2> DEFINE image == d.dockerfile \/ d.runtime
             r == [row[b] EXCEPT !.status = "success", !.image = image]
  <2>1. row' = [row EXCEPT ![b].status = "success", ![b].image = image] /\ job' = [job EXCEPT ![w] = Idle]
    BY <1>0, <1>b, <1>3 DEF Proceed, Succeed, Finally
  <2>2. image \in BOOLEAN
    OBVIOUS
  <2>3. ~Ahead(s, {Finish}) /\ ~Ahead(s, Writes)
    BY <1>3, AheadOnes
  <2>4. image => row[b].sha \in Commit /\ tag'[row[b].sha] # Null
    BY <1>0, <1>3, <1>a, <2>3, CloneHead DEF Built
  <2> HIDE DEF image
  <2>5. r \in JobRow /\ r.status = "success" /\ r.sha = row[b].sha /\ r.image = image
    BY <1>1, <2>2 DEF JobRow
  <2>6. row' = [row EXCEPT ![b] = r]
    BY <1>1, <1>2, <2>1 DEF JobRow
  <2>7. Idle \in [build : Nat, steps : Seq(Tool)]
    BY DEF Idle
  <2> HIDE DEF r
  <2>8. Takes(w, b, r, Idle)
    BY <1>1, <2>1, <2>5, <2>6, <2>7 DEF Takes
  <2>9. AtIt(w)'
    BY <1>2, <2>1 DEF AtIt, Idle
  <2>10. \A c \in Commit : ~(tag'[c] # Null /\ tag'[c].by = b /\ ~tag'[c].whole)
    BY <1>a, <2>3
  <2> QED
    BY <1>0, <1>1, <2>4, <2>5, <2>8, <2>9, <2>10, TakesStep
<1>4. CASE s # <<>>
  <2> DEFINE j == [job[w] EXCEPT !.steps = s]
  <2>1. row' = row /\ job' = [job EXCEPT ![w].steps = s]
    BY <1>4 DEF Proceed
  <2>2. j \in [build : Nat, steps : Seq(Tool)] /\ j.build = b /\ j.steps = s /\ job' = [job EXCEPT ![w] = j]
    BY <1>b, <1>2, <2>1
  <2> HIDE DEF j
  <2>3. row' = [row EXCEPT ![b] = row[b]]
    BY <1>1, <1>2, <2>1
  <2>4. Takes(w, b, row[b], j)
    BY <1>1, <2>2, <2>3 DEF Takes
  <2>5. job'[w] = j
    BY <1>2, <2>2
  <2>6. Definition(b)' = d
    BY <1>0, <2>1 DEF Definition, Selected
  <2>7. Cloning(b, s) => Cloning(b, s)'
    BY <2>1 DEF Cloning
  <2>8. AtIt(w)'
    <3>1. CASE Cloning(b, s)
      BY <1>1, <2>1, <2>2, <2>5, <2>7, <3>1 DEF AtIt, Build
    <3>2. CASE Built(b, s)
      <4>1. Building(b, s)'
        BY <1>0, <1>4, <2>1, <2>6, <3>2 DEF Built, Building, Mutated, Ahead
      <4> QED
        BY <1>1, <2>1, <2>2, <2>5, <4>1 DEF AtIt, Build
    <3> QED
      BY <1>a, <3>1, <3>2
  <2>9. row[b].status # "success"
    BY <1>1
  <2> QED
    BY <1>0, <1>1, <1>a, <2>2, <2>4, <2>8, <2>9, TakesStep
<1> QED
  BY <1>3, <1>4

\* Worker w takes build b to steps that come before anything is built.
LEMMA ClonesStep ==
  ASSUME JobInv, NEW w \in Worker, NEW b \in Build, NEW r \in JobRow,
         r.status = "running", row[b].sha # Null => r.sha = row[b].sha,
         \A v \in Worker \ {w} : job[v].build # b,
         \A c \in Commit : ~(tag[c] # Null /\ tag[c].by = b /\ ~tag[c].whole),
         NEW s \in Seq(Tool), Cloning(b, s)',
         row' = [row EXCEPT ![b] = r], job' = [job EXCEPT ![w] = [build |-> b, steps |-> s]],
         UNCHANGED <<repo, pipeline, tag>>
  PROVE  JobInv'
<1> DEFINE j == [build |-> b, steps |-> s]
<1>1. row \in [Build -> JobRow] /\ job \in [Worker -> [build : Nat, steps : Seq(Tool)]]
  BY DEF JobInv, JobShape
<1>2. j \in [build : Nat, steps : Seq(Tool)] /\ j.build = b /\ j.steps = s
  BY JobAssumption DEF Build
<1>3. job' = [job EXCEPT ![w] = j]
  OBVIOUS
<1> HIDE DEF j
<1>4. Takes(w, b, r, j)
  BY <1>2, <1>3 DEF Takes
<1>5. job'[w] = j /\ row'[b] = r
  BY <1>1, <1>3
<1>6. AtIt(w)'
  BY <1>2, <1>5 DEF AtIt, Build
<1>7. Wrote(b)
  BY DEF Wrote
<1> QED
  BY <1>4, <1>6, <1>7, TakesStep

\* The step of a build that is under way is done, and the next one is due.
LEMMA TailStep ==
  ASSUME JobInv, NEW w \in Worker, job[w] # Idle,
         Head(Left(w)) \notin {"git ls-remote", "git checkout"}, Proceed(w, Tail(Left(w))),
         NEW ok \in BOOLEAN, ok \/ Head(Left(w)) = "crane tag", Lands(w, ok),
         UNCHANGED <<repo, pipeline>>
  PROVE  JobInv'
<1>0. PICK b, s, t, d : b = Of(w) /\ s = Left(w) /\ t = Tail(s) /\ d = Definition(b)
  OBVIOUS
<1>a. b = job[w].build /\ s = job[w].steps
  BY <1>0 DEF Of, Left
<1>1. /\ b \in Build /\ s \in Seq(Tool) /\ s # <<>>
      /\ Cloning(b, s) \/ Building(b, s)
  BY <1>a, WorkerAtIt
<1>2. /\ Wrote(b)
      /\ tag' # tag => /\ Building(b, s) /\ Head(s) \in Writes \cup {Finish}
                       /\ tag' = [tag EXCEPT ![row[b].sha] = Written(b, Head(s))]
      /\ ok /\ Building(b, s) /\ Head(s) \in Writes \cup {Finish} =>
           tag' = [tag EXCEPT ![row[b].sha] = Written(b, Head(s))]
  BY <1>0, LandsWrote
<1>3. /\ t \in Seq(Tool)
      /\ \A S : Ahead(s, S) <=> Head(s) \in S \/ Ahead(t, S)
      /\ Mutated(s) => Mutated(t) /\ (Head(s) \in Writes => Ahead(t, {Finish}))
  BY <1>0, <1>1, AheadTail
<1>4. tag \in [Commit -> Image \cup {Null}] /\ Null \notin Image /\ \A c \in Commit : TagOK(c)
  BY JobAssumption DEF JobInv, JobShape
<1>5. "crane tag" \notin Writes \cup {Finish} /\ Finish \notin Writes
  BY DEF Writes, Finish
<1>6. Written(b, Head(s)) \in Image
  BY <1>1, WhatIsWritten
<1>7. ASSUME NEW c \in Commit, tag'[c] # Null, tag'[c].by = b, ~tag'[c].whole
      PROVE  Ahead(t, {Finish})
  <2>1. CASE tag'[c] = tag[c]
    <3>1. row[b].sha = c /\ Ahead(s, {Finish})
      BY <1>a, <1>4, <1>7, <2>1 DEF TagOK
    <3>2. ASSUME Head(s) = Finish PROVE FALSE
      <4>1. Building(b, s)
        BY <1>1, <3>2, CloneHead DEF Git, Finish
      <4>2. tag'[c] = Written(b, Finish)
        BY <1>0, <1>2, <1>4, <1>5, <3>1, <3>2, <4>1
      <4> QED
        BY <1>1, <1>7, <4>2, WhatIsWritten
    <3> QED
      BY <1>3, <3>1, <3>2
  <2>2. CASE tag'[c] # tag[c]
    <3>1. Building(b, s) /\ Head(s) \in Writes \cup {Finish} /\ tag'[c] = Written(b, Head(s))
      BY <1>2, <1>4, <2>2
    <3>2. Head(s) # Finish /\ ~d.dockerfile
      BY <1>0, <1>1, <1>7, <3>1, WhatIsWritten
    <3> QED
      BY <1>0, <1>3, <3>1, <3>2 DEF Building
  <2> QED
    BY <2>1, <2>2
<1>8. (t # <<>> /\ Cloning(b, t)) \/ Built(b, t)
  <2>1. CASE Cloning(b, s)
    BY <1>0, <2>1, CloneHead
  <2>2. CASE Building(b, s)
    <3>1. t \in Seq(Tools)
      BY <1>0, <1>1, <2>2, HeadTailProperties DEF Building
    <3>2. d.dockerfile \/ Mutated(t)
      BY <1>0, <1>3, <2>2 DEF Building
    <3>3. ASSUME d.dockerfile \/ d.runtime PROVE tag'[row[b].sha] # Null \/ Ahead(t, Writes)
      <4>1. tag[row[b].sha] # Null \/ Ahead(s, Writes)
        BY <1>0, <2>2, <3>3 DEF Building
      <4>2. row[b].sha \in Commit
        BY <2>2 DEF Building
      <4>3. CASE tag[row[b].sha] # Null
        BY <1>2, <1>4, <1>6, <4>2, <4>3
      <4>4. CASE Head(s) \in Writes
        <5>1. tag' = [tag EXCEPT ![row[b].sha] = Written(b, Head(s))]
          BY <1>0, <1>2, <1>5, <2>2, <4>4
        <5> QED
          BY <1>4, <1>6, <4>2, <5>1
      <4> QED
        BY <1>3, <4>1, <4>3, <4>4
    <3> QED
      BY <1>0, <2>2, <3>1, <3>2, <3>3 DEF Building, Built
  <2> QED
    BY <1>1, <2>1, <2>2
<1>9. Due(b, t)
  BY <1>7, <1>8 DEF Due
<1> QED
  BY <1>0, <1>2, <1>3, <1>9, ProceedStep

\* End and Finally leave as much of the state as EndStep asks for.
LEMMA EndLeaves ==
  ASSUME NEW w, NEW status, End(w, status)
  PROVE  row' = [row EXCEPT ![Of(w)].status = status] /\ job' = [job EXCEPT ![w] = Idle]
BY DEF End, Set, Finally, Of

\* A build that clones has written nothing that waits for its entrypoint.
LEMMA CloningWroteNone ==
  ASSUME JobInv, NEW w \in Worker, Cloning(Of(w), Left(w))
  PROVE  \A c \in Commit : ~(tag[c] # Null /\ tag[c].by = Of(w) /\ ~tag[c].whole)
<1>1. Git \cap {Finish} = {}
  BY DEF Git, Finish
<1>2. Left(w) \in Seq(Git)
  BY CloneHead
<1>3. ~Ahead(Left(w), {Finish})
  BY <1>1, <1>2, AheadNone
<1> QED
  BY <1>3 DEF JobInv, TagOK, Of, Left

LEMMA JobFinite == \A S : IsFiniteSet(S) <=> IsFiniteSet(S)
BY DEF IsFiniteSet, IsFiniteSet

\* The checkout is done: kaiad.yaml decides how the build goes on.
LEMMA PlannedStep ==
  ASSUME JobInv, NEW w \in Worker, job[w] # Idle,
         Head(Left(w)) = "git checkout", Planned(w), UNCHANGED <<repo, pipeline, tag>>
  PROVE  JobInv'
<1>0. PICK b, s, f, d : b = Of(w) /\ s = Left(w) /\ f = repo[row[b].sha] /\ d = Definition(b)
  OBVIOUS
<1>a. b = job[w].build /\ s = job[w].steps
  BY <1>0 DEF Of, Left
<1>1. /\ b \in Build /\ s \in Seq(Tool) /\ s # <<>>
      /\ Cloning(b, s) \/ Building(b, s)
      /\ Building(b, s) => Head(s) \in Tools
  BY <1>a, WorkerAtIt
<1>2. Cloning(b, s) /\ row[b].sha \in Commit
  <2>1. Head(s) \notin Tools
    BY <1>0 DEF Tools
  <2> QED
    BY <1>0, <1>1, <2>1, CloneHead
<1>3. \A c \in Commit : ~(tag[c] # Null /\ tag[c].by = b /\ ~tag[c].whole)
  BY <1>0, <1>2, CloningWroteNone
<1>4. Wrote(Of(w))
  BY DEF Wrote
<1>5. CASE \E status \in {"failed", "no_pipeline"} : End(w, status)
  <2>1. PICK status \in {"failed", "no_pipeline"} : End(w, status)
    BY <1>5
  <2> QED
    <3>1. row' = [row EXCEPT ![Of(w)].status = status] /\ job' = [job EXCEPT ![w] = Idle]
      BY <2>1, EndLeaves
    <3>2. status \in {"failed", "running", "no_pipeline"}
      BY <2>1
    <3> QED
      BY <1>4, <3>1, <3>2, EndStep
<1>6. CASE /\ parsePipelineYaml(f) /\ selectPipeline(f)
           /\ Proceed(w, Steps(d))
  <2>1. f \in File
    BY <1>0, <1>2 DEF JobInv, JobShape
  <2>2. d = f.services[Selected(f)]
    BY <1>0 DEF Definition
  <2>3. d \in Pipelines(f)
    <3>1. Selected(f) \in DOMAIN f.services
      <4>1. CASE f.form = "single"
        BY <2>1, <4>1, FileAssumption DEF Selected
      <4>2. CASE f.form # "single"
        BY <1>6, <4>2 DEF selectPipeline, Selected
      <4> QED
        BY <4>1, <4>2
    <3> QED
      BY <2>2, <3>1 DEF Pipelines
  <2>4. IsFiniteSet(d.layers)
    BY <2>1, <2>3, JobFinite, FileAssumption
  <2>5. PICK t : t = Steps(d)
    OBVIOUS
  <2>6. /\ Tooled(t) /\ t # <<>>
        /\ d.dockerfile \/ Mutated(t)
        /\ d.dockerfile \/ d.runtime => Ahead(t, Writes)
    BY <2>4, <2>5, StepsSound
  <2>7. Built(b, t)
    BY <1>0, <1>2, <2>6 DEF Built, Tooled
  <2>8. Due(b, t)
    BY <1>3, <2>7 DEF Due
  <2> QED
    BY <1>0, <1>4, <1>6, <2>5, <2>6, <2>8, ProceedStep DEF Tooled
<1>7. \/ \E status \in {"failed", "no_pipeline"} : End(w, status)
      \/ /\ parsePipelineYaml(f) /\ selectPipeline(f)
         /\ Proceed(w, Steps(d))
  BY <1>0, <1>a DEF Planned
<1> QED
  BY <1>5, <1>6, <1>7

\* The head of the branch is known, or the build fails.
LEMMA ResolveStep ==
  ASSUME JobInv, NEW w \in Worker, job[w] # Idle,
         Head(Left(w)) = "git ls-remote", NEW ok \in BOOLEAN, ResolveHead(w, ok),
         UNCHANGED <<repo, pipeline, tag>>
  PROVE  JobInv'
<1>0. PICK b, s : b = Of(w) /\ s = Left(w)
  OBVIOUS
<1>a. b = job[w].build /\ s = job[w].steps
  BY <1>0 DEF Of, Left
<1>1. /\ b \in Build /\ row[b] \in JobRow /\ row[b].status = "running"
      /\ Cloning(b, s) \/ Building(b, s)
      /\ Building(b, s) => Head(s) \in Tools
      /\ \A v \in Worker \ {w} : job[v].build # b
  BY <1>a, WorkerAtIt
<1>2. Cloning(b, s) /\ row[b].sha = Null
  <2>1. Head(s) \notin Tools
    BY <1>0 DEF Tools
  <2> QED
    BY <1>0, <1>1, <2>1, CloneHead
<1>3. CASE End(w, "failed")
  <2>1. Wrote(Of(w))
    BY DEF Wrote
  <2> QED
    BY <1>3, <2>1, EndLeaves, EndStep
<1>4. CASE \E c \in Commit : row' = [row EXCEPT ![b].sha = c] /\ job' = [job EXCEPT ![w].steps = Clone]
  <2>1. PICK c, r : /\ c \in Commit /\ r = [row[b] EXCEPT !.sha = c]
                    /\ row' = [row EXCEPT ![b].sha = c] /\ job' = [job EXCEPT ![w].steps = Clone]
    BY <1>4
  <2>2. r \in JobRow /\ r.status = "running" /\ r.sha = c
    BY <1>1, <2>1 DEF JobRow
  <2>3. \A a \in Commit : ~(tag[a] # Null /\ tag[a].by = b /\ ~tag[a].whole)
    BY <1>0, <1>2, CloningWroteNone
  <2>4. row \in [Build -> JobRow] /\ job \in [Worker -> [build : Nat, steps : Seq(Tool)]]
    BY DEF JobInv, JobShape
  <2>5. row' = [row EXCEPT ![b] = r]
    BY <1>1, <2>1, <2>4 DEF JobRow
  <2>6. PICK begin : begin = Clone
    OBVIOUS
  <2>7. job' = [job EXCEPT ![w] = [build |-> b, steps |-> begin]]
    <3>1. [job[w] EXCEPT !.steps = begin] = [build |-> b, steps |-> begin]
      BY <1>a, <2>4, RecordSteps
    <3>2. job' = [job EXCEPT ![w] = [job[w] EXCEPT !.steps = begin]]
      BY <2>1, <2>6, Zenon
    <3> QED
      BY <3>1, <3>2, Zenon
  <2>8. Cloning(b, begin)'
    BY <1>1, <2>1, <2>2, <2>4, <2>5, <2>6 DEF Cloning, Cloned
  <2>9. begin \in Seq(Tool)
    BY <2>6, CloneTyped
  <2> QED
    BY <1>1, <1>2, <2>2, <2>3, <2>5, <2>7, <2>8, <2>9, ClonesStep
<1> QED
  BY <1>0, <1>3, <1>4 DEF ResolveHead, Of

\* A tool has closed: Exits, TimesOut and ChildEnds.
LEMMA CloseStep ==
  ASSUME JobInv, NEW w \in Worker, job[w] # Idle,
         NEW ok \in BOOLEAN, Close(w, ok)
  PROVE  JobInv'
<1>1. Continue(w, ok) /\ Lands(w, ok) /\ UNCHANGED <<repo, pipeline>>
  BY DEF Close, given
<1>2. Wrote(Of(w))
  BY <1>1, LandsWrote
<1>3. Head(Left(w)) = Step(w) /\ Left(w) = job[w].steps
  BY DEF Step, Left
<1>4. Step(w) \in {"git ls-remote", "git checkout"} => tag' = tag
  BY <1>1 DEF Lands, Pushes
<1>5. CASE Step(w) = "git ls-remote"
  BY <1>1, <1>3, <1>4, <1>5, ResolveStep DEF Continue
<1>6. CASE Step(w) # "git ls-remote" /\ ~ok /\ Step(w) \notin Light
  BY <1>1, <1>2, <1>6, EndLeaves, EndStep DEF Continue
<1>7. CASE Step(w) = "git checkout" /\ ~(~ok /\ Step(w) \notin Light)
  BY <1>1, <1>3, <1>4, <1>7, PlannedStep DEF Continue
<1>8. CASE Step(w) \notin {"git ls-remote", "git checkout"} /\ ~(~ok /\ Step(w) \notin Light)
  <2>1. Proceed(w, Tail(Left(w))) /\ (ok \/ Head(Left(w)) = "crane tag")
    BY <1>1, <1>3, <1>8 DEF Continue, Light
  <2> QED
    BY <1>1, <1>3, <1>8, <2>1, TailStep
<1> QED
  BY <1>5, <1>6, <1>7, <1>8

LEMMA CaptureStep ==
  ASSUME JobInv, NEW w \in Worker, Capture(w)
  PROVE  JobInv'
<1>1. /\ job[w] # Idle /\ Step(w) = "capture"
      /\ Proceed(w, Tail(job[w].steps)) \/ End(w, "failed")
      /\ UNCHANGED <<repo, pipeline, tag, latest>>
  BY DEF Capture, AtStep, given
<1>2. CASE Proceed(w, Tail(job[w].steps))
  <2>1. Lands(w, TRUE)
    BY <1>1 DEF Lands, Pushes
  <2>2. Head(Left(w)) \notin {"git ls-remote", "git checkout"} /\ Left(w) = job[w].steps
    BY <1>1 DEF Step, Left
  <2> QED
    BY <1>1, <1>2, <2>1, <2>2, TailStep
<1>3. CASE End(w, "failed")
  <2>1. Wrote(Of(w))
    BY <1>1 DEF Wrote
  <2> QED
    BY <1>1, <1>3, <2>1, EndLeaves, EndStep
<1> QED
  BY <1>1, <1>2, <1>3

LEMMA ClaimStep ==
  ASSUME JobInv, NEW w \in Worker, Claim(w)
  PROVE  JobInv'
<1>1. PICK b \in Oldest :
        /\ row' = [row EXCEPT ![b].status = "running"]
        /\ job' = [job EXCEPT ![w] = [build |-> b, steps |-> IF row[b].sha = Null THEN Resolve ELSE Clone]]
  BY DEF Claim
<1>2. job[w] = Idle /\ UNCHANGED <<repo, pipeline, tag>>
  BY DEF Claim, given
<1>3. b \in Build /\ row[b].status = "queued" /\ row[b] \in JobRow
  BY DEF Oldest, JobInv, JobShape
<1>4. \A v \in Worker : job[v].build # b
  BY <1>3, IdleHasNone DEF JobInv, AtIt
<1>5. \A c \in Commit : ~(tag[c] # Null /\ tag[c].by = b /\ ~tag[c].whole)
  BY <1>3 DEF JobInv, TagOK
<1>6. row \in [Build -> JobRow]
  BY DEF JobInv, JobShape
<1>7. PICK r, s : /\ r = [row[b] EXCEPT !.status = "running"]
                  /\ s = IF row[b].sha = Null THEN Resolve ELSE Clone
  OBVIOUS
<1>8. r \in JobRow /\ r.status = "running" /\ r.sha = row[b].sha
  BY <1>3, <1>7 DEF JobRow
<1>9. row' = [row EXCEPT ![b] = r]
  BY <1>1, <1>3, <1>6, <1>7 DEF JobRow
<1>10. s \in Seq(Tool)
  BY <1>7, CloneTyped
<1>11. row'[b] = r /\ (r.sha = Null \/ r.sha \in Commit)
  BY <1>3, <1>6, <1>8, <1>9 DEF JobRow
<1>12. Cloning(b, s)'
  BY <1>7, <1>8, <1>11 DEF Cloning, Cloned
<1>13. job' = [job EXCEPT ![w] = [build |-> b, steps |-> s]]
  BY <1>1, <1>7
<1> QED
  BY <1>2, <1>3, <1>4, <1>5, <1>8, <1>9, <1>10, <1>12, <1>13, ClonesStep

\* The worker's own steps before the tools: directories, banner and key.
LEMMA GoesOnStep ==
  ASSUME JobInv, NEW w \in Worker, AtStep(w, {"mkdir", "banner", "key"}), GoOn(w),
         UNCHANGED <<repo, pipeline, row, tag>>
  PROVE  JobInv'
<1>0. PICK b, s, t : b = job[w].build /\ s = job[w].steps /\ t = Tail(s)
  OBVIOUS
<1>1. job[w] # Idle /\ Head(s) \in {"mkdir", "banner", "key"}
  BY <1>0 DEF AtStep, Step
<1>2. /\ b \in Build /\ row[b] \in JobRow /\ row[b].status = "running"
      /\ s \in Seq(Tool) /\ s # <<>>
      /\ Cloning(b, s) \/ Building(b, s)
      /\ Building(b, s) => Head(s) \in Tools
      /\ \A v \in Worker \ {w} : job[v].build # b
  BY <1>0, <1>1, WorkerAtIt
<1>3. Head(s) \notin Tools /\ Head(s) \notin {"git ls-remote", "git checkout"}
  BY <1>1 DEF Tools
<1>4. Cloning(b, s) /\ Cloning(b, t)
  BY <1>0, <1>2, <1>3, CloneHead
<1>5. \A c \in Commit : ~(tag[c] # Null /\ tag[c].by = b /\ ~tag[c].whole)
  BY <1>0, <1>4, CloningWroteNone DEF Of, Left
<1>6. row \in [Build -> JobRow] /\ job \in [Worker -> [build : Nat, steps : Seq(Tool)]]
  BY DEF JobInv, JobShape
<1>7. t \in Seq(Tool)
  BY <1>0, <1>2, HeadTailProperties
<1>8. job' = [job EXCEPT ![w] = [build |-> b, steps |-> t]]
  <2>1. [job[w] EXCEPT !.steps = t] = [build |-> b, steps |-> t]
    BY <1>0, <1>6, RecordSteps
  <2>2. job' = [job EXCEPT ![w] = [job[w] EXCEPT !.steps = t]]
    BY <1>0, Zenon DEF GoOn
  <2> QED
    BY <2>1, <2>2, Zenon
<1>9. row' = [row EXCEPT ![b] = row[b]]
  BY <1>2, <1>6
<1>10. Cloning(b, t)'
  BY <1>4 DEF Cloning
<1> QED
  BY <1>2, <1>5, <1>7, <1>8, <1>9, <1>10, ClonesStep

-----------------------------------------------------------------------------
\* Only a worker with a build has a tool.

Tooling == {"none", "runs", "killed"}

Busy ==
  /\ proc \in [Worker -> Tooling]
  /\ \A w \in Worker : proc[w] # "none" => job[w] # Idle

LEMMA DiesStep ==
  ASSUME JobInv, Busy, NEW w \in Worker, Dies(w)
  PROVE  JobInv'
<1>1. /\ job' = [job EXCEPT ![w] = Idle] /\ UNCHANGED <<repo, pipeline, row>>
      /\ IF proc[w] = "runs" THEN Lands(w, FALSE) ELSE UNCHANGED <<tag, latest>>
  BY DEF Dies, given
<1>2. row \in [Build -> JobRow] /\ job \in [Worker -> [build : Nat, steps : Seq(Tool)]]
  BY DEF JobInv, JobShape
<1>3. CASE job[w] = Idle
  <2>1. UNCHANGED <<repo, pipeline, row, job, tag>>
    BY <1>1, <1>2, <1>3 DEF Busy
  <2> QED
    BY <2>1, JobUnchanged
<1>4. CASE job[w] # Idle
  <2>1. Of(w) \in Build /\ row[Of(w)] \in JobRow /\ row[Of(w)].status = "running"
    BY <1>4, WorkerAtIt DEF Of
  <2>2. row' = [row EXCEPT ![Of(w)].status = "running"]
    BY <1>1, <1>2, <2>1 DEF JobRow
  <2>3. Wrote(Of(w))
    BY <1>1, <1>4, LandsWrote DEF Wrote
  <2> QED
    BY <1>1, <1>4, <2>2, <2>3, EndStep
<1> QED
  BY <1>3, <1>4

LEMMA ProceedKeepsBusy ==
  ASSUME JobInv, Busy, NEW w \in Worker, job[w] # Idle,
         NEW s, Proceed(w, s)
  PROVE  Busy'
<1>1. job \in [Worker -> [build : Nat, steps : Seq(Tool)]] /\ proc \in [Worker -> Tooling]
  BY DEF JobInv, JobShape, Busy
<1>2. CASE s = <<>>
  <2>1. job' = [job EXCEPT ![w] = Idle] /\ proc' = [proc EXCEPT ![w] = "none"]
    BY <1>2 DEF Proceed, Succeed, Finally
  <2> QED
    BY <1>1, <2>1 DEF Busy, Tooling, Idle
<1>3. CASE s # <<>>
  <2>1. PICK kind \in Tooling :
          job' = [job EXCEPT ![w].steps = s] /\ proc' = [proc EXCEPT ![w] = kind]
    BY <1>3 DEF Proceed, Tooling
  <2>2. job'[w].steps = s /\ Idle.steps = <<>>
    BY <1>1, <2>1 DEF Idle
  <2>3. job'[w] # Idle
    BY <1>3, <2>2
  <2>4. \A v \in Worker \ {w} : job'[v] = job[v] /\ proc'[v] = proc[v]
    BY <1>1, <2>1
  <2>5. proc' \in [Worker -> Tooling]
    BY <1>1, <2>1
  <2> QED
    BY <2>3, <2>4, <2>5 DEF Busy, Tooling, Idle
<1> QED
  BY <1>2, <1>3

\* The other steps of a build: it ends, or starts over, or its worker is free.
LEMMA MovesKeepBusy ==
  ASSUME JobInv, Busy, NEW w \in Worker, NEW j, NEW kind \in Tooling,
         job' = [job EXCEPT ![w] = j], proc' = [proc EXCEPT ![w] = kind],
         kind # "none" => j # Idle
  PROVE  Busy'
<1>1. job \in [Worker -> [build : Nat, steps : Seq(Tool)]] /\ proc \in [Worker -> Tooling]
  BY DEF JobInv, JobShape, Busy
<1>2. job'[w] = j /\ proc'[w] = kind /\ proc' \in [Worker -> Tooling]
  BY <1>1
<1>3. \A v \in Worker \ {w} : job'[v] = job[v] /\ proc'[v] = proc[v]
  BY <1>1
<1> QED
  BY <1>2, <1>3 DEF Busy, Tooling, Idle

LEMMA EndKeepsBusy ==
  ASSUME JobInv, Busy, NEW w \in Worker, NEW status, End(w, status)
  PROVE  Busy'
<1>1. job' = [job EXCEPT ![w] = Idle] /\ proc' = [proc EXCEPT ![w] = "none"]
  BY DEF End, Finally
<1> QED
  BY <1>1, MovesKeepBusy DEF Tooling

\* A worker that goes on with some steps of its build still has it.
LEMMA StepsKeepBusy ==
  ASSUME JobInv, Busy, NEW w \in Worker, job[w] # Idle, NEW s, NEW kind \in Tooling,
         job' = [job EXCEPT ![w].steps = s], proc' = [proc EXCEPT ![w] = kind]
  PROVE  Busy'
<1>1. job \in [Worker -> [build : Nat, steps : Seq(Tool)]]
  BY DEF JobInv, JobShape
<1>2. PICK j : j = [job[w] EXCEPT !.steps = s]
  OBVIOUS
<1>3. job' = [job EXCEPT ![w] = j] /\ j.build = job[w].build
  BY <1>1, <1>2
<1>4. job[w].build \in Build
  BY WorkerAtIt
<1>5. j # Idle
  BY <1>3, <1>4, IdleHasNone
<1> QED
  BY <1>3, <1>5, MovesKeepBusy

LEMMA CloseKeepsBusy ==
  ASSUME JobInv, Busy, NEW w \in Worker, job[w] # Idle,
         NEW ok, Close(w, ok)
  PROVE  Busy'
<1>1. \/ ResolveHead(w, ok) \/ Planned(w)
      \/ \E status : End(w, status)
      \/ \E s : Proceed(w, s)
  BY DEF Close, Continue
<1>2. CASE ResolveHead(w, ok)
  BY <1>2, EndKeepsBusy, StepsKeepBusy DEF ResolveHead, Tooling
<1>3. CASE Planned(w)
  BY <1>3, EndKeepsBusy, ProceedKeepsBusy DEF Planned
<1> QED
  BY <1>1, <1>2, <1>3, EndKeepsBusy, ProceedKeepsBusy

LEMMA BusyStep ==
  ASSUME JobInv, Busy, Next
  PROVE  Busy'
<1>1. ASSUME NEW w \in Worker, Claim(w) PROVE Busy'
  <2>1. PICK b, s : b \in Oldest /\ job' = [job EXCEPT ![w] = [build |-> b, steps |-> s]]
    BY <1>1 DEF Claim
  <2>2. b \in Build /\ proc' = proc /\ proc \in [Worker -> Tooling]
    BY <1>1, <2>1 DEF Oldest, Claim, Busy
  <2>3. proc' = [proc EXCEPT ![w] = proc[w]] /\ proc[w] \in Tooling
    BY <2>2
  <2>4. PICK j : j = [build |-> b, steps |-> s]
    OBVIOUS
  <2>5. j.build = b
    BY <2>4
  <2>6. j # Idle
    BY <2>2, <2>5, IdleHasNone
  <2> QED
    BY <2>1, <2>3, <2>4, <2>6, MovesKeepBusy
<1>2. ASSUME NEW w \in Worker, Exits(w) \/ ChildEnds(w) PROVE Busy'
  <2>1. job[w] # Idle
    BY <1>2 DEF Exits, ChildEnds, Busy
  <2> QED
    BY <1>2, <2>1, CloseKeepsBusy DEF Exits, ChildEnds
<1>3. ASSUME NEW w \in Worker, TimesOut(w) PROVE Busy'
  <2>1. job[w] # Idle
    BY <1>3 DEF TimesOut, Busy
  <2>2. CASE Close(w, FALSE)
    BY <2>1, <2>2, CloseKeepsBusy
  <2>3. CASE job' = job /\ proc' = [proc EXCEPT ![w] = "killed"]
    BY <2>1, <2>3 DEF Busy, Tooling, Idle
  <2> QED
    BY <1>3, <2>2, <2>3 DEF TimesOut
<1>4. ASSUME NEW w \in Worker, Capture(w) PROVE Busy'
  BY <1>4, EndKeepsBusy, ProceedKeepsBusy DEF Capture, AtStep
<1>5. ASSUME NEW w \in Worker, Throws(w) PROVE Busy'
  BY <1>5, EndKeepsBusy DEF Throws
<1>8. ASSUME NEW w \in Worker, ThrowsEarly(w) \/ ThrowsWithKey(w) PROVE Busy'
  <2>1. CASE ThrowsEarly(w)
    <3>1. job' = [job EXCEPT ![w] = Idle] /\ proc' = [proc EXCEPT ![w] = "none"]
      BY <2>1 DEF ThrowsEarly
    <3> QED
      BY <3>1, MovesKeepBusy DEF Tooling
  <2>2. CASE ThrowsWithKey(w)
    <3>1. job' = [job EXCEPT ![w] = Idle] /\ proc' = [proc EXCEPT ![w] = "none"]
      BY <2>2 DEF ThrowsWithKey, Finally
    <3> QED
      BY <3>1, MovesKeepBusy DEF Tooling
  <2> QED
    BY <1>8, <2>1, <2>2
<1>9. ASSUME NEW w \in Worker, MakeDirs(w) \/ LogBanner(w) \/ sshAuthEnvForKey(w) PROVE Busy'
  <2>1. job[w] # Idle /\ proc \in [Worker -> Tooling]
    BY <1>9 DEF MakeDirs, LogBanner, sshAuthEnvForKey, AtStep, Busy
  <2>2. CASE End(w, "failed")
    BY <2>2, EndKeepsBusy
  <2>3. CASE GoOn(w) /\ (proc' = proc \/ proc' = [proc EXCEPT ![w] = "runs"])
    <3>1. PICK s, kind : kind \in Tooling /\ job' = [job EXCEPT ![w].steps = s] /\ proc' = [proc EXCEPT ![w] = kind]
      <4>1. job' = [job EXCEPT ![w].steps = Tail(job[w].steps)]
        BY <2>3 DEF GoOn
      <4>2. \E kind \in Tooling : proc' = [proc EXCEPT ![w] = kind]
        BY <2>1, <2>3 DEF Tooling
      <4> QED
        BY <4>1, <4>2
    <3> QED
      BY <2>1, <3>1, StepsKeepBusy
  <2> QED
    BY <1>9, <2>2, <2>3 DEF MakeDirs, LogBanner, sshAuthEnvForKey
<1>6. ASSUME NEW w \in Worker, Dies(w) PROVE Busy'
  <2>1. job' = [job EXCEPT ![w] = Idle] /\ proc' = [proc EXCEPT ![w] = "none"]
    BY <1>6 DEF Dies
  <2> QED
    BY <2>1, MovesKeepBusy DEF Tooling
<1>7. ASSUME UNCHANGED <<job, proc>> PROVE Busy'
  BY <1>7 DEF Busy, Tooling, Idle
<1> QED
  BY <1>1, <1>2, <1>3, <1>4, <1>5, <1>6, <1>7, <1>8, <1>9 DEF Next, Removed, RemovalFails, KeysWritten

LEMMA JobNext ==
  ASSUME JobInv, Busy, Next
  PROVE  JobInv'
<1>1. ASSUME NEW w \in Worker, Claim(w) PROVE JobInv'
  BY <1>1, ClaimStep
<1>2. ASSUME NEW w \in Worker, Exits(w) \/ ChildEnds(w) PROVE JobInv'
  <2>1. job[w] # Idle
    BY <1>2 DEF Exits, ChildEnds, Busy
  <2> QED
    BY <1>2, <2>1, CloseStep DEF Exits, ChildEnds
<1>3. ASSUME NEW w \in Worker, TimesOut(w) PROVE JobInv'
  <2>1. job[w] # Idle
    BY <1>3 DEF TimesOut, Busy
  <2>2. CASE Close(w, FALSE)
    BY <2>1, <2>2, CloseStep
  <2>3. CASE UNCHANGED <<repo, pipeline, row, job, tag>>
    BY <2>3, JobUnchanged
  <2> QED
    BY <1>3, <2>2, <2>3 DEF TimesOut, given
<1>4. ASSUME NEW w \in Worker, Capture(w) PROVE JobInv'
  BY <1>4, CaptureStep
<1>5. ASSUME NEW w \in Worker, Throws(w) PROVE JobInv'
  <2>1. job[w] # Idle
    BY <1>5 DEF Throws, Busy
  <2>2. PICK status \in {"running", "failed"} : End(w, status)
    BY <1>5 DEF Throws, Thrown
  <2>3. row' = [row EXCEPT ![Of(w)].status = status] /\ job' = [job EXCEPT ![w] = Idle]
    BY <2>2, EndLeaves
  <2>4. status \in {"failed", "running", "no_pipeline"}
    BY <2>2
  <2>5. Wrote(Of(w)) /\ UNCHANGED <<repo, pipeline>>
    BY <1>5, <2>1, LandsWrote DEF Throws, given
  <2> QED
    BY <2>1, <2>3, <2>4, <2>5, EndStep
<1>6. ASSUME NEW w \in Worker, Dies(w) PROVE JobInv'
  BY <1>6, DiesStep
<1>7. ASSUME \/ \E w \in Worker, b \in Build : Removed(w, b) \/ RemovalFails(w, b)
             \/ KeysWritten
      PROVE  JobInv'
  <2>1. UNCHANGED <<repo, pipeline, row, job, tag>>
    BY <1>7 DEF Removed, RemovalFails, KeysWritten, given
  <2> QED
    BY <2>1, JobUnchanged
<1>8. ASSUME NEW w \in Worker, ThrowsEarly(w) \/ ThrowsWithKey(w) PROVE JobInv'
  <2>1. job[w] # Idle
    BY <1>8 DEF ThrowsEarly, ThrowsWithKey, AtStep, Busy
  <2>2. PICK status \in {"running", "failed"} : Set(w, status)
    BY <1>8 DEF ThrowsEarly, ThrowsWithKey, Thrown
  <2>3. row' = [row EXCEPT ![Of(w)].status = status] /\ job' = [job EXCEPT ![w] = Idle]
    BY <1>8, <2>2 DEF ThrowsEarly, ThrowsWithKey, Set, Finally, Of
  <2>4. status \in {"failed", "running", "no_pipeline"}
    BY <2>2
  <2>5. Wrote(Of(w)) /\ UNCHANGED <<repo, pipeline>>
    BY <1>8 DEF ThrowsEarly, ThrowsWithKey, given, Wrote
  <2> QED
    BY <2>1, <2>3, <2>4, <2>5, EndStep
<1>9. ASSUME NEW w \in Worker, MakeDirs(w) \/ LogBanner(w) \/ sshAuthEnvForKey(w) PROVE JobInv'
  <2>1. AtStep(w, {"mkdir", "banner", "key"}) /\ UNCHANGED <<repo, pipeline, tag>>
    BY <1>9 DEF MakeDirs, LogBanner, sshAuthEnvForKey, AtStep, given
  <2>2. CASE End(w, "failed")
    <3>1. Wrote(Of(w)) /\ job[w] # Idle
      BY <2>1 DEF Wrote, AtStep
    <3> QED
      BY <2>1, <2>2, <3>1, EndLeaves, EndStep
  <2>3. CASE GoOn(w) /\ row' = row
    BY <2>1, <2>3, GoesOnStep
  <2> QED
    BY <1>9, <2>2, <2>3 DEF MakeDirs, LogBanner, sshAuthEnvForKey
<1> QED
  BY <1>1, <1>2, <1>3, <1>4, <1>5, <1>6, <1>7, <1>8, <1>9 DEF Next

LEMMA JobInit ==
  ASSUME Init
  PROVE  JobInv /\ Busy
<1>1. /\ \A w \in Worker : job[w] = Idle /\ proc[w] = "none"
      /\ \A c \in Commit : tag[c] = Null
      /\ \A b \in Build : row[b].status = "queued"
  BY DEF Init
<1>2. JobShape
  <2>1. row \in [Build -> JobRow]
    BY DEF Init, JobRow
  <2>2. job \in [Worker -> [build : Nat, steps : Seq(Tool)]]
    BY DEF Init, Idle
  <2> QED
    BY <2>1, <2>2 DEF Init, JobShape
<1>3. (\A w \in Worker : AtIt(w)) /\ Alone /\ (\A c \in Commit : TagOK(c)) /\ Referred
  BY <1>1 DEF AtIt, Alone, TagOK, Referred
<1>4. Busy
  BY <1>1 DEF Busy, Tooling, Init
<1> QED
  BY <1>2, <1>3, <1>4 DEF JobInv

\* The image reference of a successful build names an image that has its
\* entrypoint, unless another build of the commit that has not succeeded wrote
\* the tag (buildRuntimeImage pushes, then mutates, one tag), for any number of
\* workers, commits, builds and faults and whatever kaiad.yaml says.
THEOREM ReferencesWhole == Spec => []RefsWhole
<1>1. Init => JobInv /\ Busy
  BY JobInit
<1>2. JobInv /\ Busy /\ [Next]_vars => (JobInv /\ Busy)'
  <2>1. ASSUME JobInv, Busy, UNCHANGED vars PROVE (JobInv /\ Busy)'
    <3>1. UNCHANGED <<repo, pipeline, row, job, tag, proc>>
      BY <2>1 DEF vars
    <3> QED
      BY <2>1, <3>1, JobUnchanged DEF Busy, Tooling, Idle
  <2> QED
    BY <2>1, JobNext, BusyStep
<1>3. JobInv => RefsWhole
  BY DEF JobInv, Referred, TagOK, RefsWhole, Image
<1> QED
  BY <1>1, <1>2, <1>3, PTL DEF Spec
=============================================================================
