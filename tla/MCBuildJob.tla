---------------------------- MODULE MCBuildJob ----------------------------
(* Instance of BuildJob: kaiad.yaml files of every form.                   *)
EXTENDS BuildJob

CONSTANTS none

Plain ==
  [dockerfile |-> FALSE, build |-> none, runtime |-> FALSE, comma |-> FALSE,
   artifacts |-> {}, copy |-> {}, layers |-> {}, ports |-> {80}, domains |-> {},
   environments |-> <<>>, dependsOn |-> <<>>, uses |-> {}]

FromDockerfile == [Plain EXCEPT !.dockerfile = TRUE]
Assembled == [Plain EXCEPT !.build = "kaiad", !.runtime = TRUE, !.artifacts = {"app", "tree"},
                           !.copy = {"app"}, !.layers = {"tree"}]
Copied    == [Plain EXCEPT !.runtime = TRUE]
Unlisted  == [Copied EXCEPT !.copy = {"app"}]
Astray    == [Copied EXCEPT !.environments = [prod |-> {443}]]
Dependent == [Copied EXCEPT !.dependsOn = [base |-> "image"], !.uses = {<<"base", "image">>}]
Imageless == [Dependent EXCEPT !.dependsOn = [base |-> "no image"]]
Early     == [Dependent EXCEPT !.dependsOn = [base |-> "unbuilt"]]
Library   == [Plain EXCEPT !.build = "public", !.artifacts = {"app"}]

Single(d) == [form |-> "single", services |-> [root |-> d]]

MCFile ==
  {[form |-> f, services |-> <<>>] : f \in {"none", "broken", "multi"}}
    \union {Single(d) : d \in {FromDockerfile, Assembled, Copied, Unlisted, Astray, Imageless, Early, Library,
                               [Copied EXCEPT !.comma = TRUE]}}
    \union {[form |-> "multi", services |-> [web |-> Astray, lib |-> Dependent]]}

MCPipelineName == {none, "web"}
=============================================================================
