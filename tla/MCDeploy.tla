------------------------------ MODULE MCDeploy ------------------------------
(* Instances of Deploy for TLC.                                            *)
EXTENDS Deploy

CONSTANTS dev, prod

Override(n) == [namespace |-> n, instances |-> Unset]

\* Production has a namespace of its own; elsewhere the pipeline's default.
OwnNamespace(b) ==
  [namespace |-> "shop", instances |-> "one", environments |-> [e \in {prod} |-> Override("live")]]
=============================================================================
