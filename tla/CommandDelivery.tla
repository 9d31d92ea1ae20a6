-------------------------- MODULE CommandDelivery --------------------------
(***************************************************************************)
(* What the command channel between the API and one agent promises: a      *)
(* command the API has queued durably stays outstanding until the agent    *)
(* has run it to the end, one settled command at a time, and the agent     *)
(* runs nothing that was not queued.  It says nothing of how often a       *)
(* command runs, nor that an outstanding command ever settles.             *)
(***************************************************************************)
CONSTANT Command

VARIABLES accepted,     \* commands ever queued
          outstanding,  \* commands the API would replay to the agent
          executed      \* commands some run of which has ended

vars == <<accepted, outstanding, executed>>

Init ==
  /\ accepted = {}
  /\ outstanding = {}
  /\ executed = {}

\* The API queues c, for the first time or again.
Accept(c) ==
  /\ accepted' = accepted \cup {c}
  /\ outstanding' = outstanding \cup {c}
  /\ UNCHANGED executed

\* The agent ends a run of c.
Execute(c) ==
  /\ c \in accepted
  /\ executed' = executed \cup {c}
  /\ UNCHANGED <<accepted, outstanding>>

\* The API forgets c, which it may do only once the agent has run it.
Settle(c) ==
  /\ c \in outstanding \cap executed
  /\ outstanding' = outstanding \ {c}
  /\ UNCHANGED <<accepted, executed>>

Next == \E c \in Command : Accept(c) \/ Execute(c) \/ Settle(c)

Spec == Init /\ [][Next]_vars

=============================================================================
