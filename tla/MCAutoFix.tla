------------------------------ MODULE MCAutoFix ------------------------------
(* Instances of AutoFix for TLC: two errors of one incident, and a third of *)
(* another service.                                                         *)
EXTENDS AutoFix

CONSTANTS wrapper, cause, other, web, db

IncidentLabel(g) == IF g = other THEN db ELSE web

=============================================================================
