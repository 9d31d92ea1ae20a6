----------------------------- MODULE MCRegistry -----------------------------
(* Instances of Registry for TLC: an image, and an index that lists it.    *)
EXTENDS Registry, TLC

CONSTANTS layer, image, index

ImageBlobs(m) == IF m = image THEN {layer} ELSE {}
IndexChildren(m) == IF m = index THEN {image} ELSE {}
RepoOf(t) == "app"

Symmetry == Permutations(Handler)
=============================================================================
