------------------------------ MODULE MCBuilds ------------------------------
(* Instances of Builds for TLC: a base image, and a site built on it.      *)
EXTENDS Builds, TLC

CONSTANTS base, site

\* The site's row learns of the base with its first build.
SiteDependsOnBase(s, n) == IF s = site THEN {base} ELSE {}

\* Only the second kaiad.yaml of the site names the base.
SiteAddsBase(s, n) == IF s = site /\ n = 2 THEN {base} ELSE {}

\* The base's first kaiad.yaml is deployable, and a supporting one follows.
SiteAndFirst(s) == IF s = site THEN {1, 2} ELSE {1}

One(s) == 1
Two(s) == 2
SiteCommitsTwice(s) == IF s = site THEN 2 ELSE 1

Symmetry == Permutations(Worker)

=============================================================================
