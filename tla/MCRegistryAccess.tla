-------------------------- MODULE MCRegistryAccess --------------------------
(* An instance of RegistryAccess for TLC.                                  *)
EXTENDS RegistryAccess

Do(kind, repo) == [kind |-> kind, repo |-> repo]

\* A host that pulls two images, a build that pushes, and a cleaner.
Jobs ==
  { {Do("read", "agent"), Do("read", "site")},
    {Do("ping", None), Do("read", "site"), Do("write", "site")},
    {Do("catalog", None), Do("delete", "site"), Do("read", "site")} }

=============================================================================
