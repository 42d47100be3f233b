------------------------ MODULE ApplicationRegistryV1MC ------------------------
EXTENDS ApplicationRegistryV1, TLC

\* Names, applications, contents and callers of a kind are interchangeable.
Symmetry ==
  Permutations(CrashProne) \cup Permutations(Caller \ CrashProne)
    \cup Permutations(Name) \cup Permutations(Application) \cup Permutations(Content)
===============================================================================
