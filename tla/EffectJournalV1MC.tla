--------------------------- MODULE EffectJournalV1MC ---------------------------
EXTENDS EffectJournalV1, TLC

\* The model treats no result, budget, handler or caller of a kind specially.
Symmetry ==
  Permutations(CrashProne) \cup Permutations(Caller \ CrashProne)
    \cup Permutations(Result) \cup Permutations(Fuel) \cup Permutations(Handler)
===============================================================================
