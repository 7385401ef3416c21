-------------------------- MODULE MCClientSession --------------------------
EXTENDS ClientSession

\* What may happen while the path is lost once, and what needs no such loss.
Scenes ==
  {{"cut", "again"}, {"cut", "early"}, {"cut", "restart"}, {"cut", "tab"}, {"cut", "refusal"},
   {"cut", "leave"}, {"cut", "raise"}, {"cut", "study", "rival"},
   {"restart", "raise", "lower"}, {"study", "early"}}

=============================================================================
