----------------------------- MODULE MCBusiness -----------------------------
(* Business on small sets of model values. *)
EXTENDS Business, TLC

Symmetry ==
  Permutations(Fds) \cup Permutations(Names \ FullNames) \cup Permutations(UserIds)
    \cup Permutations(TeamIds) \cup Permutations(ChannelIds) \cup Permutations(ThreadIds)
=============================================================================
