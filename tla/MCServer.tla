------------------------------ MODULE MCServer ------------------------------
(* Server on small sets of model values. *)
EXTENDS Server, BusinessForum, TLC

\* Names of every kind, messages and content at once are too much for one run: a
\* behaviour has either accounts and messages alone, or content by users whose names
\* are shorter than their field.
VARIABLE plan

MCInit == ServerInit /\ plan \in {"accounts", "content"}

AsPlanned ==
  IF plan = "accounts" THEN UNCHANGED treeVars
  ELSE UNCHANGED messages /\ \A u \in UserIds : users'[u].name \notin FullNames

MCNext == ServerNext /\ AsPlanned /\ UNCHANGED plan

MCSpec == MCInit /\ [][MCNext]_<<serverVars, plan>>

Symmetry ==
  Permutations(Fds) \cup Permutations(Names \ FullNames) \cup Permutations(UserIds)
    \cup Permutations(TeamIds) \cup Permutations(ChannelIds) \cup Permutations(ThreadIds)

\* result is what the last handler returned; no action reads it unprimed.
ServerView == <<dataVars, clients, send_buffer, plan>>
=============================================================================
