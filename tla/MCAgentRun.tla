---- MODULE MCAgentRun ----
(* Small instances of AgentRun.                                              *)
EXTENDS AgentRun, TLC

ThreadsAlike == Permutations(Threads)

\* Both attempts of an activity are given up only in a run of one step.
WorthExploring == troubles = 2 => size <= 1
====
