---- MODULE MCAgentLoop ----
(* Small instances of AgentLoop for TLC. *)
EXTENDS AgentLoop, TLC
CONSTANTS a, b
MCTwoIds == {a, b}
MCOneId  == {a}
MCSymmetry == Permutations(CallId)
====
