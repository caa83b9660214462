------------------------------- MODULE MCAgents -------------------------------
(***************************************************************************)
(* An agent run alone: one resumption, one cancellation or passed          *)
(* deadline, one process.                                                  *)
(***************************************************************************)
EXTENDS AgentRunProperties, TLC
CONSTANTS d1, d2, r1
OneRun == {[resumes |-> 1, interrupts |-> 1, faults |-> 0, starts |-> 1]}
=============================================================================
