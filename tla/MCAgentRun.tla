------------------------------- MODULE MCAgentRun -------------------------------
(***************************************************************************)
(* Small instances of AgentRun: a call that needs approval, one that does  *)
(* not and comes before it, and depends on it.                             *)
(***************************************************************************)
EXTENDS AgentRun

MCCalls == {1, 2}
MCReadOnly == {1}
MCDependsOn == [c \in MCCalls |-> IF c = 1 THEN {2} ELSE {}]
Batch(calls, invalid, needs) == [kind |-> "batch", calls |-> calls, invalid |-> invalid, needs |-> needs]
MCAnswers == {[NoAnswer EXCEPT !.kind = "final"], [NoAnswer EXCEPT !.kind = "malformed"],
              Batch({1, 2}, {}, TRUE), Batch({1, 2}, {2}, FALSE)}
=============================================================================
