--------------------------- MODULE MCConfiguredLimits ---------------------------
(***************************************************************************)
(* Small instances of ConfiguredLimits.  Windows of two and three instants *)
(* on a clock of three slide past attempts, past submissions without       *)
(* attempts and past each other; two rules of different type and scope     *)
(* overlap, and the eligible times reach beyond the clock.                 *)
(***************************************************************************)
EXTENDS ConfiguredLimits

CONSTANTS j1, j2, a, p1, p2

Rule(type, scope, window, max) ==
    [provider |-> p1, type |-> type, scope |-> scope, window |-> window, max |-> max]
TwoRules == {Rule("submission", "provider", 2, 2), Rule("message", "profile", 3, 1)}
TwoRequests == {<<"message">>, <<"file", "message">>}
TwoRoutes == {<<p1, p2>>, <<p1>>}

\* The first job sends a prompt and may move on, the second uploads a file before it.
MixedInit ==
    /\ Init
    /\ rules = Rules
    /\ \A j \in Jobs \ live : submitted[j] # 0
    /\ job[j1].profile = a
    /\ job[j1].request = <<"message">>
    /\ plan[j1] = <<p1, p2>>
    /\ plan[j2] = <<p1>>
    /\ job[j2].request = <<"file", "message">>
MixedSpec == MixedInit /\ [][Next]_vars
=============================================================================
