------------------------------- MODULE MCJobStore -------------------------------
(***************************************************************************)
(* A small instance of JobStore: two jobs, one perhaps of an older         *)
(* database, that share the dashboard, the queue and the slots.            *)
(***************************************************************************)
EXTENDS JobStoreRefinement

CONSTANTS p1, p2, a

Request(mode, plan, exclusions) ==
    [profile |-> a, mode |-> mode, provider |-> p1, plan |-> plan, trail |-> <<>>,
     exclusions |-> exclusions]

TwoProviders == {Request("browser", <<p2>>, FALSE), Request("direct", <<>>, FALSE)}
==============================================================================
