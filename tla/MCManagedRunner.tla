----------------------------- MODULE MCManagedRunner -----------------------------
(***************************************************************************)
(* Small instances of ManagedRunner.  The scripts place work a restart can *)
(* rebuild before the prompt, work it cannot, and a page action after the  *)
(* answer.                                                                 *)
(***************************************************************************)
EXTENDS ManagedRunner

CONSTANTS p1, p2, p3, a

Request(mode, plan, exclusions) ==
    [profile |-> a, mode |-> mode, provider |-> p1, plan |-> plan, trail |-> <<>>,
     exclusions |-> exclusions]

\* One job with a chain of two alternatives, routed with and without exclusions, or direct.
ChainRequests ==
    {Request("browser", <<p2, p3>>, FALSE), Request("browser", <<p2>>, TRUE),
     Request("direct", <<>>, FALSE)}
ChainScripts ==
    {<<"edit", "submit", "read", "edit">>, <<"workspace", "submit", "read">>}
=============================================================================
