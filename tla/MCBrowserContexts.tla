--------------------------- MODULE MCBrowserContexts ---------------------------
(***************************************************************************)
(* A small instance of BrowserContexts: one profile whose setting changes  *)
(* and to whose browser everything happens, beside one that competes with  *)
(* it for the limit and the lane.                                          *)
(***************************************************************************)
EXTENDS BrowserContexts, TLC

CONSTANTS a, b, c1, c2, plain, proxied

SettingsOf == (a :> {plain, proxied}) @@ (b :> {plain})
VisibilitiesOf == (a :> {"headed"}) @@ (b :> {"auto"})
EitherCaller == Permutations(Callers)
=============================================================================
