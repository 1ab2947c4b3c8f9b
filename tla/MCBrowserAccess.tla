-------------------------- MODULE MCBrowserAccess --------------------------
(***************************************************************************)
(* BrowserAccess for TLC: two browsers that share a credential, one of     *)
(* them with a second one, which is not for the host that there is.        *)
(***************************************************************************)
EXTENDS BrowserAccess, TLC

CONSTANTS b1, b2, c1, c2, a1

MCTokens == b1 :> {c1} @@ b2 :> {c1, c2}
MCScope == c1 :> {a1} @@ c2 :> {}
MCSymmetry == Permutations(Nonces)
=============================================================================
