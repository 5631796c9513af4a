-------------------------- MODULE MCEnvironmentSync --------------------------
(* Two containers whose names have nothing in common; n1 serves the first, *)
(* and n2, where there is one, the second.                                 *)
EXTENDS EnvironmentSync, TLC

CONSTANTS c1, c2, n1, n2, t1

AllContainers == {c1, c2}
TwoBelongs == n1 :> c1 @@ n2 :> c2
TwoNodes == {n1, n2}
OneOfEach == n1 :> "own" @@ n2 :> "own"
OneNode == {n1}
OneBelongs == n1 :> c1
OneKind == n1 :> "own"
NamesApart == {}
MCTokens == {t1}
Anywhere == t1 :> AllContainers
Fixed == t1 :> {c1}
=============================================================================
