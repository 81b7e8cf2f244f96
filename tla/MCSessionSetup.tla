--------------------------- MODULE MCSessionSetup ---------------------------
(* Instances of SessionSetup for TLC. *)
EXTENDS SessionSetup, TLC

CONSTANTS u1, u2, u3, p1, p2, p3

\* One program per user.
OwnEach == (p1 :> u1) @@ (p2 :> u2) @@ (p3 :> u3)
OwnTwo  == (p1 :> u1) @@ (p2 :> u2)

Pair == {<<u1, u2>>, <<u2, u1>>}

\* u1 also names u3, who wants u2.
Triangle == {<<u1, u3>>, <<u3, u2>>, <<u2, u3>>}

Anybody == User \X User
=============================================================================
