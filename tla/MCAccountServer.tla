--------------------------- MODULE MCAccountServer ---------------------------
(* An instance of AccountServer for TLC. *)
EXTENDS AccountServer, TLC

CONSTANTS u1, u2, m1, m2, a, b, p1, p2

\* u1 has an account, and both programs log in as u1, which is what the page
\* does; the user of p2 makes another, and may take the wrong name.
OneAccount == <<[name |-> u1, password |-> a, mail |-> m1]>>
Literal    == (p1 :> u1) @@ (p2 :> u1)
Typed      == (p1 :> {<<u1, m1>>}) @@ (p2 :> {<<u2, m2>>, <<u1, m2>>})
=============================================================================
