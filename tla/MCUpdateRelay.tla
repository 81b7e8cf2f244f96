---------------------------- MODULE MCUpdateRelay ----------------------------
(* Instances of UpdateRelay for TLC: two distinct updates tell lost,        *)
(* repeated and overtaken ones apart; nothing depends on what they are.     *)
EXTENDS UpdateRelay

CONSTANTS u1, u2

Updates == {u1, u2}

=============================================================================
