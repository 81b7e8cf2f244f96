--------------------------- MODULE MCSharedEditing ---------------------------
(* Instances of SharedEditing for TLC.  One ordinary character is enough:  *)
(* what the properties tell apart is where text is, not which it is.       *)
EXTENDS SharedEditing

CONSTANTS a, b, nl, question, wide

\* A session over an empty project in which nothing was loaded ...
NothingTyped == [s \in Site |-> <<>>]
NothingLoaded == [s \in Site |-> 0]

\* ... and as setOtherUser may leave it: the member has loaded the one character
\* that stands for the host's empty file.
EmptyFileSent   == [s \in Site |-> IF s = Host THEN <<>> ELSE <<a>>]
LoadedByMember == [s \in Site |-> IF s = Host THEN 0 ELSE 1]

=============================================================================
