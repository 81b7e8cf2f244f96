--------------------------- MODULE MCProjectFiles ---------------------------
(* Instances of ProjectFiles, and of the format of its parcel, for TLC.    *)
EXTENDS FileTransfer, TLC

CONSTANTS a, b, c

TheHost    == {Host}
BothSites  == {Host, Member}
NoSite     == {}
SameMain   == [s \in {Host, Member} |-> a]
OwnMain    == (Host :> a) @@ (Member :> b)
=============================================================================
