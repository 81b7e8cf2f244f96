---------------------------- MODULE FileTransfer ----------------------------
(***************************************************************************)
(* The one datagram the host's files travel in, character by character:    *)
(* SendFiles joins names and texts with "|||" and the member splits them   *)
(* apart again.  A text may have bars of its own and may be empty, and     *)
(* Split leaves out empty pieces: whether what comes out is what went in   *)
(* is not seen from either of the two.  ProjectFiles takes it for granted,  *)
(* and passes the parcel on as it is.                                      *)
(*                                                                         *)
(* SendFiles_NoZero is SendFiles with a plausible mistake in it: nothing   *)
(* uses it, it is there to show that FilesArrive notices the mistake.      *)
(***************************************************************************)
EXTENDS ProjectFiles

CONSTANTS FilesId,     \* the character a datagram with files begins with
          Bar,         \* "|"
          Nought,      \* "0"
          Letter,      \* any other characters
          WideLetter,  \* those UTF-8 needs two bytes for
          Question     \* what the ASCII decoder makes of each of those bytes

ASSUME FormatAssumption ==
    /\ WideLetter \subseteq Letter
    /\ {FilesId, Bar, Nought, Question} \cap Letter = {}

Separator == <<Bar, Bar, Bar>>

SendFiles_NoZero(files) ==
    FoldLeft(LAMBDA m, f : m \o Separator \o f.name \o Separator \o f.text,
             <<FilesId>>, files)

\* The folder as buildFiles returns it, in the order of the dictionary.
SendFiles(files) ==
    FoldLeft(LAMBDA m, f : m \o Separator \o f.name \o Separator
                             \o IF f.text = <<>> THEN <<Nought>> ELSE f.text,
             <<FilesId>>, files)

\* Encoded as UTF-8 by the one, decoded as ASCII by the other.
Decoded(s) == FoldLeft(LAMBDA t, c : t \o IF c \in WideLetter
                                          THEN <<Question, Question>>
                                          ELSE <<c>>, <<>>, s)

\* String.Split: the first separator counts, and the search goes on behind it.
Split(s) ==
    LET read(acc, c) ==
            LET piece == Append(acc.piece, c)
            IN  IF IsSuffix(Separator, piece)
                THEN [done  |-> Append(acc.done,
                                       SubSeq(piece, 1, Len(piece) - 3)),
                      piece |-> <<>>]
                ELSE [acc EXCEPT !.piece = piece]
        all == FoldLeft(read, [done |-> <<>>, piece |-> <<>>], s)
    IN  SelectSeq(Append(all.done, all.piece), LAMBDA p : p # <<>>)

\* Pieces are taken in pairs behind the first.  Two pairs with one name are
\* one too many for Dictionary.Add, whose exception nobody catches.
ArgumentException == "ArgumentException"

ReceiveAndParseMessage(message) ==
    LET p     == Split(message)
        files == [i \in 1 .. (Len(p) - 1) \div 2 |->
                     [name |-> p[2 * i], text |-> p[2 * i + 1]]]
    IN  IF IsInjective([i \in DOMAIN files |-> files[i].name])
        THEN files ELSE ArgumentException

-----------------------------------------------------------------------------

\* A text nothing in it, or at its end, can be taken for a separator.
Plain(t) == /\ t # <<>> => Last(t) # Bar
            /\ \A i \in 1 .. Len(t) - 2 : SubSeq(t, i, i + 2) # Separator

Text(n) == {t \in [1 .. n -> Letter \cup {Bar, Nought}] : Plain(t)}

\* The sizes of the texts in a parcel, and the folders it may stand for: a
\* letter for each name, a character for each stroke.
Sizes(p) == [i \in DOMAIN p |-> Cardinality(p[i].text \ {Zero})]

Folders(sizes) ==
    LET names == {<<l>> : l \in Letter \ WideLetter}
        add(some, n) ==
            {Append(s, file) : s \in some,
                               file \in [name : names, text : Text(n)]}
    IN  {s \in FoldLeft(add, {<<>>}, sizes) :
            IsInjective([i \in DOMAIN s |-> s[i].name])}

\* The names come out as they went in, and each text beside its own name, but
\* for "0" in empty files and characters ASCII lacks.
Arrives(folder) ==
    ReceiveAndParseMessage(Decoded(SendFiles(folder)))
        = [i \in DOMAIN folder |->
             [name |-> folder[i].name,
              text |-> IF folder[i].text = <<>> THEN <<Nought>>
                       ELSE Decoded(folder[i].text)]]

\* The sizes of the folders that do not, among those that can be typed.
LostSizes ==
    LET sizes == {s \in SeqOf(0 .. MaxStrokes, Cardinality(Name)) :
                     FoldLeft(LAMBDA n, k : n + k, 0, s) <= MaxStrokes}
        lost  == {f \in UNION {Folders(s) : s \in sizes} : ~Arrives(f)}
    IN  {[i \in DOMAIN f |-> Len(f[i].text)] : f \in lost}

\* Whatever the host sends when a session starts, every folder that parcel may
\* stand for, with no separator in its texts, arrives.
FilesArrive == [][Sizes(parcel') \notin LostSizes]_parcel
=============================================================================
