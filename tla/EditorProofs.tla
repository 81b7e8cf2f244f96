---------------------------- MODULE EditorProofs ----------------------------
(***************************************************************************)
(* Lemmas about the editor: that every function of module Editor takes     *)
(* well-formed editors to well-formed editors, and what a key press and an *)
(* update do when they change at most one character.                       *)
(***************************************************************************)
EXTENDS Editor, SequenceTheorems, FiniteSetTheorems, TLAPS

-----------------------------------------------------------------------------
(* Texts.                                                                  *)

\* A part of a text that lies within it.
LEMMA Part ==
    ASSUME NEW t \in Text, NEW m \in Nat \ {0}, NEW n \in Nat,
           m <= n + 1, n <= Len(t)
    PROVE  /\ SubSeq(t, m, n) \in Text
           /\ Len(SubSeq(t, m, n)) = n - m + 1
           /\ \A i \in 1 .. n - m + 1 : SubSeq(t, m, n)[i] = t[m + i - 1]
<1>1. Len(t) \in Nat /\ \A i \in m .. n : t[i] \in Char
    BY LenProperties, ElementOfSeq DEF Text
<1>2. /\ SubSeq(t, m, n) \in Seq(Char)
      /\ Len(SubSeq(t, m, n)) = IF m <= n THEN n - m + 1 ELSE 0
      /\ \A i \in 1 .. n - m + 1 : SubSeq(t, m, n)[i] = t[m + i - 1]
    BY <1>1, SubSeqProperties
<1> QED
    BY <1>2 DEF Text

\* e is t with r characters at o replaced by x, character by character.
EditOf(e, t, o, r, x) ==
    /\ e \in Text
    /\ Len(e) = Len(t) - r + Len(x)
    /\ \A i \in 1 .. Len(t) - r + Len(x) :
           e[i] = IF i <= o THEN t[i]
                  ELSE IF i <= o + Len(x) THEN x[i - o]
                  ELSE t[i - Len(x) + r]

\* The changed text consists of what is before the change, what was put in
\* and what is behind it.
LEMMA EditedText ==
    ASSUME NEW t \in Text, NEW o \in Nat, NEW r \in Nat, o + r <= Len(t),
           NEW x \in Text
    PROVE  EditOf(Edited(t, o, r, x), t, o, r, x)
<1> DEFINE n == Len(t)
           k == Len(x)
           before == SubSeq(t, 1, o)
           behind == SubSeq(t, o + r + 1, n)
<1>0. n \in Nat /\ k \in Nat /\ n = Len(t) /\ k = Len(x)
    BY LenProperties DEF Text
<1>1. before \in Text /\ Len(before) = o /\ \A i \in 1 .. o : before[i] = t[i]
    <2>1. 1 \in Nat \ {0} /\ 1 <= o + 1 /\ o <= Len(t)
        BY <1>0
    <2>2. /\ before \in Text /\ Len(before) = o - 1 + 1
          /\ \A i \in 1 .. o - 1 + 1 : before[i] = t[1 + i - 1]
        BY <2>1, Part
    <2> QED
        BY <2>2
<1>2. /\ behind \in Text /\ Len(behind) = n - (o + r)
      /\ \A i \in 1 .. n - (o + r) : behind[i] = t[o + r + i]
    <2>1. o + r + 1 \in Nat \ {0} /\ o + r + 1 <= n + 1 /\ n <= Len(t)
        BY <1>0
    <2>2. /\ behind \in Text /\ Len(behind) = n - (o + r + 1) + 1
          /\ \A i \in 1 .. n - (o + r + 1) + 1 :
                 behind[i] = t[(o + r + 1) + i - 1]
        BY <1>0, <2>1, Part
    <2> HIDE DEF n, behind
    <2> QED
        BY <1>0, <2>2
<1>3. Edited(t, o, r, x) = (before \o x) \o behind
    BY DEF Edited
<1> HIDE DEF n, k, before, behind
<1> DEFINE front == before \o x
<1>4. /\ front \in Seq(Char) /\ Len(front) = o + k
      /\ \A i \in 1 .. o + k :
             front[i] = IF i <= o THEN before[i] ELSE x[i - o]
    BY <1>0, <1>1, ConcatProperties DEF Text
<1> DEFINE whole == front \o behind
<1>5. /\ whole \in Seq(Char)
      /\ Len(whole) = (o + k) + (n - (o + r))
      /\ \A i \in 1 .. (o + k) + (n - (o + r)) :
             whole[i] = IF i <= o + k THEN front[i] ELSE behind[i - (o + k)]
    <2> HIDE DEF front
    <2>1. front \in Seq(Char) /\ behind \in Seq(Char)
        BY <1>2, <1>4 DEF Text
    <2>2. /\ whole \in Seq(Char)
          /\ Len(whole) = Len(front) + Len(behind)
          /\ \A i \in 1 .. Len(front) + Len(behind) :
                 whole[i] = IF i <= Len(front) THEN front[i]
                            ELSE behind[i - Len(front)]
        BY <2>1, ConcatProperties
    <2> QED
        BY <1>2, <1>4, <2>2
<1> HIDE DEF front, whole
<1>6. ASSUME NEW i \in 1 .. n - r + k
      PROVE  whole[i] =
                 IF i <= o THEN t[i]
                 ELSE IF i <= o + k THEN x[i - o] ELSE t[i - k + r]
    <2>1. i \in 1 .. (o + k) + (n - (o + r))
        BY <1>0
    <2>2. CASE i <= o
        BY <2>1, <2>2, <1>0, <1>1, <1>4, <1>5
    <2>3. CASE o < i /\ i <= o + k
        BY <2>1, <2>3, <1>0, <1>4, <1>5
    <2>4. CASE o + k < i
        <3>1. i - (o + k) \in 1 .. n - (o + r)
                  /\ o + r + (i - (o + k)) = i - k + r
            BY <1>0, <2>1, <2>4
        <3>2. whole[i] = behind[i - (o + k)]
            BY <1>0, <1>5, <2>1, <2>4
        <3>3. behind[i - (o + k)] = t[o + r + (i - (o + k))]
            BY <1>2, <3>1
        <3>4. ~(i <= o) /\ ~(i <= o + k)
            BY <1>0, <2>4
        <3> QED
            BY <3>1, <3>2, <3>3, <3>4
    <2> QED
        BY <1>0, <2>2, <2>3, <2>4
<1>7. (o + k) + (n - (o + r)) = n - r + k
    BY <1>0
<1> QED
    BY <1>0, <1>3, <1>5, <1>6, <1>7 DEF Text, whole, front, EditOf, n, k

\* Removing characters and then inserting others in their place is one edit.
LEMMA RemoveThenInsert ==
    ASSUME NEW t \in Text, NEW o \in Nat, NEW r \in Nat, o + r <= Len(t),
           NEW x \in Text
    PROVE  Edited(Edited(t, o, r, <<>>), o, 0, x) = Edited(t, o, r, x)
<1> DEFINE cut == Edited(t, o, r, <<>>)
           put == Edited(cut, o, 0, x)
           e   == Edited(t, o, r, x)
           n   == Len(t)
           k   == Len(x)
<1>0. n \in Nat /\ k \in Nat /\ n = Len(t) /\ k = Len(x)
    BY LenProperties DEF Text
<1>1. <<>> \in Text /\ Len(<<>>) = 0
    BY EmptySeq DEF Text
<1>2. EditOf(cut, t, o, r, <<>>) /\ EditOf(e, t, o, r, x)
    BY <1>1, EditedText
<1> HIDE DEF n, k, cut, e
<1>3. /\ cut \in Text /\ Len(cut) = n - r
      /\ \A i \in 1 .. n - r : cut[i] = IF i <= o THEN t[i] ELSE t[i + r]
    <2>1. ASSUME NEW i \in 1 .. n - r
          PROVE  cut[i] = IF i <= o THEN t[i] ELSE t[i + r]
        <3>1. i \in 1 .. Len(t) - r + Len(<<>>) /\ (i <= o + Len(<<>>) <=> i <= o)
                  /\ i - Len(<<>>) + r = i + r
            BY <1>0, <1>1
        <3> QED
            BY <1>2, <3>1 DEF EditOf
    <2> QED
        BY <1>0, <1>1, <1>2, <2>1 DEF EditOf
<1>4. /\ e \in Text /\ Len(e) = n - r + k
      /\ \A i \in 1 .. n - r + k :
             e[i] = IF i <= o THEN t[i]
                    ELSE IF i <= o + k THEN x[i - o] ELSE t[i - k + r]
    BY <1>0, <1>2 DEF EditOf
<1>5. /\ put \in Text /\ Len(put) = Len(cut) - 0 + k
      /\ \A i \in 1 .. Len(cut) - 0 + k :
             put[i] = IF i <= o THEN cut[i]
                      ELSE IF i <= o + k THEN x[i - o] ELSE cut[i - k + 0]
    <2>1. 0 \in Nat /\ o + 0 <= Len(cut)
        BY <1>0, <1>3
    <2>2. EditOf(put, cut, o, 0, x)
        BY <1>3, <2>1, EditedText
    <2> HIDE DEF put
    <2> QED
        BY <1>0, <2>2 DEF EditOf
<1> HIDE DEF put
<1>6. Len(put) = n - r + k
    BY <1>0, <1>3, <1>5
<1>7. ASSUME NEW i \in 1 .. Len(put) PROVE put[i] = e[i]
    <2>1. i \in 1 .. n - r + k /\ i \in 1 .. Len(cut) - 0 + k
        BY <1>0, <1>3, <1>6
    <2>2. CASE i <= o
        <3>1. i \in 1 .. n - r
            BY <1>0, <2>1, <2>2
        <3> QED
            BY <1>3, <1>4, <1>5, <2>1, <2>2, <3>1
    <2>3. CASE o < i /\ i <= o + k
        <3>1. ~(i <= o) /\ i <= o + k
            BY <1>0, <2>1, <2>3
        <3>2. put[i] = x[i - o]
            BY <1>5, <2>1, <3>1
        <3>3. e[i] = x[i - o]
            BY <1>4, <2>1, <3>1
        <3> QED
            BY <3>2, <3>3
    <2>4. CASE o + k < i
        <3>1. i - k \in 1 .. n - r /\ ~(i - k <= o) /\ i - k + 0 = i - k
                  /\ ~(i <= o) /\ ~(i <= o + k)
            BY <1>0, <2>1, <2>4
        <3>2. put[i] = cut[i - k] /\ e[i] = t[i - k + r]
            BY <1>4, <1>5, <2>1, <3>1
        <3>3. cut[i - k] = t[i - k + r]
            BY <1>3, <3>1
        <3> QED
            BY <3>2, <3>3
    <2> QED
        BY <1>0, <2>1, <2>2, <2>3, <2>4
<1> QED
    BY <1>4, <1>3, <1>5, <1>6, <1>7, SeqEqual DEF Text, put, cut, e

\* A character of an encoded text begins at a byte with a number.
LEMMA ByteNumber ==
    ASSUME NEW t, NEW i \in Nat
    PROVE  Cardinality({j \in 1 .. i - 1 : t[j] \in Wide}) \in Nat
<1>1. IsFiniteSet(1 .. i - 1)
    BY FS_Interval
<1>2. IsFiniteSet({j \in 1 .. i - 1 : t[j] \in Wide})
    BY <1>1, FS_Subset
<1> QED
    BY <1>2, FS_CardinalityType

\* What arrives of a text is a text ...
LEMMA DecodedText == ASSUME NEW t \in Text PROVE Decoded(t) \in Text
<1> DEFINE byte(i) == i + Cardinality({j \in 1 .. i - 1 : t[j] \in Wide})
           at(k)   == {i \in 1 .. Len(t) : byte(i) = k /\ t[i] \notin Wide}
           n       == byte(Len(t) + 1) - 1
           c(k)    == IF at(k) = {} THEN Unknown
                      ELSE t[CHOOSE i \in at(k) : TRUE]
<1>1. n \in Nat
    <2>1. Len(t) + 1 \in Nat /\ Len(t) \in Nat
        BY LenProperties DEF Text
    <2>2. Cardinality({j \in 1 .. (Len(t) + 1) - 1 : t[j] \in Wide}) \in Nat
        BY <2>1, ByteNumber, Zenon
    <2> HIDE DEF at, c
    <2> QED
        BY <2>1, <2>2
<1>2. ASSUME NEW k \in 1 .. n PROVE c(k) \in Char
    <2>1. CASE at(k) = {}
        BY <2>1, CharAssumption
    <2>2. CASE at(k) # {}
        <3>1. PICK i \in at(k) : i = CHOOSE j \in at(k) : TRUE
            BY <2>2
        <3>2. i \in 1 .. Len(t)
            OBVIOUS
        <3>3. t[i] \in Char
            BY <3>2, ElementOfSeq DEF Text
        <3> QED
            BY <2>2, <3>1, <3>3
    <2> QED
        BY <2>1, <2>2
<1>3. Decoded(t) = [k \in 1 .. n |-> c(k)]
    BY DEF Decoded
<1> HIDE DEF c, n
<1>4. [k \in 1 .. n |-> c(k)] \in Seq(Char)
    BY <1>1, <1>2
<1> QED
    BY <1>3, <1>4 DEF Text

\* ... and the same text where no character needs a second byte.
LEMMA DecodedPlain ==
    ASSUME Wide = {}, NEW t \in Text PROVE Decoded(t) = t
<1> DEFINE byte(i) == i + Cardinality({j \in 1 .. i - 1 : t[j] \in Wide})
           at(k)   == {i \in 1 .. Len(t) : byte(i) = k /\ t[i] \notin Wide}
<1>0. Len(t) \in Nat /\ t \in [1 .. Len(t) -> Char]
    BY LenProperties DEF Text
<1>1. \A i \in Nat : byte(i) = i
    <2>1. \A i \in Nat : {j \in 1 .. i - 1 : t[j] \in Wide} = {}
        OBVIOUS
    <2>2. Cardinality({}) = 0
        BY FS_EmptySet
    <2> QED
        BY <2>1, <2>2
<1>2. byte(Len(t) + 1) - 1 = Len(t)
    BY <1>0, <1>1
<1>3. ASSUME NEW k \in 1 .. Len(t)
      PROVE  (IF at(k) = {} THEN Unknown ELSE t[CHOOSE i \in at(k) : TRUE])
                 = t[k]
    <2>1. at(k) = {k}
        BY <1>0, <1>1
    <2> HIDE DEF at
    <2> QED
        BY <2>1
<1>4. Decoded(t) = [k \in 1 .. Len(t) |-> t[k]]
    <2>1. Decoded(t) = [k \in 1 .. byte(Len(t) + 1) - 1 |->
                            IF at(k) = {} THEN Unknown
                            ELSE t[CHOOSE i \in at(k) : TRUE]]
        BY DEF Decoded
    <2> HIDE DEF byte, at
    <2> QED
        BY <1>2, <1>3, <2>1
<1> QED
    BY <1>0, <1>4

-----------------------------------------------------------------------------
(* Well-formed editors.  An undo unit can be restored: the range of the    *)
(* text box it gives back exists in the text it gives back.                *)

Unit == [text : Text, offset : Nat, added : Nat, removed : Nat]

Restorable == {unit \in Unit : unit.offset + unit.removed <= Len(unit.text)}

EditorState == [text : Text, tokens : Int, deletionFlag : BOOLEAN,
                undo : Seq(Restorable), posts : Nat, out : Seq(Update),
                crashed : BOOLEAN]

\* A window starts well-formed.
LEMMA NewEditorType ==
    ASSUME NEW t \in Text, NEW n \in Nat
    PROVE  NewEditor(t, n) \in EditorState
    BY EmptySeq DEF NewEditor, EditorState

\* An update is queued as it arrives at the other site.
LEMMA QueueType ==
    ASSUME NEW e \in EditorState, NEW u \in Update
    PROVE  Queue(e, u) \in EditorState
<1>1. Wire(u) \in Update
    BY DecodedText DEF Wire, Update
<1>2. Append(e.out, Wire(u)) \in Seq(Update)
    BY <1>1, AppendProperties DEF EditorState
<1> QED
    BY <1>2 DEF Queue, EditorState

\* What a change of the user's leaves behind.
LEMMA UserChangeType ==
    ASSUME NEW e \in EditorState, NEW offset \in Nat, NEW added \in Nat,
           NEW removed \in Nat, offset + added <= Len(e.text)
    PROVE  UserChange(e, offset, added, removed) \in EditorState
<1> DEFINE addedText == SubSeq(e.text, offset + 1, offset + added)
           u(action) == [action |-> action, offset |-> offset,
                         removed |-> removed, text |-> addedText]
           cut == [action |-> "-", offset |-> offset, removed |-> removed,
                   text |-> <<>>]
<1>1. addedText \in Text
    <2>1. /\ offset + 1 \in Nat \ {0} /\ offset + added \in Nat
          /\ offset + 1 <= offset + added + 1
        OBVIOUS
    <2>2. e.text \in Text
        BY DEF EditorState
    <2> QED
        BY <2>1, <2>2, Part
<1>2. u("+") \in Update /\ u("=") \in Update
    BY <1>1 DEF Update
<1>3. cut \in Update
    BY EmptySeq DEF Update, Text
<1>4. /\ Queue(e, u("+")) \in EditorState /\ Queue(e, u("=")) \in EditorState
      /\ Queue(e, cut) \in EditorState
    BY <1>2, <1>3, QueueType
<1>5. \A d \in EditorState : [d EXCEPT !.deletionFlag = FALSE] \in EditorState
    BY DEF EditorState
<1>6. removed = 0 => u("+") = [action |-> "+", offset |-> offset,
                               removed |-> 0, text |-> addedText]
    OBVIOUS
<1>7. UserChange(e, offset, added, removed) \in
          {e, Queue(e, u("+")),
           [e EXCEPT !.deletionFlag = FALSE],
           [Queue(e, u("=")) EXCEPT !.deletionFlag = FALSE],
           [Queue(e, cut) EXCEPT !.deletionFlag = FALSE]}
    <2> HIDE DEF addedText
    <2>1. CASE removed = 0
        BY <2>1, <1>6 DEF UserChange, addedText
    <2>2. CASE added > 0 /\ removed > 0
        BY <2>2 DEF UserChange, addedText
    <2>3. CASE added = 0 /\ removed > 0
        BY <2>3 DEF UserChange
    <2> QED
        BY <2>1, <2>2, <2>3
<1> QED
    BY <1>4, <1>5, <1>7

\* The handler of TextChanged, whoever made the change.
LEMMA TextChangedType ==
    ASSUME NEW e \in EditorState, NEW isMember, NEW offset \in Nat,
           NEW added \in Nat, NEW removed \in Nat,
           offset + added <= Len(e.text)
    PROVE  TextChanged(e, isMember, offset, added, removed) \in EditorState
<1>1. UserChange(e, offset, added, removed) \in EditorState
    BY UserChangeType
<1>2. ASSUME NEW d \in EditorState
      PROVE  [d EXCEPT !.posts = @ + 1] \in EditorState
    <2>1. d.posts + 1 \in Nat
        BY DEF EditorState
    <2> QED
        BY <2>1 DEF EditorState
<1>3. [e EXCEPT !.tokens = @ - 1] \in EditorState
    <2>1. e.tokens - 1 \in Int
        BY DEF EditorState
    <2> QED
        BY <2>1 DEF EditorState
<1>4. [UserChange(e, offset, added, removed) EXCEPT !.posts = @] =
          UserChange(e, offset, added, removed)
    BY <1>1 DEF EditorState
<1> QED
    BY <1>1, <1>2, <1>3, <1>4 DEF TextChanged

\* Any change of the box that stays within the text.
LEMMA ChangeType ==
    ASSUME NEW e \in EditorState, NEW isMember, NEW offset \in Nat,
           NEW removed \in Nat, offset + removed <= Len(e.text),
           NEW x \in Text
    PROVE  Change(e, isMember, offset, removed, x) \in EditorState
<1> DEFINE unit == [text |-> e.text, offset |-> offset,
                    added |-> Len(x), removed |-> removed]
           new  == Edited(e.text, offset, removed, x)
           undo == IF isMember THEN Append(e.undo, unit) ELSE e.undo
           d    == [e EXCEPT !.text = new, !.undo = undo]
<1>1. e.text \in Text /\ Len(e.text) \in Nat /\ Len(x) \in Nat
    BY LenProperties DEF EditorState, Text
<1>2. new \in Text /\ Len(new) = Len(e.text) - removed + Len(x)
    <2>1. EditOf(new, e.text, offset, removed, x)
        BY <1>1, EditedText
    <2> HIDE DEF new
    <2> QED
        BY <2>1 DEF EditOf
<1>3. unit \in Restorable
    BY <1>1 DEF Restorable, Unit
<1>4. undo \in Seq(Restorable)
    <2>1. e.undo \in Seq(Restorable)
        BY DEF EditorState
    <2> HIDE DEF unit
    <2>2. Append(e.undo, unit) \in Seq(Restorable)
        BY <1>3, <2>1, AppendProperties
    <2> QED
        BY <2>1, <2>2
<1>5. Change(e, isMember, offset, removed, x) =
          TextChanged(d, isMember, offset, Len(x), removed)
    BY DEF Change
<1> HIDE DEF unit, new, undo
<1>6. d \in EditorState /\ d.text = new
    BY <1>2, <1>4 DEF EditorState
<1> HIDE DEF d
<1>7. offset + Len(x) <= Len(d.text)
    BY <1>1, <1>2, <1>6
<1> QED
    BY <1>1, <1>5, <1>6, <1>7, TextChangedType

\* The program sets the whole text.
LEMMA SetTextType ==
    ASSUME NEW e \in EditorState, NEW isMember, NEW t \in Text
    PROVE  SetText(e, isMember, t) \in EditorState
<1>1. Len(e.text) \in Nat /\ 0 + Len(e.text) <= Len(e.text)
    BY LenProperties DEF EditorState, Text
<1>2. Change(e, isMember, 0, Len(e.text), t) \in EditorState
    BY <1>1, ChangeType
<1> QED
    BY <1>2 DEF SetText

\* A typed character replaces the selection.
LEMMA TypeKeyType ==
    ASSUME NEW e \in EditorState, NEW isMember, NEW from \in Nat,
           NEW to \in Nat, from <= to, to <= Len(e.text), NEW c \in Char
    PROVE  TypeKey(e, isMember, from, to, c) \in EditorState
<1>1. to - from \in Nat /\ from + (to - from) <= Len(e.text)
    BY LenProperties DEF EditorState, Text
<1>2. <<c>> \in Text
    BY DEF Text
<1> QED
    BY <1>1, <1>2, ChangeType DEF TypeKey

\* The Enter key.
LEMMA EnterKeyType ==
    ASSUME NEW e \in EditorState, NEW isMember, NEW from \in Nat,
           from <= Len(e.text)
    PROVE  EnterKey(e, isMember, from) \in EditorState
<1> DEFINE new == Edited(e.text, from, 0, <<NewLine>>)
           u   == [action |-> "+", offset |-> from, removed |-> 0,
                   text |-> <<NewLine>>]
<1>1. <<NewLine>> \in Text
    BY CharAssumption DEF Text
<1>2. e.text \in Text /\ 0 \in Nat /\ from + 0 <= Len(e.text)
    BY LenProperties DEF EditorState, Text
<1>3. new \in Text
    BY <1>1, <1>2, EditedText DEF EditOf
<1>4. u \in Update
    BY <1>1 DEF Update
<1>5. EnterKey(e, isMember, from) = Queue(SetText(e, isMember, new), u)
    BY DEF EnterKey
<1> HIDE DEF new, u
<1> QED
    BY <1>3, <1>4, <1>5, SetTextType, QueueType

\* Backspace and Delete.
LEMMA RemovalKeysType ==
    ASSUME NEW e \in EditorState, NEW isMember, NEW from \in Nat,
           NEW to \in Nat, from <= to, to <= Len(e.text)
    PROVE  /\ BackKey(e, isMember, from, to) \in EditorState
           /\ DeleteKey(e, isMember, from, to) \in EditorState
<1> DEFINE d == [e EXCEPT !.deletionFlag = TRUE]
<1>0. <<>> \in Text /\ Len(e.text) \in Nat
    BY EmptySeq, LenProperties DEF Text, EditorState
<1>1. d \in EditorState /\ d.text = e.text
    BY DEF EditorState
<1>b. BackKey(e, isMember, from, to) =
          CASE from < to             -> Change(d, isMember, from, to - from, <<>>)
            [] from = to /\ from > 0 -> Change(d, isMember, from - 1, 1, <<>>)
            [] OTHER                 -> d
    BY DEF BackKey
<1> HIDE DEF d
<1>2. /\ Change(d, isMember, from, to - from, <<>>) \in EditorState
      /\ Change(e, isMember, from, to - from, <<>>) \in EditorState
    <2>1. to - from \in Nat /\ from + (to - from) <= Len(e.text)
        BY <1>0
    <2> QED
        BY <1>0, <1>1, <2>1, ChangeType
<1>3. ASSUME from = to, from > 0
      PROVE  Change(d, isMember, from - 1, 1, <<>>) \in EditorState
    <2>1. from - 1 \in Nat /\ (from - 1) + 1 <= Len(e.text)
        BY <1>0, <1>3
    <2> QED
        BY <1>0, <1>1, <2>1, ChangeType
<1>4. ASSUME from = to, from < Len(e.text)
      PROVE  Change(e, isMember, from, 1, <<>>) \in EditorState
    <2>1. from + 1 <= Len(e.text)
        BY <1>0, <1>4
    <2> QED
        BY <1>0, <2>1, ChangeType
<1>5. BackKey(e, isMember, from, to) \in EditorState
    BY <1>1, <1>2, <1>3, <1>b
<1>6. DeleteKey(e, isMember, from, to) \in EditorState
    BY <1>2, <1>4 DEF DeleteKey
<1> QED
    BY <1>5, <1>6

\* The text box goes one unit back.
LEMMA RunUndoType ==
    ASSUME NEW e \in EditorState, NEW isMember, e.posts > 0
    PROVE  RunUndo(e, isMember) \in EditorState
<1> DEFINE posted == [e EXCEPT !.posts = @ - 1]
           unit   == Last(e.undo)
           d      == [posted EXCEPT !.tokens = @ + 1, !.text = unit.text,
                                    !.undo = Front(@)]
<1>1. posted \in EditorState
    <2>1. e.posts - 1 \in Nat
        BY DEF EditorState
    <2> QED
        BY <2>1 DEF EditorState
<1>2. ASSUME e.undo # <<>>
      PROVE  TextChanged(d, isMember, unit.offset, unit.removed, unit.added)
                 \in EditorState
    <2>1. e.undo \in Seq(Restorable)
        BY DEF EditorState
    <2>2. Len(e.undo) \in Nat \ {0}
        BY <1>2, <2>1, EmptySeq
    <2>3. unit \in Restorable
        BY <2>1, <2>2, ElementOfSeq DEF Last
    <2>4. Front(e.undo) \in Seq(Restorable)
        BY <2>1, <2>2 DEF Front
    <2> HIDE DEF unit
    <2>5. unit.text \in Text /\ e.tokens + 1 \in Int
        BY <2>3 DEF Restorable, Unit, EditorState
    <2>6. d \in EditorState /\ d.text = unit.text
        BY <1>1, <2>4, <2>5 DEF EditorState
    <2> HIDE DEF d
    <2> QED
        BY <2>3, <2>6, TextChangedType DEF Restorable, Unit
<1> QED
    BY <1>1, <1>2 DEF RunUndo

\* An update of the other site is announced ...
LEMMA AnnounceType ==
    ASSUME NEW e \in EditorState, NEW u
    PROVE  Announce(e, u) \in EditorState
<1>1. e.tokens + 1 \in Int
    BY DEF EditorState
<1>2. [e EXCEPT !.tokens = @ + 1] \in EditorState
    BY <1>1 DEF EditorState
<1> QED
    BY <1>2 DEF Announce

\* ... and made: a removal, which may end the program,
LEMMA RemovalType ==
    ASSUME NEW e \in EditorState, NEW isMember, NEW offset \in Nat,
           NEW n \in Nat, NEW prev \in Nat
    PROVE  Removal(e, isMember, offset, n, prev) \in EditorState
<1>1. <<>> \in Text /\ e.text \in Text /\ Len(e.text) \in Nat
    BY EmptySeq, LenProperties DEF Text, EditorState
<1>2. SetText(e, isMember, <<>>) \in EditorState
    BY <1>1, SetTextType
<1>3. Crash(e) \in EditorState
    BY DEF Crash, EditorState
<1>4. ASSUME offset < Len(e.text),
             ~(offset <= Len(e.text) /\ Len(e.text) # 0
                 /\ offset + n > Len(e.text))
      PROVE  SetText(e, isMember, Edited(e.text, offset, n, <<>>))
                 \in EditorState
    <2>1. offset + n <= Len(e.text)
        BY <1>1, <1>4
    <2>2. Edited(e.text, offset, n, <<>>) \in Text
        BY <1>1, <2>1, EditedText DEF EditOf
    <2> QED
        BY <2>2, SetTextType
<1> QED
    BY <1>2, <1>3, <1>4 DEF Removal

\* an insertion, which may end it too,
LEMMA InsertionType ==
    ASSUME NEW e \in EditorState, NEW isMember, NEW offset \in Nat,
           NEW t \in Text
    PROVE  Insertion(e, isMember, offset, t) \in EditorState
<1>1. e.text \in Text /\ Len(e.text) \in Nat
    BY LenProperties DEF Text, EditorState
<1>2. Crash(e) \in EditorState
    BY DEF Crash, EditorState
<1>3. ASSUME offset <= Len(e.text)
      PROVE  SetText(e, isMember, Edited(e.text, offset, 0, t)) \in EditorState
    <2>1. offset + 0 <= Len(e.text) /\ 0 \in Nat
        BY <1>3
    <2>2. Edited(e.text, offset, 0, t) \in Text
        BY <1>1, <2>1, EditedText DEF EditOf
    <2> QED
        BY <2>2, SetTextType
<1> QED
    BY <1>1, <1>2, <1>3 DEF Insertion

\* and any update as it is parsed.
LEMMA ApplyUpdateType ==
    ASSUME NEW e \in EditorState, NEW isMember, NEW u \in Update,
           NEW prev \in Nat
    PROVE  ApplyUpdate(e, isMember, u, prev) \in EditorState
<1> DEFINE d == [e EXCEPT !.tokens = @ + 2]
<1>1. u.action \in {"+", "-", "="} /\ u.offset \in Nat /\ u.removed \in Nat
          /\ u.text \in Text
    BY DEF Update
<1>2. e.tokens + 2 \in Int
    BY DEF EditorState
<1>3. d \in EditorState
    BY <1>2 DEF EditorState
<1> HIDE DEF d
<1>4. /\ Insertion(e, isMember, u.offset, u.text) \in EditorState
      /\ Removal(e, isMember, u.offset, u.removed, prev) \in EditorState
      /\ Removal(d, isMember, u.offset, u.removed, prev) \in EditorState
    BY <1>1, <1>3, InsertionType, RemovalType
<1>5. Insertion(Removal(d, isMember, u.offset, u.removed, prev), isMember,
                u.offset, u.text) \in EditorState
    BY <1>1, <1>4, InsertionType
<1> QED
    BY <1>1, <1>4, <1>5 DEF ApplyUpdate, d

-----------------------------------------------------------------------------
(* Small edits: at most one character goes and at most one comes.          *)

\* u is such an edit and lies within t.
Fits(u, t) ==
    /\ u \in Update
    /\ \/ /\ u.action = "+" /\ u.removed = 0 /\ Len(u.text) = 1
          /\ u.offset <= Len(t)
       \/ /\ u.action = "-" /\ u.removed = 1 /\ u.text = <<>>
          /\ u.offset < Len(t)
       \/ /\ u.action = "=" /\ u.removed = 1 /\ Len(u.text) = 1
          /\ u.offset < Len(t)

After(t, u) == Edited(t, u.offset, u.removed, u.text)

\* What such an edit makes of a text.
LEMMA AfterText ==
    ASSUME NEW t \in Text, NEW u, Fits(u, t)
    PROVE  /\ EditOf(After(t, u), t, u.offset, u.removed, u.text)
           /\ After(t, u) \in Text
           /\ u.offset + u.removed <= Len(t)
           /\ u.offset \in Nat /\ u.removed \in Nat /\ u.text \in Text
<1>1. u.offset \in Nat /\ u.removed \in Nat /\ u.text \in Text
    BY DEF Fits, Update
<1>2. u.offset + u.removed <= Len(t)
    BY <1>1, LenProperties DEF Fits, Text
<1>3. EditOf(After(t, u), t, u.offset, u.removed, u.text)
    BY <1>1, <1>2, EditedText DEF After
<1> QED
    BY <1>1, <1>2, <1>3 DEF EditOf

\* The range a change reports holds what was put there.
LEMMA PutText ==
    ASSUME NEW t \in Text, NEW o \in Nat, NEW r \in Nat, o + r <= Len(t),
           NEW x \in Text
    PROVE  SubSeq(Edited(t, o, r, x), o + 1, o + Len(x)) = x
<1> DEFINE e == Edited(t, o, r, x)
           k == Len(x)
           m == o + 1
           n == o + k
           p == SubSeq(e, m, n)
<1>0. Len(t) \in Nat /\ k \in Nat /\ k = Len(x)
    BY LenProperties DEF Text
<1>1. EditOf(e, t, o, r, x)
    BY EditedText
<1> HIDE DEF e, k
<1>2. /\ e \in Text /\ Len(e) = Len(t) - r + k
      /\ \A i \in 1 .. Len(t) - r + k :
             e[i] = IF i <= o THEN t[i]
                    ELSE IF i <= o + k THEN x[i - o] ELSE t[i - k + r]
    BY <1>0, <1>1 DEF EditOf
<1>3. m \in Nat \ {0} /\ n \in Nat /\ m <= n + 1 /\ n <= Len(e)
    BY <1>0, <1>2
<1>m. m = o + 1 /\ n = o + k
    OBVIOUS
<1> HIDE DEF m, n
<1>4. /\ p \in Text /\ Len(p) = n - m + 1
      /\ \A i \in 1 .. n - m + 1 : p[i] = e[m + i - 1]
    BY <1>2, <1>3, Part
<1> HIDE DEF p
<1>5. Len(p) = k
    BY <1>0, <1>4, <1>m
<1>6. ASSUME NEW i \in 1 .. k PROVE p[i] = x[i]
    <2>1. /\ i \in 1 .. n - m + 1 /\ m + i - 1 = o + i
          /\ o + i \in 1 .. Len(t) - r + k /\ ~(o + i <= o) /\ o + i <= o + k
          /\ o + i - o = i
        BY <1>0, <1>m
    <2>2. p[i] = e[o + i]
        BY <1>4, <2>1
    <2>3. e[o + i] = x[o + i - o]
        BY <1>2, <2>1
    <2> QED
        BY <2>1, <2>2, <2>3
<1> QED
    BY <1>0, <1>4, <1>5, <1>6, SeqEqual DEF Text, p, e, k, m, n

\* Replacing all of a text leaves what replaces it.
LEMMA WholeReplaced ==
    ASSUME NEW t \in Text, NEW x \in Text
    PROVE  Edited(t, 0, Len(t), x) = x
<1> DEFINE e == Edited(t, 0, Len(t), x)
<1>0. Len(t) \in Nat /\ Len(x) \in Nat /\ 0 \in Nat /\ 0 + Len(t) <= Len(t)
    BY LenProperties DEF Text
<1>1. EditOf(e, t, 0, Len(t), x)
    BY <1>0, EditedText
<1> HIDE DEF e
<1>2. e \in Text /\ Len(e) = Len(x)
    BY <1>0, <1>1 DEF EditOf
<1>3. ASSUME NEW i \in 1 .. Len(e) PROVE e[i] = x[i]
    <2>1. /\ i \in 1 .. Len(t) - Len(t) + Len(x) /\ ~(i <= 0)
          /\ i <= 0 + Len(x) /\ i - 0 = i
        BY <1>0, <1>2
    <2>2. e[i] = x[i - 0]
        BY <1>1, <2>1 DEF EditOf
    <2> QED
        BY <2>1, <2>2
<1>4. e = x
    BY <1>2, <1>3, SeqEqual DEF Text
<1> QED
    BY <1>4 DEF e

\* An update of ordinary characters arrives as it was sent.
LEMMA WirePlain ==
    ASSUME Wide = {}, NEW u \in Update PROVE Wire(u) = u
<1>1. u.text \in Text
    BY DEF Update
<1>2. Decoded(u.text) = u.text
    BY <1>1, DecodedPlain
<1> QED
    BY <1>2 DEF Wire, Update

-----------------------------------------------------------------------------
(* What a change does to an editor, with a token and without.              *)

\* The editor after the box itself has changed, before TextChanged.
Boxed(e, isMember, offset, removed, x) ==
    [e EXCEPT !.text = Edited(@, offset, removed, x),
              !.undo = IF isMember
                       THEN Append(@, [text |-> e.text, offset |-> offset,
                                       added |-> Len(x),
                                       removed |-> removed])
                       ELSE @]

\* d is e with the text new, the text of e on a member's stack.
BoxChange(d, e, isMember, new) ==
    /\ d \in EditorState
    /\ d = [e EXCEPT !.text = new, !.undo = d.undo]
    /\ d.text = new
    /\ isMember => d.undo # <<>> /\ Last(d.undo).text = e.text

\* The box holds the new text, a member's stack the old one.
LEMMA BoxedState ==
    ASSUME NEW e \in EditorState, NEW isMember, NEW offset \in Nat,
           NEW removed \in Nat, offset + removed <= Len(e.text),
           NEW x \in Text
    PROVE  BoxChange(Boxed(e, isMember, offset, removed, x), e, isMember,
                     Edited(e.text, offset, removed, x))
<1> DEFINE unit == [text |-> e.text, offset |-> offset,
                    added |-> Len(x), removed |-> removed]
           new  == Edited(e.text, offset, removed, x)
           undo == IF isMember THEN Append(e.undo, unit) ELSE e.undo
           d    == [e EXCEPT !.text = new, !.undo = undo]
<1>1. e.text \in Text /\ Len(e.text) \in Nat /\ Len(x) \in Nat
    BY LenProperties DEF EditorState, Text
<1>2. new \in Text
    <2>1. EditOf(new, e.text, offset, removed, x)
        BY <1>1, EditedText
    <2> QED
        BY <2>1 DEF EditOf
<1>3. unit \in Restorable /\ unit.text = e.text
    BY <1>1 DEF Restorable, Unit
<1>4. /\ undo \in Seq(Restorable)
      /\ isMember => undo # <<>> /\ Last(undo) = unit
    <2>1. e.undo \in Seq(Restorable) /\ Len(e.undo) \in Nat
        BY LenProperties DEF EditorState
    <2> HIDE DEF unit
    <2>2. /\ Append(e.undo, unit) \in Seq(Restorable)
          /\ Append(e.undo, unit) # <<>>
          /\ Len(Append(e.undo, unit)) = Len(e.undo) + 1
          /\ Append(e.undo, unit)[Len(e.undo) + 1] = unit
        BY <1>3, <2>1, AppendProperties
    <2> QED
        BY <2>1, <2>2 DEF Last
<1>5. Boxed(e, isMember, offset, removed, x) = d
    BY DEF Boxed
<1> HIDE DEF unit, new, undo
<1>6. d \in EditorState /\ d.text = new /\ d.undo = undo
    BY <1>2, <1>4 DEF EditorState
<1>7. BoxChange(d, e, isMember, new)
    BY <1>3, <1>4, <1>6 DEF BoxChange
<1> HIDE DEF d
<1> QED
    BY <1>5, <1>7 DEF new

\* A change the program has announced uses up a token and does no more.
LEMMA AnnouncedChange ==
    ASSUME NEW e \in EditorState, NEW isMember, e.tokens # 0,
           NEW t \in Text, t # e.text
    PROVE  LET d == SetText(e, isMember, t)
           IN  /\ d \in EditorState
               /\ d.text = t /\ d.tokens = e.tokens - 1 /\ d.out = e.out
               /\ d.posts = e.posts /\ d.crashed = e.crashed
<1> DEFINE n == Len(e.text)
           d == Boxed(e, isMember, 0, n, t)
<1>1. e.text \in Text /\ n \in Nat /\ 0 \in Nat /\ 0 + n <= Len(e.text)
          /\ Len(t) \in Nat
    BY LenProperties DEF EditorState, Text
<1>2. SetText(e, isMember, t) = TextChanged(d, isMember, 0, Len(t), n)
    BY DEF SetText, Change, Boxed
<1>3. BoxChange(d, e, isMember, t)
    <2>1. BoxChange(d, e, isMember, Edited(e.text, 0, n, t))
        BY <1>1, BoxedState, Zenon
    <2>2. Edited(e.text, 0, n, t) = t
        BY <1>1, WholeReplaced
    <2> HIDE DEF d, n
    <2> QED
        BY <2>1, <2>2
<1>4. SetText(e, isMember, t) \in EditorState
    BY SetTextType
<1> HIDE DEF d, n
<1>5. d \in EditorState /\ d.text = t /\ d.tokens = e.tokens /\ d.out = e.out
          /\ d.posts = e.posts /\ d.crashed = e.crashed
    BY <1>3 DEF EditorState, BoxChange
<1>6. SetText(e, isMember, t) = [d EXCEPT !.tokens = @ - 1]
    BY <1>2, <1>5 DEF TextChanged
<1> QED
    BY <1>4, <1>5, <1>6 DEF EditorState

Plus(o, x)    == [action |-> "+", offset |-> o, removed |-> 0, text |-> x]
Cut(o, r)     == [action |-> "-", offset |-> o, removed |-> r, text |-> <<>>]
Swap(o, r, x) == [action |-> "=", offset |-> o, removed |-> r, text |-> x]

\* c is what becomes of d when the user's change put the k characters x at o
\* where r characters were: which update, if any, tells it.
ToldBy(c, d, o, k, r, x) ==
    /\ r = 0 /\ x # <<NewLine>> => c = Queue(d, Plus(o, x))
    /\ r = 0 /\ x = <<NewLine>> => c = d
    /\ r > 0 /\ k > 0 /\ ~Contains(x, NewLine) =>
           c = [Queue(d, Swap(o, r, x)) EXCEPT !.deletionFlag = FALSE]
    /\ r > 0 /\ k > 0 /\ Contains(x, NewLine) =>
           c = [d EXCEPT !.deletionFlag = FALSE]
    /\ r > 0 /\ k = 0 /\ d.deletionFlag =>
           c = [Queue(d, Cut(o, r)) EXCEPT !.deletionFlag = FALSE]

\* A change that removes nothing is told unless it is a lone newline.
LEMMA InsertionTold ==
    ASSUME NEW d, NEW o \in Nat, NEW k \in Nat, NEW r
    PROVE  LET x == SubSeq(d.text, o + 1, o + k)
           IN  /\ r = 0 /\ x # <<NewLine>> =>
                      UserChange(d, o, k, r) = Queue(d, Plus(o, x))
               /\ r = 0 /\ x = <<NewLine>> => UserChange(d, o, k, r) = d
BY DEF UserChange, Plus

\* That is what UserChange does with the range it is given.
LEMMA UserChangeTold ==
    ASSUME NEW d, NEW o \in Nat, NEW k \in Nat, NEW r \in Nat
    PROVE  ToldBy(UserChange(d, o, k, r), d, o, k, r,
                  SubSeq(d.text, o + 1, o + k))
<1> DEFINE x == SubSeq(d.text, o + 1, o + k)
           c == UserChange(d, o, k, r)
<1>1. /\ r = 0 /\ x # <<NewLine>> => c = Queue(d, Plus(o, x))
      /\ r = 0 /\ x = <<NewLine>> => c = d
    BY InsertionTold
<1>2. r > 0 /\ k > 0 /\ ~Contains(x, NewLine) =>
          c = [Queue(d, Swap(o, r, x)) EXCEPT !.deletionFlag = FALSE]
    BY DEF UserChange, Swap
<1>3. r > 0 /\ k > 0 /\ Contains(x, NewLine) =>
          c = [d EXCEPT !.deletionFlag = FALSE]
    BY DEF UserChange
<1>4. r > 0 /\ k = 0 /\ d.deletionFlag =>
          c = [Queue(d, Cut(o, r)) EXCEPT !.deletionFlag = FALSE]
    BY DEF UserChange, Cut
<1> HIDE DEF x, c
<1>5. ToldBy(c, d, o, k, r, x)
    BY <1>1, <1>2, <1>3, <1>4 DEF ToldBy
<1> QED
    BY <1>5 DEF x, c

\* A change nobody announced is the user's: d is e with the box changed, c
\* with the update queued, and a member posts an Undo.
ByUser(e, d, c, f, isMember, o, r, x) ==
    /\ BoxChange(d, e, isMember, Edited(e.text, o, r, x))
    /\ d.tokens = 0 /\ d.out = e.out /\ d.posts = e.posts
    /\ d.crashed = e.crashed /\ d.deletionFlag = e.deletionFlag
    /\ ToldBy(c, d, o, Len(x), r, x)
    /\ f = [c EXCEPT !.posts = IF isMember THEN @ + 1 ELSE @]

\* That is what a change does to an editor with no token left.
LEMMA ChangeByUser ==
    ASSUME NEW e \in EditorState, NEW isMember, e.tokens = 0,
           NEW o \in Nat, NEW r \in Nat, o + r <= Len(e.text), NEW x \in Text
    PROVE  \E d, c : ByUser(e, d, c, Change(e, isMember, o, r, x), isMember,
                            o, r, x)
<1> DEFINE k   == Len(x)
           new == Edited(e.text, o, r, x)
           d   == Boxed(e, isMember, o, r, x)
           c   == UserChange(d, o, k, r)
           f   == Change(e, isMember, o, r, x)
<1>1. e.text \in Text /\ k \in Nat
    BY LenProperties DEF EditorState, Text
<1>2. BoxChange(d, e, isMember, new)
    BY BoxedState
<1>3. SubSeq(new, o + 1, o + k) = x
    BY <1>1, PutText
<1>4. f = TextChanged(d, isMember, o, k, r)
    BY DEF Change, Boxed
<1> HIDE DEF d, new, k, f
<1>5. /\ d.text = new /\ d.tokens = 0 /\ d.out = e.out /\ d.posts = e.posts
      /\ d.crashed = e.crashed /\ d.deletionFlag = e.deletionFlag
    BY <1>2 DEF BoxChange, EditorState
<1>6. f = [c EXCEPT !.posts = IF isMember THEN @ + 1 ELSE @]
    BY <1>4, <1>5 DEF TextChanged
<1>7. ToldBy(c, d, o, k, r, SubSeq(d.text, o + 1, o + k))
    BY <1>1, UserChangeTold
<1> HIDE DEF c
<1>8. ToldBy(c, d, o, k, r, x)
    BY <1>3, <1>5, <1>7, Zenon
<1>9. ByUser(e, d, c, f, isMember, o, r, x)
    BY <1>2, <1>5, <1>6, <1>8 DEF ByUser, k, new
<1> QED
    BY <1>9 DEF f

\* d is what becomes of e by the user's small edit u: the window shows it,
\* the other site is told once, and a member is going to take it back.
UserEdit(e, d, isMember, u) ==
    /\ Fits(u, e.text)
    /\ d \in EditorState
    /\ d.text = After(e.text, u)
    /\ d.tokens = 0 /\ d.out = <<u>> /\ d.crashed = e.crashed
    /\ d.posts = IF isMember THEN e.posts + 1 ELSE e.posts
    /\ isMember => d.undo # <<>> /\ Last(d.undo).text = e.text

\* The key had no effect on the text.
NoEdit(e, d) ==
    /\ d \in EditorState
    /\ d.text = e.text /\ d.tokens = 0 /\ d.out = <<>>
    /\ d.crashed = e.crashed /\ d.posts = e.posts

\* An editor in which the user's change u has been boxed and is told.
LEMMA ToldEdit ==
    ASSUME Wide = {}, NEW e \in EditorState, e.out = <<>>, NEW isMember,
           NEW u, Fits(u, e.text), NEW d, NEW c, NEW f, NEW o, NEW r, NEW x,
           ByUser(e, d, c, f, isMember, o, r, x),
           Edited(e.text, o, r, x) = After(e.text, u),
           c = Queue(d, u) \/ c = [Queue(d, u) EXCEPT !.deletionFlag = FALSE]
    PROVE  UserEdit(e, f, isMember, u)
<1>1. u \in Update
    BY DEF Fits
<1>2. Queue(d, u) = [d EXCEPT !.out = <<u>>]
    <2>1. Append(<<>>, u) = <<u>>
        OBVIOUS
    <2>2. d \in EditorState /\ d.out = <<>>
        BY DEF ByUser, BoxChange
    <2> QED
        BY <1>1, <2>1, <2>2, WirePlain DEF Queue, EditorState
<1>3. <<u>> \in Seq(Update)
    BY <1>1
<1>4. /\ d \in EditorState /\ d.text = After(e.text, u) /\ d.tokens = 0
      /\ d.posts = e.posts /\ d.crashed = e.crashed
      /\ isMember => d.undo # <<>> /\ Last(d.undo).text = e.text
    BY DEF BoxChange, ByUser
<1>5. e.posts \in Nat /\ e.posts + 1 \in Nat
    BY DEF EditorState
<1>6. /\ c \in EditorState /\ c.text = d.text /\ c.tokens = d.tokens
      /\ c.out = <<u>> /\ c.crashed = d.crashed /\ c.undo = d.undo
      /\ c.posts = d.posts
    BY <1>2, <1>3, <1>4 DEF EditorState
<1>7. f = [c EXCEPT !.posts = IF isMember THEN @ + 1 ELSE @]
    BY DEF ByUser
<1>8. /\ f \in EditorState /\ f.text = c.text /\ f.tokens = c.tokens
      /\ f.out = c.out /\ f.crashed = c.crashed /\ f.undo = c.undo
      /\ f.posts = IF isMember THEN c.posts + 1 ELSE c.posts
    BY <1>4, <1>5, <1>6, <1>7 DEF EditorState
<1> QED
    BY <1>4, <1>6, <1>8 DEF UserEdit

\* A typed character, with at most one character selected.
LEMMA TypeKeyEdits ==
    ASSUME Wide = {}, NEW e \in EditorState, e.tokens = 0, e.out = <<>>,
           NEW isMember, NEW from \in Nat, NEW to \in Nat, from <= to,
           to <= Len(e.text), to - from <= 1, NEW c \in Char \ {NewLine}
    PROVE  \E u : UserEdit(e, TypeKey(e, isMember, from, to, c), isMember, u)
<1> DEFINE r == to - from
           x == <<c>>
           u == IF r = 0 THEN Plus(from, x) ELSE Swap(from, r, x)
           f == Change(e, isMember, from, r, x)
<1>1. r \in {0, 1} /\ r \in Nat /\ from + r <= Len(e.text)
          /\ Len(e.text) \in Nat
    BY LenProperties DEF EditorState, Text
<1>2. x \in Text /\ Len(x) = 1 /\ x # <<NewLine>> /\ ~Contains(x, NewLine)
    BY DEF Text, Contains
<1>3. TypeKey(e, isMember, from, to, c) = f
    BY DEF TypeKey
<1> HIDE DEF r, x
<1>4. Fits(u, e.text)
    BY <1>1, <1>2 DEF Fits, Update, Plus, Swap
<1>5. Edited(e.text, from, r, x) = After(e.text, u)
    BY DEF After, Plus, Swap
<1>6. PICK d, m : ByUser(e, d, m, f, isMember, from, r, x)
    BY <1>1, <1>2, ChangeByUser
<1> HIDE DEF f
<1>7. m = Queue(d, u) \/ m = [Queue(d, u) EXCEPT !.deletionFlag = FALSE]
    BY <1>1, <1>2, <1>6 DEF ByUser, ToldBy
<1> HIDE DEF u
<1>8. UserEdit(e, f, isMember, u)
    BY <1>4, <1>5, <1>6, <1>7, ToldEdit
<1> QED
    BY <1>3, <1>8

\* Backspace, with at most one character selected.
LEMMA BackKeyEdits ==
    ASSUME Wide = {}, NEW e \in EditorState, e.tokens = 0, e.out = <<>>,
           NEW isMember, NEW from \in Nat, NEW to \in Nat, from <= to,
           to <= Len(e.text), to - from <= 1
    PROVE  LET f == BackKey(e, isMember, from, to)
           IN  NoEdit(e, f) \/ \E u : UserEdit(e, f, isMember, u)
<1> DEFINE a == [e EXCEPT !.deletionFlag = TRUE]
           f == BackKey(e, isMember, from, to)
           o == IF from < to THEN from ELSE from - 1
           u == Cut(o, 1)
           g == Change(a, isMember, o, 1, <<>>)
<1>0. Len(e.text) \in Nat
    BY LenProperties DEF EditorState, Text
<1>1. /\ a \in EditorState /\ a.text = e.text /\ a.tokens = 0
      /\ a.out = <<>> /\ a.deletionFlag = TRUE /\ a.crashed = e.crashed
      /\ a.posts = e.posts
    BY DEF EditorState
<1>2. /\ from < to \/ (from = to /\ from > 0) => f = g
      /\ ~(from < to) /\ ~(from = to /\ from > 0) => f = a
    <2>1. from < to => to - from = 1
        OBVIOUS
    <2> QED
        BY <2>1 DEF BackKey
<1> HIDE DEF a, f
<1>3. ASSUME from < to \/ (from = to /\ from > 0)
      PROVE  \E v : UserEdit(e, g, isMember, v)
    <2>1. o \in Nat /\ 1 \in Nat /\ o + 1 <= Len(a.text)
              /\ o < Len(e.text)
        BY <1>0, <1>1, <1>3
    <2> HIDE DEF o
    <2>2. <<>> \in Text /\ Len(<<>>) = 0
        BY EmptySeq DEF Text
    <2>3. Fits(u, a.text)
        BY <1>1, <2>1, <2>2 DEF Fits, Update, Cut
    <2>4. Edited(a.text, o, 1, <<>>) = After(a.text, u)
        BY DEF After, Cut
    <2>5. PICK d, c : ByUser(a, d, c, g, isMember, o, 1, <<>>)
        BY <1>1, <2>1, <2>2, ChangeByUser, Zenon
    <2>6. c = [Queue(d, u) EXCEPT !.deletionFlag = FALSE]
        BY <1>1, <2>2, <2>5 DEF ByUser, ToldBy
    <2> HIDE DEF u, g
    <2>7. UserEdit(a, g, isMember, u)
        BY <1>1, <2>3, <2>4, <2>5, <2>6, ToldEdit
    <2>8. UserEdit(e, g, isMember, u)
        BY <1>1, <2>7 DEF UserEdit
    <2> QED
        BY <2>8
<1>4. NoEdit(e, a)
    BY <1>1 DEF NoEdit
<1> QED
    BY <1>2, <1>3, <1>4 DEF f

\* The Enter key: the handler sets the whole text, which TextChanged does
\* not tell, and then queues the newline itself.
LEMMA EnterKeyEdits ==
    ASSUME Wide = {}, NEW e \in EditorState, e.tokens = 0, e.out = <<>>,
           NEW isMember, NEW from \in Nat, from <= Len(e.text)
    PROVE  \E u : UserEdit(e, EnterKey(e, isMember, from), isMember, u)
<1> DEFINE x   == <<NewLine>>
           u   == Plus(from, x)
           new == Edited(e.text, from, 0, x)
           n   == Len(e.text)
           g   == Change(e, isMember, 0, n, new)
           f   == EnterKey(e, isMember, from)
<1>0. e.text \in Text /\ n \in Nat /\ 0 \in Nat
    BY LenProperties DEF EditorState, Text
<1>1. x \in Text /\ Len(x) = 1
    BY CharAssumption DEF Text
<1>2. Fits(u, e.text) /\ new = After(e.text, u)
    BY <1>1 DEF Fits, Update, Plus, After
<1>3. /\ new \in Text /\ Len(new) = n + 1 /\ new[from + 1] = NewLine
      /\ n = 0 => new = x
    <2>1. EditOf(new, e.text, from, 0, x)
        <3>1. from + 0 <= Len(e.text)
            OBVIOUS
        <3> QED
            BY <1>0, <1>1, <3>1, EditedText, Zenon
    <2>2. from + 1 \in 1 .. n - 0 + 1 /\ from + 1 - from = 1
        BY <1>0
    <2>3. new \in Text /\ Len(new) = n + 1 /\ new[from + 1] = x[1]
        BY <1>0, <1>1, <2>1, <2>2 DEF EditOf
    <2>4. ASSUME n = 0 PROVE new = x
        <3>1. from = 0
            BY <2>4
        <3> QED
            BY <1>0, <1>1, <2>4, <3>1, WholeReplaced
    <2> QED
        BY <2>3, <2>4
<1>4. f = Queue(g, u)
    <2>1. new # e.text
        BY <1>0, <1>3
    <2> QED
        BY <2>1 DEF EnterKey, SetText, Plus
<1> HIDE DEF x, u, new, n, f
<1>5. Edited(e.text, 0, n, new) = new
    BY <1>0, <1>3, WholeReplaced DEF n
<1>6. 0 + n <= Len(e.text)
    BY <1>0 DEF n
<1>7. PICK d, c : ByUser(e, d, c, g, isMember, 0, n, new)
    BY <1>0, <1>3, <1>6, ChangeByUser, Zenon
<1> HIDE DEF g
<1>8. c = d \/ c = [d EXCEPT !.deletionFlag = FALSE]
    <2>0. from + 1 \in 1 .. Len(new) /\ new[from + 1] = NewLine
        BY <1>0, <1>3 DEF x, n
    <2>1. Contains(new, NewLine)
        BY <2>0 DEF Contains
    <2> QED
        BY <1>0, <1>3, <1>7, <2>1 DEF ByUser, ToldBy, x
<1>9. /\ d \in EditorState /\ d.text = new /\ d.tokens = 0 /\ d.out = <<>>
      /\ d.posts = e.posts /\ d.crashed = e.crashed
      /\ isMember => d.undo # <<>> /\ Last(d.undo).text = e.text
    BY <1>5, <1>7 DEF ByUser, BoxChange
<1>10. /\ c \in EditorState /\ c.text = new /\ c.tokens = 0 /\ c.out = <<>>
       /\ c.posts = e.posts /\ c.crashed = e.crashed /\ c.undo = d.undo
    BY <1>8, <1>9 DEF EditorState
<1>11. g = [c EXCEPT !.posts = IF isMember THEN @ + 1 ELSE @]
    BY <1>7 DEF ByUser
<1>12. /\ g \in EditorState /\ g.text = new /\ g.tokens = 0 /\ g.out = <<>>
       /\ g.posts = IF isMember THEN e.posts + 1 ELSE e.posts
       /\ g.crashed = e.crashed /\ g.undo = d.undo
    <2>1. e.posts \in Nat /\ e.posts + 1 \in Nat
        BY DEF EditorState
    <2> QED
        BY <1>10, <1>11, <2>1 DEF EditorState
<1>13. u \in Update /\ Append(<<>>, u) = <<u>> /\ <<u>> \in Seq(Update)
    BY <1>2 DEF Fits
<1>14. f = [g EXCEPT !.out = <<u>>]
    BY <1>4, <1>12, <1>13, WirePlain DEF Queue
<1>15. UserEdit(e, f, isMember, u)
    BY <1>2, <1>9, <1>12, <1>13, <1>14 DEF UserEdit, EditorState
<1> QED
    BY <1>15 DEF f

-----------------------------------------------------------------------------
(* What an update of the other site does to the editor it arrives at.      *)

\* How many tokens wait while the textUpdater thread holds update u.
Announced(u) == IF u.action \in {"+", "-"} THEN 1 ELSE 0

\* d is e with the text t and no token left; nothing is queued or posted.
UpdateMade(e, d, t) ==
    /\ d \in EditorState
    /\ d.text = t /\ d.tokens = 0 /\ d.out = e.out /\ d.posts = e.posts
    /\ d.crashed = e.crashed

\* d is e with the text t and one token less.
OneTokenLess(e, d, t) ==
    /\ d \in EditorState
    /\ d.text = t /\ d.tokens = e.tokens - 1 /\ d.out = e.out
    /\ d.posts = e.posts /\ d.crashed = e.crashed

\* Removing one character of the text, wherever the caret is.
LEMMA RemovesOne ==
    ASSUME NEW e \in EditorState, NEW isMember, e.tokens # 0,
           NEW o \in Nat, o < Len(e.text), NEW prev \in Nat
    PROVE  OneTokenLess(e, Removal(e, isMember, o, 1, prev),
                        Edited(e.text, o, 1, <<>>))
<1> DEFINE n   == Len(e.text)
           cut == Edited(e.text, o, 1, <<>>)
           f   == Removal(e, isMember, o, 1, prev)
<1>0. /\ e.text \in Text /\ n \in Nat /\ <<>> \in Text /\ Len(<<>>) = 0
      /\ o + 1 <= Len(e.text) /\ 1 \in Nat
    BY LenProperties, EmptySeq DEF EditorState, Text
<1>1. cut \in Text /\ Len(cut) = n - 1
    <2>1. EditOf(cut, e.text, o, 1, <<>>)
        BY <1>0, EditedText, Zenon
    <2> QED
        BY <1>0, <2>1 DEF EditOf
<1>2. f = SetText(e, isMember, cut)
    <2>1. ASSUME n = 1 PROVE cut = <<>>
        <3>1. o = 0
            BY <2>1
        <3> QED
            BY <1>0, <2>1, <3>1, WholeReplaced
    <2>2. /\ ~(o <= n /\ n # 0 /\ o + 1 > n)
          /\ ~(o < prev /\ prev - 1 < 0)
        BY <1>0
    <2> HIDE DEF cut
    <2> QED
        BY <1>0, <2>1, <2>2 DEF Removal, cut
<1> HIDE DEF cut, f
<1>3. cut # e.text
    BY <1>0, <1>1
<1>4. OneTokenLess(e, f, cut)
    BY <1>1, <1>2, <1>3, AnnouncedChange DEF OneTokenLess
<1> QED
    BY <1>4 DEF cut, f

\* Inserting one character in the text.
LEMMA InsertsOne ==
    ASSUME NEW e \in EditorState, NEW isMember, e.tokens # 0,
           NEW o \in Nat, o <= Len(e.text), NEW x \in Text, Len(x) = 1
    PROVE  OneTokenLess(e, Insertion(e, isMember, o, x),
                        Edited(e.text, o, 0, x))
<1> DEFINE new == Edited(e.text, o, 0, x)
           f   == Insertion(e, isMember, o, x)
<1>0. e.text \in Text /\ Len(e.text) \in Nat /\ 0 \in Nat
          /\ o + 0 <= Len(e.text)
    BY LenProperties DEF EditorState, Text
<1>1. new \in Text /\ Len(new) = Len(e.text) + 1
    <2>1. EditOf(new, e.text, o, 0, x)
        BY <1>0, EditedText, Zenon
    <2> QED
        BY <1>0, <2>1 DEF EditOf
<1>2. f = SetText(e, isMember, new)
    BY <1>0 DEF Insertion
<1> HIDE DEF new, f
<1>3. new # e.text
    BY <1>0, <1>1
<1>4. OneTokenLess(e, f, new)
    BY <1>1, <1>2, <1>3, AnnouncedChange DEF OneTokenLess
<1> QED
    BY <1>4 DEF new, f

\* A small update that fits is made without a crash, uses up the tokens it
\* was given and is not taken for an edit of the user's.
LEMMA SmallUpdate ==
    ASSUME NEW e \in EditorState, NEW isMember, NEW u, Fits(u, e.text),
           e.tokens = Announced(u), ~e.crashed, NEW prev \in Nat
    PROVE  UpdateMade(e, ApplyUpdate(e, isMember, u, prev), After(e.text, u))
<1> DEFINE o == u.offset
           f == ApplyUpdate(e, isMember, u, prev)
<1>0. /\ e.text \in Text /\ Len(e.text) \in Nat /\ <<>> \in Text
      /\ o \in Nat /\ u.text \in Text
    BY LenProperties, EmptySeq, AfterText DEF EditorState, Text
<1>1. CASE u.action = "+"
    <2>1. e.tokens = 1 /\ u.removed = 0 /\ Len(u.text) = 1
              /\ o <= Len(e.text)
        BY <1>1 DEF Announced, Fits
    <2>2. OneTokenLess(e, Insertion(e, isMember, o, u.text),
                       Edited(e.text, o, 0, u.text))
        BY <1>0, <2>1, InsertsOne
    <2>3. f = Insertion(e, isMember, o, u.text)
        BY <1>1 DEF ApplyUpdate
    <2> QED
        BY <2>1, <2>2, <2>3 DEF UpdateMade, OneTokenLess, After
<1>2. CASE u.action = "-"
    <2>1. e.tokens = 1 /\ u.removed = 1 /\ u.text = <<>>
              /\ o < Len(e.text)
        BY <1>2 DEF Announced, Fits
    <2>2. OneTokenLess(e, Removal(e, isMember, o, 1, prev),
                       Edited(e.text, o, 1, <<>>))
        BY <1>0, <2>1, RemovesOne
    <2>3. f = Removal(e, isMember, o, 1, prev)
        BY <1>2, <2>1 DEF ApplyUpdate
    <2> QED
        BY <2>1, <2>2, <2>3 DEF UpdateMade, OneTokenLess, After
<1>3. CASE u.action = "="
    <2> DEFINE a == [e EXCEPT !.tokens = @ + 2]
               c == Removal(a, isMember, o, 1, prev)
               t == Edited(e.text, o, 1, <<>>)
    <2>1. e.tokens = 0 /\ u.removed = 1 /\ Len(u.text) = 1
              /\ o < Len(e.text) /\ o + 1 <= Len(e.text)
        BY <1>0, <1>3 DEF Announced, Fits
    <2>2. /\ a \in EditorState /\ a.tokens = 2 /\ a.text = e.text
          /\ a.out = e.out /\ a.posts = e.posts /\ a.crashed = e.crashed
        BY <2>1 DEF EditorState
    <2>3. f = IF c.crashed THEN c ELSE Insertion(c, isMember, o, u.text)
        BY <1>3, <2>1 DEF ApplyUpdate
    <2> HIDE DEF a
    <2>4. OneTokenLess(a, c, t)
        BY <1>0, <2>1, <2>2, RemovesOne
    <2>5. Len(t) = Len(e.text) - 1
        <3>1. EditOf(t, e.text, o, 1, <<>>)
            BY <1>0, <2>1, EditedText, 1 \in Nat, Zenon
        <3>2. Len(<<>>) = 0
            OBVIOUS
        <3> QED
            BY <1>0, <3>1, <3>2 DEF EditOf
    <2>6. Edited(t, o, 0, u.text) = After(e.text, u)
        BY <1>0, <2>1, RemoveThenInsert DEF After
    <2> HIDE DEF c, t
    <2>7. c \in EditorState /\ c.tokens = 1 /\ c.text = t /\ ~c.crashed
              /\ o <= Len(c.text)
        BY <1>0, <2>1, <2>2, <2>4, <2>5 DEF OneTokenLess
    <2>8. OneTokenLess(c, Insertion(c, isMember, o, u.text),
                       Edited(t, o, 0, u.text))
        BY <1>0, <2>1, <2>7, InsertsOne
    <2>9. f = Insertion(c, isMember, o, u.text)
        BY <2>3, <2>7
    <2> QED
        BY <2>2, <2>4, <2>6, <2>7, <2>8, <2>9 DEF UpdateMade, OneTokenLess
<1> QED
    BY <1>1, <1>2, <1>3 DEF Fits, Update

\* A posted Undo gives the text of the newest unit back and leaves tokens,
\* queue and everything else alone, also while an update is announced.
LEMMA UndoRestores ==
    ASSUME NEW e \in EditorState, NEW isMember, e.posts > 0,
           e.tokens \in {0, 1}, e.undo # <<>>
    PROVE  LET d == RunUndo(e, isMember)
           IN  /\ d \in EditorState
               /\ d.text = Last(e.undo).text /\ d.tokens = e.tokens
               /\ d.out = e.out /\ d.posts = e.posts - 1
               /\ d.crashed = e.crashed
<1> DEFINE unit == Last(e.undo)
           a == [e EXCEPT !.posts = @ - 1, !.tokens = @ + 1,
                          !.text = unit.text, !.undo = Front(@)]
           d == RunUndo(e, isMember)
<1>1. d \in EditorState
    BY RunUndoType
<1>2. d = TextChanged(a, isMember, unit.offset, unit.removed, unit.added)
    BY DEF RunUndo, EditorState
<1>3. /\ a.tokens = e.tokens + 1 /\ a.text = unit.text /\ a.out = e.out
      /\ a.posts = e.posts - 1 /\ a.crashed = e.crashed
    BY DEF EditorState
<1>4. a.tokens # 0
    BY <1>3
<1>5. d = [a EXCEPT !.tokens = @ - 1]
    BY <1>2, <1>4 DEF TextChanged
<1>6. /\ d.text = a.text /\ d.tokens = a.tokens - 1 /\ d.out = a.out
      /\ d.posts = a.posts /\ d.crashed = a.crashed
    BY <1>5 DEF EditorState
<1> HIDE DEF a, d, unit
<1> QED
    BY <1>1, <1>3, <1>6 DEF d, unit
=============================================================================
