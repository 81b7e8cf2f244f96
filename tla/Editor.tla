------------------------------- MODULE Editor -------------------------------
(***************************************************************************)
(* One editor window (Ide.xaml.cs) as functions on its state: what a key   *)
(* press, a posted Undo and an update of the other site do to the text box *)
(* and to the token counter that tells the edits of the user from changes  *)
(* the program itself makes.                                               *)
(*                                                                         *)
(* An editor is a record                                                   *)
(*   text          the text of the box                                     *)
(*   tokens        changes the program is about to make; below zero after  *)
(*                 a change nobody announced                               *)
(*   deletionFlag  Backspace was pressed and nothing was sent since        *)
(*   undo          a member's undo stack, newest last; no code ever calls  *)
(*                 Undo at the host, whose stack is not kept               *)
(*   posts         Undo calls posted to the dispatcher and not yet run     *)
(*   out           updates queued in this turn of the UI thread            *)
(*   crashed       an exception nobody catches has ended the process       *)
(*                                                                         *)
(* The text box is WPF's: a change raises TextChanged at once, is recorded *)
(* for Undo, and setting the text it already has does nothing.             *)
(*                                                                         *)
(* A definition named X_Y is X with a plausible mistake in it: nothing     *)
(* uses it, it is there to show that a property notices the mistake.       *)
(***************************************************************************)
EXTENDS Integers, Sequences, FiniteSets, SequencesExt

CONSTANTS Char,      \* characters
          NewLine,   \* the character of the Enter key
          Wide,      \* characters UTF-8 needs more than one byte for
          Unknown    \* what the ASCII decoder makes of each of those bytes

ASSUME CharAssumption == /\ {NewLine, Unknown} \cup Wide \subseteq Char
                         /\ {NewLine, Unknown} \cap Wide = {}

Text == Seq(Char)

\* An update: "+" inserts text at offset, "-" removes `removed` characters
\* at offset, "=" removes and then inserts.
Update == [action : {"+", "-", "="}, offset : Nat, removed : Nat, text : Text]

Edited(t, offset, removed, added) ==
    SubSeq(t, 1, offset) \o added \o SubSeq(t, offset + removed + 1, Len(t))

\* An update is encoded as UTF-8 and decoded as ASCII: a character of two
\* bytes arrives as two question marks.  byte(i) is where the encoding of
\* the i-th character begins, at(k) the character that is byte k.
Decoded(t) ==
    LET byte(i) == i + Cardinality({j \in 1 .. i - 1 : t[j] \in Wide})
        at(k)   == {i \in 1 .. Len(t) : byte(i) = k /\ t[i] \notin Wide}
    IN  [k \in 1 .. byte(Len(t) + 1) - 1 |->
            IF at(k) = {} THEN Unknown ELSE t[CHOOSE i \in at(k) : TRUE]]

Wire(u) == [u EXCEPT !.text = Decoded(@)]

\* A window opened on text t; loads is how often the box was filled by the
\* program (LoadFileIntoIDE) before the session, each time without a token.
NewEditor(t, loads) ==
    [text |-> t, tokens |-> -loads, deletionFlag |-> FALSE, undo |-> <<>>,
     posts |-> 0, out |-> <<>>, crashed |-> FALSE]

Queue(e, u) == [e EXCEPT !.out = Append(@, Wire(u))]
Crash(e)    == [e EXCEPT !.crashed = TRUE]

-----------------------------------------------------------------------------
(* TextBox_TextChanged, for a change that put `added` characters at offset *)
(* where `removed` characters were.                                        *)

UserChange_AfterChange(e, offset, added, removed) ==
    IF removed = 0
    THEN Queue(e, [action |-> "+", offset |-> offset + added, removed |-> 0,
                   text |-> SubSeq(e.text, offset + 1, offset + added)])
    ELSE e

UserChange_OffByOne(e, offset, added, removed) ==
    IF added = 0 /\ removed > 0 /\ e.deletionFlag
    THEN [Queue(e, [action |-> "-", offset |-> offset - 1,
                    removed |-> removed, text |-> <<>>])
            EXCEPT !.deletionFlag = FALSE]
    ELSE e

\* The change as the update the other site is told, if it is told.
UserChange(e, offset, added, removed) ==
    LET addedText == SubSeq(e.text, offset + 1, offset + added)
    IN  CASE removed = 0 ->
               IF addedText = <<NewLine>> THEN e
               ELSE Queue(e, [action |-> "+", offset |-> offset,
                              removed |-> 0, text |-> addedText])
          [] added > 0 /\ removed > 0 ->
               LET sent == IF Contains(addedText, NewLine) THEN e
                           ELSE Queue(e, [action |-> "=", offset |-> offset,
                                          removed |-> removed,
                                          text |-> addedText])
               IN  [sent EXCEPT !.deletionFlag = FALSE]
          [] added = 0 /\ removed > 0 /\ e.deletionFlag ->
               [Queue(e, [action |-> "-", offset |-> offset,
                          removed |-> removed, text |-> <<>>])
                  EXCEPT !.deletionFlag = FALSE]
          [] OTHER -> e

TextChanged_KeepOwn(e, isMember, offset, added, removed) ==
    IF e.tokens = 0 THEN UserChange(e, offset, added, removed)
    ELSE [e EXCEPT !.tokens = @ - 1]

\* Without a token the change is the user's, and a member takes it back: it
\* comes again with the host's broadcast.  Otherwise it uses up a token,
\* also one that is not there.
TextChanged(e, isMember, offset, added, removed) ==
    IF e.tokens = 0
    THEN [UserChange(e, offset, added, removed)
            EXCEPT !.posts = IF isMember THEN @ + 1 ELSE @]
    ELSE [e EXCEPT !.tokens = @ - 1]

\* Any change of the box: the new text, an undo unit, the event.
Change(e, isMember, offset, removed, addedText) ==
    LET unit == [text |-> e.text, offset |-> offset,
                 added |-> Len(addedText), removed |-> removed]
    IN  TextChanged([e EXCEPT !.text = Edited(@, offset, removed, addedText),
                              !.undo = IF isMember THEN Append(@, unit)
                                                   ELSE @],
                    isMember, offset, Len(addedText), removed)

\* notepad.Text = t: the whole text is replaced.
SetText(e, isMember, t) ==
    IF t = e.text THEN e ELSE Change(e, isMember, 0, Len(e.text), t)

-----------------------------------------------------------------------------
(* Keys, with the selection [from, to) of the box; from = to is a caret.   *)

TypeKey(e, isMember, from, to, c) ==
    Change(e, isMember, from, to - from, <<c>>)

\* notepad_PreviewKeyDown inserts the newline itself, at the start of the
\* selection, which it leaves in place, and queues an update of its own.
EnterKey(e, isMember, from) ==
    Queue(SetText(e, isMember, Edited(e.text, from, 0, <<NewLine>>)),
          [action |-> "+", offset |-> from, removed |-> 0,
           text |-> <<NewLine>>])

BackKey_NoFlag(e, isMember, from, to) ==
    CASE from < to            -> Change(e, isMember, from, to - from, <<>>)
      [] from = to /\ from > 0 -> Change(e, isMember, from - 1, 1, <<>>)
      [] OTHER                 -> e

\* Nothing before the caret: the flag stays set.
BackKey(e, isMember, from, to) ==
    LET flagged == [e EXCEPT !.deletionFlag = TRUE]
    IN  CASE from < to            -> Change(flagged, isMember, from, to - from, <<>>)
          [] from = to /\ from > 0 -> Change(flagged, isMember, from - 1, 1, <<>>)
          [] OTHER                 -> flagged

\* The handlers know nothing of the Delete key.
DeleteKey(e, isMember, from, to) ==
    CASE from < to                      -> Change(e, isMember, from, to - from, <<>>)
      [] from = to /\ from < Len(e.text) -> Change(e, isMember, from, 1, <<>>)
      [] OTHER                           -> e

-----------------------------------------------------------------------------
(* The Undo a member posts in TextBox_TextChanged, when the dispatcher     *)
(* runs it.                                                                *)

RunUndo_NoToken(e, isMember) ==
    LET posted == [e EXCEPT !.posts = @ - 1]
        unit   == Last(e.undo)
    IN  IF e.undo = <<>> THEN posted
        ELSE TextChanged([posted EXCEPT !.text = unit.text,
                                        !.undo = Front(@)],
                         isMember, unit.offset, unit.removed, unit.added)

RunUndo(e, isMember) ==
    LET posted == [e EXCEPT !.posts = @ - 1]
        unit   == Last(e.undo)
    IN  IF e.undo = <<>> THEN posted
        ELSE TextChanged([posted EXCEPT !.tokens = @ + 1,
                                        !.text   = unit.text,
                                        !.undo   = Front(@)],
                         isMember, unit.offset, unit.removed, unit.added)

-----------------------------------------------------------------------------
(* textUpdater: an update of the other site.  prev is the caret position   *)
(* the thread has read before it asks the dispatcher for the change.       *)

Announce_Always(e, u) == [e EXCEPT !.tokens = @ + 1]

\* The token of "+" and "-" is put down as soon as the update is parsed.
Announce(e, u) ==
    IF u.action \in {"+", "-"} THEN [e EXCEPT !.tokens = @ + 1] ELSE e

\* Remove(offset, n) and then the caret, back by n if it was behind offset.
Removal(e, isMember, offset, n, prev) ==
    LET len      == Len(e.text)
        kept     == IF offset < len
                    THEN SetText(e, isMember, Edited(e.text, offset, n, <<>>))
                    ELSE e
        badRange == offset <= len /\ len # 0 /\ offset + n > len
        badCaret == offset < prev /\ prev - n < 0
    IN  IF len = 1 THEN SetText(e, isMember, <<>>)
        ELSE IF badRange \/ badCaret THEN Crash(e)
        ELSE kept

Insertion(e, isMember, offset, t) ==
    IF offset > Len(e.text) THEN Crash(e)
    ELSE SetText(e, isMember, Edited(e.text, offset, 0, t))

\* The dispatcher runs the change of an announced update.
ApplyUpdate(e, isMember, u, prev) ==
    CASE u.action = "+" -> Insertion(e, isMember, u.offset, u.text)
      [] u.action = "-" -> Removal(e, isMember, u.offset, u.removed, prev)
      [] u.action = "=" ->
           LET cut == Removal([e EXCEPT !.tokens = @ + 2], isMember,
                              u.offset, u.removed, prev)
           IN  IF cut.crashed THEN cut
               ELSE Insertion(cut, isMember, u.offset, u.text)
=============================================================================
