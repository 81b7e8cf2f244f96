------------------------ MODULE SharedEditingProofs ------------------------
(***************************************************************************)
(* Theorems about a whole session, SharedEditing, for every alphabet, text *)
(* the session starts from, number of key presses and, unless stated       *)
(* otherwise, every set of keys, users and UDP faults.  What UpdateRelay's *)
(* own steps preserve is taken from UpdateRelayProofs, what the functions  *)
(* of an editor preserve from EditorProofs.                                *)
(***************************************************************************)
EXTENDS SharedEditing, EditorProofs

RP == INSTANCE UpdateRelayProofs

-----------------------------------------------------------------------------
(* The relay of the session is the relay the theorems of UpdateRelayProofs *)
(* are about.                                                              *)

\* A step of the relay in which no editor queues anything.
RelayStep == \/ \E s \in Site : Relay!Take(s)
             \/ Relay!Threads
             \/ Relay!Network
             \/ UNCHANGED relayVars

\* The same names mean the same.
LEMMA SameState ==
    /\ Relay!TypeOK = RP!TypeOK
    /\ Relay!Message = RP!Message
    /\ Relay!PendingBar = RP!PendingBar /\ Relay!InboxBar = RP!InboxBar
BY DEF Relay!TypeOK, RP!TypeOK, Relay!Site, RP!Site, Relay!Message,
       RP!Message, Relay!Host, RP!Host, Relay!Member, RP!Member,
       Relay!PendingBar, RP!PendingBar, Relay!InboxBar, RP!InboxBar

\* Every step of the relay is one of the relay the theorems are about.
LEMMA SameSteps == RelayStep => [RP!Next]_RP!vars
<1>1. ASSUME NEW s \in Site, Relay!Take(s) PROVE \E t \in RP!Site : RP!Take(t)
    BY <1>1 DEF Relay!Take, RP!Take, Site, Host, Member, RP!Site, RP!Host,
                RP!Member
<1>2. Relay!Threads => RP!Threads
    BY DEF Relay!Threads, RP!Threads, Relay!Host, RP!Host, Relay!Member,
           RP!Member, Relay!Broadcast, RP!Broadcast,
           Relay!HostScanner, Relay!HostListener, Relay!DistributorBroadcast,
           Relay!DistributorToIDE, Relay!MemberScanner, Relay!MemberListener,
           Relay!MemberForward, RP!HostScanner, RP!HostListener,
           RP!DistributorBroadcast, RP!DistributorToIDE, RP!MemberScanner,
           RP!MemberListener, RP!MemberForward
<1>3. Relay!Network => RP!Network
    BY DEF Relay!Network, RP!Network, Relay!Site, RP!Site, Relay!Host,
           RP!Host, Relay!Member, RP!Member, Relay!Lose, RP!Lose,
           Relay!Duplicate, RP!Duplicate, Relay!Reorder, RP!Reorder,
           Relay!NetBecomes, RP!NetBecomes, Relay!RemoveAt, RP!RemoveAt,
           Relay!InFlight, RP!InFlight
<1>4. UNCHANGED relayVars => UNCHANGED RP!vars
    BY DEF relayVars, RP!vars
<1> QED
    BY <1>1, <1>2, <1>3, <1>4 DEF RelayStep, RP!Next

\* UpdateRelay's assumptions about its constants hold of a session's.
LEMMA RelayAssumptions == RP!FaultsAssumption /\ RP!BoundAssumption
    BY SessionAssumption DEF RP!FaultsAssumption, RP!BoundAssumption

\* Relay steps keep the queues well-typed.
LEMMA RelayType == Relay!TypeOK /\ RelayStep => Relay!TypeOK'
<1>1. RP!TypeOK /\ [RP!Next]_RP!vars => RP!TypeOK'
    BY RelayAssumptions, RP!StepTypeOK
<1>2. (Relay!TypeOK)' = (RP!TypeOK)'
    BY DEF Relay!TypeOK, RP!TypeOK, Relay!Site, RP!Site, Relay!Message,
           RP!Message, Relay!Host, RP!Host, Relay!Member, RP!Member
<1> QED
    BY <1>1, <1>2, SameState, SameSteps

-----------------------------------------------------------------------------
(* Updates a turn of the UI thread queues.                                 *)

\* They are messages of the site they are made at, and the queue they are
\* put at the end of stays a queue of messages.
LEMMA QueuedMessages ==
    ASSUME NEW s \in Site, NEW us \in Seq(Update), Relay!TypeOK,
           Relay!AddTextChanges(s, us)
    PROVE  \E ms \in Seq(Relay!Message) :
               /\ Len(ms) = Len(us)
               /\ \A i \in 1 .. Len(us) : ms[i] = [from |-> s, body |-> us[i]]
               /\ textChanges[s] \o ms \in Seq(Relay!Message)
               /\ textChanges' = [textChanges EXCEPT ![s] = @ \o ms]
               /\ UNCHANGED <<textUpdates, net, updateDelivery, distributing,
                              updateIDE>>
<1> DEFINE ms == [i \in 1 .. Len(us) |-> [from |-> s, body |-> us[i]]]
<1>1. Len(us) \in Nat
    BY LenProperties
<1>2. ASSUME NEW i \in 1 .. Len(us)
      PROVE  [from |-> s, body |-> us[i]] \in Relay!Message
    <2>1. us[i] \in Update
        BY ElementOfSeq
    <2> QED
        BY <2>1 DEF Relay!Message, Site, Host, Member, Relay!Site, Relay!Host,
                    Relay!Member
<1>3. ms \in Seq(Relay!Message) /\ Len(ms) = Len(us)
    BY <1>1, <1>2
<1>4. textChanges[s] \in Seq(Relay!Message)
    BY DEF Relay!TypeOK, Site, Host, Member, Relay!Site, Relay!Host,
           Relay!Member
<1>5. textChanges' = [textChanges EXCEPT ![s] = @ \o ms]
    BY DEF Relay!AddTextChanges
<1>6. \A i \in 1 .. Len(us) : ms[i] = [from |-> s, body |-> us[i]]
    OBVIOUS
<1> HIDE DEF ms
<1>7. textChanges[s] \o ms \in Seq(Relay!Message)
    BY <1>3, <1>4, ConcatProperties
<1> QED
    BY <1>3, <1>5, <1>6, <1>7 DEF Relay!AddTextChanges

\* A turn keeps the queues well-typed.
LEMMA TurnType ==
    ASSUME NEW s \in Site, NEW us \in Seq(Update), Relay!TypeOK,
           Relay!AddTextChanges(s, us)
    PROVE  Relay!TypeOK'
<1>1. PICK ms \in Seq(Relay!Message) :
          /\ textChanges[s] \o ms \in Seq(Relay!Message)
          /\ textChanges' = [textChanges EXCEPT ![s] = @ \o ms]
          /\ UNCHANGED <<textUpdates, net, updateDelivery, distributing,
                         updateIDE>>
    BY QueuedMessages
<1>2. textChanges' = [textChanges EXCEPT ![s] = textChanges[s] \o ms]
    BY <1>1
<1> DEFINE q == textChanges[s] \o ms
<1>3. q \in Seq(Relay!Message) /\ textChanges' = [textChanges EXCEPT ![s] = q]
    BY <1>1, <1>2
<1> HIDE DEF q
<1> QED
    BY <1>1, <1>3 DEF Relay!TypeOK, Relay!Site, Relay!Host, Relay!Member

-----------------------------------------------------------------------------
(* Type correctness.  The editors need more than their types: a posted     *)
(* Undo gives back the text of an undo unit and reports the range of that  *)
(* unit in it, so every unit on a stack has to be restorable.              *)

Settled == {e \in EditorState : e.out = <<>>}

TypeInv == /\ Relay!TypeOK
           /\ ide \in [Site -> Settled]
           /\ holding \in [Site -> Seq(Work)]
           /\ presses \in 0 .. MaxEdits
           /\ intended \in Text

\* It is stronger than the type invariant.
LEMMA TypeInvImplies == TypeInv => TypeOK
<1> SUFFICES ASSUME TypeInv PROVE TypeOK
    OBVIOUS
<1>1. ASSUME NEW s \in Site PROVE ide[s] \in Ide
    <2> DEFINE e == ide[s]
               U == [text : Text, offset : Nat, added : Nat, removed : Nat]
    <2>1. e \in EditorState /\ e.out = <<>>
        BY DEF TypeInv, Settled
    <2>2. e.undo \in Seq(U)
        <3>1. e.undo \in Seq(Restorable)
            BY <2>1 DEF EditorState
        <3>2. Restorable \subseteq U
            BY DEF Restorable, Unit
        <3> HIDE DEF U, e
        <3> QED
            BY <3>1, <3>2, SeqMonotonic
    <2> HIDE DEF e, U
    <2>3. e \in [text : Text, tokens : Int, deletionFlag : BOOLEAN,
                 undo : Seq(U), posts : Nat, out : {<<>>},
                 crashed : BOOLEAN]
        BY <2>1, <2>2 DEF EditorState
    <2> QED
        BY <2>3 DEF Ide, U, e
<1>2. ide \in [Site -> Ide]
    BY <1>1 DEF TypeInv
<1> QED
    BY <1>2 DEF TypeInv, TypeOK

\* A session starts well-typed.
LEMMA InitTypeInv == Init => TypeInv
<1> SUFFICES ASSUME Init PROVE TypeInv
    OBVIOUS
<1>1. Relay!TypeOK
    <2>1. <<>> \in Seq(Relay!Message)
        BY EmptySeq
    <2> QED
        BY <2>1 DEF Init, Relay!Init, Relay!TypeOK
<1>0. ASSUME NEW s \in Site
      PROVE  StartText[s] \in Text /\ StartLoads[s] \in Nat
    BY SessionAssumption DEF Site, Host, Member
<1>2. \A s \in Site : NewEditor(StartText[s], StartLoads[s]) \in EditorState
    BY <1>0, NewEditorType
<1>3. \A s \in Site : NewEditor(StartText[s], StartLoads[s]).out = <<>>
    BY DEF NewEditor
<1>4. ide \in [Site -> Settled]
    BY <1>2, <1>3 DEF Init, Settled
<1>5. holding \in [Site -> Seq(Work)]
    <2>1. <<>> \in Seq(Work)
        BY EmptySeq
    <2> QED
        BY <2>1 DEF Init
<1> QED
    BY <1>0, <1>1, <1>4, <1>5, SessionAssumption DEF Init, TypeInv, Site

\* A turn of the UI thread that leaves a well-formed editor behind keeps
\* editors and queues well-typed.
LEMMA TurnKeepsTypes ==
    ASSUME TypeInv, NEW s \in Site, NEW e \in EditorState, Turn(s, e)
    PROVE  Relay!TypeOK' /\ ide' \in [Site -> Settled]
<1>1. e.out \in Seq(Update)
    BY DEF EditorState
<1>2. Relay!TypeOK'
    BY <1>1, TurnType DEF Turn, TypeInv
<1>3. [e EXCEPT !.out = <<>>] \in Settled
    <2>1. <<>> \in Seq(Update)
        BY EmptySeq
    <2> QED
        BY <2>1 DEF Settled, EditorState
<1> QED
    BY <1>2, <1>3 DEF Turn, TypeInv

\* A key press, whatever the key.
LEMMA PressKeepsTypes ==
    ASSUME TypeInv, NEW s \in Site, NEW key, NEW e \in EditorState,
           Press(s, key, e)
    PROVE  TypeInv'
<1>1. Relay!TypeOK' /\ ide' \in [Site -> Settled]
    BY TurnKeepsTypes DEF Press
<1>2. presses' \in 0 .. MaxEdits /\ intended' \in Text /\ holding' = holding
    BY SessionAssumption DEF Press, TypeInv, EditorState
<1> QED
    BY <1>1, <1>2 DEF TypeInv

\* A window of a well-typed session is a well-formed editor.
LEMMA Windows ==
    ASSUME TypeInv, NEW s \in Site
    PROVE  /\ ide[s] \in EditorState /\ ide[s].out = <<>>
           /\ ide[s].text \in Text /\ Len(ide[s].text) \in Nat
BY LenProperties DEF TypeInv, Settled, EditorState, Text

Pressed == \E s \in Site, key \in {"type", "enter", "back", "delete"},
              e \in EditorState : Press(s, key, e)

\* A key press ends with a well-formed editor, whatever the key.
LEMMA KeyPress == ASSUME TypeInv, Keyboard PROVE Pressed
<1>e. \A s \in Site : ide[s] \in EditorState /\ Len(ide[s].text) \in Nat
    BY Windows
<1>1. ASSUME NEW t \in Site, NEW sel \in Selections(t)
      PROVE  /\ sel[1] \in Nat /\ sel[2] \in Nat /\ sel[1] <= sel[2]
             /\ sel[2] <= Len(ide[t].text)
    BY <1>e DEF Selections
<1>2. ASSUME NEW t \in Site, PressType(t) PROVE Pressed
    <2>1. PICK sel \in Selections(t), c \in Char \ {NewLine, Unknown} :
              Press(t, "type",
                    TypeKey(ide[t], t = Member, sel[1], sel[2], c))
        BY <1>2 DEF PressType
    <2>2. TypeKey(ide[t], t = Member, sel[1], sel[2], c) \in EditorState
        BY <1>e, <1>1, TypeKeyType
    <2> QED
        BY <2>1, <2>2 DEF Pressed
<1>3. ASSUME NEW t \in Site, PressEnter(t) PROVE Pressed
    <2>1. PICK from \in 0 .. Len(ide[t].text) :
              Press(t, "enter", EnterKey(ide[t], t = Member, from))
        BY <1>3 DEF PressEnter
    <2>2. EnterKey(ide[t], t = Member, from) \in EditorState
        BY <1>e, EnterKeyType
    <2> QED
        BY <2>1, <2>2 DEF Pressed
<1>4. ASSUME NEW t \in Site, PressBack(t) PROVE Pressed
    <2>1. PICK sel \in Selections(t) :
              Press(t, "back",
                    BackKey(ide[t], t = Member, sel[1], sel[2]))
        BY <1>4 DEF PressBack
    <2>2. BackKey(ide[t], t = Member, sel[1], sel[2]) \in EditorState
        BY <1>e, <1>1, RemovalKeysType
    <2> QED
        BY <2>1, <2>2 DEF Pressed
<1>5. ASSUME NEW t \in Site, PressDelete(t) PROVE Pressed
    <2>1. PICK sel \in Selections(t) :
              Press(t, "delete",
                    DeleteKey(ide[t], t = Member, sel[1], sel[2]))
        BY <1>5 DEF PressDelete
    <2>2. DeleteKey(ide[t], t = Member, sel[1], sel[2]) \in EditorState
        BY <1>e, <1>1, RemovalKeysType
    <2> QED
        BY <2>1, <2>2 DEF Pressed
<1> QED
    BY <1>2, <1>3, <1>4, <1>5 DEF Keyboard

\* Every step is a turn of the UI thread of a site or a step of the relay.
LEMMA TurnOrRelay ==
    ASSUME TypeInv, [Next]_vars
    PROVE  (\E s \in Site, e \in EditorState : Turn(s, e)) \/ RelayStep
<1>1. CASE Keyboard
    BY <1>1, KeyPress DEF Pressed, Press
<1>2. ASSUME NEW s \in Site, RunPostedUndo(s)
      PROVE  \E e \in EditorState : Turn(s, e)
    BY <1>2, Windows, RunUndoType DEF RunPostedUndo
<1>3. ASSUME NEW s \in Site, Fetch(s) PROVE RelayStep
    BY <1>3 DEF Fetch, RelayStep
<1>4. ASSUME NEW s \in Site, Apply(s)
      PROVE  \E e \in EditorState : Turn(s, e)
    <2> DEFINE w == Head(holding[s])
    <2>1. w \in Work
        BY <1>4, HeadTailProperties DEF Apply, TypeInv
    <2>2. Turn(s, ApplyUpdate(ide[s], s = Member, w.u, w.prev))
        BY <1>4 DEF Apply
    <2> HIDE DEF w
    <2> QED
        BY <2>1, <2>2, Windows, ApplyUpdateType DEF Work
<1>5. CASE HostThreads \/ MemberThreads \/ Network
    BY <1>5 DEF HostThreads, MemberThreads, Network, RelayStep, Relay!Threads
<1>6. CASE UNCHANGED vars
    BY <1>6 DEF vars, RelayStep
<1> QED
    BY <1>1, <1>2, <1>3, <1>4, <1>5, <1>6 DEF Next, Finished

\* No step takes an editor, a queue or the update in hand out of its type.
LEMMA StepTypeInv == TypeInv /\ [Next]_vars => TypeInv'
<1> SUFFICES ASSUME TypeInv, [Next]_vars PROVE TypeInv'
    OBVIOUS
<1>e. \A s \in Site : /\ ide[s] \in EditorState /\ Len(ide[s].text) \in Nat
                      /\ ide[s].text \in Text
    BY LenProperties DEF TypeInv, Settled, EditorState, Text
<1>0. Relay!TypeOK'
    BY TurnOrRelay, TurnKeepsTypes, RelayType DEF TypeInv
<1>1. CASE Keyboard
    BY <1>1, KeyPress, PressKeepsTypes DEF Pressed
<1>2. ASSUME NEW s \in Site, RunPostedUndo(s) PROVE TypeInv'
    <2>1. RunUndo(ide[s], s = Member) \in EditorState
        BY <1>2, <1>e, RunUndoType DEF RunPostedUndo
    <2>2. Relay!TypeOK' /\ ide' \in [Site -> Settled]
        BY <1>2, <2>1, TurnKeepsTypes DEF RunPostedUndo
    <2> QED
        BY <1>2, <2>2 DEF RunPostedUndo, TypeInv
<1>3. ASSUME NEW s \in Site, Fetch(s) PROVE TypeInv'
    <2> DEFINE u == Head(textUpdates[s]).body
    <2>1. Relay!TypeOK'
        BY <1>3, RelayType DEF Fetch, RelayStep, TypeInv
    <2>2. u \in Update
        <3>1. textUpdates[s] \in Seq(Relay!Message) /\ textUpdates[s] # <<>>
            BY <1>3 DEF Fetch, Relay!Take, TypeInv, Relay!TypeOK, Site, Host,
                        Member, Relay!Site, Relay!Host, Relay!Member
        <3>2. Head(textUpdates[s]) \in Relay!Message
            BY <3>1, HeadTailProperties
        <3> QED
            BY <3>2 DEF Relay!Message
    <2>3. PICK prev \in IF u.action = "+" THEN {0}
                        ELSE 0 .. Len(ide[s].text) :
              holding' = [holding EXCEPT ![s] = <<[u |-> u, prev |-> prev]>>]
        BY <1>3 DEF Fetch
    <2>4. ide' = [ide EXCEPT ![s] = Announce(@, u)]
        BY <1>3 DEF Fetch
    <2>5. presses' = presses /\ intended' = intended
        BY <1>3 DEF Fetch
    <2> HIDE DEF u
    <2>6. [u |-> u, prev |-> prev] \in Work
        BY <1>e, <2>2 DEF Work
    <2>7. holding' \in [Site -> Seq(Work)]
        BY <2>3, <2>6 DEF TypeInv
    <2>8. Announce(ide[s], u) \in Settled
        <3>1. Announce(ide[s], u) \in EditorState
            BY <1>e, AnnounceType
        <3>2. Announce(ide[s], u).out = ide[s].out
            BY <1>e DEF Announce, EditorState
        <3> QED
            BY <3>1, <3>2 DEF Settled, TypeInv
    <2>9. ide' \in [Site -> Settled]
        BY <2>4, <2>8 DEF TypeInv
    <2> QED
        BY <2>1, <2>5, <2>7, <2>9 DEF TypeInv
<1>4. ASSUME NEW s \in Site, Apply(s) PROVE TypeInv'
    <2> DEFINE w == Head(holding[s])
    <2>1. w \in Work
        BY <1>4, HeadTailProperties DEF Apply, TypeInv
    <2>2. Turn(s, ApplyUpdate(ide[s], s = Member, w.u, w.prev))
        BY <1>4 DEF Apply
    <2> HIDE DEF w
    <2>3. w.u \in Update /\ w.prev \in Nat
        BY <2>1 DEF Work
    <2>4. ApplyUpdate(ide[s], s = Member, w.u, w.prev) \in EditorState
        BY <1>e, <2>3, ApplyUpdateType
    <2>5. Relay!TypeOK' /\ ide' \in [Site -> Settled]
        BY <2>2, <2>4, TurnKeepsTypes
    <2>6. holding' \in [Site -> Seq(Work)]
        <3>1. <<>> \in Seq(Work)
            BY EmptySeq
        <3> QED
            BY <1>4, <3>1 DEF Apply, TypeInv
    <2> QED
        BY <1>4, <2>5, <2>6 DEF Apply, TypeInv
<1>5. CASE HostThreads \/ MemberThreads \/ Network
    <2>1. RelayStep /\ UNCHANGED <<ide, holding, presses, intended>>
        BY <1>5 DEF HostThreads, MemberThreads, Network, RelayStep,
                    Relay!Threads
    <2> QED
        BY <2>1, RelayType DEF TypeInv
<1>6. CASE UNCHANGED vars
    <2>1. RelayStep /\ UNCHANGED <<ide, holding, presses, intended>>
        BY <1>6 DEF vars, RelayStep
    <2> QED
        BY <2>1, RelayType DEF TypeInv
<1> QED
    BY <1>1, <1>2, <1>3, <1>4, <1>5, <1>6 DEF Next, Finished

\* Whatever the users type, wherever an update or an Undo lands and whatever
\* UDP does, editors stay editors: no unit of an undo stack is ever one that
\* could not be restored.
THEOREM SessionTypeCorrect == Spec => []TypeOK
    BY InitTypeInv, StepTypeInv, TypeInvImplies, PTL DEF Spec

-----------------------------------------------------------------------------
(* A posted Undo finds an edit of the session.  What has to be shown is    *)
(* that the counter of a member that has posted one is not below zero: its *)
(* Undo would be taken for an edit of the user's, and post the next.       *)

Backed(e) == e.posts <= Len(e.undo) /\ (e.posts > 0 => e.tokens >= 0)

\* There is a unit more on the stack than Undos posted.
Spare(e) == e.posts < Len(e.undo) /\ (e.posts > 0 => e.tokens >= 0)

\* Telling the other site touches neither the stack nor the two counters.
LEMMA UserChangeCounts ==
    ASSUME NEW e \in EditorState, NEW o, NEW added \in Nat,
           NEW removed \in Nat
    PROVE  LET d == UserChange(e, o, added, removed)
           IN  d.undo = e.undo /\ d.posts = e.posts /\ d.tokens = e.tokens
<1>1. CASE removed = 0
    BY <1>1 DEF UserChange, Queue, EditorState
<1>2. CASE added > 0 /\ removed > 0
    BY <1>2 DEF UserChange, Queue, EditorState
<1>3. CASE added = 0 /\ removed > 0
    BY <1>3 DEF UserChange, Queue, EditorState
<1> QED
    BY <1>1, <1>2, <1>3

\* The event posts an Undo for the unit that is new, or uses up a token.
LEMMA TextChangedBacked ==
    ASSUME NEW e \in EditorState, NEW o \in Nat, NEW added \in Nat,
           NEW removed \in Nat, o + added <= Len(e.text), Spare(e)
    PROVE  Backed(TextChanged(e, TRUE, o, added, removed))
<1> DEFINE d == UserChange(e, o, added, removed)
<1>1. /\ d \in EditorState /\ d.undo = e.undo /\ d.posts = e.posts
      /\ d.tokens = e.tokens
    BY UserChangeType, UserChangeCounts
<1>2. e.posts \in Nat /\ e.tokens \in Int /\ Len(e.undo) \in Nat
    BY LenProperties DEF EditorState
<1> DEFINE after == TextChanged(e, TRUE, o, added, removed)
<1>3. after = IF e.tokens = 0 THEN [d EXCEPT !.posts = d.posts + 1]
                              ELSE [e EXCEPT !.tokens = e.tokens - 1]
    BY DEF TextChanged
<1> HIDE DEF d, after
<1>4. ASSUME e.tokens = 0 PROVE Backed(after)
    <2>1. after.posts = e.posts + 1 /\ after.undo = e.undo /\ after.tokens = 0
        BY <1>1, <1>3, <1>4 DEF EditorState
    <2> QED
        BY <1>2, <2>1 DEF Spare, Backed
<1>5. ASSUME e.tokens # 0 PROVE Backed(after)
    <2>1. /\ after.posts = e.posts /\ after.undo = e.undo
          /\ after.tokens = e.tokens - 1
        BY <1>3, <1>5 DEF EditorState
    <2> QED
        BY <1>2, <1>5, <2>1 DEF Spare, Backed
<1> QED
    BY <1>4, <1>5 DEF after

\* A change of the box puts a unit on the stack first.
LEMMA ChangeBacked ==
    ASSUME NEW e \in EditorState, NEW o \in Nat, NEW removed \in Nat,
           o + removed <= Len(e.text), NEW x \in Text, Backed(e)
    PROVE  Backed(Change(e, TRUE, o, removed, x))
<1> DEFINE unit == [text |-> e.text, offset |-> o, added |-> Len(x),
                    removed |-> removed]
           new  == Edited(e.text, o, removed, x)
           d    == [e EXCEPT !.text = new, !.undo = Append(e.undo, unit)]
<1>1. e.text \in Text /\ Len(e.text) \in Nat /\ Len(x) \in Nat
    BY LenProperties DEF EditorState, Text
<1>2. new \in Text /\ Len(new) = Len(e.text) - removed + Len(x)
    <2>1. EditOf(new, e.text, o, removed, x)
        BY <1>1, EditedText
    <2> HIDE DEF new
    <2> QED
        BY <2>1 DEF EditOf
<1>3. unit \in Restorable
    BY <1>1 DEF Restorable, Unit
<1>4. Change(e, TRUE, o, removed, x) = TextChanged(d, TRUE, o, Len(x), removed)
    BY DEF Change
<1> HIDE DEF unit, new
<1>5. /\ Append(e.undo, unit) \in Seq(Restorable) /\ Len(e.undo) \in Nat
      /\ Len(Append(e.undo, unit)) = Len(e.undo) + 1
    BY <1>3, AppendProperties, LenProperties DEF EditorState
<1>6. /\ d \in EditorState /\ d.text = new /\ d.undo = Append(e.undo, unit)
      /\ d.posts = e.posts /\ d.tokens = e.tokens
    BY <1>2, <1>5 DEF EditorState
<1> HIDE DEF d
<1>7. e.posts \in Nat
    BY DEF EditorState
<1>8. Spare(d)
    BY <1>5, <1>6, <1>7 DEF Spare, Backed
<1>9. o + Len(x) <= Len(d.text)
    BY <1>1, <1>2, <1>6
<1> QED
    BY <1>1, <1>4, <1>6, <1>8, <1>9, TextChangedBacked

\* The program sets the whole text.
LEMMA SetTextBacked ==
    ASSUME NEW e \in EditorState, NEW t \in Text, Backed(e)
    PROVE  Backed(SetText(e, TRUE, t))
<1>1. Len(e.text) \in Nat /\ 0 + Len(e.text) <= Len(e.text)
    BY LenProperties DEF EditorState, Text
<1>2. Backed(Change(e, TRUE, 0, Len(e.text), t))
    BY <1>1, ChangeBacked
<1> QED
    BY <1>2 DEF SetText

\* The keys, on the selection [from, to).
LEMMA KeysBacked ==
    ASSUME NEW e \in EditorState, NEW from \in Nat, NEW to \in Nat,
           from <= to, to <= Len(e.text), NEW c \in Char, Backed(e)
    PROVE  /\ Backed(TypeKey(e, TRUE, from, to, c))
           /\ Backed(EnterKey(e, TRUE, from))
           /\ Backed(BackKey(e, TRUE, from, to))
           /\ Backed(DeleteKey(e, TRUE, from, to))
<1> DEFINE flagged == [e EXCEPT !.deletionFlag = TRUE]
<1>1. /\ Len(e.text) \in Nat /\ e.text \in Text /\ <<>> \in Text
      /\ <<c>> \in Text
    BY LenProperties, EmptySeq DEF EditorState, Text
<1>2. to - from \in Nat /\ from + (to - from) <= Len(e.text)
    BY <1>1
<1>3. /\ flagged \in EditorState /\ flagged.text = e.text
      /\ flagged.posts = e.posts /\ flagged.tokens = e.tokens
      /\ flagged.undo = e.undo
    BY DEF EditorState
<1> HIDE DEF flagged
<1>4. Backed(flagged)
    BY <1>3 DEF Backed
<1>5. Backed(TypeKey(e, TRUE, from, to, c))
    BY <1>1, <1>2, ChangeBacked DEF TypeKey
<1>6. \A d \in {e, flagged} :
          /\ Backed(Change(d, TRUE, from, to - from, <<>>))
          /\ from > 0 => Backed(Change(d, TRUE, from - 1, 1, <<>>))
          /\ from < Len(e.text) => Backed(Change(d, TRUE, from, 1, <<>>))
    <2>1. SUFFICES ASSUME NEW d \in {e, flagged}
                   PROVE  /\ Backed(Change(d, TRUE, from, to - from, <<>>))
                          /\ from > 0 =>
                                 Backed(Change(d, TRUE, from - 1, 1, <<>>))
                          /\ from < Len(e.text) =>
                                 Backed(Change(d, TRUE, from, 1, <<>>))
        OBVIOUS
    <2>2. d \in EditorState /\ d.text = e.text /\ Backed(d)
        BY <1>3, <1>4
    <2>3. Backed(Change(d, TRUE, from, to - from, <<>>))
        BY <1>1, <1>2, <2>2, ChangeBacked
    <2>4. ASSUME from > 0 PROVE Backed(Change(d, TRUE, from - 1, 1, <<>>))
        <3>1. from - 1 \in Nat /\ from - 1 + 1 <= Len(d.text)
            BY <1>1, <2>2, <2>4
        <3> QED
            BY <1>1, <2>2, <3>1, ChangeBacked
    <2>5. ASSUME from < Len(e.text)
          PROVE  Backed(Change(d, TRUE, from, 1, <<>>))
        <3>1. from + 1 <= Len(d.text)
            BY <1>1, <2>2, <2>5
        <3> QED
            BY <1>1, <2>2, <3>1, ChangeBacked
    <2> QED
        BY <2>3, <2>4, <2>5
<1>7. Backed(BackKey(e, TRUE, from, to)) /\ Backed(DeleteKey(e, TRUE, from, to))
    BY <1>3, <1>4, <1>6 DEF BackKey, DeleteKey, flagged
<1>8. Backed(EnterKey(e, TRUE, from))
    <2> DEFINE new == Edited(e.text, from, 0, <<NewLine>>)
               d   == SetText(e, TRUE, new)
               u   == [action |-> "+", offset |-> from, removed |-> 0,
                       text |-> <<NewLine>>]
    <2>1. new \in Text
        <3>1. from + 0 <= Len(e.text) /\ <<NewLine>> \in Text
            BY <1>1, CharAssumption DEF Text
        <3>2. EditOf(new, e.text, from, 0, <<NewLine>>)
            BY <1>1, <3>1, EditedText
        <3> HIDE DEF new
        <3> QED
            BY <3>2 DEF EditOf
    <2>2. EnterKey(e, TRUE, from) = Queue(d, u)
        BY DEF EnterKey
    <2> HIDE DEF new
    <2>3. d \in EditorState /\ Backed(d)
        BY <2>1, SetTextType, SetTextBacked
    <2> HIDE DEF d, u
    <2>4. /\ Queue(d, u).posts = d.posts /\ Queue(d, u).tokens = d.tokens
          /\ Queue(d, u).undo = d.undo
        BY <2>3 DEF Queue, EditorState
    <2> QED
        BY <2>2, <2>3, <2>4 DEF Backed
<1> QED
    BY <1>5, <1>7, <1>8

\* An Undo takes its unit off the stack and uses up the token it has put
\* down itself.
LEMMA RunUndoBacked ==
    ASSUME NEW e \in EditorState, e.posts > 0, Backed(e)
    PROVE  Backed(RunUndo(e, TRUE))
<1> DEFINE unit == Last(e.undo)
           d == [e EXCEPT !.posts = e.posts - 1, !.tokens = e.tokens + 1,
                          !.text = unit.text, !.undo = Front(e.undo)]
<1>1. e.posts \in Nat \ {0} /\ e.tokens \in Nat
    BY DEF EditorState, Backed
<1>2. e.undo \in Seq(Restorable) /\ Len(e.undo) \in Nat \ {0}
    BY <1>1, LenProperties DEF EditorState, Backed
<1>3. e.undo # <<>>
    BY <1>2
<1>4. Len(Front(e.undo)) = Len(e.undo) - 1
    BY <1>2 DEF Front
<1>5. RunUndo(e, TRUE) =
          TextChanged(d, TRUE, unit.offset, unit.removed, unit.added)
    BY <1>3 DEF RunUndo, EditorState
<1>6. /\ d.posts = e.posts - 1 /\ d.tokens = e.tokens + 1
      /\ d.undo = Front(e.undo)
    BY DEF EditorState
<1> HIDE DEF d, unit
<1>7. d.tokens # 0
    BY <1>1, <1>6
<1> DEFINE after == [d EXCEPT !.tokens = d.tokens - 1]
<1>8. RunUndo(e, TRUE) = after
    BY <1>5, <1>7 DEF TextChanged
<1>9. /\ after.posts = d.posts /\ after.undo = d.undo
      /\ after.tokens = d.tokens - 1
    BY DEF d, EditorState
<1> HIDE DEF after
<1>10. Backed(after)
    BY <1>1, <1>2, <1>4, <1>6, <1>9 DEF Backed
<1> QED
    BY <1>8, <1>10

\* Updates of the host put tokens down before they change the box.
LEMMA AnnounceBacked ==
    ASSUME NEW e \in EditorState, NEW u, NEW n \in Nat, Backed(e)
    PROVE  Backed(Announce(e, u)) /\ Backed([e EXCEPT !.tokens = @ + n])
<1>1. e.tokens \in Int /\ 1 \in Nat
    BY DEF EditorState
<1>2. \A k \in Nat : Backed([e EXCEPT !.tokens = @ + k])
    BY <1>1 DEF Backed, EditorState
<1> QED
    BY <1>1, <1>2 DEF Announce

LEMMA RemovalBacked ==
    ASSUME NEW e \in EditorState, NEW o \in Nat, NEW n \in Nat,
           NEW prev \in Nat, Backed(e)
    PROVE  Backed(Removal(e, TRUE, o, n, prev))
<1>1. e.text \in Text /\ Len(e.text) \in Nat /\ <<>> \in Text
    BY LenProperties, EmptySeq DEF EditorState, Text
<1>2. Backed(Crash(e))
    BY DEF Crash, Backed, EditorState
<1>3. Backed(SetText(e, TRUE, <<>>))
    BY <1>1, SetTextBacked
<1>4. ASSUME o < Len(e.text), o + n <= Len(e.text)
      PROVE  Backed(SetText(e, TRUE, Edited(e.text, o, n, <<>>)))
    <2>1. EditOf(Edited(e.text, o, n, <<>>), e.text, o, n, <<>>)
        BY <1>1, <1>4, EditedText
    <2>2. Edited(e.text, o, n, <<>>) \in Text
        BY <2>1 DEF EditOf
    <2> QED
        BY <2>2, SetTextBacked
<1> DEFINE kept == IF o < Len(e.text)
                   THEN SetText(e, TRUE, Edited(e.text, o, n, <<>>))
                   ELSE e
           badRange == o <= Len(e.text) /\ Len(e.text) # 0 /\ o + n > Len(e.text)
           badCaret == o < prev /\ prev - n < 0
<1>5. ASSUME ~badRange PROVE Backed(kept)
    <2>1. o < Len(e.text) => o + n <= Len(e.text)
        BY <1>1, <1>5
    <2> QED
        BY <1>4, <2>1
<1>6. Removal(e, TRUE, o, n, prev) =
          IF Len(e.text) = 1 THEN SetText(e, TRUE, <<>>)
          ELSE IF badRange \/ badCaret THEN Crash(e) ELSE kept
    BY DEF Removal
<1> HIDE DEF kept, badRange, badCaret
<1> QED
    BY <1>2, <1>3, <1>5, <1>6

LEMMA InsertionBacked ==
    ASSUME NEW e \in EditorState, NEW o \in Nat, NEW t \in Text, Backed(e)
    PROVE  Backed(Insertion(e, TRUE, o, t))
<1>1. e.text \in Text /\ Len(e.text) \in Nat
    BY LenProperties DEF EditorState, Text
<1>2. Backed(Crash(e))
    BY DEF Crash, Backed, EditorState
<1>3. ASSUME o <= Len(e.text)
      PROVE  Backed(SetText(e, TRUE, Edited(e.text, o, 0, t)))
    <2>1. EditOf(Edited(e.text, o, 0, t), e.text, o, 0, t)
        BY <1>1, <1>3, EditedText
    <2>2. Edited(e.text, o, 0, t) \in Text
        BY <2>1 DEF EditOf
    <2> QED
        BY <2>2, SetTextBacked
<1>4. Insertion(e, TRUE, o, t) =
          IF o > Len(e.text) THEN Crash(e)
          ELSE SetText(e, TRUE, Edited(e.text, o, 0, t))
    BY DEF Insertion
<1>5. o > Len(e.text) \/ o <= Len(e.text)
    BY <1>1
<1> QED
    BY <1>2, <1>3, <1>4, <1>5

LEMMA ApplyUpdateBacked ==
    ASSUME NEW e \in EditorState, NEW u \in Update, NEW prev \in Nat,
           Backed(e)
    PROVE  Backed(ApplyUpdate(e, TRUE, u, prev))
<1> DEFINE d == [e EXCEPT !.tokens = @ + 2]
           cut == Removal(d, TRUE, u.offset, u.removed, prev)
<1>1. /\ u.action \in {"+", "-", "="} /\ u.offset \in Nat
      /\ u.removed \in Nat /\ u.text \in Text
    BY DEF Update
<1>2. Backed(Insertion(e, TRUE, u.offset, u.text))
    BY <1>1, InsertionBacked
<1>3. Backed(Removal(e, TRUE, u.offset, u.removed, prev))
    BY <1>1, RemovalBacked
<1>4. d \in EditorState /\ Backed(d)
    <2>1. 2 \in Nat /\ e.tokens + 2 \in Int
        BY DEF EditorState
    <2>2. Backed(d)
        BY <2>1, AnnounceBacked
    <2> QED
        BY <2>1, <2>2 DEF EditorState
<1> HIDE DEF d
<1>5. cut \in EditorState /\ Backed(cut)
    BY <1>1, <1>4, RemovalType, RemovalBacked
<1>6. u.action = "=" =>
          ApplyUpdate(e, TRUE, u, prev) =
              IF cut.crashed THEN cut
              ELSE Insertion(cut, TRUE, u.offset, u.text)
    BY DEF ApplyUpdate, d
<1> HIDE DEF cut
<1>7. Backed(Insertion(cut, TRUE, u.offset, u.text))
    BY <1>1, <1>5, InsertionBacked
<1>8. u.action = "+" =>
          ApplyUpdate(e, TRUE, u, prev) = Insertion(e, TRUE, u.offset, u.text)
    BY DEF ApplyUpdate
<1>9. u.action = "-" =>
          ApplyUpdate(e, TRUE, u, prev) =
              Removal(e, TRUE, u.offset, u.removed, prev)
    BY DEF ApplyUpdate
<1> QED
    BY <1>1, <1>2, <1>3, <1>5, <1>6, <1>7, <1>8, <1>9

\* A turn of the member's UI thread, or of the host's.
LEMMA TurnBacked ==
    ASSUME TypeInv, NEW s \in Site, NEW e, Turn(s, e), Backed(ide[Member]),
           s = Member => e \in EditorState /\ Backed(e)
    PROVE  Backed(ide'[Member])
<1>1. CASE s = Member
    <2> DEFINE d == [e EXCEPT !.out = <<>>]
    <2>1. ide'[Member] = d
        BY <1>1 DEF Turn, TypeInv
    <2>2. d.posts = e.posts /\ d.undo = e.undo /\ d.tokens = e.tokens
        BY <1>1 DEF EditorState
    <2> HIDE DEF d
    <2> QED
        BY <1>1, <2>1, <2>2 DEF Backed
<1>2. CASE s # Member
    BY <1>2 DEF Turn, TypeInv, Site
<1> QED
    BY <1>1, <1>2

\* No step of the session leaves a posted Undo without an edit.
LEMMA StepBacked ==
    TypeInv /\ Backed(ide[Member]) /\ [Next]_vars => Backed(ide'[Member])
<1> SUFFICES ASSUME TypeInv, Backed(ide[Member]), [Next]_vars
             PROVE  Backed(ide'[Member])
    OBVIOUS
<1>e. /\ ide[Member] \in EditorState /\ Len(ide[Member].text) \in Nat
      /\ Member \in Site
    BY Windows DEF Site
<1>1. ASSUME NEW s \in Site, PressType(s) PROVE Backed(ide'[Member])
    <2>1. PICK sel \in Selections(s), c \in Char \ {NewLine, Unknown} :
              Press(s, "type", TypeKey(ide[s], s = Member, sel[1], sel[2], c))
        BY <1>1 DEF PressType
    <2>2. ASSUME s = Member
          PROVE  /\ TypeKey(ide[s], TRUE, sel[1], sel[2], c) \in EditorState
                 /\ Backed(TypeKey(ide[s], TRUE, sel[1], sel[2], c))
        <3>1. /\ sel[1] \in Nat /\ sel[2] \in Nat /\ sel[1] <= sel[2]
              /\ sel[2] <= Len(ide[s].text)
            BY <1>e, <2>2 DEF Selections
        <3> QED
            BY <1>e, <2>2, <3>1, TypeKeyType, KeysBacked
    <2> QED
        BY <2>1, <2>2, TurnBacked DEF Press
<1>2. ASSUME NEW s \in Site, PressEnter(s) PROVE Backed(ide'[Member])
    <2>1. PICK from \in 0 .. Len(ide[s].text) :
              Press(s, "enter", EnterKey(ide[s], s = Member, from))
        BY <1>2 DEF PressEnter
    <2>2. ASSUME s = Member
          PROVE  /\ EnterKey(ide[s], TRUE, from) \in EditorState
                 /\ Backed(EnterKey(ide[s], TRUE, from))
        <3>1. from \in Nat /\ from <= from /\ from <= Len(ide[s].text)
            BY <1>e, <2>2
        <3>2. EnterKey(ide[s], TRUE, from) \in EditorState
            BY <1>e, <2>2, <3>1, EnterKeyType
        <3>3. NewLine \in Char
            BY CharAssumption
        <3>4. Backed(EnterKey(ide[s], TRUE, from))
            BY <1>e, <2>2, <3>1, <3>3, KeysBacked
        <3> QED
            BY <3>2, <3>4
    <2> QED
        BY <2>1, <2>2, TurnBacked DEF Press
<1>3. ASSUME NEW s \in Site, PressBack(s) \/ PressDelete(s)
      PROVE  Backed(ide'[Member])
    <2>1. PICK sel \in Selections(s) :
              \/ Press(s, "back",
                       BackKey(ide[s], s = Member, sel[1], sel[2]))
              \/ Press(s, "delete",
                       DeleteKey(ide[s], s = Member, sel[1], sel[2]))
        BY <1>3 DEF PressBack, PressDelete
    <2>2. ASSUME s = Member
          PROVE  /\ BackKey(ide[s], TRUE, sel[1], sel[2]) \in EditorState
                 /\ Backed(BackKey(ide[s], TRUE, sel[1], sel[2]))
                 /\ DeleteKey(ide[s], TRUE, sel[1], sel[2]) \in EditorState
                 /\ Backed(DeleteKey(ide[s], TRUE, sel[1], sel[2]))
        <3>1. /\ sel[1] \in Nat /\ sel[2] \in Nat /\ sel[1] <= sel[2]
              /\ sel[2] <= Len(ide[s].text)
            BY <1>e, <2>2 DEF Selections
        <3> QED
            BY <1>e, <2>2, <3>1, RemovalKeysType, KeysBacked, CharAssumption
    <2> QED
        BY <2>1, <2>2, TurnBacked DEF Press
<1>4. ASSUME NEW s \in Site, RunPostedUndo(s) PROVE Backed(ide'[Member])
    <2>1. Turn(s, RunUndo(ide[s], s = Member)) /\ ide[s].posts > 0
        BY <1>4 DEF RunPostedUndo
    <2>2. ASSUME s = Member
          PROVE  /\ RunUndo(ide[s], TRUE) \in EditorState
                 /\ Backed(RunUndo(ide[s], TRUE))
        BY <1>e, <2>1, <2>2, RunUndoType, RunUndoBacked
    <2> QED
        BY <2>1, <2>2, TurnBacked
<1>5. ASSUME NEW s \in Site, Fetch(s) PROVE Backed(ide'[Member])
    <2>1. PICK u : ide' = [ide EXCEPT ![s] = Announce(@, u)]
        BY <1>5 DEF Fetch
    <2>2. Backed(Announce(ide[Member], u))
        BY <1>e, AnnounceBacked
    <2> QED
        BY <1>e, <2>1, <2>2 DEF TypeInv
<1>6. ASSUME NEW s \in Site, Apply(s) PROVE Backed(ide'[Member])
    <2> DEFINE w == Head(holding[s])
    <2>1. w \in Work
        BY <1>6, HeadTailProperties DEF Apply, TypeInv
    <2>2. Turn(s, ApplyUpdate(ide[s], s = Member, w.u, w.prev))
        BY <1>6 DEF Apply
    <2> HIDE DEF w
    <2>3. w.u \in Update /\ w.prev \in Nat
        BY <2>1 DEF Work
    <2>4. ASSUME s = Member
          PROVE  /\ ApplyUpdate(ide[s], TRUE, w.u, w.prev) \in EditorState
                 /\ Backed(ApplyUpdate(ide[s], TRUE, w.u, w.prev))
        BY <1>e, <2>3, <2>4, ApplyUpdateType, ApplyUpdateBacked
    <2> QED
        BY <2>2, <2>4, TurnBacked
<1>7. CASE UNCHANGED ide
    BY <1>7
<1> QED
    BY <1>1, <1>2, <1>3, <1>4, <1>5, <1>6, <1>7
    DEF Next, Keyboard, HostThreads, MemberThreads, Network, Finished, vars

\* Whatever is typed, lost, repeated or overtaken, however late an Undo runs
\* and whatever counters the session starts with, every Undo a member posts
\* finds a change of the session on the stack.
THEOREM PostedUndoFinds == Spec => []UndoFindsEdit
<1>1. Init => Backed(ide[Member])
    <2>1. SUFFICES ASSUME Init PROVE Backed(ide[Member])
        OBVIOUS
    <2>2. ide[Member] = NewEditor(StartText[Member], StartLoads[Member])
        BY <2>1 DEF Init, Site
    <2>3. Len(<<>>) = 0
        BY EmptySeq
    <2> QED
        BY <2>2, <2>3 DEF NewEditor, Backed
<1>2. Backed(ide[Member]) => UndoFindsEdit
    BY DEF Backed, UndoFindsEdit
<1>3. TypeInv /\ Backed(ide[Member]) /\ [Next]_vars => (Backed(ide[Member]))'
    BY StepBacked DEF Backed
<1> QED
    BY <1>1, <1>2, <1>3, InitTypeInv, StepTypeInv, PTL DEF Spec
=============================================================================
