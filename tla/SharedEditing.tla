---------------------------- MODULE SharedEditing ----------------------------
(***************************************************************************)
(* A running session: the editors of host and member, each driven by its   *)
(* user, by the Undo it posts to its own dispatcher and by its textUpdater *)
(* thread, and the relay of UpdateRelay between them.                      *)
(*                                                                         *)
(* The text box, the dispatcher and its priorities are WPF's.  A key press *)
(* waits for an Undo that was posted before it (input has the lower        *)
(* priority); a change requested with Dispatcher.Invoke may overtake both. *)
(***************************************************************************)
EXTENDS Editor

CONSTANTS Writers,      \* the sites whose user types
          Keys,         \* the keys they use
          MaxSelect,    \* bound: longest selection they make
          MaxEdits,     \* bound: key presses of the whole session
          TurnTaking,   \* they leave each other alone: see Undisturbed
          PromptUndo,   \* a posted Undo runs before the next remote change
          StartText,    \* the text each site starts from
          StartLoads,   \* times it was loaded into the box of each site
          Faults,       \* what UDP may do
          MaxInFlight   \* bound: no duplicates beyond this many in flight

ASSUME SessionAssumption ==
    /\ Writers \subseteq {"host", "member"}
    /\ Keys \subseteq {"type", "enter", "back", "delete"}
    /\ MaxSelect \in Nat /\ MaxEdits \in Nat
    /\ TurnTaking \in BOOLEAN /\ PromptUndo \in BOOLEAN
    /\ StartText \in [{"host", "member"} -> Text]
    /\ StartLoads \in [{"host", "member"} -> Nat]
    /\ Faults \subseteq {"lose", "duplicate", "reorder"}
    /\ MaxInFlight \in Nat

VARIABLES textChanges, textUpdates, net, updateDelivery, distributing,
          updateIDE,     \* the relay
          ide,           \* per site: the editor
          holding,       \* per site: the update textUpdater is working on
          presses,       \* key presses so far
          intended       \* ghost: the text the last key press aimed at

relayVars == <<textChanges, textUpdates, net, updateDelivery, distributing,
               updateIDE>>
vars == <<relayVars, ide, holding, presses, intended>>

Relay == INSTANCE UpdateRelay

Host   == "host"
Member == "member"
Site   == {Host, Member}

\* The caret textUpdater has read goes with the update it has parsed.
Work == [u : Update, prev : Nat]

Ide == [text : Text, tokens : Int, deletionFlag : BOOLEAN,
        undo : Seq([text : Text, offset : Nat, added : Nat, removed : Nat]),
        posts : Nat, out : {<<>>}, crashed : BOOLEAN]

TypeOK == /\ Relay!TypeOK
          /\ ide \in [Site -> Ide]
          /\ holding \in [Site -> Seq(Work)]
          /\ presses \in 0 .. MaxEdits
          /\ intended \in Text

\* setOtherUser has run at both sites.  A member's box may have been filled
\* with the first file (setConent), which takes its counter below zero; an
\* empty file arrives as the text "0".
Init == /\ Relay!Init
        /\ ide = [s \in Site |-> NewEditor(StartText[s], StartLoads[s])]
        /\ holding = [s \in Site |-> <<>>]
        /\ presses = 0
        /\ intended = StartText[Host]

Alive(s) == ~ide[s].crashed

\* Nothing is under way: every key press has had all its effects.
Quiet == /\ Relay!Drained
         /\ \A s \in Site : holding[s] = <<>> /\ ide[s].posts = 0

\* What s sees is not about to change, except by what its own user has done.
\* A host may go on typing while its updates travel; a member, whose edits
\* come back to it, waits until all is quiet.
Undisturbed(s) == \/ Quiet
                  \/ /\ s = Host
                     /\ Relay!PendingBar[Member] = <<>>
                     /\ Relay!InboxBar[Host] = <<>>
                     /\ holding[Host] = <<>>
                     /\ ide[Member].posts = 0

-----------------------------------------------------------------------------
(* Turns of the UI thread of s: the editor becomes e and what it has       *)
(* queued on the way goes into TextChangesQueue.                           *)

Turn(s, e) == /\ ide' = [ide EXCEPT ![s] = [e EXCEPT !.out = <<>>]]
              /\ Relay!AddTextChanges(s, e.out)

Press(s, key, e) ==
    /\ key \in Keys
    /\ s \in Writers
    /\ Alive(s)
    /\ ide[s].posts = 0
    /\ presses < MaxEdits
    /\ TurnTaking => Undisturbed(s)
    /\ Turn(s, e)
    /\ presses' = presses + 1
    /\ intended' = e.text
    /\ UNCHANGED holding

Selections(s) ==
    {sel \in (0 .. Len(ide[s].text)) \X (0 .. Len(ide[s].text)) :
        sel[1] <= sel[2] /\ sel[2] - sel[1] <= MaxSelect}

PressType(s) == \E sel \in Selections(s), c \in Char \ {NewLine, Unknown} :
    Press(s, "type", TypeKey(ide[s], s = Member, sel[1], sel[2], c))

PressEnter(s) == \E from \in 0 .. Len(ide[s].text) :
    Press(s, "enter", EnterKey(ide[s], s = Member, from))

PressBack(s) == \E sel \in Selections(s) :
    Press(s, "back", BackKey(ide[s], s = Member, sel[1], sel[2]))

PressDelete(s) == \E sel \in Selections(s) :
    Press(s, "delete", DeleteKey(ide[s], s = Member, sel[1], sel[2]))

RunPostedUndo(s) ==
    /\ Alive(s)
    /\ ide[s].posts > 0
    /\ Turn(s, RunUndo(ide[s], s = Member))
    /\ UNCHANGED <<holding, presses, intended>>

-----------------------------------------------------------------------------
(* The textUpdater thread.                                                 *)

\* GetLastUpdate, the parse, the caret and the token of "+" and "-".  The
\* user may have put the caret anywhere; only a removal depends on it.
Fetch(s) ==
    /\ Alive(s)
    /\ holding[s] = <<>>
    /\ Relay!Take(s)
    /\ LET u == Head(textUpdates[s]).body
       IN  /\ \E prev \in IF u.action = "+" THEN {0}
                          ELSE 0 .. Len(ide[s].text) :
                  holding' = [holding EXCEPT ![s] = <<[u |-> u, prev |-> prev]>>]
           /\ ide' = [ide EXCEPT ![s] = Announce(@, u)]
    /\ UNCHANGED <<presses, intended>>

\* Dispatcher.Invoke: the UI thread makes the change, the thread waits.
Apply(s) ==
    /\ Alive(s)
    /\ holding[s] # <<>>
    /\ PromptUndo => ide[s].posts = 0
    /\ LET w == Head(holding[s])
       IN  Turn(s, ApplyUpdate(ide[s], s = Member, w.u, w.prev))
    /\ holding' = [holding EXCEPT ![s] = <<>>]
    /\ UNCHANGED <<presses, intended>>

-----------------------------------------------------------------------------
(* The relay, as long as the process its thread belongs to is alive.       *)

HostThreads == /\ Alive(Host)
               /\ \/ Relay!HostScanner
                  \/ Relay!HostListener
                  \/ Relay!DistributorBroadcast
                  \/ Relay!DistributorToIDE
               /\ UNCHANGED <<ide, holding, presses, intended>>

MemberThreads == /\ Alive(Member)
                 /\ \/ Relay!MemberScanner
                    \/ Relay!MemberListener
                    \/ Relay!MemberForward
                 /\ UNCHANGED <<ide, holding, presses, intended>>

Network == /\ Relay!Network
           /\ UNCHANGED <<ide, holding, presses, intended>>

Finished == /\ Quiet \/ \E s \in Site : ~Alive(s)
            /\ UNCHANGED vars

Keyboard == \E s \in Site : \/ PressType(s)
                            \/ PressEnter(s)
                            \/ PressBack(s)
                            \/ PressDelete(s)

Next == \/ Keyboard
        \/ \E s \in Site : RunPostedUndo(s) \/ Fetch(s) \/ Apply(s)
        \/ HostThreads
        \/ MemberThreads
        \/ Network
        \/ Finished

Spec == Init /\ [][Next]_vars

\* Users owe nothing.  The dispatcher runs what is posted to it, and every
\* thread is a loop that is scheduled again and again; the four (three)
\* threads of a site share a fairness conjunct each.
Running(s, A) == Alive(s) /\ A /\ UNCHANGED <<ide, holding, presses, intended>>

Fairness ==
    /\ \A s \in Site : /\ WF_vars(RunPostedUndo(s))
                       /\ WF_vars(Fetch(s))
                       /\ WF_vars(Apply(s))
    /\ WF_vars(Running(Host, Relay!HostScanner))
    /\ WF_vars(Running(Host, Relay!HostListener))
    /\ WF_vars(Running(Host, Relay!DistributorBroadcast))
    /\ WF_vars(Running(Host, Relay!DistributorToIDE))
    /\ WF_vars(Running(Member, Relay!MemberScanner))
    /\ WF_vars(Running(Member, Relay!MemberListener))
    /\ WF_vars(Running(Member, Relay!MemberForward))

FairSpec == Spec /\ Fairness

-----------------------------------------------------------------------------
(* What the users of a session rely on.                                    *)

\* No update ever ends one of the two programs.
NoCrash == \A s \in Site : Alive(s)

\* Once everything has settled both windows show the same text.
Converged == Quiet => ide[Host].text = ide[Member].text

\* ... the text the last key press aimed at, in the window it was made in.
IntentPreserved == Quiet => \A s \in Site : ide[s].text = intended

\* Once everything has settled no editor is left with a token, or owes one:
\* it would take the next key press for a change of the program.
TokensBalanced == Quiet => \A s \in Site : ide[s].tokens = 0

\* Whatever a key press sets off comes to an end: the two editors do not go
\* on answering each other's updates for ever.
Settles == []<>(Quiet \/ ~NoCrash)

\* The updates on their way to the window of s, the one in hand first.
Bodies(q) == [i \in 1 .. Len(q) |-> q[i].body]

ToCome(s) == [i \in 1 .. Len(holding[s]) |-> holding[s][i].u]
             \o Bodies(Relay!InboxBar[s]
                       \o IF s = Host THEN <<>> ELSE textChanges[Host])

\* What the updates us make of the text t.
Result(t, us) ==
    LET after[n \in 0 .. Len(us)] ==
            IF n = 0 THEN t
            ELSE LET u == us[n]
                 IN  Edited(after[n - 1], u.offset,
                            IF u.action = "+" THEN 0 ELSE u.removed, u.text)
    IN  after[Len(us)]

\* At every moment each window and the updates on their way to it add up to
\* the same text, except while an edit of the member waits to be undone.
SameText ==
    ide[Member].posts = 0 =>
        Result(ide[Host].text, ToCome(Host))
            = Result(ide[Member].text, ToCome(Member))

\* Every Undo that is posted finds a change of this session to take back:
\* with remote updates on the stack, with an Undo that runs late, and with a
\* counter that a loaded file has left below zero, no Undo is left over to
\* reach for what the box held before the session.
UndoFindsEdit == ide[Member].posts <= Len(ide[Member].undo)
=============================================================================
