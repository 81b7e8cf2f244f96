-------------------------- MODULE TurnTakingProofs --------------------------
(***************************************************************************)
(* Theorems about a session whose users leave each other alone: what       *)
(* SharedEditing promises them, for every alphabet without wide            *)
(* characters, every text they start from and any number of key presses.   *)
(*                                                                         *)
(* The argument: there is one text T, the one the host has ordered.  What  *)
(* each window shows, its pending Undo and the update in its textUpdater's *)
(* hands taken into account, leads to T by the updates on their way to it, *)
(* each of which fits the text it meets.  An edit of the member that the   *)
(* host has not ordered yet fits T, and is alone on all paths.             *)
(***************************************************************************)
EXTENDS SharedEditingProofs, WellFoundedInduction

-----------------------------------------------------------------------------
(* Texts and the updates that lead from one to the next.                   *)

\* The texts p begin with t and end with T, and each message of q makes the
\* next one of them: an edit of at most one character that lies within it.
Steps(p, t, q, T) ==
    /\ p \in Seq(Text) /\ Len(p) = Len(q) + 1
    /\ p[1] = t /\ p[Len(q) + 1] = T
    /\ \A i \in 1 .. Len(q) : /\ Fits(q[i].body, p[i])
                              /\ p[i + 1] = After(p[i], q[i].body)

Leads(t, q, T) == \E p \in Seq(Text) : Steps(p, t, q, T)

\* A text leads to itself when nothing is on its way, and to no other.
LEMMA LeadsNowhere ==
    ASSUME NEW t \in Text
    PROVE  Leads(t, <<>>, t) /\ \A T : Leads(t, <<>>, T) => t = T
<1> DEFINE p == <<t>>
           none == <<>>
<1>1. p \in Seq(Text) /\ Len(p) = 1 /\ p[1] = t /\ Len(none) = 0
    OBVIOUS
<1> HIDE DEF p, none
<1>2. Steps(p, t, none, t)
    BY <1>1 DEF Steps
<1>3. Leads(t, none, t)
    BY <1>1, <1>2 DEF Leads
<1>4. ASSUME NEW T, Leads(t, none, T) PROVE t = T
    BY <1>1, <1>4 DEF Leads, Steps
<1> QED
    BY <1>3, <1>4 DEF none

\* One more update that fits where the others lead.
LEMMA LeadsFurther ==
    ASSUME NEW M, NEW t, NEW q \in Seq(M), NEW T \in Text, Leads(t, q, T),
           NEW m \in M, Fits(m.body, T)
    PROVE  Leads(t, q \o <<m>>, After(T, m.body))
<1> DEFINE n == Len(q)
           x == After(T, m.body)
           r == q \o <<m>>
<1>1. PICK p \in Seq(Text) : Steps(p, t, q, T)
    BY DEF Leads
<1> DEFINE w == Append(p, x)
<1>2. x \in Text
    BY AfterText
<1>3. n \in Nat /\ Len(p) = n + 1
    BY <1>1, LenProperties DEF Steps
<1>4. /\ r \in Seq(M) /\ Len(r) = n + 1 /\ r[n + 1] = m
      /\ \A i \in 1 .. n : r[i] = q[i]
    BY <1>3
<1> HIDE DEF x, r
<1>5. /\ w \in Seq(Text) /\ Len(w) = n + 2 /\ w[n + 2] = x
      /\ \A i \in 1 .. n + 1 : w[i] = p[i]
    BY <1>2, <1>3, AppendProperties
<1> HIDE DEF w, n
<1>6. w[1] = t /\ w[n + 1] = T
    BY <1>1, <1>3, <1>5 DEF Steps, n
<1>7. ASSUME NEW i \in 1 .. Len(r)
      PROVE  Fits(r[i].body, w[i]) /\ w[i + 1] = After(w[i], r[i].body)
    <2>1. CASE i \in 1 .. n
        <3>1. /\ r[i] = q[i] /\ w[i] = p[i] /\ w[i + 1] = p[i + 1]
            BY <1>3, <1>4, <1>5, <2>1
        <3>2. Fits(q[i].body, p[i]) /\ p[i + 1] = After(p[i], q[i].body)
            BY <1>1, <2>1 DEF Steps, n
        <3> QED
            BY <3>1, <3>2
    <2>2. CASE i = n + 1
        <3>1. r[i] = m /\ w[i] = T /\ w[i + 1] = x
            BY <1>3, <1>4, <1>5, <1>6, <2>2
        <3> QED
            BY <3>1 DEF x
    <2> QED
        BY <1>3, <1>4, <2>1, <2>2
<1>8. Len(r) + 1 = n + 2 /\ Len(w) = Len(r) + 1
    BY <1>3, <1>4, <1>5
<1>9. Steps(w, t, r, x)
    BY <1>5, <1>6, <1>7, <1>8 DEF Steps
<1>10. Leads(t, r, x)
    BY <1>5, <1>9 DEF Leads
<1> QED
    BY <1>10 DEF r, x

\* Taking the oldest update on the way.
LEMMA LeadsFrom ==
    ASSUME NEW M, NEW t, NEW q \in Seq(M), q # <<>>, NEW T, Leads(t, q, T)
    PROVE  /\ Fits(Head(q).body, t)
           /\ Leads(After(t, Head(q).body), Tail(q), T)
<1> DEFINE n == Len(q)
           r == Tail(q)
           x == After(t, Head(q).body)
<1>1. PICK p \in Seq(Text) : Steps(p, t, q, T)
    BY DEF Leads
<1> DEFINE w == Tail(p)
<1>2. n \in Nat \ {0} /\ Len(p) = n + 1
    BY <1>1, EmptySeq, LenProperties DEF Steps
<1>3. /\ r \in Seq(M) /\ Len(r) = n - 1 /\ Head(q) = q[1]
      /\ \A i \in 1 .. n - 1 : r[i] = q[i + 1]
    BY <1>2
<1>4. /\ w \in Seq(Text) /\ Len(w) = n
      /\ \A i \in 1 .. n : w[i] = p[i + 1]
    BY <1>2
<1>5. Fits(Head(q).body, t) /\ p[2] = x
    <2>1. 1 \in 1 .. n /\ 1 + 1 = 2
        BY <1>2
    <2>2. Fits(q[1].body, p[1]) /\ p[2] = After(p[1], q[1].body)
        BY <1>1, <2>1 DEF Steps
    <2> QED
        BY <1>1, <1>3, <2>2 DEF Steps
<1> HIDE DEF r, x, w
<1>6. ASSUME NEW i \in 1 .. Len(r)
      PROVE  Fits(r[i].body, w[i]) /\ w[i + 1] = After(w[i], r[i].body)
    <2>1. /\ i + 1 \in 1 .. n /\ r[i] = q[i + 1] /\ w[i] = p[i + 1]
          /\ w[i + 1] = p[(i + 1) + 1]
        BY <1>2, <1>3, <1>4
    <2>2. /\ Fits(q[i + 1].body, p[i + 1])
          /\ p[(i + 1) + 1] = After(p[i + 1], q[i + 1].body)
        BY <1>1, <2>1 DEF Steps
    <2> QED
        BY <2>1, <2>2
<1>7. w[1] = x /\ w[Len(r) + 1] = T /\ Len(w) = Len(r) + 1
    <2>1. w[1] = p[2] /\ w[n] = p[n + 1] /\ Len(r) + 1 = n
        BY <1>2, <1>3, <1>4
    <2> QED
        BY <1>1, <1>4, <1>5, <2>1 DEF Steps
<1> HIDE DEF n
<1>8. Leads(x, r, T)
    BY <1>4, <1>6, <1>7 DEF Leads, Steps
<1> QED
    BY <1>5, <1>8 DEF x, r

-----------------------------------------------------------------------------
(* One window: its editor e and what textUpdater holds, h.                 *)

\* The editor is alive and shows v, once the Undo it has posted, if any, has
\* run.
Shows(e, isMember, v) ==
    /\ e \in EditorState /\ e.out = <<>> /\ ~e.crashed
    /\ \/ e.posts = 0 /\ e.text = v
       \/ isMember /\ e.posts = 1 /\ e.undo # <<>> /\ Last(e.undo).text = v

\* It is about to show v, and a after the update that is in hand; the tokens
\* are the ones put down for that update.
InHand(e, h, v, a) ==
    \/ h = <<>> /\ e.tokens = 0 /\ a = v
    \/ \E w \in Work : /\ h = <<w>> /\ Fits(w.u, v)
                       /\ e.tokens = Announced(w.u) /\ a = After(v, w.u)

\* The updates q then lead it to T.
Ready(e, h, q, isMember, T) ==
    \E v \in Text, a \in Text :
        Shows(e, isMember, v) /\ InHand(e, h, v, a) /\ Leads(a, q, T)

\* textUpdater takes the next update and announces it.
LEMMA ReadyFetch ==
    ASSUME NEW M, NEW e, NEW q \in Seq(M), q # <<>>, NEW isMember,
           NEW T \in Text, Ready(e, <<>>, q, isMember, T), NEW prev \in Nat
    PROVE  Ready(Announce(e, Head(q).body),
                 <<[u |-> Head(q).body, prev |-> prev]>>, Tail(q),
                 isMember, T)
<1> DEFINE u == Head(q).body
           w == [u |-> u, prev |-> prev]
           d == Announce(e, u)
           h == <<w>>
<1>1. PICK v \in Text, a \in Text :
          Shows(e, isMember, v) /\ InHand(e, <<>>, v, a) /\ Leads(a, q, T)
    BY DEF Ready
<1>2. e.tokens = 0 /\ a = v
    BY <1>1 DEF InHand
<1>3. Fits(u, v) /\ Leads(After(v, u), Tail(q), T)
    BY <1>1, <1>2, LeadsFrom
<1>4. After(v, u) \in Text
    BY <1>3, AfterText
<1>5. w \in Work /\ w.u = u
    BY <1>3 DEF Work, Fits
<1> HIDE DEF u, w
<1>6. /\ d \in EditorState /\ d.tokens = Announced(u)
      /\ d.text = e.text /\ d.posts = e.posts /\ d.undo = e.undo
      /\ d.out = e.out /\ d.crashed = e.crashed
    <2>1. e \in EditorState
        BY <1>1 DEF Shows
    <2>2. d \in EditorState
        BY <2>1, AnnounceType
    <2>3. d = [e EXCEPT !.tokens = Announced(u)]
        BY <1>2, <2>1 DEF Announce, Announced, EditorState
    <2>4. Announced(u) \in Int
        BY DEF Announced
    <2> HIDE DEF d
    <2> QED
        BY <2>1, <2>2, <2>3, <2>4 DEF EditorState
<1> HIDE DEF d
<1>7. Shows(d, isMember, v)
    BY <1>1, <1>6 DEF Shows
<1>8. InHand(d, h, v, After(v, u))
    BY <1>3, <1>5, <1>6 DEF InHand
<1> HIDE DEF h
<1>9. Ready(d, h, Tail(q), isMember, T)
    BY <1>3, <1>4, <1>7, <1>8 DEF Ready
<1> QED
    BY <1>9 DEF d, h, u, w

\* The change of the update in hand is made, when no Undo waits: nothing is
\* queued by it.
LEMMA ReadyApply ==
    ASSUME NEW e, NEW w \in Work, NEW q, NEW isMember, NEW T \in Text,
           Ready(e, <<w>>, q, isMember, T), e.posts = 0
    PROVE  LET d == ApplyUpdate(e, isMember, w.u, w.prev)
           IN  d.out = <<>> /\ d \in EditorState
                   /\ Ready(d, <<>>, q, isMember, T)
<1> DEFINE d == ApplyUpdate(e, isMember, w.u, w.prev)
           h == <<w>>
           none == <<>>
<1>1. PICK v \in Text, a \in Text :
          Shows(e, isMember, v) /\ InHand(e, h, v, a) /\ Leads(a, q, T)
    BY DEF Ready
<1>2. Fits(w.u, v) /\ e.tokens = Announced(w.u) /\ a = After(v, w.u)
    <2>1. h # <<>> /\ \A x : h = <<x>> => x = w
        OBVIOUS
    <2> HIDE DEF h
    <2> QED
        BY <1>1, <2>1 DEF InHand
<1>3. e \in EditorState /\ e.text = v /\ ~e.crashed /\ e.out = <<>>
    BY <1>1 DEF Shows
<1>4. w.prev \in Nat
    BY DEF Work
<1>5. UpdateMade(e, d, a)
    BY <1>2, <1>3, <1>4, SmallUpdate
<1> HIDE DEF d, none
<1>6. Shows(d, isMember, a) /\ InHand(d, <<>>, a, a) /\ d.out = <<>>
          /\ d \in EditorState
    BY <1>3, <1>5 DEF UpdateMade, Shows, InHand
<1>7. Ready(d, none, q, isMember, T)
    BY <1>1, <1>6 DEF Ready, none
<1> QED
    BY <1>6, <1>7 DEF d, none

\* A posted Undo runs, also while an update is in hand: nothing is queued.
LEMMA ReadyUndo ==
    ASSUME NEW e, NEW h, NEW q, NEW isMember, NEW T,
           Ready(e, h, q, isMember, T), e.posts > 0
    PROVE  LET d == RunUndo(e, isMember)
           IN  d.out = <<>> /\ d \in EditorState
                   /\ Ready(d, h, q, isMember, T)
<1> DEFINE d == RunUndo(e, isMember)
<1>1. PICK v \in Text, a \in Text :
          Shows(e, isMember, v) /\ InHand(e, h, v, a) /\ Leads(a, q, T)
    BY DEF Ready
<1>2. /\ e \in EditorState /\ e.out = <<>> /\ ~e.crashed /\ e.posts = 1
      /\ e.undo # <<>> /\ Last(e.undo).text = v
    BY <1>1 DEF Shows
<1>3. e.tokens \in {0, 1}
    BY <1>1 DEF InHand, Announced
<1>4. /\ d \in EditorState /\ d.text = v /\ d.tokens = e.tokens
      /\ d.out = <<>> /\ d.posts = 0 /\ ~d.crashed
    BY <1>2, <1>3, UndoRestores
<1> HIDE DEF d
<1>5. Shows(d, isMember, v) /\ InHand(d, h, v, a)
    BY <1>1, <1>4 DEF Shows, InHand
<1>6. Ready(d, h, q, isMember, T)
    BY <1>1, <1>5 DEF Ready
<1> QED
    BY <1>4, <1>6 DEF d

\* One more update is on its way.
LEMMA ReadyFurther ==
    ASSUME NEW M, NEW e, NEW h, NEW q \in Seq(M), NEW isMember,
           NEW T \in Text, Ready(e, h, q, isMember, T),
           NEW m \in M, Fits(m.body, T)
    PROVE  Ready(e, h, q \o <<m>>, isMember, After(T, m.body))
<1>1. PICK v \in Text, a \in Text :
          Shows(e, isMember, v) /\ InHand(e, h, v, a) /\ Leads(a, q, T)
    BY DEF Ready
<1>2. Leads(a, q \o <<m>>, After(T, m.body))
    BY <1>1, LeadsFurther
<1> DEFINE r == q \o <<m>>
           x == After(T, m.body)
<1>3. Leads(a, r, x)
    BY <1>2
<1> HIDE DEF r, x
<1>4. Ready(e, h, r, isMember, x)
    BY <1>1, <1>3 DEF Ready
<1> QED
    BY <1>4 DEF r, x

\* Nothing waits for the window: it shows the ordered text and has no token.
LEMMA ReadyIdle ==
    ASSUME NEW e, NEW isMember, NEW T
    PROVE  /\ Ready(e, <<>>, <<>>, isMember, T) /\ e.posts = 0 =>
                  e.text = T /\ e.tokens = 0 /\ ~e.crashed
           /\ Shows(e, isMember, T) /\ e.tokens = 0 /\ T \in Text =>
                  Ready(e, <<>>, <<>>, isMember, T)
<1> DEFINE none == <<>>
<1>1. ASSUME Ready(e, none, none, isMember, T), e.posts = 0
      PROVE  e.text = T /\ e.tokens = 0 /\ ~e.crashed
    <2>1. PICK v \in Text, a \in Text : /\ Shows(e, isMember, v)
                                        /\ InHand(e, none, v, a)
                                        /\ Leads(a, none, T)
        BY <1>1 DEF Ready
    <2>2. a = T
        BY <2>1, LeadsNowhere
    <2>3. a = v /\ e.tokens = 0
        BY <2>1 DEF InHand
    <2> QED
        BY <1>1, <2>1, <2>2, <2>3 DEF Shows
<1>2. ASSUME Shows(e, isMember, T), e.tokens = 0, T \in Text
      PROVE  Ready(e, none, none, isMember, T)
    <2>1. Leads(T, none, T)
        BY <1>2, LeadsNowhere
    <2>2. InHand(e, none, T, T)
        BY <1>2 DEF InHand
    <2> HIDE DEF none
    <2> QED
        BY <1>2, <2>1, <2>2 DEF Ready
<1> QED
    BY <1>1, <1>2

-----------------------------------------------------------------------------
(* The relay as the ordered relay it implements: see OrderedDelivery.      *)

Pending == Relay!PendingBar
Inbox   == Relay!InboxBar

\* The relay's own bookkeeping: queues of messages, one update in hand.
RelayInv == Relay!TypeOK /\ RP!OneInHand

\* The queues the relay amounts to.
LEMMA Queues ==
    ASSUME RelayInv
    PROVE  /\ Pending \in [Site -> Seq(Relay!Message)]
           /\ Inbox \in [Site -> Seq(Relay!Message)]
<1> USE DEF Host, Member, Site, Relay!Host, Relay!Member, Relay!Site
<1>1. /\ textChanges[Host] \in Seq(Relay!Message)
      /\ textChanges[Member] \in Seq(Relay!Message)
      /\ textUpdates[Host] \in Seq(Relay!Message)
      /\ textUpdates[Member] \in Seq(Relay!Message)
      /\ net[Host] \in Seq(Relay!Message)
      /\ net[Member] \in Seq(Relay!Message)
      /\ updateDelivery \in Seq(Relay!Message)
      /\ distributing \in Seq(Relay!Message)
      /\ updateIDE \in Seq(Relay!Message)
    BY DEF RelayInv, Relay!TypeOK
<1>2. \A a, b \in Seq(Relay!Message) : a \o b \in Seq(Relay!Message)
    BY ConcatProperties
<1> QED
    BY <1>1, <1>2 DEF Pending, Inbox, Relay!PendingBar, Relay!InboxBar

\* What each operation of the relay does to them.
LEMMA Effects ==
    ASSUME RelayInv
    PROVE  /\ \A s \in Site, u \in Update :
                  Relay!AddTextChanges(s, <<u>>) =>
                      /\ Pending' = [Pending EXCEPT ![s] =
                                        @ \o <<[from |-> s, body |-> u]>>]
                      /\ Inbox' = Inbox
           /\ \A s \in Site :
                  Relay!Take(s) =>
                      /\ Inbox[s] # <<>>
                      /\ Head(Inbox[s]) = Head(textUpdates[s])
                      /\ Inbox' = [Inbox EXCEPT ![s] = Tail(@)]
                      /\ Pending' = Pending
           /\ Relay!Threads =>
                  \/ /\ Pending[Host] # <<>>
                     /\ Inbox' = [Inbox EXCEPT ![Member] =
                                     @ \o <<Head(Pending[Host])>>]
                     /\ Pending' = [Pending EXCEPT ![Host] = Tail(@)]
                  \/ /\ Pending[Member] # <<>>
                     /\ Inbox' = [s \in Site |->
                                     Inbox[s] \o <<Head(Pending[Member])>>]
                     /\ Pending' = [Pending EXCEPT ![Member] = Tail(@)]
                  \/ Pending' = Pending /\ Inbox' = Inbox
           /\ UNCHANGED relayVars => Pending' = Pending /\ Inbox' = Inbox
<1>1. RP!TypeOK /\ RP!OneInHand
    BY SameState DEF RelayInv
<1>2. /\ RP!PendingBar = Pending /\ RP!InboxBar = Inbox
      /\ RP!PendingBar' = Pending' /\ RP!InboxBar' = Inbox'
    BY DEF Pending, Inbox, Relay!PendingBar, RP!PendingBar, Relay!InboxBar,
           RP!InboxBar, Relay!Site, RP!Site, Relay!Host, RP!Host,
           Relay!Member, RP!Member
<1>3. /\ RP!Site = Site /\ RP!Abstract!Site = Site
      /\ RP!Abstract!Host = Host /\ RP!Abstract!Member = Member
    BY DEF RP!Site, RP!Host, RP!Member, RP!Abstract!Site, RP!Abstract!Host,
           RP!Abstract!Member, Site, Host, Member
<1>4. /\ \A s \in Site, u \in Update :
             RP!AddTextChanges(s, <<u>>) => RP!Abstract!Submit(s, u)
      /\ \A s \in Site :
             RP!Take(s) =>
                 /\ RP!Abstract!Take(s)
                 /\ Head(RP!InboxBar[s]) = Head(textUpdates[s])
      /\ RP!Threads => \/ RP!Abstract!Publish \/ RP!Abstract!Relay
                       \/ UNCHANGED RP!Abstract!vars
      /\ UNCHANGED RP!vars => UNCHANGED RP!Abstract!vars
    BY <1>1, <1>3, RelayAssumptions, RP!OperationsImplement
<1>5. ASSUME NEW s \in Site, NEW u \in Update,
             Relay!AddTextChanges(s, <<u>>)
      PROVE  /\ Pending' = [Pending EXCEPT ![s] =
                               @ \o <<[from |-> s, body |-> u]>>]
             /\ Inbox' = Inbox
    <2>1. RP!AddTextChanges(s, <<u>>)
        BY <1>5 DEF Relay!AddTextChanges, RP!AddTextChanges
    <2> QED
        BY <1>2, <1>4, <2>1 DEF RP!Abstract!Submit
<1>6. ASSUME NEW s \in Site, Relay!Take(s)
      PROVE  /\ Inbox[s] # <<>>
             /\ Head(Inbox[s]) = Head(textUpdates[s])
             /\ Inbox' = [Inbox EXCEPT ![s] = Tail(@)]
             /\ Pending' = Pending
    <2>1. RP!Take(s)
        BY <1>6 DEF Relay!Take, RP!Take
    <2> QED
        BY <1>2, <1>4, <2>1 DEF RP!Abstract!Take
<1>7. Relay!Threads => RP!Threads
    BY DEF Relay!Threads, RP!Threads, Relay!Host, RP!Host, Relay!Member,
           RP!Member, Relay!Broadcast, RP!Broadcast,
           Relay!HostScanner, Relay!HostListener, Relay!DistributorBroadcast,
           Relay!DistributorToIDE, Relay!MemberScanner, Relay!MemberListener,
           Relay!MemberForward, RP!HostScanner, RP!HostListener,
           RP!DistributorBroadcast, RP!DistributorToIDE, RP!MemberScanner,
           RP!MemberListener, RP!MemberForward
<1>8. UNCHANGED RP!Abstract!vars => Pending' = Pending /\ Inbox' = Inbox
    BY <1>2 DEF RP!Abstract!vars
<1>9. UNCHANGED relayVars => UNCHANGED RP!vars
    BY DEF relayVars, RP!vars
<1>10. RP!Abstract!Publish =>
           /\ Pending[Host] # <<>>
           /\ Inbox' = [Inbox EXCEPT ![Member] =
                           @ \o <<Head(Pending[Host])>>]
           /\ Pending' = [Pending EXCEPT ![Host] = Tail(@)]
    BY <1>2, <1>3 DEF RP!Abstract!Publish
<1>11. RP!Abstract!Relay =>
           /\ Pending[Member] # <<>>
           /\ Inbox' = [s \in Site |->
                           Inbox[s] \o <<Head(Pending[Member])>>]
           /\ Pending' = [Pending EXCEPT ![Member] = Tail(@)]
    BY <1>2, <1>3 DEF RP!Abstract!Relay
<1> QED
    BY <1>4, <1>5, <1>6, <1>7, <1>8, <1>9, <1>10, <1>11

\* The distributor never has more than one update in hand in a session
\* either.
LEMMA RelayInvHolds ==
    /\ Init => RelayInv
    /\ TypeInv /\ RelayInv /\ [Next]_vars => RelayInv'
<1>1. Init => RelayInv
    BY InitTypeInv DEF TypeInv, RelayInv, RP!OneInHand, Init, Relay!Init
<1>2. ASSUME TypeInv, RelayInv, [Next]_vars PROVE RelayInv'
    <2>1. Relay!TypeOK'
        BY <1>2, StepTypeInv DEF TypeInv
    <2>2. (\E s \in Site, e \in EditorState : Turn(s, e)) \/ RelayStep
        BY <1>2, TurnOrRelay
    <2>3. ASSUME NEW s \in Site, NEW e, Turn(s, e) PROVE RP!OneInHand'
        BY <1>2, <2>3 DEF Turn, Relay!AddTextChanges, RelayInv, RP!OneInHand
    <2>4. ASSUME RelayStep PROVE RP!OneInHand'
        <3>1. RP!TypeOK /\ RP!OneInHand /\ [RP!Next]_RP!vars
            BY <1>2, <2>4, SameState, SameSteps DEF RelayInv
        <3> QED
            BY <3>1, RelayAssumptions, RP!StepOneInHand
    <2> QED
        BY <2>1, <2>2, <2>3, <2>4 DEF RelayInv
<1> QED
    BY <1>1, <1>2

-----------------------------------------------------------------------------
(* The invariant.                                                          *)

\* The users leave each other alone, select one character at most, do not
\* use the Delete key, UDP behaves, and both windows start with one text
\* and with their counters at zero.  SharedEditing's runs `overlap`,
\* `selection` and `concurrent` show what happens without each of these.
Cooperative ==
    /\ Keys \subseteq {"type", "enter", "back"} /\ MaxSelect <= 1
    /\ Wide = {} /\ Faults = {}
    /\ StartText[Member] = StartText[Host]
    /\ \A s \in Site : StartLoads[s] = 0
    /\ TurnTaking /\ PromptUndo

\* The updates between the ordered text and the window of s.
Path(s) == IF s = Host THEN Inbox[Host] ELSE Inbox[Member] \o Pending[Host]

AtMember(s) == s = Member

SiteReady(s, T) == Ready(ide[s], holding[s], Path(s), AtMember(s), T)

\* The last key press aimed at T, or it was the member's, the host has not
\* ordered it yet and nothing else is under way.
Ordered(T) ==
    \/ Pending[Member] = <<>> /\ intended = T
    \/ /\ \E m \in Relay!Message : /\ Pending[Member] = <<m>>
                                   /\ Fits(m.body, T)
                                   /\ intended = After(T, m.body)
       /\ \A s \in Site : Path(s) = <<>> /\ holding[s] = <<>>

Agreed(T) == (\A s \in Site : SiteReady(s, T)) /\ Ordered(T)

TurnInv == \E T \in Text : Agreed(T)

\* The same queues, editors and hands stay ready for the same text.
LEMMA SameReady ==
    ASSUME NEW s \in Site, NEW T, SiteReady(s, T), ide'[s] = ide[s],
           holding'[s] = holding[s], Path(s)' = Path(s)
    PROVE  SiteReady(s, T)'
BY DEF SiteReady

\* The paths as the queues change.
LEMMA SamePath ==
    /\ Pending' = Pending /\ Inbox' = Inbox =>
           \A s \in Site : Path(s)' = Path(s)
    /\ Path(Host) = Inbox[Host] /\ Path(Host)' = Inbox'[Host]
    /\ Path(Member) = Inbox[Member] \o Pending[Host]
    /\ Path(Member)' = Inbox'[Member] \o Pending'[Host]
    /\ Site = {Host, Member} /\ Host \in Site /\ Member \in Site
    /\ Host # Member
BY DEF Path, Site, Host, Member

\* The paths are queues of messages.
LEMMA PathType ==
    ASSUME RelayInv, NEW s \in Site
    PROVE  Path(s) \in Seq(Relay!Message)
<1>1. /\ Pending[Host] \in Seq(Relay!Message)
      /\ Inbox[Host] \in Seq(Relay!Message)
      /\ Inbox[Member] \in Seq(Relay!Message)
    BY Queues, SamePath
<1>2. Inbox[Member] \o Pending[Host] \in Seq(Relay!Message)
    BY <1>1, ConcatProperties
<1> QED
    BY <1>1, <1>2 DEF Path

\* When nothing is under way the queues are empty.
LEMMA DrainedQueues ==
    ASSUME RelayInv, Relay!Drained, NEW s \in Site
    PROVE  Pending[s] = <<>> /\ Inbox[s] = <<>> /\ Path(s) = <<>>
<1> USE DEF Host, Member, Site, Relay!Host, Relay!Member, Relay!Site
<1>1. /\ textChanges[Host] \in Seq(Relay!Message)
      /\ textChanges[Member] \in Seq(Relay!Message)
      /\ textUpdates[Host] \in Seq(Relay!Message)
      /\ textUpdates[Member] \in Seq(Relay!Message)
      /\ net[Host] \in Seq(Relay!Message)
      /\ net[Member] \in Seq(Relay!Message)
      /\ updateDelivery \in Seq(Relay!Message)
      /\ distributing \in Seq(Relay!Message)
      /\ updateIDE \in Seq(Relay!Message)
    BY DEF RelayInv, Relay!TypeOK
<1>2. \A q \in Seq(Relay!Message) : Len(q) \in Nat /\ (Len(q) = 0 => q = <<>>)
    BY EmptySeq, LenProperties
<1>3. /\ Len(textChanges[Host]) = 0 /\ Len(textChanges[Member]) = 0
      /\ Len(textUpdates[Host]) = 0 /\ Len(textUpdates[Member]) = 0
      /\ Len(net[Host]) = 0 /\ Len(net[Member]) = 0
      /\ Len(updateDelivery) = 0 /\ Len(distributing) = 0
      /\ Len(updateIDE) = 0
    <2> DEFINE a == Len(textChanges[Host])
               b == Len(textChanges[Member])
               c == Len(textUpdates[Host])
               d == Len(textUpdates[Member])
               e == Len(net[Host])
               f == Len(net[Member])
               g == Len(updateDelivery)
               h == Len(distributing)
               i == Len(updateIDE)
    <2>1. /\ a \in Nat /\ b \in Nat /\ c \in Nat /\ d \in Nat /\ e \in Nat
          /\ f \in Nat /\ g \in Nat /\ h \in Nat /\ i \in Nat
        BY <1>1, <1>2
    <2>2. a + b + c + d + e + f + g + h + i = 0
        BY DEF Relay!Drained, Relay!InFlight
    <2> HIDE DEF a, b, c, d, e, f, g, h, i
    <2>3. /\ a = 0 /\ b = 0 /\ c = 0 /\ d = 0 /\ e = 0 /\ f = 0 /\ g = 0
          /\ h = 0 /\ i = 0
        BY <2>1, <2>2
    <2> QED
        BY <2>3 DEF a, b, c, d, e, f, g, h, i
<1>4. /\ textChanges[Host] = <<>> /\ textChanges[Member] = <<>>
      /\ textUpdates[Host] = <<>> /\ textUpdates[Member] = <<>>
      /\ net[Host] = <<>> /\ net[Member] = <<>>
      /\ updateDelivery = <<>> /\ distributing = <<>> /\ updateIDE = <<>>
    BY <1>1, <1>2, <1>3
<1>5. <<>> \o <<>> = <<>>
    OBVIOUS
<1>6. \A r \in Site : Pending[r] = <<>> /\ Inbox[r] = <<>>
    BY <1>4, <1>5 DEF Pending, Inbox, Relay!PendingBar, Relay!InboxBar
<1> QED
    BY <1>5, <1>6 DEF Path

\* A window no file was loaded into owes no token.
LEMMA MinusNothing ==
    ASSUME NEW n \in Nat, n = 0 PROVE -n = 0
<1> DEFINE k == -n
<1>1. k \in Int /\ k + n = 0
    OBVIOUS
<1> HIDE DEF k
<1>2. k = 0
    BY <1>1
<1> QED
    BY <1>2 DEF k

\* Init establishes the invariant: both windows show the text they start
\* from.
LEMMA InitTurnInv == Cooperative /\ Init => TurnInv
<1> SUFFICES ASSUME Cooperative, Init PROVE TurnInv
    OBVIOUS
<1>1. RelayInv /\ TypeInv
    BY RelayInvHolds, InitTypeInv
<1>2. Relay!Drained
    BY DEF Init, Relay!Init, Relay!Drained, Relay!InFlight, Relay!Site,
           Relay!Host, Relay!Member
<1> DEFINE start == StartText[Host]
<1>3. start \in Text
    BY SessionAssumption DEF Host
<1>s. \A s \in Site : StartText[s] = start
    BY DEF Cooperative, Site
<1> HIDE DEF start
<1>4. \A s \in Site : Pending[s] = <<>> /\ Path(s) = <<>>
    BY <1>1, <1>2, DrainedQueues
<1>5. ASSUME NEW s \in Site PROVE SiteReady(s, start)
    <2>1. ide[s] = NewEditor(start, StartLoads[s]) /\ holding[s] = <<>>
        BY <1>s DEF Init
    <2>2. ide[s] \in EditorState
        BY <1>1, Windows
    <2>0. StartLoads[s] = 0 /\ StartLoads[s] \in Nat
        BY DEF Cooperative
    <2>a. -StartLoads[s] = 0
        BY <2>0, MinusNothing
    <2>3. /\ ide[s].out = <<>> /\ ~ide[s].crashed /\ ide[s].posts = 0
          /\ ide[s].text = start /\ ide[s].tokens = 0
        BY <2>1, <2>a DEF NewEditor
    <2>4. Shows(ide[s], AtMember(s), start)
        BY <2>2, <2>3 DEF Shows
    <2> QED
        BY <1>3, <1>4, <2>1, <2>3, <2>4, ReadyIdle DEF SiteReady
<1>6. Ordered(start)
    BY <1>4, SamePath DEF Ordered, Init, start
<1> QED
    BY <1>3, <1>5, <1>6 DEF TurnInv, Agreed

-----------------------------------------------------------------------------
(* Turns of the UI thread.                                                 *)

\* The editor after a turn, its updates handed to the relay.
Sent(e) == [e EXCEPT !.out = <<>>]

\* A turn that queues nothing, and one that queues one update.
LEMMA TurnEffect ==
    ASSUME TypeInv, RelayInv, NEW s \in Site, NEW e \in EditorState,
           Turn(s, e)
    PROVE  /\ ide'[s] = Sent(e)
           /\ \A r \in Site \ {s} : ide'[r] = ide[r]
           /\ e.out = <<>> => Pending' = Pending /\ Inbox' = Inbox
           /\ \A u \in Update : e.out = <<u>> =>
                  /\ Pending' = [Pending EXCEPT ![s] =
                                    @ \o <<[from |-> s, body |-> u]>>]
                  /\ Inbox' = Inbox
<1>1. ide' = [ide EXCEPT ![s] = [e EXCEPT !.out = <<>>]]
          /\ Relay!AddTextChanges(s, e.out)
    BY DEF Turn
<1>2. ASSUME e.out = <<>> PROVE UNCHANGED relayVars
    <2>1. e.out \in Seq(Update)
        BY DEF EditorState
    <2>2. PICK ms \in Seq(Relay!Message) :
              /\ Len(ms) = Len(e.out)
              /\ textChanges' = [textChanges EXCEPT ![s] = @ \o ms]
              /\ UNCHANGED <<textUpdates, net, updateDelivery, distributing,
                             updateIDE>>
        BY <1>1, <2>1, QueuedMessages DEF RelayInv
    <2>3. ms = <<>>
        BY <1>2, <2>2, EmptySeq
    <2>4. textChanges[s] \in Seq(Relay!Message)
              /\ textChanges \in [Site -> Seq(Relay!Message)]
        BY DEF RelayInv, Relay!TypeOK, Site, Host, Member, Relay!Site,
               Relay!Host, Relay!Member
    <2>5. textChanges[s] \o ms = textChanges[s]
        BY <2>3, <2>4, ConcatEmptySeq
    <2>6. textChanges' = textChanges
        BY <2>2, <2>4, <2>5
    <2> QED
        BY <2>2, <2>6 DEF relayVars
<1>3. e.out = <<>> => Pending' = Pending /\ Inbox' = Inbox
    BY <1>2, Effects
<1>4. \A u \in Update : e.out = <<u>> =>
          /\ Pending' = [Pending EXCEPT ![s] =
                            @ \o <<[from |-> s, body |-> u]>>]
          /\ Inbox' = Inbox
    BY <1>1, Effects
<1> QED
    BY <1>1, <1>3, <1>4 DEF TypeInv, Sent

\* An editor that has queued nothing is not changed by emptying its queue.
LEMMA NothingSent ==
    ASSUME NEW d \in EditorState, d.out = <<>>
    PROVE  Sent(d) = d
BY DEF EditorState, Sent

\* A window whose user may press a key shows the ordered text, and nothing
\* comes to it; when it is the member's nothing is under way at all.
LEMMA BeforePress ==
    ASSUME TypeInv, RelayInv, NEW T \in Text, Agreed(T), NEW s \in Site,
           Undisturbed(s), ide[s].posts = 0
    PROVE  /\ ide[s].text = T /\ ide[s].tokens = 0 /\ ~ide[s].crashed
           /\ holding[s] = <<>> /\ Path(s) = <<>> /\ Pending[Member] = <<>>
           /\ intended = T
           /\ s = Member => \A r \in Site : /\ holding[r] = <<>>
                                            /\ Path(r) = <<>>
<1>1. /\ holding[s] = <<>> /\ Path(s) = <<>> /\ Pending[Member] = <<>>
      /\ s = Member => \A r \in Site : holding[r] = <<>> /\ Path(r) = <<>>
    <2>1. CASE Quiet
        BY <2>1, SamePath, DrainedQueues DEF Quiet
    <2>2. CASE ~Quiet
        BY <2>2, SamePath DEF Undisturbed, Pending, Inbox
    <2> QED
        BY <2>1, <2>2
<1>2. Ready(ide[s], <<>>, <<>>, AtMember(s), T)
    BY <1>1 DEF Agreed, SiteReady
<1>3. ide[s].text = T /\ ide[s].tokens = 0 /\ ~ide[s].crashed
    BY <1>2, ReadyIdle
<1>4. intended = T
    <2>1. \A m : <<m>> # <<>>
        OBVIOUS
    <2> QED
        BY <1>1, <2>1 DEF Agreed, Ordered
<1> QED
    BY <1>1, <1>3, <1>4

\* The window after the user's small edit.
LEMMA AfterPress ==
    ASSUME NEW e, NEW d, NEW isMember, NEW u, UserEdit(e, d, isMember, u),
           e.posts = 0, ~e.crashed
    PROVE  /\ Sent(d).tokens = 0
           /\ isMember => Shows(Sent(d), isMember, e.text)
           /\ ~isMember => Shows(Sent(d), isMember, After(e.text, u))
<1> DEFINE f == Sent(d)
<1>1. /\ d \in EditorState /\ d.text = After(e.text, u) /\ d.tokens = 0
      /\ ~d.crashed /\ d.posts = IF isMember THEN 1 ELSE 0
      /\ isMember => d.undo # <<>> /\ Last(d.undo).text = e.text
    BY DEF UserEdit
<1>2. /\ f \in EditorState /\ f.out = <<>> /\ f.text = d.text
      /\ f.tokens = d.tokens /\ f.crashed = d.crashed /\ f.posts = d.posts
      /\ f.undo = d.undo
    <2>1. <<>> \in Seq(Update)
        BY EmptySeq
    <2> QED
        BY <1>1, <2>1 DEF EditorState, Sent
<1> HIDE DEF f
<1>3. /\ f.tokens = 0
      /\ isMember => Shows(f, isMember, e.text)
      /\ ~isMember => Shows(f, isMember, After(e.text, u))
    BY <1>1, <1>2 DEF Shows
<1> QED
    BY <1>3 DEF f

\* One more update behind two queues read in one go.
LEMMA Behind ==
    ASSUME NEW S, NEW a \in Seq(S), NEW b \in Seq(S), NEW m \in S
    PROVE  a \o (b \o <<m>>) = (a \o b) \o <<m>>
<1> DEFINE c == <<m>>
<1>1. c \in Seq(S)
    OBVIOUS
<1> HIDE DEF c
<1>2. a \o (b \o c) = (a \o b) \o c
    BY <1>1, ConcatAssociative
<1> QED
    BY <1>2 DEF c

\* The edit of the host's user is ordered at once.
LEMMA HostPress ==
    ASSUME TypeInv, RelayInv, NEW T \in Text, Agreed(T), NEW key, NEW e,
           NEW u, Press(Host, key, e), Undisturbed(Host),
           UserEdit(ide[Host], e, AtMember(Host), u)
    PROVE  TurnInv'
<1> DEFINE m == [from |-> Host, body |-> u]
           x == After(T, u)
<1>0. Host \in Site /\ Member \in Site /\ Host # Member
          /\ ~AtMember(Host)
    BY SamePath DEF AtMember
<1>1. /\ ide[Host].text = T /\ ide[Host].posts = 0 /\ ~ide[Host].crashed
      /\ holding[Host] = <<>> /\ Path(Host) = <<>> /\ Pending[Member] = <<>>
    BY <1>0, BeforePress DEF Press
<1>2. Fits(u, T) /\ e \in EditorState /\ e.out = <<u>> /\ e.text = x
    BY <1>1 DEF UserEdit
<1>3. u \in Update /\ x \in Text
    BY <1>2, AfterText DEF Fits
<1>4. m \in Relay!Message /\ m.body = u
    BY <1>3 DEF Relay!Message, Relay!Site, Relay!Host, Host
<1>5. /\ ide'[Host] = Sent(e) /\ ide'[Member] = ide[Member]
      /\ Pending' = [Pending EXCEPT ![Host] = @ \o <<m>>]
      /\ Inbox' = Inbox
    BY <1>0, <1>2, <1>3, TurnEffect DEF Press
<1>6. ide'[Host].tokens = 0 /\ Shows(ide'[Host], AtMember(Host), x)
    <2>1. /\ ide'[Host].tokens = 0
          /\ Shows(ide'[Host], AtMember(Host), After(ide[Host].text, u))
        BY <1>0, <1>1, <1>5, AfterPress
    <2> QED
        BY <1>1, <2>1
<1> HIDE DEF m, x
<1>7. /\ Pending'[Host] = Pending[Host] \o <<m>>
      /\ Pending'[Member] = <<>>
    BY <1>0, <1>1, <1>5, Queues
<1>8. Path(Host)' = <<>> /\ Path(Member)' = Path(Member) \o <<m>>
    <2>1. Path(Host)' = Path(Host)
        BY <1>5, SamePath
    <2> DEFINE a == Inbox[Member]
               b == Pending[Host]
    <2>2. a \in Seq(Relay!Message) /\ b \in Seq(Relay!Message)
        BY <1>0, Queues
    <2> HIDE DEF a, b
    <2>3. \A c, d \in Seq(Relay!Message), k \in Relay!Message :
              c \o (d \o <<k>>) = (c \o d) \o <<k>>
        BY Behind
    <2>4. a \o (b \o <<m>>) = (a \o b) \o <<m>>
        BY <1>4, <2>2, <2>3
    <2> QED
        BY <1>1, <1>5, <1>7, <2>1, <2>4, SamePath DEF a, b
<1>9. SiteReady(Host, x)'
    <2>1. holding'[Host] = <<>>
        BY <1>1 DEF Press
    <2>3. Ready(ide'[Host], <<>>, <<>>, AtMember(Host), x)
        BY <1>3, <1>6, ReadyIdle
    <2> QED
        BY <1>8, <2>1, <2>3 DEF SiteReady
<1>10. SiteReady(Member, x)'
    <2>1. Ready(ide[Member], holding[Member], Path(Member),
                AtMember(Member), T)
        BY <1>0 DEF Agreed, SiteReady
    <2>2. Ready(ide[Member], holding[Member], Path(Member) \o <<m>>,
                AtMember(Member), x)
        BY <1>0, <1>2, <1>4, <2>1, PathType, ReadyFurther DEF x
    <2>3. holding'[Member] = holding[Member]
        BY DEF Press
    <2> QED
        BY <1>5, <1>8, <2>2, <2>3 DEF SiteReady
<1>11. Ordered(x)'
    BY <1>2, <1>7 DEF Ordered, Press
<1>12. Agreed(x)'
    BY <1>9, <1>10, <1>11, SamePath DEF Agreed
<1> QED
    BY <1>3, <1>12 DEF TurnInv

\* The edit of the member's user waits for the host, and the member's window
\* is about to take it back.
LEMMA MemberPress ==
    ASSUME TypeInv, RelayInv, NEW T \in Text, Agreed(T), NEW key, NEW e,
           NEW u, Press(Member, key, e), Undisturbed(Member),
           UserEdit(ide[Member], e, AtMember(Member), u)
    PROVE  TurnInv'
<1> DEFINE m == [from |-> Member, body |-> u]
           x == After(T, u)
<1>0. Host \in Site /\ Member \in Site /\ Host # Member
          /\ AtMember(Member)
    BY SamePath DEF AtMember
<1>1. /\ ide[Member].text = T /\ ide[Member].posts = 0
      /\ ~ide[Member].crashed /\ Pending[Member] = <<>>
      /\ \A r \in Site : holding[r] = <<>> /\ Path(r) = <<>>
    BY <1>0, BeforePress DEF Press
<1>2. Fits(u, T) /\ e \in EditorState /\ e.out = <<u>> /\ e.text = x
    BY <1>1 DEF UserEdit
<1>3. u \in Update
    BY <1>2 DEF Fits
<1>4. m \in Relay!Message /\ m.body = u
    BY <1>3 DEF Relay!Message, Relay!Site, Relay!Member, Member
<1>5. /\ ide'[Member] = Sent(e) /\ ide'[Host] = ide[Host]
      /\ Pending' = [Pending EXCEPT ![Member] = @ \o <<m>>]
      /\ Inbox' = Inbox
    BY <1>0, <1>2, <1>3, TurnEffect DEF Press
<1>6. ide'[Member].tokens = 0 /\ Shows(ide'[Member], AtMember(Member), T)
    <2>1. /\ Sent(e).tokens = 0
          /\ Shows(Sent(e), AtMember(Member), ide[Member].text)
        BY <1>0, <1>1, AfterPress
    <2> QED
        BY <1>1, <1>5, <2>1
<1> HIDE DEF m, x
<1>7. /\ Pending'[Host] = Pending[Host]
      /\ Pending'[Member] = <<m>>
    <2>1. <<>> \o <<m>> = <<m>>
        OBVIOUS
    <2> QED
        BY <1>0, <1>1, <1>5, <2>1, Queues
<1>8. \A r \in Site : Path(r)' = <<>> /\ holding'[r] = <<>>
    <2>1. Path(Host)' = Path(Host) /\ Path(Member)' = Path(Member)
        BY <1>5, <1>7, SamePath
    <2> QED
        BY <1>0, <1>1, <2>1, SamePath DEF Press
<1>9. SiteReady(Member, T)'
    <2>1. Ready(ide'[Member], <<>>, <<>>, AtMember(Member), T)
        BY <1>6, ReadyIdle
    <2> QED
        BY <1>0, <1>8, <2>1 DEF SiteReady
<1>10. SiteReady(Host, T)'
    <2>1. holding'[Host] = holding[Host] /\ Path(Host)' = Path(Host)
        BY <1>0, <1>1, <1>8
    <2> QED
        BY <1>0, <1>5, <2>1, SameReady DEF Agreed
<1>11. Ordered(T)'
    <2>1. intended' = After(T, m.body)
        BY <1>2, <1>4 DEF Press, x
    <2> QED
        BY <1>2, <1>4, <1>7, <1>8, <2>1 DEF Ordered
<1>12. Agreed(T)'
    BY <1>9, <1>10, <1>11, SamePath DEF Agreed
<1> QED
    BY <1>12 DEF TurnInv

\* A key that had no effect on the text tells nobody anything.
LEMMA IdlePress ==
    ASSUME TypeInv, RelayInv, NEW T \in Text, Agreed(T), NEW s \in Site,
           NEW key, NEW e, Press(s, key, e), Undisturbed(s),
           NoEdit(ide[s], e)
    PROVE  TurnInv'
<1>1. /\ ide[s].text = T /\ ide[s].posts = 0 /\ ~ide[s].crashed
      /\ holding[s] = <<>> /\ Path(s) = <<>> /\ Pending[Member] = <<>>
    BY BeforePress DEF Press
<1>2. /\ e \in EditorState /\ e.out = <<>> /\ e.text = T /\ e.tokens = 0
      /\ e.posts = 0 /\ ~e.crashed
    BY <1>1 DEF NoEdit
<1>3. /\ ide'[s] = e /\ \A r \in Site \ {s} : ide'[r] = ide[r]
      /\ Pending' = Pending /\ Inbox' = Inbox
    BY <1>2, TurnEffect, NothingSent DEF Press
<1>4. holding' = holding /\ \A r \in Site : Path(r)' = Path(r)
    BY <1>3, SamePath DEF Press
<1>5. SiteReady(s, T)'
    <2>1. Shows(e, AtMember(s), T)
        BY <1>2 DEF Shows
    <2>2. Ready(e, <<>>, <<>>, AtMember(s), T)
        BY <1>2, <2>1, ReadyIdle
    <2> QED
        BY <1>1, <1>3, <1>4, <2>2 DEF SiteReady
<1>6. ASSUME NEW r \in Site \ {s} PROVE SiteReady(r, T)'
    BY <1>3, <1>4, SameReady DEF Agreed
<1>7. Ordered(T)'
    BY <1>1, <1>2, <1>3 DEF Ordered, Press
<1>8. Agreed(T)'
    BY <1>5, <1>6, <1>7 DEF Agreed
<1> QED
    BY <1>8 DEF TurnInv

\* What the keys of a cooperative session do to the window they are pressed
\* in.
SmallPress(s) ==
    \E key, e : /\ Press(s, key, e)
                /\ \/ NoEdit(ide[s], e)
                   \/ \E u : UserEdit(ide[s], e, AtMember(s), u)

\* Each of them makes one small edit or none.
LEMMA KeysAreSmall ==
    ASSUME Cooperative, TypeInv, Keyboard,
           \A s \in Site : ide[s].posts = 0 /\ Undisturbed(s) =>
                               ide[s].tokens = 0
    PROVE  \E s \in Site : SmallPress(s) /\ Undisturbed(s)
<1>e. \A s \in Site : /\ ide[s] \in EditorState /\ ide[s].out = <<>>
                      /\ Len(ide[s].text) \in Nat
    BY Windows
<1>0. Wide = {} /\ TurnTaking /\ MaxSelect <= 1 /\ MaxSelect \in Nat
    BY SessionAssumption DEF Cooperative
<1>1. ASSUME NEW s \in Site, NEW key, NEW e, Press(s, key, e)
      PROVE  /\ Undisturbed(s) /\ ide[s].tokens = 0
             /\ key \in {"type", "enter", "back"}
    BY <1>0, <1>1 DEF Press, Cooperative
<1>2. ASSUME NEW s \in Site, NEW sel \in Selections(s)
      PROVE  /\ sel[1] \in Nat /\ sel[2] \in Nat /\ sel[1] <= sel[2]
             /\ sel[2] <= Len(ide[s].text) /\ sel[2] - sel[1] <= 1
    BY <1>e, <1>0 DEF Selections
<1>3. ASSUME NEW s \in Site, PressType(s)
      PROVE  SmallPress(s) /\ Undisturbed(s)
    <2>1. PICK sel \in Selections(s), c \in Char \ {NewLine, Unknown} :
              Press(s, "type",
                    TypeKey(ide[s], AtMember(s), sel[1], sel[2], c))
        BY <1>3 DEF PressType, AtMember
    <2>2. \E u : UserEdit(ide[s],
                          TypeKey(ide[s], AtMember(s), sel[1], sel[2], c),
                          AtMember(s), u)
        BY <1>e, <1>0, <1>1, <1>2, <2>1, TypeKeyEdits
    <2> QED
        BY <1>1, <2>1, <2>2 DEF SmallPress
<1>4. ASSUME NEW s \in Site, PressEnter(s)
      PROVE  SmallPress(s) /\ Undisturbed(s)
    <2>1. PICK from \in 0 .. Len(ide[s].text) :
              Press(s, "enter", EnterKey(ide[s], AtMember(s), from))
        BY <1>4 DEF PressEnter, AtMember
    <2>2. from \in Nat /\ from <= Len(ide[s].text)
        BY <1>e
    <2>3. \E u : UserEdit(ide[s], EnterKey(ide[s], AtMember(s), from),
                          AtMember(s), u)
        BY <1>e, <1>0, <1>1, <2>1, <2>2, EnterKeyEdits
    <2> QED
        BY <1>1, <2>1, <2>3 DEF SmallPress
<1>5. ASSUME NEW s \in Site, PressBack(s)
      PROVE  SmallPress(s) /\ Undisturbed(s)
    <2>1. PICK sel \in Selections(s) :
              Press(s, "back",
                    BackKey(ide[s], AtMember(s), sel[1], sel[2]))
        BY <1>5 DEF PressBack, AtMember
    <2> DEFINE f == BackKey(ide[s], AtMember(s), sel[1], sel[2])
    <2>2. NoEdit(ide[s], f) \/ \E u : UserEdit(ide[s], f, AtMember(s), u)
        BY <1>e, <1>0, <1>1, <1>2, <2>1, BackKeyEdits
    <2> HIDE DEF f
    <2>3. Press(s, "back", f)
        BY <2>1 DEF f
    <2> QED
        BY <1>1, <2>2, <2>3 DEF SmallPress
<1>6. ASSUME NEW s \in Site, PressDelete(s) PROVE FALSE
    BY <1>1, <1>6 DEF PressDelete
<1> QED
    BY <1>3, <1>4, <1>5, <1>6 DEF Keyboard

\* A key press.
LEMMA KeyboardStep ==
    ASSUME Cooperative, TypeInv, RelayInv, TurnInv, Keyboard
    PROVE  TurnInv'
<1>1. PICK T \in Text : Agreed(T)
    BY DEF TurnInv
<1>2. \A s \in Site : ide[s].posts = 0 /\ Undisturbed(s) =>
                          ide[s].tokens = 0
    BY <1>1, BeforePress
<1>3. PICK s \in Site : SmallPress(s) /\ Undisturbed(s)
    BY <1>2, KeysAreSmall
<1>4. PICK key, e : /\ Press(s, key, e)
                    /\ \/ NoEdit(ide[s], e)
                       \/ \E u : UserEdit(ide[s], e, AtMember(s), u)
    BY <1>3 DEF SmallPress
<1>5. CASE NoEdit(ide[s], e)
    BY <1>1, <1>3, <1>4, <1>5, IdlePress
<1>6. ASSUME NEW u, UserEdit(ide[s], e, AtMember(s), u) PROVE TurnInv'
    <2>1. CASE s = Host
        BY <1>1, <1>3, <1>4, <1>6, <2>1, HostPress
    <2>2. CASE s = Member
        BY <1>1, <1>3, <1>4, <1>6, <2>2, MemberPress
    <2> QED
        BY <2>1, <2>2, SamePath
<1> QED
    BY <1>4, <1>5, <1>6

\* A turn that queues nothing and is no key press leaves the session agreed
\* when the window it happens in is still on its way to the same text.
LEMMA QuietTurn ==
    ASSUME TypeInv, RelayInv, NEW T \in Text, Agreed(T), NEW s \in Site,
           NEW d \in EditorState, d.out = <<>>, Turn(s, d),
           Ready(d, holding'[s], Path(s), AtMember(s), T),
           \A r \in Site \ {s} : holding'[r] = holding[r],
           \A r \in Site : holding[r] = <<>> => holding'[r] = <<>>,
           intended' = intended
    PROVE  TurnInv'
<1>1. /\ ide'[s] = d /\ \A r \in Site \ {s} : ide'[r] = ide[r]
      /\ Pending' = Pending /\ Inbox' = Inbox
    BY TurnEffect, NothingSent
<1>2. \A r \in Site : Path(r)' = Path(r)
    BY <1>1, SamePath
<1>3. SiteReady(s, T)'
    BY <1>1, <1>2 DEF SiteReady
<1>4. ASSUME NEW r \in Site \ {s} PROVE SiteReady(r, T)'
    BY <1>1, <1>2, SameReady DEF Agreed
<1>5. Ordered(T)'
    BY <1>1, <1>2 DEF Agreed, Ordered
<1>6. Agreed(T)'
    BY <1>3, <1>4, <1>5 DEF Agreed
<1> QED
    BY <1>6 DEF TurnInv

\* The Undo of the member's edit.
LEMMA UndoStep ==
    ASSUME TypeInv, RelayInv, TurnInv, NEW s \in Site, RunPostedUndo(s)
    PROVE  TurnInv'
<1>1. PICK T \in Text : Agreed(T)
    BY DEF TurnInv
<1> DEFINE d == RunUndo(ide[s], AtMember(s))
<1>2. Turn(s, d) /\ ide[s].posts > 0 /\ holding' = holding
          /\ intended' = intended
    BY DEF RunPostedUndo, AtMember
<1>3. Ready(ide[s], holding[s], Path(s), AtMember(s), T)
    BY <1>1 DEF Agreed, SiteReady
<1>4. /\ d.out = <<>> /\ d \in EditorState
      /\ Ready(d, holding[s], Path(s), AtMember(s), T)
    BY <1>2, <1>3, ReadyUndo
<1> HIDE DEF d
<1> QED
    BY <1>1, <1>2, <1>4, QuietTurn

\* textUpdater has the UI thread make the change.
LEMMA ApplyStep ==
    ASSUME Cooperative, TypeInv, RelayInv, TurnInv, NEW s \in Site, Apply(s)
    PROVE  TurnInv'
<1>1. PICK T \in Text : Agreed(T)
    BY DEF TurnInv
<1> DEFINE w == Head(holding[s])
           d == ApplyUpdate(ide[s], AtMember(s), w.u, w.prev)
<1>2. Turn(s, d) /\ ide[s].posts = 0 /\ holding[s] # <<>>
          /\ holding' = [holding EXCEPT ![s] = <<>>] /\ intended' = intended
    BY DEF Apply, AtMember, Cooperative
<1>3. Ready(ide[s], holding[s], Path(s), AtMember(s), T)
    BY <1>1 DEF Agreed, SiteReady
<1>4. w \in Work /\ holding[s] = <<w>>
    <2>1. PICK x \in Work : holding[s] = <<x>>
        BY <1>2, <1>3 DEF Ready, InHand
    <2> QED
        BY <2>1
<1> HIDE DEF w
<1>5. /\ d.out = <<>> /\ d \in EditorState
      /\ Ready(d, <<>>, Path(s), AtMember(s), T)
    BY <1>1, <1>2, <1>3, <1>4, ReadyApply
<1> HIDE DEF d
<1>6. /\ holding'[s] = <<>>
      /\ \A r \in Site \ {s} : holding'[r] = holding[r]
    BY <1>2 DEF TypeInv
<1> QED
    BY <1>1, <1>2, <1>5, <1>6, QuietTurn

\* textUpdater takes the next update from its queue.
LEMMA FetchStep ==
    ASSUME TypeInv, RelayInv, TurnInv, NEW s \in Site, Fetch(s)
    PROVE  TurnInv'
<1>1. PICK T \in Text : Agreed(T)
    BY DEF TurnInv
<1> DEFINE u == Head(Path(s)).body
<1>2. /\ Inbox[s] # <<>> /\ Head(Inbox[s]) = Head(textUpdates[s])
      /\ Inbox' = [Inbox EXCEPT ![s] = Tail(@)] /\ Pending' = Pending
    BY Effects DEF Fetch
<1>3. /\ Inbox[s] \in Seq(Relay!Message)
      /\ Pending[Host] \in Seq(Relay!Message)
    BY Queues, SamePath
<1>4. /\ Path(s) # <<>> /\ Head(Path(s)) = Head(textUpdates[s])
      /\ Path(s)' = Tail(Path(s))
      /\ \A r \in Site \ {s} : Path(r)' = Path(r)
    <2>1. /\ Inbox'[s] = Tail(Inbox[s])
          /\ \A r \in Site \ {s} : Inbox'[r] = Inbox[r]
        BY <1>2, Queues
    <2>2. CASE s = Host
        BY <1>2, <2>1, <2>2, SamePath
    <2>3. CASE s = Member
        <3> DEFINE a == Inbox[Member]
                   b == Pending[Host]
        <3>1. /\ a \in Seq(Relay!Message) /\ b \in Seq(Relay!Message)
              /\ a # <<>>
            BY <1>2, <1>3, <2>3
        <3> HIDE DEF a, b
        <3>2. /\ a \o b # <<>> /\ Head(a \o b) = Head(a)
              /\ Tail(a \o b) = Tail(a) \o b
            BY <3>1, RelayAssumptions, RP!TakeFirst
        <3> QED
            BY <1>2, <2>1, <2>3, <3>2, SamePath DEF a, b
    <2> QED
        BY <2>2, <2>3, SamePath
<1>5. Pending[Member] = <<>> /\ intended = T
    BY <1>1, <1>4 DEF Agreed, Ordered
<1>6. /\ holding[s] = <<>> /\ ide' = [ide EXCEPT ![s] = Announce(@, u)]
      /\ intended' = intended
    BY <1>4 DEF Fetch
<1>7. PICK prev \in Nat :
          holding' = [holding EXCEPT ![s] = <<[u |-> u, prev |-> prev]>>]
    <2>1. Len(ide[s].text) \in Nat
        BY Windows
    <2>2. PICK prev \in IF Head(textUpdates[s]).body.action = "+" THEN {0}
                        ELSE 0 .. Len(ide[s].text) :
              holding' = [holding EXCEPT ![s] =
                  <<[u |-> Head(textUpdates[s]).body, prev |-> prev]>>]
        BY DEF Fetch
    <2>3. prev \in Nat
        BY <2>1, <2>2
    <2> QED
        BY <1>4, <2>2, <2>3
<1>8. Ready(ide[s], <<>>, Path(s), AtMember(s), T)
    BY <1>1, <1>6 DEF Agreed, SiteReady
<1>9. Ready(Announce(ide[s], u), <<[u |-> u, prev |-> prev]>>,
            Tail(Path(s)), AtMember(s), T)
    BY <1>4, <1>8, PathType, ReadyFetch
<1> HIDE DEF u
<1>10. /\ ide'[s] = Announce(ide[s], u)
       /\ holding'[s] = <<[u |-> u, prev |-> prev]>>
       /\ \A r \in Site \ {s} : ide'[r] = ide[r] /\ holding'[r] = holding[r]
    BY <1>6, <1>7 DEF TypeInv
<1>11. SiteReady(s, T)'
    BY <1>4, <1>9, <1>10 DEF SiteReady
<1>12. ASSUME NEW r \in Site \ {s} PROVE SiteReady(r, T)'
    BY <1>1, <1>4, <1>10, SameReady DEF Agreed
<1>13. Ordered(T)'
    BY <1>2, <1>5, <1>6 DEF Ordered
<1>14. Agreed(T)'
    BY <1>11, <1>12, <1>13 DEF Agreed
<1> QED
    BY <1>14 DEF TurnInv

-----------------------------------------------------------------------------
(* The relay.                                                              *)

\* The member's edit is ordered: both windows are led on by it.
LEMMA RelayOrders ==
    ASSUME TypeInv, RelayInv, NEW T \in Text, Agreed(T),
           UNCHANGED <<ide, holding, intended>>,
           Pending[Member] # <<>>,
           Inbox' = [s \in Site |-> Inbox[s] \o <<Head(Pending[Member])>>],
           Pending' = [Pending EXCEPT ![Member] = Tail(@)]
    PROVE  TurnInv'
<1>0. Host \in Site /\ Member \in Site /\ Host # Member
    BY SamePath
<1>1. PICK m \in Relay!Message :
          /\ Pending[Member] = <<m>> /\ Fits(m.body, T)
          /\ intended = After(T, m.body)
          /\ \A s \in Site : Path(s) = <<>> /\ holding[s] = <<>>
    BY DEF Agreed, Ordered
<1> DEFINE x == After(T, m.body)
<1>2. x \in Text
    BY <1>1, AfterText
<1>3. Pending'[Member] = <<>> /\ Pending'[Host] = Pending[Host]
    <2>1. Tail(<<m>>) = <<>>
        OBVIOUS
    <2> QED
        BY <1>0, <1>1, <2>1, Queues
<1>4. Inbox' = [s \in Site |-> Inbox[s] \o <<m>>]
    BY <1>1
<1>5. \A s \in Site : Path(s)' = Path(s) \o <<m>>
    <2>1. Inbox[Host] = <<>> /\ Inbox[Member] \o Pending[Host] = <<>>
        BY <1>0, <1>1, SamePath
    <2>2. Inbox[Member] = <<>> /\ Pending[Host] = <<>>
        <3>1. /\ Inbox[Member] \in Seq(Relay!Message)
              /\ Pending[Host] \in Seq(Relay!Message)
            BY <1>0, Queues
        <3> QED
            BY <2>1, <3>1, EmptySeq
    <2>3. <<>> \o <<m>> = <<m>> /\ <<m>> \o <<>> = <<m>>
        OBVIOUS
    <2>a. /\ Inbox'[Host] = Inbox[Host] \o <<m>>
          /\ Inbox'[Member] = Inbox[Member] \o <<m>>
        BY <1>0, <1>4
    <2>b. /\ Inbox'[Host] = <<m>> /\ Inbox'[Member] = <<m>>
          /\ Pending'[Host] = <<>>
        BY <1>3, <2>1, <2>2, <2>3, <2>a
    <2>4. Path(Host)' = <<m>> /\ Path(Member)' = <<m>>
        BY <2>3, <2>b, SamePath
    <2> QED
        BY <1>1, <2>3, <2>4, SamePath
<1> HIDE DEF x
<1>6. ASSUME NEW s \in Site PROVE SiteReady(s, x)'
    <2>1. Ready(ide[s], holding[s], Path(s), AtMember(s), T)
        BY DEF Agreed, SiteReady
    <2>2. Ready(ide[s], holding[s], Path(s) \o <<m>>, AtMember(s), x)
        BY <1>1, <2>1, PathType, ReadyFurther DEF x
    <2> QED
        BY <1>5, <2>2 DEF SiteReady
<1>7. Ordered(x)'
    BY <1>1, <1>3 DEF Ordered, x
<1>8. Agreed(x)'
    BY <1>6, <1>7 DEF Agreed
<1> QED
    BY <1>2, <1>8 DEF TurnInv

\* An update of the host goes on to the member: the paths stay as they were.
LEMMA RelayPublishes ==
    ASSUME TypeInv, RelayInv, NEW T \in Text, Agreed(T),
           UNCHANGED <<ide, holding, intended>>,
           Pending[Host] # <<>>,
           Inbox' = [Inbox EXCEPT ![Member] = @ \o <<Head(Pending[Host])>>],
           Pending' = [Pending EXCEPT ![Host] = Tail(@)]
    PROVE  TurnInv'
<1>0. Host \in Site /\ Member \in Site /\ Host # Member
    BY SamePath
<1>1. /\ Inbox'[Member] = Inbox[Member] \o <<Head(Pending[Host])>>
      /\ Inbox'[Host] = Inbox[Host]
      /\ Pending'[Host] = Tail(Pending[Host])
      /\ Pending'[Member] = Pending[Member]
    BY <1>0, Queues
<1>2. \A s \in Site : Path(s)' = Path(s)
    <2> DEFINE a == Inbox[Member]
               b == Pending[Host]
    <2>1. /\ a \in Seq(Relay!Message) /\ b \in Seq(Relay!Message)
          /\ b # <<>>
        BY <1>0, Queues
    <2> HIDE DEF a, b
    <2>2. (a \o <<Head(b)>>) \o Tail(b) = a \o b
        BY <2>1, RelayAssumptions, RP!HandOver
    <2> QED
        BY <1>1, <2>2, SamePath DEF a, b
<1>3. \A s \in Site : SiteReady(s, T)'
    BY <1>2, SameReady DEF Agreed
<1>4. Ordered(T)'
    BY <1>1, <1>2 DEF Agreed, Ordered
<1>5. Agreed(T)'
    BY <1>3, <1>4 DEF Agreed
<1> QED
    BY <1>5 DEF TurnInv

\* Nothing the users see changes.
LEMMA NothingHappens ==
    ASSUME TurnInv, UNCHANGED <<ide, holding, intended>>, Pending' = Pending,
           Inbox' = Inbox
    PROVE  TurnInv'
<1>1. PICK T \in Text : Agreed(T)
    BY DEF TurnInv
<1>2. \A s \in Site : Path(s)' = Path(s)
    BY SamePath
<1>3. \A s \in Site : SiteReady(s, T)'
    BY <1>1, <1>2, SameReady DEF Agreed
<1>4. Ordered(T)'
    BY <1>1, <1>2 DEF Agreed, Ordered
<1>5. Agreed(T)'
    BY <1>3, <1>4 DEF Agreed
<1> QED
    BY <1>5 DEF TurnInv

\* The threads of the relay.
LEMMA ThreadsStep ==
    ASSUME TypeInv, RelayInv, TurnInv, HostThreads \/ MemberThreads
    PROVE  TurnInv'
<1>1. PICK T \in Text : Agreed(T)
    BY DEF TurnInv
<1>2. Relay!Threads /\ UNCHANGED <<ide, holding, intended>>
    BY DEF HostThreads, MemberThreads, Relay!Threads
<1>3. \/ /\ Pending[Host] # <<>>
         /\ Inbox' = [Inbox EXCEPT ![Member] = @ \o <<Head(Pending[Host])>>]
         /\ Pending' = [Pending EXCEPT ![Host] = Tail(@)]
      \/ /\ Pending[Member] # <<>>
         /\ Inbox' = [s \in Site |-> Inbox[s] \o <<Head(Pending[Member])>>]
         /\ Pending' = [Pending EXCEPT ![Member] = Tail(@)]
      \/ Pending' = Pending /\ Inbox' = Inbox
    BY <1>2, Effects
<1> QED
    BY <1>1, <1>2, <1>3, RelayPublishes, RelayOrders, NothingHappens

\* No step ends the agreement.
LEMMA StepTurnInv ==
    ASSUME Cooperative, TypeInv, RelayInv, TurnInv, [Next]_vars
    PROVE  TurnInv'
<1>1. CASE Network
    <2>1. FALSE
        BY <1>1 DEF Network, Relay!Network, Relay!Lose, Relay!Duplicate,
                    Relay!Reorder, Cooperative
    <2> QED
        BY <2>1
<1>2. CASE UNCHANGED vars
    <2>1. UNCHANGED relayVars /\ UNCHANGED <<ide, holding, intended>>
        BY <1>2 DEF vars
    <2> QED
        BY <2>1, Effects, NothingHappens
<1> QED
    BY <1>1, <1>2, KeyboardStep, UndoStep, FetchStep, ApplyStep, ThreadsStep
    DEF Next, Finished

-----------------------------------------------------------------------------
(* What the updates on their way make of a text.                           *)

\* A nonempty set of numbers has a smallest one.
Below == OpToRel(<, Nat)

LEMMA Smallest ==
    ASSUME NEW S \in SUBSET Nat, S # {}
    PROVE  \E n \in S : \A m \in S : n <= m
<1>1. IsWellFoundedOn(Below, Nat)
    BY NatLessThanWellFounded DEF Below
<1>2. PICK x \in S : \A y \in S : ~(<<y, x>> \in Below)
    BY <1>1, WFMin, Zenon
<1>3. \A y \in S : <<y, x>> \in Below <=> y < x
    BY DEF OpToRel, Below
<1>4. \A y \in S : x \in Nat /\ y \in Nat /\ ~(y < x)
    BY <1>2, <1>3
<1>5. \A y \in S : x <= y
    BY <1>4
<1> QED
    BY <1>5

\* g holds the texts the updates us make of t, one after the other.
Adds(g, t, us) ==
    g = [n \in 0 .. Len(us) |->
            IF n = 0 THEN t
            ELSE Edited(g[n - 1], us[n].offset,
                        IF us[n].action = "+" THEN 0 ELSE us[n].removed,
                        us[n].text)]

\* Updates that fit one after the other make of a text what they lead to.
LEMMA ResultOfSteps ==
    ASSUME NEW us, Len(us) \in Nat, NEW p \in Seq(Text),
           Len(p) = Len(us) + 1,
           \A i \in 1 .. Len(us) : /\ Fits(us[i], p[i])
                                   /\ p[i + 1] = After(p[i], us[i])
    PROVE  Result(p[1], us) = p[Len(us) + 1]
<1> DEFINE N == Len(us)
           t == p[1]
           h == [n \in 0 .. N |-> p[n + 1]]
           g == CHOOSE f : Adds(f, t, us)
<1>1. Result(t, us) = g[N]
    BY DEF Result, Adds
<1>2. ASSUME NEW i \in 1 .. N
      PROVE  p[i + 1] = Edited(p[i], us[i].offset,
                               IF us[i].action = "+" THEN 0
                               ELSE us[i].removed, us[i].text)
    <2>1. Fits(us[i], p[i]) /\ p[i + 1] = After(p[i], us[i])
        OBVIOUS
    <2>2. us[i].removed = IF us[i].action = "+" THEN 0 ELSE us[i].removed
        BY <2>1 DEF Fits
    <2> QED
        BY <2>1, <2>2 DEF After
<1>3. Adds(h, t, us)
    <2>1. ASSUME NEW n \in 0 .. N
          PROVE  h[n] = IF n = 0 THEN t
                        ELSE Edited(h[n - 1], us[n].offset,
                                    IF us[n].action = "+" THEN 0
                                    ELSE us[n].removed, us[n].text)
        <3>1. CASE n = 0
            BY <3>1
        <3>2. CASE n # 0
            <4>1. n \in 1 .. N /\ n - 1 \in 0 .. N /\ (n - 1) + 1 = n
                BY <3>2
            <4>2. h[n] = p[n + 1] /\ h[n - 1] = p[n]
                BY <4>1
            <4> QED
                BY <1>2, <3>2, <4>1, <4>2
        <3> QED
            BY <3>1, <3>2
    <2> QED
        BY <2>1 DEF Adds
<1> HIDE DEF h
<1>4. Adds(g, t, us)
    BY <1>3, Zenon
<1> HIDE DEF g
<1>5. g[0] = t /\ \A n \in 1 .. N :
          g[n] = Edited(g[n - 1], us[n].offset,
                        IF us[n].action = "+" THEN 0 ELSE us[n].removed,
                        us[n].text)
    <2> DEFINE next(n) == Edited(g[n - 1], us[n].offset,
                                 IF us[n].action = "+" THEN 0
                                 ELSE us[n].removed, us[n].text)
    <2>1. g = [n \in 0 .. N |-> IF n = 0 THEN t ELSE next(n)]
        BY <1>4 DEF Adds
    <2> HIDE DEF next
    <2>2. \A n \in 0 .. N : g[n] = IF n = 0 THEN t ELSE next(n)
        BY <2>1, Zenon
    <2>3. g[0] = t /\ \A n \in 1 .. N : g[n] = next(n)
        BY <2>2
    <2> QED
        BY <2>3 DEF next
<1>6. \A n \in 0 .. N : g[n] = p[n + 1]
    <2> DEFINE W == {n \in 0 .. N : g[n] # p[n + 1]}
    <2>1. ASSUME W # {} PROVE FALSE
        <3>1. W \in SUBSET Nat
            OBVIOUS
        <3>2. PICK n \in W : \A m \in W : n <= m
            BY <2>1, <3>1, Smallest
        <3>3. n \in 1 .. N
            BY <1>5, <3>2
        <3>4. n - 1 \in 0 .. N /\ ~(n <= n - 1) /\ (n - 1) + 1 = n
            BY <3>3
        <3>a. n - 1 \notin W
            BY <3>2, <3>4, Zenon
        <3>5. g[n - 1] = p[n]
            BY <3>4, <3>a
        <3>6. g[n] = p[n + 1]
            BY <1>2, <1>5, <3>3, <3>5
        <3> QED
            BY <3>2, <3>6
    <2> QED
        BY <2>1
<1> QED
    BY <1>1, <1>6

\* One more in front of a sequence: the others move up by one.
LEMMA InFront ==
    ASSUME NEW S, NEW c \in Seq(S), Len(c) = 1, NEW d \in Seq(S),
           NEW k \in Nat, Len(d) = k
    PROVE  /\ c \o d \in Seq(S)
           /\ Len(c \o d) = k + 1
           /\ (c \o d)[1] = c[1]
           /\ \A i \in 2 .. k + 1 : (c \o d)[i] = d[i - 1]
<1> DEFINE y == c \o d
<1>1. /\ c \o d \in Seq(S) /\ Len(c \o d) = Len(c) + Len(d)
      /\ \A j \in 1 .. Len(c) + Len(d) :
             (c \o d)[j] = IF j <= Len(c) THEN c[j] ELSE d[j - Len(c)]
    BY ConcatProperties
<1>2. /\ y \in Seq(S) /\ Len(y) = 1 + k
      /\ \A j \in 1 .. 1 + k : y[j] = IF j <= 1 THEN c[j] ELSE d[j - 1]
    BY <1>1
<1> HIDE DEF y
<1>3. /\ y \in Seq(S) /\ Len(y) = k + 1 /\ y[1] = c[1]
      /\ \A i \in 2 .. k + 1 : y[i] = d[i - 1]
    BY <1>2
<1> QED
    BY <1>3 DEF y

\* What is in hand and on its way to a window makes the ordered text of what
\* it shows.
LEMMA ReadyAddsUp ==
    ASSUME NEW M, NEW e, NEW h, NEW q \in Seq(M), NEW isMember, NEW T,
           Ready(e, h, q, isMember, T), e.posts = 0
    PROVE  Result(e.text, [i \in 1 .. Len(h) |-> h[i].u] \o Bodies(q)) = T
<1>1. PICK v \in Text, a \in Text :
          Shows(e, isMember, v) /\ InHand(e, h, v, a) /\ Leads(a, q, T)
    BY DEF Ready
<1>2. e.text = v
    BY <1>1 DEF Shows
<1>3. PICK p \in Seq(Text) : Steps(p, a, q, T)
    BY <1>1 DEF Leads
<1> DEFINE b  == Bodies(q)
           hs == [i \in 1 .. Len(h) |-> h[i].u]
           n  == Len(q)
<1>4. n \in Nat /\ Len(b) = n /\ \A i \in 1 .. n : b[i] = q[i].body
    BY LenProperties DEF Bodies
<1>5. /\ Len(p) = n + 1 /\ p[1] = a /\ p[n + 1] = T
      /\ \A i \in 1 .. n : /\ Fits(b[i], p[i])
                           /\ p[i + 1] = After(p[i], b[i])
    BY <1>3, <1>4 DEF Steps
<1>6. b \in Seq(Update)
    <2>1. \A i \in 1 .. n : q[i].body \in Update
        BY <1>4, <1>5 DEF Fits
    <2> QED
        BY <1>4, <2>1 DEF Bodies
<1> HIDE DEF b, n
<1>7. CASE h = <<>>
    <2>1. hs = <<>>
        BY <1>7
    <2> HIDE DEF hs
    <2>2. hs \o b = b
        BY <1>6, <2>1, ConcatEmptySeq
    <2>3. a = v
        BY <1>1, <1>7 DEF InHand
    <2>4. Result(p[1], b) = p[n + 1]
        BY <1>4, <1>5, ResultOfSteps
    <2> QED
        BY <1>2, <1>5, <2>2, <2>3, <2>4 DEF b, hs
<1>8. ASSUME NEW w \in Work, h = <<w>>, Fits(w.u, v), a = After(v, w.u)
      PROVE  Result(e.text, hs \o b) = T
    <2> DEFINE us == hs \o b
               r  == <<v>> \o p
    <2>1. Len(hs) = 1 /\ hs[1] = w.u /\ hs \in Seq(Update)
        <3>1. w.u \in Update
            BY <1>8 DEF Fits
        <3> QED
            BY <1>8, <3>1
    <2> HIDE DEF hs
    <2>2. /\ Len(us) = n + 1 /\ us[1] = w.u
          /\ \A i \in 2 .. n + 1 : us[i] = b[i - 1]
        <3>1. /\ Len(hs \o b) = n + 1 /\ (hs \o b)[1] = hs[1]
              /\ \A i \in 2 .. n + 1 : (hs \o b)[i] = b[i - 1]
            BY <1>4, <1>6, <2>1, InFront
        <3> QED
            BY <2>1, <3>1
    <2>3. /\ r \in Seq(Text) /\ Len(r) = n + 2 /\ r[1] = v
          /\ \A i \in 2 .. n + 2 : r[i] = p[i - 1]
        <3> DEFINE z == <<v>>
        <3>1. z \in Seq(Text) /\ Len(z) = 1 /\ z[1] = v
            OBVIOUS
        <3> HIDE DEF z
        <3>2. /\ z \o p \in Seq(Text) /\ Len(z \o p) = (n + 1) + 1
              /\ (z \o p)[1] = z[1]
              /\ \A i \in 2 .. (n + 1) + 1 : (z \o p)[i] = p[i - 1]
            BY <1>4, <1>5, <3>1, InFront
        <3>3. (n + 1) + 1 = n + 2
            BY <1>4
        <3>4. /\ z \o p \in Seq(Text) /\ Len(z \o p) = n + 2
              /\ (z \o p)[1] = v
              /\ \A i \in 2 .. n + 2 : (z \o p)[i] = p[i - 1]
            BY <3>1, <3>2, <3>3
        <3> QED
            BY <3>4 DEF z
    <2> HIDE DEF us, r
    <2>4. ASSUME NEW i \in 1 .. n + 1
          PROVE  Fits(us[i], r[i]) /\ r[i + 1] = After(r[i], us[i])
        <3>1. CASE i = 1
            <4>1. us[1] = w.u /\ r[1] = v /\ r[2] = a
                BY <1>4, <1>5, <2>2, <2>3
            <4> QED
                BY <1>8, <3>1, <4>1
        <3>2. CASE i # 1
            <4>1. /\ i - 1 \in 1 .. n /\ i \in 2 .. n + 1
                  /\ i + 1 \in 2 .. n + 2 /\ i \in 2 .. n + 2
                  /\ (i + 1) - 1 = (i - 1) + 1
                BY <1>4, <3>2
            <4>2. us[i] = b[i - 1] /\ r[i] = p[i - 1]
                      /\ r[i + 1] = p[(i - 1) + 1]
                BY <2>2, <2>3, <4>1
            <4> QED
                BY <1>5, <4>1, <4>2
        <3> QED
            BY <3>1, <3>2
    <2>5. Len(us) \in Nat /\ Len(r) = Len(us) + 1 /\ r[Len(us) + 1] = T
        BY <1>4, <1>5, <2>2, <2>3
    <2>6. Result(r[1], us) = r[Len(us) + 1]
        BY <2>2, <2>3, <2>4, <2>5, ResultOfSteps
    <2> QED
        BY <1>2, <2>3, <2>5, <2>6 DEF us
<1> QED
    BY <1>1, <1>7, <1>8 DEF InHand, b

-----------------------------------------------------------------------------
(* The theorems.                                                           *)

\* The session stays agreed on a text.
LEMMA Agreement ==
    Cooperative => (Spec => [](TypeInv /\ RelayInv /\ TurnInv))
<1> SUFFICES ASSUME Cooperative
             PROVE  Spec => [](TypeInv /\ RelayInv /\ TurnInv)
    OBVIOUS
<1>1. Init => TypeInv /\ RelayInv /\ TurnInv
    BY InitTypeInv, RelayInvHolds, InitTurnInv
<1>2. TypeInv /\ RelayInv /\ TurnInv /\ [Next]_vars =>
          (TypeInv /\ RelayInv /\ TurnInv)'
    BY StepTypeInv, RelayInvHolds, StepTurnInv
<1> QED
    BY <1>1, <1>2, PTL DEF Spec

\* In a cooperative session no update ends one of the two programs: each one
\* fits the text it meets, however many others are on their way.
THEOREM TurnsNeverCrash == Cooperative => (Spec => []NoCrash)
<1>1. TurnInv => NoCrash
    BY DEF TurnInv, Agreed, SiteReady, Ready, Shows, NoCrash, Alive
<1> QED
    BY <1>1, Agreement, PTL

\* Quiet windows of an agreed session show the ordered text and owe nothing.
LEMMA QuietWindows ==
    ASSUME RelayInv, TurnInv, Quiet
    PROVE  \A s \in Site : ide[s].text = intended /\ ide[s].tokens = 0
<1>1. PICK T \in Text : Agreed(T)
    BY DEF TurnInv
<1>2. \A s \in Site : /\ Path(s) = <<>> /\ Pending[s] = <<>>
                      /\ holding[s] = <<>> /\ ide[s].posts = 0
    BY DrainedQueues DEF Quiet
<1>3. \A s \in Site : ide[s].text = T /\ ide[s].tokens = 0
    BY <1>1, <1>2, ReadyIdle DEF Agreed, SiteReady
<1>4. \A m : <<m>> # <<>>
    OBVIOUS
<1>5. intended = T
    BY <1>1, <1>2, <1>4, SamePath DEF Agreed, Ordered
<1> QED
    BY <1>3, <1>5

\* Once everything has settled both windows show the text the last key press
\* aimed at, also when that was an edit of the member's that went to the host
\* and back, and was undone in between.
THEOREM TurnsPreserveIntent == Cooperative => (Spec => []IntentPreserved)
<1>1. RelayInv /\ TurnInv => IntentPreserved
    BY QuietWindows DEF IntentPreserved
<1> QED
    BY <1>1, Agreement, PTL

\* Once everything has settled no editor is left with a token, or owes one:
\* the next change of its user is told.
THEOREM TurnsBalanceTokens == Cooperative => (Spec => []TokensBalanced)
<1>1. RelayInv /\ TurnInv => TokensBalanced
    BY QuietWindows DEF TokensBalanced
<1> QED
    BY <1>1, Agreement, PTL

\* At every moment, however far the updates have come, each window and what
\* is on its way to it add up to the same text.
THEOREM TurnsAddUp == Cooperative => (Spec => []SameText)
<1>1. ASSUME RelayInv, TurnInv, ide[Member].posts = 0
      PROVE  Result(ide[Host].text, ToCome(Host))
                 = Result(ide[Member].text, ToCome(Member))
    <2>1. PICK T \in Text : Agreed(T)
        BY <1>1 DEF TurnInv
    <2>2. ASSUME NEW s \in Site
          PROVE  ToCome(s) = [i \in 1 .. Len(holding[s]) |-> holding[s][i].u]
                                 \o Bodies(Path(s))
        <3>1. Inbox[Host] \in Seq(Relay!Message)
            BY <1>1, Queues, SamePath
        <3>2. Inbox[Host] \o <<>> = Inbox[Host]
            BY <3>1, ConcatEmptySeq
        <3>3. Pending[Host] = textChanges[Host]
            BY DEF Pending, Relay!PendingBar, Relay!Site, Relay!Host, Host
        <3> QED
            BY <3>2, <3>3, SamePath DEF ToCome, Path, Inbox
    <2>3. ASSUME NEW s \in Site
          PROVE  Result(ide[s].text, ToCome(s)) = T
        <3>1. Ready(ide[s], holding[s], Path(s), AtMember(s), T)
            BY <2>1 DEF Agreed, SiteReady
        <3>2. ide[s].posts = 0
            <4>1. CASE s = Host
                BY <3>1, <4>1, SamePath DEF Ready, Shows, AtMember
            <4> QED
                BY <1>1, <4>1, SamePath
        <3>3. Path(s) \in Seq(Relay!Message)
            BY <1>1, PathType
        <3> QED
            BY <2>2, <3>1, <3>2, <3>3, ReadyAddsUp
    <2> QED
        BY <2>3, SamePath
<1>2. RelayInv /\ TurnInv => SameText
    BY <1>1 DEF SameText
<1> QED
    BY <1>2, Agreement, PTL
=============================================================================
