-------------------------- MODULE UpdateRelayProofs --------------------------
(***************************************************************************)
(* Theorems about UpdateRelay, for every set of updates, every bound on    *)
(* what is in flight and, unless stated otherwise, every set of UDP        *)
(* faults.                                                                 *)
(***************************************************************************)
EXTENDS UpdateRelay, SequenceTheorems, TLAPS

-----------------------------------------------------------------------------
(* Sequences: what moving the head of one queue to the end of the next     *)
(* does to the two of them put together.                                   *)

\* The head of a queue is one of its elements and so is every element of
\* its tail.
LEMMA HeadTailType ==
    ASSUME NEW S, NEW q \in Seq(S), q # <<>>
    PROVE  Head(q) \in S /\ Tail(q) \in Seq(S) /\ q = <<Head(q)>> \o Tail(q)
<1>1. Head(q) \in S /\ Tail(q) \in Seq(S)
    BY HeadTailProperties
<1>2. Len(<<Head(q)>> \o Tail(q)) = Len(q)
    BY <1>1
<1>3. ASSUME NEW i \in 1 .. Len(q) PROVE (<<Head(q)>> \o Tail(q))[i] = q[i]
    BY <1>1
<1>4. <<Head(q)>> \o Tail(q) = q
    BY <1>1, <1>2, <1>3, SeqEqual
<1> QED
    BY <1>1, <1>4

\* Moving the head of b to the end of a leaves a and b, read in one go, as
\* they were.
LEMMA HandOver ==
    ASSUME NEW S, NEW a \in Seq(S), NEW b \in Seq(S), b # <<>>
    PROVE  (a \o <<Head(b)>>) \o Tail(b) = a \o b
<1>1. Head(b) \in S /\ Tail(b) \in Seq(S) /\ b = <<Head(b)>> \o Tail(b)
    BY HeadTailType
<1>2. (a \o <<Head(b)>>) \o Tail(b) = a \o (<<Head(b)>> \o Tail(b))
    BY <1>1, ConcatAssociative
<1> QED
    BY <1>1, <1>2

\* Taking the head of a concatenation takes the head of its first part.
LEMMA TakeFirst ==
    ASSUME NEW S, NEW a \in Seq(S), NEW b \in Seq(S), a # <<>>
    PROVE  /\ a \o b # <<>>
           /\ Head(a \o b) = Head(a)
           /\ Tail(a \o b) = Tail(a) \o b
<1>1. Len(a) > 0
    BY EmptySeq
<1>2. a \o b # <<>> /\ Head(a \o b) = Head(a)
    BY <1>1
<1>3. Tail(a \o b) = Tail(a) \o b
    BY <1>1
<1> QED
    BY <1>2, <1>3
-----------------------------------------------------------------------------
(* Type correctness.                                                       *)

\* Init establishes the type invariant.
LEMMA InitTypeOK == Init => TypeOK
<1> SUFFICES ASSUME Init PROVE TypeOK
    OBVIOUS
<1>1. <<>> \in Seq(Message)
    BY EmptySeq
<1> QED
    BY <1>1 DEF Init, TypeOK

\* One update is queued as one message, tagged with its editor.
LEMMA SubmitAppends ==
    ASSUME NEW s \in Site, NEW u \in Update, TypeOK,
           AddTextChanges(s, <<u>>)
    PROVE  /\ [from |-> s, body |-> u] \in Message
           /\ textChanges' = [textChanges EXCEPT ![s] =
                                 Append(@, [from |-> s, body |-> u])]
           /\ textChanges[s] \o <<[from |-> s, body |-> u]>>
                 = Append(textChanges[s], [from |-> s, body |-> u])
           /\ UNCHANGED <<textUpdates, net, updateDelivery, distributing,
                          updateIDE>>
<1> DEFINE m  == [from |-> s, body |-> u]
           ms == [i \in 1 .. Len(<<u>>) |-> [from |-> s, body |-> <<u>>[i]]]
<1>1. m \in Message
    BY DEF Message
<1>2. ms = <<m>>
    OBVIOUS
<1>3. textChanges' = [textChanges EXCEPT ![s] = @ \o ms]
    BY DEF AddTextChanges
<1> HIDE DEF m, ms
<1>4. textChanges[s] \o <<m>> = Append(textChanges[s], m)
    BY <1>1, AppendIsConcat DEF TypeOK
<1>5. textChanges' = [textChanges EXCEPT ![s] = Append(@, m)]
    BY <1>2, <1>3, <1>4
<1> QED
    BY <1>1, <1>4, <1>5 DEF AddTextChanges, m

\* A concatenation, element by element.
LEMMA ConcatIndex ==
    ASSUME NEW s \in Seq(Message), NEW t \in Seq(Message)
    PROVE  /\ s \o t \in Seq(Message) /\ Len(s \o t) = Len(s) + Len(t)
           /\ \A j \in 1 .. Len(s) + Len(t) :
                  (s \o t)[j] = IF j <= Len(s) THEN s[j] ELSE t[j - Len(s)]
BY ConcatProperties

\* A queue loses a datagram, or has one moved or repeated, and keeps its type.
LEMMA RemoveAtType ==
    ASSUME NEW q \in Seq(Message), NEW i \in 1 .. Len(q)
    PROVE  /\ q[i] \in Message
           /\ RemoveAt(q, i) \in Seq(Message)
<1>1. q[i] \in Message
    OBVIOUS
<1>2. SubSeq(q, 1, i - 1) \in Seq(Message)
    BY SubSeqProperties
<1>3. SubSeq(q, i + 1, Len(q)) \in Seq(Message)
    BY SubSeqProperties
<1> QED
    BY <1>1, <1>2, <1>3, ConcatProperties DEF RemoveAt

\* No step of the pipeline takes a queue out of its type.
LEMMA StepTypeOK == TypeOK /\ [Next]_vars => TypeOK'
<1> SUFFICES ASSUME TypeOK, [Next]_vars PROVE TypeOK'
    OBVIOUS
<1> USE DEF TypeOK
<1> Site = {Host, Member} /\ Host # Member
    BY DEF Site, Host, Member
<1>1. ASSUME NEW s \in Site, NEW u \in Update, Submit(s, u) PROVE TypeOK'
    <2> DEFINE m == [from |-> s, body |-> u]
    <2>1. m \in Message /\ textChanges' = [textChanges EXCEPT ![s] = Append(@, m)]
        BY <1>1, SubmitAppends DEF Submit
    <2>2. Append(textChanges[s], m) \in Seq(Message)
        BY <2>1, AppendProperties
    <2> HIDE DEF m
    <2> QED
        BY <1>1, <2>1, <2>2, SubmitAppends DEF Submit
<1>2. ASSUME NEW s \in Site, Take(s) PROVE TypeOK'
    BY <1>2, HeadTailType DEF Take
<1>3. CASE HostScanner
    BY <1>3, HeadTailType DEF HostScanner, Broadcast
<1>4. CASE HostListener
    BY <1>4, HeadTailType DEF HostListener
<1>5. CASE DistributorBroadcast
    BY <1>5, HeadTailType DEF DistributorBroadcast, Broadcast
<1>6. CASE DistributorToIDE
    BY <1>6, HeadTailType, EmptySeq DEF DistributorToIDE
<1>7. CASE MemberScanner
    BY <1>7, HeadTailType DEF MemberScanner
<1>8. CASE MemberListener
    BY <1>8, HeadTailType DEF MemberListener
<1>9. CASE MemberForward
    BY <1>9, HeadTailType DEF MemberForward
<1>10. ASSUME NEW s \in Site, Lose(s) PROVE TypeOK'
    BY <1>10, RemoveAtType DEF Lose, NetBecomes
<1>11. ASSUME NEW s \in Site, Duplicate(s) PROVE TypeOK'
    BY <1>11, RemoveAtType, AppendProperties DEF Duplicate, NetBecomes
<1>12. ASSUME NEW s \in Site, Reorder(s) PROVE TypeOK'
    BY <1>12, RemoveAtType, AppendProperties DEF Reorder, NetBecomes
<1>13. CASE UNCHANGED vars
    BY <1>13 DEF vars
<1> QED
    BY <1>1, <1>2, <1>3, <1>4, <1>5, <1>6, <1>7, <1>8, <1>9, <1>10, <1>11,
       <1>12, <1>13 DEF Next, Threads, Network

\* Every queue on the path holds messages of the session's two editors only,
\* whatever UDP does to the datagrams.
THEOREM TypeCorrect == Spec => []TypeOK
    BY InitTypeOK, StepTypeOK, PTL DEF Spec
-----------------------------------------------------------------------------
(* No echo to the host.  The updates that reach the host's editor start in *)
(* the member's textChanges, so the invariant has to speak of that queue   *)
(* too to be inductive.                                                    *)

EchoInv == NoEchoToHost /\ FromOnly(textChanges[Member], Member)

\* The queue operations keep "every message of the queue is from s".
LEMMA FromOnlyOps ==
    ASSUME NEW s, NEW q \in Seq(Message), FromOnly(q, s)
    PROVE  /\ q # <<>> => Head(q).from = s /\ FromOnly(Tail(q), s)
           /\ \A m \in Message : m.from = s => FromOnly(Append(q, m), s)
           /\ \A i \in 1 .. Len(q) : FromOnly(RemoveAt(q, i), s)
<1>1. ASSUME q # <<>> PROVE Head(q).from = s /\ FromOnly(Tail(q), s)
    <2>1. Len(q) > 0
        BY <1>1, EmptySeq
    <2> QED
        BY <2>1 DEF FromOnly
<1>2. ASSUME NEW m \in Message, m.from = s PROVE FromOnly(Append(q, m), s)
    BY <1>2 DEF FromOnly
<1>3. ASSUME NEW i \in 1 .. Len(q) PROVE FromOnly(RemoveAt(q, i), s)
    <2> DEFINE n == Len(q)
               a == SubSeq(q, 1, i - 1)
               b == SubSeq(q, i + 1, n)
    <2>0. n \in Nat /\ i \in 1 .. n /\ n = Len(q)
        BY LenProperties
    <2>1. a \in Seq(Message) /\ Len(a) = i - 1
              /\ \A j \in 1 .. i - 1 : a[j] = q[j]
        BY <2>0, SubSeqProperties
    <2>2. b \in Seq(Message) /\ Len(b) = n - i
              /\ \A j \in 1 .. n - i : b[j] = q[j + i]
        BY <2>0, SubSeqProperties
    <2>r. RemoveAt(q, i) = a \o b
        BY DEF RemoveAt
    <2> HIDE DEF a, b, n
    <2>3. /\ Len(RemoveAt(q, i)) = n - 1
          /\ \A j \in 1 .. n - 1 : RemoveAt(q, i)[j] =
                 IF j <= i - 1 THEN a[j] ELSE b[j - (i - 1)]
        <3>1. Len(a) + Len(b) = n - 1
            BY <2>0, <2>1, <2>2
        <3>2. /\ Len(a \o b) = Len(a) + Len(b)
              /\ \A j \in 1 .. Len(a) + Len(b) :
                     (a \o b)[j] = IF j <= Len(a) THEN a[j] ELSE b[j - Len(a)]
            <4>1. a \in Seq(Message) /\ b \in Seq(Message)
                BY <2>1, <2>2
            <4> QED
                BY <4>1, ConcatIndex, Zenon
        <3> QED
            BY <2>1, <2>r, <3>1, <3>2
    <2>4. ASSUME NEW j \in 1 .. Len(RemoveAt(q, i))
          PROVE  RemoveAt(q, i)[j].from = s
        <3>1. CASE j <= i - 1
            <4>1. j \in 1 .. n /\ RemoveAt(q, i)[j] = q[j]
                BY <2>0, <2>1, <2>3, <3>1
            <4> QED
                BY <2>0, <4>1 DEF FromOnly
        <3>2. CASE j > i - 1
            <4>1. j - (i - 1) \in 1 .. n - i /\ j + 1 \in 1 .. n
                BY <2>0, <2>3, <3>2
            <4>2. RemoveAt(q, i)[j] = q[j + 1]
                BY <2>0, <2>2, <2>3, <3>2, <4>1
            <4> QED
                BY <2>0, <4>1, <4>2 DEF FromOnly
        <3> QED
            BY <2>0, <2>3, <3>1, <3>2
    <2> QED
        BY <2>4 DEF FromOnly
<1> QED
    BY <1>1, <1>2, <1>3

\* No step puts an update of the host's editor on the path to the host.
LEMMA StepEchoInv == TypeOK /\ EchoInv /\ [Next]_vars => EchoInv'
<1> SUFFICES ASSUME TypeOK, EchoInv, [Next]_vars PROVE EchoInv'
    OBVIOUS
<1> USE DEF TypeOK, EchoInv, NoEchoToHost
<1> Site = {Host, Member} /\ Host # Member
    BY DEF Site, Host, Member
<1>0. FromOnly(<<>>, Member)
    BY DEF FromOnly
<1>1. ASSUME NEW s \in Site, NEW u \in Update, Submit(s, u) PROVE EchoInv'
    <2> DEFINE m == [from |-> s, body |-> u]
    <2>1. m \in Message /\ textChanges' = [textChanges EXCEPT ![s] = Append(@, m)]
        BY <1>1, SubmitAppends DEF Submit
    <2>2. m.from = s
        OBVIOUS
    <2> HIDE DEF m
    <2>3. s = Member => FromOnly(Append(textChanges[s], m), Member)
        BY <2>1, <2>2, FromOnlyOps
    <2>4. FromOnly(textChanges'[Member], Member)
        BY <2>1, <2>3
    <2> QED
        BY <1>1, <2>4, SubmitAppends DEF Submit
<1>2. ASSUME NEW s \in Site, Take(s) PROVE EchoInv'
    BY <1>2, FromOnlyOps DEF Take
<1>3. CASE HostScanner
    BY <1>3 DEF HostScanner, Broadcast
<1>4. CASE HostListener
    BY <1>4, FromOnlyOps, HeadTailType DEF HostListener
<1>5. CASE DistributorBroadcast
    <2>1. Head(updateDelivery) \in Message
        BY <1>5, HeadTailType DEF DistributorBroadcast
    <2>2. FromOnly(<<Head(updateDelivery)>>, Member)
        BY <1>5, <2>1, FromOnlyOps DEF DistributorBroadcast, FromOnly
    <2> QED
        BY <1>5, <2>2, FromOnlyOps DEF DistributorBroadcast, Broadcast
<1>6. CASE DistributorToIDE
    BY <1>0, <1>6, FromOnlyOps, HeadTailType DEF DistributorToIDE
<1>7. CASE MemberScanner
    BY <1>7, FromOnlyOps, HeadTailType DEF MemberScanner
<1>8. CASE MemberListener
    BY <1>8 DEF MemberListener
<1>9. CASE MemberForward
    BY <1>9 DEF MemberForward
<1>10. ASSUME NEW s \in Site, Lose(s) PROVE EchoInv'
    <2>1. PICK i \in 1 .. Len(net[s]) : NetBecomes(s, RemoveAt(net[s], i))
        BY <1>10 DEF Lose
    <2>2. s = Host => FromOnly(RemoveAt(net[s], i), Member)
        BY FromOnlyOps
    <2> QED
        BY <2>1, <2>2 DEF NetBecomes
<1>11. ASSUME NEW s \in Site, Duplicate(s) PROVE EchoInv'
    <2>1. PICK i \in 1 .. Len(net[s]) : NetBecomes(s, Append(net[s], net[s][i]))
        BY <1>11 DEF Duplicate
    <2>2. s = Host => net[s][i].from = Member /\ net[s][i] \in Message
        BY DEF FromOnly
    <2>3. s = Host => FromOnly(Append(net[s], net[s][i]), Member)
        BY <2>2, FromOnlyOps
    <2> QED
        BY <2>1, <2>3 DEF NetBecomes
<1>12. ASSUME NEW s \in Site, Reorder(s) PROVE EchoInv'
    <2>1. PICK i \in 1 .. Len(net[s]) :
              NetBecomes(s, Append(RemoveAt(net[s], i), net[s][i]))
        BY <1>12 DEF Reorder
    <2>2. s = Host => net[s][i].from = Member /\ net[s][i] \in Message
        BY DEF FromOnly
    <2>3. s = Host => /\ RemoveAt(net[s], i) \in Seq(Message)
                      /\ FromOnly(RemoveAt(net[s], i), Member)
        BY FromOnlyOps, RemoveAtType
    <2>4. s = Host => FromOnly(Append(RemoveAt(net[s], i), net[s][i]), Member)
        BY <2>2, <2>3, FromOnlyOps
    <2> QED
        BY <2>1, <2>4 DEF NetBecomes
<1>13. CASE UNCHANGED vars
    BY <1>13 DEF vars
<1> QED
    BY <1>1, <1>2, <1>3, <1>4, <1>5, <1>6, <1>7, <1>8, <1>9, <1>10, <1>11,
       <1>12, <1>13 DEF Next, Threads, Network

\* Whatever UDP loses, repeats or delays, no update the host's editor made
\* is on any part of the path back into the host's editor.
THEOREM HostHearsMemberOnly == Spec => []NoEchoToHost
<1>1. Init => EchoInv
    BY DEF Init, EchoInv, NoEchoToHost, FromOnly, Site, Host, Member
<1>2. EchoInv => NoEchoToHost
    BY DEF EchoInv
<1> QED
    BY <1>1, <1>2, StepEchoInv, TypeCorrect, PTL DEF Spec
-----------------------------------------------------------------------------
(* The pipeline implements the ordered relay.  The mapping reads the update *)
(* the distributor holds as one the host's editor may already take, and so  *)
(* the argument needs that it never holds two.                              *)

OneInHand == distributing = <<>> \/ Len(distributing) = 1

\* The distributor never has more than one update in hand.
LEMMA StepOneInHand == TypeOK /\ OneInHand /\ [Next]_vars => OneInHand'
<1> SUFFICES ASSUME TypeOK, OneInHand, [Next]_vars PROVE OneInHand'
    OBVIOUS
<1>1. CASE DistributorBroadcast
    BY <1>1 DEF DistributorBroadcast, OneInHand
<1>2. CASE DistributorToIDE
    BY <1>2 DEF DistributorToIDE, OneInHand
<1>3. CASE UNCHANGED distributing
    BY <1>3 DEF OneInHand
<1> QED
    BY <1>1, <1>2, <1>3
    DEF Next, vars, Threads, Network, Submit, AddTextChanges, Take,
        HostScanner, HostListener, MemberScanner, MemberListener,
        MemberForward, Lose, Duplicate, Reorder, NetBecomes

\* A sequence of one element put after a queue is that element appended.
LEMMA AppendOne ==
    ASSUME NEW S, NEW q \in Seq(S), NEW m \in S
    PROVE  /\ q \o <<m>> = Append(q, m)
           /\ <<m>> \in Seq(S)
           /\ Append(q, m) \in Seq(S)
    BY AppendIsConcat, AppendProperties

\* Where the boundary between three queues lies makes no difference.
LEMMA Associative ==
    \A a, b, c \in Seq(Message) : (a \o b) \o c = a \o (b \o c)
    BY ConcatAssociative

\* The same, named; and the five parts a fault makes, regrouped.
Assoc(a, b, c) == (a \o b) \o c = a \o (b \o c)

Regrouped(a, p, h, r, c) ==
    /\ (a \o ((p \o h) \o r)) \o c = ((a \o p) \o h) \o (r \o c)
    /\ (a \o (p \o r)) \o c = (a \o p) \o (r \o c)

LEMMA AssocHolds == \A a, b, c \in Seq(Message) : Assoc(a, b, c)
    BY Associative DEF Assoc

LEMMA Regroup ==
    ASSUME NEW a \in Seq(Message), NEW p \in Seq(Message),
           NEW h \in Seq(Message), NEW r \in Seq(Message),
           NEW c \in Seq(Message)
    PROVE  Regrouped(a, p, h, r, c)
<1>1. p \o h \in Seq(Message) /\ a \o p \in Seq(Message)
    BY ConcatProperties
<1>2. (a \o p) \o h \in Seq(Message)
    BY <1>1, ConcatProperties
<1>3. /\ Assoc(a, p \o h, r) /\ Assoc(a, p, h) /\ Assoc((a \o p) \o h, r, c)
      /\ Assoc(a, p, r) /\ Assoc(a \o p, r, c)
    BY <1>1, <1>2, AssocHolds
<1> QED
    BY <1>3, Zenon DEF Assoc, Regrouped

\* Two queues read in one go, a \o b: a hand-over changes nothing, taking
\* from the first takes from the whole.
LEMMA TwoQueues ==
    \A a, b \in Seq(Message) :
        /\ b # <<>> => (a \o <<Head(b)>>) \o Tail(b) = a \o b
        /\ a # <<>> => /\ a \o b # <<>>
                       /\ Head(a \o b) = Head(a)
                       /\ Tail(a \o b) = Tail(a) \o b
        /\ \A m \in Message : a \o <<m>> = Append(a, m)
    BY HandOver, TakeFirst, AppendOne

\* Three queues read in one go, (a \o b) \o c: a hand-over between two
\* neighbours changes nothing, taking from the first takes from the whole,
\* appending to the last appends to the whole.
LEMMA ThreeQueues ==
    \A a, b, c \in Seq(Message) :
        /\ b # <<>> => (Append(a, Head(b)) \o Tail(b)) \o c = (a \o b) \o c
        /\ c # <<>> => (a \o Append(b, Head(c))) \o Tail(c) = (a \o b) \o c
        /\ a # <<>> => /\ (a \o b) \o c # <<>>
                       /\ Head((a \o b) \o c) = Head(a)
                       /\ Tail((a \o b) \o c) = (Tail(a) \o b) \o c
        /\ \A m \in Message :
               (a \o b) \o Append(c, m) = ((a \o b) \o c) \o <<m>>
<1> SUFFICES ASSUME NEW a \in Seq(Message), NEW b \in Seq(Message),
                    NEW c \in Seq(Message)
             PROVE  /\ b # <<>> => (Append(a, Head(b)) \o Tail(b)) \o c = (a \o b) \o c
                    /\ c # <<>> => (a \o Append(b, Head(c))) \o Tail(c) = (a \o b) \o c
                    /\ a # <<>> => /\ (a \o b) \o c # <<>>
                                   /\ Head((a \o b) \o c) = Head(a)
                                   /\ Tail((a \o b) \o c) = (Tail(a) \o b) \o c
                    /\ \A m \in Message :
                           (a \o b) \o Append(c, m) = ((a \o b) \o c) \o <<m>>
    OBVIOUS
<1>0. a \o b \in Seq(Message)
    BY ConcatProperties
<1>1. ASSUME b # <<>>
      PROVE  (Append(a, Head(b)) \o Tail(b)) \o c = (a \o b) \o c
    <2>1. Head(b) \in Message
        BY <1>1, HeadTailType
    <2>2. a \o <<Head(b)>> = Append(a, Head(b))
        BY <2>1, AppendOne
    <2>3. (a \o <<Head(b)>>) \o Tail(b) = a \o b
        BY <1>1, HandOver
    <2> QED
        BY <2>2, <2>3
<1>2. ASSUME c # <<>>
      PROVE  (a \o Append(b, Head(c))) \o Tail(c) = (a \o b) \o c
    <2> DEFINE h == Append(b, Head(c))
               t == Tail(c)
    <2>1. h \in Seq(Message) /\ t \in Seq(Message)
        BY <1>2, HeadTailType, AppendOne
    <2>2. h \o t = b \o c
        BY <1>2, HandOver, HeadTailType, AppendOne
    <2> HIDE DEF h, t
    <2>3. (a \o h) \o t = a \o (h \o t)
        BY <2>1, Associative, Zenon
    <2>4. (a \o b) \o c = a \o (b \o c)
        BY Associative
    <2>5. (a \o h) \o t = (a \o b) \o c
        BY <2>2, <2>3, <2>4
    <2> QED
        BY <2>5 DEF h, t
<1>3. ASSUME a # <<>>
      PROVE  /\ (a \o b) \o c # <<>>
             /\ Head((a \o b) \o c) = Head(a)
             /\ Tail((a \o b) \o c) = (Tail(a) \o b) \o c
    <2>1. a \o b # <<>> /\ Head(a \o b) = Head(a)
              /\ Tail(a \o b) = Tail(a) \o b
        BY <1>3, TwoQueues
    <2>2. \A q \in Seq(Message) : q # <<>> =>
              /\ q \o c # <<>>
              /\ Head(q \o c) = Head(q)
              /\ Tail(q \o c) = Tail(q) \o c
        BY TwoQueues
    <2> QED
        BY <1>0, <2>1, <2>2
<1>4. ASSUME NEW m \in Message
      PROVE  (a \o b) \o Append(c, m) = ((a \o b) \o c) \o <<m>>
    BY <1>0, AppendOne, Associative
<1> QED
    BY <1>1, <1>2, <1>3, <1>4

\* A hand-over between the first two of three queues changes nothing.
LEMMA HandOverFirst ==
    \A a, b, c \in Seq(Message) :
        b # <<>> => (Append(a, Head(b)) \o Tail(b)) \o c = (a \o b) \o c
    BY ThreeQueues, Zenon

\* The same for the last two queues.
LEMMA HandOverLast ==
    \A a, b, c \in Seq(Message) :
        c # <<>> => (a \o Append(b, Head(c))) \o Tail(c) = (a \o b) \o c
    BY ThreeQueues, ZenonT(60)

\* Taking the head of the first queue takes the head of the whole.
LEMMA TakeFirstOfThree ==
    \A a, b, c \in Seq(Message) :
        a # <<>> => /\ (a \o b) \o c # <<>>
                    /\ Head((a \o b) \o c) = Head(a)
                    /\ Tail((a \o b) \o c) = (Tail(a) \o b) \o c
    BY ThreeQueues, ZenonT(60)

\* Appending to the last queue appends to the whole.
LEMMA AppendLast ==
    \A a, b, c \in Seq(Message) : \A m \in Message :
        (a \o b) \o Append(c, m) = ((a \o b) \o c) \o <<m>>
    BY ThreeQueues, ZenonT(60)

-----------------------------------------------------------------------------
(* What UDP does to the datagrams in the middle of a path, it does to the  *)
(* path as a whole.                                                        *)

\* Cutting two queues read in one go where they meet gives them back.
LEMMA CutAt ==
    ASSUME NEW p \in Seq(Message), NEW r \in Seq(Message)
    PROVE  /\ SubSeq(p \o r, 1, Len(p)) = p
           /\ SubSeq(p \o r, Len(p) + 1, Len(p) + Len(r)) = r
<1> DEFINE m == Len(p)
           n == Len(r)
           q == p \o r
           x == SubSeq(q, 1, m)
           y == SubSeq(q, m + 1, m + n)
<1>0. m \in Nat /\ n \in Nat /\ m = Len(p) /\ n = Len(r)
    BY LenProperties
<1>1. /\ q \in Seq(Message) /\ Len(q) = m + n
      /\ \A i \in 1 .. m + n : q[i] = IF i <= m THEN p[i] ELSE r[i - m]
    BY ConcatIndex, Zenon
<1>2. \A i \in 1 .. m + n : q[i] \in Message
    BY <1>1
<1> HIDE DEF q, m, n
<1>3. x \in Seq(Message) /\ Len(x) = m /\ \A i \in 1 .. m : x[i] = q[i]
    BY <1>0, <1>2, SubSeqProperties
<1>4. y \in Seq(Message) /\ Len(y) = n /\ \A i \in 1 .. n : y[i] = q[m + i]
    BY <1>0, <1>2, SubSeqProperties
<1> HIDE DEF x, y
<1>5. x = p
    BY <1>0, <1>1, <1>3, SeqEqual
<1>6. ASSUME NEW i \in 1 .. n PROVE y[i] = r[i]
    <2>1. m + i \in 1 .. m + n /\ ~(m + i <= m) /\ (m + i) - m = i
        BY <1>0
    <2> QED
        BY <1>1, <1>4, <2>1
<1>7. y = r
    BY <1>0, <1>4, <1>6, SeqEqual
<1> QED
    BY <1>5, <1>7 DEF x, y, q, m, n

\* A queue is what is before one of its elements, the element and the rest.
LEMMA SplitAt ==
    ASSUME NEW q \in Seq(Message), NEW i \in 1 .. Len(q)
    PROVE  \E p, r \in Seq(Message) :
               /\ q = (p \o <<q[i]>>) \o r
               /\ RemoveAt(q, i) = p \o r
               /\ Len(q) = Len(p) + 1 + Len(r)
<1> DEFINE n == Len(q)
           m == q[i]
           p == SubSeq(q, 1, i - 1)
           r == SubSeq(q, i + 1, n)
<1>0. n \in Nat /\ n = Len(q) /\ i \in 1 .. n /\ \A j \in 1 .. n : q[j] \in Message
    BY LenProperties
<1>1. m \in Message /\ <<m>> \in Seq(Message) /\ Len(<<m>>) = 1
    BY <1>0
<1>2. p \in Seq(Message) /\ Len(p) = i - 1 /\ \A j \in 1 .. i - 1 : p[j] = q[j]
    BY <1>0, SubSeqProperties
<1>3. /\ r \in Seq(Message) /\ Len(r) = n - i
      /\ \A j \in 1 .. n - i : r[j] = q[j + i]
    BY <1>0, SubSeqProperties
<1>4. RemoveAt(q, i) = p \o r
    BY DEF RemoveAt
<1> DEFINE h == <<m>>
           k == p \o h
<1>5. h \in Seq(Message) /\ Len(h) = 1 /\ h[1] = q[i]
    BY <1>1
<1>m. p \in Seq(Message) /\ h \in Seq(Message) /\ r \in Seq(Message)
    BY <1>2, <1>3, <1>5
<1> HIDE DEF p, r, n, h
<1>6. /\ k \in Seq(Message) /\ Len(k) = Len(p) + Len(h)
      /\ \A j \in 1 .. Len(p) + Len(h) :
             k[j] = IF j <= Len(p) THEN p[j] ELSE h[j - Len(p)]
    BY <1>m, ConcatIndex, Zenon
<1>n. k \in Seq(Message)
    BY <1>6
<1> HIDE DEF k
<1>7. Len(k) = i /\ \A j \in 1 .. i : k[j] = q[j]
    <2>1. Len(k) = i
        BY <1>0, <1>2, <1>5, <1>6
    <2>2. ASSUME NEW j \in 1 .. i PROVE k[j] = q[j]
        <3>1. CASE j <= i - 1
            BY <1>0, <1>2, <1>5, <1>6, <3>1
        <3>2. CASE j = i
            BY <1>0, <1>2, <1>5, <1>6, <3>2
        <3> QED
            BY <1>0, <3>1, <3>2
    <2> QED
        BY <2>1, <2>2
<1>8. /\ k \o r \in Seq(Message) /\ Len(k \o r) = Len(k) + Len(r)
      /\ \A j \in 1 .. Len(k) + Len(r) :
             (k \o r)[j] = IF j <= Len(k) THEN k[j] ELSE r[j - Len(k)]
    BY <1>m, <1>n, ConcatIndex, Zenon
<1>9. Len(k \o r) = n
    BY <1>0, <1>3, <1>7, <1>8
<1>10. ASSUME NEW j \in 1 .. n PROVE (k \o r)[j] = q[j]
    <2>1. CASE j <= i
        BY <1>0, <1>3, <1>7, <1>8, <2>1
    <2>2. CASE i < j
        <3>1. j - i \in 1 .. n - i /\ (j - i) + i = j
            BY <1>0, <2>2
        <3> QED
            BY <1>0, <1>3, <1>7, <1>8, <2>2, <3>1
    <2>3. j <= i \/ i < j
        <3>1. n \in Nat /\ i \in Nat /\ j \in Nat
            BY <1>0
        <3> QED
            BY <3>1
    <2> QED
        BY <2>1, <2>2, <2>3
<1>11. k \o r = q
    BY <1>0, <1>8, <1>9, <1>10, SeqEqual
<1>12. q = (p \o <<q[i]>>) \o r
    BY <1>11 DEF k, h
<1>13. Len(q) = Len(p) + 1 + Len(r)
    BY <1>0, <1>2, <1>3
<1> QED
    BY <1>2, <1>3, <1>4, <1>12, <1>13

\* Removing what lies between two queues, and putting something there.
LEMMA BetweenTwo ==
    ASSUME NEW p \in Seq(Message), NEW r \in Seq(Message), NEW m \in Message
    PROVE  LET q == (p \o <<m>>) \o r
           IN  /\ q \in Seq(Message)
               /\ Len(q) = Len(p) + 1 + Len(r)
               /\ q[Len(p) + 1] = m
               /\ RemoveAt(q, Len(p) + 1) = p \o r
               /\ InsertAt(p \o r, Len(p) + 1, m) = q
<1> DEFINE h == <<m>>
           k == p \o h
           q == k \o r
           z == h \o r
<1>0. Len(p) \in Nat /\ Len(r) \in Nat
    BY LenProperties
<1>1. h \in Seq(Message) /\ Len(h) = 1 /\ h[1] = m
    OBVIOUS
<1>h. h = <<m>>
    OBVIOUS
<1> HIDE DEF h
<1>2. /\ k \in Seq(Message) /\ Len(k) = Len(p) + 1
      /\ k[Len(p) + 1] = m
    <2>1. /\ k \in Seq(Message) /\ Len(k) = Len(p) + Len(h)
          /\ \A j \in 1 .. Len(p) + Len(h) :
                 k[j] = IF j <= Len(p) THEN p[j] ELSE h[j - Len(p)]
        BY <1>1, ConcatIndex, Zenon
    <2> HIDE DEF k
    <2> QED
        BY <1>0, <1>1, <2>1
<1>k. k = p \o h
    OBVIOUS
<1> HIDE DEF k
<1>3. /\ q \in Seq(Message) /\ Len(q) = Len(k) + Len(r)
      /\ \A j \in 1 .. Len(k) + Len(r) :
             q[j] = IF j <= Len(k) THEN k[j] ELSE r[j - Len(k)]
    BY <1>2, ConcatIndex, Zenon
<1>4. z \in Seq(Message) /\ Len(z) = 1 + Len(r)
    <2>1. z \in Seq(Message) /\ Len(z) = Len(h) + Len(r)
        BY <1>1, ConcatIndex, Zenon
    <2> QED
        BY <1>0, <1>1, <2>1
<1>5. q = p \o z
    BY <1>1, <1>k, ConcatAssociative
<1>6. SubSeq(q, 1, Len(p)) = p
    BY <1>4, <1>5, CutAt
<1>7. SubSeq(q, Len(k) + 1, Len(k) + Len(r)) = r
    BY <1>2, CutAt
<1>8. SubSeq(p \o r, 1, Len(p)) = p
          /\ SubSeq(p \o r, Len(p) + 1, Len(p) + Len(r)) = r
    BY CutAt
<1>9. p \o r \in Seq(Message) /\ Len(p \o r) = Len(p) + Len(r)
    BY ConcatProperties
<1>q. q = (p \o <<m>>) \o r
    BY <1>h, <1>k
<1> HIDE DEF q, z
<1>10. Len(q) = Len(p) + 1 + Len(r) /\ q[Len(p) + 1] = m
    BY <1>0, <1>2, <1>3
<1>11. RemoveAt(q, Len(p) + 1) = p \o r
    <2>1. Len(p) + 1 - 1 = Len(p)
        BY <1>0
    <2>2. (Len(p) + 1) + 1 = Len(k) + 1 /\ Len(q) = Len(k) + Len(r)
        BY <1>0, <1>2, <1>3
    <2>3. RemoveAt(q, Len(p) + 1)
             = SubSeq(q, 1, (Len(p) + 1) - 1) \o SubSeq(q, (Len(p) + 1) + 1, Len(q))
        BY Zenon DEF RemoveAt
    <2> QED
        <3>1. SubSeq(q, 1, (Len(p) + 1) - 1) = p
            BY <1>6, <2>1
        <3>2. SubSeq(q, (Len(p) + 1) + 1, Len(q)) = r
            BY <1>7, <2>2, Zenon
        <3> QED
            BY <2>3, <3>1, <3>2, Zenon
<1>12. InsertAt(p \o r, Len(p) + 1, m) = q
    <2>1. Len(p) + 1 - 1 = Len(p)
        BY <1>0
    <2>2. InsertAt(p \o r, Len(p) + 1, m)
             = (SubSeq(p \o r, 1, (Len(p) + 1) - 1) \o <<m>>)
                   \o SubSeq(p \o r, Len(p) + 1, Len(p \o r))
        BY Zenon DEF InsertAt
    <2> QED
        <3>1. SubSeq(p \o r, 1, (Len(p) + 1) - 1) = p
            BY <1>8, <2>1
        <3>2. SubSeq(p \o r, Len(p) + 1, Len(p \o r)) = r
            BY <1>8, <1>9
        <3> QED
            BY <1>q, <2>2, <3>1, <3>2, Zenon
<1> QED
    BY <1>3, <1>10, <1>11, <1>12, <1>q

\* A fault in the middle one of three queues is a fault in the whole.
LEMMA DisturbMiddle ==
    ASSUME NEW a \in Seq(Message), NEW b \in Seq(Message),
           NEW c \in Seq(Message), NEW i \in 1 .. Len(b)
    PROVE  LET q == (a \o b) \o c
           IN  \E k \in 1 .. Len(q) :
                 /\ (a \o RemoveAt(b, i)) \o c = RemoveAt(q, k)
                 /\ \E j \in 1 .. Len(q) + 1 :
                        (a \o Append(b, b[i])) \o c = InsertAt(q, j, q[k])
                 /\ \E j \in 1 .. Len(q) :
                        (a \o Append(RemoveAt(b, i), b[i])) \o c
                            = InsertAt(RemoveAt(q, k), j, q[k])
<1> DEFINE m == b[i]
           q == (a \o b) \o c
<1>1. PICK p, r \in Seq(Message) : /\ b = (p \o <<m>>) \o r
                                   /\ RemoveAt(b, i) = p \o r
                                   /\ Len(b) = Len(p) + 1 + Len(r)
    BY SplitAt
<1>2. m \in Message
    OBVIOUS
<1> HIDE DEF m
<1> DEFINE h == <<m>>
           x == a \o p
           y == r \o c
           z == a \o (p \o r)
<1>3. h \in Seq(Message) /\ p \o h \in Seq(Message) /\ p \o r \in Seq(Message)
    BY <1>1, <1>2, ConcatProperties
<1>4. /\ x \in Seq(Message) /\ Len(x) = Len(a) + Len(p)
      /\ y \in Seq(Message) /\ Len(y) = Len(r) + Len(c)
    BY <1>1, ConcatProperties
<1>5. z \in Seq(Message) /\ Len(z) = Len(a) + (Len(p) + Len(r))
    BY <1>1, <1>3, ConcatProperties
<1>6. a \o b \in Seq(Message) /\ Len(a \o b) = Len(a) + Len(b)
    BY ConcatProperties
<1>7. q = (x \o h) \o y
    <2> HIDE DEF h
    <2>1. Regrouped(a, p, h, r, c)
        BY <1>3, Regroup
    <2> QED
        BY <1>1, <2>1, Zenon DEF Regrouped, h
<1>8. z \o c = x \o y
    <2> HIDE DEF h
    <2>1. Regrouped(a, p, h, r, c)
        BY <1>3, Regroup
    <2> QED
        BY <2>1, Zenon DEF Regrouped
<1>9. (a \o b) \o h = a \o Append(b, m) /\ z \o h = a \o Append(p \o r, m)
    <2>1. b \o h = Append(b, m) /\ (p \o r) \o h = Append(p \o r, m)
        BY <1>2, <1>3, AppendOne
    <2> HIDE DEF h
    <2>2. Assoc(a, b, h)
        BY <1>3, AssocHolds
    <2>3. Assoc(a, p \o r, h)
        BY <1>3, AssocHolds
    <2> QED
        BY <2>1, <2>2, <2>3, Zenon DEF Assoc
<1> HIDE DEF x, y, z
<1>10. /\ Len(q) = Len(x) + 1 + Len(y)
       /\ q[Len(x) + 1] = m
       /\ RemoveAt(q, Len(x) + 1) = x \o y
    <2> DEFINE w == (x \o <<m>>) \o y
    <2>1. /\ Len(w) = Len(x) + 1 + Len(y)
          /\ w[Len(x) + 1] = m
          /\ RemoveAt(w, Len(x) + 1) = x \o y
        BY <1>2, <1>4, BetweenTwo, ZenonT(60)
    <2>2. q = w
        BY <1>7
    <2> HIDE DEF q, w
    <2> QED
        BY <2>1, <2>2, Zenon
<1>11. InsertAt(q, Len(a \o b) + 1, m) = ((a \o b) \o h) \o c
    BY <1>2, <1>6, BetweenTwo
<1>12. InsertAt(z \o c, Len(z) + 1, m) = (z \o h) \o c
    BY <1>2, <1>5, BetweenTwo
<1> DEFINE k == Len(x) + 1
<1>13. Len(a) \in Nat /\ Len(c) \in Nat /\ Len(p) \in Nat /\ Len(r) \in Nat
    BY <1>1, LenProperties
<1>14. /\ k \in 1 .. Len(q)
       /\ Len(a \o b) + 1 \in 1 .. Len(q) + 1
       /\ Len(z) + 1 \in 1 .. Len(q)
    BY <1>1, <1>4, <1>5, <1>6, <1>10, <1>13
<1>15. (a \o RemoveAt(b, i)) \o c = RemoveAt(q, k)
    BY <1>1, <1>8, <1>10 DEF z
<1>16. (a \o Append(b, b[i])) \o c = InsertAt(q, Len(a \o b) + 1, q[k])
    BY <1>9, <1>10, <1>11 DEF m
<1>17. (a \o Append(RemoveAt(b, i), b[i])) \o c
           = InsertAt(RemoveAt(q, k), Len(z) + 1, q[k])
    BY <1>1, <1>8, <1>9, <1>10, <1>12 DEF m
<1> HIDE DEF q, k
<1>18. \E kk \in 1 .. Len(q) :
         /\ (a \o RemoveAt(b, i)) \o c = RemoveAt(q, kk)
         /\ \E j \in 1 .. Len(q) + 1 :
                (a \o Append(b, b[i])) \o c = InsertAt(q, j, q[kk])
         /\ \E j \in 1 .. Len(q) :
                (a \o Append(RemoveAt(b, i), b[i])) \o c
                    = InsertAt(RemoveAt(q, kk), j, q[kk])
    BY <1>14, <1>15, <1>16, <1>17, Zenon
<1> QED
    BY <1>18 DEF q

\* What a fault can do to the datagrams b under way to one site.
Faulty(b, r) == \E i \in 1 .. Len(b) :
    \/ "lose" \in Faults /\ r = RemoveAt(b, i)
    \/ "duplicate" \in Faults /\ r = Append(b, b[i])
    \/ "reorder" \in Faults /\ r = Append(RemoveAt(b, i), b[i])

\* A fault of the path, case by case.
LEMMA OneFault ==
    ASSUME NEW q, NEW s, NEW k \in 1 .. Len(q)
    PROVE  /\ "lose" \in Faults /\ s = Abstract!RemoveAt(q, k)
                  => s \in Abstract!Disturbed(q)
           /\ \A j \in 1 .. Len(q) + 1 :
                  "duplicate" \in Faults /\ s = Abstract!InsertAt(q, j, q[k])
                      => s \in Abstract!Disturbed(q)
           /\ \A j \in 1 .. Len(q) :
                  ("reorder" \in Faults
                   /\ s = Abstract!InsertAt(Abstract!RemoveAt(q, k), j, q[k]))
                      => s \in Abstract!Disturbed(q)
<1> DEFINE lost == {Abstract!RemoveAt(q, i) : i \in 1 .. Len(q)}
           twice == {Abstract!InsertAt(q, j, q[i]) :
                        i \in 1 .. Len(q), j \in 1 .. Len(q) + 1}
           moved == {Abstract!InsertAt(Abstract!RemoveAt(q, i), j, q[i]) :
                        i \in 1 .. Len(q), j \in 1 .. Len(q)}
<1>1. /\ "lose" \in Faults => lost \subseteq Abstract!Disturbed(q)
      /\ "duplicate" \in Faults => twice \subseteq Abstract!Disturbed(q)
      /\ "reorder" \in Faults => moved \subseteq Abstract!Disturbed(q)
    <2>1. Abstract!Disturbed(q) =
              UNION {IF "lose" \in Faults THEN lost ELSE {},
                     IF "duplicate" \in Faults THEN twice ELSE {},
                     IF "reorder" \in Faults THEN moved ELSE {}}
        BY DEF Abstract!Disturbed
    <2> HIDE DEF lost, twice, moved
    <2> QED
        BY <2>1
<1>2. Abstract!RemoveAt(q, k) \in lost
    OBVIOUS
<1>3. \A j \in 1 .. Len(q) + 1 : Abstract!InsertAt(q, j, q[k]) \in twice
    OBVIOUS
<1>4. \A j \in 1 .. Len(q) :
          Abstract!InsertAt(Abstract!RemoveAt(q, k), j, q[k]) \in moved
    OBVIOUS
<1> HIDE DEF lost, twice, moved
<1> QED
    BY <1>1, <1>2, <1>3, <1>4, Zenon

\* It is a fault of the path those datagrams are in the middle of.
LEMMA FaultyIsDisturbed ==
    ASSUME NEW a \in Seq(Message), NEW b \in Seq(Message),
           NEW c \in Seq(Message), NEW r, Faulty(b, r)
    PROVE  (a \o r) \o c \in Abstract!Disturbed((a \o b) \o c)
<1> DEFINE q == (a \o b) \o c
<1>1. PICK i \in 1 .. Len(b) :
          \/ "lose" \in Faults /\ r = RemoveAt(b, i)
          \/ "duplicate" \in Faults /\ r = Append(b, b[i])
          \/ "reorder" \in Faults /\ r = Append(RemoveAt(b, i), b[i])
    BY DEF Faulty
<1>2. PICK k \in 1 .. Len(q) :
          /\ (a \o RemoveAt(b, i)) \o c = RemoveAt(q, k)
          /\ \E j \in 1 .. Len(q) + 1 :
                 (a \o Append(b, b[i])) \o c = InsertAt(q, j, q[k])
          /\ \E j \in 1 .. Len(q) :
                 (a \o Append(RemoveAt(b, i), b[i])) \o c
                     = InsertAt(RemoveAt(q, k), j, q[k])
    BY DisturbMiddle
<1> HIDE DEF q
<1>3. /\ \A s, j : Abstract!RemoveAt(s, j) = RemoveAt(s, j)
      /\ \A s, j, e : Abstract!InsertAt(s, j, e) = InsertAt(s, j, e)
    BY DEF Abstract!RemoveAt, RemoveAt, Abstract!InsertAt, InsertAt
<1>4. CASE "lose" \in Faults /\ r = RemoveAt(b, i)
    <2>1. (a \o r) \o c = Abstract!RemoveAt(q, k)
        BY <1>2, <1>3, <1>4, Zenon
    <2> QED
        BY <1>4, <2>1, OneFault, Zenon DEF q
<1>5. CASE "duplicate" \in Faults /\ r = Append(b, b[i])
    <2>1. PICK t \in 1 .. Len(q) + 1 :
              (a \o r) \o c = Abstract!InsertAt(q, t, q[k])
        BY <1>2, <1>3, <1>5, Zenon
    <2> QED
        BY <1>5, <2>1, OneFault, Zenon DEF q
<1>6. CASE "reorder" \in Faults /\ r = Append(RemoveAt(b, i), b[i])
    <2>1. PICK t \in 1 .. Len(q) :
              (a \o r) \o c
                  = Abstract!InsertAt(Abstract!RemoveAt(q, k), t, q[k])
        BY <1>2, <1>3, <1>6, Zenon
    <2> QED
        BY <1>6, <2>1, OneFault, Zenon DEF q
<1> QED
    BY <1>1, <1>4, <1>5, <1>6

\* Empty queues are an empty relay.
LEMMA InitImplements == Init => Abstract!Init
<1> SUFFICES ASSUME Init PROVE Abstract!Init
    OBVIOUS
<1> USE DEF Site, Host, Member
<1>1. <<>> \o <<>> = <<>> /\ (<<>> \o <<>>) \o <<>> = <<>>
    OBVIOUS
<1> QED
    BY <1>1 DEF Init, Abstract!Init, PendingBar, InboxBar, Abstract!Site,
                Abstract!Host, Abstract!Member

\* Every operation of the pipeline is a step of the ordered relay or none at
\* all: queues before the broadcast are one pending queue, queues after it
\* one inbox, a hand-over inside either changes nothing, and what UDP does to
\* one datagram it does to one update of the relay.
LEMMA OperationsImplement ==
    ASSUME TypeOK, OneInHand
    PROVE  /\ \A s \in Site, u \in Update :
                  AddTextChanges(s, <<u>>) => Abstract!Submit(s, u)
           /\ \A s \in Site :
                  Take(s) => /\ Abstract!Take(s)
                             /\ Head(InboxBar[s]) = Head(textUpdates[s])
           /\ Threads => \/ Abstract!Publish \/ Abstract!Relay
                         \/ UNCHANGED Abstract!vars
           /\ Network => Abstract!DisturbPending \/ Abstract!DisturbInbox
           /\ UNCHANGED vars => UNCHANGED Abstract!vars
<1> Site = {Host, Member} /\ Host # Member
    BY DEF Site, Host, Member
<1>t. /\ textChanges[Host] \in Seq(Message)
      /\ textChanges[Member] \in Seq(Message)
      /\ textUpdates[Host] \in Seq(Message)
      /\ textUpdates[Member] \in Seq(Message)
      /\ net[Host] \in Seq(Message)
      /\ net[Member] \in Seq(Message)
      /\ updateDelivery \in Seq(Message)
      /\ distributing \in Seq(Message)
      /\ updateIDE \in Seq(Message)
    BY DEF TypeOK
<1>a. /\ Abstract!Host = Host
      /\ Abstract!Member = Member
      /\ Abstract!Site = Site
    BY DEF Abstract!Host, Abstract!Member, Abstract!Site, Host, Member, Site
<1>p. /\ PendingBar[Host] = textChanges[Host]
      /\ PendingBar[Member]
             = (updateDelivery \o net[Host]) \o textChanges[Member]
      /\ InboxBar[Host] = textUpdates[Host] \o distributing
      /\ InboxBar[Member] = (textUpdates[Member] \o updateIDE) \o net[Member]
    BY DEF PendingBar, InboxBar
<1>f. /\ PendingBar = [s \in Site |-> PendingBar[s]]
      /\ PendingBar' = [s \in Site |-> PendingBar'[s]]
      /\ InboxBar = [s \in Site |-> InboxBar[s]]
      /\ InboxBar' = [s \in Site |-> InboxBar'[s]]
    BY DEF PendingBar, InboxBar
<1>q. /\ PendingBar'[Host] = textChanges'[Host]
      /\ PendingBar'[Member]
             = (updateDelivery' \o net'[Host]) \o textChanges'[Member]
      /\ InboxBar'[Host] = textUpdates'[Host] \o distributing'
      /\ InboxBar'[Member]
             = (textUpdates'[Member] \o updateIDE') \o net'[Member]
    BY DEF PendingBar, InboxBar
<1>s. (\A s \in Site : PendingBar'[s] = PendingBar[s] /\ InboxBar'[s] = InboxBar[s])
          => UNCHANGED Abstract!vars
    BY <1>f DEF Abstract!vars
<1>1. ASSUME NEW s \in Site, NEW u \in Update, AddTextChanges(s, <<u>>)
      PROVE  Abstract!Submit(s, u)
    <2> DEFINE m == [from |-> s, body |-> u]
    <2>1. /\ m \in Message
          /\ textChanges' = [textChanges EXCEPT ![s] = Append(@, m)]
          /\ UNCHANGED <<textUpdates, net, updateDelivery, distributing,
                         updateIDE>>
        BY <1>1, SubmitAppends
    <2> HIDE DEF m
    <2>2. /\ textChanges'[s] = Append(textChanges[s], m)
          /\ \A t \in Site \ {s} : textChanges'[t] = textChanges[t]
        BY <2>1 DEF TypeOK
    <2>3. PendingBar'[s] = PendingBar[s] \o <<m>>
        <3>1. CASE s = Host
            <4>1. textChanges[Host] \o <<m>> = Append(textChanges[Host], m)
                BY <1>t, <2>1, TwoQueues
            <4> QED
                BY <1>p, <1>q, <2>2, <3>1, <4>1
        <3>2. CASE s = Member
            <4> DEFINE a == updateDelivery
                       b == net[Host]
                       c == textChanges[Member]
            <4>1. /\ a \in Seq(Message) /\ b \in Seq(Message)
                  /\ c \in Seq(Message) /\ m \in Message
                BY <1>t, <2>1
            <4> HIDE DEF a, b, c
            <4>2. (a \o b) \o Append(c, m) = ((a \o b) \o c) \o <<m>>
                BY <4>1, AppendLast, Zenon
            <4> QED
                BY <1>p, <1>q, <2>1, <2>2, <3>2, <4>2 DEF a, b, c
        <3> QED
            BY <3>1, <3>2
    <2>4. \A t \in Site \ {s} : PendingBar'[t] = PendingBar[t]
        BY <1>p, <1>q, <2>1, <2>2
    <2>5. PendingBar' = [PendingBar EXCEPT ![s] = @ \o <<m>>]
        BY <1>f, <2>3, <2>4
    <2>6. InboxBar' = InboxBar
        <3>1. \A t \in Site : InboxBar'[t] = InboxBar[t]
            BY <1>p, <1>q, <2>1 DEF Site
        <3> QED
            BY <1>f, <3>1, SMTT(20)
    <2> QED
        BY <2>5, <2>6 DEF Abstract!Submit, m
<1>2. ASSUME NEW s \in Site, Take(s)
      PROVE  Abstract!Take(s) /\ Head(InboxBar[s]) = Head(textUpdates[s])
    <2>1. /\ textUpdates[s] # <<>>
          /\ textUpdates'[s] = Tail(textUpdates[s])
          /\ \A t \in Site \ {s} : textUpdates'[t] = textUpdates[t]
          /\ UNCHANGED <<textChanges, net, updateDelivery, distributing,
                         updateIDE>>
        BY <1>2 DEF TypeOK, Take
    <2>2. /\ InboxBar[s] # <<>> /\ InboxBar'[s] = Tail(InboxBar[s])
          /\ Head(InboxBar[s]) = Head(textUpdates[s])
        <3>1. CASE s = Host
            <4> DEFINE a == textUpdates[Host]
            <4>1. /\ a \o distributing # <<>>
                  /\ Head(a \o distributing) = Head(a)
                  /\ Tail(a \o distributing) = Tail(a) \o distributing
                <5>1. a \in Seq(Message) /\ distributing \in Seq(Message) /\ a # <<>>
                    BY <1>t, <2>1, <3>1
                <5> HIDE DEF a
                <5> QED
                    BY <5>1, TwoQueues, Zenon
            <4> QED
                BY <1>p, <1>q, <2>1, <3>1, <4>1
        <3>2. CASE s = Member
            <4> DEFINE a == textUpdates[Member]
                       b == updateIDE
                       c == net[Member]
            <4>1. /\ a \in Seq(Message) /\ b \in Seq(Message)
                  /\ c \in Seq(Message) /\ a # <<>>
                BY <1>t, <2>1, <3>2
            <4> HIDE DEF a, b, c
            <4>2. /\ (a \o b) \o c # <<>>
                  /\ Head((a \o b) \o c) = Head(a)
                  /\ Tail((a \o b) \o c) = (Tail(a) \o b) \o c
                BY <4>1, TakeFirstOfThree, ZenonT(60)
            <4> QED
                BY <1>p, <1>q, <2>1, <3>2, <4>2 DEF a, b, c
        <3> QED
            BY <3>1, <3>2
    <2>3. \A t \in Site \ {s} : InboxBar'[t] = InboxBar[t]
        BY <1>p, <1>q, <2>1
    <2>4. InboxBar' = [InboxBar EXCEPT ![s] = Tail(@)]
        BY <1>f, <2>2, <2>3
    <2>5. \A t \in Site : PendingBar'[t] = PendingBar[t]
        BY <1>p, <1>q, <2>1
    <2>6. PendingBar' = PendingBar
        BY <1>f, <2>5
    <2> QED
        BY <2>2, <2>4, <2>6 DEF Abstract!Take
<1>3. ASSUME HostScanner PROVE Abstract!Publish
    <2> DEFINE m == Head(textChanges[Host])
    <2>1. m \in Message
        BY <1>3, <1>t, HeadTailType DEF HostScanner
    <2> HIDE DEF m
    <2>2. /\ textChanges[Host] # <<>>
          /\ net'[Member] = Append(net[Member], m)
          /\ net'[Host] = net[Host]
          /\ textChanges'[Host] = Tail(textChanges[Host])
          /\ textChanges'[Member] = textChanges[Member]
          /\ UNCHANGED <<textUpdates, updateDelivery, distributing, updateIDE>>
        BY <1>3 DEF TypeOK, HostScanner, Broadcast, m
    <2>3. InboxBar'[Member] = InboxBar[Member] \o <<m>>
        <3> DEFINE a == textUpdates[Member]
                   b == updateIDE
                   c == net[Member]
        <3>1. /\ a \in Seq(Message) /\ b \in Seq(Message)
              /\ c \in Seq(Message) /\ m \in Message
            BY <1>t, <2>1
        <3> HIDE DEF a, b, c
        <3>2. (a \o b) \o Append(c, m) = ((a \o b) \o c) \o <<m>>
            BY <3>1, AppendLast, Zenon
        <3> QED
            BY <1>p, <1>q, <2>2, <3>2 DEF a, b, c
    <2>4. InboxBar' = [InboxBar EXCEPT ![Member] = @ \o <<m>>]
        BY <1>f, <1>p, <1>q, <2>2, <2>3
    <2>5. PendingBar' = [PendingBar EXCEPT ![Host] = Tail(@)]
        BY <1>f, <1>p, <1>q, <2>2
    <2> QED
        BY <1>a, <1>p, <2>2, <2>4, <2>5 DEF Abstract!Publish, m
<1>4. ASSUME HostListener PROVE UNCHANGED Abstract!vars
    <2>1. /\ net[Host] # <<>>
          /\ updateDelivery' = Append(updateDelivery, Head(net[Host]))
          /\ net'[Host] = Tail(net[Host])
          /\ net'[Member] = net[Member]
          /\ UNCHANGED <<textChanges, textUpdates, distributing, updateIDE>>
        BY <1>4 DEF TypeOK, HostListener
    <2>2. PendingBar'[Member] = PendingBar[Member]
        <3> DEFINE a == updateDelivery
                   b == net[Host]
                   c == textChanges[Member]
        <3>1. /\ a \in Seq(Message) /\ b \in Seq(Message)
              /\ c \in Seq(Message) /\ b # <<>>
            BY <1>t, <2>1
        <3> HIDE DEF a, b, c
        <3>2. (Append(a, Head(b)) \o Tail(b)) \o c = (a \o b) \o c
            BY <3>1, HandOverFirst
        <3> QED
            BY <1>p, <1>q, <2>1, <3>2 DEF a, b, c
    <2> QED
        BY <1>p, <1>q, <1>s, <2>1, <2>2
<1>5. ASSUME DistributorBroadcast PROVE Abstract!Relay
    <2> DEFINE m == Head(updateDelivery)
    <2>1. m \in Message
        BY <1>5, <1>t, HeadTailType DEF DistributorBroadcast
    <2>2. /\ distributing = <<>>
          /\ updateDelivery # <<>>
          /\ distributing' = <<m>>
          /\ net'[Member] = Append(net[Member], m)
          /\ net'[Host] = net[Host]
          /\ updateDelivery' = Tail(updateDelivery)
          /\ UNCHANGED <<textChanges, textUpdates, updateIDE>>
        BY <1>5 DEF TypeOK, DistributorBroadcast, Broadcast
    <2>3. PendingBar[Member] # <<>> /\ Head(PendingBar[Member]) = m
              /\ PendingBar'[Member] = Tail(PendingBar[Member])
        <3> DEFINE a == updateDelivery
                   b == net[Host]
                   c == textChanges[Member]
        <3>1. /\ a \in Seq(Message) /\ b \in Seq(Message)
              /\ c \in Seq(Message) /\ a # <<>>
            BY <1>t, <2>2
        <3> HIDE DEF a, b, c
        <3>2. /\ (a \o b) \o c # <<>>
              /\ Head((a \o b) \o c) = Head(a)
              /\ Tail((a \o b) \o c) = (Tail(a) \o b) \o c
            BY <3>1, TakeFirstOfThree, ZenonT(60)
        <3> QED
            BY <1>p, <1>q, <2>2, <3>2 DEF a, b, c
    <2> HIDE DEF m
    <2>4. InboxBar'[Member] = InboxBar[Member] \o <<m>>
        <3> DEFINE a == textUpdates[Member]
                   b == updateIDE
                   c == net[Member]
        <3>1. /\ a \in Seq(Message) /\ b \in Seq(Message)
              /\ c \in Seq(Message) /\ m \in Message
            BY <1>t, <2>1
        <3> HIDE DEF a, b, c
        <3>2. (a \o b) \o Append(c, m) = ((a \o b) \o c) \o <<m>>
            BY <3>1, AppendLast, Zenon
        <3> QED
            BY <1>p, <1>q, <2>2, <3>2 DEF a, b, c
    <2>5. InboxBar'[Host] = InboxBar[Host] \o <<m>>
        BY <1>p, <1>q, <1>t, <2>2, ConcatEmptySeq
    <2>6. InboxBar' = [s \in Site |-> InboxBar[s] \o <<m>>]
        BY <1>f, <2>4, <2>5
    <2>7. PendingBar' = [PendingBar EXCEPT ![Member] = Tail(@)]
        BY <1>f, <1>p, <1>q, <2>2, <2>3
    <2> QED
        BY <1>a, <2>3, <2>6, <2>7 DEF Abstract!Relay
<1>6. ASSUME DistributorToIDE PROVE UNCHANGED Abstract!vars
    <2>1. /\ distributing # <<>> /\ Len(distributing) = 1
          /\ textUpdates'[Host] = Append(textUpdates[Host], Head(distributing))
          /\ textUpdates'[Member] = textUpdates[Member]
          /\ distributing' = <<>>
          /\ UNCHANGED <<textChanges, net, updateDelivery, updateIDE>>
        BY <1>6 DEF TypeOK, DistributorToIDE, OneInHand
    <2>2. Tail(distributing) = <<>>
        <3>1. Tail(distributing) \in Seq(Message) /\ Len(Tail(distributing)) = 0
            BY <1>t, <2>1, HeadTailProperties
        <3> QED
            BY <3>1, EmptySeq
    <2>3. Append(textUpdates[Host], Head(distributing)) \o Tail(distributing)
             = textUpdates[Host] \o distributing
        <3> DEFINE a == textUpdates[Host]
                   b == distributing
        <3>1. a \in Seq(Message) /\ b \in Seq(Message) /\ b # <<>>
            BY <1>t, <2>1
        <3> HIDE DEF a, b
        <3>2. Head(b) \in Message
            BY <3>1, HeadTailType
        <3>3. Append(a, Head(b)) = a \o <<Head(b)>>
            BY <3>1, <3>2, TwoQueues
        <3>4. (a \o <<Head(b)>>) \o Tail(b) = a \o b
            BY <3>1, TwoQueues
        <3> QED
            BY <3>3, <3>4 DEF a, b
    <2>4. InboxBar'[Host] = InboxBar[Host]
        BY <1>p, <1>q, <2>1, <2>2, <2>3
    <2> QED
        BY <1>p, <1>q, <1>s, <2>1, <2>4
<1>7. ASSUME MemberScanner PROVE UNCHANGED Abstract!vars
    <2>1. /\ textChanges[Member] # <<>>
          /\ net'[Host] = Append(net[Host], Head(textChanges[Member]))
          /\ net'[Member] = net[Member]
          /\ textChanges'[Member] = Tail(textChanges[Member])
          /\ textChanges'[Host] = textChanges[Host]
          /\ UNCHANGED <<textUpdates, updateDelivery, distributing, updateIDE>>
        BY <1>7 DEF TypeOK, MemberScanner
    <2>2. PendingBar'[Member] = PendingBar[Member]
        <3> DEFINE a == updateDelivery
                   b == net[Host]
                   c == textChanges[Member]
        <3>1. /\ a \in Seq(Message) /\ b \in Seq(Message)
              /\ c \in Seq(Message) /\ c # <<>>
            BY <1>t, <2>1
        <3> HIDE DEF a, b, c
        <3>2. (a \o Append(b, Head(c))) \o Tail(c) = (a \o b) \o c
            BY <3>1, HandOverLast
        <3> QED
            BY <1>p, <1>q, <2>1, <3>2 DEF a, b, c
    <2> QED
        BY <1>p, <1>q, <1>s, <2>1, <2>2
<1>8. ASSUME MemberListener PROVE UNCHANGED Abstract!vars
    <2>1. /\ net[Member] # <<>>
          /\ updateIDE' = Append(updateIDE, Head(net[Member]))
          /\ net'[Member] = Tail(net[Member])
          /\ net'[Host] = net[Host]
          /\ UNCHANGED <<textChanges, textUpdates, updateDelivery, distributing>>
        BY <1>8 DEF TypeOK, MemberListener
    <2>2. InboxBar'[Member] = InboxBar[Member]
        <3> DEFINE a == textUpdates[Member]
                   b == updateIDE
                   c == net[Member]
        <3>1. /\ a \in Seq(Message) /\ b \in Seq(Message)
              /\ c \in Seq(Message) /\ c # <<>>
            BY <1>t, <2>1
        <3> HIDE DEF a, b, c
        <3>2. (a \o Append(b, Head(c))) \o Tail(c) = (a \o b) \o c
            BY <3>1, HandOverLast
        <3> QED
            BY <1>p, <1>q, <2>1, <3>2 DEF a, b, c
    <2> QED
        BY <1>p, <1>q, <1>s, <2>1, <2>2
<1>9. ASSUME MemberForward PROVE UNCHANGED Abstract!vars
    <2>1. /\ updateIDE # <<>>
          /\ textUpdates'[Member] = Append(textUpdates[Member], Head(updateIDE))
          /\ textUpdates'[Host] = textUpdates[Host]
          /\ updateIDE' = Tail(updateIDE)
          /\ UNCHANGED <<textChanges, net, updateDelivery, distributing>>
        BY <1>9 DEF TypeOK, MemberForward
    <2>2. InboxBar'[Member] = InboxBar[Member]
        <3> DEFINE a == textUpdates[Member]
                   b == updateIDE
                   c == net[Member]
        <3>1. /\ a \in Seq(Message) /\ b \in Seq(Message)
              /\ c \in Seq(Message) /\ b # <<>>
            BY <1>t, <2>1
        <3> HIDE DEF a, b, c
        <3>2. (Append(a, Head(b)) \o Tail(b)) \o c = (a \o b) \o c
            BY <3>1, HandOverFirst
        <3> QED
            BY <1>p, <1>q, <2>1, <3>2 DEF a, b, c
    <2> QED
        BY <1>p, <1>q, <1>s, <2>1, <2>2
<1>10. ASSUME NEW s \in Site, NEW r, NetBecomes(s, r), Faulty(net[s], r)
       PROVE  Abstract!DisturbPending \/ Abstract!DisturbInbox
    <2>1. /\ net'[s] = r
          /\ \A t \in Site \ {s} : net'[t] = net[t]
          /\ UNCHANGED <<textChanges, textUpdates, updateDelivery, distributing,
                         updateIDE>>
        BY <1>10 DEF TypeOK, NetBecomes
    <2>2. CASE s = Host
        <3>1. PendingBar'[Member] \in Abstract!Disturbed(PendingBar[Member])
            BY <1>10, <1>p, <1>q, <1>t, <2>1, <2>2, FaultyIsDisturbed
        <3>2. PendingBar' = [PendingBar EXCEPT ![Member] = PendingBar'[Member]]
            <4>1. PendingBar'[Host] = PendingBar[Host]
                BY <1>p, <1>q, <2>1
            <4> QED
                BY <1>f, <4>1, SMTT(20) DEF Site
        <3>3. InboxBar' = InboxBar
            <4>1. net'[Member] = net[Member]
                BY <2>1, <2>2
            <4>2. \A t \in Site : InboxBar'[t] = InboxBar[t]
                BY <1>p, <1>q, <2>1, <4>1
            <4> QED
                BY <1>f, <4>2
        <3> QED
            BY <1>a, <3>1, <3>2, <3>3 DEF Abstract!DisturbPending
    <2>3. CASE s = Member
        <3> DEFINE a == textUpdates[Member] \o updateIDE
                   e == a \o r
        <3>1. a \in Seq(Message) /\ <<>> \in Seq(Message)
            BY <1>t, ConcatProperties, EmptySeq
        <3>2. r \in Seq(Message)
            <4> DEFINE b == net[Member]
            <4>1. b \in Seq(Message)
                BY <1>t
            <4>2. Faulty(b, r)
                BY <1>10, <2>3
            <4> HIDE DEF b
            <4>3. PICK i \in 1 .. Len(b) : \/ r = RemoveAt(b, i)
                                          \/ r = Append(b, b[i])
                                          \/ r = Append(RemoveAt(b, i), b[i])
                BY <4>2 DEF Faulty
            <4>4. b[i] \in Message /\ RemoveAt(b, i) \in Seq(Message)
                BY <4>1, RemoveAtType
            <4> QED
                BY <4>1, <4>3, <4>4, AppendOne
        <3> HIDE DEF a
        <3>3. (a \o r) \o <<>> \in Abstract!Disturbed((a \o net[Member]) \o <<>>)
            BY <1>10, <1>t, <2>3, <3>1, FaultyIsDisturbed
        <3>4. /\ a \o r \in Seq(Message)
              /\ a \o net[Member] \in Seq(Message)
            BY <1>t, <3>1, <3>2, ConcatProperties
        <3>5. /\ (a \o r) \o <<>> = a \o r
              /\ (a \o net[Member]) \o <<>> = a \o net[Member]
            BY <3>4, ConcatEmptySeq
        <3>6. InboxBar'[Member] \in Abstract!Disturbed(InboxBar[Member])
            BY <1>p, <1>q, <2>1, <2>3, <3>3, <3>5 DEF a
        <3>7. InboxBar' = [InboxBar EXCEPT ![Member] = InboxBar'[Member]]
            BY <1>f, <1>p, <1>q, <2>1, <2>3
        <3>8. PendingBar' = PendingBar
            <4>1. net'[Host] = net[Host]
                BY <2>1, <2>3
            <4>2. \A t \in Site : PendingBar'[t] = PendingBar[t]
                BY <1>p, <1>q, <2>1, <4>1
            <4> QED
                BY <1>f, <4>2
        <3> QED
            BY <1>a, <3>6, <3>7, <3>8 DEF Abstract!DisturbInbox
    <2> QED
        BY <2>2, <2>3
<1>12. ASSUME Network
       PROVE  \E s \in Site : \E r : NetBecomes(s, r) /\ Faulty(net[s], r)
    BY <1>12, Zenon DEF Network, Lose, Duplicate, Reorder, Faulty
<1>11. ASSUME UNCHANGED vars PROVE UNCHANGED Abstract!vars
    BY <1>11, <1>p, <1>q, <1>s DEF vars
<1>13. Threads => \/ Abstract!Publish \/ Abstract!Relay
                  \/ UNCHANGED Abstract!vars
    BY <1>3, <1>4, <1>5, <1>6, <1>7, <1>8, <1>9 DEF Threads
<1> QED
    BY <1>1, <1>2, <1>10, <1>11, <1>12, <1>13

\* So is every step.
LEMMA StepImplements ==
    ASSUME TypeOK, OneInHand, [Next]_vars
    PROVE  [Abstract!Next]_Abstract!vars
<1>1. Abstract!Site = Site
    BY DEF Abstract!Host, Abstract!Member, Abstract!Site, Host, Member, Site
<1>2. \A s \in Site, u \in Update : Submit(s, u) => Abstract!Submit(s, u)
    BY OperationsImplement DEF Submit
<1>3. /\ \A s \in Site : Take(s) => Abstract!Take(s)
      /\ Threads => \/ Abstract!Publish \/ Abstract!Relay
                    \/ UNCHANGED Abstract!vars
      /\ Network => Abstract!DisturbPending \/ Abstract!DisturbInbox
      /\ UNCHANGED vars => UNCHANGED Abstract!vars
    BY OperationsImplement
<1> QED
    BY <1>1, <1>2, <1>3 DEF Next, Abstract!Next

\* Every update of an editor reaches the editors the ordered relay names,
\* once and in its order, except for what UDP does to single datagrams of the
\* member's or to the member: the threads and queues lose, repeat and reorder
\* nothing.
THEOREM OrderedDelivery == Spec => ImplementsAbstract
<1>1. Init => OneInHand
    BY DEF Init, OneInHand
<1>2. TypeOK /\ OneInHand /\ [Next]_vars => [Abstract!Next]_Abstract!vars
    BY StepImplements
<1> QED
    BY <1>1, <1>2, InitImplements, StepOneInHand, TypeCorrect, PTL
    DEF Spec, ImplementsAbstract, Abstract!Spec
=============================================================================
