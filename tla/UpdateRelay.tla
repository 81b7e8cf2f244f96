----------------------------- MODULE UpdateRelay -----------------------------
(***************************************************************************)
(* The path an update takes from one editor of a session to the other:     *)
(* the queues of SynchronizationManager, the scanner threads of host and   *)
(* member, the UDP datagrams between them, the listener threads, the       *)
(* host's distributor and the member's forwarding thread.                  *)
(*                                                                         *)
(*   host editor --> textChanges --HostScanner--------------.              *)
(*                                                          v              *)
(*   host editor <-- textUpdates <--DistributorToIDE--.   net[Member]      *)
(*                                                    |     ^   |          *)
(*                            updateDelivery --DistributorBroadcast        *)
(*                                   ^                          |          *)
(*                     HostListener  |            MemberListener v         *)
(*                                net[Host]                  updateIDE     *)
(*                                   ^                          |          *)
(*   member editor --> textChanges --MemberScanner  MemberForward v        *)
(*   member editor <-- textUpdates <----------------------------'          *)
(*                                                                         *)
(* A session has one host and one member: the server pairs two clients     *)
(* (Server.cpp, exchangeInfo) and ConnectP2P adds one endpoint to the      *)
(* host's epList.  A dequeue, an enqueue and a send are atomic here.       *)
(***************************************************************************)
EXTENDS Naturals, Sequences, SequencesExt

CONSTANTS Update,       \* the texts an update can carry
          MaxInFlight,  \* bound: editors wait while this many are under way
          Faults        \* what UDP may do to datagrams in this instance

ASSUME FaultsAssumption == Faults \subseteq {"lose", "duplicate", "reorder"}
ASSUME BoundAssumption  == MaxInFlight \in Nat

Host   == "host"
Member == "member"
Site   == {Host, Member}

\* "from" is not on the wire: it is kept to state the properties.
Message == [from : Site, body : Update]

VARIABLES
    textChanges,     \* TextChangesQueue of each SynchronizationManager
    textUpdates,     \* TextUpdateQueue of each SynchronizationManager
    net,             \* datagrams under way to each site, oldest first
    updateDelivery,  \* updateDeliveryQueue of the host
    distributing,    \* broadcast by the distributor, not yet in textUpdates
    updateIDE        \* UpdateIDEQueue of the member

vars == <<textChanges, textUpdates, net, updateDelivery, distributing,
          updateIDE>>

TypeOK ==
    /\ textChanges    \in [Site -> Seq(Message)]
    /\ textUpdates    \in [Site -> Seq(Message)]
    /\ net            \in [Site -> Seq(Message)]
    /\ updateDelivery \in Seq(Message)
    /\ distributing   \in Seq(Message)
    /\ updateIDE      \in Seq(Message)

Init ==
    /\ textChanges    = [s \in Site |-> <<>>]
    /\ textUpdates    = [s \in Site |-> <<>>]
    /\ net            = [s \in Site |-> <<>>]
    /\ updateDelivery = <<>>
    /\ distributing   = <<>>
    /\ updateIDE      = <<>>

InFlight ==
    Len(textChanges[Host]) + Len(textChanges[Member])
      + Len(textUpdates[Host]) + Len(textUpdates[Member])
      + Len(net[Host]) + Len(net[Member])
      + Len(updateDelivery) + Len(distributing) + Len(updateIDE)

\* Nothing is under way between the two editors.
Drained == InFlight = 0

-----------------------------------------------------------------------------
(* The two editors' ends of the path.  A definition named X_Y is X with a  *)
(* plausible mistake in it: no specification uses it, it is there to show  *)
(* that a property notices the mistake.                                    *)

\* One turn of the UI thread of s queues the updates us, in order.
AddTextChanges(s, us) ==
    /\ textChanges' = [textChanges EXCEPT ![s] =
           @ \o [i \in 1 .. Len(us) |-> [from |-> s, body |-> us[i]]]]
    /\ UNCHANGED <<textUpdates, net, updateDelivery, distributing, updateIDE>>

Submit(s, u) == /\ InFlight < MaxInFlight
                /\ AddTextChanges(s, <<u>>)

\* textUpdater of s dequeues the oldest update that waits for its editor.
Take(s) ==
    /\ textUpdates[s] # <<>>
    /\ textUpdates' = [textUpdates EXCEPT ![s] = Tail(@)]
    /\ UNCHANGED <<textChanges, net, updateDelivery, distributing, updateIDE>>

-----------------------------------------------------------------------------
(* The threads of the host.                                                *)

Broadcast_ExcludeSource(m) ==
    net' = [net EXCEPT ![Member] = IF m.from = Member THEN @ ELSE Append(@, m)]

\* BroadcastUpdate sends to every endpoint of epList: the test that would
\* leave out the source of the update is commented out, against the comments
\* around it.  The member depends on that: see TextChanged in Editor.
Broadcast(m) == net' = [net EXCEPT ![Member] = Append(@, m)]

HostScanner_ThroughDistributor ==
    /\ textChanges[Host] # <<>>
    /\ updateDelivery' = Append(updateDelivery, Head(textChanges[Host]))
    /\ textChanges' = [textChanges EXCEPT ![Host] = Tail(@)]
    /\ UNCHANGED <<textUpdates, net, distributing, updateIDE>>

\* IDEUpdateScanner: what the host's own editor made is only broadcast
\* (Item3 is false).
HostScanner ==
    /\ textChanges[Host] # <<>>
    /\ Broadcast(Head(textChanges[Host]))
    /\ textChanges' = [textChanges EXCEPT ![Host] = Tail(@)]
    /\ UNCHANGED <<textUpdates, updateDelivery, distributing, updateIDE>>

\* P2PListener with hostFlag set: queued for the distributor, Item3 is true.
HostListener ==
    /\ net[Host] # <<>>
    /\ updateDelivery' = Append(updateDelivery, Head(net[Host]))
    /\ net' = [net EXCEPT ![Host] = Tail(@)]
    /\ UNCHANGED <<textChanges, textUpdates, distributing, updateIDE>>

\* UpdateDistributor: dequeue and broadcast ...
DistributorBroadcast ==
    /\ distributing = <<>>
    /\ updateDelivery # <<>>
    /\ distributing' = <<Head(updateDelivery)>>
    /\ Broadcast(Head(updateDelivery))
    /\ updateDelivery' = Tail(updateDelivery)
    /\ UNCHANGED <<textChanges, textUpdates, updateIDE>>

\* ... then EnqueueForIDEUpdate.
DistributorToIDE ==
    /\ distributing # <<>>
    /\ textUpdates' = [textUpdates EXCEPT ![Host] =
                          Append(@, Head(distributing))]
    /\ distributing' = <<>>
    /\ UNCHANGED <<textChanges, net, updateDelivery, updateIDE>>

-----------------------------------------------------------------------------
(* The threads of the member.                                              *)

\* Without its test of Count the scanner would send what GetLastChange
\* returns for an empty queue: the empty string, which is no update.
MemberScanner_NoTest ==
    /\ LET waiting == textChanges[Member]
       IN  /\ net' = [net EXCEPT ![Host] = Append(@,
                   IF waiting = <<>> THEN [from |-> Member, body |-> ""]
                   ELSE Head(waiting))]
           /\ textChanges' = [textChanges EXCEPT ![Member] =
                   IF waiting = <<>> THEN @ ELSE Tail(@)]
    /\ UNCHANGED <<textUpdates, updateDelivery, distributing, updateIDE>>

\* IDEUpdateScanner: to the host, the only endpoint the member knows.
MemberScanner ==
    /\ textChanges[Member] # <<>>
    /\ net' = [net EXCEPT ![Host] = Append(@, Head(textChanges[Member]))]
    /\ textChanges' = [textChanges EXCEPT ![Member] = Tail(@)]
    /\ UNCHANGED <<textUpdates, updateDelivery, distributing, updateIDE>>

\* P2PListener with hostFlag cleared.
MemberListener ==
    /\ net[Member] # <<>>
    /\ updateIDE' = Append(updateIDE, Head(net[Member]))
    /\ net' = [net EXCEPT ![Member] = Tail(@)]
    /\ UNCHANGED <<textChanges, textUpdates, updateDelivery, distributing>>

MemberForward_OffByOne ==
    /\ Len(updateIDE) > 1
    /\ textUpdates' = [textUpdates EXCEPT ![Member] =
                          Append(@, Head(updateIDE))]
    /\ updateIDE' = Tail(updateIDE)
    /\ UNCHANGED <<textChanges, net, updateDelivery, distributing>>

\* EnqueueForIDEUpdate.
MemberForward ==
    /\ updateIDE # <<>>
    /\ textUpdates' = [textUpdates EXCEPT ![Member] =
                          Append(@, Head(updateIDE))]
    /\ updateIDE' = Tail(updateIDE)
    /\ UNCHANGED <<textChanges, net, updateDelivery, distributing>>

-----------------------------------------------------------------------------
(* UDP.  The code neither numbers, acknowledges nor repeats datagrams.     *)

NetBecomes(s, q) ==
    /\ net' = [net EXCEPT ![s] = q]
    /\ UNCHANGED <<textChanges, textUpdates, updateDelivery, distributing,
                   updateIDE>>

Lose(s) ==
    /\ "lose" \in Faults
    /\ \E i \in 1 .. Len(net[s]) : NetBecomes(s, RemoveAt(net[s], i))

Duplicate(s) ==
    /\ "duplicate" \in Faults
    /\ InFlight < MaxInFlight
    /\ \E i \in 1 .. Len(net[s]) : NetBecomes(s, Append(net[s], net[s][i]))

\* A datagram arrives after all the others that are under way.
Reorder(s) ==
    /\ "reorder" \in Faults
    /\ \E i \in 1 .. Len(net[s]) :
           NetBecomes(s, Append(RemoveAt(net[s], i), net[s][i]))

-----------------------------------------------------------------------------

\* The session's own threads, the editors left out.
Threads == \/ HostScanner
           \/ HostListener
           \/ DistributorBroadcast
           \/ DistributorToIDE
           \/ MemberScanner
           \/ MemberListener
           \/ MemberForward

Network == \E s \in Site : Lose(s) \/ Duplicate(s) \/ Reorder(s)

Next == \/ \E s \in Site, u \in Update : Submit(s, u)
        \/ \E s \in Site : Take(s)
        \/ Threads
        \/ Network

Spec == Init /\ [][Next]_vars

\* Every thread is a loop that never ends: it is scheduled again and again.
\* UDP does not lose every datagram: a listener that finds one again and
\* again receives one.
ThreadFairness == /\ WF_vars(HostScanner)
                  /\ SF_vars(HostListener)
                  /\ WF_vars(DistributorBroadcast)
                  /\ WF_vars(DistributorToIDE)
                  /\ WF_vars(MemberScanner)
                  /\ SF_vars(MemberListener)
                  /\ WF_vars(MemberForward)

FairSpec == Spec /\ ThreadFairness /\ \A s \in Site : WF_vars(Take(s))

-----------------------------------------------------------------------------
(* The promise this path keeps when UDP behaves.                           *)

\* An update is pending until the distributor (the member's) or the scanner
\* (the host's) has broadcast it: from there its order is fixed.
PendingBar == [s \in Site |->
                 IF s = Host
                 THEN textChanges[Host]
                 ELSE (updateDelivery \o net[Host]) \o textChanges[Member]]

InboxBar == [s \in Site |->
               IF s = Host
               THEN textUpdates[Host] \o distributing
               ELSE (textUpdates[Member] \o updateIDE) \o net[Member]]

Abstract == INSTANCE AbstractRelay WITH pending <- PendingBar,
                                        inbox   <- InboxBar

\* Host and member threads together deliver every update of an editor, once
\* and in order, to the editors AbstractRelay names, and all the threads
\* and queues in between add nothing to that.
ImplementsAbstract == Abstract!Spec

\* The same with liveness: every update is eventually ordered and taken.
ImplementsAbstractFair == Abstract!FairSpec

-----------------------------------------------------------------------------
(* Safety, whatever UDP does.                                              *)

FromOnly(q, s) == \A i \in 1 .. Len(q) : q[i].from = s

\* The host has already applied what its own editor made, and nothing would
\* undo a second application: whatever is lost, repeated or overtaken, only
\* the member's updates are on any part of the path into the host's editor.
NoEchoToHost == /\ FromOnly(textUpdates[Host], Member)
                /\ FromOnly(distributing, Member)
                /\ FromOnly(updateDelivery, Member)
                /\ FromOnly(net[Host], Member)
=============================================================================
