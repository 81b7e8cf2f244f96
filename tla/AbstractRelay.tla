---------------------------- MODULE AbstractRelay ----------------------------
(***************************************************************************)
(* What the update pipeline of a session promises to the two editors, with *)
(* every thread, queue and datagram of it left out.                        *)
(*                                                                         *)
(* An update is either pending (its editor has produced it and the host    *)
(* has not yet ordered it) or it waits in the inbox of an editor.  The     *)
(* host orders updates: its own go to the member only, those of the member *)
(* go to BOTH editors, the member's own included, in one atomic step.      *)
(* Nothing is invented, and what is lost, repeated or overtaken is lost,   *)
(* repeated or overtaken by UDP: one update on its way to be ordered, or   *)
(* on its way to the member, at a time.  Without faults nothing is.        *)
(***************************************************************************)
EXTENDS Naturals, Sequences, SequencesExt

CONSTANTS Update,     \* the texts an update can carry
          Faults      \* what UDP may do to datagrams

Host   == "host"
Member == "member"
Site   == {Host, Member}

\* An update in transit, with the editor it was made in.
Message == [from : Site, body : Update]

VARIABLES pending,   \* per site: produced, not yet ordered by the host
          inbox      \* per site: ordered, not yet taken by the editor

vars == <<pending, inbox>>

Init == /\ pending = [s \in Site |-> <<>>]
        /\ inbox   = [s \in Site |-> <<>>]

-----------------------------------------------------------------------------

\* The editor of site s produces an update.
Submit(s, u) ==
    /\ pending' = [pending EXCEPT ![s] = @ \o <<[from |-> s, body |-> u]>>]
    /\ UNCHANGED inbox

\* The oldest update of the host's editor becomes visible to the member.
Publish ==
    /\ pending[Host] # <<>>
    /\ inbox'   = [inbox EXCEPT ![Member] = @ \o <<Head(pending[Host])>>]
    /\ pending' = [pending EXCEPT ![Host] = Tail(@)]

\* The oldest update of the member becomes visible to both editors.
Relay ==
    /\ pending[Member] # <<>>
    /\ inbox'   = [s \in Site |-> inbox[s] \o <<Head(pending[Member])>>]
    /\ pending' = [pending EXCEPT ![Member] = Tail(@)]

\* The editor of site s takes the oldest update that waits for it.
Take(s) ==
    /\ inbox[s] # <<>>
    /\ inbox' = [inbox EXCEPT ![s] = Tail(@)]
    /\ UNCHANGED pending

\* What a fault can make of the updates q that are under way.
Disturbed(q) ==
    UNION {
      IF "lose" \in Faults
      THEN {RemoveAt(q, i) : i \in 1 .. Len(q)} ELSE {},
      IF "duplicate" \in Faults
      THEN {InsertAt(q, j, q[i]) : i \in 1 .. Len(q), j \in 1 .. Len(q) + 1}
      ELSE {},
      IF "reorder" \in Faults
      THEN {InsertAt(RemoveAt(q, i), j, q[i]) :
               i \in 1 .. Len(q), j \in 1 .. Len(q)}
      ELSE {}}

\* Between the member and the host.
DisturbPending ==
    /\ \E q \in Disturbed(pending[Member]) :
           pending' = [pending EXCEPT ![Member] = q]
    /\ UNCHANGED inbox

\* Between the host and the member.
DisturbInbox ==
    /\ \E q \in Disturbed(inbox[Member]) :
           inbox' = [inbox EXCEPT ![Member] = q]
    /\ UNCHANGED pending

Next == \/ \E s \in Site, u \in Update : Submit(s, u)
        \/ Publish
        \/ Relay
        \/ \E s \in Site : Take(s)
        \/ DisturbPending
        \/ DisturbInbox

Spec == Init /\ [][Next]_vars

\* Editors need never produce anything and UDP need never fail; everything
\* else must happen.
Fairness == /\ WF_vars(Publish)
            /\ WF_vars(Relay)
            /\ \A s \in Site : WF_vars(Take(s))

FairSpec == Spec /\ Fairness
=============================================================================
