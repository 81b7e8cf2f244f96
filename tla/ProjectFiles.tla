---------------------------- MODULE ProjectFiles ----------------------------
(***************************************************************************)
(* The project folders of two programs before, at and after the start of   *)
(* a session: each user works on files, the host's folder is read and sent *)
(* in one datagram, the member's folder is emptied and filled with it, and *)
(* from then on edits travel without the name of the file they belong to.  *)
(*                                                                         *)
(* The relay is one queue per direction here (UpdateRelay has its parts),  *)
(* and an update finds its place in the text (SharedEditing has offsets).  *)
(***************************************************************************)
EXTENDS Workspace, FiniteSets, SequencesExt

CONSTANTS Site,         \* the programs that run: the host, the member or both
          Project,      \* the main file of the project each of them opens
          MaxOps,       \* bound: what the users do
          Ops,          \* what they do before a session
          SessionOps,   \* and in one
          Typists,      \* whose users type before a session
          SessionTypists,  \* and in one
          TypeAnywhere, \* they also type under "No files!"
          ExactNames,   \* they type the names of files as the tree has them
          PromptClose,  \* users leave new files alone until they are closed
          MaxDatagram   \* strokes that fit in a datagram

Host   == "host"
Member == "member"
Operation == {"save", "switch", "new", "remove", "close"}

ASSUME FilesAssumption ==
    /\ Site \subseteq {Host, Member}
    /\ Project \in [{Host, Member} -> Name]
    /\ IsFiniteSet(Name)
    /\ MaxOps \in Nat /\ MaxDatagram \in Nat
    /\ Ops \subseteq Operation /\ SessionOps \subseteq Operation \ {"close"}
    /\ Typists \subseteq Site /\ SessionTypists \subseteq Site
    /\ TypeAnywhere \in BOOLEAN /\ ExactNames \in BOOLEAN
    /\ PromptClose \in BOOLEAN

VARIABLES win,        \* the window of each program
          mail,       \* updates on their way to each program
          parcel,     \* the files the host has sent, in their order
          receiving,  \* what the member's UI thread has still to do with them
          strokes,    \* strokes typed so far
          ops,        \* other things done so far
          owed,       \* ghost: strokes a user expects to find in their file
          shared      \* ghost: strokes typed in the session

vars == <<win, mail, parcel, receiving, strokes, ops, owed, shared>>

Receiving == [old : SUBSET Name, create : Seq(Entry), fill : Seq(Entry),
              loaded : BOOLEAN]

TypeOK == /\ win \in [Site -> Window]
          /\ mail \in [{Host, Member} -> Seq(Update)]
          /\ parcel \in Seq(Entry)
          /\ receiving \in Receiving
          /\ strokes \in 0 .. MaxStrokes
          /\ ops \in 0 .. MaxOps
          /\ owed \in [Site -> SUBSET Stroke]
          /\ shared \in SUBSET Stroke

NothingToReceive == [old |-> {}, create |-> <<>>, fill |-> <<>>,
                     loaded |-> FALSE]

\* Both programs were started on an empty folder and stand at the page that
\* asks for the project.
Init == /\ win = [s \in Site |-> NewWindow({}, [f \in Name |-> {}])]
        /\ mail = [s \in {Host, Member} |-> <<>>]
        /\ parcel = <<>>
        /\ receiving = NothingToReceive
        /\ strokes = 0
        /\ ops = 0
        /\ owed = [s \in Site |-> {}]
        /\ shared = {}

Opened(s) == win[s].path # NoName

\* Whether its user lets the program of s at its files: one who is told to
\* waits until the garbage collector has closed the last that was created.
\* The code itself never waits for that: see Receives.
Ready(s) == PromptClose => win[s].open = {}

HostHasSent == Host \in Site /\ (win[Host].started \/ win[Host].crashed)

\* The UI thread of s waits for its user: it neither receives files nor, as
\* a member whom the host has been brought together with, waits for them.
Idle(s) == /\ ~win[s].crashed
           /\ ~win[s].updating
           /\ s = Member /\ HostHasSent => win[s].started

-----------------------------------------------------------------------------
(* What a turn of a UI thread tells the other site goes out at once.       *)

Peer(s) == IF s = Host THEN Member ELSE Host

Turn(s, w) ==
    /\ win' = [win EXCEPT ![s] = [w EXCEPT !.out = <<>>]]
    /\ mail' = [mail EXCEPT ![Peer(s)] = @ \o w.out]

-----------------------------------------------------------------------------
(* The users.                                                              *)

OpenProject(s) ==
    /\ ~Opened(s)
    /\ Idle(s)
    /\ Turn(s, OpenedProject(win[s], Project[s]))
    /\ UNCHANGED <<parcel, receiving, strokes, ops, owed, shared>>

Type(s) ==
    /\ Opened(s)
    /\ Idle(s)
    /\ s \in IF win[s].started THEN SessionTypists ELSE Typists
    /\ win[s].label # NoName \/ TypeAnywhere
    /\ strokes < MaxStrokes
    /\ strokes' = strokes + 1
    /\ LET x == [file |-> win[s].path, n |-> strokes + 1]
       IN  /\ Turn(s, Change(win[s], s = Member, {}, {x}))
           /\ owed' = [owed EXCEPT ![s] = @ \cup {x}]
           /\ shared' = IF win[s].started THEN shared \cup {x} ELSE shared
    /\ UNCHANGED <<parcel, receiving, ops>>

\* Anything else a user does: op, which makes w of the window.
Do(s, op, w) ==
    /\ Opened(s)
    /\ Idle(s)
    /\ Ready(s)
    /\ op \in IF win[s].started THEN SessionOps ELSE Ops
    /\ ops < MaxOps
    /\ ops' = ops + 1
    /\ Turn(s, w)
    /\ UNCHANGED <<parcel, receiving, strokes, shared>>

SaveFiles(s) == /\ Do(s, "save", SaveContentToFile(win[s]))
                /\ UNCHANGED owed

SelectFile(s, f) == /\ f \in win[s].tree
                    /\ Do(s, "switch", switchFile(win[s], s = Member, f))
                    /\ UNCHANGED owed

NewFile(s, f) == /\ Do(s, "new", setNewFileName(win[s], s = Member, f))
                 /\ UNCHANGED owed

\* The user gives up what is in the file, and may type its name in any case.
RemoveFile(s, f) ==
    \E exact \in {TRUE, ExactNames} :
      \E next \in Listed(win[s], f, exact) :
        /\ Do(s, "remove", removeFile(win[s], s = Member, f, exact, next))
        /\ owed' = [owed EXCEPT ![s] = {x \in @ : x.file # f}]

\* The program ends without a question, and is started again.
CloseProgram(s) ==
    /\ Do(s, "close", NewWindow(win[s].files, win[s].saved))
    /\ owed' = [owed EXCEPT ![s] = {x \in @ : x \in win[s].saved[x.file]}]

User(s) == \/ OpenProject(s)
           \/ Type(s)
           \/ SaveFiles(s)
           \/ CloseProgram(s)
           \/ \E f \in Name : SelectFile(s, f) \/ NewFile(s, f) \/ RemoveFile(s, f)

\* The garbage collector ends the stream of a created file.
Collect(s) ==
    \E f \in win[s].open :
        /\ win' = [win EXCEPT ![s].open = @ \ {f}]
        /\ UNCHANGED <<mail, parcel, receiving, strokes, ops, owed, shared>>

-----------------------------------------------------------------------------
(* setOtherUser at the host: buildFiles reads every file, and SendFiles    *)
(* puts them all in one datagram.  Neither failure is caught.              *)

Size(p) == FoldLeft(LAMBDA n, e : n + Cardinality(e.text), 0, p)

HostStarts ==
    /\ Host \in Site
    /\ \A s \in Site : Opened(s)
    /\ Idle(Host)
    /\ Ready(Host)
    /\ ~win[Host].started
    /\ LET w == win[Host]
       IN  \E order \in SetToSeqs(w.files) :
             LET p == [i \in DOMAIN order |-> Packed(w, order[i])]
             IN  IF w.files \cap w.open # {} \/ Size(p) > MaxDatagram
                 THEN /\ win' = [win EXCEPT ![Host] = Crash(w)]
                      /\ UNCHANGED parcel
                 ELSE /\ win' = [win EXCEPT ![Host].started = TRUE]
                      /\ parcel' = p
    /\ UNCHANGED <<mail, receiving, strokes, ops, owed, shared>>

-----------------------------------------------------------------------------
(* setOtherUser at the member, once getFiles has the host's files.         *)

MemberStarts ==
    /\ Member \in Site
    /\ Host \in Site /\ win[Host].started
    /\ ~win[Member].started
    /\ ~win[Member].updating
    /\ win' = [win EXCEPT ![Member].updating = TRUE]
    /\ receiving' = [old |-> win[Member].files, create |-> parcel,
                     fill |-> parcel, loaded |-> FALSE]
    /\ UNCHANGED <<mail, parcel, strokes, ops, owed, shared>>

\* One turn of the UI thread does all of the following.  The collector runs
\* when it likes, so a file may still be open when its text is written (as a
\* rule it is) or when the next is removed or created.
Receives == /\ Member \in Site
            /\ win[Member].updating
            /\ ~win[Member].crashed
            /\ UNCHANGED <<parcel, strokes, ops, shared>>

ClearOne_ButTheShown ==
    /\ Receives
    /\ \E f \in receiving.old : \E next \in Listed(win[Member], f, TRUE) :
         /\ Turn(Member, IF f = win[Member].path THEN win[Member]
                         ELSE removeFile(win[Member], TRUE, f, TRUE, next))
         /\ receiving' = [receiving EXCEPT !.old = @ \ {f}]
         /\ owed' = [owed EXCEPT ![Member] = {}]

\* recieveFiles removes what the member had ...
ClearOne ==
    /\ Receives
    /\ \E f \in receiving.old : \E next \in Listed(win[Member], f, TRUE) :
         /\ Turn(Member, removeFile(win[Member], TRUE, f, TRUE, next))
         /\ receiving' = [receiving EXCEPT !.old = @ \ {f}]
         /\ owed' = [owed EXCEPT ![Member] = {}]

CreateOne_WholeEntry ==
    /\ Receives
    /\ receiving.old = {}
    /\ receiving.create # <<>>
    /\ Turn(Member, AddFile(win[Member], Head(receiving.create)))
    /\ receiving' = [receiving EXCEPT !.create = Tail(@)]
    /\ UNCHANGED owed

\* ... and creates what the host has ...
CreateOne ==
    /\ Receives
    /\ receiving.old = {}
    /\ receiving.create # <<>>
    /\ Turn(Member, Received(win[Member], Head(receiving.create).file))
    /\ receiving' = [receiving EXCEPT !.create = Tail(@)]
    /\ UNCHANGED owed

\* ... and setConent writes the texts; what cannot be written is left empty.
FillOne ==
    /\ Receives
    /\ receiving.old = {} /\ receiving.create = <<>>
    /\ receiving.fill # <<>>
    /\ LET e == Head(receiving.fill)
       IN  /\ Turn(Member, Filled(win[Member], TRUE, e, ~receiving.loaded))
           /\ receiving' = [receiving EXCEPT
                 !.fill = Tail(@),
                 !.loaded = @ \/ e.file \notin win[Member].open]
    /\ UNCHANGED owed

AllReceived_IfLoaded ==
    /\ Receives
    /\ receiving.old = {} /\ receiving.create = <<>> /\ receiving.fill = <<>>
    /\ receiving.loaded
    /\ win' = [win EXCEPT ![Member].updating = FALSE,
                          ![Member].started = TRUE]
    /\ UNCHANGED <<mail, receiving, owed>>

AllReceived ==
    /\ Receives
    /\ receiving.old = {} /\ receiving.create = <<>> /\ receiving.fill = <<>>
    /\ win' = [win EXCEPT ![Member].updating = FALSE,
                          ![Member].started = TRUE]
    /\ UNCHANGED <<mail, receiving, owed>>

-----------------------------------------------------------------------------
(* An update arrives: the host sends a member's update on, itself included *)
(* in what it tells, and both apply it to whatever file is in the box.     *)

Deliver_ExcludeSource(s) ==
    /\ Idle(s)
    /\ win[s].started
    /\ mail[s] # <<>>
    /\ LET w == ApplyUpdate(win[s], s = Member, Head(mail[s]))
       IN  /\ win' = [win EXCEPT ![s] = [w EXCEPT !.out = <<>>]]
           /\ mail' = [mail EXCEPT ![s] = Tail(@), ![Peer(s)] = @ \o w.out]
    /\ UNCHANGED <<parcel, receiving, strokes, ops, owed, shared>>

Deliver(s) ==
    /\ Idle(s)
    /\ win[s].started
    /\ mail[s] # <<>>
    /\ LET u == Head(mail[s])
           w == ApplyUpdate(win[s], s = Member, u)
           onwards == IF s = Host THEN <<u>> ELSE <<>>
       IN  /\ win' = [win EXCEPT ![s] = [w EXCEPT !.out = <<>>]]
           /\ mail' = [mail EXCEPT ![s] = Tail(@),
                                   ![Peer(s)] = (@ \o onwards) \o w.out]
    /\ UNCHANGED <<parcel, receiving, strokes, ops, owed, shared>>

-----------------------------------------------------------------------------

Session == \/ HostStarts
           \/ MemberStarts
           \/ ClearOne
           \/ CreateOne
           \/ FillOne
           \/ AllReceived
           \/ \E s \in Site : Deliver(s)

Next == \/ \E s \in Site : User(s) \/ Collect(s)
        \/ Session

Spec == Init /\ [][Next]_vars

\* Users owe nothing, and neither does the garbage collector.  A UI thread
\* that is in setOtherUser goes on with it.
Fairness == /\ WF_vars(MemberStarts)
            /\ WF_vars(ClearOne)
            /\ WF_vars(CreateOne)
            /\ WF_vars(FillOne)
            /\ WF_vars(AllReceived)

FairSpec == Spec /\ Fairness

-----------------------------------------------------------------------------
(* What users rely on.                                                     *)

\* A file only ever holds what was typed into it, whatever other files were
\* opened, removed, created or sent in between, and at both sites.
OwnContent ==
    \A s \in Site : \A f \in Name : \A x \in win[s].saved[f] :
        x.file \in {f, NoName}

\* What a user has typed and not removed is in its file, or in the box that
\* is saved under that file's name.
NothingLost ==
    \A s \in Site : \A x \in owed[s] :
        \/ x \in win[s].saved[x.file]
        \/ x \in win[s].box /\ win[s].path = x.file

\* No operation takes anything out of a file that stays.
SavedStays ==
    [][\A s \in Site : \A f \in win[s].files \cap win'[s].files :
          win[s].saved[f] \subseteq win'[s].saved[f]]_vars

\* The name above the text is that of the file the text is saved to.
LabelTells == \A s \in Site : win[s].label \in {win[s].path, NoName}

\* The files of the parcel whose texts are in the folder of w.
Written(w) == {i \in DOMAIN parcel : w.saved[parcel[i].file] = parcel[i].text}

\* When the member's window comes back, whatever files were still open: all
\* that was sent is in its folder, nothing in the folder holds any text but
\* what was sent, under the name it was sent with, and the first of the files
\* that could be written is the one in the box and under the path.
ReceivedAsSent ==
    [][AllReceived =>
         LET w == win[Member]
         IN  /\ \A i \in DOMAIN parcel : parcel[i].file \in w.files
             /\ \A f \in w.files : w.saved[f] # {} =>
                    \E i \in Written(w) : f = parcel[i].file
             /\ \A i \in Written(w) :
                    (\A j \in Written(w) : i <= j) =>
                        w.path = parcel[i].file /\ w.box = parcel[i].text]_vars

\* A member whom a host has sent its files to works through them with its
\* window blocked: it comes out of that again, or ends because a file it has
\* just created cannot be created again.
MemberJoins == (Host \in Site /\ win[Host].started)
                   ~> (win[Member].started \/ win[Member].crashed)

\* The letters a host whose counter is in order types in a session get into the
\* window of the member, also into one whose counter is not: there the first
\* update is taken for the member's own edit, undone, sent back, and comes
\* again.  Which file the member saves it to is another matter.
EditsReachBoth ==
    (/\ \A s \in {Host, Member} : s \in Site /\ win[s].started /\ Idle(s)
     /\ \A s \in Site : mail[s] = <<>>
     /\ win[Host].tokens = 0)
    => \A x \in shared : /\ x \in win[Host].box /\ win[Host].path = x.file
                         /\ x \in win[Member].box
=============================================================================
