------------------------- MODULE ProjectFilesProofs -------------------------
(***************************************************************************)
(* Theorems about ProjectFiles.                                            *)
(***************************************************************************)
EXTENDS ProjectFiles, FiniteSetTheorems, TLAPS

-----------------------------------------------------------------------------
(* The functions of Workspace keep windows windows.                        *)

LEMMA ChangeType ==
    ASSUME NEW w \in Window, NEW m \in BOOLEAN,
           NEW del \in Content, NEW add \in Content
    PROVE  Change(w, m, del, add) \in Window
<1> DEFINE told == Append(w.out, [del |-> del, add |-> add])
           new  == (w.box \ del) \cup add
<1>1. told \in Seq(Update)
  BY DEF Window, Update
<1>2. new \in Content
  BY DEF Window, Content
<1>3. (IF add = {} THEN w.out ELSE told) \in Seq(Update)
  BY <1>1 DEF Window
<1> HIDE DEF told, new
<1>4. (IF m THEN w.box ELSE new) \in Content
  BY <1>2 DEF Window
<1>5. [w EXCEPT !.out = IF add = {} THEN @ ELSE told,
                !.box = IF m THEN @ ELSE new] \in Window
  BY <1>3, <1>4 DEF Window
<1>6. [w EXCEPT !.box = new, !.tokens = @ - 1] \in Window
  <2>1. w.tokens - 1 \in Int
    BY DEF Window
  <2> QED
    BY <1>2, <2>1 DEF Window
<1> QED
  BY <1>5, <1>6 DEF Change, told, new

LEMMA SetTextType ==
    ASSUME NEW w \in Window, NEW m \in BOOLEAN, NEW c \in Content
    PROVE  SetText(w, m, c) \in Window
BY ChangeType DEF SetText, Window

LEMMA ApplyUpdateType ==
    ASSUME NEW w \in Window, NEW m \in BOOLEAN, NEW u \in Update
    PROVE  ApplyUpdate(w, m, u) \in Window
<1>0. u.del \in Content /\ u.add \in Content /\ {} \in Content
  BY DEF Update, Content
<1>1. CASE u.del = {}
  <2>1. [w EXCEPT !.tokens = @ + 1] \in Window
    BY DEF Window
  <2> QED
    BY <1>0, <1>1, <2>1, ChangeType DEF ApplyUpdate
<1>2. CASE u.del # {}
  <2> DEFINE v == [w EXCEPT !.tokens = @ + 2]
  <2>1. v \in Window
    BY DEF Window
  <2>2. w.box \ u.del \in Content
    BY DEF Window, Content
  <2>3. SetText(v, m, w.box \ u.del) \in Window
    BY <2>1, <2>2, SetTextType
  <2> QED
    BY <1>0, <1>2, <2>3, ChangeType DEF ApplyUpdate
<1> QED
  BY <1>1, <1>2

LEMMA SaveType ==
    ASSUME NEW w \in Window
    PROVE  SaveContentToFile(w) \in Window
BY DEF SaveContentToFile, Window

LEMMA LoadType ==
    ASSUME NEW w \in Window, NEW m \in BOOLEAN, NEW f \in Name
    PROVE  LoadFileIntoIDE(w, m, f) \in Window
<1>1. w.saved[f] \in Content
  BY DEF Window
<1>2. SetText(w, m, w.saved[f]) \in Window
  BY <1>1, SetTextType
<1> QED
  BY <1>2 DEF LoadFileIntoIDE, Window

LEMMA CreateType ==
    ASSUME NEW w \in Window, NEW f \in Name
    PROVE  Create(w, f) \in Window
BY DEF Create, Window, Content

LEMMA AddFileType ==
    ASSUME NEW w \in Window, NEW f \in Name
    PROVE  AddFile(w, f) \in Window
BY DEF AddFile, Window

LEMMA NewWindowType ==
    ASSUME NEW F \in SUBSET Name, NEW sv \in [Name -> Content]
    PROVE  NewWindow(F, sv) \in Window
BY DEF NewWindow, Window, Content

LEMMA OpenedProjectType ==
    ASSUME NEW w \in Window, NEW f \in Name
    PROVE  OpenedProject(w, f) \in Window
<1> DEFINE made == IF f \in w.files THEN w ELSE Create(w, f)
<1>1. made \in Window
  BY CreateType
<1>2. AddFile(made, f) \in Window
  BY <1>1, AddFileType
<1> QED
  BY <1>2 DEF OpenedProject, Window

LEMMA NewFileType ==
    ASSUME NEW w \in Window, NEW m \in BOOLEAN, NEW f \in Name
    PROVE  setNewFileName(w, m, f) \in Window
<1> DEFINE v  == AddFile(Create(w, f), f)
           at == [SaveContentToFile(v) EXCEPT !.path = f]
<1>1. v \in Window
  BY CreateType, AddFileType
<1>2. at \in Window
  BY <1>1, SaveType DEF Window
<1>3. SetText(at, m, {}) \in Window
  BY <1>2, SetTextType DEF Content
<1>4. loadNewFile(v, m, f) \in Window
  BY <1>3 DEF loadNewFile, Window
<1> QED
  BY <1>4 DEF setNewFileName

LEMMA SwitchType ==
    ASSUME NEW w \in Window, NEW m \in BOOLEAN, NEW f \in Name
    PROVE  switchFile(w, m, f) \in Window
<1> DEFINE v  == [w EXCEPT !.updating = TRUE]
           at == [SaveContentToFile(v) EXCEPT !.path = f]
<1>1. v \in Window
  BY DEF Window
<1>2. at \in Window
  BY <1>1, SaveType DEF Window
<1>3. LoadFileIntoIDE(at, m, f) \in Window
  BY <1>2, LoadType
<1> QED
  BY <1>3 DEF switchFile, Window

LEMMA DeletedType ==
    ASSUME NEW w \in Window, NEW f \in Name, NEW exact \in BOOLEAN
    PROVE  Deleted(w, f, exact) \in Window
BY DEF Deleted, Window, Content

LEMMA ListedType ==
    ASSUME NEW w \in Window, NEW f \in Name, NEW exact \in BOOLEAN
    PROVE  Listed(w, f, exact) \subseteq Name
BY DeletedType DEF Listed, Window

LEMMA RemoveType ==
    ASSUME NEW w \in Window, NEW m \in BOOLEAN, NEW f \in Name,
           NEW exact \in BOOLEAN, NEW next \in Name
    PROVE  removeFile(w, m, f, exact, next) \in Window
<1> DEFINE v  == Deleted(w, f, exact)
           at == [v EXCEPT !.path = next]
<1>1. v \in Window
  BY DeletedType
<1>2. at \in Window
  BY <1>1 DEF Window
<1>3. LoadFileIntoIDE(at, m, next) \in Window
  BY <1>2, LoadType
<1>4. SetText(v, m, {}) \in Window
  BY <1>1, SetTextType DEF Content
<1>5. Replaced(v, m, f, next) \in Window
  BY <1>1, <1>3, <1>4 DEF Replaced, Window
<1> QED
  BY <1>5 DEF removeFile

LEMMA ReceivedType ==
    ASSUME NEW w \in Window, NEW f \in Name
    PROVE  Received(w, f) \in Window
<1>1. Crash(w) \in Window
  BY DEF Crash, Window
<1> QED
  BY <1>1, CreateType, AddFileType DEF Received

LEMMA FilledType ==
    ASSUME NEW w \in Window, NEW e \in Entry, NEW first \in BOOLEAN
    PROVE  Filled(w, TRUE, e, first) \in Window
<1> DEFINE v == [w EXCEPT !.files = @ \cup {e.file}, !.saved[e.file] = e.text]
<1>0. e.file \in Name /\ e.text \in Content
  BY DEF Entry
<1>1. v \in Window
  BY <1>0 DEF Window
<1>2. LoadFileIntoIDE(v, TRUE, e.file) \in Window
  BY <1>0, <1>1, LoadType
<1> QED
  BY <1>1, <1>2 DEF Filled

LEMMA PackedType ==
    ASSUME NEW w \in Window, NEW f \in Name
    PROVE  Packed(w, f) \in Entry
BY DEF Packed, Entry, Window, Content
-----------------------------------------------------------------------------
(* Type correctness.                                                       *)

LEMMA ToldType ==
    ASSUME NEW w \in Window
    PROVE  [w EXCEPT !.out = <<>>] \in Window
<1>1. <<>> \in Seq(Update)
  OBVIOUS
<1> DEFINE nothing == <<>>
<1> HIDE DEF nothing
<1>2. nothing \in Seq(Update)
  BY <1>1 DEF nothing
<1>3. [w EXCEPT !.out = nothing] \in Window
  BY <1>2 DEF Window
<1> QED
  BY <1>3 DEF nothing

LEMMA TurnType ==
    ASSUME TypeOK, NEW s \in Site, NEW w \in Window, Turn(s, w)
    PROVE  /\ win' \in [Site -> Window]
           /\ mail' \in [{Host, Member} -> Seq(Update)]
<1>1. [w EXCEPT !.out = <<>>] \in Window
  BY ToldType
<1>2. Peer(s) \in {Host, Member}
  BY FilesAssumption DEF Peer
<1>3. mail[Peer(s)] \o w.out \in Seq(Update)
  BY <1>2 DEF TypeOK, Window
<1> QED
  BY <1>1, <1>2, <1>3 DEF Turn, TypeOK

LEMMA StepWindow ==
    ASSUME TypeOK, NEW s \in Site
    PROVE  win[s] \in Window /\ s \in {Host, Member}
BY FilesAssumption DEF TypeOK

LEMMA InitType == Init => TypeOK
<1> SUFFICES ASSUME Init PROVE TypeOK
  OBVIOUS
<1>1. NewWindow({}, [f \in Name |-> {}]) \in Window
  BY NewWindowType DEF Content
<1> QED
  BY <1>1, FilesAssumption, WorkspaceAssumption
     DEF Init, TypeOK, NothingToReceive, Receiving

LEMMA OpenProjectType ==
    ASSUME TypeOK, NEW s \in Site, OpenProject(s)
    PROVE  TypeOK'
<1>1. Project[s] \in Name
  BY StepWindow, FilesAssumption
<1>2. OpenedProject(win[s], Project[s]) \in Window
  BY <1>1, StepWindow, OpenedProjectType
<1> QED
  BY <1>2, TurnType DEF OpenProject, TypeOK

LEMMA TypeType ==
    ASSUME TypeOK, NEW s \in Site, Type(s)
    PROVE  TypeOK'
<1> DEFINE x == [file |-> win[s].path, n |-> strokes + 1]
           w == Change(win[s], s = Member, {}, {x})
<1>1. x \in Stroke
  BY StepWindow, WorkspaceAssumption
     DEF Type, Opened, Stroke, Window, TypeOK
<1>2. {x} \in Content /\ {} \in Content
  BY <1>1 DEF Content
<1>3. w \in Window
  BY <1>2, StepWindow, ChangeType
<1>4. Turn(s, w)
  BY DEF Type
<1>5. strokes' \in 0 .. MaxStrokes
  BY WorkspaceAssumption DEF Type, TypeOK
<1>6. owed' \in [Site -> SUBSET Stroke] /\ shared' \in SUBSET Stroke
  BY <1>1 DEF Type, TypeOK
<1> QED
  BY <1>3, <1>4, <1>5, <1>6, TurnType DEF Type, TypeOK

LEMMA DoType ==
    ASSUME TypeOK, NEW s \in Site, NEW op, NEW w \in Window, Do(s, op, w),
           owed' \in [Site -> SUBSET Stroke]
    PROVE  TypeOK'
<1>1. ops' \in 0 .. MaxOps
  BY FilesAssumption DEF Do, TypeOK
<1> QED
  BY <1>1, TurnType DEF Do, TypeOK

LEMMA UserType ==
    ASSUME TypeOK, NEW s \in Site, User(s)
    PROVE  TypeOK'
<1>0. win[s] \in Window
  BY StepWindow
<1>1. CASE OpenProject(s)
  BY <1>1, OpenProjectType
<1>2. CASE Type(s)
  BY <1>2, TypeType
<1>3. CASE SaveFiles(s)
  <2>1. SaveContentToFile(win[s]) \in Window
    BY <1>0, SaveType
  <2> QED
    BY <1>3, <2>1, DoType DEF SaveFiles, TypeOK
<1>4. CASE CloseProgram(s)
  <2>1. NewWindow(win[s].files, win[s].saved) \in Window
    BY <1>0, NewWindowType DEF Window
  <2>2. owed' \in [Site -> SUBSET Stroke]
    BY <1>4 DEF CloseProgram, TypeOK
  <2> QED
    BY <1>4, <2>1, <2>2, DoType DEF CloseProgram
<1>5. ASSUME NEW f \in Name, SelectFile(s, f)
      PROVE  TypeOK'
  <2>1. switchFile(win[s], s = Member, f) \in Window
    BY <1>0, SwitchType
  <2> QED
    BY <1>5, <2>1, DoType DEF SelectFile, TypeOK
<1>6. ASSUME NEW f \in Name, NewFile(s, f)
      PROVE  TypeOK'
  <2>1. setNewFileName(win[s], s = Member, f) \in Window
    BY <1>0, NewFileType
  <2> QED
    BY <1>6, <2>1, DoType DEF NewFile, TypeOK
<1>7. ASSUME NEW f \in Name, RemoveFile(s, f)
      PROVE  TypeOK'
  <2>1. PICK exact \in {TRUE, ExactNames} :
          \E next \in Listed(win[s], f, exact) :
            /\ Do(s, "remove", removeFile(win[s], s = Member, f, exact, next))
            /\ owed' = [owed EXCEPT ![s] = {x \in @ : x.file # f}]
    BY <1>7 DEF RemoveFile
  <2>2. exact \in BOOLEAN
    BY FilesAssumption
  <2>3. PICK next \in Listed(win[s], f, exact) :
          /\ Do(s, "remove", removeFile(win[s], s = Member, f, exact, next))
          /\ owed' = [owed EXCEPT ![s] = {x \in @ : x.file # f}]
    BY <2>1
  <2>4. next \in Name
    BY <1>0, <2>2, ListedType
  <2>5. removeFile(win[s], s = Member, f, exact, next) \in Window
    BY <1>0, <2>2, <2>4, RemoveType
  <2>6. owed' \in [Site -> SUBSET Stroke]
    BY <2>3 DEF TypeOK
  <2> QED
    BY <2>3, <2>5, <2>6, DoType
<1> QED
  BY <1>1, <1>2, <1>3, <1>4, <1>5, <1>6, <1>7 DEF User

LEMMA CollectType ==
    ASSUME TypeOK, NEW s \in Site, Collect(s)
    PROVE  TypeOK'
<1>1. PICK f \in win[s].open : win' = [win EXCEPT ![s].open = @ \ {f}]
  BY DEF Collect
<1>2. [win[s] EXCEPT !.open = @ \ {f}] \in Window
  BY StepWindow DEF Window
<1> QED
  BY <1>1, <1>2 DEF Collect, TypeOK

LEMMA HostStartsType ==
    ASSUME TypeOK, HostStarts
    PROVE  TypeOK'
<1> DEFINE w == win[Host]
<1>0. Host \in Site /\ w \in Window
  BY StepWindow DEF HostStarts
<1>1. PICK order \in SetToSeqs(w.files) :
        LET p == [i \in DOMAIN order |-> Packed(w, order[i])]
        IN  IF w.files \cap w.open # {} \/ Size(p) > MaxDatagram
            THEN /\ win' = [win EXCEPT ![Host] = Crash(w)]
                 /\ UNCHANGED parcel
            ELSE /\ win' = [win EXCEPT ![Host].started = TRUE]
                 /\ parcel' = p
  BY DEF HostStarts
<1>2. order \in Seq(Name)
  <2>1. IsFiniteSet(w.files) /\ w.files \subseteq Name
    BY <1>0, FilesAssumption, FS_Subset DEF Window
  <2>2. Cardinality(w.files) \in Nat
    BY <2>1, FS_CardinalityType
  <2>3. order \in [1 .. Cardinality(w.files) -> w.files]
    BY <1>1 DEF SetToSeqs
  <2> QED
    BY <2>1, <2>2, <2>3
<1>3. [i \in DOMAIN order |-> Packed(w, order[i])] \in Seq(Entry)
  <2>1. DOMAIN order = 1 .. Len(order) /\ Len(order) \in Nat
    BY <1>2
  <2>2. \A i \in DOMAIN order : Packed(w, order[i]) \in Entry
    BY <1>0, <1>2, PackedType
  <2> QED
    BY <2>1, <2>2
<1>4. Crash(w) \in Window /\ [w EXCEPT !.started = TRUE] \in Window
  BY <1>0 DEF Crash, Window
<1>5. win' \in [Site -> Window] /\ parcel' \in Seq(Entry)
  BY <1>0, <1>1, <1>3, <1>4 DEF TypeOK
<1> QED
  BY <1>5 DEF HostStarts, TypeOK

LEMMA MemberStartsType ==
    ASSUME TypeOK, MemberStarts
    PROVE  TypeOK'
<1>1. Member \in Site /\ win[Member] \in Window
  BY StepWindow DEF MemberStarts
<1>2. [win[Member] EXCEPT !.updating = TRUE] \in Window
  BY <1>1 DEF Window
<1>3. win[Member].files \subseteq Name
  BY <1>1 DEF Window
<1>4. receiving' \in Receiving
  BY <1>3 DEF MemberStarts, Receiving, TypeOK
<1> QED
  BY <1>1, <1>2, <1>4 DEF MemberStarts, TypeOK

LEMMA ClearOneType ==
    ASSUME TypeOK, ClearOne
    PROVE  TypeOK'
<1>1. Member \in Site /\ win[Member] \in Window
  BY StepWindow DEF ClearOne, Receives
<1>2. PICK f \in receiving.old : \E next \in Listed(win[Member], f, TRUE) :
        /\ Turn(Member, removeFile(win[Member], TRUE, f, TRUE, next))
        /\ receiving' = [receiving EXCEPT !.old = @ \ {f}]
        /\ owed' = [owed EXCEPT ![Member] = {}]
  BY DEF ClearOne
<1>3. f \in Name
  BY DEF TypeOK, Receiving
<1>4. PICK next \in Listed(win[Member], f, TRUE) :
        Turn(Member, removeFile(win[Member], TRUE, f, TRUE, next))
  BY <1>2
<1>5. next \in Name
  BY <1>1, <1>3, ListedType
<1>6. removeFile(win[Member], TRUE, f, TRUE, next) \in Window
  BY <1>1, <1>3, <1>5, RemoveType
<1>7. win' \in [Site -> Window] /\ mail' \in [{Host, Member} -> Seq(Update)]
  BY <1>1, <1>4, <1>6, TurnType
<1>8. receiving' \in Receiving /\ owed' \in [Site -> SUBSET Stroke]
  BY <1>2 DEF TypeOK, Receiving
<1> QED
  BY <1>7, <1>8 DEF ClearOne, Receives, TypeOK

LEMMA CreateOneType ==
    ASSUME TypeOK, CreateOne
    PROVE  TypeOK'
<1>1. Member \in Site /\ win[Member] \in Window
  BY StepWindow DEF CreateOne, Receives
<1>2. receiving.create \in Seq(Entry) /\ receiving.create # <<>>
  BY DEF CreateOne, TypeOK, Receiving
<1>3. Head(receiving.create) \in Entry /\ Tail(receiving.create) \in Seq(Entry)
  BY <1>2
<1>4. Received(win[Member], Head(receiving.create).file) \in Window
  BY <1>1, <1>3, ReceivedType DEF Entry
<1>5. win' \in [Site -> Window] /\ mail' \in [{Host, Member} -> Seq(Update)]
  BY <1>1, <1>4, TurnType DEF CreateOne
<1>6. receiving' \in Receiving
  BY <1>3 DEF CreateOne, TypeOK, Receiving
<1> QED
  BY <1>5, <1>6 DEF CreateOne, Receives, TypeOK

LEMMA FillOneType ==
    ASSUME TypeOK, FillOne
    PROVE  TypeOK'
<1> DEFINE e == Head(receiving.fill)
<1>1. Member \in Site /\ win[Member] \in Window
  BY StepWindow DEF FillOne, Receives
<1>2. receiving.fill \in Seq(Entry) /\ receiving.fill # <<>>
  BY DEF FillOne, TypeOK, Receiving
<1>3. e \in Entry /\ Tail(receiving.fill) \in Seq(Entry)
  BY <1>2
<1>4. (~receiving.loaded) \in BOOLEAN
  OBVIOUS
<1>5. Filled(win[Member], TRUE, e, ~receiving.loaded) \in Window
  BY <1>1, <1>3, <1>4, FilledType
<1>6. win' \in [Site -> Window] /\ mail' \in [{Host, Member} -> Seq(Update)]
  BY <1>1, <1>5, TurnType DEF FillOne
<1>7. (receiving.loaded \/ e.file \notin win[Member].open) \in BOOLEAN
  OBVIOUS
<1>8. receiving' \in Receiving
  BY <1>3, <1>7 DEF FillOne, TypeOK, Receiving
<1> QED
  BY <1>6, <1>8 DEF FillOne, Receives, TypeOK

LEMMA AllReceivedType ==
    ASSUME TypeOK, AllReceived
    PROVE  TypeOK'
<1>1. Member \in Site /\ win[Member] \in Window
  BY StepWindow DEF AllReceived, Receives
<1>2. [win[Member] EXCEPT !.updating = FALSE, !.started = TRUE] \in Window
  BY <1>1 DEF Window
<1>3. win' = [win EXCEPT ![Member] = [win[Member] EXCEPT
                 !.updating = FALSE, !.started = TRUE]]
  BY <1>1 DEF AllReceived, TypeOK
<1> QED
  BY <1>1, <1>2, <1>3 DEF AllReceived, Receives, TypeOK

LEMMA DeliverType ==
    ASSUME TypeOK, NEW s \in Site, Deliver(s)
    PROVE  TypeOK'
<1> DEFINE u == Head(mail[s])
           w == ApplyUpdate(win[s], s = Member, u)
           onwards == IF s = Host THEN <<u>> ELSE <<>>
<1>1. win[s] \in Window /\ s \in {Host, Member} /\ Peer(s) \in {Host, Member}
  BY StepWindow DEF Peer
<1>2. mail[s] \in Seq(Update) /\ mail[s] # <<>>
  BY <1>1 DEF Deliver, TypeOK
<1>3. u \in Update /\ Tail(mail[s]) \in Seq(Update)
  BY <1>2
<1>4. w \in Window
  BY <1>1, <1>3, ApplyUpdateType
<1>5. onwards \in Seq(Update) /\ w.out \in Seq(Update)
  BY <1>3, <1>4 DEF Window
<1>6. [w EXCEPT !.out = <<>>] \in Window
  BY <1>4, ToldType
<1> HIDE DEF u, w, onwards
<1>7. win' = [win EXCEPT ![s] = [w EXCEPT !.out = <<>>]]
  BY DEF Deliver, u, w
<1>8. mail' = [mail EXCEPT ![s] = Tail(@),
                           ![Peer(s)] = (@ \o onwards) \o w.out]
  BY DEF Deliver, u, w, onwards
<1>9. mail' \in [{Host, Member} -> Seq(Update)]
  <2>1. s # Peer(s)
    BY <1>1 DEF Peer, Host, Member
  <2>2. (mail[Peer(s)] \o onwards) \o w.out \in Seq(Update)
    BY <1>1, <1>5 DEF TypeOK
  <2> QED
    BY <1>1, <1>3, <1>8, <2>1, <2>2 DEF TypeOK
<1> QED
  BY <1>6, <1>7, <1>9 DEF Deliver, TypeOK

LEMMA FilesStep ==
    ASSUME TypeOK, [Next]_vars
    PROVE  TypeOK'
<1>1. CASE UNCHANGED vars
  BY <1>1 DEF vars, TypeOK
<1>2. CASE Next
  BY <1>2, UserType, CollectType, HostStartsType, MemberStartsType,
     ClearOneType, CreateOneType, FillOneType, AllReceivedType, DeliverType
     DEF Next, Session
<1> QED
  BY <1>1, <1>2

\* Windows, updates under way, what is sent and what is still to be
\* received keep their types, for any programs, files and handles: a file
\* is saved and received under names only, never under the empty path.
THEOREM FilesTypeCorrect == Spec => []TypeOK
<1>1. Init => TypeOK
  BY InitType
<1>2. TypeOK /\ [Next]_vars => TypeOK'
  BY FilesStep
<1> QED
  BY <1>1, <1>2, PTL DEF Spec

-----------------------------------------------------------------------------
(* One program, alone with its folder.                                     *)

\* Every name in the tree can be opened, and every text, in a file or in the
\* box, is of the file it is in or will be saved to.
Tidy(w) ==
    /\ w.tree \subseteq w.files
    /\ \A x \in w.box : x.file \in {w.path, NoName}
    /\ \A f \in Name : \A x \in w.saved[f] : x.file \in {f, NoName}

\* The box holds all of the file it will be saved to.
Current(w) ==
    /\ w.path = NoName => w.files = {}
    /\ \A f \in Name \ w.files : w.saved[f] = {}
    /\ w.path # NoName => w.saved[w.path] \subseteq w.box
    /\ w.path \notin w.files => w.box = {} /\ w.label = NoName

Holds(w, x) == \/ x \in w.saved[x.file]
               \/ x \in w.box /\ w.path = x.file

\* From w to v no text leaves a file, and no stroke but those of gone is lost.
Keeps(w, v, gone) ==
    /\ \A f \in w.files \cap v.files : w.saved[f] \subseteq v.saved[f]
    /\ \A x \in Stroke : x.file \notin gone /\ Holds(w, x) => Holds(v, x)

SameFiles(v, w) == /\ v.files = w.files
                   /\ v.saved = w.saved
                   /\ v.open = w.open
                   /\ v.path = w.path
                   /\ v.tree = w.tree
                   /\ v.label = w.label

\* From w to v only the text of the box changed.
Boxed(v, w, box) == SameFiles(v, w) /\ v.box = box

LEMMA ChangeAlone ==
    ASSUME NEW w \in Window, NEW del \in Content, NEW add \in Content
    PROVE  Boxed(Change(w, FALSE, del, add), w, (w.box \ del) \cup add)
<1> DEFINE told == IF add = {} THEN w.out
                   ELSE Append(w.out, [del |-> del, add |-> add])
           new  == (w.box \ del) \cup add
<1>1. Change(w, FALSE, del, add) \in
        {[w EXCEPT !.out = told, !.box = new],
         [w EXCEPT !.box = new, !.tokens = @ - 1]}
  BY DEF Change
<1> HIDE DEF told, new
<1> QED
  BY <1>1 DEF Boxed, SameFiles, Window, new

LEMMA SetTextAlone ==
    ASSUME NEW w \in Window, NEW c \in Content
    PROVE  LET v == SetText(w, FALSE, c)
           IN  SameFiles(v, w) /\ v.box = c
<1>1. w.box \in Content
  BY DEF Window
<1>2. CASE c = w.box
  BY <1>2 DEF SetText, SameFiles
<1>3. CASE c # w.box
  <2> DEFINE v == Change(w, FALSE, w.box, c)
  <2>0. Boxed(v, w, (w.box \ w.box) \cup c)
    BY <1>1, ChangeAlone
  <2>1. SameFiles(v, w) /\ v.box = c
    BY <2>0 DEF Boxed
  <2>2. SetText(w, FALSE, c) = v
    BY <1>3 DEF SetText
  <2> HIDE DEF v
  <2> QED
    BY <1>1, <2>1, <2>2
<1> QED
  BY <1>2, <1>3

LEMMA StrokeFile == \A x \in Stroke : x.file \in Name
BY DEF Stroke

\* Nothing is lost by a step that saves the box and takes no text from a file.
LEMMA SavingKeeps ==
    ASSUME NEW w, NEW v, w \in Window, w.path \in Name,
           w.box \subseteq v.saved[w.path],
           \A g \in Name : w.saved[g] \subseteq v.saved[g]
    PROVE  Keeps(w, v, {})
<1>1. w.files \subseteq Name
  BY DEF Window
<1>2. ASSUME NEW x \in Stroke, Holds(w, x) PROVE Holds(v, x)
  <2>1. x.file \in Name
    BY StrokeFile
  <2>2. CASE x \in w.saved[x.file]
    BY <2>1, <2>2 DEF Holds
  <2>3. CASE x \in w.box /\ w.path = x.file
    BY <2>3 DEF Holds
  <2> QED
    BY <1>2, <2>2, <2>3 DEF Holds
<1> QED
  BY <1>1, <1>2 DEF Keeps

LEMMA SaveAlone ==
    ASSUME NEW w \in Window, Tidy(w), w.path \notin w.open
    PROVE  LET v == SaveContentToFile(w)
           IN  /\ Tidy(v)
               /\ Current(w) => Current(v) /\ Keeps(w, v, {})
               /\ v.path = w.path /\ v.box = w.box /\ v.tree = w.tree
               /\ v.label = w.label /\ v.open = w.open
               /\ v.files = IF w.path = NoName THEN w.files
                            ELSE w.files \cup {w.path}
               /\ v.saved = IF w.path = NoName THEN w.saved
                            ELSE [w.saved EXCEPT ![w.path] = w.box]
<1> USE WorkspaceAssumption
<1>1. CASE w.path = NoName
  BY <1>1 DEF SaveContentToFile, Tidy, Current, Keeps, Holds, Window, Stroke
<1>2. CASE w.path # NoName
  <2> DEFINE v == [w EXCEPT !.files = @ \cup {w.path},
                            !.saved[w.path] = w.box]
  <2>1. SaveContentToFile(w) = v /\ w.path \in Name
    BY <1>2 DEF SaveContentToFile, Window
  <2>2. /\ v.open = w.open /\ v.path = w.path /\ v.box = w.box
        /\ v.tree = w.tree /\ v.label = w.label
        /\ v.files = w.files \cup {w.path}
        /\ v.saved = [w.saved EXCEPT ![w.path] = w.box]
    BY DEF Window
  <2>3. w.saved \in [Name -> Content]
    BY DEF Window
  <2> HIDE DEF v
  <2>4. Tidy(v)
    BY <2>1, <2>2, <2>3 DEF Tidy
  <2>5. ASSUME Current(w) PROVE Current(v)
    BY <2>1, <2>2, <2>3, <2>5 DEF Current
  <2>6. ASSUME Current(w) PROVE Keeps(w, v, {})
    BY <2>1, <2>2, <2>3, <2>6, StrokeFile DEF Current, Keeps, Holds
  <2> QED
    BY <1>2, <2>1, <2>2, <2>4, <2>5, <2>6
<1> QED
  BY <1>1, <1>2

LEMMA CreateAlone ==
    ASSUME NEW w \in Window, NEW f \in Name
    PROVE  LET v == Create(w, f)
           IN  /\ v.files = w.files \cup {f}
               /\ v.saved = [w.saved EXCEPT ![f] = {}]
               /\ v.open = w.open \cup {f} /\ v.box = w.box /\ v.path = w.path
               /\ v.tree = w.tree /\ v.label = w.label
BY DEF Create, Window

LEMMA LoadAlone ==
    ASSUME NEW w \in Window, NEW f \in w.files, w.open = {}
    PROVE  LET v == LoadFileIntoIDE(w, FALSE, f)
           IN  /\ v.files = w.files /\ v.saved = w.saved /\ v.open = w.open
               /\ v.tree = w.tree /\ v.label = w.label
               /\ v.path = f /\ v.box = w.saved[f]
<1> DEFINE t == SetText(w, FALSE, w.saved[f])
<1>1. f \in Name /\ w.saved[f] \in Content
  BY DEF Window
<1>2. t \in Window
  BY <1>1, SetTextType
<1>3. SameFiles(t, w) /\ t.box = w.saved[f]
  BY <1>1, SetTextAlone
<1>4. LoadFileIntoIDE(w, FALSE, f) = [t EXCEPT !.path = f]
  BY DEF LoadFileIntoIDE
<1> HIDE DEF t
<1> QED
  BY <1>2, <1>3, <1>4 DEF SameFiles, Window

LEMMA OpenProjectAlone ==
    ASSUME NEW w \in Window, NEW f \in Name, Tidy(w), w.path = NoName
    PROVE  LET v == OpenedProject(w, f)
           IN  /\ Tidy(v)
               /\ Current(w) => Current(v) /\ Keeps(w, v, {})
<1> USE WorkspaceAssumption
<1> DEFINE made == IF f \in w.files THEN w ELSE Create(w, f)
           v    == OpenedProject(w, f)
<1>1. /\ v.files = w.files \cup {f}
      /\ v.saved = IF f \in w.files THEN w.saved
                   ELSE [w.saved EXCEPT ![f] = {}]
      /\ v.box = w.box
      /\ v.path = f /\ v.label = f /\ v.tree = w.tree \cup {f}
  <2>1. made \in Window
    BY CreateType
  <2>2. /\ made.files = w.files \cup {f}
        /\ made.saved = IF f \in w.files THEN w.saved
                        ELSE [w.saved EXCEPT ![f] = {}]
        /\ made.box = w.box /\ made.tree = w.tree
    BY CreateAlone
  <2>3. v = [[made EXCEPT !.tree = @ \cup {f}, !.label = f]
               EXCEPT !.path = f]
    BY DEF OpenedProject, AddFile
  <2> HIDE DEF made, v
  <2> QED
    BY <2>1, <2>2, <2>3 DEF Window
<1>2. w.saved \in [Name -> Content]
  BY DEF Window
<1> HIDE DEF v
<1>3. Tidy(v)
  BY <1>1, <1>2 DEF Tidy
<1>4. ASSUME Current(w) PROVE Current(v)
  BY <1>1, <1>2, <1>4 DEF Current
<1>5. ASSUME Current(w) PROVE Keeps(w, v, {})
  BY <1>1, <1>2, <1>5, StrokeFile DEF Current, Keeps, Holds
<1> QED
  BY <1>3, <1>4, <1>5 DEF v

LEMMA NewFileAlone ==
    ASSUME NEW w \in Window, NEW f \in Name, Tidy(w), w.open = {},
           w.path # NoName
    PROVE  LET v == setNewFileName(w, FALSE, f)
           IN  /\ Tidy(v)
               /\ Current(w) => Current(v) /\ Keeps(w, v, {})
<1> USE WorkspaceAssumption
<1> DEFINE c  == Create(w, f)
           a  == AddFile(c, f)
           sv == SaveContentToFile(a)
           at == [sv EXCEPT !.path = f]
           t  == SetText(at, FALSE, {})
           v  == setNewFileName(w, FALSE, f)
           made == [w.saved EXCEPT ![f] = {}]
           kept == IF w.path = f THEN made
                   ELSE [made EXCEPT ![w.path] = w.box]
<1>0. w.saved \in [Name -> Content] /\ w.path \in Name
  BY DEF Window
<1>1. CASE f \in w.files
  BY <1>0, <1>1 DEF setNewFileName, Keeps
<1>2. CASE f \notin w.files
  <2>1. c \in Window /\ a \in Window
    BY CreateType, AddFileType
  <2>2. /\ a.files = w.files \cup {f}
        /\ a.saved = [w.saved EXCEPT ![f] = {}]
        /\ a.open = {f} /\ a.box = w.box /\ a.path = w.path
        /\ a.tree = w.tree \cup {f}
    <3>1. a = [c EXCEPT !.tree = @ \cup {f}, !.label = f]
      BY DEF AddFile
    <3>2. /\ c.files = w.files \cup {f} /\ c.open = w.open \cup {f}
          /\ c.saved = [w.saved EXCEPT ![f] = {}]
          /\ c.box = w.box /\ c.path = w.path /\ c.tree = w.tree
      BY CreateAlone
    <3> HIDE DEF c, a
    <3> QED
      BY <2>1, <3>1, <3>2 DEF Window
  <2> HIDE DEF c, a
  <2>3. Tidy(a)
    BY <1>0, <2>2 DEF Tidy
  <2>4. sv \in Window
    BY <2>1, SaveType
  <2>5. /\ sv.files = w.files \cup {f, w.path}
        /\ sv.saved = kept
        /\ sv.tree = a.tree
    <3>1. CASE w.path = f
      BY <1>0, <2>2, <3>1 DEF SaveContentToFile
    <3>2. CASE w.path # f
      BY <1>0, <2>1, <2>2, <2>3, <3>2, SaveAlone, ZenonT(60)
    <3> QED
      BY <3>1, <3>2
  <2> HIDE DEF sv
  <2>6. at \in Window
    BY <2>4 DEF Window
  <2>7. /\ at.files = w.files \cup {f, w.path}
        /\ at.saved = kept
        /\ at.path = f /\ at.tree = w.tree \cup {f}
    BY <2>2, <2>4, <2>5 DEF Window
  <2> HIDE DEF at
  <2>8. SameFiles(t, at) /\ t.box = {} /\ t \in Window
    BY <2>6, SetTextAlone, SetTextType DEF Content
  <2>9. v = [t EXCEPT !.label = f]
    BY <1>2 DEF setNewFileName, loadNewFile, a, c, sv, at
  <2> HIDE DEF t, v
  <2>10. /\ v.files = w.files \cup {f, w.path}
        /\ v.saved = kept
        /\ v.path = f /\ v.tree = w.tree \cup {f}
        /\ v.box = {} /\ v.label = f
    BY <2>7, <2>8, <2>9 DEF SameFiles, Window
  <2>11. Tidy(v)
    BY <1>0, <2>10 DEF Tidy
  <2>12. ASSUME Current(w) PROVE Current(v)
    BY <1>0, <1>2, <2>10, <2>12 DEF Current
  <2>13. ASSUME Current(w) PROVE Keeps(w, v, {})
    <3>1. /\ w.saved[f] = {} /\ w.saved[w.path] \subseteq w.box
          /\ v.saved[w.path] = w.box
      BY <1>0, <1>2, <2>10, <2>13, Zenon DEF Current
    <3>2. \A g \in Name \ {f, w.path} : v.saved[g] = w.saved[g]
      BY <1>0, <2>10
    <3>3. \A g \in Name : w.saved[g] \subseteq v.saved[g]
      BY <3>1, <3>2
    <3> QED
      BY <1>0, <3>1, <3>3, SavingKeeps
  <2> QED
    BY <2>11, <2>12, <2>13 DEF v
<1> QED
  BY <1>1, <1>2

LEMMA SwitchAlone ==
    ASSUME NEW w \in Window, NEW f \in w.tree, Tidy(w), w.open = {},
           w.path # NoName
    PROVE  LET v == switchFile(w, FALSE, f)
           IN  /\ Tidy(v)
               /\ Current(w) => Current(v) /\ Keeps(w, v, {})
<1> USE WorkspaceAssumption
<1> DEFINE u  == [w EXCEPT !.updating = TRUE]
           sv == SaveContentToFile(u)
           at == [sv EXCEPT !.path = f]
           t  == LoadFileIntoIDE(at, FALSE, f)
           v  == switchFile(w, FALSE, f)
<1>0. w.saved \in [Name -> Content] /\ w.path \in Name /\ f \in Name
  BY DEF Window
<1>1. /\ u \in Window
      /\ u.files = w.files /\ u.saved = w.saved /\ u.open = w.open
      /\ u.box = w.box /\ u.path = w.path /\ u.tree = w.tree
  BY DEF Window
<1> HIDE DEF u
<1>2. Tidy(u)
  BY <1>1 DEF Tidy
<1>3. /\ sv \in Window
      /\ sv.files = w.files \cup {w.path} /\ sv.open = {}
      /\ sv.saved = [w.saved EXCEPT ![w.path] = w.box]
      /\ sv.tree = w.tree
  BY <1>0, <1>1, <1>2, SaveAlone, SaveType
<1> HIDE DEF sv
<1>4. /\ at \in Window
      /\ at.files = w.files \cup {w.path} /\ at.open = {}
      /\ at.saved = [w.saved EXCEPT ![w.path] = w.box]
      /\ at.tree = w.tree
  BY <1>0, <1>3 DEF Window
<1>5. f \in at.files
  BY <1>4 DEF Tidy
<1> HIDE DEF at
<1>6. /\ t \in Window
      /\ t.files = at.files /\ t.saved = at.saved /\ t.open = {}
      /\ t.tree = at.tree /\ t.path = f /\ t.box = at.saved[f]
  BY <1>0, <1>4, <1>5, LoadAlone, LoadType
<1>7. v = [t EXCEPT !.label = f, !.updating = FALSE]
  BY DEF switchFile, at, sv, u
<1> HIDE DEF t, v
<1>8. /\ v.files = w.files \cup {w.path} /\ v.open = {}
      /\ v.saved = [w.saved EXCEPT ![w.path] = w.box]
      /\ v.tree = w.tree /\ v.path = f /\ v.box = v.saved[f]
  BY <1>4, <1>6, <1>7 DEF Window
<1>9. Tidy(v)
  BY <1>0, <1>8 DEF Tidy
<1>10. ASSUME Current(w) PROVE Current(v) /\ Keeps(w, v, {})
  <2>1. w.saved[w.path] \subseteq w.box /\ v.saved[w.path] = w.box
    BY <1>0, <1>8, <1>10 DEF Current
  <2>2. \A g \in Name \ {w.path} : v.saved[g] = w.saved[g]
    BY <1>0, <1>8
  <2>3. \A g \in Name : w.saved[g] \subseteq v.saved[g]
    BY <2>1, <2>2
  <2>4. Keeps(w, v, {})
    BY <1>0, <2>1, <2>3, SavingKeeps
  <2>5. Current(v)
    BY <1>0, <1>5, <1>4, <1>8, <1>10, <2>2 DEF Current
  <2> QED
    BY <2>4, <2>5
<1> QED
  BY <1>9, <1>10 DEF v

LEMMA RemoveAlone ==
    ASSUME NEW w \in Window, NEW f \in Name, Tidy(w), w.open = {},
           w.path # NoName, NEW next \in Listed(w, f, TRUE)
    PROVE  LET v == removeFile(w, FALSE, f, TRUE, next)
           IN  /\ Tidy(v)
               /\ Current(w) => Current(v) /\ Keeps(w, v, {f})
<1> USE WorkspaceAssumption
<1> DEFINE d  == Deleted(w, f, TRUE)
           at == [d EXCEPT !.path = next]
           t  == LoadFileIntoIDE(at, FALSE, next)
           e  == SetText(d, FALSE, {})
           v  == removeFile(w, FALSE, f, TRUE, next)
<1>0. w.saved \in [Name -> Content] /\ w.path \in Name /\ next \in Name
  BY ListedType DEF Window
<1>1. /\ d \in Window
      /\ d.files = w.files \ {f} /\ d.open = {} /\ d.box = w.box
      /\ d.saved = IF f \in w.files THEN [w.saved EXCEPT ![f] = {}]
                   ELSE w.saved
      /\ d.path = w.path /\ d.tree = w.tree \ {f} /\ d.label = w.label
  <2>1. d \in Window
    BY DeletedType
  <2>2. CASE f \notin w.files
    BY <2>1, <2>2 DEF Deleted, Tidy
  <2>3. CASE f \in w.files
    <3>1. d = [w EXCEPT !.files = @ \ {f}, !.saved[f] = {},
                        !.tree = @ \ {f}]
      BY <2>3 DEF Deleted, Tidy
    <3> HIDE DEF d
    <3> QED
      BY <2>1, <2>3, <3>1 DEF Tidy, Window
  <2> QED
    BY <2>2, <2>3
<1>2. v = Replaced(d, FALSE, f, next)
  BY DEF removeFile
<1>3. d.files # {} => next \in d.files
  BY DEF Listed
<1> HIDE DEF d, v
<1>4. CASE f # w.path
  <2>1. v = d
    BY <1>1, <1>2, <1>4 DEF Replaced
  <2>2. Tidy(v)
    BY <1>0, <1>1, <2>1 DEF Tidy
  <2>3. ASSUME Current(w) PROVE Current(v) /\ Keeps(w, v, {f})
    <3>1. \A g \in Name \ {f} : v.saved[g] = w.saved[g]
      BY <1>0, <1>1, <2>1
    <3>2. Keeps(w, v, {f})
      <4>1. \A g \in w.files \cap v.files : w.saved[g] \subseteq v.saved[g]
        BY <1>1, <2>1, <3>1 DEF Window
      <4>2. \A x \in Stroke : x.file # f /\ Holds(w, x) => Holds(v, x)
        BY <1>1, <2>1, <3>1, StrokeFile DEF Holds
      <4> QED
        BY <4>1, <4>2 DEF Keeps
    <3>3. Current(v)
      BY <1>0, <1>1, <1>4, <2>1, <2>3 DEF Current
    <3> QED
      BY <3>2, <3>3
  <2> QED
    BY <2>2, <2>3 DEF v
<1>5. CASE f = w.path /\ d.files # {}
  <2>1. /\ at \in Window /\ at.files = d.files /\ at.open = {}
        /\ at.saved = d.saved /\ at.tree = d.tree
    BY <1>0, <1>1 DEF Window
  <2> HIDE DEF at
  <2>2. /\ t \in Window
        /\ t.files = d.files /\ t.saved = d.saved /\ t.open = {}
        /\ t.tree = d.tree /\ t.path = next /\ t.box = d.saved[next]
    <3>1. next \in at.files
      BY <1>3, <1>5, <2>1
    <3>2. t \in Window
      BY <1>0, <2>1, LoadType
    <3>3. /\ t.files = at.files /\ t.saved = at.saved /\ t.open = at.open
          /\ t.tree = at.tree /\ t.path = next /\ t.box = at.saved[next]
      BY <2>1, <3>1, LoadAlone
    <3> QED
      BY <2>1, <3>2, <3>3
  <2>3. v = [t EXCEPT !.label = next]
    BY <1>1, <1>2, <1>5 DEF Replaced, at
  <2> HIDE DEF t
  <2>4. /\ v.files = d.files /\ v.saved = d.saved /\ v.open = {}
        /\ v.tree = d.tree /\ v.path = next /\ v.box = d.saved[next]
    BY <2>2, <2>3 DEF Window
  <2>5. Tidy(v)
    BY <1>0, <1>1, <2>4 DEF Tidy
  <2>6. ASSUME Current(w) PROVE Current(v) /\ Keeps(w, v, {f})
    <3>1. \A g \in Name \ {f} : v.saved[g] = w.saved[g]
      BY <1>0, <1>1, <2>4
    <3>2. Keeps(w, v, {f})
      <4>1. \A g \in w.files \cap v.files : w.saved[g] \subseteq v.saved[g]
        BY <1>1, <2>4, <3>1 DEF Window
      <4>2. \A x \in Stroke : x.file # f /\ Holds(w, x) => Holds(v, x)
        BY <1>1, <1>5, <2>4, <3>1, StrokeFile DEF Holds
      <4> QED
        BY <4>1, <4>2 DEF Keeps
    <3>3. Current(v)
      BY <1>0, <1>1, <1>3, <1>5, <2>4, <2>6 DEF Current
    <3> QED
      BY <3>2, <3>3
  <2> QED
    BY <2>5, <2>6 DEF v
<1>6. CASE f = w.path /\ d.files = {}
  <2>1. SameFiles(e, d) /\ e.box = {} /\ e \in Window
    BY <1>1, SetTextAlone, SetTextType DEF Content
  <2>2. v = [e EXCEPT !.label = NoName]
    BY <1>1, <1>2, <1>6 DEF Replaced
  <2> HIDE DEF e
  <2>3. /\ v.files = {} /\ v.saved = d.saved /\ v.open = {} /\ v.box = {}
        /\ v.tree = d.tree /\ v.path = f /\ v.label = NoName
    BY <1>1, <1>6, <2>1, <2>2 DEF SameFiles, Window
  <2>4. Tidy(v)
    BY <1>0, <1>1, <1>6, <2>3 DEF Tidy
  <2>5. ASSUME Current(w) PROVE Current(v) /\ Keeps(w, v, {f})
    <3>1. \A g \in Name \ {f} : v.saved[g] = w.saved[g]
      BY <1>0, <1>1, <2>3
    <3>2. Keeps(w, v, {f})
      <4>1. \A g \in w.files \cap v.files : w.saved[g] \subseteq v.saved[g]
        BY <1>1, <2>3, <3>1 DEF Window
      <4>2. \A x \in Stroke : x.file # f /\ Holds(w, x) => Holds(v, x)
        BY <1>6, <2>3, <3>1, StrokeFile DEF Holds
      <4> QED
        BY <4>1, <4>2 DEF Keeps
    <3>3. Current(v)
      BY <1>0, <1>1, <1>6, <2>3, <2>5 DEF Current
    <3> QED
      BY <3>2, <3>3
  <2> QED
    BY <2>4, <2>5 DEF v
<1> QED
  BY <1>4, <1>5, <1>6

LEMMA TypeAlone ==
    ASSUME NEW w \in Window, NEW n \in 1 .. MaxStrokes, Tidy(w),
           w.path # NoName
    PROVE  LET x == [file |-> w.path, n |-> n]
               v == Change(w, FALSE, {}, {x})
           IN  /\ Tidy(v)
               /\ Current(w) /\ w.label # NoName
                    => Current(v) /\ Keeps(w, v, {}) /\ Holds(v, x)
<1> USE WorkspaceAssumption
<1> DEFINE x == [file |-> w.path, n |-> n]
           v == Change(w, FALSE, {}, {x})
<1>0. w.saved \in [Name -> Content] /\ w.path \in Name
  BY DEF Window
<1>1. x \in Stroke /\ x.file = w.path
  BY <1>0 DEF Stroke
<1> HIDE DEF x
<1>2. {} \in Content /\ {x} \in Content
  BY <1>1 DEF Content
<1>3. SameFiles(v, w) /\ v.box = (w.box \ {}) \cup {x}
  <2>1. Boxed(v, w, (w.box \ {}) \cup {x})
    BY <1>2, ChangeAlone
  <2> QED
    BY <2>1 DEF Boxed
<1> HIDE DEF v
<1>4. Tidy(v)
  BY <1>0, <1>1, <1>3 DEF Tidy, SameFiles
<1>5. ASSUME Current(w), w.label # NoName
      PROVE  Current(v) /\ Keeps(w, v, {}) /\ Holds(v, x)
  BY <1>1, <1>3, <1>5 DEF Current, Keeps, Holds, SameFiles
<1> QED
  BY <1>4, <1>5 DEF v, x

Alone == Member \notin Site /\ PromptClose /\ ExactNames

\* The users neither end the program nor type under "No files!".
Careful == "close" \notin Ops /\ ~TypeAnywhere

AllHeld(s) == \A x \in owed[s] : Holds(win[s], x)

SavedGrows(w, v) ==
    \A f \in w.files \cap v.files : w.saved[f] \subseteq v.saved[f]

\* From w to the window v of a turn, as an action on the window of s.
LEMMA TurnAlone ==
    ASSUME TypeOK, Alone, NEW s \in Site, NEW v \in Window, Turn(s, v),
           Tidy(v)
    PROVE  /\ s = Host
           /\ mail'[Host] = mail[Host]
           /\ win'[s] \in Window
           /\ Tidy(win'[s])
           /\ Current(v) => Current(win'[s])
           /\ \A x \in Stroke : Holds(v, x) => Holds(win'[s], x)
           /\ \A w : SavedGrows(w, v) => SavedGrows(w, win'[s])
<1>1. s = Host /\ Peer(s) = Member /\ Member # Host
  BY FilesAssumption DEF Alone, Peer, Host, Member
<1>2. mail'[Host] = mail[Host]
  BY <1>1 DEF Turn, TypeOK
<1> DEFINE nothing == <<>>
           told == [v EXCEPT !.out = nothing]
<1>3. win'[s] = told
  BY DEF Turn, TypeOK
<1>4. told \in Window
  BY ToldType
<1> HIDE DEF nothing
<1>5. /\ told.files = v.files /\ told.saved = v.saved /\ told.open = v.open
      /\ told.box = v.box /\ told.path = v.path /\ told.tree = v.tree
      /\ told.label = v.label
  BY DEF Window
<1> HIDE DEF told
<1> QED
  BY <1>1, <1>2, <1>3, <1>4, <1>5 DEF Tidy, Current, Holds, SavedGrows

\* What an operation does for the window it does for the state.
LEMMA OperationAlone ==
    ASSUME TypeOK, Alone, NEW s \in Site, NEW v \in Window, Turn(s, v),
           Tidy(v), NEW gone,
           Current(win[s]) => Current(v) /\ Keeps(win[s], v, gone),
           owed'[s] = {x \in owed[s] : x.file \notin gone}
    PROVE  /\ Tidy(win'[s]) /\ mail'[Host] = mail[Host]
           /\ Current(win[s]) /\ AllHeld(s) =>
                /\ Current(win'[s]) /\ AllHeld(s)'
                /\ SavedGrows(win[s], win'[s])
<1>1. /\ Tidy(win'[s]) /\ mail'[Host] = mail[Host]
      /\ Current(v) => Current(win'[s])
      /\ \A x \in Stroke : Holds(v, x) => Holds(win'[s], x)
      /\ \A w : SavedGrows(w, v) => SavedGrows(w, win'[s])
  BY TurnAlone
<1>2. ASSUME Current(win[s]), AllHeld(s)
      PROVE  /\ Current(win'[s]) /\ AllHeld(s)'
             /\ SavedGrows(win[s], win'[s])
  <2>1. Current(v) /\ Keeps(win[s], v, gone)
    BY <1>2
  <2>2. SavedGrows(win[s], v)
    BY <2>1 DEF Keeps, SavedGrows
  <2>3. \A x \in owed[s] : x \in Stroke
    BY DEF TypeOK
  <2>4. ASSUME NEW x \in owed'[s] PROVE Holds(win'[s], x)
    <3>1. x \in owed[s] /\ x.file \notin gone
      BY <2>4
    <3>2. x \in Stroke /\ Holds(win[s], x)
      BY <1>2, <2>3, <3>1 DEF AllHeld
    <3>3. Holds(v, x)
      BY <2>1, <3>1, <3>2 DEF Keeps
    <3> QED
      BY <1>1, <3>2, <3>3
  <2>5. AllHeld(s)'
    BY <2>4 DEF AllHeld
  <2> QED
    BY <1>1, <2>1, <2>2, <2>5
<1> QED
  BY <1>1, <1>2

LEMMA UserAlone ==
    ASSUME TypeOK, Alone, NEW s \in Site, User(s), Tidy(win[s])
    PROVE  /\ Tidy(win'[s]) /\ mail'[Host] = mail[Host]
           /\ Careful /\ Current(win[s]) /\ AllHeld(s) =>
                /\ Current(win'[s]) /\ AllHeld(s)'
                /\ SavedGrows(win[s], win'[s])
<1> DEFINE w == win[s]
           Goal == /\ Tidy(win'[s]) /\ mail'[Host] = mail[Host]
                   /\ Careful /\ Current(w) /\ AllHeld(s) =>
                        /\ Current(win'[s]) /\ AllHeld(s)'
                        /\ SavedGrows(w, win'[s])
<1>0. w \in Window /\ s = Host /\ (s = Member) = FALSE
  BY StepWindow, FilesAssumption DEF Alone, Host, Member
<1>9. \A x \in owed[s] : x \in Stroke
  BY DEF TypeOK
<1>1. CASE OpenProject(s)
  <2> DEFINE v == OpenedProject(w, Project[s])
  <2>1. Project[s] \in Name /\ w.path = NoName
    BY <1>0, <1>1, FilesAssumption DEF OpenProject, Opened
  <2>2. v \in Window
    BY <1>0, <2>1, OpenedProjectType
  <2>3. Tidy(v) /\ (Current(w) => Current(v) /\ Keeps(w, v, {}))
    BY <1>0, <2>1, OpenProjectAlone
  <2>4. Turn(s, v) /\ owed'[s] = {x \in owed[s] : x.file \notin {}}
    BY <1>1 DEF OpenProject
  <2> HIDE DEF v
  <2> QED
    BY <2>2, <2>3, <2>4, OperationAlone
<1>2. CASE SaveFiles(s)
  <2> DEFINE v == SaveContentToFile(w)
  <2>1. v \in Window
    BY <1>0, SaveType
  <2>2. Tidy(v) /\ (Current(w) => Current(v) /\ Keeps(w, v, {}))
    BY <1>0, <1>2, SaveAlone DEF SaveFiles, Do, Ready, Alone
  <2>3. Turn(s, v) /\ owed'[s] = {x \in owed[s] : x.file \notin {}}
    BY <1>2 DEF SaveFiles, Do
  <2> HIDE DEF v
  <2> QED
    BY <2>1, <2>2, <2>3, OperationAlone
<1>3. ASSUME NEW f \in Name, SelectFile(s, f)
      PROVE  Goal
  <2> DEFINE v == switchFile(w, FALSE, f)
  <2>1. v \in Window
    BY <1>0, SwitchType
  <2>2. f \in w.tree /\ w.path # NoName /\ w.open = {}
    BY <1>3 DEF SelectFile, Do, Opened, Ready, Alone
  <2>3. Tidy(v) /\ (Current(w) => Current(v) /\ Keeps(w, v, {}))
    BY <1>0, <2>2, SwitchAlone
  <2>4. Turn(s, v) /\ owed'[s] = {x \in owed[s] : x.file \notin {}}
    BY <1>0, <1>3 DEF SelectFile, Do
  <2> HIDE DEF v
  <2> QED
    BY <2>1, <2>3, <2>4, OperationAlone
<1>4. ASSUME NEW f \in Name, NewFile(s, f)
      PROVE  Goal
  <2> DEFINE v == setNewFileName(w, FALSE, f)
  <2>1. v \in Window
    BY <1>0, NewFileType
  <2>2. w.path # NoName /\ w.open = {}
    BY <1>4 DEF NewFile, Do, Opened, Ready, Alone
  <2>3. Tidy(v) /\ (Current(w) => Current(v) /\ Keeps(w, v, {}))
    BY <1>0, <2>2, NewFileAlone
  <2>4. Turn(s, v) /\ owed'[s] = {x \in owed[s] : x.file \notin {}}
    BY <1>0, <1>4 DEF NewFile, Do
  <2> HIDE DEF v
  <2> QED
    BY <2>1, <2>3, <2>4, OperationAlone
<1>5. ASSUME NEW f \in Name, RemoveFile(s, f)
      PROVE  Goal
  <2>1. PICK next \in Listed(w, f, TRUE) :
          /\ Do(s, "remove", removeFile(w, s = Member, f, TRUE, next))
          /\ owed' = [owed EXCEPT ![s] = {x \in @ : x.file # f}]
    BY <1>5, FilesAssumption DEF RemoveFile, Alone
  <2> DEFINE v == removeFile(w, FALSE, f, TRUE, next)
  <2>2. v \in Window
    BY <1>0, ListedType, RemoveType
  <2>3. w.path # NoName /\ w.open = {}
    BY <2>1 DEF Do, Opened, Ready, Alone
  <2>4. Tidy(v) /\ (Current(w) => Current(v) /\ Keeps(w, v, {f}))
    BY <1>0, <2>3, RemoveAlone
  <2>5. Turn(s, v)
    BY <1>0, <2>1 DEF Do
  <2>6. owed'[s] = {x \in owed[s] : x.file \notin {f}}
    BY <2>1 DEF TypeOK
  <2> HIDE DEF v
  <2> QED
    BY <2>2, <2>4, <2>5, <2>6, OperationAlone
<1>6. CASE CloseProgram(s)
  <2> DEFINE v == NewWindow(w.files, w.saved)
  <2>1. v \in Window
    BY <1>0, NewWindowType DEF Window
  <2>2. Tidy(v)
    BY DEF NewWindow, Tidy
  <2>3. Turn(s, v) /\ ~Careful
    BY <1>6, FilesAssumption DEF CloseProgram, Do, Careful
  <2> HIDE DEF v
  <2> QED
    BY <2>1, <2>2, <2>3, TurnAlone
<1>7. CASE Type(s)
  <2> DEFINE x == [file |-> w.path, n |-> strokes + 1]
             v == Change(w, FALSE, {}, {x})
  <2>1. w.path # NoName /\ strokes + 1 \in 1 .. MaxStrokes
    BY <1>7, WorkspaceAssumption DEF Type, Opened, TypeOK
  <2>2. x \in Stroke
    BY <1>0, <2>1 DEF Window, Stroke
  <2>3. v \in Window
    <3>1. {} \in Content /\ {x} \in Content
      BY <2>2 DEF Content
    <3> HIDE DEF x
    <3> QED
      BY <1>0, <3>1, ChangeType
  <2>4. /\ Tidy(v)
        /\ Current(w) /\ w.label # NoName
             => Current(v) /\ Keeps(w, v, {}) /\ Holds(v, x)
    BY <1>0, <2>1, TypeAlone
  <2>5. Turn(s, v) /\ owed'[s] = owed[s] \cup {x}
    BY <1>0, <1>7 DEF Type, TypeOK
  <2>6. Careful => w.label # NoName
    BY <1>7 DEF Type, Careful
  <2> HIDE DEF v, x
  <2>7. /\ Tidy(win'[s]) /\ mail'[Host] = mail[Host]
        /\ Current(v) => Current(win'[s])
        /\ \A y \in Stroke : Holds(v, y) => Holds(win'[s], y)
        /\ \A y : SavedGrows(y, v) => SavedGrows(y, win'[s])
    BY <2>3, <2>4, <2>5, TurnAlone
  <2>8. ASSUME Careful, Current(w), AllHeld(s)
        PROVE  /\ Current(win'[s]) /\ AllHeld(s)'
               /\ SavedGrows(w, win'[s])
    <3>1. Current(v) /\ Keeps(w, v, {}) /\ Holds(v, x)
      BY <2>4, <2>6, <2>8
    <3>2. SavedGrows(w, v)
      BY <3>1 DEF Keeps, SavedGrows
    <3>3. ASSUME NEW y \in owed'[s] PROVE Holds(win'[s], y)
      <4>1. CASE y = x
        BY <2>2, <2>7, <3>1, <4>1
      <4>2. CASE y \in owed[s]
        <5>1. y \in Stroke /\ Holds(w, y)
          BY <1>9, <2>8, <4>2 DEF AllHeld
        <5> QED
          BY <2>7, <3>1, <5>1 DEF Keeps
      <4> QED
        BY <2>5, <3>3, <4>1, <4>2
    <3>4. AllHeld(s)'
      BY <3>3 DEF AllHeld
    <3> QED
      BY <2>7, <3>1, <3>2, <3>4
  <2> QED
    BY <2>7, <2>8
<1> QED
  BY <1>1, <1>2, <1>3, <1>4, <1>5, <1>6, <1>7 DEF User

\* The other steps of a program that is alone: the collector and the start
\* of a session that nobody joins.
LEMMA RestAlone ==
    ASSUME TypeOK, Alone, \A s \in Site : Tidy(win[s]), mail[Host] = <<>>,
           Session \/ \E s \in Site : Collect(s)
    PROVE  /\ mail'[Host] = mail[Host]
           /\ owed' = owed
           /\ \A s \in Site :
                /\ Tidy(win'[s])
                /\ Current(win[s]) => Current(win'[s])
                /\ SavedGrows(win[s], win'[s])
                /\ AllHeld(s) => AllHeld(s)'
<1>0. \A s \in Site : win[s] \in Window /\ s = Host
  BY StepWindow, FilesAssumption DEF Alone
<1>1. HostStarts \/ \E s \in Site : Collect(s)
  <2>1. ~ (MemberStarts \/ ClearOne \/ CreateOne \/ FillOne \/ AllReceived)
    BY DEF Alone, MemberStarts, ClearOne, CreateOne, FillOne, AllReceived,
           Receives
  <2>2. ~ \E s \in Site : Deliver(s)
    BY FilesAssumption DEF Deliver, Alone, Host, Member
  <2> QED
    BY <2>1, <2>2 DEF Session
<1>2. \A s \in Site : \/ win'[s] = [win[s] EXCEPT !.crashed = TRUE]
                     \/ win'[s] = [win[s] EXCEPT !.started = TRUE]
                     \/ \E f \in win[s].open :
                            win'[s] = [win[s] EXCEPT !.open = @ \ {f}]
  <2>1. CASE HostStarts
    <3>1. \/ win' = [win EXCEPT ![Host] = Crash(win[Host])]
          \/ win' = [win EXCEPT ![Host].started = TRUE]
      BY <2>1 DEF HostStarts
    <3> QED
      BY <1>0, <3>1 DEF Crash, TypeOK
  <2>2. CASE \E s \in Site : Collect(s)
    <3>1. PICK s \in Site : Collect(s)
      BY <2>2
    <3>2. PICK f \in win[s].open : win' = [win EXCEPT ![s].open = @ \ {f}]
      BY <3>1 DEF Collect
    <3> QED
      BY <1>0, <3>2 DEF TypeOK
  <2> QED
    BY <1>1, <2>1, <2>2
<1>3. ASSUME NEW s \in Site
      PROVE  /\ win'[s].files = win[s].files
             /\ win'[s].saved = win[s].saved
             /\ win'[s].box = win[s].box
             /\ win'[s].path = win[s].path
             /\ win'[s].tree = win[s].tree
             /\ win'[s].label = win[s].label
  BY <1>0, <1>2 DEF Window
<1>4. owed' = owed /\ mail' = mail
  BY <1>1 DEF HostStarts, Collect
<1>5. ASSUME NEW s \in Site
      PROVE  /\ Tidy(win'[s])
             /\ Current(win[s]) => Current(win'[s])
             /\ SavedGrows(win[s], win'[s])
  BY <1>3 DEF Tidy, Current, SavedGrows
<1>6. ASSUME NEW s \in Site, AllHeld(s) PROVE AllHeld(s)'
  BY <1>3, <1>4, <1>6 DEF AllHeld, Holds
<1> QED
  BY <1>4, <1>5, <1>6

FolderInv == /\ TypeOK
             /\ \A s \in Site : Tidy(win[s])
             /\ mail[Host] = <<>>

KeepingInv == \A s \in Site : Current(win[s]) /\ AllHeld(s)

LEMMA InitAlone == Init => FolderInv /\ KeepingInv
<1> SUFFICES ASSUME Init PROVE FolderInv /\ KeepingInv
  OBVIOUS
<1>1. ASSUME NEW s \in Site
      PROVE  Tidy(win[s]) /\ Current(win[s]) /\ AllHeld(s)
  BY DEF Init, NewWindow, Tidy, Current, AllHeld
<1> QED
  BY <1>1, InitType DEF Init, FolderInv, KeepingInv

LEMMA StepAlone ==
    ASSUME Alone, FolderInv, [Next]_vars
    PROVE  /\ FolderInv'
           /\ Careful /\ KeepingInv =>
                /\ KeepingInv'
                /\ \A s \in Site : SavedGrows(win[s], win'[s])
<1>0. TypeOK'
  BY FilesStep DEF FolderInv
<1>1. CASE UNCHANGED vars
  BY <1>0, <1>1
     DEF vars, FolderInv, KeepingInv, AllHeld, SavedGrows
<1>2. CASE \E s \in Site : User(s)
  <2>1. PICK s \in Site : User(s)
    BY <1>2
  <2>2. \A t \in Site : t = s
    BY FilesAssumption DEF Alone
  <2>3. /\ Tidy(win'[s]) /\ mail'[Host] = mail[Host]
        /\ Careful /\ Current(win[s]) /\ AllHeld(s) =>
             /\ Current(win'[s]) /\ AllHeld(s)'
             /\ SavedGrows(win[s], win'[s])
    BY <2>1, UserAlone DEF FolderInv
  <2>4. ASSUME Careful, KeepingInv
        PROVE  /\ KeepingInv'
               /\ \A t \in Site : SavedGrows(win[t], win'[t])
    <3>1. Current(win'[s]) /\ AllHeld(s)' /\ SavedGrows(win[s], win'[s])
      BY <2>3, <2>4 DEF KeepingInv
    <3> QED
      BY <2>2, <3>1 DEF KeepingInv
  <2>5. FolderInv'
    BY <1>0, <2>2, <2>3 DEF FolderInv
  <2> QED
    BY <2>4, <2>5
<1>3. CASE Session \/ \E s \in Site : Collect(s)
  <2>1. /\ mail'[Host] = mail[Host]
        /\ \A s \in Site :
             /\ Tidy(win'[s])
             /\ Current(win[s]) => Current(win'[s])
             /\ SavedGrows(win[s], win'[s])
             /\ AllHeld(s) => AllHeld(s)'
    BY <1>3, RestAlone DEF FolderInv
  <2> QED
    BY <1>0, <2>1 DEF FolderInv, KeepingInv
<1> QED
  BY <1>1, <1>2, <1>3 DEF Next

\* In a program that is alone no file ever holds a line of another one, for
\* any number of files and operations, also over restarts, given that the
\* collector closes new files in time and names are typed exactly.
THEOREM AloneOwnContent ==
    ASSUME Alone
    PROVE  Spec => []OwnContent
<1>1. Init => FolderInv
  BY InitAlone
<1>2. FolderInv /\ [Next]_vars => FolderInv'
  BY StepAlone
<1>3. FolderInv => OwnContent
  BY DEF FolderInv, Tidy, OwnContent
<1> QED
  BY <1>1, <1>2, <1>3, PTL DEF Spec

\* And if the user neither ends the program nor types under "No files!",
\* nothing typed is lost and nothing saved leaves a file that stays.
THEOREM AloneNothingLost ==
    ASSUME Alone, Careful
    PROVE  Spec => []NothingLost
<1>1. Init => FolderInv /\ KeepingInv
  BY InitAlone
<1>2. FolderInv /\ KeepingInv /\ [Next]_vars => (FolderInv /\ KeepingInv)'
  BY StepAlone
<1>3. FolderInv /\ KeepingInv => NothingLost
  BY DEF KeepingInv, AllHeld, Holds, NothingLost
<1> QED
  BY <1>1, <1>2, <1>3, PTL DEF Spec

\* The same assumptions: whatever a turn does, what was in a file before and
\* after it is still there.
THEOREM AloneSavedStays ==
    ASSUME Alone, Careful
    PROVE  Spec => SavedStays
<1>1. Init => FolderInv /\ KeepingInv
  BY InitAlone
<1>2. FolderInv /\ KeepingInv /\ [Next]_vars => (FolderInv /\ KeepingInv)'
  BY StepAlone
<1>3. FolderInv /\ KeepingInv /\ [Next]_vars =>
        [\A s \in Site : \A f \in win[s].files \cap win'[s].files :
            win[s].saved[f] \subseteq win'[s].saved[f]]_vars
  BY StepAlone DEF SavedGrows
<1> QED
  BY <1>1, <1>2, <1>3, PTL DEF Spec, SavedStays

-----------------------------------------------------------------------------
(* The name above the text.                                                *)

Labelled(w) == w.label \in {w.path, NoName}

LEMMA ChangeLabel ==
    ASSUME NEW w \in Window, NEW m \in BOOLEAN,
           NEW del \in Content, NEW add \in Content
    PROVE  /\ Change(w, m, del, add).path = w.path
           /\ Change(w, m, del, add).label = w.label
<1> DEFINE told == IF add = {} THEN w.out
                   ELSE Append(w.out, [del |-> del, add |-> add])
           new  == (w.box \ del) \cup add
           kept == IF m THEN w.box ELSE new
<1>1. Change(w, m, del, add) \in
        {[w EXCEPT !.out = told, !.box = kept],
         [w EXCEPT !.box = new, !.tokens = @ - 1]}
  BY DEF Change
<1> HIDE DEF told, new, kept
<1> QED
  BY <1>1 DEF Window

LEMMA SetTextLabel ==
    ASSUME NEW w \in Window, NEW m \in BOOLEAN, NEW c \in Content
    PROVE  /\ SetText(w, m, c).path = w.path
           /\ SetText(w, m, c).label = w.label
<1>1. w.box \in Content
  BY DEF Window
<1> QED
  BY <1>1, ChangeLabel DEF SetText

LEMMA ApplyUpdateLabel ==
    ASSUME NEW w \in Window, NEW m \in BOOLEAN, NEW u \in Update
    PROVE  /\ ApplyUpdate(w, m, u).path = w.path
           /\ ApplyUpdate(w, m, u).label = w.label
<1>0. u.del \in Content /\ u.add \in Content /\ {} \in Content
  BY DEF Update, Content
<1> DEFINE one == [w EXCEPT !.tokens = @ + 1]
           two == [w EXCEPT !.tokens = @ + 2]
           t   == SetText(two, m, w.box \ u.del)
<1>1. /\ one \in Window /\ one.path = w.path /\ one.label = w.label
      /\ two \in Window /\ two.path = w.path /\ two.label = w.label
  <2>1. w.tokens + 1 \in Int /\ w.tokens + 2 \in Int
    BY DEF Window
  <2> QED
    BY <2>1 DEF Window
<1>2. w.box \ u.del \in Content
  BY DEF Window, Content
<1> HIDE DEF one, two
<1>3. t \in Window /\ t.path = w.path /\ t.label = w.label
  BY <1>1, <1>2, SetTextType, SetTextLabel
<1>4. ApplyUpdate(w, m, u) \in
        {Change(one, m, {}, u.add), Change(t, m, {}, u.add)}
  BY DEF ApplyUpdate, one, two
<1> HIDE DEF t
<1> QED
  BY <1>0, <1>1, <1>3, <1>4, ChangeLabel

\* A load leaves the label, and leaves the path at f if it is there.
LEMMA LoadLabel ==
    ASSUME NEW w \in Window, NEW m \in BOOLEAN, NEW f \in Name, w.path = f
    PROVE  LoadFileIntoIDE(w, m, f).path = f
<1> DEFINE t == SetText(w, m, w.saved[f])
<1>0. w.saved[f] \in Content
  BY DEF Window
<1>1. t \in Window /\ t.path = f
  BY <1>0, SetTextType, SetTextLabel
<1>2. LoadFileIntoIDE(w, m, f) \in {w, [t EXCEPT !.path = f]}
  BY DEF LoadFileIntoIDE
<1> HIDE DEF t
<1> QED
  BY <1>1, <1>2 DEF Window

LEMMA UserLabel ==
    ASSUME TypeOK, NEW s \in Site, User(s), Labelled(win[s])
    PROVE  Labelled(win'[s])
<1> DEFINE w == win[s]
           m == s = Member
<1>0. w \in Window /\ m \in BOOLEAN
  BY StepWindow
<1>9. ASSUME NEW v \in Window, Turn(s, v), Labelled(v)
      PROVE  Labelled(win'[s])
  <2> DEFINE nothing == <<>>
             told == [v EXCEPT !.out = nothing]
  <2>1. win'[s] = told
    BY <1>9 DEF Turn, TypeOK
  <2> HIDE DEF nothing
  <2>2. told.label = v.label /\ told.path = v.path
    BY DEF Window
  <2> QED
    BY <1>9, <2>1, <2>2 DEF Labelled
<1>1. CASE OpenProject(s)
  <2> DEFINE v == OpenedProject(w, Project[s])
             made == IF Project[s] \in w.files THEN w
                     ELSE Create(w, Project[s])
  <2>1. Project[s] \in Name
    BY StepWindow, FilesAssumption
  <2>2. v \in Window /\ made \in Window
    BY <1>0, <2>1, OpenedProjectType, CreateType
  <2>3. v = [[made EXCEPT !.tree = @ \cup {Project[s]}, !.label = Project[s]]
               EXCEPT !.path = Project[s]]
    BY DEF OpenedProject, AddFile
  <2> HIDE DEF made
  <2>4. Labelled(v)
    BY <2>2, <2>3 DEF Labelled, Window
  <2>5. Turn(s, v)
    BY <1>1 DEF OpenProject
  <2> HIDE DEF v
  <2> QED
    BY <1>9, <2>2, <2>4, <2>5
<1>2. CASE SaveFiles(s)
  <2> DEFINE v == SaveContentToFile(w)
  <2>1. v \in Window
    BY <1>0, SaveType
  <2>2. v.label = w.label /\ v.path = w.path
    BY <1>0 DEF SaveContentToFile, Window
  <2>3. Turn(s, v)
    BY <1>2 DEF SaveFiles, Do
  <2> HIDE DEF v
  <2> QED
    BY <1>9, <2>1, <2>2, <2>3 DEF Labelled
<1>3. ASSUME NEW f \in Name, SelectFile(s, f)
      PROVE  Labelled(win'[s])
  <2> DEFINE u  == [w EXCEPT !.updating = TRUE]
             sv == SaveContentToFile(u)
             at == [sv EXCEPT !.path = f]
             t  == LoadFileIntoIDE(at, m, f)
             v  == switchFile(w, m, f)
  <2>1. v \in Window
    BY <1>0, SwitchType
  <2>2. u \in Window
    BY <1>0 DEF Window
  <2>3. sv \in Window
    BY <2>2, SaveType
  <2>4. v = [t EXCEPT !.label = f, !.updating = FALSE]
    BY DEF switchFile
  <2> HIDE DEF sv
  <2>5. at \in Window /\ at.path = f
    BY <2>3 DEF Window
  <2> HIDE DEF at
  <2>6. t \in Window /\ t.path = f
    BY <1>0, <2>5, LoadType, LoadLabel
  <2>7. Turn(s, v)
    BY <1>3 DEF SelectFile, Do
  <2> HIDE DEF t, v
  <2>8. Labelled(v)
    BY <2>4, <2>6 DEF Labelled, Window
  <2> QED
    BY <1>9, <2>1, <2>7, <2>8
<1>4. ASSUME NEW f \in Name, NewFile(s, f)
      PROVE  Labelled(win'[s])
  <2> DEFINE a  == AddFile(Create(w, f), f)
             sv == SaveContentToFile(a)
             at == [sv EXCEPT !.path = f]
             t  == SetText(at, m, {})
             v  == setNewFileName(w, m, f)
  <2>1. v \in Window
    BY <1>0, NewFileType
  <2>2. sv \in Window
    BY <1>0, CreateType, AddFileType, SaveType
  <2>3. v = w \/ v = [t EXCEPT !.label = f]
    BY DEF setNewFileName, loadNewFile
  <2> HIDE DEF sv
  <2>4. at \in Window /\ at.path = f
    BY <2>2 DEF Window
  <2> HIDE DEF at
  <2>5. t \in Window /\ t.path = f
    BY <1>0, <2>4, SetTextType, SetTextLabel DEF Content
  <2>6. Turn(s, v)
    BY <1>4 DEF NewFile, Do
  <2> HIDE DEF t, v
  <2>7. Labelled(v)
    BY <2>3, <2>5 DEF Labelled, Window
  <2> QED
    BY <1>9, <2>1, <2>6, <2>7
<1>5. ASSUME NEW f \in Name, RemoveFile(s, f)
      PROVE  Labelled(win'[s])
  <2>1. PICK exact \in {TRUE, ExactNames} :
          \E next \in Listed(w, f, exact) :
            Do(s, "remove", removeFile(w, m, f, exact, next))
    BY <1>5 DEF RemoveFile
  <2>2. exact \in BOOLEAN
    BY FilesAssumption
  <2>3. PICK next \in Listed(w, f, exact) :
          Do(s, "remove", removeFile(w, m, f, exact, next))
    BY <2>1
  <2>4. next \in Name
    BY <1>0, <2>2, ListedType
  <2> DEFINE d  == Deleted(w, f, exact)
             at == [d EXCEPT !.path = next]
             t  == LoadFileIntoIDE(at, m, next)
             e  == SetText(d, m, {})
             v  == removeFile(w, m, f, exact, next)
  <2>5. v \in Window
    BY <1>0, <2>2, <2>4, RemoveType
  <2>6. d \in Window /\ d.label = w.label /\ d.path = w.path
    <3> DEFINE files == w.files \ {f}
               saved == [w.saved EXCEPT ![f] = {}]
               tree  == IF exact THEN w.tree \ {f} ELSE w.tree
    <3>1. d \in {w, [w EXCEPT !.files = files, !.saved = saved,
                             !.tree = tree]}
      BY DEF Deleted
    <3>2. d \in Window
      BY <1>0, <2>2, DeletedType
    <3> HIDE DEF d, files, saved, tree
    <3> QED
      BY <1>0, <3>1, <3>2 DEF Window
  <2>7. \/ v = d
        \/ v = [t EXCEPT !.label = next]
        \/ v = [e EXCEPT !.label = NoName]
    BY DEF removeFile, Replaced
  <2> HIDE DEF d
  <2>8. at \in Window /\ at.path = next
    BY <2>4, <2>6 DEF Window
  <2> HIDE DEF at
  <2>9. t \in Window /\ t.path = next
    BY <1>0, <2>4, <2>8, LoadType, LoadLabel
  <2>10. e \in Window
    BY <1>0, <2>6, SetTextType DEF Content
  <2>11. Turn(s, v)
    BY <2>3 DEF Do
  <2> HIDE DEF t, e, v
  <2>12. Labelled(v)
    BY <2>6, <2>7, <2>9, <2>10 DEF Labelled, Window
  <2> QED
    BY <1>9, <2>5, <2>11, <2>12
<1>6. CASE CloseProgram(s)
  <2> DEFINE v == NewWindow(w.files, w.saved)
  <2>1. v \in Window
    BY <1>0, NewWindowType DEF Window
  <2>2. Labelled(v)
    BY DEF NewWindow, Labelled
  <2>3. Turn(s, v)
    BY <1>6 DEF CloseProgram, Do
  <2> HIDE DEF v
  <2> QED
    BY <1>9, <2>1, <2>2, <2>3
<1>7. CASE Type(s)
  <2> DEFINE x == [file |-> w.path, n |-> strokes + 1]
             v == Change(w, m, {}, {x})
  <2>1. w.path # NoName /\ strokes + 1 \in 1 .. MaxStrokes
    BY <1>7, WorkspaceAssumption DEF Type, Opened, TypeOK
  <2>2. {} \in Content /\ {x} \in Content
    BY <1>0, <2>1 DEF Window, Stroke, Content
  <2>3. Turn(s, v)
    BY <1>7 DEF Type
  <2> HIDE DEF x
  <2>4. v \in Window /\ v.label = w.label /\ v.path = w.path
    BY <1>0, <2>2, ChangeType, ChangeLabel, ZenonT(60)
  <2> HIDE DEF v
  <2> QED
    BY <1>9, <2>3, <2>4 DEF Labelled
<1> QED
  BY <1>1, <1>2, <1>3, <1>4, <1>5, <1>6, <1>7 DEF User

\* Before a program receives another one's files, the name above its text
\* is that of the file the text is saved to, whichever files cannot be read
\* or written at the time: for any number of files and operations.
THEOREM AloneLabelTells ==
    ASSUME Member \notin Site
    PROVE  Spec => []LabelTells
<1> DEFINE Inv == TypeOK /\ \A s \in Site : Labelled(win[s])
<1>1. Init => Inv
  BY InitType DEF Init, NewWindow, Labelled
<1>2. Inv /\ [Next]_vars => Inv'
  <2> SUFFICES ASSUME Inv, [Next]_vars PROVE Inv'
    OBVIOUS
  <2>1. TypeOK'
    BY FilesStep
  <2>2. \A s, t \in Site : s = t /\ s = Host
    BY FilesAssumption
  <2>3. CASE UNCHANGED vars
    BY <2>1, <2>3 DEF vars
  <2>4. ASSUME NEW s \in Site, User(s) PROVE Inv'
    BY <2>1, <2>2, <2>4, UserLabel
  <2>5. ASSUME NEW s \in Site, Collect(s) PROVE Inv'
    <3>1. PICK f \in win[s].open : win' = [win EXCEPT ![s].open = @ \ {f}]
      BY <2>5 DEF Collect
    <3>2. win'[s] = [win[s] EXCEPT !.open = @ \ {f}]
      BY <3>1 DEF TypeOK
    <3>3. win'[s].label = win[s].label /\ win'[s].path = win[s].path
      BY <3>2, StepWindow DEF Window
    <3> QED
      BY <2>1, <2>2, <3>3 DEF Labelled
  <2>6. CASE HostStarts
    <3>1. \/ win' = [win EXCEPT ![Host] = Crash(win[Host])]
          \/ win' = [win EXCEPT ![Host].started = TRUE]
      BY <2>6 DEF HostStarts
    <3>2. ASSUME NEW s \in Site
          PROVE  win'[s].label = win[s].label /\ win'[s].path = win[s].path
      <4>1. win[s] \in Window /\ s = Host
        BY <2>2, StepWindow
      <4>2. \/ win'[s] = [win[s] EXCEPT !.crashed = TRUE]
            \/ win'[s] = [win[s] EXCEPT !.started = TRUE]
        BY <3>1, <4>1 DEF Crash, TypeOK
      <4> QED
        BY <4>1, <4>2 DEF Window
    <3> QED
      BY <2>1, <3>2 DEF Labelled
  <2>7. ASSUME NEW s \in Site, Deliver(s) PROVE Inv'
    <3> DEFINE u == Head(mail[s])
               w == ApplyUpdate(win[s], FALSE, u)
    <3>1. win[s] \in Window /\ u \in Update /\ s = Host /\ Host # Member
      BY <2>2, <2>7, StepWindow DEF Deliver, TypeOK, Host, Member
    <3>2. w \in Window /\ w.label = win[s].label /\ w.path = win[s].path
      BY <3>1, ApplyUpdateLabel, ApplyUpdateType
    <3>3. [w EXCEPT !.out = <<>>].label = w.label
          /\ [w EXCEPT !.out = <<>>].path = w.path
      <4> DEFINE nothing == <<>>
      <4> HIDE DEF nothing, w
      <4>1. [w EXCEPT !.out = nothing].label = w.label
            /\ [w EXCEPT !.out = nothing].path = w.path
        BY <3>2 DEF Window
      <4> QED
        BY <4>1 DEF nothing
    <3>4. win'[s] = [w EXCEPT !.out = <<>>]
      BY <2>7, <3>1 DEF Deliver, TypeOK
    <3> HIDE DEF w
    <3> QED
      BY <2>1, <2>2, <3>2, <3>3, <3>4 DEF Labelled
  <2>8. ~ (MemberStarts \/ ClearOne \/ CreateOne \/ FillOne \/ AllReceived)
    BY DEF MemberStarts, ClearOne, CreateOne, FillOne, AllReceived, Receives
  <2> QED
    BY <2>3, <2>4, <2>5, <2>6, <2>7, <2>8 DEF Next, Session
<1>3. Inv => LabelTells
  BY DEF Labelled, LabelTells
<1> QED
  BY <1>1, <1>2, <1>3, PTL DEF Spec

-----------------------------------------------------------------------------
(* What arrives at the member.  Its folder is emptied, filled and shown by *)
(* one step after the other, in which the garbage collector and the host's *)
(* user go on; what makes ReceivedAsSent inductive is how far the two      *)
(* loops have come, that nobody replaces the parcel meanwhile, and that a  *)
(* file whose stream is still open is empty, so that what could not be     *)
(* removed or written is not mistaken for a text.                          *)

\* Everything in a window but its text, its tokens and what it has to tell.
SameButText(v, w) ==
    /\ v.files = w.files /\ v.saved = w.saved /\ v.open = w.open
    /\ v.path = w.path /\ v.updating = w.updating /\ v.started = w.started

\* Nobody has written to a file that was created and not yet closed.
OpenEmpty(w) == \A f \in w.open : w.saved[f] = {}

\* A window outside a session owes no token to anybody, and tells nothing.
Silent(w) == w.tokens <= 0 /\ w.out = <<>> /\ ~w.started

\* What v keeps of w.
Passes(v, w) == /\ OpenEmpty(w) => OpenEmpty(v)
                /\ Silent(w) => Silent(v)

\* q is what is left of p behind its first n files.
Remainder(p, q, n) == /\ Len(q) + n = Len(p)
                      /\ \A i \in 1 .. Len(q) : q[i] = p[n + i]

\* The text of the i-th file is written.
Wrote(p, w, i) == w.saved[p[i].file] = p[i].text

\* w shows the first of the first n files that was written.
Shows(p, w, n) ==
    \E i \in 1 .. n : /\ Wrote(p, w, i)
                      /\ \A j \in 1 .. i - 1 : w.saved[p[j].file] = {}
                      /\ w.path = p[i].file /\ w.box = p[i].text

\* Every file with a text is one still to be removed or one that was sent.
NothingElse(p, old, w, n) ==
    \A f \in w.files : \/ w.saved[f] = {}
                       \/ f \in old
                       \/ \E i \in 1 .. n : f = p[i].file /\ Wrote(p, w, i)

\* The first files of the parcel p are made, and the turn of the first of
\* those to be filled has come.
Arrived(p, r, w, made, filled) ==
    /\ Remainder(p, r.create, made)
    /\ Remainder(p, r.fill, filled)
    /\ r.old # {} => made = 0
    /\ made < Len(p) => filled = 0
    /\ \A i \in 1 .. made : p[i].file \in w.files
    /\ NothingElse(p, r.old, w, filled)
    /\ r.loaded => Shows(p, w, filled)
    /\ ~r.loaded => \A i \in 1 .. filled : w.saved[p[i].file] = {}

Arriving == \E made, filled \in 0 .. Len(parcel) :
                Arrived(parcel, receiving, win[Member], made, filled)

\* A file is sent once, and with "0" for no text.
OneEach == /\ \A i, j \in DOMAIN parcel :
                  parcel[i].file = parcel[j].file => i = j
           /\ \A i \in DOMAIN parcel : parcel[i].text # {}

ArrivingInv ==
    /\ OneEach
    /\ \A s \in Site : OpenEmpty(win[s])
    /\ Member \in Site /\ win[Member].updating =>
           /\ Host \in Site /\ win[Host].started
           /\ win[Member].crashed \/ Arriving

\* A change of the text changes no file.
LEMMA ChangeText ==
    ASSUME NEW w \in Window, NEW m \in BOOLEAN,
           NEW del \in Content, NEW add \in Content
    PROVE  SameButText(Change(w, m, del, add), w)
<1> DEFINE told == IF add = {} THEN w.out
                   ELSE Append(w.out, [del |-> del, add |-> add])
           new  == (w.box \ del) \cup add
           kept == IF m THEN w.box ELSE new
<1>1. Change(w, m, del, add) \in
        {[w EXCEPT !.out = told, !.box = kept],
         [w EXCEPT !.box = new, !.tokens = @ - 1]}
  BY DEF Change
<1> HIDE DEF told, new, kept
<1> QED
  BY <1>1 DEF Window, SameButText

\* Nor does another text in the box.
LEMMA SetTextText ==
    ASSUME NEW w \in Window, NEW m \in BOOLEAN, NEW c \in Content
    PROVE  SameButText(SetText(w, m, c), w)
<1>1. w.box \in Content
  BY DEF Window
<1> QED
  BY <1>1, ChangeText DEF SetText, SameButText

\* Nor an update of the other site.
LEMMA ApplyUpdateText ==
    ASSUME NEW w \in Window, NEW m \in BOOLEAN, NEW u \in Update
    PROVE  SameButText(ApplyUpdate(w, m, u), w)
<1>0. u.del \in Content /\ u.add \in Content /\ {} \in Content
  BY DEF Update, Content
<1> DEFINE one == [w EXCEPT !.tokens = @ + 1]
           two == [w EXCEPT !.tokens = @ + 2]
           t   == SetText(two, m, w.box \ u.del)
<1>1. /\ one \in Window /\ SameButText(one, w)
      /\ two \in Window /\ SameButText(two, w)
  <2>1. w.tokens + 1 \in Int /\ w.tokens + 2 \in Int
    BY DEF Window
  <2> QED
    BY <2>1 DEF Window, SameButText
<1>2. w.box \ u.del \in Content
  BY DEF Window, Content
<1> HIDE DEF one, two
<1>3. t \in Window /\ SameButText(t, two)
  BY <1>1, <1>2, SetTextType, SetTextText
<1>4. ApplyUpdate(w, m, u) \in
        {Change(one, m, {}, u.add), Change(t, m, {}, u.add)}
  BY DEF ApplyUpdate, one, two
<1> HIDE DEF t
<1>5. /\ SameButText(Change(one, m, {}, u.add), one)
      /\ SameButText(Change(t, m, {}, u.add), t)
  BY <1>0, <1>1, <1>3, ChangeText
<1> QED
  BY <1>1, <1>3, <1>4, <1>5 DEF SameButText

\* A loaded file changes the text and the path.
LEMMA LoadText ==
    ASSUME NEW w \in Window, NEW m \in BOOLEAN, NEW f \in Name
    PROVE  LET v == LoadFileIntoIDE(w, m, f)
           IN  /\ v.files = w.files /\ v.saved = w.saved /\ v.open = w.open
               /\ v.updating = w.updating /\ v.started = w.started
<1> DEFINE t == SetText(w, m, w.saved[f])
<1>0. w.saved[f] \in Content
  BY DEF Window
<1>1. t \in Window /\ SameButText(t, w)
  BY <1>0, SetTextType, SetTextText
<1>2. LoadFileIntoIDE(w, m, f) \in {w, [t EXCEPT !.path = f]}
  BY DEF LoadFileIntoIDE
<1> HIDE DEF t
<1> QED
  BY <1>1, <1>2 DEF Window, SameButText

\* Saving goes on too.
LEMMA SaveText ==
    ASSUME NEW w \in Window
    PROVE  /\ SaveContentToFile(w).updating = w.updating
           /\ SaveContentToFile(w).started = w.started
BY DEF SaveContentToFile, Window
\* A change of the text outside a session is not told, and uses up a token.
LEMMA ChangePasses ==
    ASSUME NEW w \in Window, NEW m \in BOOLEAN,
           NEW del \in Content, NEW add \in Content
    PROVE  Passes(Change(w, m, del, add), w)
<1> DEFINE v == Change(w, m, del, add)
           new == (w.box \ del) \cup add
           less == w.tokens - 1
<1>1. SameButText(v, w)
  BY ChangeText
<1>2. ASSUME Silent(w) PROVE Silent(v)
  <2>1. v = [w EXCEPT !.box = new, !.tokens = less]
    BY <1>2 DEF Change, Silent
  <2>2. less \in Int /\ (w.tokens <= 0 => less <= 0)
    BY DEF Window
  <2> HIDE DEF v, new, less
  <2>3. v.tokens = less /\ v.out = w.out /\ v.started = w.started
    BY <2>1 DEF Window
  <2> QED
    BY <1>2, <2>2, <2>3 DEF Silent
<1> QED
  BY <1>1, <1>2 DEF Passes, OpenEmpty, SameButText

\* Of two windows that differ in what is shown only, one passes for the other.
LEMMA PassesAlike ==
    ASSUME NEW v \in Window, NEW w \in Window,
           v.open = w.open, v.saved = w.saved, v.tokens = w.tokens,
           v.out = w.out, v.started = w.started
    PROVE  Passes(v, w)
BY DEF Passes, OpenEmpty, Silent

LEMMA PassesOn ==
    ASSUME NEW u \in Window, NEW v \in Window, NEW w \in Window,
           Passes(u, v), Passes(v, w)
    PROVE  Passes(u, w)
BY DEF Passes

LEMMA SetTextPasses ==
    ASSUME NEW w \in Window, NEW m \in BOOLEAN, NEW c \in Content
    PROVE  Passes(SetText(w, m, c), w)
<1>1. w.box \in Content
  BY DEF Window
<1>2. Passes(Change(w, m, w.box, c), w)
  BY <1>1, ChangePasses
<1>3. Passes(w, w)
  BY DEF Passes
<1> QED
  BY <1>2, <1>3 DEF SetText

\* A file that is open is not saved to.
LEMMA SavePasses ==
    ASSUME NEW w \in Window
    PROVE  Passes(SaveContentToFile(w), w)
<1> DEFINE v == SaveContentToFile(w)
           files == w.files \cup {w.path}
           saved == [w.saved EXCEPT ![w.path] = w.box]
<1>1. CASE v = w
  BY <1>1 DEF Passes
<1>2. CASE v # w
  <2>1. v = [w EXCEPT !.files = files, !.saved = saved] /\ w.path \notin w.open
    BY <1>2 DEF SaveContentToFile
  <2>2. \A f \in w.open : saved[f] = w.saved[f]
    BY <2>1 DEF Window
  <2> HIDE DEF v, files, saved
  <2>3. /\ v.saved = saved /\ v.open = w.open /\ v.tokens = w.tokens
        /\ v.out = w.out /\ v.started = w.started
    BY <2>1 DEF Window
  <2>4. Passes(v, w)
    BY <2>2, <2>3 DEF Passes, OpenEmpty, Silent
  <2> QED
    BY <2>4 DEF v
<1> QED
  BY <1>1, <1>2

LEMMA LoadPasses ==
    ASSUME NEW w \in Window, NEW m \in BOOLEAN, NEW f \in Name
    PROVE  Passes(LoadFileIntoIDE(w, m, f), w)
<1> DEFINE t == SetText(w, m, w.saved[f])
           v == LoadFileIntoIDE(w, m, f)
<1>0. w.saved[f] \in Content
  BY DEF Window
<1>1. t \in Window /\ Passes(t, w)
  BY <1>0, SetTextType, SetTextPasses
<1>2. v = w \/ v = [t EXCEPT !.path = f]
  BY DEF LoadFileIntoIDE
<1>3. v \in Window
  BY LoadType
<1>4. Passes(w, w)
  BY DEF Passes
<1> HIDE DEF t, v
<1>5. ASSUME v = [t EXCEPT !.path = f] PROVE Passes(v, t)
  <2>1. /\ v.open = t.open /\ v.saved = t.saved /\ v.tokens = t.tokens
        /\ v.out = t.out /\ v.started = t.started
    BY <1>1, <1>5 DEF Window
  <2> QED
    BY <1>1, <1>3, <2>1, PassesAlike
<1>6. Passes(v, w)
  BY <1>1, <1>2, <1>3, <1>4, <1>5, PassesOn
<1> QED
  BY <1>6 DEF v

\* A created file is open, and empty.
LEMMA CreatePasses ==
    ASSUME NEW w \in Window, NEW f \in Name
    PROVE  LET v == Create(w, f)
           IN  /\ Passes(v, w) /\ v.files = w.files \cup {f}
               /\ v.saved = [w.saved EXCEPT ![f] = {}]
               /\ v.updating = w.updating /\ v.started = w.started
               /\ v.path = w.path /\ v.box = w.box /\ v.crashed = w.crashed
<1> DEFINE v == Create(w, f)
           files == w.files \cup {f}
           saved == [w.saved EXCEPT ![f] = {}]
           open  == w.open \cup {f}
<1>1. v = [w EXCEPT !.files = files, !.saved = saved, !.open = open]
  BY DEF Create
<1>2. \A g \in open : saved[g] = {} \/ (g \in w.open /\ saved[g] = w.saved[g])
  <2>1. w.saved \in [Name -> Content] /\ w.open \subseteq Name
    BY DEF Window
  <2>2. saved[f] = {} /\ \A g \in Name \ {f} : saved[g] = w.saved[g]
    BY <2>1
  <2> HIDE DEF saved
  <2>3. ASSUME NEW g \in open
        PROVE  saved[g] = {} \/ (g \in w.open /\ saved[g] = w.saved[g])
    <3>1. CASE g = f
      BY <2>2, <3>1
    <3>2. CASE g # f
      <4>1. g \in w.open /\ g \in Name \ {f}
        BY <2>1, <2>3, <3>2
      <4> QED
        BY <2>2, <4>1
    <3> QED
      BY <3>1, <3>2
  <2> QED
    BY <2>3
<1> HIDE DEF v, files, saved, open
<1>3. /\ v.files = files /\ v.saved = saved /\ v.open = open
      /\ v.tokens = w.tokens /\ v.out = w.out
      /\ v.updating = w.updating /\ v.started = w.started
      /\ v.path = w.path /\ v.box = w.box /\ v.crashed = w.crashed
  BY <1>1 DEF Window
<1>4. Passes(v, w)
  BY <1>2, <1>3 DEF Passes, OpenEmpty, Silent
<1> QED
  BY <1>3, <1>4 DEF v, files, saved

\* Its name is shown.
LEMMA AddFilePasses ==
    ASSUME NEW w \in Window, NEW f \in Name
    PROVE  LET v == AddFile(w, f)
           IN  /\ Passes(v, w) /\ v.files = w.files /\ v.saved = w.saved
               /\ v.updating = w.updating /\ v.started = w.started
               /\ v.path = w.path /\ v.box = w.box /\ v.crashed = w.crashed
<1> DEFINE v == AddFile(w, f)
           tree == w.tree \cup {f}
<1>1. v = [w EXCEPT !.tree = tree, !.label = f] /\ v \in Window
  BY AddFileType DEF AddFile
<1> HIDE DEF v, tree
<1>2. /\ v.files = w.files /\ v.saved = w.saved /\ v.open = w.open
      /\ v.tokens = w.tokens /\ v.out = w.out
      /\ v.updating = w.updating /\ v.started = w.started
      /\ v.path = w.path /\ v.box = w.box /\ v.crashed = w.crashed
  BY <1>1 DEF Window
<1>3. Passes(v, w)
  BY <1>1, <1>2, PassesAlike
<1> QED
  BY <1>2, <1>3 DEF v

\* A removed file is gone unless it is open, and the window goes on.
LEMMA DeletedText ==
    ASSUME NEW w \in Window, NEW f \in Name, NEW exact \in BOOLEAN
    PROVE  LET v == Deleted(w, f, exact)
           IN  /\ Passes(v, w) /\ v.files \subseteq w.files
               /\ \A g \in Name \ {f} : v.saved[g] = w.saved[g]
               /\ f \in v.files => f \in w.open /\ v.saved = w.saved
               /\ v.updating = w.updating /\ v.started = w.started
<1> DEFINE v == Deleted(w, f, exact)
           files == w.files \ {f}
           saved == [w.saved EXCEPT ![f] = {}]
           tree  == IF exact THEN w.tree \ {f} ELSE w.tree
<1>1. CASE v = w
  <2>1. f \in w.files => f \in w.open
    <3>1. ASSUME f \in w.files, f \notin w.open PROVE FALSE
      <4>1. v.files = w.files \ {f}
        BY <3>1 DEF Deleted, Window
      <4> QED
        BY <1>1, <3>1, <4>1
    <3> QED
      BY <3>1
  <2> QED
    BY <1>1, <2>1 DEF Passes
<1>2. CASE v # w
  <2>1. v = [w EXCEPT !.files = files, !.saved = saved, !.tree = tree]
        /\ f \notin w.open
    BY <1>2 DEF Deleted
  <2>2. /\ \A g \in w.open : saved[g] = w.saved[g]
        /\ \A g \in Name \ {f} : saved[g] = w.saved[g]
    BY <2>1 DEF Window
  <2> HIDE DEF v, saved, tree
  <2>3. /\ v.files = files /\ v.saved = saved /\ v.open = w.open
        /\ v.tokens = w.tokens /\ v.out = w.out
        /\ v.updating = w.updating /\ v.started = w.started
    BY <2>1 DEF Window
  <2>4. Passes(v, w)
    BY <2>2, <2>3 DEF Passes, OpenEmpty, Silent
  <2> QED
    BY <2>2, <2>3, <2>4 DEF v
<1> QED
  BY <1>1, <1>2

LEMMA RemoveText ==
    ASSUME NEW w \in Window, NEW m \in BOOLEAN, NEW f \in Name,
           NEW exact \in BOOLEAN, NEW next \in Name
    PROVE  LET v == removeFile(w, m, f, exact, next)
           IN  /\ Passes(v, w) /\ v.files \subseteq w.files
               /\ \A g \in Name \ {f} : v.saved[g] = w.saved[g]
               /\ f \in v.files => f \in w.open /\ v.saved = w.saved
               /\ v.updating = w.updating /\ v.started = w.started
<1> DEFINE d  == Deleted(w, f, exact)
           at == [d EXCEPT !.path = next]
           t  == LoadFileIntoIDE(at, m, next)
           e  == SetText(d, m, {})
           v  == removeFile(w, m, f, exact, next)
           Like(x) == /\ x.files = d.files /\ x.saved = d.saved
                      /\ x.updating = d.updating /\ x.started = d.started
<1>1. /\ d \in Window /\ Passes(d, w) /\ d.files \subseteq w.files
      /\ \A g \in Name \ {f} : d.saved[g] = w.saved[g]
      /\ f \in d.files => f \in w.open /\ d.saved = w.saved
      /\ d.updating = w.updating /\ d.started = w.started
  BY DeletedType, DeletedText
<1>2. v = d \/ v = [t EXCEPT !.label = next] \/ v = [e EXCEPT !.label = NoName]
  BY DEF removeFile, Replaced
<1>0. v \in Window
  BY RemoveType
<1> HIDE DEF d
<1>3. at \in Window /\ Like(at) /\ Passes(at, d)
  <2>1. /\ at \in Window /\ Like(at) /\ at.open = d.open
        /\ at.tokens = d.tokens /\ at.out = d.out
    BY <1>1 DEF Window
  <2> HIDE DEF at
  <2> QED
    BY <1>1, <2>1, PassesAlike
<1> HIDE DEF at
<1>4. t \in Window /\ Like(t) /\ Passes(t, d)
  BY <1>1, <1>3, LoadType, LoadText, LoadPasses, PassesOn
<1>5. e \in Window /\ Like(e) /\ Passes(e, d)
  <2>1. {} \in Content
    BY DEF Content
  <2> QED
    BY <1>1, <2>1, SetTextType, SetTextText, SetTextPasses DEF SameButText
<1> HIDE DEF t, e, v
<1>6. ASSUME NEW x \in Window, Like(x), Passes(x, d),
             NEW name \in Name \cup {NoName}, v = [x EXCEPT !.label = name]
      PROVE  Like(v) /\ Passes(v, d)
  <2>1. /\ v.files = x.files /\ v.saved = x.saved /\ v.open = x.open
        /\ v.tokens = x.tokens /\ v.out = x.out
        /\ v.updating = x.updating /\ v.started = x.started
    BY <1>6 DEF Window
  <2>2. Passes(v, x)
    BY <1>0, <2>1, PassesAlike
  <2> QED
    BY <1>0, <1>1, <1>6, <2>1, <2>2, PassesOn
<1>7. Like(v) /\ Passes(v, d)
  <2>1. CASE v = d
    BY <2>1 DEF Passes
  <2>2. CASE v # d
    BY <1>2, <1>4, <1>5, <1>6, <2>2
  <2> QED
    BY <2>1, <2>2
<1>8. Passes(v, w)
  BY <1>0, <1>1, <1>7, PassesOn
<1> QED
  BY <1>1, <1>7, <1>8 DEF v

\* A turn leaves the window as it is made, and the other one alone.
LEMMA TurnMakes ==
    ASSUME TypeOK, NEW s \in Site, NEW w \in Window, Turn(s, w)
    PROVE  /\ SameButText(win'[s], w) /\ win'[s].box = w.box
           /\ win'[s].crashed = w.crashed
           /\ win'[s].tokens = w.tokens /\ win'[s].out = <<>>
           /\ \A t \in Site \ {s} : win'[t] = win[t]
           /\ w.out = <<>> => mail' = mail
<1> DEFINE nothing == <<>>
           told == [w EXCEPT !.out = nothing]
<1>1. win' = [win EXCEPT ![s] = told]
  BY DEF Turn
<1>3. ASSUME w.out = <<>> PROVE mail' = mail
  <2>1. Peer(s) \in {Host, Member}
    BY DEF Peer
  <2>2. mail[Peer(s)] \in Seq(Update)
    BY <2>1 DEF TypeOK
  <2>3. mail' = [mail EXCEPT ![Peer(s)] = mail[Peer(s)] \o <<>>]
    BY <1>3 DEF Turn
  <2>4. mail[Peer(s)] \o <<>> = mail[Peer(s)]
    BY <2>2
  <2> QED
    BY <2>1, <2>3, <2>4 DEF TypeOK
<1> HIDE DEF nothing
<1>2. /\ SameButText(told, w) /\ told.box = w.box /\ told.crashed = w.crashed
      /\ told.tokens = w.tokens /\ told.out = nothing
  BY DEF Window, SameButText
<1> HIDE DEF told
<1>4. /\ win'[s] = told /\ \A t \in Site \ {s} : win'[t] = win[t]
  BY <1>1 DEF TypeOK
<1> QED
  BY <1>2, <1>3, <1>4 DEF nothing

\* A turn passes on what its window does.
LEMMA TurnPasses ==
    ASSUME TypeOK, NEW s \in Site, NEW w \in Window, Turn(s, w),
           Passes(w, win[s])
    PROVE  /\ Passes(win'[s], win[s])
           /\ Silent(win[s]) => mail' = mail
<1>1. /\ SameButText(win'[s], w) /\ win'[s].tokens = w.tokens
      /\ win'[s].out = <<>> /\ (w.out = <<>> => mail' = mail)
  BY TurnMakes
<1> QED
  BY <1>1 DEF Passes, OpenEmpty, Silent, SameButText

\* No user begins or ends the receiving of files, nor a session; nor writes to
\* a file that is open, nor tells anybody anything outside a session.
LEMMA UserSteady ==
    ASSUME TypeOK, NEW s \in Site, User(s)
    PROVE  /\ ~win[s].updating /\ ~win'[s].updating
           /\ win'[s].started = win[s].started
           /\ \A t \in Site \ {s} : win'[t] = win[t]
           /\ Passes(win'[s], win[s])
           /\ Silent(win[s]) => mail' = mail
<1> DEFINE w == win[s]
           m == s = Member
           Steady(v) == ~v.updating /\ v.started = w.started /\ Passes(v, w)
           Done == /\ ~win'[s].updating /\ win'[s].started = w.started
                   /\ \A t \in Site \ {s} : win'[t] = win[t]
                   /\ Passes(win'[s], w)
                   /\ Silent(w) => mail' = mail
<1>0. w \in Window /\ m \in BOOLEAN
  BY StepWindow
<1>i. ~w.updating
  BY DEF User, OpenProject, Type, SaveFiles, CloseProgram, SelectFile,
         NewFile, RemoveFile, Do, Idle
<1>9. ASSUME NEW v \in Window, Turn(s, v), Steady(v)
      PROVE  Done
  <2>1. /\ SameButText(win'[s], v) /\ \A t \in Site \ {s} : win'[t] = win[t]
    BY <1>9, TurnMakes
  <2>2. Passes(win'[s], w) /\ (Silent(w) => mail' = mail)
    BY <1>9, TurnPasses
  <2> QED
    BY <1>9, <2>1, <2>2 DEF SameButText
<1>h. ASSUME NEW a \in Window, Steady(a), NEW v \in Window, NEW f \in Name,
             v = [a EXCEPT !.path = f]
      PROVE  Steady(v)
  <2>1. /\ v.open = a.open /\ v.saved = a.saved /\ v.tokens = a.tokens
        /\ v.out = a.out /\ v.started = a.started /\ v.updating = a.updating
    BY <1>h DEF Window
  <2> QED
    BY <1>0, <1>h, <2>1, PassesAlike, PassesOn
<1>1. CASE OpenProject(s)
  <2> DEFINE f == Project[s]
             made == IF f \in w.files THEN w ELSE Create(w, f)
             a == AddFile(made, f)
             v == OpenedProject(w, f)
  <2>1. f \in Name
    BY StepWindow, FilesAssumption
  <2>4. Turn(s, v)
    BY <1>1 DEF OpenProject
  <2>5. v = [a EXCEPT !.path = f]
    BY DEF OpenedProject
  <2> HIDE DEF w, f
  <2>2. made \in Window /\ Steady(made)
    <3>1. Passes(w, w)
      BY DEF Passes
    <3> QED
      BY <1>0, <1>i, <2>1, <3>1, CreateType, CreatePasses
  <2> HIDE DEF made
  <2>3. a \in Window /\ Steady(a)
    BY <1>0, <2>1, <2>2, AddFileType, AddFilePasses, PassesOn
  <2> HIDE DEF a
  <2>6. v \in Window
    BY <1>0, <2>1, OpenedProjectType
  <2> HIDE DEF v
  <2>7. Steady(v)
    BY <1>h, <2>1, <2>3, <2>5, <2>6
  <2> QED
    BY <1>9, <1>i, <2>4, <2>6, <2>7 DEF w
<1>2. CASE SaveFiles(s)
  <2> DEFINE v == SaveContentToFile(w)
  <2>1. v \in Window /\ Steady(v)
    BY <1>0, <1>i, SaveType, SaveText, SavePasses
  <2>2. Turn(s, v)
    BY <1>2 DEF SaveFiles, Do
  <2> HIDE DEF v
  <2> QED
    BY <1>9, <1>i, <2>1, <2>2
<1>3. ASSUME NEW f \in Name, SelectFile(s, f)
      PROVE  Done
  <2> DEFINE u  == [w EXCEPT !.updating = TRUE]
             sv == SaveContentToFile(u)
             at == [sv EXCEPT !.path = f]
             t  == LoadFileIntoIDE(at, m, f)
             v  == switchFile(w, m, f)
             Goes(x) == x.started = w.started /\ Passes(x, w)
  <2>1. v \in Window
    BY <1>0, SwitchType
  <2>7. Turn(s, v)
    BY <1>3 DEF SelectFile, Do
  <2>3. v = [t EXCEPT !.label = f, !.updating = FALSE]
    BY DEF switchFile
  <2> HIDE DEF w, v
  <2>2. u \in Window /\ Goes(u)
    <3>1. /\ u \in Window /\ u.open = w.open /\ u.saved = w.saved
          /\ u.tokens = w.tokens /\ u.out = w.out /\ u.started = w.started
      BY <1>0 DEF Window
    <3> HIDE DEF u
    <3> QED
      BY <1>0, <3>1, PassesAlike
  <2> HIDE DEF u
  <2>4. sv \in Window /\ Goes(sv)
    BY <1>0, <2>2, SaveType, SaveText, SavePasses, PassesOn
  <2> HIDE DEF sv
  <2>5. at \in Window /\ Goes(at)
    <3>1. /\ at \in Window /\ at.open = sv.open /\ at.saved = sv.saved
          /\ at.tokens = sv.tokens /\ at.out = sv.out
          /\ at.started = sv.started
      BY <2>4 DEF Window
    <3> HIDE DEF at
    <3> QED
      BY <1>0, <2>4, <3>1, PassesAlike, PassesOn
  <2> HIDE DEF at
  <2>6. t \in Window /\ Goes(t)
    <3>1. t \in Window /\ t.started = at.started /\ Passes(t, at)
      BY <1>0, <2>5, LoadType, LoadText, LoadPasses
    <3> QED
      BY <1>0, <2>5, <3>1, PassesOn
  <2> HIDE DEF t
  <2>8. Steady(v)
    <3>1. /\ v.open = t.open /\ v.saved = t.saved /\ v.tokens = t.tokens
          /\ v.out = t.out /\ v.started = t.started /\ ~v.updating
      BY <2>3, <2>6 DEF Window
    <3> QED
      BY <1>0, <2>1, <2>6, <3>1, PassesAlike, PassesOn
  <2> QED
    BY <1>9, <2>1, <2>7, <2>8 DEF w
<1>4. ASSUME NEW f \in Name, NewFile(s, f)
      PROVE  Done
  <2> DEFINE k  == Create(w, f)
             a  == AddFile(k, f)
             sv == SaveContentToFile(a)
             at == [sv EXCEPT !.path = f]
             t  == SetText(at, m, {})
             v  == setNewFileName(w, m, f)
  <2>1. v \in Window
    BY <1>0, NewFileType
  <2>7. Turn(s, v)
    BY <1>4 DEF NewFile, Do
  <2>3. v = w \/ v = [t EXCEPT !.label = f]
    BY DEF setNewFileName, loadNewFile
  <2> HIDE DEF w, v
  <2>9. k \in Window /\ Steady(k)
    BY <1>0, <1>i, CreateType, CreatePasses
  <2> HIDE DEF k
  <2>2. a \in Window /\ Steady(a)
    BY <1>0, <2>9, AddFileType, AddFilePasses, PassesOn
  <2> HIDE DEF a
  <2>4. sv \in Window /\ Steady(sv)
    BY <1>0, <2>2, SaveType, SaveText, SavePasses, PassesOn
  <2> HIDE DEF sv
  <2>5. at \in Window /\ Steady(at)
    <3>1. /\ at \in Window /\ at.open = sv.open /\ at.saved = sv.saved
          /\ at.tokens = sv.tokens /\ at.out = sv.out
          /\ at.started = sv.started /\ at.updating = sv.updating
      BY <2>4 DEF Window
    <3> HIDE DEF at
    <3> QED
      BY <1>0, <2>4, <3>1, PassesAlike, PassesOn
  <2> HIDE DEF at
  <2>6. t \in Window /\ Steady(t)
    <3>1. {} \in Content
      BY DEF Content
    <3>2. t \in Window /\ SameButText(t, at) /\ Passes(t, at)
      BY <1>0, <2>5, <3>1, SetTextType, SetTextText, SetTextPasses
    <3>3. Passes(t, w)
      BY <1>0, <2>5, <3>2, PassesOn
    <3> QED
      BY <2>5, <3>2, <3>3 DEF SameButText
  <2> HIDE DEF t
  <2>8. Steady(v)
    <3>1. CASE v = w
      BY <1>i, <3>1 DEF Passes
    <3>2. CASE v # w
      <4>1. /\ v.open = t.open /\ v.saved = t.saved /\ v.tokens = t.tokens
            /\ v.out = t.out /\ v.started = t.started
            /\ v.updating = t.updating
        BY <2>3, <2>6, <3>2 DEF Window
      <4> QED
        BY <1>0, <2>1, <2>6, <4>1, PassesAlike, PassesOn
    <3> QED
      BY <3>1, <3>2
  <2> QED
    BY <1>9, <2>1, <2>7, <2>8 DEF w
<1>5. ASSUME NEW f \in Name, RemoveFile(s, f)
      PROVE  Done
  <2>1. PICK exact \in {TRUE, ExactNames} :
          \E next \in Listed(w, f, exact) :
            Do(s, "remove", removeFile(w, m, f, exact, next))
    BY <1>5 DEF RemoveFile
  <2>2. exact \in BOOLEAN
    BY FilesAssumption
  <2>3. PICK next \in Listed(w, f, exact) :
          Do(s, "remove", removeFile(w, m, f, exact, next))
    BY <2>1
  <2>4. next \in Name
    BY <1>0, <2>2, ListedType
  <2> DEFINE v == removeFile(w, m, f, exact, next)
  <2>5. v \in Window
    BY <1>0, <2>2, <2>4, RemoveType
  <2>6. Steady(v)
    <3> HIDE DEF w, m
    <3> QED
      BY <1>0, <1>i, <2>2, <2>4, RemoveText
  <2>7. Turn(s, v)
    BY <2>3 DEF Do
  <2> HIDE DEF v
  <2> QED
    BY <1>9, <2>5, <2>6, <2>7
<1>6. CASE CloseProgram(s)
  <2> DEFINE v == NewWindow(w.files, w.saved)
  <2>1. v \in Window
    BY <1>0, NewWindowType DEF Window
  <2>2. ~w.started
    BY <1>6, FilesAssumption DEF CloseProgram, Do
  <2>3. Steady(v)
    <3>1. w.started = FALSE
      BY <1>0, <2>2 DEF Window
    <3>2. /\ v.updating = FALSE /\ v.started = FALSE /\ v.open = {}
          /\ v.tokens = 0 /\ v.out = <<>>
      BY DEF NewWindow
    <3> HIDE DEF v
    <3>3. Passes(v, w)
      BY <3>2 DEF Passes, OpenEmpty, Silent
    <3> QED
      BY <3>1, <3>2, <3>3
  <2>4. Turn(s, v)
    BY <1>6 DEF CloseProgram, Do
  <2> HIDE DEF v
  <2> QED
    BY <1>9, <1>i, <2>1, <2>3, <2>4
<1>7. CASE Type(s)
  <2> DEFINE x == [file |-> w.path, n |-> strokes + 1]
             v == Change(w, m, {}, {x})
  <2>1. w.path # NoName /\ strokes + 1 \in 1 .. MaxStrokes
    BY <1>7, WorkspaceAssumption DEF Type, Opened, TypeOK
  <2>2. {} \in Content /\ {x} \in Content
    BY <1>0, <2>1 DEF Window, Stroke, Content
  <2>3. Turn(s, v)
    BY <1>7 DEF Type
  <2> HIDE DEF x, w, m
  <2>4. v \in Window /\ SameButText(v, w) /\ Passes(v, w)
    BY <1>0, <2>2, ChangeType, ChangeText, ChangePasses, ZenonT(60)
  <2> HIDE DEF v
  <2> QED
    BY <1>9, <1>i, <2>3, <2>4 DEF SameButText, w
<1> HIDE DEF m
<1> QED
  BY <1>1, <1>2, <1>3, <1>4, <1>5, <1>6, <1>7, <1>i DEF User

\* What is left behind its head is left one later.
LEMMA RemainderTail ==
    ASSUME NEW p \in Seq(Entry), NEW q \in Seq(Entry), q # <<>>,
           NEW n \in Nat, Remainder(p, q, n)
    PROVE  /\ Remainder(p, Tail(q), n + 1) /\ Head(q) = p[n + 1]
           /\ n + 1 \in DOMAIN p
<1>1. /\ Len(q) \in Nat \ {0} /\ Len(Tail(q)) = Len(q) - 1 /\ Head(q) = q[1]
      /\ \A i \in 1 .. Len(q) - 1 : Tail(q)[i] = q[i + 1]
      /\ Len(p) \in Nat /\ DOMAIN p = 1 .. Len(p)
  OBVIOUS
<1>2. Head(q) = p[n + 1]
  BY <1>1 DEF Remainder
<1>3. ASSUME NEW i \in 1 .. Len(q) - 1 PROVE Tail(q)[i] = p[n + 1 + i]
  <2>1. i + 1 \in 1 .. Len(q) /\ n + (i + 1) = n + 1 + i
    BY <1>1
  <2> QED
    BY <1>1, <2>1 DEF Remainder
<1> QED
  BY <1>1, <1>2, <1>3 DEF Remainder
\* How far the loops are shows in the files, the path and the text only.
LEMMA ArrivedAlike ==
    ASSUME NEW p, NEW r, NEW v, NEW w, NEW made, NEW filled,
           v.files = w.files, v.saved = w.saved,
           v.path = w.path, v.box = w.box,
           Arrived(p, r, w, made, filled)
    PROVE  Arrived(p, r, v, made, filled)
<1>1. \A i : Wrote(p, v, i) <=> Wrote(p, w, i)
  BY DEF Wrote
<1>2. Shows(p, w, filled) => Shows(p, v, filled)
  BY <1>1 DEF Shows
<1>3. NothingElse(p, r.old, w, filled) => NothingElse(p, r.old, v, filled)
  BY <1>1 DEF NothingElse
<1> QED
  BY <1>2, <1>3 DEF Arrived

\* A step that leaves the parcel and what the member has of it.
LEMMA ArrivingStays ==
    ASSUME TypeOK, ArrivingInv,
           UNCHANGED <<parcel, receiving>>,
           \A s \in Site : OpenEmpty(win'[s]),
           Host \in Site /\ win[Host].started => win'[Host].started,
           Member \in Site =>
               \/ ~win'[Member].updating
               \/ /\ win'[Member].updating = win[Member].updating
                  /\ win'[Member].files = win[Member].files
                  /\ win'[Member].saved = win[Member].saved
                  /\ win'[Member].path = win[Member].path
                  /\ win'[Member].box = win[Member].box
                  /\ win'[Member].crashed = win[Member].crashed
    PROVE  ArrivingInv'
<1>1. OneEach'
  BY DEF ArrivingInv, OneEach
<1>2. ASSUME Member \in Site, win'[Member].updating
      PROVE  /\ Host \in Site /\ win'[Host].started
             /\ win'[Member].crashed \/ Arriving'
  <2>1. /\ win[Member].updating /\ Host \in Site /\ win[Host].started
        /\ win[Member].crashed \/ Arriving
    BY <1>2 DEF ArrivingInv
  <2>2. ASSUME Arriving PROVE Arriving'
    <3>1. PICK made, filled \in 0 .. Len(parcel) :
              Arrived(parcel, receiving, win[Member], made, filled)
      BY <2>2 DEF Arriving
    <3>2. Arrived(parcel, receiving, win'[Member], made, filled)
      BY <1>2, <3>1, ArrivedAlike
    <3> QED
      BY <3>2 DEF Arriving
  <2> QED
    BY <1>2, <2>1, <2>2
<1> QED
  BY <1>1, <1>2 DEF ArrivingInv, OpenEmpty

\* The host sends each file once, and sends while nobody receives.
LEMMA HostStartsArriving ==
    ASSUME TypeOK, ArrivingInv, HostStarts
    PROVE  ArrivingInv'
<1>1. Host \in Site /\ win[Host] \in Window /\ Host # Member
  BY StepWindow DEF HostStarts, Host, Member
<1>2. Member \in Site => ~win[Member].updating
  BY DEF HostStarts, ArrivingInv
<1>3. \A s \in Site \ {Host} : win'[s] = win[s]
  BY <1>1 DEF HostStarts, TypeOK
<1>4. PICK order \in SetToSeqs(win[Host].files) :
          \/ parcel' = parcel
          \/ parcel' = [i \in DOMAIN order |-> Packed(win[Host], order[i])]
  BY DEF HostStarts
<1>5. OneEach'
  <2>1. CASE parcel' = parcel
    BY <2>1 DEF ArrivingInv, OneEach
  <2>2. CASE parcel' = [i \in DOMAIN order |-> Packed(win[Host], order[i])]
    <3>1. \A i, j \in DOMAIN order : order[i] = order[j] => i = j
      BY DEF SetToSeqs
    <3>2. /\ DOMAIN parcel' = DOMAIN order
          /\ \A i \in DOMAIN order : /\ parcel'[i].file = order[i]
                                     /\ parcel'[i].text # {}
      BY <2>2 DEF Packed
    <3> QED
      BY <3>1, <3>2 DEF OneEach
  <2> QED
    BY <1>4, <2>1, <2>2
<1>6. /\ win'[Host].open = win[Host].open /\ win'[Host].saved = win[Host].saved
  <2> DEFINE yes == TRUE
  <2>1. \/ win' = [win EXCEPT ![Host] = Crash(win[Host])]
        \/ win' = [win EXCEPT ![Host].started = yes]
    BY DEF HostStarts
  <2> HIDE DEF yes
  <2>2. \/ win'[Host] = [win[Host] EXCEPT !.crashed = TRUE]
        \/ win'[Host] = [win[Host] EXCEPT !.started = yes]
    BY <1>1, <2>1 DEF Crash, TypeOK
  <2> QED
    BY <1>1, <2>2 DEF Window
<1>7. \A s \in Site : OpenEmpty(win'[s])
  BY <1>3, <1>6 DEF ArrivingInv, OpenEmpty
<1> QED
  BY <1>1, <1>2, <1>3, <1>5, <1>7 DEF ArrivingInv, OpenEmpty

\* The member begins with its own files and the whole parcel.
LEMMA MemberStartsArriving ==
    ASSUME TypeOK, ArrivingInv, MemberStarts
    PROVE  ArrivingInv'
<1>1. /\ Member \in Site /\ Host \in Site /\ Host # Member
      /\ win[Host].started /\ parcel' = parcel
      /\ \A s \in Site \ {Member} : win'[s] = win[s]
      /\ win[Member] \in Window /\ parcel \in Seq(Entry)
  BY StepWindow DEF MemberStarts, Host, Member, TypeOK
<1>2. /\ win'[Member].files = win[Member].files
      /\ win'[Member].open = win[Member].open
      /\ win'[Member].saved = win[Member].saved
  <2> DEFINE yes == TRUE
  <2>1. win'[Member] = [win[Member] EXCEPT !.updating = yes]
    BY <1>1 DEF MemberStarts, TypeOK
  <2> HIDE DEF yes
  <2> QED
    BY <1>1, <2>1 DEF Window
<1>3. /\ receiving'.old = win[Member].files /\ receiving'.create = parcel
      /\ receiving'.fill = parcel /\ ~receiving'.loaded
  BY DEF MemberStarts
<1>4. Len(parcel) \in Nat
  BY <1>1
<1>5. /\ Len(receiving'.create) + 0 = Len(parcel')
      /\ Len(receiving'.fill) + 0 = Len(parcel')
      /\ \A i \in 1 .. Len(parcel) : 0 + i = i
      /\ 1 .. 0 = {} /\ 0 \in 0 .. Len(parcel)
  BY <1>1, <1>3, <1>4
<1>6. /\ Remainder(parcel, receiving.create, 0)'
      /\ Remainder(parcel, receiving.fill, 0)'
  BY <1>1, <1>3, <1>5 DEF Remainder
<1>7. Arrived(parcel, receiving, win[Member], 0, 0)'
  BY <1>2, <1>3, <1>5, <1>6 DEF Arrived, NothingElse
<1>8. Arriving'
  BY <1>1, <1>5, <1>7 DEF Arriving
<1>9. OneEach'
  BY <1>1 DEF ArrivingInv, OneEach
<1>10. \A s \in Site : OpenEmpty(win'[s])
  BY <1>1, <1>2 DEF ArrivingInv, OpenEmpty
<1> QED
  BY <1>1, <1>8, <1>9, <1>10 DEF ArrivingInv, OpenEmpty

\* What the steps of the receiving thread have in common.
LEMMA ReceiveStep ==
    ASSUME TypeOK, ArrivingInv, NEW w \in Window,
           Member \in Site, Turn(Member, w), parcel' = parcel,
           win[Member].updating, Passes(w, win[Member]),
           \/ w.crashed
           \/ \E made, filled \in 0 .. Len(parcel) :
                  Arrived(parcel, receiving', w, made, filled)
    PROVE  ArrivingInv'
<1>1. /\ SameButText(win'[Member], w) /\ win'[Member].box = w.box
      /\ win'[Member].crashed = w.crashed
      /\ \A t \in Site \ {Member} : win'[t] = win[t]
  BY TurnMakes
<1>2. Host \in Site /\ win[Host].started /\ Host # Member
  BY DEF ArrivingInv, Host, Member
<1>3. ASSUME NEW made \in 0 .. Len(parcel), NEW filled \in 0 .. Len(parcel),
             Arrived(parcel, receiving', w, made, filled)
      PROVE  Arriving'
  <2>1. Arrived(parcel, receiving', win'[Member], made, filled)
    BY <1>1, <1>3, ArrivedAlike DEF SameButText
  <2> QED
    BY <2>1 DEF Arriving
<1>4. \A s \in Site : OpenEmpty(win'[s])
  BY <1>1 DEF ArrivingInv, Passes, OpenEmpty, SameButText
<1>5. OneEach'
  BY DEF ArrivingInv, OneEach
<1>6. win'[Host].started
  BY <1>1, <1>2
<1>7. win'[Member].crashed \/ Arriving'
  BY <1>1, <1>3
<1> QED
  BY <1>2, <1>4, <1>5, <1>6, <1>7 DEF ArrivingInv, OpenEmpty

\* What the loops find when they go on, and how far they are.
LEMMA Receiver ==
    ASSUME TypeOK, ArrivingInv, Receives
    PROVE  /\ Member \in Site /\ win[Member] \in Window
           /\ win[Member].updating /\ OpenEmpty(win[Member])
           /\ parcel' = parcel /\ parcel \in Seq(Entry) /\ Len(parcel) \in Nat
           /\ receiving \in Receiving /\ OneEach
           /\ \E made, filled \in 0 .. Len(parcel) :
                  Arrived(parcel, receiving, win[Member], made, filled)
<1>1. /\ Member \in Site /\ win[Member].updating /\ ~win[Member].crashed
      /\ parcel' = parcel
  BY DEF Receives
<1>2. /\ win[Member] \in Window /\ receiving \in Receiving
      /\ parcel \in Seq(Entry) /\ Len(parcel) \in Nat
  BY <1>1, StepWindow DEF TypeOK
<1>3. Arriving /\ OneEach /\ OpenEmpty(win[Member])
  BY <1>1 DEF ArrivingInv
<1> QED
  BY <1>1, <1>2, <1>3 DEF Arriving

\* One of the member's files less, or one that is open and empty.
LEMMA ClearOneArriving ==
    ASSUME TypeOK, ArrivingInv, ClearOne
    PROVE  ArrivingInv'
<1> DEFINE w == win[Member]
<1>0. Receives
  BY DEF ClearOne
<1>1. /\ Member \in Site /\ w \in Window /\ w.updating /\ OpenEmpty(w)
      /\ parcel' = parcel /\ Len(parcel) \in Nat /\ receiving \in Receiving
  BY <1>0, Receiver
<1>2. PICK made, filled \in 0 .. Len(parcel) :
          Arrived(parcel, receiving, w, made, filled)
  BY <1>0, Receiver
<1>3. PICK f \in receiving.old : \E next \in Listed(w, f, TRUE) :
          /\ Turn(Member, removeFile(w, TRUE, f, TRUE, next))
          /\ receiving' = [receiving EXCEPT !.old = @ \ {f}]
  BY DEF ClearOne
<1>4. f \in Name /\ receiving.old \subseteq Name
  BY <1>1 DEF Receiving
<1>5. PICK next \in Listed(w, f, TRUE) :
          Turn(Member, removeFile(w, TRUE, f, TRUE, next))
  BY <1>3
<1>6. next \in Name
  BY <1>1, <1>4, ListedType
<1> HIDE DEF w
<1>7. PICK v \in Window :
          /\ Turn(Member, v) /\ Passes(v, w) /\ v.files \subseteq w.files
          /\ \A g \in Name \ {f} : v.saved[g] = w.saved[g]
          /\ f \in v.files => f \in w.open /\ v.saved = w.saved
  <2> DEFINE yes == TRUE
             v == removeFile(w, yes, f, yes, next)
  <2>0. yes \in BOOLEAN /\ w \in Window /\ f \in Name
    BY <1>1, <1>4
  <2>3. Turn(Member, v)
    BY <1>5
  <2> HIDE DEF yes
  <2>1. v \in Window
    BY <2>0, <1>6, RemoveType
  <2>2. /\ Passes(v, w) /\ v.files \subseteq w.files
        /\ \A g \in Name \ {f} : v.saved[g] = w.saved[g]
        /\ f \in v.files => f \in w.open /\ v.saved = w.saved
    BY <2>0, <1>6, RemoveText
  <2> HIDE DEF v
  <2> QED
    BY <2>1, <2>2, <2>3
<1>8. made = 0 /\ filled = 0
  BY <1>1, <1>2, <1>3 DEF Arrived
<1>9. /\ receiving'.old = receiving.old \ {f}
      /\ receiving'.create = receiving.create
      /\ receiving'.fill = receiving.fill
      /\ receiving'.loaded = receiving.loaded
  BY <1>1, <1>3 DEF Receiving
<1>10. NothingElse(parcel, receiving'.old, v, 0)
  <2>1. v.files \subseteq Name
    BY <1>7 DEF Window
  <2>2. ASSUME NEW g \in v.files
        PROVE  v.saved[g] = {} \/ g \in receiving'.old
    <3>1. CASE g = f
      BY <1>1, <1>7, <2>2, <3>1 DEF OpenEmpty
    <3>2. CASE g # f
      <4>1. g \in w.files /\ v.saved[g] = w.saved[g]
        BY <1>7, <2>1, <2>2, <3>2
      <4>2. w.saved[g] = {} \/ g \in receiving.old
        BY <1>2, <1>8, <4>1 DEF Arrived, NothingElse
      <4> QED
        BY <1>9, <3>2, <4>1, <4>2
    <3> QED
      BY <3>1, <3>2
  <2> QED
    BY <2>2 DEF NothingElse
<1>11. Arrived(parcel, receiving', v, 0, 0)
  <2>1. 1 .. 0 = {}
    OBVIOUS
  <2>2. ~receiving.loaded
    BY <1>2, <1>8, <2>1 DEF Arrived, Shows
  <2> QED
    BY <1>2, <1>8, <1>9, <1>10, <2>1, <2>2 DEF Arrived
<1>12. 0 \in 0 .. Len(parcel)
  BY <1>1
<1> QED
  BY <1>1, <1>7, <1>11, <1>12, ReceiveStep DEF w

\* One of the host's files more, and empty; or one that cannot be created.
LEMMA CreateOneArriving ==
    ASSUME TypeOK, ArrivingInv, CreateOne
    PROVE  ArrivingInv'
<1> DEFINE w == win[Member]
           f == Head(receiving.create).file
<1>0. Receives
  BY DEF CreateOne
<1>1. /\ Member \in Site /\ w \in Window /\ w.updating
      /\ parcel' = parcel /\ parcel \in Seq(Entry) /\ Len(parcel) \in Nat
      /\ receiving \in Receiving
  BY <1>0, Receiver
<1>2. PICK made, filled \in 0 .. Len(parcel) :
          Arrived(parcel, receiving, w, made, filled)
  BY <1>0, Receiver
<1>3. /\ receiving.old = {} /\ receiving.create # <<>>
      /\ receiving' = [receiving EXCEPT !.create = Tail(@)]
      /\ Turn(Member, Received(w, f))
  BY DEF CreateOne
<1>4. receiving.create \in Seq(Entry)
  BY <1>1 DEF Receiving
<1>5. /\ Remainder(parcel, Tail(receiving.create), made + 1)
      /\ Head(receiving.create) = parcel[made + 1]
      /\ made + 1 \in DOMAIN parcel
  BY <1>1, <1>2, <1>3, <1>4, RemainderTail DEF Arrived
<1>6. parcel[made + 1] \in Entry /\ f = parcel[made + 1].file /\ f \in Name
  <2>1. parcel \in Seq(Entry)
    BY <1>1
  <2>2. parcel[made + 1] \in Entry
    BY <1>5, <2>1
  <2>3. f = parcel[made + 1].file
    BY <1>5
  <2> HIDE DEF f
  <2> QED
    BY <2>2, <2>3 DEF Entry
<1>7. made < Len(parcel) /\ made + 1 \in 0 .. Len(parcel) /\ filled = 0
  BY <1>1, <1>2, <1>5 DEF Arrived
<1> HIDE DEF w, f
<1>8. PICK v \in Window :
          /\ Turn(Member, v) /\ Passes(v, w)
          /\ \/ v.crashed
             \/ /\ v.files = w.files \cup {f}
                /\ v.saved = [w.saved EXCEPT ![f] = {}]
  <2> DEFINE k == Create(w, f)
             a == AddFile(k, f)
             c == Crash(w)
  <2>0. w \in Window /\ f \in Name
    BY <1>1, <1>6
  <2>1. Received(w, f) \in {a, c}
    BY DEF Received
  <2>2. /\ k \in Window /\ Passes(k, w) /\ k.files = w.files \cup {f}
        /\ k.saved = [w.saved EXCEPT ![f] = {}]
    BY <2>0, CreateType, CreatePasses
  <2> HIDE DEF k
  <2>3. /\ a \in Window /\ Passes(a, w) /\ a.files = k.files
        /\ a.saved = k.saved
    BY <2>0, <2>2, AddFileType, AddFilePasses, PassesOn
  <2>4. c \in Window /\ c.crashed /\ Passes(c, w)
    <3> DEFINE yes == TRUE
    <3>0. c = [w EXCEPT !.crashed = yes]
      BY DEF Crash
    <3>2. yes \in BOOLEAN
      OBVIOUS
    <3> HIDE DEF yes, c
    <3>1. /\ c \in Window /\ c.crashed = yes /\ c.open = w.open
          /\ c.saved = w.saved /\ c.tokens = w.tokens /\ c.out = w.out
          /\ c.started = w.started
      BY <2>0, <3>0, <3>2 DEF Window
    <3> QED
      BY <2>0, <3>1, PassesAlike DEF yes
  <2> HIDE DEF a, c
  <2> QED
    BY <1>3, <2>1, <2>2, <2>3, <2>4
<1>9. /\ receiving'.old = {} /\ receiving'.create = Tail(receiving.create)
      /\ receiving'.fill = receiving.fill
      /\ receiving'.loaded = receiving.loaded
  BY <1>1, <1>3 DEF Receiving
<1>10. 1 .. 0 = {} /\ ~receiving.loaded
  <2>1. 1 .. 0 = {}
    OBVIOUS
  <2> QED
    BY <1>2, <1>7, <2>1 DEF Arrived, Shows
<1>11. ASSUME v.files = w.files \cup {f}, v.saved = [w.saved EXCEPT ![f] = {}]
       PROVE  Arrived(parcel, receiving', v, made + 1, 0)
  <2>1. ASSUME NEW i \in 1 .. made + 1 PROVE parcel[i].file \in v.files
    <3>1. CASE i = made + 1
      BY <1>6, <1>11, <3>1
    <3>2. CASE i # made + 1
      <4>1. i \in 1 .. made
        BY <1>2, <3>2
      <4> QED
        BY <1>2, <1>11, <4>1 DEF Arrived
    <3> QED
      BY <3>1, <3>2
  <2>2. ASSUME NEW g \in v.files PROVE v.saved[g] = {}
    <3>1. w.saved \in [Name -> Content] /\ v.files \subseteq Name
      BY <1>1, <1>8 DEF Window
    <3>2. CASE g = f
      BY <1>11, <3>1, <3>2
    <3>3. CASE g # f
      <4>1. g \in w.files /\ v.saved[g] = w.saved[g]
        BY <1>11, <2>2, <3>1, <3>3
      <4>2. w.saved[g] = {}
        BY <1>2, <1>3, <1>7, <1>10, <4>1 DEF Arrived, NothingElse
      <4> QED
        BY <4>1, <4>2
    <3> QED
      BY <3>2, <3>3
  <2>3. NothingElse(parcel, receiving'.old, v, 0)
    BY <2>2 DEF NothingElse
  <2> QED
    BY <1>2, <1>5, <1>7, <1>9, <1>10, <2>1, <2>3 DEF Arrived
<1>12. 0 \in 0 .. Len(parcel)
  BY <1>1
<1>13. \/ v.crashed
       \/ \E n, k \in 0 .. Len(parcel) : Arrived(parcel, receiving', v, n, k)
  BY <1>7, <1>8, <1>11, <1>12
<1> QED
  BY <1>1, <1>8, <1>13, ReceiveStep DEF w

\* A window that receives files shows the text it is given.
LEMMA SetTextReceiving ==
    ASSUME NEW w \in Window, NEW m \in BOOLEAN, NEW c \in Content, w.updating
    PROVE  SetText(w, m, c).box = c
<1>1. CASE c = w.box
  BY <1>1 DEF SetText
<1>2. CASE c # w.box
  <2> DEFINE new == (w.box \ w.box) \cup c
  <2>1. new = c
    OBVIOUS
  <2>2. SetText(w, m, c) = [w EXCEPT !.box = new, !.tokens = @ - 1]
    BY <1>2 DEF SetText, Change
  <2> HIDE DEF new
  <2> QED
    BY <2>1, <2>2 DEF Window
<1> QED
  BY <1>1, <1>2

\* A text is written to its file, unless that is open; the first is shown.
LEMMA FilledText ==
    ASSUME NEW w \in Window, NEW e \in Entry, NEW first \in BOOLEAN,
           w.updating
    PROVE  LET v == Filled(w, TRUE, e, first)
           IN  /\ Passes(v, w)
               /\ v.updating = w.updating /\ v.started = w.started
               /\ e.file \in w.open => v = w
               /\ e.file \notin w.open =>
                    /\ v.files = w.files \cup {e.file}
                    /\ v.saved = [w.saved EXCEPT ![e.file] = e.text]
                    /\ first => v.path = e.file /\ v.box = e.text
                    /\ ~first => v.path = w.path /\ v.box = w.box
<1> DEFINE files == w.files \cup {e.file}
           saved == [w.saved EXCEPT ![e.file] = e.text]
           written == [w EXCEPT !.files = files, !.saved = saved]
           t == SetText(written, TRUE, e.text)
           l == LoadFileIntoIDE(written, TRUE, e.file)
           v == Filled(w, TRUE, e, first)
           Goes(x) == /\ Passes(x, w) /\ x.updating = w.updating
                      /\ x.started = w.started
<1>0. e.file \in Name /\ e.text \in Content
  BY DEF Entry
<1>1. CASE e.file \in w.open
  <2>1. v = w
    BY <1>1 DEF Filled
  <2>2. Passes(w, w)
    BY DEF Passes
  <2> QED
    BY <1>1, <2>1, <2>2
<1>2. CASE e.file \notin w.open
  <2>1. /\ files \in SUBSET Name /\ saved \in [Name -> Content]
        /\ saved[e.file] = e.text /\ e.file \in files
        /\ \A g \in w.open : saved[g] = w.saved[g]
    BY <1>0, <1>2 DEF Window
  <2>2. v = IF first THEN l ELSE written
    BY <1>2 DEF Filled
  <2> HIDE DEF files, saved
  <2>3. /\ written \in Window /\ written.files = files
        /\ written.saved = saved /\ written.open = w.open
        /\ written.tokens = w.tokens /\ written.out = w.out
        /\ written.path = w.path /\ written.box = w.box
        /\ written.updating = w.updating /\ written.started = w.started
    BY <2>1 DEF Window
  <2> HIDE DEF written
  <2>4. Goes(written)
    BY <2>1, <2>3 DEF Passes, OpenEmpty, Silent
  <2>5. l = [t EXCEPT !.path = e.file]
    BY <1>2, <2>1, <2>3 DEF LoadFileIntoIDE
  <2>6. t \in Window /\ SameButText(t, written) /\ t.box = e.text
    BY <1>0, <2>3, SetTextType, SetTextText, SetTextReceiving
  <2>7. l \in Window /\ Passes(l, written)
        /\ l.updating = written.updating /\ l.started = written.started
    BY <1>0, <2>3, LoadType, LoadText, LoadPasses
  <2> HIDE DEF t, l
  <2>8. /\ l.files = files /\ l.saved = saved
        /\ l.path = e.file /\ l.box = e.text
    BY <2>3, <2>5, <2>6 DEF SameButText, Window
  <2>9. Goes(l)
    BY <2>3, <2>4, <2>7, PassesOn
  <2> HIDE DEF v
  <2>10. /\ Goes(v) /\ v.files = files /\ v.saved = saved
         /\ first => v.path = e.file /\ v.box = e.text
         /\ ~first => v.path = w.path /\ v.box = w.box
    BY <2>2, <2>3, <2>4, <2>8, <2>9
  <2> QED
    BY <1>2, <2>10 DEF v, files, saved
<1> QED
  BY <1>1, <1>2

\* The turn of one file more.
LEMMA FillOneArriving ==
    ASSUME TypeOK, ArrivingInv, FillOne
    PROVE  ArrivingInv'
<1> DEFINE w == win[Member]
           e == Head(receiving.fill)
           first == ~receiving.loaded
<1>0. Receives
  BY DEF FillOne
<1>1. /\ Member \in Site /\ w \in Window /\ w.updating /\ OpenEmpty(w)
      /\ parcel' = parcel /\ parcel \in Seq(Entry) /\ Len(parcel) \in Nat
      /\ DOMAIN parcel = 1 .. Len(parcel)
      /\ receiving \in Receiving /\ OneEach
  BY <1>0, Receiver
<1>2. PICK made, filled \in 0 .. Len(parcel) :
          Arrived(parcel, receiving, w, made, filled)
  BY <1>0, Receiver
<1>3. /\ receiving.old = {} /\ receiving.create = <<>>
      /\ receiving.fill # <<>>
      /\ receiving' = [receiving EXCEPT !.fill = Tail(@),
                           !.loaded = @ \/ e.file \notin w.open]
      /\ Turn(Member, Filled(w, TRUE, e, first))
  BY DEF FillOne
<1>4. receiving.fill \in Seq(Entry)
  BY <1>1 DEF Receiving
<1>5. /\ Remainder(parcel, Tail(receiving.fill), filled + 1)
      /\ e = parcel[filled + 1] /\ filled + 1 \in DOMAIN parcel
  BY <1>1, <1>2, <1>3, <1>4, RemainderTail DEF Arrived
<1>6. e \in Entry /\ e.file \in Name /\ first \in BOOLEAN
  <2>1. parcel \in Seq(Entry) /\ first \in BOOLEAN
    BY <1>1
  <2>2. e \in Entry
    BY <1>5, <2>1
  <2> HIDE DEF e, first
  <2> QED
    BY <2>1, <2>2 DEF Entry
<1>7. made = Len(parcel) /\ filled + 1 \in 0 .. Len(parcel)
  <2>1. Len(receiving.create) = 0
    BY <1>3
  <2>2. Len(receiving.create) + made = Len(parcel)
    BY <1>2 DEF Arrived, Remainder
  <2>3. filled + 1 \in 1 .. Len(parcel)
    BY <1>1, <1>5
  <2>4. 0 + made = Len(parcel)
    BY <2>1, <2>2
  <2>5. Len(parcel) \in Nat /\ made \in 0 .. Len(parcel)
    BY <1>1, <1>2
  <2>6. made = Len(parcel)
    BY <2>4, <2>5
  <2>7. 1 .. Len(parcel) \subseteq 0 .. Len(parcel)
    BY <2>5
  <2> QED
    BY <2>3, <2>6, <2>7
<1>8. /\ receiving'.old = {} /\ receiving'.create = <<>>
      /\ receiving'.fill = Tail(receiving.fill)
      /\ receiving'.loaded <=> (receiving.loaded \/ e.file \notin w.open)
  BY <1>1, <1>3 DEF Receiving
<1> DEFINE v == Filled(w, TRUE, e, first)
<1> HIDE DEF w, e
<1>9. /\ v \in Window /\ Turn(Member, v) /\ Passes(v, w)
      /\ e.file \in w.open => v = w
      /\ e.file \notin w.open =>
           /\ v.files = w.files \cup {e.file}
           /\ v.saved = [w.saved EXCEPT ![e.file] = e.text]
           /\ first => v.path = e.file /\ v.box = e.text
           /\ ~first => v.path = w.path /\ v.box = w.box
  BY <1>1, <1>3, <1>6, FilledType, FilledText
<1> HIDE DEF v
<1>10. w.saved \in [Name -> Content] /\ w.files \subseteq Name
  BY <1>1 DEF Window
<1>11. \A i \in 1 .. filled : /\ i \in DOMAIN parcel /\ i # filled + 1
                              /\ parcel[i].file \in Name
                              /\ parcel[i].file # e.file
  <2> SUFFICES ASSUME NEW i \in 1 .. filled
               PROVE  /\ i \in DOMAIN parcel /\ i # filled + 1
                      /\ parcel[i].file \in Name
                      /\ parcel[i].file # e.file
    OBVIOUS
  <2>1. i \in DOMAIN parcel /\ i # filled + 1
    BY <1>1, <1>2
  <2>2. parcel[i] \in Entry
    BY <1>1, <2>1
  <2>3. parcel[i].file # e.file
    BY <1>1, <1>5, <2>1 DEF OneEach
  <2> QED
    BY <2>1, <2>2, <2>3 DEF Entry
\* Whether it is written or not, nothing else changes.
<1>12. /\ w.files \subseteq v.files /\ v.files \subseteq w.files \cup {e.file}
       /\ \A g \in Name \ {e.file} : v.saved[g] = w.saved[g]
       /\ IF e.file \in w.open THEN v.saved[e.file] = {}
                               ELSE v.saved[e.file] = e.text
  <2>1. CASE e.file \in w.open
    BY <1>1, <1>9, <2>1 DEF OpenEmpty
  <2>2. CASE e.file \notin w.open
    BY <1>6, <1>9, <1>10, <2>2
  <2> QED
    BY <2>1, <2>2
<1>13. \A i \in 1 .. filled :
           /\ v.saved[parcel[i].file] = w.saved[parcel[i].file]
           /\ Wrote(parcel, v, i) <=> Wrote(parcel, w, i)
  BY <1>11, <1>12 DEF Wrote
<1>14. NothingElse(parcel, {}, v, filled + 1)
  <2> SUFFICES ASSUME NEW g \in v.files, v.saved[g] # {}
               PROVE  \E i \in 1 .. filled + 1 :
                          g = parcel[i].file /\ Wrote(parcel, v, i)
    BY DEF NothingElse
  <2>1. CASE g = e.file
    <3>1. v.saved[e.file] = e.text
      BY <1>12, <2>1
    <3>2. filled + 1 \in 1 .. filled + 1
      BY <1>2
    <3> QED
      BY <1>5, <2>1, <3>1, <3>2 DEF Wrote
  <2>2. CASE g # e.file
    <3>1. g \in w.files /\ w.saved[g] # {}
      BY <1>10, <1>12, <2>2
    <3>2. PICK i \in 1 .. filled : g = parcel[i].file /\ Wrote(parcel, w, i)
      BY <1>2, <1>3, <3>1 DEF Arrived, NothingElse
    <3>3. i \in 1 .. filled + 1
      BY <1>2
    <3> QED
      BY <1>13, <3>2, <3>3
  <2> QED
    BY <2>1, <2>2
<1>15. ASSUME ~receiving'.loaded
       PROVE  \A i \in 1 .. filled + 1 : v.saved[parcel[i].file] = {}
  <2>1. ~receiving.loaded /\ e.file \in w.open
    BY <1>8, <1>15
  <2>2. \A i \in 1 .. filled : v.saved[parcel[i].file] = {}
    BY <1>2, <1>13, <2>1 DEF Arrived
  <2>3. v.saved[parcel[filled + 1].file] = {}
    BY <1>5, <1>12, <2>1
  <2>4. \A i \in 1 .. filled + 1 : i \in 1 .. filled \/ i = filled + 1
    BY <1>2
  <2> QED
    BY <2>2, <2>3, <2>4
<1>16. ASSUME receiving'.loaded PROVE Shows(parcel, v, filled + 1)
  <2>1. CASE receiving.loaded
    <3>1. v.path = w.path /\ v.box = w.box
      BY <1>9, <2>1 DEF first
    <3>2. PICK i \in 1 .. filled :
              /\ Wrote(parcel, w, i)
              /\ \A j \in 1 .. i - 1 : w.saved[parcel[j].file] = {}
              /\ w.path = parcel[i].file /\ w.box = parcel[i].text
      BY <1>2, <2>1 DEF Arrived, Shows
    <3>3. i \in 1 .. filled + 1 /\ \A j \in 1 .. i - 1 : j \in 1 .. filled
      BY <1>2
    <3>4. \A j \in 1 .. i - 1 : v.saved[parcel[j].file] = {}
      BY <1>13, <3>2, <3>3
    <3> QED
      BY <1>13, <3>1, <3>2, <3>3, <3>4 DEF Shows
  <2>2. CASE ~receiving.loaded
    <3>1. e.file \notin w.open
      BY <1>8, <1>16, <2>2
    <3>2. /\ v.path = e.file /\ v.box = e.text /\ v.saved[e.file] = e.text
      BY <1>9, <1>12, <2>2, <3>1 DEF first
    <3>3. /\ filled + 1 \in 1 .. filled + 1
          /\ \A j \in 1 .. (filled + 1) - 1 : j \in 1 .. filled
      BY <1>2
    <3>4. \A j \in 1 .. (filled + 1) - 1 : v.saved[parcel[j].file] = {}
      BY <1>2, <1>13, <2>2, <3>3 DEF Arrived
    <3> QED
      BY <1>5, <3>2, <3>3, <3>4 DEF Shows, Wrote
  <2> QED
    BY <2>1, <2>2
<1>17. Arrived(parcel, receiving', v, Len(parcel), filled + 1)
  <2>1. Remainder(parcel, receiving'.create, Len(parcel))
    BY <1>2, <1>3, <1>7, <1>8 DEF Arrived
  <2>2. ~ (Len(parcel) < Len(parcel))
    BY <1>1
  <2>3. \A i \in 1 .. Len(parcel) : parcel[i].file \in v.files
    BY <1>2, <1>7, <1>12 DEF Arrived
  <2>4. Remainder(parcel, receiving'.fill, filled + 1)
    BY <1>5, <1>8
  <2> QED
    BY <1>8, <1>14, <1>15, <1>16, <2>1, <2>2, <2>3, <2>4 DEF Arrived
<1>18. Len(parcel) \in 0 .. Len(parcel)
  BY <1>1
<1> QED
  BY <1>1, <1>7, <1>9, <1>17, <1>18, ReceiveStep DEF w

\* The garbage collector touches nothing but the streams.
LEMMA Collected ==
    ASSUME TypeOK, NEW s \in Site, Collect(s)
    PROVE  /\ win'[s].updating = win[s].updating
           /\ win'[s].started = win[s].started /\ win'[s].files = win[s].files
           /\ win'[s].saved = win[s].saved /\ win'[s].path = win[s].path
           /\ win'[s].box = win[s].box /\ win'[s].crashed = win[s].crashed
           /\ win'[s].tokens = win[s].tokens /\ win'[s].out = win[s].out
           /\ win'[s].open \subseteq win[s].open
           /\ \A t \in Site \ {s} : win'[t] = win[t]
           /\ UNCHANGED <<mail, parcel, receiving, strokes, shared>>
<1>1. PICK f \in win[s].open : win' = [win EXCEPT ![s].open = @ \ {f}]
  BY DEF Collect
<1> DEFINE left == win[s].open \ {f}
           v == [win[s] EXCEPT !.open = left]
<1>2. win'[s] = v /\ \A t \in Site \ {s} : win'[t] = win[t]
  BY <1>1 DEF TypeOK
<1>3. left \subseteq win[s].open
  OBVIOUS
<1> HIDE DEF left
<1>4. /\ v.updating = win[s].updating
      /\ v.started = win[s].started /\ v.files = win[s].files
      /\ v.saved = win[s].saved /\ v.path = win[s].path
      /\ v.box = win[s].box /\ v.crashed = win[s].crashed
      /\ v.tokens = win[s].tokens /\ v.out = win[s].out
      /\ v.open = left
  BY StepWindow DEF Window
<1> HIDE DEF v
<1>5. UNCHANGED <<mail, parcel, receiving, strokes, shared>>
  BY DEF Collect
<1> QED
  BY <1>2, <1>3, <1>4, <1>5

\* Every step keeps how far the member is.
LEMMA StepArriving ==
    ASSUME TypeOK, ArrivingInv, [Next]_vars
    PROVE  ArrivingInv'
<1>h. Host # Member
  BY DEF Host, Member
<1>e. \A s \in Site : OpenEmpty(win[s])
  BY DEF ArrivingInv
<1>1. CASE UNCHANGED vars
  BY <1>1, <1>e, ArrivingStays DEF vars
<1>2. ASSUME NEW s \in Site, User(s) PROVE ArrivingInv'
  <2>1. UNCHANGED <<parcel, receiving>>
    BY <1>2 DEF User, OpenProject, Type, SaveFiles, CloseProgram, SelectFile,
                NewFile, RemoveFile, Do
  <2>2. /\ ~win'[s].updating /\ (win[s].started => win'[s].started)
        /\ \A t \in Site \ {s} : win'[t] = win[t]
        /\ Passes(win'[s], win[s])
    BY <1>2, UserSteady
  <2>3. \A t \in Site : OpenEmpty(win'[t])
    BY <1>e, <2>2 DEF Passes
  <2> QED
    BY <2>1, <2>2, <2>3, ArrivingStays
<1>3. ASSUME NEW s \in Site, Collect(s) PROVE ArrivingInv'
  <2>1. /\ win'[s].updating = win[s].updating
        /\ win'[s].started = win[s].started /\ win'[s].files = win[s].files
        /\ win'[s].saved = win[s].saved /\ win'[s].path = win[s].path
        /\ win'[s].box = win[s].box /\ win'[s].crashed = win[s].crashed
        /\ win'[s].open \subseteq win[s].open
        /\ \A t \in Site \ {s} : win'[t] = win[t]
        /\ UNCHANGED <<parcel, receiving>>
    BY <1>3, Collected
  <2>2. \A t \in Site : OpenEmpty(win'[t])
    BY <1>e, <2>1 DEF OpenEmpty
  <2> QED
    BY <2>1, <2>2, ArrivingStays
<1>4. CASE AllReceived
  <2> DEFINE w == win[Member]
             yes == TRUE
             no == FALSE
             v == [w EXCEPT !.updating = no, !.started = yes]
  <2>1. /\ w \in Window /\ Member \in Site
        /\ UNCHANGED <<parcel, receiving>>
        /\ win' = [win EXCEPT ![Member].updating = no,
                              ![Member].started = yes]
    BY <1>4, StepWindow DEF AllReceived, Receives
  <2>2. win'[Member] = v /\ \A t \in Site \ {Member} : win'[t] = win[t]
    BY <2>1 DEF TypeOK
  <2> HIDE DEF w, yes, no
  <2>3. v.updating = no /\ v.open = w.open /\ v.saved = w.saved
    BY <2>1 DEF Window
  <2> HIDE DEF v
  <2>5. OpenEmpty(v)
    BY <1>e, <2>1, <2>3 DEF OpenEmpty, w
  <2>4. \A t \in Site : OpenEmpty(win'[t])
    BY <1>e, <2>2, <2>5
  <2> QED
    BY <1>h, <2>1, <2>2, <2>3, <2>4, ArrivingStays DEF no
<1>5. ASSUME NEW s \in Site, Deliver(s) PROVE ArrivingInv'
  <2> DEFINE u == Head(mail[s])
             m == s = Member
             w == ApplyUpdate(win[s], m, u)
             nothing == <<>>
             told == [w EXCEPT !.out = nothing]
  <2>1. /\ win[s] \in Window /\ m \in BOOLEAN /\ ~win[s].updating
        /\ UNCHANGED <<parcel, receiving>>
        /\ win' = [win EXCEPT ![s] = told]
    BY <1>5, StepWindow DEF Deliver, Idle
  <2>2. u \in Update
    <3>1. mail[s] \in Seq(Update) /\ mail[s] # <<>>
      BY <1>5, StepWindow DEF Deliver, TypeOK
    <3> QED
      BY <3>1
  <2> HIDE DEF u, m, nothing
  <2>3. w \in Window /\ SameButText(w, win[s])
    BY <2>1, <2>2, ApplyUpdateType, ApplyUpdateText
  <2> HIDE DEF w
  <2>4. /\ told.updating = w.updating /\ told.started = w.started
        /\ told.open = w.open /\ told.saved = w.saved
    BY <2>3 DEF Window
  <2> HIDE DEF told
  <2>5. win'[s] = told /\ \A t \in Site \ {s} : win'[t] = win[t]
    BY <2>1 DEF TypeOK
  <2>6. \A t \in Site : OpenEmpty(win'[t])
    BY <1>e, <2>3, <2>4, <2>5 DEF OpenEmpty, SameButText
  <2> QED
    BY <2>1, <2>3, <2>4, <2>5, <2>6, ArrivingStays DEF SameButText
<1> QED
  BY <1>1, <1>2, <1>3, <1>4, <1>5, HostStartsArriving, MemberStartsArriving,
     ClearOneArriving, CreateOneArriving, FillOneArriving DEF Next, Session

LEMMA InitArriving == Init => ArrivingInv
<1> SUFFICES ASSUME Init PROVE ArrivingInv
  OBVIOUS
<1>1. /\ Member \in Site => ~win[Member].updating
      /\ \A s \in Site : win[s].open = {}
  BY DEF Init, NewWindow
<1>2. DOMAIN parcel = {}
  BY DEF Init
<1>3. OneEach
  BY <1>2 DEF OneEach
<1> QED
  BY <1>1, <1>3 DEF ArrivingInv, OpenEmpty

\* What the member has when its window comes back.
LEMMA AllReceivedAsSent ==
    ASSUME TypeOK, ArrivingInv, AllReceived
    PROVE  LET w == win[Member]
           IN  /\ \A i \in DOMAIN parcel : parcel[i].file \in w.files
               /\ \A f \in w.files : w.saved[f] # {} =>
                      \E i \in Written(w) : f = parcel[i].file
               /\ \A i \in Written(w) :
                      (\A j \in Written(w) : i <= j) =>
                          w.path = parcel[i].file /\ w.box = parcel[i].text
<1> DEFINE w == win[Member]
<1>1. /\ Receives /\ receiving.old = {}
      /\ Len(receiving.create) = 0 /\ Len(receiving.fill) = 0
  BY DEF AllReceived
<1>2. parcel \in Seq(Entry) /\ Len(parcel) \in Nat
      /\ DOMAIN parcel = 1 .. Len(parcel)
  BY DEF TypeOK
<1>3. PICK made, filled \in 0 .. Len(parcel) :
          Arrived(parcel, receiving, w, made, filled)
  BY <1>1, Receiver
<1>4. made = Len(parcel) /\ filled = Len(parcel)
  <2>1. /\ Len(receiving.create) + made = Len(parcel)
        /\ Len(receiving.fill) + filled = Len(parcel)
    BY <1>3 DEF Arrived, Remainder
  <2>2. 0 + made = Len(parcel) /\ 0 + filled = Len(parcel)
    BY <1>1, <2>1
  <2>3. made \in Nat /\ filled \in Nat
    <3>1. Len(parcel) \in Nat /\ made \in 0 .. Len(parcel)
          /\ filled \in 0 .. Len(parcel)
      BY <1>2, <1>3
    <3> QED
      BY <3>1
  <2> QED
    BY <2>2, <2>3
<1>5. \A i \in DOMAIN parcel : (i \in Written(w) <=> Wrote(parcel, w, i))
  BY DEF Written, Wrote
<1>6. \A i \in DOMAIN parcel : parcel[i].text # {}
  BY DEF ArrivingInv, OneEach
<1> HIDE DEF w
<1>7. \A i \in DOMAIN parcel : parcel[i].file \in w.files
  BY <1>2, <1>3, <1>4 DEF Arrived
<1>8. \A f \in w.files : w.saved[f] # {} =>
          \E i \in Written(w) : f = parcel[i].file
  BY <1>1, <1>2, <1>3, <1>4, <1>5 DEF Arrived, NothingElse
<1>9. ASSUME NEW i \in Written(w), \A j \in Written(w) : i <= j
      PROVE  w.path = parcel[i].file /\ w.box = parcel[i].text
  <2>1. i \in DOMAIN parcel /\ w.saved[parcel[i].file] # {}
    BY <1>6, <1>9 DEF Written
  <2>2. receiving.loaded
    BY <1>2, <1>3, <1>4, <2>1 DEF Arrived
  <2>3. PICK k \in 1 .. Len(parcel) :
            /\ Wrote(parcel, w, k)
            /\ \A j \in 1 .. k - 1 : w.saved[parcel[j].file] = {}
            /\ w.path = parcel[k].file /\ w.box = parcel[k].text
    BY <1>3, <1>4, <2>2 DEF Arrived, Shows
  <2>4. i <= k
    BY <1>2, <1>5, <1>9, <2>3
  <2>5. i \notin 1 .. k - 1
    BY <2>1, <2>3
  <2>6. i = k
    BY <1>2, <2>1, <2>4, <2>5
  <2> QED
    BY <2>3, <2>6
<1> QED
  BY <1>7, <1>8, <1>9 DEF w

\* When the member's window comes back, everything that was sent is in its
\* folder, no file in the folder has any text but the one that was sent under
\* its name, and the first of the files that could be written is the one it
\* shows and saves to: whatever the two programs had done before, for every
\* number of files, whichever streams of created files were still open while
\* it received them, and in every order in which the loops, the garbage
\* collector and the host's user go on.
THEOREM FilesReceivedAsSent == Spec => ReceivedAsSent
<1>1. Init => ArrivingInv
  BY InitArriving
<1>2. TypeOK /\ ArrivingInv /\ [Next]_vars => ArrivingInv'
  BY StepArriving
<1>3. TypeOK /\ ArrivingInv =>
          [AllReceived =>
             LET w == win[Member]
             IN  /\ \A i \in DOMAIN parcel : parcel[i].file \in w.files
                 /\ \A f \in w.files : w.saved[f] # {} =>
                        \E i \in Written(w) : f = parcel[i].file
                 /\ \A i \in Written(w) :
                        (\A j \in Written(w) : i <= j) =>
                            w.path = parcel[i].file
                            /\ w.box = parcel[i].text]_vars
  BY AllReceivedAsSent
<1>4. Spec => [](TypeOK /\ ArrivingInv)
  BY <1>1, <1>2, InitType, FilesStep, PTL DEF Spec
<1> QED
  BY <1>3, <1>4, PTL DEF Spec, ReceivedAsSent

-----------------------------------------------------------------------------
(* What is typed in a session.  A stroke of the host's user is in the box  *)
(* at once, and is from then on in the member's box, on its way there, or  *)
(* on its way back from it and from there on to it again.  A host that has *)
(* loaded a file before tells nothing: its counter never comes back to 0.  *)

On(q, x) == \E i \in 1 .. Len(q) : x \in q[i].add

AddsOnly(q) == \A i \in 1 .. Len(q) : q[i].del = {}

LEMMA HeadOrTail ==
    ASSUME NEW q \in Seq(Update), q # <<>>
    PROVE  /\ Head(q) \in Update /\ Tail(q) \in Seq(Update)
           /\ \A x : On(q, x) => x \in Head(q).add \/ On(Tail(q), x)
           /\ AddsOnly(q) => Head(q).del = {} /\ AddsOnly(Tail(q))
<1>1. /\ Head(q) \in Update /\ Tail(q) \in Seq(Update) /\ Head(q) = q[1]
      /\ Len(q) \in Nat \ {0} /\ Len(Tail(q)) = Len(q) - 1
      /\ \A i \in 1 .. Len(q) - 1 : Tail(q)[i] = q[i + 1]
  OBVIOUS
<1>2. ASSUME NEW x, On(q, x) PROVE x \in Head(q).add \/ On(Tail(q), x)
  <2>1. PICK i \in 1 .. Len(q) : x \in q[i].add
    BY <1>2 DEF On
  <2>2. CASE i = 1
    BY <1>1, <2>1, <2>2
  <2>3. CASE i # 1
    <3>1. i - 1 \in 1 .. Len(q) - 1 /\ (i - 1) + 1 = i
      BY <1>1, <2>3
    <3>2. Tail(q)[i - 1] = q[i]
      BY <1>1, <3>1
    <3> QED
      BY <1>1, <2>1, <3>1, <3>2 DEF On
  <2> QED
    BY <2>2, <2>3
<1>3. ASSUME AddsOnly(q) PROVE Head(q).del = {} /\ AddsOnly(Tail(q))
  <2>1. 1 \in 1 .. Len(q) /\ \A i \in 1 .. Len(q) - 1 : i + 1 \in 1 .. Len(q)
    BY <1>1
  <2> QED
    BY <1>1, <1>3, <2>1 DEF AddsOnly
<1> QED
  BY <1>1, <1>2, <1>3

LEMMA OneMore ==
    ASSUME NEW q \in Seq(Update), NEW u \in Update
    PROVE  /\ q \o <<u>> \in Seq(Update)
           /\ \A x : On(q, x) \/ x \in u.add => On(q \o <<u>>, x)
           /\ AddsOnly(q) /\ u.del = {} => AddsOnly(q \o <<u>>)
<1> DEFINE r == q \o <<u>>
<1>1. /\ r \in Seq(Update) /\ Len(q) \in Nat /\ Len(r) = Len(q) + 1
      /\ \A i \in 1 .. Len(q) : r[i] = q[i]
      /\ r[Len(q) + 1] = u
  OBVIOUS
<1> HIDE DEF r
<1>2. /\ Len(q) + 1 \in 1 .. Len(r)
      /\ \A i \in 1 .. Len(q) : i \in 1 .. Len(r)
      /\ \A i \in 1 .. Len(r) : i \in 1 .. Len(q) \/ i = Len(q) + 1
  BY <1>1
<1>3. \A x : On(q, x) \/ x \in u.add => On(r, x)
  BY <1>1, <1>2 DEF On
<1>4. AddsOnly(q) /\ u.del = {} => AddsOnly(r)
  BY <1>1, <1>2 DEF AddsOnly
<1> QED
  BY <1>1, <1>3, <1>4 DEF r

\* In a session the host's user does nothing but save, and only it types.
OnlyHostTypes == SessionOps \subseteq {"save"} /\ Member \notin SessionTypists

InSession == Host \in Site /\ win[Host].started

Quiet == \A s \in {Host, Member} : mail[s] = <<>>

\* What was typed is in the member's window w, or in one of the queues q.
Reaches(q, w, typed) ==
    \A x \in typed : \/ On(q[Member], x)
                     \/ On(q[Host], x)
                     \/ w.started /\ x \in w.box

Underway ==
    /\ \A x \in shared : x \in win[Host].box /\ win[Host].path = x.file
    /\ \A s \in {Host, Member} : AddsOnly(mail[s])
    /\ Member \in Site => Reaches(mail, win[Member], shared)

\* No window has a token to spare, and only a member receives.
Settled(s) == /\ win[s].tokens <= 0 /\ win[s].out = <<>>
              /\ win[s].updating => s = Member /\ ~win[s].started

EditsInv ==
    /\ \A s \in Site : Settled(s)
    /\ ~InSession =>
           /\ shared = {} /\ Quiet
           /\ \A s \in Site : ~win[s].started /\ ~win[s].updating
    /\ InSession => win[Host].path # NoName
    /\ InSession /\ win[Host].tokens < 0 => Quiet
    /\ InSession /\ win[Host].tokens = 0 => Underway

\* A step that tells nothing, and leaves the host's text in a session and the
\* member's once it takes part.
LEMMA EditsKept ==
    ASSUME EditsInv, shared' = shared, mail' = mail,
           \A s \in Site : Settled(s)',
           Host \in Site => win'[Host].started = win[Host].started,
           InSession => /\ win'[Host].tokens = win[Host].tokens
                        /\ win'[Host].box = win[Host].box
                        /\ win'[Host].path = win[Host].path,
           ~InSession => \A s \in Site : ~win'[s].started /\ ~win'[s].updating,
           Member \in Site /\ win[Member].started =>
               win'[Member].started /\ win'[Member].box = win[Member].box
    PROVE  EditsInv'
<1>1. (InSession' <=> InSession) /\ (Quiet' <=> Quiet)
  BY DEF InSession, Quiet
<1>2. ASSUME InSession, win[Host].tokens = 0 PROVE Underway'
  <2>1. Underway
    BY <1>2 DEF EditsInv
  <2>2. ASSUME Member \in Site PROVE Reaches(mail, win'[Member], shared)
    BY <2>1, <2>2 DEF Underway, Reaches
  <2>3. \A x \in shared : x \in win'[Host].box /\ win'[Host].path = x.file
    BY <1>2, <2>1 DEF Underway
  <2>4. \A s \in {Host, Member} : AddsOnly(mail[s])
    BY <2>1 DEF Underway
  <2> QED
    BY <2>2, <2>3, <2>4 DEF Underway
<1> QED
  BY <1>1, <1>2 DEF EditsInv

\* What a user does before a session.
LEMMA UserBeforeEdits ==
    ASSUME TypeOK, EditsInv, NEW s \in Site, User(s), ~win[s].started
    PROVE  EditsInv'
<1>0. s = Host \/ s = Member
  BY StepWindow
<1>1. /\ ~win[s].updating /\ ~win'[s].updating
      /\ win'[s].started = win[s].started
      /\ \A t \in Site \ {s} : win'[t] = win[t]
      /\ Passes(win'[s], win[s])
      /\ Silent(win[s]) => mail' = mail
  BY UserSteady
<1>2. Silent(win[s])
  BY DEF EditsInv, Settled, Silent
<1>3. /\ mail' = mail /\ win'[s].tokens <= 0 /\ win'[s].out = <<>>
      /\ ~win'[s].started
  BY <1>1, <1>2 DEF Passes, Silent
<1>4. shared' = shared
  BY DEF User, OpenProject, Type, SaveFiles, CloseProgram, SelectFile,
         NewFile, RemoveFile, Do
<1>5. Idle(s)
  BY DEF User, OpenProject, Type, SaveFiles, CloseProgram, SelectFile,
         NewFile, RemoveFile, Do
<1>6. ~InSession
  BY <1>0, <1>5 DEF Idle, HostHasSent, InSession
<1>7. \A t \in Site : Settled(t)'
  BY <1>1, <1>3 DEF EditsInv, Settled
<1>8. \A t \in Site : ~win'[t].started /\ ~win'[t].updating
  BY <1>1, <1>3, <1>6 DEF EditsInv
<1> QED
  BY <1>0, <1>1, <1>3, <1>4, <1>6, <1>7, <1>8, EditsKept DEF EditsInv

\* What a user does in a session besides typing.
LEMMA UserInEdits ==
    ASSUME OnlyHostTypes, TypeOK, EditsInv,
           NEW s \in Site, User(s), win[s].started, ~Type(s)
    PROVE  EditsInv'
<1> DEFINE w == win[s]
<1>0. w \in Window /\ (s = Host \/ s = Member)
  BY StepWindow
<1>1. /\ ~w.updating /\ ~win'[s].updating /\ win'[s].started = w.started
      /\ \A t \in Site \ {s} : win'[t] = win[t]
  BY UserSteady
<1>2. InSession
  BY DEF EditsInv
<1>3. OpenProject(s) \/ SaveFiles(s)
  <2>1. ~CloseProgram(s)
    BY DEF CloseProgram, Do, OnlyHostTypes
  <2>2. \A f \in Name : ~SelectFile(s, f) /\ ~NewFile(s, f) /\ ~RemoveFile(s, f)
    BY DEF SelectFile, NewFile, RemoveFile, Do, OnlyHostTypes
  <2> QED
    BY <2>1, <2>2 DEF User
<1>4. shared' = shared
  BY <1>3 DEF OpenProject, SaveFiles, Do
<1>5. PICK v \in Window : /\ Turn(s, v) /\ v.out = w.out
                          /\ v.tokens = w.tokens /\ v.box = w.box
                          /\ Opened(s) => v.path = w.path
  <2>1. CASE SaveFiles(s)
    <3> DEFINE v == SaveContentToFile(w)
    <3>1. v \in Window /\ Turn(s, v)
      BY <1>0, <2>1, SaveType DEF SaveFiles, Do
    <3> HIDE DEF w
    <3>2. /\ v.out = w.out /\ v.tokens = w.tokens /\ v.box = w.box
          /\ v.path = w.path
      BY <1>0 DEF SaveContentToFile, Window
    <3> HIDE DEF v
    <3> QED
      BY <3>1, <3>2
  <2>2. CASE OpenProject(s)
    <3> DEFINE f == Project[s]
               k == Create(w, f)
               made == IF f \in w.files THEN w ELSE k
               tree == made.tree \cup {f}
               v == OpenedProject(w, f)
    <3>1. f \in Name
      BY StepWindow, FilesAssumption
    <3>2. v \in Window /\ Turn(s, v) /\ ~Opened(s)
      BY <1>0, <2>2, <3>1, OpenedProjectType DEF OpenProject
    <3>3. v = [[made EXCEPT !.tree = tree, !.label = f] EXCEPT !.path = f]
      BY DEF OpenedProject, AddFile
    <3> HIDE DEF w, f
    <3>4. /\ k \in Window /\ k.out = w.out /\ k.tokens = w.tokens
          /\ k.box = w.box
      BY <1>0, <3>1, CreateType DEF Create, Window
    <3> HIDE DEF k
    <3>5. /\ made \in Window /\ made.out = w.out /\ made.tokens = w.tokens
          /\ made.box = w.box
      BY <1>0, <3>4
    <3> HIDE DEF made, tree, v
    <3>6. v.out = made.out /\ v.tokens = made.tokens /\ v.box = made.box
      BY <3>3, <3>5 DEF Window
    <3> QED
      BY <3>2, <3>5, <3>6
  <2> QED
    BY <1>3, <2>1, <2>2
<1>6. w.tokens <= 0 /\ w.out = <<>>
  BY DEF EditsInv, Settled
<1>7. /\ SameButText(win'[s], v) /\ win'[s].box = v.box
      /\ win'[s].tokens = v.tokens /\ win'[s].out = <<>>
      /\ mail' = mail
  BY <1>5, <1>6, TurnMakes
<1>8. \A t \in Site : Settled(t)'
  BY <1>1, <1>5, <1>6, <1>7 DEF EditsInv, Settled
<1>9. win'[Host].path = win[Host].path
  <2>1. s = Host => Opened(s)
    BY <1>2 DEF EditsInv, Opened
  <2> QED
    BY <1>0, <1>1, <1>2, <1>5, <1>7, <2>1 DEF SameButText, InSession
<1>10. Host \in Site
  BY <1>2 DEF InSession
<1> QED
  BY <1>0, <1>1, <1>2, <1>4, <1>5, <1>7, <1>8, <1>9, <1>10, EditsKept

\* A stroke of the host's user: told when the counter is in order.
LEMMA StrokeTold ==
    ASSUME NEW w \in Window, NEW x \in Stroke,
           w.tokens <= 0, ~w.updating, w.started, w.out = <<>>
    PROVE  LET v == Change(w, FALSE, {}, {x})
           IN  /\ v.box = w.box \cup {x}
               /\ w.tokens = 0 => /\ v.out = <<[del |-> {}, add |-> {x}]>>
                                  /\ v.tokens = 0
               /\ w.tokens # 0 => v.out = <<>> /\ v.tokens < 0
<1> DEFINE told == Append(w.out, [del |-> {}, add |-> {x}])
           new  == (w.box \ {}) \cup {x}
           less == w.tokens - 1
           v    == Change(w, FALSE, {}, {x})
<1>1. v = IF w.tokens = 0 THEN [w EXCEPT !.out = told, !.box = new]
          ELSE [w EXCEPT !.box = new, !.tokens = less]
  BY DEF Change
<1>2. told = <<[del |-> {}, add |-> {x}]>> /\ new = w.box \cup {x}
  OBVIOUS
<1>3. less \in Int /\ less < 0
  BY DEF Window
<1> HIDE DEF told, new, less, v
<1>4. CASE w.tokens = 0
  <2>1. v.box = new /\ v.out = told /\ v.tokens = w.tokens
    BY <1>1, <1>4 DEF Window
  <2> QED
    BY <1>2, <1>4, <2>1 DEF v
<1>5. CASE w.tokens # 0
  <2>1. v.box = new /\ v.out = w.out /\ v.tokens = less
    BY <1>1, <1>5 DEF Window
  <2> QED
    BY <1>2, <1>3, <1>5, <2>1 DEF v
<1> QED
  BY <1>4, <1>5

\* Typing in the session.
LEMMA TypeEdits ==
    ASSUME OnlyHostTypes, TypeOK, EditsInv,
           NEW s \in Site, Type(s), win[s].started
    PROVE  EditsInv'
<1> DEFINE w == win[Host]
           x == [file |-> w.path, n |-> strokes + 1]
           u == [del |-> {}, add |-> {x}]
           v == Change(w, FALSE, {}, {x})
           z == win'[Host]
<1>1. s = Host /\ Host \in Site /\ Host # Member
  BY StepWindow DEF Type, OnlyHostTypes, Host, Member
<1>2. /\ w \in Window /\ ~w.updating /\ w.started /\ w.path # NoName
      /\ strokes + 1 \in 1 .. MaxStrokes
  BY <1>1, StepWindow, WorkspaceAssumption DEF Type, Idle, Opened, TypeOK
<1>3. InSession /\ w.tokens <= 0 /\ w.out = <<>>
  BY <1>1 DEF InSession, EditsInv, Settled
<1>4. x \in Stroke /\ x.file = w.path
  BY <1>2 DEF Window, Stroke
<1>5. shared' = shared \cup {x}
  BY <1>1 DEF Type
<1>6. Turn(Host, v)
  <2>1. (Host = Member) = FALSE
    BY <1>1
  <2> QED
    BY <1>1, <2>1 DEF Type
<1> HIDE DEF x
<1>7. u \in Update /\ u.del = {} /\ x \in u.add
  BY <1>4 DEF Update, Content
<1> HIDE DEF w
<1>8. /\ v \in Window /\ SameButText(v, w)
  <2>1. {} \in Content /\ {x} \in Content
    BY <1>4 DEF Content
  <2> QED
    BY <1>2, <2>1, ChangeType, ChangeText, ZenonT(60)
<1>9. /\ v.box = w.box \cup {x}
      /\ w.tokens = 0 => v.out = <<u>> /\ v.tokens = 0
      /\ w.tokens # 0 => v.out = <<>> /\ v.tokens < 0
  BY <1>2, <1>3, <1>4, StrokeTold
<1> HIDE DEF v, u
<1>10. /\ SameButText(z, v) /\ z.box = v.box /\ z.tokens = v.tokens
       /\ z.out = <<>> /\ \A t \in Site \ {Host} : win'[t] = win[t]
       /\ v.out = <<>> => mail' = mail
  BY <1>1, <1>6, <1>8, TurnMakes
<1> HIDE DEF z
<1>11. /\ z.started /\ ~z.updating /\ z.path = w.path
       /\ z.box = w.box \cup {x} /\ z.tokens <= 0
       /\ z.tokens = 0 <=> w.tokens = 0
  <2>1. v.tokens <= 0 /\ (v.tokens = 0 <=> w.tokens = 0)
    <3>1. v.tokens \in Int /\ w.tokens \in Int
      BY <1>2, <1>8 DEF Window
    <3> QED
      BY <1>9, <3>1
  <2> QED
    BY <1>2, <1>8, <1>9, <1>10, <2>1 DEF SameButText
<1>12. InSession'
  BY <1>1, <1>11 DEF InSession, z
<1>13. \A t \in Site : Settled(t)'
  BY <1>10, <1>11 DEF EditsInv, Settled, z
<1>14. z.tokens \in Int /\ w.tokens \in Int
  <2>1. v.tokens \in Int /\ w.tokens \in Int
    BY <1>2, <1>8 DEF Window
  <2> QED
    BY <1>10, <2>1
<1>15. ASSUME w.tokens # 0 PROVE Quiet'
  <2>1. w.tokens < 0
    BY <1>3, <1>14, <1>15
  <2>2. Quiet
    BY <1>3, <2>1 DEF EditsInv, w
  <2> QED
    BY <1>9, <1>10, <1>15, <2>2 DEF Quiet
<1>16. ASSUME w.tokens = 0 PROVE Underway'
  <2>1. Underway
    BY <1>3, <1>16 DEF EditsInv, w
  <2>2. /\ mail[Member] \in Seq(Update) /\ mail'[Host] = mail[Host]
        /\ mail'[Member] = mail[Member] \o <<u>>
    <3>1. mail' = [mail EXCEPT ![Member] = @ \o <<u>>]
      BY <1>6, <1>9, <1>16 DEF Turn, Peer
    <3> QED
      BY <1>1, <3>1 DEF TypeOK
  <2>3. \A t \in {Host, Member} : AddsOnly(mail'[t])
    BY <1>7, <2>1, <2>2, OneMore DEF Underway
  <2>4. \A y \in shared' : y \in z.box /\ z.path = y.file
    BY <1>4, <1>5, <1>11, <2>1 DEF Underway, w
  <2>5. ASSUME Member \in Site PROVE Reaches(mail', win'[Member], shared')
    <3>1. win'[Member] = win[Member]
      BY <1>1, <1>10, <2>5
    <3>2. Reaches(mail, win[Member], shared)
      BY <2>1, <2>5 DEF Underway
    <3>3. \A y : On(mail[Member], y) \/ y = x => On(mail'[Member], y)
      BY <1>7, <2>2, OneMore
    <3> QED
      BY <1>5, <2>2, <3>1, <3>2, <3>3 DEF Reaches
  <2> QED
    BY <2>3, <2>4, <2>5 DEF Underway, z
<1>17. z.path # NoName
  BY <1>2, <1>11
<1>18. z.tokens < 0 => w.tokens # 0
  BY <1>11, <1>14
<1> QED
  BY <1>11, <1>12, <1>13, <1>15, <1>16, <1>17, <1>18 DEF EditsInv, z

\* The garbage collector.
LEMMA CollectEdits ==
    ASSUME TypeOK, EditsInv, NEW s \in Site, Collect(s)
    PROVE  EditsInv'
<1>1. /\ \A t \in Site :
            /\ win'[t].updating = win[t].updating
            /\ win'[t].started = win[t].started
            /\ win'[t].path = win[t].path /\ win'[t].box = win[t].box
            /\ win'[t].tokens = win[t].tokens /\ win'[t].out = win[t].out
      /\ mail' = mail /\ shared' = shared
  BY Collected
<1>2. \A t \in Site : Settled(t)'
  BY <1>1 DEF EditsInv, Settled
<1> QED
  BY <1>1, <1>2, EditsKept DEF EditsInv, InSession

\* The session begins with nothing on its way, or the host ends.
LEMMA HostStartsEdits ==
    ASSUME TypeOK, EditsInv, HostStarts
    PROVE  EditsInv'
<1> DEFINE w == win[Host]
           z == win'[Host]
           yes == TRUE
<1>1. /\ Host \in Site /\ w \in Window /\ ~w.started /\ w.path # NoName
      /\ mail' = mail /\ shared' = shared
  BY StepWindow DEF HostStarts, Opened
<1>2. /\ \/ z = [w EXCEPT !.crashed = yes]
         \/ z = [w EXCEPT !.started = yes]
      /\ \A t \in Site \ {Host} : win'[t] = win[t]
  BY <1>1 DEF HostStarts, Crash, TypeOK
<1>3. ~InSession
  BY <1>1 DEF InSession
<1>4. /\ shared = {} /\ Quiet /\ w.tokens <= 0 /\ w.out = <<>> /\ ~w.updating
      /\ \A t \in Site : ~win[t].started /\ ~win[t].updating /\ Settled(t)
  BY <1>1, <1>3 DEF EditsInv, Settled
<1> HIDE DEF w, z, yes
<1>5. /\ z.tokens = w.tokens /\ z.out = w.out /\ z.updating = w.updating
      /\ z.path = w.path
  BY <1>1, <1>2 DEF Window
<1>6. Quiet' /\ shared' = {}
  BY <1>1, <1>4 DEF Quiet
<1>7. \A t \in Site : Settled(t)'
  BY <1>2, <1>4, <1>5 DEF Settled, z
<1>8. Underway'
  <2>1. \A t \in {Host, Member} : AddsOnly(mail'[t])
    BY <1>6 DEF Quiet, AddsOnly
  <2>2. Reaches(mail', win'[Member], shared')
    BY <1>6 DEF Reaches
  <2> QED
    BY <1>6, <2>1, <2>2 DEF Underway
<1>9. ~InSession' => \A t \in Site : ~win'[t].started /\ ~win'[t].updating
  <2>1. ASSUME ~InSession' PROVE ~z.started
    BY <1>1, <2>1 DEF InSession, z
  <2> QED
    BY <1>2, <1>4, <1>5, <2>1 DEF z
<1> QED
  BY <1>1, <1>5, <1>6, <1>7, <1>8, <1>9 DEF EditsInv, z

\* The member's receiving tells nothing and takes no part in the session yet.
LEMMA ReceivingEdits ==
    ASSUME TypeOK, EditsInv, InSession, Member \in Site,
           mail' = mail, shared' = shared,
           \A t \in Site \ {Member} : win'[t] = win[t],
           ~win[Member].started,
           win'[Member].tokens <= 0, win'[Member].out = <<>>,
           win'[Member].updating => ~win'[Member].started
    PROVE  EditsInv'
<1>1. Host \in Site \ {Member}
  BY DEF InSession, Host, Member
<1>2. win'[Host] = win[Host]
  BY <1>1
<1>3. \A t \in Site : Settled(t)'
  BY DEF EditsInv, Settled
<1> QED
  BY <1>2, <1>3, EditsKept

\* A turn of the receiving thread.
LEMMA ReceiveTurnEdits ==
    ASSUME TypeOK, ArrivingInv, EditsInv, Receives,
           NEW v \in Window, Turn(Member, v), Passes(v, win[Member])
    PROVE  EditsInv'
<1>1. /\ Member \in Site /\ win[Member].updating /\ shared' = shared
  BY DEF Receives
<1>2. InSession
  BY <1>1 DEF ArrivingInv, InSession
<1>3. Silent(win[Member])
  BY <1>1 DEF EditsInv, Settled, Silent
<1>4. Passes(win'[Member], win[Member]) /\ mail' = mail
      /\ \A t \in Site \ {Member} : win'[t] = win[t]
  BY <1>1, <1>3, TurnPasses, TurnMakes
<1>5. Silent(win'[Member])
  BY <1>3, <1>4 DEF Passes
<1> QED
  BY <1>1, <1>2, <1>3, <1>4, <1>5, ReceivingEdits DEF Silent

LEMMA MemberStartsEdits ==
    ASSUME TypeOK, EditsInv, MemberStarts
    PROVE  EditsInv'
<1> DEFINE w == win[Member]
           z == win'[Member]
           yes == TRUE
<1>1. /\ Member \in Site /\ w \in Window /\ ~w.started
      /\ mail' = mail /\ shared' = shared /\ InSession
  BY StepWindow DEF MemberStarts, InSession
<1>2. z = [w EXCEPT !.updating = yes]
      /\ \A t \in Site \ {Member} : win'[t] = win[t]
  BY <1>1 DEF MemberStarts, TypeOK
<1>3. w.tokens <= 0 /\ w.out = <<>>
  BY <1>1 DEF EditsInv, Settled
<1> HIDE DEF w, z, yes
<1>4. z.tokens = w.tokens /\ z.out = w.out /\ z.started = w.started
  BY <1>1, <1>2 DEF Window
<1> QED
  BY <1>1, <1>2, <1>3, <1>4, ReceivingEdits DEF w, z

LEMMA ClearOneEdits ==
    ASSUME TypeOK, ArrivingInv, EditsInv, ClearOne
    PROVE  EditsInv'
<1> DEFINE w == win[Member]
           yes == TRUE
<1>1. Receives
  BY DEF ClearOne
<1>2. PICK f \in receiving.old : \E next \in Listed(w, f, yes) :
          Turn(Member, removeFile(w, yes, f, yes, next))
  BY DEF ClearOne
<1>3. w \in Window /\ f \in Name /\ yes \in BOOLEAN
  BY <1>1, Receiver DEF Receiving
<1>4. PICK next \in Listed(w, f, yes) :
          Turn(Member, removeFile(w, yes, f, yes, next))
  BY <1>2
<1>5. next \in Name
  BY <1>3, ListedType
<1> HIDE DEF w, yes
<1> DEFINE v == removeFile(w, yes, f, yes, next)
<1>6. v \in Window /\ Passes(v, w)
  BY <1>3, <1>5, RemoveType, RemoveText
<1>7. Turn(Member, v)
  BY <1>4
<1> HIDE DEF v
<1> QED
  BY <1>1, <1>6, <1>7, ReceiveTurnEdits DEF w

LEMMA CreateOneEdits ==
    ASSUME TypeOK, ArrivingInv, EditsInv, CreateOne
    PROVE  EditsInv'
<1> DEFINE w == win[Member]
           f == Head(receiving.create).file
           k == Create(w, f)
           a == AddFile(k, f)
           c == Crash(w)
           v == Received(w, f)
<1>1. Receives /\ Turn(Member, v)
  BY DEF CreateOne
<1>2. w \in Window /\ f \in Name
  <2>1. /\ w \in Window /\ receiving.create \in Seq(Entry)
        /\ receiving.create # <<>>
    BY <1>1, Receiver DEF CreateOne, Receiving
  <2>2. Head(receiving.create) \in Entry
    BY <2>1
  <2> QED
    BY <2>1, <2>2 DEF Entry
<1>3. v \in {a, c}
  BY DEF Received
<1> HIDE DEF w, f
<1>4. k \in Window /\ Passes(k, w)
  BY <1>2, CreateType, CreatePasses
<1> HIDE DEF k
<1>5. a \in Window /\ Passes(a, w)
  BY <1>2, <1>4, AddFileType, AddFilePasses, PassesOn
<1>6. c \in Window /\ Passes(c, w)
  <2> DEFINE yes == TRUE
  <2>1. c = [w EXCEPT !.crashed = yes] /\ yes \in BOOLEAN
    BY DEF Crash
  <2> HIDE DEF yes, c
  <2>2. /\ c \in Window /\ c.open = w.open /\ c.saved = w.saved
        /\ c.tokens = w.tokens /\ c.out = w.out /\ c.started = w.started
    BY <1>2, <2>1 DEF Window
  <2> QED
    BY <1>2, <2>2, PassesAlike
<1> HIDE DEF a, c, v
<1>7. v \in Window /\ Passes(v, w) /\ Turn(Member, v)
  BY <1>1, <1>3, <1>5, <1>6
<1> QED
  BY <1>1, <1>7, ReceiveTurnEdits DEF w

LEMMA FillOneEdits ==
    ASSUME TypeOK, ArrivingInv, EditsInv, FillOne
    PROVE  EditsInv'
<1> DEFINE w == win[Member]
           e == Head(receiving.fill)
           first == ~receiving.loaded
           v == Filled(w, TRUE, e, first)
<1>1. Receives /\ Turn(Member, v)
  BY DEF FillOne
<1>2. w \in Window /\ w.updating /\ e \in Entry /\ first \in BOOLEAN
  <2>1. /\ w \in Window /\ w.updating /\ receiving.fill \in Seq(Entry)
        /\ receiving.fill # <<>>
    BY <1>1, Receiver DEF FillOne, Receiving
  <2>2. e \in Entry
    BY <2>1
  <2> QED
    BY <2>1, <2>2
<1> HIDE DEF w, e, first
<1>3. v \in Window /\ Passes(v, w)
  BY <1>2, FilledType, FilledText
<1> HIDE DEF v
<1> QED
  BY <1>1, <1>3, ReceiveTurnEdits DEF w

LEMMA AllReceivedEdits ==
    ASSUME TypeOK, ArrivingInv, EditsInv, AllReceived
    PROVE  EditsInv'
<1> DEFINE w == win[Member]
           z == win'[Member]
           yes == TRUE
           no == FALSE
<1>1. /\ Member \in Site /\ w \in Window /\ w.updating
      /\ mail' = mail /\ shared' = shared
  BY StepWindow DEF AllReceived, Receives
<1>2. z = [w EXCEPT !.updating = no, !.started = yes]
      /\ \A t \in Site \ {Member} : win'[t] = win[t]
  BY <1>1 DEF AllReceived, TypeOK
<1>3. InSession
  BY <1>1 DEF ArrivingInv, InSession
<1>4. w.tokens <= 0 /\ w.out = <<>> /\ ~w.started
  BY <1>1 DEF EditsInv, Settled
<1> HIDE DEF w, z, yes, no
<1>5. z.tokens = w.tokens /\ z.out = w.out /\ z.updating = no
  BY <1>1, <1>2 DEF Window
<1> QED
  BY <1>1, <1>2, <1>3, <1>4, <1>5, ReceivingEdits DEF w, z, no

\* An insertion that arrives.  The window gets a token and uses it up with the
\* change, except when its counter stood at -1: then the change is taken for
\* the user's, and a member undoes it and tells it back.
LEMMA InsertionArrives ==
    ASSUME NEW w \in Window, NEW m \in BOOLEAN, NEW u \in Update, u.del = {},
           w.started, ~w.updating, w.out = <<>>
    PROVE  LET v == ApplyUpdate(w, m, u)
           IN  /\ v \in Window /\ SameButText(v, w)
               /\ w.tokens # -1 => /\ v.tokens = w.tokens /\ v.out = <<>>
                                   /\ v.box = w.box \cup u.add
               /\ w.tokens = -1 /\ m =>
                    /\ v.tokens = 0 /\ v.box = w.box
                    /\ u.add = {} => v.out = <<>>
                    /\ u.add # {} => v.out = <<u>>
<1> DEFINE tokens == w.tokens + 1
           k    == [w EXCEPT !.tokens = tokens]
           new  == (k.box \ {}) \cup u.add
           told == IF u.add = {} THEN k.out
                   ELSE Append(k.out, [del |-> {}, add |-> u.add])
           v    == ApplyUpdate(w, m, u)
<1>0. u.add \in Content /\ w.tokens \in Int /\ tokens \in Int
  BY DEF Update, Window
<1>1. v = Change(k, m, {}, u.add)
  BY DEF ApplyUpdate
<1>2. v \in Window /\ SameButText(v, w)
  BY ApplyUpdateType, ApplyUpdateText
<1> HIDE DEF v
<1>3. /\ k \in Window /\ k.started /\ ~k.updating /\ k.tokens = tokens
      /\ k.box = w.box /\ k.out = <<>>
  <2> HIDE DEF tokens
  <2> QED
    BY <1>0 DEF Window
<1> HIDE DEF k
<1>4. new = w.box \cup u.add
  BY <1>3
<1>5. u = [del |-> {}, add |-> u.add]
  BY DEF Update
<1>6. (u.add = {} => told = <<>>) /\ (u.add # {} => told = <<u>>)
  <2>1. told = IF u.add = {} THEN <<>>
               ELSE Append(<<>>, [del |-> {}, add |-> u.add])
    BY <1>3
  <2> HIDE DEF told
  <2>2. u.add # {} => told = Append(<<>>, u)
    BY <1>5, <2>1
  <2>3. Append(<<>>, u) = <<u>>
    OBVIOUS
  <2> QED
    BY <2>1, <2>2, <2>3
<1>7. tokens = 0 => v = [k EXCEPT !.out = told,
                                  !.box = IF m THEN k.box ELSE new]
  BY <1>1, <1>3 DEF Change
<1>8. tokens # 0 => v = [k EXCEPT !.box = new, !.tokens = k.tokens - 1]
  BY <1>1, <1>3 DEF Change
<1> HIDE DEF new, told
<1>9. CASE tokens = 0
  <2>1. v.tokens = 0 /\ v.out = told /\ (m => v.box = w.box)
    BY <1>3, <1>7, <1>9 DEF Window
  <2>2. w.tokens = -1
    BY <1>0, <1>9
  <2> QED
    BY <1>2, <1>6, <2>1, <2>2 DEF v
<1>10. CASE tokens # 0
  <2>1. v.out = <<>> /\ v.box = new /\ v.tokens = k.tokens - 1
    BY <1>3, <1>8, <1>10 DEF Window
  <2>2. w.tokens # -1 /\ v.tokens = w.tokens
    BY <1>0, <1>3, <1>10, <2>1
  <2> QED
    BY <1>2, <1>4, <2>1, <2>2 DEF v
<1> QED
  BY <1>9, <1>10

\* Deliver takes the head of one queue and adds what it tells to the other.
LEMMA Delivered ==
    ASSUME TypeOK, NEW s \in Site, Deliver(s)
    PROVE  LET u == Head(mail[s])
               v == ApplyUpdate(win[s], s = Member, u)
           IN  /\ win'[s] = [v EXCEPT !.out = <<>>]
               /\ \A t \in Site \ {s} : win'[t] = win[t]
               /\ mail[s] \in Seq(Update) /\ mail[s] # <<>>
               /\ mail'[s] = Tail(mail[s])
               /\ mail'[Peer(s)] = (mail[Peer(s)]
                      \o IF s = Host THEN <<u>> ELSE <<>>) \o v.out
<1>1. s \in {Host, Member} /\ Peer(s) \in {Host, Member} /\ Peer(s) # s
  BY StepWindow DEF Peer, Host, Member
<1> DEFINE onwards == IF s = Host THEN <<Head(mail[s])>> ELSE <<>>
           v == ApplyUpdate(win[s], s = Member, Head(mail[s]))
           z == [v EXCEPT !.out = <<>>]
           sent == (mail[Peer(s)] \o onwards) \o v.out
<1>2. /\ win' = [win EXCEPT ![s] = z] /\ mail[s] # <<>>
      /\ mail' = [mail EXCEPT ![s] = Tail(@), ![Peer(s)] = sent]
  BY DEF Deliver
<1> HIDE DEF z, sent
<1>3. /\ win'[s] = z /\ \A t \in Site \ {s} : win'[t] = win[t]
      /\ mail[s] \in Seq(Update) /\ mail'[s] = Tail(mail[s])
      /\ mail'[Peer(s)] = sent
  BY <1>1, <1>2 DEF TypeOK
<1> QED
  BY <1>2, <1>3 DEF z, sent
\* What arrives at the host: it makes the insertion and sends it on.
LEMMA HostDeliverEdits ==
    ASSUME TypeOK, EditsInv, Host \in Site, Deliver(Host)
    PROVE  EditsInv'
<1> DEFINE w == win[Host]
           z == win'[Host]
           u == Head(mail[Host])
           no == FALSE
           v == ApplyUpdate(w, no, u)
           nothing == <<>>
<1>0. w \in Window /\ Host # Member /\ (Host = Member) = no
      /\ no \in BOOLEAN
  BY StepWindow DEF Host, Member
<1>1. /\ shared' = shared /\ w.started /\ ~w.updating /\ mail[Host] # <<>>
  BY DEF Deliver, Idle
<1>2. /\ InSession /\ w.out = <<>> /\ w.path # NoName
      /\ w.tokens \in Int /\ w.tokens <= 0
  BY <1>0, <1>1 DEF InSession, EditsInv, Settled, Window
<1>3. w.tokens = 0
  <2>1. ~Quiet
    BY <1>1 DEF Quiet
  <2>2. ~ (w.tokens < 0)
    BY <1>2, <2>1 DEF EditsInv
  <2> QED
    BY <1>2, <2>2
<1>4. Underway
  BY <1>2, <1>3 DEF EditsInv
<1>5. /\ z = [v EXCEPT !.out = nothing]
      /\ \A t \in Site \ {Host} : win'[t] = win[t]
      /\ mail[Host] \in Seq(Update)
      /\ mail'[Host] = Tail(mail[Host])
      /\ mail'[Member] = (mail[Member] \o <<u>>) \o v.out
  BY <1>0, Delivered DEF Peer
<1>6. /\ u \in Update /\ Tail(mail[Host]) \in Seq(Update)
      /\ \A x : On(mail[Host], x) => x \in u.add \/ On(Tail(mail[Host]), x)
      /\ u.del = {} /\ AddsOnly(Tail(mail[Host]))
  BY <1>1, <1>4, <1>5, HeadOrTail DEF Underway
<1> HIDE DEF w, u, nothing, no
<1>7. /\ v \in Window /\ SameButText(v, w) /\ v.tokens = 0 /\ v.out = <<>>
      /\ v.box = w.box \cup u.add
  <2>1. /\ v \in Window /\ SameButText(v, w)
        /\ w.tokens # -1 => /\ v.tokens = w.tokens /\ v.out = <<>>
                            /\ v.box = w.box \cup u.add
    BY <1>0, <1>1, <1>2, <1>6, InsertionArrives
  <2>2. w.tokens # -1
    BY <1>3
  <2> QED
    BY <1>3, <2>1, <2>2
<1> HIDE DEF v, z
<1>8. /\ z.box = v.box /\ z.tokens = v.tokens /\ z.path = v.path
      /\ z.started = v.started /\ z.updating = v.updating /\ z.out = nothing
  BY <1>5, <1>7 DEF Window
<1>9. /\ mail[Member] \in Seq(Update)
      /\ mail'[Member] = mail[Member] \o <<u>>
  <2>1. mail[Member] \in Seq(Update)
    BY DEF TypeOK
  <2>2. mail[Member] \o <<u>> \in Seq(Update)
    BY <1>6, <2>1, OneMore
  <2> QED
    BY <1>5, <1>7, <2>1, <2>2
<1>10. \A t \in {Host, Member} : AddsOnly(mail'[t])
  <2>1. AddsOnly(mail[Member] \o <<u>>)
    BY <1>4, <1>6, <1>9, OneMore DEF Underway
  <2> QED
    BY <1>5, <1>6, <1>9, <2>1
<1>11. \A x \in shared : x \in z.box /\ z.path = x.file
  BY <1>4, <1>7, <1>8 DEF Underway, SameButText, w
<1>12. ASSUME Member \in Site PROVE Reaches(mail', win'[Member], shared)
  <2>1. win'[Member] = win[Member]
    BY <1>0, <1>5, <1>12
  <2>2. Reaches(mail, win[Member], shared)
    BY <1>4, <1>12 DEF Underway
  <2>3. \A x : On(mail[Member], x) \/ x \in u.add => On(mail'[Member], x)
    BY <1>6, <1>9, OneMore
  <2>4. \A x : On(mail[Host], x) => x \in u.add \/ On(mail'[Host], x)
    BY <1>5, <1>6
  <2> QED
    BY <2>1, <2>2, <2>3, <2>4 DEF Reaches
<1>13. Underway'
  BY <1>1, <1>10, <1>11, <1>12 DEF Underway, z
<1>14. z.started /\ ~z.updating /\ z.path = w.path
  BY <1>1, <1>7, <1>8 DEF SameButText
<1>15. \A t \in Site : Settled(t)'
  <2>1. z.tokens <= 0 /\ z.out = <<>> /\ ~z.updating
    BY <1>7, <1>8, <1>14 DEF nothing
  <2> QED
    BY <1>5, <2>1 DEF EditsInv, Settled, z
<1>16. InSession' /\ z.tokens = 0
  BY <1>2, <1>7, <1>8, <1>14 DEF InSession, z
<1> QED
  BY <1>2, <1>13, <1>14, <1>15, <1>16 DEF EditsInv, z

\* What arrives at the member: it makes the insertion, or gives it back.
LEMMA MemberDeliverEdits ==
    ASSUME TypeOK, EditsInv, Member \in Site, Deliver(Member)
    PROVE  EditsInv'
<1> DEFINE w == win[Member]
           z == win'[Member]
           u == Head(mail[Member])
           yes == TRUE
           v == ApplyUpdate(w, yes, u)
           nothing == <<>>
<1>0. w \in Window /\ Host # Member /\ (Member = Member) = yes
  BY StepWindow DEF Host, Member
<1>1. /\ shared' = shared /\ w.started /\ ~w.updating /\ mail[Member] # <<>>
  BY DEF Deliver, Idle
<1>2. /\ InSession /\ w.out = <<>> /\ w.tokens \in Int /\ w.tokens <= 0
  BY <1>0, <1>1 DEF EditsInv, Settled, Window
<1>3. win[Host].tokens = 0 /\ Underway
  <2>1. ~Quiet
    BY <1>1 DEF Quiet
  <2>2. ~ (win[Host].tokens < 0)
    BY <1>2, <2>1 DEF EditsInv
  <2>3. win[Host].tokens \in Int /\ win[Host].tokens <= 0
    BY <1>2, StepWindow DEF InSession, EditsInv, Settled, Window
  <2> QED
    BY <1>2, <2>2, <2>3 DEF EditsInv
<1>5. /\ z = [v EXCEPT !.out = nothing]
      /\ \A t \in Site \ {Member} : win'[t] = win[t]
      /\ mail[Member] \in Seq(Update)
      /\ mail'[Member] = Tail(mail[Member])
      /\ mail'[Host] = (mail[Host] \o <<>>) \o v.out
  BY <1>0, Delivered DEF Peer
<1>6. /\ u \in Update /\ Tail(mail[Member]) \in Seq(Update)
      /\ \A x : On(mail[Member], x) =>
                    x \in u.add \/ On(Tail(mail[Member]), x)
      /\ u.del = {} /\ AddsOnly(Tail(mail[Member]))
  BY <1>1, <1>3, <1>5, HeadOrTail DEF Underway
<1>y. yes \in BOOLEAN /\ yes
  OBVIOUS
<1> HIDE DEF w, u, nothing, yes
<1>7. /\ v \in Window /\ SameButText(v, w)
      /\ w.tokens # -1 => /\ v.tokens = w.tokens /\ v.out = <<>>
                          /\ v.box = w.box \cup u.add
      /\ w.tokens = -1 => /\ v.tokens = 0 /\ v.box = w.box
                          /\ u.add = {} => v.out = <<>>
                          /\ u.add # {} => v.out = <<u>>
  BY <1>0, <1>1, <1>2, <1>6, <1>y, InsertionArrives
<1> HIDE DEF v, z
<1>8. /\ z.box = v.box /\ z.tokens = v.tokens /\ z.path = v.path
      /\ z.started = v.started /\ z.updating = v.updating /\ z.out = nothing
  BY <1>5, <1>7 DEF Window
<1>9. mail[Host] \in Seq(Update) /\ mail'[Host] = mail[Host] \o v.out
  <2>1. mail[Host] \in Seq(Update)
    BY DEF TypeOK
  <2>2. mail[Host] \o <<>> = mail[Host]
    BY <2>1
  <2> QED
    BY <1>5, <2>1, <2>2
<1>10. \/ v.out = <<>> /\ mail'[Host] = mail[Host]
          /\ (v.box = w.box \cup u.add \/ u.add = {})
       \/ v.out = <<u>> /\ mail'[Host] = mail[Host] \o <<u>>
  <2>1. mail[Host] \o <<>> = mail[Host]
    BY <1>9
  <2>2. \/ v.out = <<>> /\ (v.box = w.box \cup u.add \/ u.add = {})
        \/ v.out = <<u>>
    BY <1>7
  <2> QED
    BY <1>9, <2>1, <2>2
<1>11. w.box \subseteq v.box
  BY <1>7
<1>12. \A t \in {Host, Member} : AddsOnly(mail'[t])
  <2>1. AddsOnly(mail'[Host])
    BY <1>3, <1>6, <1>9, <1>10, OneMore DEF Underway
  <2> QED
    BY <1>5, <1>6, <2>1
<1>13. \A x : On(mail[Host], x) => On(mail'[Host], x)
  BY <1>6, <1>9, <1>10, OneMore
<1>14. \A x \in u.add : x \in v.box \/ On(mail'[Host], x)
  <2>1. CASE v.out = <<u>> /\ mail'[Host] = mail[Host] \o <<u>>
    <3>1. \A x \in u.add : On(mail[Host] \o <<u>>, x)
      BY <1>6, <1>9, OneMore
    <3> QED
      BY <2>1, <3>1
  <2>2. CASE v.box = w.box \cup u.add \/ u.add = {}
    BY <2>2
  <2> QED
    BY <1>10, <2>1, <2>2
<1>15. \A x : On(mail[Member], x) => x \in u.add \/ On(mail'[Member], x)
  BY <1>5, <1>6
<1>16. z.started /\ ~z.updating /\ z.tokens <= 0
  <2>1. v.tokens <= 0
    BY <1>2, <1>7
  <2> QED
    BY <1>1, <1>7, <1>8, <2>1 DEF SameButText
<1>17. Reaches(mail', z, shared)
  <2>1. Reaches(mail, w, shared)
    BY <1>3 DEF Underway, w
  <2> QED
    BY <1>8, <1>11, <1>13, <1>14, <1>15, <1>16, <2>1 DEF Reaches
<1>18. Host \in Site /\ win'[Host] = win[Host] /\ InSession'
  BY <1>0, <1>2, <1>5 DEF InSession
<1>19. Underway'
  BY <1>1, <1>3, <1>12, <1>17, <1>18 DEF Underway, z
<1>20. \A t \in Site : Settled(t)'
  <2>1. z.tokens <= 0 /\ z.out = <<>> /\ ~z.updating
    BY <1>8, <1>16 DEF nothing
  <2> QED
    BY <1>5, <2>1 DEF EditsInv, Settled, z
<1> QED
  BY <1>2, <1>3, <1>18, <1>19, <1>20 DEF EditsInv

LEMMA StepEdits ==
    ASSUME OnlyHostTypes, TypeOK, ArrivingInv, EditsInv, [Next]_vars
    PROVE  EditsInv'
<1>1. CASE UNCHANGED vars
  <2>1. UNCHANGED <<win, mail, shared>>
    BY <1>1 DEF vars
  <2>2. \A t \in Site : Settled(t)'
    BY <2>1 DEF EditsInv, Settled
  <2> QED
    BY <2>1, <2>2, EditsKept DEF EditsInv
<1>2. ASSUME NEW s \in Site, User(s) PROVE EditsInv'
  BY <1>2, UserBeforeEdits, UserInEdits, TypeEdits
<1>3. ASSUME NEW s \in Site, Deliver(s) PROVE EditsInv'
  <2>1. s = Host \/ s = Member
    BY StepWindow
  <2> QED
    BY <1>3, <2>1, HostDeliverEdits, MemberDeliverEdits
<1> QED
  BY <1>1, <1>2, <1>3, CollectEdits, HostStartsEdits, MemberStartsEdits,
     ClearOneEdits, CreateOneEdits, FillOneEdits, AllReceivedEdits
     DEF Next, Session

LEMMA InitEdits == Init => EditsInv
<1> SUFFICES ASSUME Init PROVE EditsInv
  OBVIOUS
<1>1. \A s \in Site : /\ win[s].tokens = 0 /\ win[s].out = <<>>
                      /\ ~win[s].started /\ ~win[s].updating
  BY DEF Init, NewWindow
<1>2. shared = {} /\ Quiet
  BY DEF Init, Quiet
<1> QED
  BY <1>1, <1>2 DEF EditsInv, Settled, InSession

\* In a session in which only the host types and nobody but the host's user
\* chooses the file, what a host whose counter is in order has typed stands,
\* once nothing is on its way, in its own file and in the member's window:
\* whatever both users had done to their folders before and whatever files the
\* host has sent, whatever could not be written of them at the member, however
\* far the host has typed ahead of it, wherever the member's counter stood,
\* and in every order in which the updates, the member's bounced one among
\* them, and the garbage collector go on.
THEOREM SessionEditsArrive == OnlyHostTypes => (Spec => []EditsReachBoth)
<1> SUFFICES ASSUME OnlyHostTypes PROVE Spec => []EditsReachBoth
  OBVIOUS
<1>1. Init => ArrivingInv
  BY InitArriving
<1>2. TypeOK /\ ArrivingInv /\ [Next]_vars => ArrivingInv'
  BY StepArriving
<1>3. TypeOK /\ ArrivingInv /\ EditsInv /\ [Next]_vars => EditsInv'
  BY StepEdits
<1>4. EditsInv => EditsReachBoth
  <2> SUFFICES ASSUME EditsInv,
                      \A s \in {Host, Member} : s \in Site /\ win[s].started,
                      \A s \in Site : mail[s] = <<>>,
                      win[Host].tokens = 0, NEW x \in shared
               PROVE  /\ x \in win[Host].box /\ win[Host].path = x.file
                      /\ x \in win[Member].box
    BY DEF EditsReachBoth
  <2>1. Underway
    BY DEF EditsInv, InSession
  <2>2. Reaches(mail, win[Member], shared)
    BY <2>1 DEF Underway
  <2>3. Len(mail[Host]) = 0 /\ Len(mail[Member]) = 0
    OBVIOUS
  <2>4. x \in win[Member].box
    BY <2>2, <2>3 DEF Reaches, On
  <2> QED
    BY <2>1, <2>4 DEF Underway
<1> QED
  BY <1>1, <1>2, <1>3, <1>4, InitEdits, InitType, FilesStep, PTL DEF Spec
=============================================================================
