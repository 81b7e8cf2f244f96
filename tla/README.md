# Nova IDE: a formal model

Nova is a code editor in which two users type into the same file at the same
time. A C++ server (`Server/`) keeps accounts and introduces two clients to
each other; the clients (`Client/`, C#/WPF) then talk to each other directly
over UDP. One of them is the *host* of the session, the other the *member*.

This directory holds TLA+ modules that model that program, TLC configurations
that check them on small instances, and theorems with proofs checked by TLAPS.
Line numbers below are those of the sources the model was written from.

## 1. Inventory

| part | state | operations | talks to |
|---|---|---|---|
| **Editor** `Ide.xaml.cs` | text, caret, `tokens`, `deletionFlag`, undo stack of the box, `sessionStarted`, `updatingFiles` | keys, `TextBox_TextChanged`, posted `Undo`, `textUpdater` | SynchronizationManager (queues), dispatcher |
| **SynchronizationManager** | `TextUpdateQueue` (to the editor), `TextChangesQueue` (from it) | enqueue, dequeue | editor, scanner threads |
| **SessionHost** | `updateDeliveryQueue`, `epList` | distributor thread, scanner thread, broadcast, send files and id | UDP, SynchronizationManager |
| **SessionMember** | `UpdateIDEQueue`, address of the host | forwarding thread, scanner thread, parse files | UDP, SynchronizationManager |
| **P2PCommunicator** | `hostFlag`, peer address, `files`, `filesRecieved` | `ConnectP2P`, `startSesstion`, listener thread, `getFiles` | all of the above |
| **ServerCommunicator** | one UDP socket, session token | one blocking request per call | server |
| **Session server** `Server.cpp` | `clientAddresses`/`clientMap`, `sessionInvites`, `infoExchangeFlag` | a detached thread per request; `enterSession`, `exchangeInfo` | clients (UDP) |
| **Account server** `AccountHandler`, `DBCommunicator`, `EmailHandler` | `usersList` (tokens), SQLite table and its one handle, `resetCodes` | login, sign-up, codes, password reset, in a thread per request | mail script, SQLite |
| **Account pages** `Login`, `Signup`, `EmailVerfication`, `PasswordRecovery`, `NewPassword` | fields one page sets in another | buttons, one blocking request each | ServerCommunicator |
| **Project files** `Ide.xaml.cs` | the tree, `currentFilePath`, files on disk | open a project, new, remove, switch, save, send, receive | P2PCommunicator |
| **File transfer** `SendFiles`, `ReceiveAndParseMessage` | one datagram | join, encode, decode, split | SessionHost, SessionMember |
| pages, navigation, `MessageHelper`, `Nova`, mail script, SQLite | - | - | - |

The editor tells the user's edits from the changes the program makes by
counting: before `textUpdater` changes the box it puts down a token, and the
event handler takes a change with a token for the program's own. A member's
user never edits directly: the handler sends the edit to the host and posts an
`Undo`; the edit comes back with the host's broadcast. A host's edit stays.

What is hard in this code: seven threads per session poll unsynchronised
queues; the event handler, the posted Undo and the remote change interleave
on a dispatcher with priorities; UDP loses, repeats and reorders; the server's
request threads share maps and a flag without a lock; a client's blocking
request takes whatever datagram comes next for its answer. Everything of this
kind is in the `hazards` of `PROJECT.json`, at its line, with the properties
that would notice it.

What makes each part correct: the *relay* delivers each update once and in one
order; the *editor* never takes the program's change for the user's and the
two windows end up equal, with what the users typed; the *session server*
brings exactly the users together who asked for each other, one as host and
one as member, and always does; the *account server* adds an account only
after a code has come back, changes a password only for the holder of the
mail, and a password a user was told is the one that works; *project files*
hold what was typed into them and nothing else, lose nothing that was typed or
saved, and arrive at the member as they are at the host.

## 2. Modules

| module | models |
|---|---|
| `AbstractRelay` | the promise of the relay: the host orders updates, each is delivered once, but for what UDP loses, repeats or lets overtake |
| `UpdateRelay` | all queues, threads and datagrams between the two editors |
| `UpdateRelayProofs` | theorems about it |
| `Editor` | one editor as functions on its state: keys, events, Undo, remote updates |
| `EditorProofs` | lemmas about these functions |
| `SharedEditing` | two editors, their users and dispatchers, composed with the relay |
| `SharedEditingProofs`, `TurnTakingProofs` | theorems about a session, and about one whose users leave each other alone |
| `SessionSetup` | login address, invitation, exchange of addresses, connection, wait for the files |
| `SessionSetupProofs`, `PairingProofs` | theorems about it: types and consent; what a session that is set up is worth |
| `AccountServer` | login, sign-up, verification, recovery: pages, request threads, database handle |
| `AccountServerProofs` | theorems about it |
| `Workspace` | one window and its project folder as functions on its state: box, path, label, tree, files, open streams |
| `ProjectFiles` | two such windows, their users, the garbage collector, and the files and updates that go from one to the other |
| `ProjectFilesProofs` | theorems about it |
| `FileTransfer` | the format of the datagram with the files, character by character |
| `MCUpdateRelay`, `MCSharedEditing`, `MCSessionSetup`, `MCAccountServer`, `MCProjectFiles` | instances for TLC |

`SharedEditing` composes `Editor` with `UpdateRelay`, `ProjectFiles` composes
two `Workspace`s; `FileTransfer` extends the latter with the format, and
`MCProjectFiles` extends `FileTransfer`.

**UpdateRelay.** One variable per queue, one action per iteration of each
thread's loop. `textChanges`/`textUpdates` are the queues of the two
SynchronizationManagers, `updateDelivery` and `updateIDE` those of host and
member, `net[s]` the datagrams on their way to `s`. `distributing` is the
program counter of the distributor, which first broadcasts and then hands the
update to the host's editor; the host's scanner may run in between. A message
carries the editor it came from: this is not on the wire and serves the
properties. A definition named `X_Y` is `X` with a plausible mistake, kept to
show that a property notices it. Comments in `SessionHost.cs` (105, 119, 154)
say the source of an update is left out of the broadcast; the test is commented
out (161), and must be: the member depends on getting its edit back. The model
follows the code. `AbstractRelay` has two steps of its own for UDP: one update
on its way to the host, or on its way to the member, is lost, repeated or moved.
That `UpdateRelay` implements it under the same `Faults` says that the threads
and queues add no fault of their own, wherever an update is when UDP fails.

**Editor, SharedEditing.** An update is its action, offset, removed length and
text; `Edited` is what `Insert`/`Remove` do. `UserChange` has the branches of
`TextBox_TextChanged` in their order, `TextChanged` the token test around
them, `Announce`/`ApplyUpdate` the two halves of `textUpdater`: it puts the
token down (for `=` only on the dispatcher) and reads the caret *before* it
waits for the dispatcher, so `holding` keeps both in between. `Press*` are the
keys with every caret and selection up to a bound. The text box itself is
WPF's and marked external in the map: a change raises `TextChanged` at once, is
recorded for Undo, setting an equal text does nothing, a negative caret and a
range outside of the text throw, and an exception on the dispatcher ends the
process. Reading the caret from another thread is taken to succeed. Posted
calls run before input (their default priority is higher); a
`Dispatcher.Invoke` may overtake a posted call unless `PromptUndo`.

**SessionSetup.** `handlers` are the request threads with a program counter at
every access to the flag and the invitations of `Server`: recording an
invitation, testing the flag, clearing it, reading the one and the other
invitation, the two sends. Accesses to addresses are merged where one thread
makes several in a row: `addClientAddress` writes its two copies (`Server.cpp`
134, 135) in one step, and an exchange reads both addresses (97 to 103) and its
first destination (116) in the step of its first send. What could come in
between is another login of one of the two accounts, after which the exchange
tells the old or the new address of that account; it may do so in the model too,
by a login before that step or between the two sends, only not in every
combination. No property tells two programs of one account apart that way.
A program's `phase` is where its UI thread is; while it is blocked it takes the
next datagram from any sender. Tokens, passwords and the text of messages are
abstracted; what remains of a datagram is what its first character tells apart
and the address in it. All programs run on the server's machine, since the
client is compiled with 127.0.0.1, so `ipChecker` changes nothing. `TestAccount`
is the account the login page of this commit sends for everybody; `NoUser`
there stands for a page that sends the name that was typed. The runs take
`NoUser`: with `TestAccount = u1` in the configuration of `pairing`, `PairsUp`
is violated, since both users are one account and no invitation is returned.

**AccountServer.** `thread[c]` is the server's thread for the last request of
program `c`, with a program counter at every access to the database, the codes
and the addresses; `page`, `verification` and `newPassword` are the program's
pages and the fields they keep. `sqlite3_open` sets the handle it is given to
null before anything else (`sqlite3.c`, `openDatabase`), so opening is two
steps; the second leaves the handle null if the call fails, which `analyzeUser`
does not notice. `Outcomes` says how a statement may end: on a null handle it fails, in
the way of a write it may fail. The callbacks keep the last row with a name,
which is what `Last` picks. `doesEmailExist`, `doesEmailMatch` and
`changePassword` print the error message of a failed statement; on a null
handle there is none, and printing a null pointer ends the server
(`PrintsNull`). A code is any member of `Code`: six digits from a seed of one
second may repeat. Ghost variables record what was mailed, typed, matched,
changed, and what a user was last told the password is.

**Workspace, ProjectFiles.** A window is a record of what `Ide.xaml.cs` keeps:
text, `currentFilePath`, the name above the text, the names in the tree, the
counter, `updatingFiles`, `sessionStarted`, and its folder. A text is the *set*
of the strokes in it and a stroke remembers the file it was typed into: that is
what `OwnContent` and `NothingLost` tell apart, while the order within a text is
`SharedEditing`'s matter. Each menu entry is one action and does what its
handler does from start to end: `switchFile` saves, sets the path, loads, sets
the label; `removeFile` deletes and, if the file was in the box, opens another
one. `Create` is `File.Create`, whose stream nobody closes: the file can be
neither read nor written until `Collect`, the garbage collector, closes it
(`open`). Every caught exception leaves what the `try` block had not yet done;
one that is not caught ends the process (`Crash`). `HostStarts` is
`setOtherUser` at the host; at the member the same method is `MemberStarts`,
then one `ClearOne`, `CreateOne` or `FillOne` for each round of the loops, then
`AllReceived`, since the garbage collector may run between two rounds. Users do
nothing meanwhile: the UI thread is in it. `owed` and `shared` are ghosts: what
a user expects to find in a file.

**FileTransfer.** Strings are sequences of characters. `Split` is
`String.Split` with `RemoveEmptyEntries`: the leftmost separator counts. That is
why an empty file must not be sent as an empty text, and why a bar at the end of
a text is taken for a part of the separator behind it. `ProjectFiles` passes a
parcel on as it is; `FilesArrive` says why it may: every folder, a character for
each stroke, that a parcel the host ever sends can stand for comes out of its
datagram as it went in.

## 3. Runs

| run | shows | bounds |
|---|---|---|
| `relay_delivers` | `UpdateRelay` implements `AbstractRelay`, with liveness, while datagrams are lost, repeated and overtaken, and no update the host's editor queues returns to it | 4 updates under way, 2 different ones |
| `turns` | host typing at any speed, member typing when all is quiet: the text each key aimed at ends up in both windows, at every moment window + updates on their way is the same text at both sites, no token is left, and it always comes to an end | 4 key presses: letter, Enter, Backspace |
| `overlap` | both at once, Delete, late Undo, updates lost and overtaken, in a session as `setOtherUser` may leave it: well formed, every Undo finds a change of the session, always settles | 2 key presses |
| `concurrent` (violation) | two letters at once: the windows differ for good | 2 key presses |
| `selection` (violation) | deleting a selection ends the receiver's program | selections of 2 |
| `pairing` | two users who invite each other always get into a session, with one host | 2 logins, 2 invitations |
| `consent` | no address is shown without both invitations, under every race, loss, closing and re-invitation, also of oneself | 2 programs, 5 requests |
| `race` (violation) | two invitations at once are exchanged twice; both programs are host | 2 logins, 2 invitations |
| `second_pair` (violation) | after the first invitation nobody else is served | 3 programs |
| `accounts` | accounts are verified, passwords reset by the holder of the mail, and the password a user was told works | 2 programs, 1 account at the start, 5 requests |
| `workspace` | one user and a folder: nothing in the wrong file, nothing typed or saved is lost, the label tells the truth | 3 files, 3 strokes, 6 operations |
| `transfer` | the host's files replace the member's while created files may still be open: nothing else is there, no text is another's, the member comes back, and the host's letters then reach both windows; the format of the datagram gives back what it was given | 2 files, 3 strokes, 3 operations; 3 characters in the texts of the format |

Why the bounds are enough. In the relay four messages under way let every
queue feed the next while another message is in the same queue and two more are
anywhere else, and no step looks at more than the head of a queue. In the
editors an edit touches one place; four presses reach text of length four with
insertions and removals before, at and behind the others, and one ordinary
character suffices because properties are about where text is. In `overlap` two
presses are one at each site, or two at one, at any moment of what the other
sets off, with every key; the member's text, which the host has not, adds what a
third press would. In the
set-up two programs are what a race for one pair needs; three programs are what
starving somebody needs. In `accounts` a sign-up is two requests, a
recovery three and a login one: five requests hold a complete sign-up beside a
complete recovery in another program, step by step interleaved, or either of
them with logins and a second try. One code for all mails makes every guess of
a code succeed that a repeated number could make succeed. In `workspace` three
files are the removed one, the one opened instead and a third to go to; six
operations hold every two-step history (make, fill, save, leave, remove, come
back). In `transfer` the member's folder has a file of another name and one of
the same, and the host's one or two, each with an open stream or without; only
the host types in the session, see below. In the format three characters hold a bar before,
behind and between two others, and two files have a text that something follows
and a text that nothing follows.

Which assumptions a passing run makes, and which hazards appear without them:

* `turns` assumes `TurnTaking`: a user presses a key when what they see is not
  about to change by something the other has done (`Undisturbed`); a host need
  not wait for its own updates. `concurrent` is the case without it. It assumes
  `PromptUndo`; with `PromptUndo = FALSE` and the member typing, `Converged`
  is violated. It starts with nothing loaded at either site (`NothingLoaded`).
  Many sessions start otherwise: each change of the box before the session, by
  typing, by `recieveFiles` when it removes the member's files, and by `setConent`
  when it could write the first file and loads it, takes the counter one down,
  and an empty file arrives as the text `0`. `overlap` starts with a member that
  has loaded such a file. With `LoadedByMember` in
  `turns`, `IntentPreserved` is violated: the member's first letter is told to
  nobody, the host's first letter is sent back and applied a second time at the
  host, and the host's first Enter is undone at the member and told to nobody.
  `turns` also leaves out the Delete key, which the handlers do not
  know (a host's Delete is never sent), and `Wide` characters, which arrive as
  two question marks: with either of them `SameText` is violated.
* `workspace` assumes `PromptClose`: a user leaves files alone until the garbage
  collector has closed a new one. Without it a click on a new file fails to read
  it and leaves the old file's text under the new one's path, which the next
  save writes there (`OwnContent`); what could not be saved is replaced
  (`NothingLost`).
* `transfer` does not assume it, and could not for the transfer itself:
  `File.Create` (`Ide.xaml.cs` 423) and `File.WriteAllText` (439) are in one turn
  of the UI thread and nothing closes the stream in between, so that *ordinarily
  the write fails and the files a member receives are empty*, its box keeps
  what it held and its path names a file that is gone. If the collector happens
  to run, some texts are written. `ReceivedAsSent` holds in every case, and says
  what is left of the promise: every file is there, no file has a text but its
  own, and box and path are those of the first file that was written. That all
  texts are written (`Written(win[Member]) = DOMAIN parcel` at `AllReceived`) is
  violated. A member may also end, because the host sends a name whose stream the
  member has open itself and cannot remove or create (`MemberJoins` allows that).
* `workspace` assumes that names are typed as the tree has them (`ExactNames`):
  otherwise the tree keeps a file that is gone and `OwnContent` is violated;
  that nobody types under "No files!" (not `TypeAnywhere`): the path still names
  the removed file, which the next save makes again, and `NothingLost` is
  violated; and that the program is not ended and started again (`"close"`):
  a project that is opened again has an empty box over a full file, which the
  next save empties (`SavedStays`, `NothingLost`).
* `transfer` assumes `MaxDatagram` large enough; one stroke less and the host
  ends and the member waits for ever (`MemberJoins`). In the session only the host
  types and all it does besides is save: the member's counter is below zero once
  a file has been loaded into its box, and its letters are told to nobody; with
  `"switch"`, `"new"` or `"remove"` in `SessionOps`, or `SessionTypists` both,
  `EditsReachBoth` is violated. An update has no file name: `EditsReachBoth` says
  that the letters are in the member's box, whatever file that is saved to, and
  `OwnContent` is violated here. It says that a stroke is there, not where or how
  often, and a stroke is a letter: Enter is `Editor`'s matter, as is the order.
* `FilesArrive` assumes `Plain` texts: none with the separator in it, none that
  ends in a bar. Without the latter condition it is violated; without the former
  it is with a fourth stroke (`MaxStrokes = 4`, three bars and what follows
  them: the run's three strokes cannot type that). Names have no bars
  (no file system of the program allows them).
* `pairing` assumes `Spaced` (no two invitations within the server's
  test-and-set; `race` is the case without) and `PromptServer` (the server's
  datagrams arrive before a peer's). With `PromptServer = FALSE` the greeting
  of a faster peer is parsed as the server's answer and ends the program.
* `accounts` assumes `FreshRecovery` (nobody recovers a password in a program
  that has signed up an account since it was started) and a mail script that
  does not fail. Both programs log in as one user, as the committed page has it.
  `PasswordStands` excepts a name for which a statement of a sign-up, an
  insertion or a change of password has failed, and a request whose answer is
  still on its way. Without `FreshRecovery`, in seven
  requests of one program, it is violated: the verification page sends the same
  request in a recovery (`EmailVerfication.xaml.cs` 80; `AccountHandler.cpp` 58
  says "for signup"), so the server appends the row of the earlier sign-up
  again, with the old password, and the last row counts. With two programs that
  sign up one free name it is violated too: nothing makes a name unique between
  the test and the insertion, and the rows may be in one order and the answers
  in the other. With a failing script no code is stored, the page goes on all
  the same, and the empty code is right: `VerifiedAccounts` is violated.

Fairness. Each thread of the relay is a loop that never ends and has no
priority over another, so each has weak fairness of its own, as have the
dispatcher's posted calls, `textUpdater`'s two halves, the request threads and
the arrival of datagrams where loss is excluded. Users owe nothing: no fairness
on keys, logins, invitations or closing. In `relay_delivers`, where UDP loses
datagrams, the two listeners have strong fairness: not every datagram is lost,
so a listener that finds one again and again receives one. With weak fairness a
network that loses everything would refute any promise of delivery. Where the code spins on a condition
(`exchangeInfo`, `getFiles`, the polling threads) the model's step waits for
the condition, which is the same under this fairness.

In `ProjectFiles` the UI thread of a member goes on with `setOtherUser` (weak
fairness on each of its rounds). Users, the arrival of updates and the garbage
collector owe nothing: the member comes back whether or not a stream is ever
closed.

`AccountServer` has no fairness: what is checked of it is safety.

`SessionSetup`, `AccountServer` and `ProjectFiles` end when the bound on requests
or operations is reached or nobody does anything more (a program whose answer
went to another waits for ever); their runs do not check deadlock. `SharedEditing` has an explicit
`Finished` step instead, so that a stop anywhere else is a deadlock.

## 4. Proofs

For all values of the constants (any updates, any number under way, any
alphabet, users, programs, files and requests), each theorem in the module it
is named with. Where one has a hypothesis, the theorem says so in its
statement, and the last part of this section says what happens without it.

**The relay** (`UpdateRelayProofs`).

* `TypeCorrect`: `TypeOK` is invariant. Inductive as it stands.
* `HostHearsMemberOnly`: `NoEchoToHost`, under every fault. The inductive
  invariant `EchoInv` adds the member's `textChanges`, where the updates on the
  path to the host come from.
* `OrderedDelivery`: under every set of faults `UpdateRelay` implements
  `AbstractRelay` under the same. The mapping reads the queues before the
  broadcast as *pending* and those after it as *inbox*. Every step is then an
  abstract step or none: a hand-over between two neighbouring queues does not
  change their concatenation (`TwoQueues`, `ThreeQueues`), and a datagram that
  is lost, repeated or overtaken in `net` is an element of the middle of that
  concatenation treated the same way (`CutAt`, `SplitAt`, `DisturbMiddle`). The
  mapping counts the update the distributor has in hand as already in the host's
  inbox, and needs `OneInHand` for it.

**A session of two editors** (`EditorProofs`, `SharedEditingProofs`,
`TurnTakingProofs`).

* `SessionTypeCorrect`: `SharedEditing!TypeOK`, whatever is typed, lost or late.
  An Undo restores what a unit of the stack keeps, so `TypeInv` has it that
  every unit can be restored, and that an editor queues nothing beyond the step
  in which it queues it.
* `PostedUndoFinds`: `UndoFindsEdit`, for every start of the counter, every set
  of faults and an Undo that runs however late. A change that is answered with
  an Undo puts a unit on the stack in the same step, and a unit is taken off only
  by an Undo that runs; but an Undo that ran with the counter below zero would be
  taken for the user's edit and post the next one. So the invariant (`Backed`)
  adds that the counter of a member with a posted Undo is not below zero, and is
  proved function by function (`RunUndoBacked`, `ApplyUpdateBacked`). It is also
  why `Init` may give the editors an empty undo stack: no Undo reaches below the
  changes of the session.
* `TurnsNeverCrash`, `TurnsPreserveIntent`, `TurnsBalanceTokens`, `TurnsAddUp`:
  `NoCrash`, `IntentPreserved`, `TokensBalanced` and `SameText` in a session whose
  users leave each other alone (`Cooperative`: what `turns` assumes, for any
  number of presses of letters, Enter and Backspace, any text to start from and
  any number of updates under way). None of the four is inductive, and one
  invariant carries them all. `TurnInv`: there is one text T, the one the host
  has ordered; each window, with its pending Undo run and the update in
  `textUpdater`'s hands applied, leads to T by the updates on the `Path` to it,
  *each of which fits the text it meets* (`Leads`); the tokens of a site are
  those put down for updates it has announced and not applied; and an edit of
  the member that the host has not ordered fits T and is alone on all paths. So
  no update lands outside of the text, and when the paths are empty both
  windows are T. The steps of the queues between the editors are not looked at
  again: by `OperationsImplement`, the lemma behind `OrderedDelivery`, each is a
  step of `AbstractRelay`, and only these change a path. That `SameText` follows
  is an induction along the path, which the provers cannot instantiate: it is
  done by taking the least place where two sums of a text and the updates behind
  it would differ.

**The set-up** (`SessionSetupProofs`, `PairingProofs`).

* `SetupTypeCorrect`: `SessionSetup!TypeOK`. Inductive only with `NamesOK`: the
  thread of an invitation has a name to look up.
* `ConsentBeforeExchange`: `MutualConsent`. The two invitations are compared in
  different steps while both may change, so "both stand" is not invariant.
  `ConsentInv` says instead what each thread has *established* at its program
  counter, that an account's address belongs to a program of that account, and
  that an address under way may be seen by its receiver.
* `PairHasOneHost`: `OneHost`, if no two invitations are in the server's
  test-and-set at once and nobody invites the account it is logged in with
  (`Patient`), with loss, closing, repetition and overtaking. Two programs may
  hear of their roles at different times, so the invariant `RolesInv` is about
  the server: the flag lets *one* thread pass in the life of the process
  (`FlagInv`), and no role has been told to anybody, in an answer on its way or
  a program's memory, but by that thread: host once, member once, and to
  different programs (`ToldInv`).
* `SetupNeverCrashes`: `NoCrash`, if every user has one account and one program
  and invites once, and the server's datagrams arrive, and before a peer's
  (`Orderly`). `CalmInv` follows each program from page to page: what may be in
  its socket and which thread of the server may still answer it there, so that a
  blocking request takes no other datagram for its answer.

**The accounts** (`AccountServerProofs`).

* `AccountTypeCorrect`: `AccountServer!TypeOK`. Inductive as it stands.
* `PasswordResetByHolder`: `ResetByHolder`, with and without `FreshRecovery` and
  script failures. The server trusts the fields of a request; that these are
  the ones it once matched is a fact about the pages. `AccountInv` links the
  two: what each thread has established at its program counter (`Established`),
  what each page relies on (`Pages`), and that a program takes no answer for its
  own that is not, unless it is logged in and only gets more of the same
  (`Session`).
* `AccountsVerified`: `VerifiedAccounts`, assuming the script does not fail. The
  same invariant, in which the verification page is only ever open for a mail
  that has a stored code, so that the absent code is never compared.
* `PasswordsStand`: `PasswordStands`, if a name is used by the user of one
  program and no program recovers a password after a sign-up (`OneOwner`), with
  and without script failures. What a user is told is one program's last answer,
  what a login compares with is the last row of a name, and between the two are
  a request, a thread and a page. `StandsInv` says of each that its fields are
  its own user's, who has no other program ask for that name (`Mine`), that a
  name keeps its row and its mail (`Kept`), and that the last row of a name
  without a failed statement has the password its user was told, or the one the
  answer on its way is about to tell (`Stands`).

**The files** (`ProjectFilesProofs`).

* `FilesTypeCorrect`: `ProjectFiles!TypeOK`, whatever is closed late and whatever
  fails. Inductive as it stands: each function of `Workspace` returns a window for
  a window, and none writes a file under the empty path.
* `AloneOwnContent`, `AloneNothingLost`, `AloneSavedStays`: for a host alone
  (`Alone`: no member, `PromptClose`, `ExactNames`) with any number of names,
  strokes and operations. None is inductive: that a save writes the right text
  depends on the box, so `Tidy` says that the box holds strokes of the current
  path only and that the tree offers files that exist; for the last two
  (`Careful`: the program is not ended, nobody types under "No files!")
  `Current` says that the box has all of the file it will be saved to, and that
  it is empty where that file is gone.
* `AloneLabelTells`: `LabelTells` in a program that is alone, with late closing,
  inexact names and everything else: label and path are set together, even where
  reading fails.
* `FilesReceivedAsSent`: `ReceivedAsSent`, with no hypothesis: for two programs,
  whatever their users did before, however many files there are and whichever
  streams are open or closed at each round. The property is about the moment the
  window comes back; the invariant is about every moment before. `Arrived`: of
  the parcel the first so many files have been created and of these the first so
  many have been tried, and what the loops still have to do is the rest of the
  parcel (`Remainder`). `OpenEmpty`: a file whose stream is open is empty, so
  that a file whose text could not be written has no text at all, and not an
  older one. `NothingElse`: a file with a text has the text of its entry.
  `Shows`: the first file that was written is in the box and under the path.
  `OneEach`: no name is in a parcel twice and no entry is empty, so that what is
  written is neither overwritten nor taken for unwritten.
* `SessionEditsArrive`: `EditsReachBoth` for two programs in which only the host
  types in the session and does nothing else but save (`OnlyHostTypes`), whatever
  both did before, whatever could be written at the member and however far the
  host has typed ahead of the files. The property is about the moment nothing is
  on its way; `EditsInv` follows every stroke of the session until then: it is in
  the host's box, and in the member's window, on its way to the member, or on its
  way *back* (`Reaches`). The last is the usual case for the first stroke if a
  file was loaded: that used a token nobody had put down, so the member takes the
  first insertion for its own user's, undoes and returns it, and the host, which
  has it already, sends it on again. That the count is never positive where
  nothing was announced is `Settled`, that updates only add is part of
  `Underway`.

They rest on the named assumptions about constants in `UpdateRelay`,
`SharedEditing`, `SessionSetup`, `AccountServer`, `Workspace` and `ProjectFiles`
(TLC evaluates these in every run) and on nothing else.

The hypotheses are what the properties need, not what the proofs need. TLC
finds a violation of `OneHost` without `Spaced` (`race`) or with an invitation of
oneself; of `SetupNeverCrashes`' `NoCrash` with one account for everybody, with
two programs of one user, with a second invitation, with a lost datagram or a
greeting that is faster than the server; of `PasswordStands` without
`FreshRecovery` or with two programs for one name; of `EditsReachBoth` with
the member typing, and with `"switch"`, `"new"` or `"remove"` in the session;
of `OwnContent`, `NothingLost` and `SavedStays` without the parts of `Alone` and
`Careful` (section 3); and of what `Cooperative` promises without any of its parts
(section 3). In the other direction `Spaced` is no hypothesis of
`SetupNeverCrashes`, nor are reliable datagrams one of `PairHasOneHost`. Each
inductive invariant was checked by TLC on the run of its property before it was
proved.

Two things in the models are as they are because of the proofs. The arms of
`UserChange` are disjoint: a CASE whose arms overlap says nothing about which
one is taken, and with a selection replaced after Backspace two of them applied,
where the handler's chain of `else if` takes the first. And what a text becomes
as an ASCII datagram (`Decoded`), and what the updates on a path make of it
(`Result`), are recursive functions and not RECURSIVE operators.

Only model-checked: all liveness (`ImplementsAbstractFair`, `Settles`, `PairsUp`,
`MemberJoins`), which is out of the prover's reach, and `FilesArrive`, whose
operators are folds over data (TLC works out once which folders do not arrive,
`LostSizes`, and compares each parcel with them). What `overlap` checks with both
users typing at once, with Delete and with faults, is proved but for `Settles`;
`Converged` does not hold there.

## 5. Not modelled, and the plan

Atomicity the models assume and the code does not give: the operations of
`Queue<T>` and `std::map`, and `tokens++`/`tokens--` on two threads. What the
libraries do then is undefined, and no property of the relay survives a queue
whose count is wrong. `AccountHandler::getInstance`, which may make two handlers
for the very first two requests. More than one member (the server pairs two, the
host adds one endpoint). The server's end when Winsock reports a datagram to a
closed program, and its restart. The end of a session: the code has no such
operation. In `ProjectFiles` the relay is one queue in each direction, which
`OrderedDelivery` justifies while UDP behaves, and the two programs are past
their pairing. In `SessionSetup`, that `Receive(ref ep)`
(`ServerCommunicator.cs` 64, 112) leaves the sender's address as the one requests
go to: after a login was answered by a peer's datagram the next one goes to that
peer, not to the server, and is lost. And that `SendFiles` sends to the first of
`epList` (`SessionHost.cs` 86), which is the peer of the first connection also
after a second one; in the model the files go to the peer just connected. Pasting of several lines, the caret after a remote change, and
layout are left out everywhere. `MessageHelper` is called by nothing; the mail
script, SQLite and the Winsock wrapper are not the program's own logic.

What is left to do, in this order:

1. Proofs: `FilesArrive`. `Split` and `SendFiles` have to become recursive
   functions first, whose values a least counterexample can be taken of; the
   invariant says, for each position in the message, which pieces are done and
   that the one being read ends in no separator.
2. The end and restart of the server in `SessionSetup`, with closed programs.
3. Names with characters ASCII lacks: they arrive with question marks, which no
   file name may have, and the member's program ends in `File.Create`.
