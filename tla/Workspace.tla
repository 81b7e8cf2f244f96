----------------------------- MODULE Workspace -----------------------------
(***************************************************************************)
(* One window with its project folder (Ide.xaml.cs) as functions on its    *)
(* state: what opening a project, a new file, a click on another file,     *)
(* saving and removing do to the folder, the text box, the name the box is *)
(* saved under and the name the user sees.                                 *)
(*                                                                         *)
(* A window is a record                                                    *)
(*   files     the files in the folder                                     *)
(*   saved     what is in each of them                                     *)
(*   open      files a File.Create stream still keeps from everybody       *)
(*   box       the text in the box                                         *)
(*   path      currentFilePath                                             *)
(*   label     first.Text, the name shown above the box                    *)
(*   tree      the names fileExplorer offers                               *)
(*   tokens, updating, started                                             *)
(*             the counter, updatingFiles and sessionStarted               *)
(*   out       updates queued in this turn of the UI thread                *)
(*   crashed   an exception nobody catches has ended the process           *)
(*                                                                         *)
(* A text is the set of the strokes in it; a stroke remembers the file it  *)
(* was typed into.  Where a stroke stands in a text, and how often, is     *)
(* Editor's matter, and so is Enter, which the handler tells nobody of:    *)
(* strokes are letters.                                                    *)
(* Directory.GetFiles promises no order: any file may be its first.        *)
(*                                                                         *)
(* A definition named X_Y is X with a plausible mistake in it: nothing     *)
(* uses it, it is there to show that a property notices the mistake.       *)
(***************************************************************************)
EXTENDS Integers, Sequences

CONSTANTS Name,        \* file names
          NoName,      \* no file: an empty path, the label "No files!"
          MaxStrokes   \* bound: strokes typed

ASSUME WorkspaceAssumption == NoName \notin Name /\ MaxStrokes \in Nat

Stroke == [file : Name, n : 1 .. MaxStrokes]

\* The text "0" that is sent for an empty file.
Zero == [file |-> NoName, n |-> 0]

Content == SUBSET (Stroke \cup {Zero})

\* What one site tells the other: these strokes are gone, those are new.
Update == [del : Content, add : Content]

Window == [files : SUBSET Name, saved : [Name -> Content],
           open : SUBSET Name, box : Content, path : Name \cup {NoName},
           label : Name \cup {NoName}, tree : SUBSET Name, tokens : Int,
           updating : BOOLEAN, started : BOOLEAN, out : Seq(Update),
           crashed : BOOLEAN]

\* A program that was just started, on a folder.
NewWindow(files, saved) ==
    [files |-> files, saved |-> saved, open |-> {}, box |-> {},
     path |-> NoName, label |-> NoName, tree |-> {}, tokens |-> 0,
     updating |-> FALSE, started |-> FALSE, out |-> <<>>, crashed |-> FALSE]

Crash(w) == [w EXCEPT !.crashed = TRUE]

-----------------------------------------------------------------------------
(* The text box and TextBox_TextChanged.                                   *)

\* A change without a token, in a session, is the user's: the other site is
\* told unless it only removes (nobody presses Backspace here), and a member
\* takes it back.  Any other change uses up a token, also one that is not
\* there: so does every change before the session.
Change(w, isMember, del, add) ==
    LET new == (w.box \ del) \cup add
    IN  IF w.tokens = 0 /\ ~w.updating /\ w.started
        THEN [w EXCEPT !.out = IF add = {} THEN @
                               ELSE Append(@, [del |-> del, add |-> add]),
                       !.box = IF isMember THEN @ ELSE new]
        ELSE [w EXCEPT !.box = new, !.tokens = @ - 1]

\* notepad.Text = c: no event when the text stays as it is.
SetText(w, isMember, c) ==
    IF c = w.box THEN w ELSE Change(w, isMember, w.box, c)

\* textUpdater, an update of the other site: its tokens, then the changes.
ApplyUpdate(w, isMember, u) ==
    IF u.del = {}
    THEN Change([w EXCEPT !.tokens = @ + 1], isMember, {}, u.add)
    ELSE Change(SetText([w EXCEPT !.tokens = @ + 2], isMember,
                        w.box \ u.del),
                isMember, {}, u.add)

-----------------------------------------------------------------------------
(* Files.  A failure to read or write shows a message and no more.         *)

SaveContentToFile(w) ==
    IF w.path = NoName \/ w.path \in w.open THEN w
    ELSE [w EXCEPT !.files = @ \cup {w.path}, !.saved[w.path] = w.box]

LoadFileIntoIDE(w, isMember, f) ==
    IF f \notin w.files \/ f \in w.open THEN w
    ELSE [SetText(w, isMember, w.saved[f]) EXCEPT !.path = f]

\* File.Create, whose stream nobody closes.
Create(w, f) == [w EXCEPT !.files = @ \cup {f}, !.saved[f] = {},
                          !.open = @ \cup {f}]

AddFile(w, f) == [w EXCEPT !.tree = @ \cup {f}, !.label = f]

\* ProjectDetails.done and setProjectDetails: the box is left as it is,
\* whatever an existing project file holds.
OpenedProject(w, f) ==
    LET made == IF f \in w.files THEN w ELSE Create(w, f)
    IN  [AddFile(made, f) EXCEPT !.path = f]

loadNewFile_KeepsText(w, isMember, f) ==
    [SaveContentToFile(w) EXCEPT !.path = f, !.label = f]

loadNewFile(w, isMember, f) ==
    LET at == [SaveContentToFile(w) EXCEPT !.path = f]
    IN  [SetText(at, isMember, {}) EXCEPT !.label = f]

setNewFileName_NoTest(w, isMember, f) ==
    loadNewFile(AddFile(Create(w, f), f), isMember, f)

setNewFileName(w, isMember, f) ==
    IF f \in w.files THEN w
    ELSE loadNewFile(AddFile(Create(w, f), f), isMember, f)

switchFile_LoadsFirst(w, isMember, f) ==
    LET loaded == LoadFileIntoIDE([w EXCEPT !.updating = TRUE], isMember, f)
    IN  [SaveContentToFile(loaded) EXCEPT !.path = f, !.label = f,
                                          !.updating = FALSE]

\* The path is the new file's before it is known whether it can be read.
switchFile(w, isMember, f) ==
    LET at == [SaveContentToFile([w EXCEPT !.updating = TRUE])
                  EXCEPT !.path = f]
    IN  [LoadFileIntoIDE(at, isMember, f) EXCEPT !.label = f,
                                                 !.updating = FALSE]

\* The first half of removeFile.  File names ignore case, the names in the
\* tree do not: exact says the user has typed the name as the tree has it.
Deleted(w, f, exact) ==
    IF f \notin w.files \/ f \in w.open THEN w
    ELSE [w EXCEPT !.files = @ \ {f}, !.saved[f] = {},
                   !.tree = IF exact THEN @ \ {f} ELSE @]

Replaced_KeepsLabel(w, isMember, f, next) ==
    IF f # w.path THEN w
    ELSE IF w.files # {}
    THEN LoadFileIntoIDE([w EXCEPT !.path = next], isMember, next)
    ELSE [SetText(w, isMember, {}) EXCEPT !.label = NoName]

\* The second half, where f was the file in the box: next is the first of
\* the files that are left.  With none left the path stays.
Replaced(w, isMember, f, next) ==
    IF f # w.path THEN w
    ELSE IF w.files # {}
    THEN [LoadFileIntoIDE([w EXCEPT !.path = next], isMember, next)
            EXCEPT !.label = next]
    ELSE [SetText(w, isMember, {}) EXCEPT !.label = NoName]

removeFile(w, isMember, f, exact, next) ==
    Replaced(Deleted(w, f, exact), isMember, f, next)

\* Any of the files that are left may be listed first.
Listed(w, f, exact) == LET left == Deleted(w, f, exact).files
                       IN  IF left = {} THEN {f} ELSE left

-----------------------------------------------------------------------------
(* The files of a session, as they travel: name and text, "0" for none.    *)

Entry == [file : Name, text : Content]

Packed(w, f) == [file |-> f,
                 text |-> IF w.saved[f] = {} THEN {Zero} ELSE w.saved[f]]

\* File.Create of a received name: fails if its stream is still open.
Received(w, f) == IF f \in w.open THEN Crash(w) ELSE AddFile(Create(w, f), f)

\* One round of setConent; the first file that can be written is opened.
Filled(w, isMember, e, isFirst) ==
    IF e.file \in w.open THEN w
    ELSE LET written == [w EXCEPT !.files = @ \cup {e.file},
                                  !.saved[e.file] = e.text]
         IN  IF isFirst THEN LoadFileIntoIDE(written, isMember, e.file)
                        ELSE written
=============================================================================
