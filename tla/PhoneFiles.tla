----------------------------- MODULE PhoneFiles -----------------------------
(* A workspace's files on the phone: its folder tree, which the daemon      *)
(* sends again as it changes, and one file, read and edited in place.  The  *)
(* phone keeps what it was sent for as long as the app runs; the daemon     *)
(* knows what the phone listed for as long as the connection lasts.  What   *)
(* is sent while there is no link goes out when there is one, and what was  *)
(* on its way when the link broke is lost.  Whatever else runs on the       *)
(* computer changes folders and the file alike: the daemon watches folders, *)
(* and tells nothing of a file.                                             *)
EXTENDS Naturals, Sequences, FiniteSets, SequencesExt

CONSTANTS
    Folders,    \* the folders in the workspace's root
    Root,       \* the root itself, always open
    None,
    Edits,      \* what others write into the file
    MaxDrafts, MaxChanges, MaxBreaks, MaxSent   \* bounds

Dirs == Folders \cup {Root}

ASSUME FilesAssumption ==
    /\ Root \notin Folders
    /\ IsFiniteSet(Folders)
    /\ Edits \subseteq Nat
    /\ {MaxDrafts, MaxChanges, MaxBreaks, MaxSent} \subseteq Nat

VARIABLES
    disk,       \* the computer: each folder and the file, all the file has held, changes so far
    tree,       \* the phone's tree: on screen, folders open, listings held
    file,       \* the phone's file: content held, draft, the last save
    link,       \* whether a route answers
    up, down,   \* messages each way, held ones included
    listed,     \* the daemon's: folders this connection listed
    changed,    \* the daemon's: listed folders whose change its watcher has yet to tell
    due,        \* history: folders that were open, on screen, when the link came up
    past,       \* history: the file as last read or written for the phone, saves given up
    breaks

vars == <<disk, tree, file, link, up, down, listed, changed, due, past, breaks>>

Contents == Nat
Message == [kind : {"list", "trash", "read", "write", "listing", "trashed", "content", "saved"},
            dir : Dirs \cup {None}, n : Nat]

TypeOK ==
    /\ disk.dirs \in [Dirs -> Nat] /\ disk.file \in Contents
    /\ disk.held \subseteq Contents /\ disk.changes \in Nat
    /\ tree.shown \in BOOLEAN /\ tree.open \subseteq Folders
    /\ tree.listing \in [Dirs -> Nat \cup {None}]
    /\ file.content \in Contents \cup {None} /\ file.draft \in Contents \cup {None}
    /\ file.save \in {"none", "saving", "saved", "failed"} /\ file.saving \in Contents
    /\ file.drafts \in Nat
    /\ link \in BOOLEAN
    /\ up \in Seq(Message) /\ down \in Seq(Message)
    /\ listed \subseteq Dirs /\ changed \subseteq Dirs /\ due \subseteq Dirs
    /\ past \in [left : Contents, late : BOOLEAN, dropped : BOOLEAN]
    /\ breaks \in Nat

List(d) == [kind |-> "list", dir |-> d, n |-> 0]
Trash(d) == [kind |-> "trash", dir |-> d, n |-> 0]
Read == [kind |-> "read", dir |-> None, n |-> 0]
Write(content) == [kind |-> "write", dir |-> None, n |-> content]
Answer(kind, d, n) == [kind |-> kind, dir |-> d, n |-> n]

Init ==
    /\ disk = [dirs |-> [d \in Dirs |-> 0], file |-> 0, held |-> {0}, changes |-> 0]
    /\ tree = [shown |-> FALSE, open |-> {}, listing |-> [d \in Dirs |-> None]]
    /\ file = [content |-> None, draft |-> None, save |-> "none", saving |-> 0, drafts |-> 0]
    /\ link = FALSE
    /\ up = <<Read>>
    /\ down = <<>>
    /\ listed = {} /\ changed = {} /\ due = {}
    /\ past = [left |-> 0, late |-> FALSE, dropped |-> FALSE]
    /\ breaks = 0

-----------------------------------------------------------------------------
(* The phone's tree. *)

Open(t) == t.open \cup {Root}

UnlistedDirs(t) == {d \in Open(t) : t.listing[d] = None}

Lists(dirs) == SetToSeq({List(d) : d \in dirs})

\* The tree's effect: what is open and not held is asked for, each time either changes.
TreeIs(t, sent) ==
    /\ tree' = t
    /\ up' = sent \o (IF t.shown THEN Lists(UnlistedDirs(t)) ELSE <<>>)

Person ==
    /\ Len(up) + Len(down) < MaxSent
    /\ UNCHANGED <<disk, link, down, listed, changed, due, past, breaks>>

ShowTree ==
    /\ ~tree.shown
    /\ Person
    /\ TreeIs([tree EXCEPT !.shown = TRUE], up)
    /\ UNCHANGED file

LeaveTree ==
    /\ tree.shown
    /\ Person
    /\ TreeIs([tree EXCEPT !.shown = FALSE], up)
    /\ UNCHANGED file

ToggleDir(d) ==
    LET toggled == [tree EXCEPT !.open = IF d \in @ THEN @ \ {d} ELSE @ \cup {d}]
    IN  /\ tree.shown
        /\ tree.listing[Root] # None
        /\ Person
        /\ TreeIs(toggled, up)
        /\ UNCHANGED file

TrashesAsked == Cardinality({i \in DOMAIN up : up[i].kind = "trash"})

TrashPath(d) ==
    /\ tree.shown
    /\ d \in Open(tree) /\ tree.listing[d] # None
    /\ disk.changes + TrashesAsked < MaxChanges
    /\ Person
    /\ up' = Append(up, Trash(d))
    /\ UNCHANGED <<tree, file>>

\* A slip: a folder that arrives is opened.
SetListingOpens(t, d, n) == [t EXCEPT !.listing[d] = n, !.open = @ \cup {d}]

SetListing(t, d, n) == [t EXCEPT !.listing[d] = n]

ForgetPath(t, d) == [t EXCEPT !.listing[d] = None]

-----------------------------------------------------------------------------
(* The phone's file. *)

Begin ==
    /\ link
    /\ file.content # None /\ file.draft = None
    /\ Person
    /\ file' = [file EXCEPT !.draft = file.content]
    /\ UNCHANGED <<tree, up>>

Change ==
    /\ file.draft # None
    /\ file.drafts < MaxDrafts
    /\ Person
    /\ file' = [file EXCEPT !.draft = file.drafts + 1, !.drafts = @ + 1]
    /\ UNCHANGED <<tree, up>>

StartSave(f) == [f EXCEPT !.save = "saving", !.saving = f.draft]

\* Only what differs from the file, and one save at a time.
Save ==
    /\ file.draft \notin {None, file.content}
    /\ file.save # "saving"
    /\ Person
    /\ file' = StartSave(file)
    /\ up' = Append(up, Write(file.draft))
    /\ UNCHANGED tree

\* A slip: takes the draft as it is now for what was saved.
FinishSaveDraft(f) ==
    IF f.save = "saving" THEN [f EXCEPT !.save = "saved", !.content = f.draft] ELSE f

FinishSave(f) ==
    IF f.save = "saving" THEN [f EXCEPT !.save = "saved", !.content = f.saving] ELSE f

Holds(messages, kind) == \E i \in DOMAIN messages : messages[i].kind = kind

\* No save is under way or still to be answered.
Answered(u, d) == ~Holds(u, "write") /\ ~Holds(d, "saved")

\* failSave: no answer came in time, whatever became of the save: it may be held
\* until there is a link, and its answer may be on its way.
FailSave ==
    /\ file.save = "saving"
    /\ file' = [file EXCEPT !.save = "failed"]
    /\ past' = [past EXCEPT !.late = @ \/ ~Answered(up, down)]
    /\ UNCHANGED <<disk, tree, link, up, down, listed, changed, due, breaks>>

\* A draft with nothing to save goes at once, any other once the person agreed.
Done ==
    /\ file.draft # None
    /\ Person
    /\ file' = [file EXCEPT !.draft = None]
    /\ UNCHANGED <<tree, up>>

-----------------------------------------------------------------------------
(* The link, and the daemon at its other end. *)

\* A slip: what was open when the link broke is taken to be as it was.
RelistNothing(t) == {}

\* Listing a folder makes the daemon send it again only as long as the connection lasts.
Relist(t) == IF t.shown THEN Open(t) ELSE {}

\* What was held goes first, then the screens ask again.
Opened ==
    /\ ~link
    /\ link' = TRUE
    /\ up' = up \o Lists(Relist(tree)) \o <<Read>>
    /\ due' = IF tree.shown THEN Open(tree) ELSE {}
    /\ UNCHANGED <<disk, tree, file, down, listed, changed, past, breaks>>

Broke ==
    /\ link
    /\ breaks < MaxBreaks
    /\ breaks' = breaks + 1
    /\ link' = FALSE
    /\ up' = <<>> /\ down' = <<>>
    /\ listed' = {} /\ changed' = {} /\ due' = {}
    /\ past' = [past EXCEPT !.late = FALSE, !.dropped = @ \/ (past.late /\ Holds(up, "write"))]
    /\ UNCHANGED <<disk, tree, file>>

\* History: the file is read again, with no save left to be answered.
Reread(d) == IF Answered(up, d) THEN [past EXCEPT !.late = FALSE, !.dropped = FALSE] ELSE past

Receive ==
    LET m == Head(down)
    IN  /\ down # <<>>
        /\ down' = Tail(down)
        /\ \/ m.kind = "listing" /\ TreeIs(SetListing(tree, m.dir, m.n), up) /\ UNCHANGED <<file, past>>
           \/ m.kind = "trashed" /\ TreeIs(ForgetPath(tree, m.dir), up) /\ UNCHANGED <<file, past>>
           \/ /\ m.kind = "content"
              /\ file' = [file EXCEPT !.content = m.n]
              /\ past' = Reread(down')
              /\ UNCHANGED <<tree, up>>
           \/ m.kind = "saved" /\ file' = FinishSave(file) /\ UNCHANGED <<tree, up, past>>
        /\ UNCHANGED <<disk, link, listed, changed, due, breaks>>

ChangeDir(d) == [disk EXCEPT !.dirs[d] = @ + 1, !.changes = @ + 1]

Written(content) == [disk EXCEPT !.file = content, !.held = @ \cup {content}]

\* News of a folder that this connection has not listed is passed over.
Touched(d) == changed \cup ({d} \cap listed)

Handle ==
    LET m == Head(up)
    IN  /\ link
        /\ up # <<>>
        /\ up' = Tail(up)
        /\ \/ /\ m.kind = "list"
              /\ listed' = listed \cup {m.dir}
              /\ down' = Append(down, Answer("listing", m.dir, disk.dirs[m.dir]))
              /\ UNCHANGED <<disk, changed, past>>
           \/ /\ m.kind = "trash"
              /\ disk' = ChangeDir(m.dir)
              /\ changed' = Touched(m.dir)
              /\ down' = Append(down, Answer("trashed", m.dir, 0))
              /\ UNCHANGED <<listed, past>>
           \/ /\ m.kind = "read"
              /\ down' = Append(down, Answer("content", None, disk.file))
              /\ past' = [past EXCEPT !.left = disk.file]
              /\ UNCHANGED <<disk, listed, changed>>
           \/ /\ m.kind = "write"
              /\ disk' = Written(m.n)
              /\ down' = Append(down, Answer("saved", None, 0))
              /\ past' = [past EXCEPT !.left = m.n]
              /\ UNCHANGED <<listed, changed>>
           \/ /\ m.kind \in {"trash", "write"}      \* It could not: an error, which changes nothing here.
              /\ past' = [past EXCEPT !.dropped = @ \/ (past.late /\ m.kind = "write")]
              /\ UNCHANGED <<disk, listed, changed, down>>
        /\ UNCHANGED <<tree, file, link, due, breaks>>

\* Anything else on the computer changes what a folder holds.
Changes(d) ==
    /\ disk.changes < MaxChanges
    /\ disk' = ChangeDir(d)
    /\ changed' = Touched(d)
    /\ UNCHANGED <<tree, file, link, up, down, listed, due, past, breaks>>

\* And what the file holds, of which nothing tells the phone.
Edited(n) ==
    /\ disk.changes < MaxChanges
    /\ disk' = [Written(n) EXCEPT !.changes = @ + 1]
    /\ UNCHANGED <<tree, file, link, up, down, listed, changed, due, past, breaks>>

Tell(d) == Append(down, Answer("listing", d, disk.dirs[d]))

\* The watcher's news of a folder reaches the connection, which lists it again.
DirChanged(d) ==
    /\ d \in changed
    /\ changed' = changed \ {d}
    /\ down' = Tell(d)
    /\ UNCHANGED <<disk, tree, file, link, up, listed, due, past, breaks>>

-----------------------------------------------------------------------------
Next ==
    \/ ShowTree \/ LeaveTree
    \/ \E d \in Folders : ToggleDir(d)
    \/ \E d \in Dirs : TrashPath(d) \/ Changes(d) \/ DirChanged(d)
    \/ \E n \in Edits : Edited(n)
    \/ Begin \/ Change \/ Save \/ FailSave \/ Done
    \/ Opened \/ Broke \/ Receive \/ Handle

Spec == Init /\ [][Next]_vars

-----------------------------------------------------------------------------
Quiet == link /\ up = <<>> /\ down = <<>> /\ changed = {}

\* Once the link is up and nothing is under way, every open folder of a tree
\* on screen has a listing, and shows what is on disk if it was open, on screen,
\* when the link came up or was listed since; and the file shows what it was when
\* it was last read or written for the phone, unless a save was given up whose
\* answer could still come (the effects of use-tree.ts and use-file.ts).
ScreensAreCurrent ==
    Quiet =>
        /\ tree.shown => \A d \in Open(tree) :
              /\ tree.listing[d] # None
              /\ d \in due \cup listed => tree.listing[d] = disk.dirs[d]
        /\ ~past.late => file.content = past.left

\* Does not hold (README): nothing tells the phone that others changed the file
\* (the comment of use-file.ts).
ShowsWhatIsOnDisk == Quiet => file.content = disk.file

\* What the phone takes for the file's content the file has held, so no draft
\* passes for saved, and goes without a question, that was not.  The answer to a
\* save that was given up can pass for that of the next (finishSave): then the
\* next is still to be written, and only if it fails or is lost too, and until the
\* file is read again, is what the phone shows nowhere but there.
ShownWasHeld ==
    \/ file.content = None \/ file.content \in disk.held
    \/ past.late /\ \E i \in DOMAIN up : up[i] = Write(file.content)
    \/ past.dropped

\* Does not hold (README): without its two excuses (the comment of use-editor.ts).
NeverPassesForSaved == file.content # None => file.content \in disk.held
=============================================================================
