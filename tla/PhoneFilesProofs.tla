-------------------------- MODULE PhoneFilesProofs --------------------------
(* What the phone shows of a workspace's files, for a root with any number  *)
(* of folders, any number of changes and any number of breaks of the link.  *)
(*                                                                         *)
(* What is on screen is current, or what makes it so is under way: a folder *)
(* is asked for, or its change is still to be told, or the last listing on  *)
(* its way shows it; the file is asked for, or the last answer on its way   *)
(* tells what it was.  As long as no save was given up whose answer can     *)
(* come, at most one save is under way.                                     *)
EXTENDS PhoneFiles, FiniteSetTheorems, SequenceTheorems, TLAPS

-----------------------------------------------------------------------------
(* Messages. *)

\* A finite set in any order: each of its members, and nothing else.
LEMMA SetToSeqIs ==
    ASSUME NEW S, IsFiniteSet(S)
    PROVE  /\ SetToSeq(S) \in Seq(S)
           /\ \A x \in S : \E i \in DOMAIN SetToSeq(S) : SetToSeq(S)[i] = x
<1> DEFINE n == Cardinality(S)
<1>1. n \in Nat /\ ExistsBijection(1..n, S)
  BY FS_CardinalityType
<1>2. PICK f : f \in Bijection(1..n, S)
  BY <1>1 DEF ExistsBijection
<1>3. f \in [1..n -> S] /\ IsInjective(f)
  BY <1>2 DEF Bijection, Injection, IsInjective
<1> DEFINE s == SetToSeq(S)
<1>4. s \in [1..n -> S] /\ IsInjective(s)
  <2>1. \E g \in [1..n -> S] : IsInjective(g)
    BY <1>3
  <2> QED BY <2>1 DEF SetToSeq
<1>5. s \in Injection(1..n, S)
  BY <1>4 DEF Injection, IsInjective
<1>6. IsFiniteSet(1..n) /\ Cardinality(1..n) = n
  BY <1>1, FS_Interval
<1>7. s \in Surjection(1..n, S)
  BY <1>5, <1>6, FS_Injection
<1>8. s \in Seq(S)
  BY <1>1, <1>4
<1>9. \A x \in S : \E i \in 1..n : s[i] = x
  BY <1>7 DEF Surjection
<1> QED BY <1>4, <1>8, <1>9

LEMMA MessagesAre ==
    /\ Read \in Message
    /\ \A d \in Dirs : List(d) \in Message /\ Trash(d) \in Message
    /\ \A n \in Nat : Write(n) \in Message
    /\ \A kind \in {"listing", "trashed", "content", "saved"}, d \in Dirs \cup {None}, n \in Nat :
          Answer(kind, d, n) \in Message
BY DEF Read, List, Trash, Write, Answer, Message

-----------------------------------------------------------------------------
(* Sequences of messages. *)

LEMMA ConcatIs ==
    ASSUME NEW S, NEW s \in Seq(S), NEW t \in Seq(S)
    PROVE  /\ s \o t \in Seq(S)
           /\ \A i \in DOMAIN s : i \in DOMAIN (s \o t) /\ (s \o t)[i] = s[i]
           /\ \A j \in DOMAIN t : \E i \in DOMAIN (s \o t) : (s \o t)[i] = t[j]
           /\ \A i \in DOMAIN (s \o t) :
                 \/ i \in DOMAIN s /\ (s \o t)[i] = s[i]
                 \/ \E j \in DOMAIN t : (s \o t)[i] = t[j]
<1>1. /\ s \o t \in Seq(S) /\ Len(s \o t) = Len(s) + Len(t)
      /\ \A i \in 1..Len(s) + Len(t) :
            (s \o t)[i] = IF i <= Len(s) THEN s[i] ELSE t[i - Len(s)]
  BY ConcatProperties
<1>2. DOMAIN s = 1..Len(s) /\ DOMAIN t = 1..Len(t) /\ DOMAIN (s \o t) = 1..Len(s) + Len(t)
  BY <1>1, LenProperties
<1>3. Len(s) \in Nat /\ Len(t) \in Nat
  BY LenProperties
<1>4. ASSUME NEW j \in DOMAIN t
      PROVE  \E i \in DOMAIN (s \o t) : (s \o t)[i] = t[j]
  <2>1. Len(s) + j \in DOMAIN (s \o t) /\ (s \o t)[Len(s) + j] = t[j]
    BY <1>1, <1>2, <1>3
  <2> QED BY <2>1
<1>5. ASSUME NEW i \in DOMAIN (s \o t)
      PROVE  \/ i \in DOMAIN s /\ (s \o t)[i] = s[i]
             \/ \E j \in DOMAIN t : (s \o t)[i] = t[j]
  <2>1. CASE i <= Len(s)
    BY <1>1, <1>2, <1>3, <2>1
  <2>2. CASE ~(i <= Len(s))
    <3>1. i - Len(s) \in DOMAIN t /\ (s \o t)[i] = t[i - Len(s)]
      BY <1>1, <1>2, <1>3, <2>2
    <3> QED BY <3>1
  <2> QED BY <2>1, <2>2
<1>6. \A i \in DOMAIN s : i \in DOMAIN (s \o t) /\ (s \o t)[i] = s[i]
  BY <1>1, <1>2, <1>3
<1> QED BY <1>1, <1>4, <1>5, <1>6

LEMMA AppendIs ==
    ASSUME NEW S, NEW s \in Seq(S), NEW m \in S
    PROVE  /\ Append(s, m) \in Seq(S)
           /\ DOMAIN s = 1..Len(s) /\ Len(s) \in Nat
           /\ DOMAIN Append(s, m) = 1..Len(s) + 1
           /\ \A i \in 1..Len(s) : Append(s, m)[i] = s[i]
           /\ Append(s, m)[Len(s) + 1] = m
BY AppendProperties, LenProperties

LEMMA TailIs ==
    ASSUME NEW S, NEW s \in Seq(S), s # <<>>
    PROVE  /\ Head(s) \in S /\ Head(s) = s[1]
           /\ Tail(s) \in Seq(S)
           /\ DOMAIN s = 1..Len(s) /\ Len(s) \in Nat /\ Len(s) >= 1
           /\ DOMAIN Tail(s) = 1..Len(s) - 1
           /\ \A i \in 1..Len(s) - 1 : Tail(s)[i] = s[i + 1]
           /\ \A i \in 2..Len(s) : i - 1 \in DOMAIN Tail(s) /\ Tail(s)[i - 1] = s[i]
<1>1. /\ DOMAIN s = 1..Len(s) /\ Len(s) \in Nat /\ Len(s) >= 1
  BY LenProperties, EmptySeq
<1>2. Head(s) = s[1] /\ Head(s) \in S
  BY <1>1, ElementOfSeq
<1>3. /\ Tail(s) \in Seq(S) /\ Len(Tail(s)) = Len(s) - 1
      /\ \A i \in 1..Len(Tail(s)) : Tail(s)[i] = s[i + 1]
  BY HeadTailProperties
<1>4. DOMAIN Tail(s) = 1..Len(s) - 1
  BY <1>3, LenProperties
<1>5. \A i \in 2..Len(s) : i - 1 \in 1..Len(s) - 1 /\ (i - 1) + 1 = i
  BY <1>1
<1> QED BY <1>1, <1>2, <1>3, <1>4, <1>5

-----------------------------------------------------------------------------
(* Types. *)

Requests == {m \in Message : /\ m.kind \in {"list", "trash", "read", "write"}
                             /\ m.kind \in {"list", "trash"} => m.dir \in Dirs}

Answers == {m \in Message : /\ m.kind \in {"listing", "trashed", "content", "saved"}
                            /\ m.kind \in {"listing", "trashed"} => m.dir \in Dirs}

Disks == [dirs : [Dirs -> Nat], file : Nat, held : SUBSET Nat, changes : Nat]
Trees == [shown : BOOLEAN, open : SUBSET Folders, listing : [Dirs -> Nat \cup {None}]]
Files == [content : Nat \cup {None}, draft : Nat \cup {None},
          save : {"none", "saving", "saved", "failed"}, saving : Nat, drafts : Nat]
Pasts == [left : Nat, late : BOOLEAN, dropped : BOOLEAN]

\* TypeOK, with the fields of each record and who sends which message.
Shape ==
    /\ disk \in Disks /\ tree \in Trees /\ file \in Files /\ past \in Pasts
    /\ link \in BOOLEAN
    /\ up \in Seq(Requests) /\ down \in Seq(Answers)
    /\ listed \subseteq Dirs /\ changed \subseteq Dirs /\ due \subseteq Dirs
    /\ breaks \in Nat

LEMMA RequestsAre ==
    /\ Read \in Requests /\ <<Read>> \in Seq(Requests)
    /\ \A d \in Dirs : List(d) \in Requests /\ Trash(d) \in Requests
    /\ \A n \in Nat : Write(n) \in Requests
BY MessagesAre DEF Requests, Read, List, Trash, Write

LEMMA AnswersAre ==
    /\ \A d \in Dirs, n \in Nat : Answer("listing", d, n) \in Answers
    /\ \A d \in Dirs : Answer("trashed", d, 0) \in Answers
    /\ \A n \in Nat : Answer("content", None, n) \in Answers
    /\ Answer("saved", None, 0) \in Answers
BY MessagesAre DEF Answers, Answer

LEMMA ListsIs ==
    ASSUME NEW dirs, dirs \subseteq Dirs
    PROVE  /\ Lists(dirs) \in Seq(Requests)
           /\ \A i \in DOMAIN Lists(dirs) : Lists(dirs)[i].kind = "list"
           /\ \A d \in dirs : \E i \in DOMAIN Lists(dirs) : Lists(dirs)[i] = List(d)
<1> DEFINE S == {List(d) : d \in dirs}
           f == [d \in dirs |-> List(d)]
<1>1. IsFiniteSet(Dirs)
  BY FilesAssumption, FS_AddElement DEF Dirs
<1>2. IsFiniteSet(dirs)
  BY <1>1, FS_Subset
<1>3. f \in Surjection(dirs, S)
  BY DEF Surjection
<1>4. IsFiniteSet(S)
  BY <1>2, <1>3, FS_Surjection
<1>5. SetToSeq(S) \in Seq(S) /\ \A x \in S : \E i \in DOMAIN SetToSeq(S) : SetToSeq(S)[i] = x
  BY <1>4, SetToSeqIs
<1>6. S \subseteq Requests /\ \A m \in S : m.kind = "list"
  BY RequestsAre DEF List
<1>7. SetToSeq(S) \in Seq(Requests)
  BY <1>5, <1>6, SeqMonotonic
<1>8. \A i \in DOMAIN SetToSeq(S) : SetToSeq(S)[i] \in S
  BY <1>5, ElementOfSeq, LenProperties
<1> QED BY <1>5, <1>6, <1>7, <1>8 DEF Lists

LEMMA OpenAre ==
    ASSUME NEW t \in Trees
    PROVE  /\ Open(t) \subseteq Dirs /\ UnlistedDirs(t) \subseteq Open(t)
           /\ Relist(t) \subseteq Open(t)
BY DEF Trees, Open, UnlistedDirs, Relist, Dirs

\* The requests of a tree that changed follow those that are under way.
LEMMA TreeIsAsks ==
    ASSUME NEW t \in Trees, NEW s \in Seq(Requests), TreeIs(t, s)
    PROVE  /\ tree' = t
           /\ up' \in Seq(Requests)
           /\ \E l \in Seq(Requests) :
                 /\ up' = s \o l
                 /\ \A i \in DOMAIN l : l[i].kind = "list"
                 /\ t.shown => \A d \in UnlistedDirs(t) : \E i \in DOMAIN l : l[i] = List(d)
<1>1. UnlistedDirs(t) \subseteq Dirs
  BY OpenAre
<1> DEFINE l == IF t.shown THEN Lists(UnlistedDirs(t)) ELSE <<>>
<1>2. /\ l \in Seq(Requests)
      /\ \A i \in DOMAIN l : l[i].kind = "list"
      /\ t.shown => \A d \in UnlistedDirs(t) : \E i \in DOMAIN l : l[i] = List(d)
  <2>1. CASE t.shown
    BY <1>1, <2>1, ListsIs
  <2>2. CASE ~t.shown
    BY <2>2
  <2> QED BY <2>1, <2>2
<1>3. tree' = t /\ up' = s \o l
  BY DEF TreeIs
<1>4. s \o l \in Seq(Requests)
  BY <1>2, ConcatProperties
<1> QED BY <1>2, <1>3, <1>4

LEMMA ShapeInit == Init => Shape
<1> SUFFICES ASSUME Init PROVE Shape
  OBVIOUS
<1>1. disk \in Disks
  BY DEF Init, Disks
<1>2. tree \in Trees
  BY DEF Init, Trees
<1>3. file \in Files
  BY DEF Init, Files
<1>4. up \in Seq(Requests) /\ down \in Seq(Answers)
  BY RequestsAre, EmptySeq DEF Init
<1>5. past \in Pasts
  BY DEF Init, Pasts
<1> QED BY <1>1, <1>2, <1>3, <1>4, <1>5 DEF Init, Shape

LEMMA ShapeOfTypes == Shape => TypeOK
<1>1. Requests \subseteq Message /\ Answers \subseteq Message
  BY DEF Requests, Answers
<1>2. \A s : (s \in Seq(Requests) => s \in Seq(Message)) /\ (s \in Seq(Answers) => s \in Seq(Message))
  BY <1>1, SeqMonotonic
<1> QED BY <1>2 DEF Shape, TypeOK, Disks, Trees, Files, Pasts, Contents

LEMMA ChangeDirIs ==
    ASSUME disk \in Disks, NEW d \in Dirs
    PROVE  /\ ChangeDir(d) \in Disks
           /\ ChangeDir(d).file = disk.file /\ ChangeDir(d).held = disk.held
           /\ \A e \in Dirs \ {d} : ChangeDir(d).dirs[e] = disk.dirs[e]
<1>1. disk.dirs \in [Dirs -> Nat] /\ disk.dirs[d] + 1 \in Nat /\ disk.changes + 1 \in Nat
  BY DEF Disks
<1> DEFINE dirs == [disk.dirs EXCEPT ![d] = @ + 1]
<1>2. dirs \in [Dirs -> Nat] /\ \A e \in Dirs \ {d} : dirs[e] = disk.dirs[e]
  BY <1>1
<1>3. ChangeDir(d) = [disk EXCEPT !.dirs = dirs, !.changes = disk.changes + 1]
  BY DEF ChangeDir
<1> HIDE DEF dirs
<1> QED BY <1>1, <1>2, <1>3 DEF Disks

LEMMA WrittenIs ==
    ASSUME disk \in Disks, NEW n \in Nat
    PROVE  /\ Written(n) \in Disks /\ Written(n).dirs = disk.dirs
           /\ Written(n).file = n /\ Written(n).held = disk.held \cup {n}
BY DEF Written, Disks

LEMMA EditedIs ==
    ASSUME disk \in Disks, NEW n \in Edits, Edited(n)
    PROVE  /\ disk' \in Disks /\ disk'.dirs = disk.dirs
           /\ disk'.file = n /\ disk'.held = disk.held \cup {n}
<1> DEFINE k == Written(n)
<1>1. /\ k \in Disks /\ k.dirs = disk.dirs
      /\ k.file = n /\ k.held = disk.held \cup {n}
  BY FilesAssumption, WrittenIs
<1>2. disk' = [k EXCEPT !.changes = @ + 1]
  BY DEF Edited
<1> HIDE DEF k
<1>3. k.changes + 1 \in Nat
  BY <1>1 DEF Disks
<1> QED BY <1>1, <1>2, <1>3 DEF Disks

LEMMA HoldsIs ==
    ASSUME NEW s, NEW kind
    PROVE  Holds(s, kind) \in BOOLEAN
BY DEF Holds

LEMMA ShapeStep ==
    ASSUME Shape, Next
    PROVE  Shape'
<1> USE DEF Shape
<1>1. ASSUME \/ ShowTree \/ LeaveTree \/ \E d \in Folders : ToggleDir(d)
      PROVE  Shape'
  <2>1. PICK t \in Trees : TreeIs(t, up) /\ Person /\ UNCHANGED file
    BY <1>1 DEF ShowTree, LeaveTree, ToggleDir, Trees
  <2> QED BY <2>1, TreeIsAsks DEF Person
<1>2. ASSUME NEW d \in Dirs, TrashPath(d)
      PROVE  Shape'
  BY <1>2, RequestsAre, AppendProperties DEF TrashPath, Person
<1>3. ASSUME Begin \/ Change \/ Done
      PROVE  Shape'
  <2>1. file' \in Files
    <3>1. CASE Begin
      BY <3>1 DEF Begin, Files
    <3>2. CASE Change
      <4>1. file.drafts + 1 \in Nat
        BY DEF Files
      <4> QED BY <3>2, <4>1 DEF Change, Files
    <3>3. CASE Done
      BY <3>3 DEF Done, Files
    <3> QED BY <1>3, <3>1, <3>2, <3>3
  <2> QED BY <1>3, <2>1 DEF Begin, Change, Done, Person
<1>4. ASSUME Save
      PROVE  Shape'
  <2>1. file.draft \in Nat
    BY <1>4 DEF Save, Files
  <2> QED BY <1>4, <2>1, RequestsAre, AppendProperties DEF Save, StartSave, Person, Files
<1>5. ASSUME FailSave
      PROVE  Shape'
  <2>1. file' \in Files
    BY <1>5 DEF FailSave, Files
  <2>2. past' \in Pasts
    BY <1>5, HoldsIs DEF FailSave, Answered, Pasts
  <2> QED BY <1>5, <2>1, <2>2 DEF FailSave
<1>6. ASSUME Opened
      PROVE  Shape'
  <2>1. Lists(Relist(tree)) \in Seq(Requests) /\ Open(tree) \subseteq Dirs
    BY OpenAre, ListsIs
  <2>2. up \o Lists(Relist(tree)) \o <<Read>> \in Seq(Requests)
    BY <2>1, RequestsAre, ConcatProperties
  <2> QED BY <1>6, <2>1, <2>2 DEF Opened
<1>7. ASSUME Broke
      PROVE  Shape'
  <2>1. up' \in Seq(Requests) /\ down' \in Seq(Answers)
    BY <1>7, EmptySeq DEF Broke
  <2>2. UNCHANGED <<disk, tree, file>> /\ link' = FALSE /\ listed' = {} /\ changed' = {} /\ due' = {}
    BY <1>7 DEF Broke
  <2>3. breaks' \in Nat
    BY <1>7 DEF Broke
  <2>4. past' \in Pasts
    BY <1>7, HoldsIs DEF Broke, Pasts
  <2> QED BY <2>1, <2>2, <2>3, <2>4
<1>8. ASSUME Receive
      PROVE  Shape'
  <2> DEFINE m == Head(down)
  <2>1. m \in Answers /\ Tail(down) \in Seq(Answers) /\ m.n \in Nat
    BY <1>8, TailIs DEF Receive, Answers, Message
  <2>2. SetListing(tree, m.dir, m.n) \in Trees /\ ForgetPath(tree, m.dir) \in Trees
    BY <2>1 DEF SetListing, ForgetPath, Trees
  <2>3. tree' \in Trees /\ up' \in Seq(Requests)
    BY <1>8, <2>2, TreeIsAsks DEF Receive
  <2>4. file' \in Files
    BY <1>8, <2>1 DEF Receive, FinishSave, Files
  <2>5. past' \in Pasts
    BY <1>8 DEF Receive, Reread, Pasts
  <2> QED BY <1>8, <2>1, <2>3, <2>4, <2>5 DEF Receive
<1>9. ASSUME Handle
      PROVE  Shape'
  <2> DEFINE m == Head(up)
  <2>1. m \in Requests /\ Tail(up) \in Seq(Requests) /\ m.n \in Nat
    BY <1>9, TailIs DEF Handle, Requests, Message
  <2>2. m.kind \in {"list", "trash"} => m.dir \in Dirs
    BY <2>1 DEF Requests
  <2>3. /\ m.kind = "list" => Answer("listing", m.dir, disk.dirs[m.dir]) \in Answers
        /\ m.kind = "trash" => Answer("trashed", m.dir, 0) \in Answers
        /\ Answer("content", None, disk.file) \in Answers
        /\ Answer("saved", None, 0) \in Answers
    BY <2>2, AnswersAre DEF Disks
  <2>4. down' \in Seq(Answers)
    <3>1. \A a \in Answers : Append(down, a) \in Seq(Answers)
      BY AppendProperties
    <3> QED BY <1>9, <2>3, <3>1 DEF Handle
  <2>5. disk' \in Disks
    <3>1. CASE m.kind = "trash"
      BY <1>9, <2>2, <3>1, ChangeDirIs DEF Handle
    <3>2. CASE m.kind = "write"
      BY <1>9, <2>1, <3>2, WrittenIs DEF Handle
    <3>3. CASE m.kind \in {"list", "read"}
      BY <1>9, <3>3 DEF Handle
    <3> QED BY <2>1, <3>1, <3>2, <3>3 DEF Requests
  <2>6. listed' \subseteq Dirs /\ changed' \subseteq Dirs
    BY <1>9, <2>2 DEF Handle, Touched
  <2>7. past' \in Pasts
    <3>1. disk.file \in Nat
      BY DEF Disks
    <3> QED BY <1>9, <2>1, <3>1 DEF Handle, Pasts
  <2> QED BY <1>9, <2>1, <2>4, <2>5, <2>6, <2>7 DEF Handle
<1>10. ASSUME NEW d \in Dirs, Changes(d)
      PROVE  Shape'
  <2>1. disk' \in Disks
    BY <1>10, ChangeDirIs DEF Changes
  <2> QED BY <1>10, <2>1 DEF Changes, Touched
<1>11. ASSUME NEW d \in Dirs, DirChanged(d)
      PROVE  Shape'
  <2>1. Answer("listing", d, disk.dirs[d]) \in Answers
    BY AnswersAre DEF Disks
  <2> QED BY <1>11, <2>1, AppendProperties DEF DirChanged, Tell
<1>12. ASSUME NEW n \in Edits, Edited(n)
      PROVE  Shape'
  <2>1. disk' \in Disks
    BY <1>12, EditedIs
  <2> QED BY <1>12, <2>1 DEF Edited
<1> QED BY <1>1, <1>2, <1>3, <1>4, <1>5, <1>6, <1>7, <1>8, <1>9, <1>10, <1>11, <1>12 DEF Next

\* Each message says who sends it, each record has its fields and each listing is of a folder, for
\* any number of folders and messages (use-tree.ts, use-file.ts, the daemon's files.rs).
THEOREM TypeCorrect == Spec => []TypeOK
<1>1. Shape /\ [Next]_vars => Shape'
  <2>1. Shape /\ UNCHANGED vars => Shape'
    BY DEF Shape, vars
  <2> QED BY <2>1, ShapeStep
<1> QED BY <1>1, ShapeInit, ShapeOfTypes, PTL DEF Spec

-----------------------------------------------------------------------------
(* The tree. *)

Asked(d, s) == \E i \in DOMAIN s : s[i].kind = "list" /\ s[i].dir = d

IsListing(m, d) == m.kind = "listing" /\ m.dir = d

Coming(d, s) == \E i \in DOMAIN s : IsListing(s[i], d)

\* Once the phone has received s, what it holds of the folder is n, or nothing.
Shows(d, s, held, n) ==
    \/ \E i \in DOMAIN s : /\ IsListing(s[i], d) /\ s[i].n = n
                           /\ \A j \in DOMAIN s : j > i => ~IsListing(s[j], d)
    \/ held \in {None, n} /\ ~Coming(d, s)

\* A folder that the daemon watches for this connection shows what is on disk, or will.
ListedShow == \A d \in listed \ changed : Shows(d, down, tree.listing[d], disk.dirs[d])

\* What is open and not held has been asked for.
OpenAreAsked ==
    link /\ tree.shown =>
        \A d \in UnlistedDirs(tree) : Asked(d, up) \/ Coming(d, down)

\* What was open when the link came up is watched, or will be.
DueAreListed == \A d \in due : d \in listed \/ Asked(d, up)

TreeInv == ListedShow /\ OpenAreAsked /\ DueAreListed

LEMMA AskedStays ==
    ASSUME NEW s \in Seq(Requests), NEW l \in Seq(Requests), NEW d, Asked(d, s)
    PROVE  Asked(d, s \o l)
BY ConcatIs DEF Asked

LEMMA AskedInTail ==
    ASSUME NEW s \in Seq(Requests), s # <<>>, NEW d, Asked(d, s)
    PROVE  (Head(s).kind = "list" /\ Head(s).dir = d) \/ Asked(d, Tail(s))
<1>1. PICK i \in DOMAIN s : s[i].kind = "list" /\ s[i].dir = d
  BY DEF Asked
<1>2. CASE i = 1
  BY <1>1, <1>2, TailIs
<1>3. CASE i # 1
  <2>1. i - 1 \in DOMAIN Tail(s) /\ Tail(s)[i - 1] = s[i]
    BY <1>3, TailIs
  <2> QED BY <1>1, <2>1 DEF Asked
<1> QED BY <1>2, <1>3

LEMMA ComingAfter ==
    ASSUME NEW s \in Seq(Answers), NEW m \in Answers, NEW d
    PROVE  Coming(d, s) \/ IsListing(m, d) <=> Coming(d, Append(s, m))
<1> DEFINE t == Append(s, m)
<1>1. /\ DOMAIN s = 1..Len(s) /\ Len(s) \in Nat /\ DOMAIN t = 1..Len(s) + 1
      /\ \A i \in 1..Len(s) : t[i] = s[i]
      /\ t[Len(s) + 1] = m
  BY AppendIs
<1> HIDE DEF t
<1> QED BY <1>1 DEF Coming, t

LEMMA ComingInTail ==
    ASSUME NEW s \in Seq(Answers), s # <<>>, NEW d
    PROVE  Coming(d, s) <=> IsListing(Head(s), d) \/ Coming(d, Tail(s))
<1> DEFINE t == Tail(s)
<1>1. /\ Head(s) = s[1] /\ DOMAIN s = 1..Len(s) /\ Len(s) \in Nat /\ Len(s) >= 1
      /\ DOMAIN t = 1..Len(s) - 1
      /\ \A i \in 1..Len(s) - 1 : t[i] = s[i + 1]
      /\ \A i \in 2..Len(s) : i - 1 \in DOMAIN t /\ t[i - 1] = s[i]
  BY TailIs
<1> HIDE DEF t
<1>2. ASSUME Coming(d, s), ~IsListing(Head(s), d)
      PROVE  Coming(d, t)
  <2>1. PICK i \in DOMAIN s : IsListing(s[i], d)
    BY <1>2 DEF Coming
  <2>2. i \in 2..Len(s)
    BY <1>1, <1>2, <2>1
  <2> QED BY <1>1, <2>1, <2>2 DEF Coming
<1>3. ASSUME Coming(d, t)
      PROVE  Coming(d, s)
  <2>1. PICK i \in DOMAIN t : IsListing(t[i], d)
    BY <1>3 DEF Coming
  <2>2. i + 1 \in DOMAIN s /\ t[i] = s[i + 1]
    BY <1>1
  <2> QED BY <2>1, <2>2 DEF Coming
<1>4. IsListing(Head(s), d) => Coming(d, s)
  BY <1>1 DEF Coming
<1> QED BY <1>2, <1>3, <1>4 DEF t

LEMMA ShowsAfter ==
    ASSUME NEW s \in Seq(Answers), NEW m \in Answers, NEW d, NEW held, NEW n
    PROVE  /\ IsListing(m, d) /\ m.n = n => Shows(d, Append(s, m), held, n)
           /\ ~IsListing(m, d) /\ Shows(d, s, held, n) => Shows(d, Append(s, m), held, n)
<1> DEFINE t == Append(s, m)
<1>1. /\ DOMAIN s = 1..Len(s) /\ Len(s) \in Nat /\ DOMAIN t = 1..Len(s) + 1
      /\ \A i \in 1..Len(s) : t[i] = s[i]
      /\ t[Len(s) + 1] = m
  BY AppendIs
<1>2. Coming(d, s) \/ IsListing(m, d) <=> Coming(d, t)
  BY ComingAfter
<1> HIDE DEF t
<1>3. ASSUME IsListing(m, d), m.n = n
      PROVE  Shows(d, t, held, n)
  BY <1>1, <1>3 DEF Shows
<1>4. ASSUME ~IsListing(m, d), Shows(d, s, held, n)
      PROVE  Shows(d, t, held, n)
  <2>1. CASE held \in {None, n} /\ ~Coming(d, s)
    BY <1>2, <1>4, <2>1 DEF Shows
  <2>2. ASSUME NEW i \in DOMAIN s, IsListing(s[i], d), s[i].n = n,
               \A j \in DOMAIN s : j > i => ~IsListing(s[j], d)
        PROVE  Shows(d, t, held, n)
    <3>1. i \in DOMAIN t /\ t[i] = s[i]
      BY <1>1
    <3>2. \A j \in DOMAIN t : j > i => ~IsListing(t[j], d)
      BY <1>1, <1>4, <2>2
    <3> QED BY <2>2, <3>1, <3>2 DEF Shows
  <2> QED BY <1>4, <2>1, <2>2 DEF Shows
<1> QED BY <1>3, <1>4 DEF t

LEMMA ShowsInTail ==
    ASSUME NEW s \in Seq(Answers), s # <<>>, NEW d, NEW held, NEW n, Shows(d, s, held, n)
    PROVE  /\ IsListing(Head(s), d) => Shows(d, Tail(s), Head(s).n, n)
           /\ ~IsListing(Head(s), d) => \A h \in {held, None} : Shows(d, Tail(s), h, n)
<1> DEFINE t == Tail(s)
<1>1. /\ Head(s) = s[1] /\ DOMAIN s = 1..Len(s) /\ Len(s) \in Nat /\ Len(s) >= 1
      /\ DOMAIN t = 1..Len(s) - 1
      /\ \A i \in 1..Len(s) - 1 : t[i] = s[i + 1]
      /\ \A i \in 2..Len(s) : i - 1 \in DOMAIN t /\ t[i - 1] = s[i]
  BY TailIs
<1>2. Coming(d, s) <=> IsListing(Head(s), d) \/ Coming(d, t)
  BY ComingInTail
<1> HIDE DEF t
<1>3. CASE held \in {None, n} /\ ~Coming(d, s)
  BY <1>2, <1>3 DEF Shows, t
<1>4. ASSUME NEW i \in DOMAIN s, IsListing(s[i], d), s[i].n = n,
             \A j \in DOMAIN s : j > i => ~IsListing(s[j], d)
      PROVE  \/ IsListing(Head(s), d) /\ Shows(d, t, Head(s).n, n)
             \/ \A h : Shows(d, t, h, n)
  <2>1. CASE i = 1
    <3>1. Head(s).n = n /\ IsListing(Head(s), d)
      BY <1>1, <1>4, <2>1
    <3>2. \A j \in DOMAIN t : ~IsListing(t[j], d)
      BY <1>1, <1>4, <2>1
    <3> QED BY <3>1, <3>2 DEF Shows, Coming
  <2>2. CASE i # 1
    <3>1. i - 1 \in DOMAIN t /\ t[i - 1] = s[i]
      BY <1>1, <2>2
    <3>2. \A j \in DOMAIN t : j > i - 1 => ~IsListing(t[j], d)
      <4> TAKE j \in DOMAIN t
      <4> HAVE j > i - 1
      <4>1. j + 1 \in DOMAIN s /\ j + 1 > i /\ t[j] = s[j + 1]
        BY <1>1
      <4> QED BY <1>4, <4>1
    <3> QED BY <1>4, <3>1, <3>2 DEF Shows
  <2> QED BY <2>1, <2>2
<1> QED BY <1>3, <1>4 DEF Shows, t

LEMMA TreeInit == Init => TreeInv
BY DEF Init, TreeInv, ListedShow, OpenAreAsked, DueAreListed

\* Whatever makes the tree's effect run leaves nothing open that is not asked for.
LEMMA TreeIsKeeps ==
    ASSUME Shape, DueAreListed, NEW t \in Trees, TreeIs(t, up), UNCHANGED <<listed, due>>
    PROVE  OpenAreAsked' /\ DueAreListed'
<1>1. PICK l \in Seq(Requests) :
        /\ up' = up \o l
        /\ t.shown => \A d \in UnlistedDirs(t) : \E i \in DOMAIN l : l[i] = List(d)
  BY TreeIsAsks DEF Shape
<1>2. \A d : Asked(d, up) => Asked(d, up')
  BY <1>1, AskedStays DEF Shape
<1>3. ASSUME t.shown, NEW d \in UnlistedDirs(t)
      PROVE  Asked(d, up')
  <2>1. PICK j \in DOMAIN l : l[j] = List(d)
    BY <1>1, <1>3
  <2>2. PICK i \in DOMAIN (up \o l) : (up \o l)[i] = l[j]
    BY ConcatIs DEF Shape
  <2> QED BY SMTT(30), <1>1, <2>1, <2>2 DEF Asked, List
<1>4. tree' = t
  BY TreeIsAsks DEF Shape
<1>5. OpenAreAsked'
  BY <1>3, <1>4 DEF OpenAreAsked
<1> QED BY <1>2, <1>5 DEF DueAreListed

LEMMA TreeStep ==
    ASSUME Shape, TreeInv, Next
    PROVE  TreeInv'
<1>1. ASSUME \/ ShowTree \/ LeaveTree \/ \E d \in Folders : ToggleDir(d)
      PROVE  TreeInv'
  <2>1. PICK t \in Trees : TreeIs(t, up) /\ Person /\ t.listing = tree.listing
    <3>1. CASE ShowTree
      <4>1. [tree EXCEPT !.shown = TRUE] \in Trees /\ [tree EXCEPT !.shown = TRUE].listing = tree.listing
        BY DEF Trees, Shape
      <4>2. TreeIs([tree EXCEPT !.shown = TRUE], up) /\ Person
        BY <3>1 DEF ShowTree
      <4> QED BY <4>1, <4>2
    <3>2. CASE LeaveTree
      <4>1. [tree EXCEPT !.shown = FALSE] \in Trees /\ [tree EXCEPT !.shown = FALSE].listing = tree.listing
        BY DEF Trees, Shape
      <4>2. TreeIs([tree EXCEPT !.shown = FALSE], up) /\ Person
        BY <3>2 DEF LeaveTree
      <4> QED BY <4>1, <4>2
    <3>3. ASSUME NEW d \in Folders, ToggleDir(d)
          PROVE  \E t \in Trees : TreeIs(t, up) /\ Person /\ t.listing = tree.listing
      <4> DEFINE open == IF d \in tree.open THEN tree.open \ {d} ELSE tree.open \cup {d}
      <4>1. [tree EXCEPT !.open = open] \in Trees /\ [tree EXCEPT !.open = open].listing = tree.listing
        BY DEF Trees, Shape
      <4>2. TreeIs([tree EXCEPT !.open = open], up) /\ Person
        BY <3>3 DEF ToggleDir
      <4> QED BY <4>1, <4>2
    <3> QED BY <1>1, <3>1, <3>2, <3>3
  <2>2. OpenAreAsked' /\ DueAreListed'
    BY <2>1, TreeIsKeeps DEF Person, TreeInv
  <2>3. ListedShow'
    BY <2>1 DEF TreeIs, Person, TreeInv, ListedShow
  <2> QED BY <2>2, <2>3 DEF TreeInv
<1>2. ASSUME UNCHANGED <<disk, tree, link, down, listed, changed, due>>,
             up' = up \/ \E m \in Requests : up' = Append(up, m)
      PROVE  TreeInv'
  <2>1. ASSUME NEW m \in Requests
        PROVE  <<m>> \in Seq(Requests) /\ Append(up, m) = up \o <<m>>
    BY AppendIsConcat DEF Shape
  <2>2. \A d : Asked(d, up) => Asked(d, up')
    BY <1>2, <2>1, AskedStays DEF Shape
  <2>3. ListedShow' /\ OpenAreAsked' /\ DueAreListed'
    BY <1>2, <2>2 DEF TreeInv, ListedShow, OpenAreAsked, DueAreListed
  <2> QED BY <2>3 DEF TreeInv
<1>3. ASSUME \E d \in Dirs : TrashPath(d)
      PROVE  TreeInv'
  BY <1>2, <1>3, RequestsAre DEF TrashPath, Person
<1>4. ASSUME Begin \/ Change \/ Done \/ FailSave
      PROVE  TreeInv'
  BY <1>2, <1>4 DEF Begin, Change, Done, FailSave, Person
<1>5. ASSUME Save
      PROVE  TreeInv'
  <2>1. file.draft \in Nat
    BY <1>5 DEF Save, Files, Shape
  <2> QED BY <1>2, <1>5, <2>1, RequestsAre DEF Save, Person
<1>6. ASSUME Opened
      PROVE  TreeInv'
  <2>1. tree \in Trees /\ up \in Seq(Requests) /\ <<Read>> \in Seq(Requests)
    BY RequestsAre DEF Shape
  <2>2. Open(tree) \subseteq Dirs /\ UnlistedDirs(tree) \subseteq Open(tree)
    BY <2>1, OpenAre
  <2>3. ASSUME tree.shown, NEW d \in Open(tree)
        PROVE  Asked(d, up')
    <3> DEFINE l == Lists(Open(tree))
    <3>1. l \in Seq(Requests) /\ \E i \in DOMAIN l : l[i] = List(d)
      BY <2>2, <2>3, ListsIs
    <3> HIDE DEF l
    <3>2. PICK j \in DOMAIN l : l[j] = List(d)
      BY <3>1
    <3>3. PICK i \in DOMAIN (up \o l) : (up \o l)[i] = List(d)
      BY <2>1, <3>1, <3>2, ConcatIs
    <3>4. Asked(d, up \o l) /\ up \o l \in Seq(Requests)
      <4>1. List(d).kind = "list" /\ List(d).dir = d
        BY DEF List
      <4>2. up \o l \in Seq(Requests)
        BY <2>1, <3>1, ConcatProperties
      <4> QED BY <3>3, <4>1, <4>2 DEF Asked
    <3>5. Asked(d, up \o l \o <<Read>>)
      BY <2>1, <3>4, AskedStays
    <3> QED BY <1>6, <2>3, <3>5 DEF Opened, Relist, l
  <2>4. OpenAreAsked' /\ DueAreListed'
    BY <1>6, <2>2, <2>3 DEF Opened, OpenAreAsked, DueAreListed
  <2>5. ListedShow'
    BY <1>6 DEF Opened, TreeInv, ListedShow
  <2> QED BY <2>4, <2>5 DEF TreeInv
<1>7. ASSUME Broke
      PROVE  TreeInv'
  BY <1>7 DEF Broke, TreeInv, ListedShow, OpenAreAsked, DueAreListed
<1>8. ASSUME Receive
      PROVE  TreeInv'
  <2> DEFINE m == Head(down)
  <2>1. m \in Answers /\ m.n \in Nat /\ down \in Seq(Answers) /\ down # <<>>
    BY <1>8, TailIs DEF Receive, Answers, Message, Shape
  <2>2. tree \in Trees
    BY DEF Shape
  <2>3. ASSUME NEW d \in listed' \ changed'
        PROVE  Shows(d, down', tree'.listing[d], disk'.dirs[d])
    <3>1. d \in Dirs /\ Shows(d, down, tree.listing[d], disk.dirs[d])
      BY <1>8, <2>3 DEF Receive, TreeInv, ListedShow, Shape
    <3>2. /\ IsListing(m, d) => Shows(d, Tail(down), m.n, disk.dirs[d])
          /\ ~IsListing(m, d) => \A h \in {tree.listing[d], None} : Shows(d, Tail(down), h, disk.dirs[d])
      BY <2>1, <3>1, ShowsInTail
    <3>3. IF IsListing(m, d) THEN tree'.listing[d] = m.n ELSE tree'.listing[d] \in {tree.listing[d], None}
      <4>1. CASE m.kind = "listing"
        <5>1. tree' = SetListing(tree, m.dir, m.n)
          BY <1>8, <4>1 DEF Receive, TreeIs
        <5> QED BY <2>2, <3>1, <4>1, <5>1 DEF SetListing, IsListing, Trees
      <4>2. CASE m.kind = "trashed"
        <5>1. tree' = ForgetPath(tree, m.dir)
          BY <1>8, <4>2 DEF Receive, TreeIs
        <5> QED BY <2>2, <3>1, <4>2, <5>1 DEF ForgetPath, IsListing, Trees
      <4>3. CASE m.kind \in {"content", "saved"}
        BY <1>8, <4>3 DEF Receive, IsListing
      <4> QED BY <2>1, <4>1, <4>2, <4>3 DEF Answers
    <3> QED BY <1>8, <3>2, <3>3 DEF Receive
  <2>4. CASE m.kind \in {"listing", "trashed"}
    <3>1. SetListing(tree, m.dir, m.n) \in Trees /\ ForgetPath(tree, m.dir) \in Trees
      BY <2>1, <2>2 DEF SetListing, ForgetPath, Trees
    <3>2. PICK t \in Trees : TreeIs(t, up)
      BY <1>8, <2>4, <3>1 DEF Receive
    <3>3. OpenAreAsked' /\ DueAreListed'
      BY <1>8, <3>2, TreeIsKeeps DEF Receive, TreeInv
    <3> QED BY <2>3, <3>3 DEF TreeInv, ListedShow
  <2>5. CASE m.kind \in {"content", "saved"}
    <3>1. UNCHANGED <<tree, up, link, listed, due>> /\ down' = Tail(down)
      BY <1>8, <2>5 DEF Receive
    <3>2. \A d : Coming(d, down) => Coming(d, down')
      BY <2>1, <2>5, <3>1, ComingInTail DEF IsListing
    <3>3. OpenAreAsked' /\ DueAreListed'
      BY <3>1, <3>2 DEF TreeInv, OpenAreAsked, DueAreListed
    <3> QED BY <2>3, <3>3 DEF TreeInv, ListedShow
  <2> QED BY <2>1, <2>4, <2>5 DEF Answers
<1>9. ASSUME Handle
      PROVE  TreeInv'
  <2> DEFINE m == Head(up)
  <2>1. m \in Requests /\ up \in Seq(Requests) /\ up # <<>> /\ down \in Seq(Answers)
    BY <1>9, TailIs DEF Handle, Shape
  <2>2. m.kind \in {"list", "trash"} => m.dir \in Dirs
    BY <2>1 DEF Requests
  <2>3. \A d : Asked(d, up) => (m.kind = "list" /\ m.dir = d) \/ Asked(d, up')
    BY <1>9, <2>1, AskedInTail DEF Handle
  <2>4. UNCHANGED <<tree, link, due>>
    BY <1>9 DEF Handle
  <2>5. CASE m.kind = "list"
    <3> DEFINE a == Answer("listing", m.dir, disk.dirs[m.dir])
    <3>1. a \in Answers /\ a.kind = "listing" /\ a.dir = m.dir /\ a.n = disk.dirs[m.dir]
      BY <2>2, <2>5, AnswersAre DEF Answer, Shape, Disks
    <3>2. /\ listed' = listed \cup {m.dir} /\ UNCHANGED <<disk, changed>>
          /\ down' = Append(down, a)
      BY <1>9, <2>5 DEF Handle
    <3> HIDE DEF a
    <3>3. ASSUME NEW d \in listed' \ changed'
          PROVE  Shows(d, down', tree'.listing[d], disk'.dirs[d])
      <4>1. CASE d = m.dir
        BY <2>1, <2>4, <3>1, <3>2, <4>1, ShowsAfter DEF IsListing
      <4>2. CASE d # m.dir
        <5>1. Shows(d, down, tree.listing[d], disk.dirs[d])
          BY <3>2, <3>3, <4>2 DEF TreeInv, ListedShow
        <5>2. ~IsListing(a, d)
          BY <3>1, <4>2 DEF IsListing
        <5> QED BY <2>1, <2>4, <3>1, <3>2, <5>1, <5>2, ShowsAfter
      <4> QED BY <4>1, <4>2
    <3>4. \A d : Coming(d, down) \/ d = m.dir => Coming(d, down')
      BY <2>1, <3>1, <3>2, ComingAfter DEF IsListing
    <3>5. OpenAreAsked' /\ DueAreListed'
      BY <2>3, <2>4, <3>2, <3>4 DEF TreeInv, OpenAreAsked, DueAreListed
    <3> QED BY <3>3, <3>5 DEF TreeInv, ListedShow
  <2>6. CASE m.kind # "list"
    <3>1. /\ listed' = listed
          /\ \/ down' = down
             \/ \E a \in Answers : a.kind # "listing" /\ down' = Append(down, a)
      <4>1. CASE m.kind = "trash"
        BY <1>9, <2>2, <4>1, AnswersAre DEF Handle, Answer
      <4>2. CASE m.kind = "read"
        BY <1>9, <4>2, AnswersAre DEF Handle, Answer, Shape, Disks
      <4>3. CASE m.kind = "write"
        BY <1>9, <4>3, AnswersAre DEF Handle, Answer
      <4> QED BY <2>1, <2>6, <4>1, <4>2, <4>3 DEF Requests
    <3>2. changed \subseteq changed' /\ \A d \in listed \ changed' : disk'.dirs[d] = disk.dirs[d]
      <4>1. CASE m.kind = "trash" /\ disk' # disk
        <5>1. disk' = ChangeDir(m.dir) /\ changed' = Touched(m.dir)
          BY <1>9, <4>1 DEF Handle
        <5>2. \A e \in Dirs \ {m.dir} : disk'.dirs[e] = disk.dirs[e]
          BY <2>2, <4>1, <5>1, ChangeDirIs DEF Shape
        <5> QED BY <5>1, <5>2 DEF Touched, Shape
      <4>2. CASE disk' = disk
        BY <1>9, <4>2 DEF Handle, Touched
      <4>3. CASE m.kind = "read"
        BY <1>9, <4>3 DEF Handle
      <4>4. CASE m.kind = "write"
        <5>1. m.n \in Nat /\ disk \in Disks
          BY <2>1 DEF Requests, Message, Shape
        <5>2. disk' = disk \/ disk'.dirs = disk.dirs
          BY <1>9, <4>4, <5>1, WrittenIs DEF Handle
        <5> QED BY <1>9, <4>4, <5>2 DEF Handle
      <4> QED BY <2>1, <2>6, <4>1, <4>2, <4>3, <4>4 DEF Requests
    <3>3. ASSUME NEW d
          PROVE  /\ Coming(d, down) => Coming(d, down')
                 /\ \A h, n : Shows(d, down, h, n) => Shows(d, down', h, n)
      <4>1. CASE down' = down
        BY <4>1
      <4>2. ASSUME NEW a \in Answers, a.kind # "listing", down' = Append(down, a)
            PROVE  /\ Coming(d, down) => Coming(d, down')
                   /\ \A h, n : Shows(d, down, h, n) => Shows(d, down', h, n)
        <5>1. ~IsListing(a, d)
          BY <4>2 DEF IsListing
        <5> QED BY <2>1, <4>2, <5>1, ComingAfter, ShowsAfter
      <4> QED BY <3>1, <4>1, <4>2
    <3>4. ListedShow'
      BY <2>4, <3>1, <3>2, <3>3 DEF TreeInv, ListedShow
    <3>5. OpenAreAsked' /\ DueAreListed'
      BY <2>3, <2>4, <2>6, <3>1, <3>3 DEF TreeInv, OpenAreAsked, DueAreListed
    <3> QED BY <3>4, <3>5 DEF TreeInv
  <2> QED BY <2>5, <2>6
<1>10. ASSUME NEW d \in Dirs, Changes(d)
      PROVE  TreeInv'
  <2>1. \A e \in Dirs \ {d} : disk'.dirs[e] = disk.dirs[e]
    BY <1>10, ChangeDirIs DEF Changes, Shape
  <2>2. ListedShow'
    BY <1>10, <2>1 DEF Changes, Touched, TreeInv, ListedShow, Shape
  <2>3. OpenAreAsked' /\ DueAreListed'
    BY <1>10 DEF Changes, TreeInv, OpenAreAsked, DueAreListed
  <2> QED BY <2>2, <2>3 DEF TreeInv
<1>11. ASSUME NEW d \in Dirs, DirChanged(d)
      PROVE  TreeInv'
  <2> DEFINE a == Answer("listing", d, disk.dirs[d])
  <2>1. a \in Answers /\ a.kind = "listing" /\ a.dir = d /\ a.n = disk.dirs[d]
    BY AnswersAre DEF Answer, Shape, Disks
  <2>2. down' = Append(down, a) /\ down \in Seq(Answers)
    BY <1>11 DEF DirChanged, Tell, Shape
  <2> HIDE DEF a
  <2>3. UNCHANGED <<disk, tree, up, link, listed, due>> /\ changed' = changed \ {d}
    BY <1>11 DEF DirChanged
  <2>4. ASSUME NEW e \in listed' \ changed'
        PROVE  Shows(e, down', tree'.listing[e], disk'.dirs[e])
    <3>1. CASE e = d
      BY <2>1, <2>2, <2>3, <3>1, ShowsAfter DEF IsListing
    <3>2. CASE e # d
      <4>1. Shows(e, down, tree.listing[e], disk.dirs[e]) /\ ~IsListing(a, e)
        BY <2>1, <2>3, <2>4, <3>2 DEF TreeInv, ListedShow, IsListing
      <4> QED BY <2>1, <2>2, <2>3, <4>1, ShowsAfter
    <3> QED BY <3>1, <3>2
  <2>5. \A e : Coming(e, down) => Coming(e, down')
    BY <2>1, <2>2, ComingAfter
  <2>6. OpenAreAsked' /\ DueAreListed'
    BY <2>3, <2>5 DEF TreeInv, OpenAreAsked, DueAreListed
  <2> QED BY <2>4, <2>6 DEF TreeInv, ListedShow
<1>12. ASSUME NEW n \in Edits, Edited(n)
      PROVE  TreeInv'
  <2>1. disk'.dirs = disk.dirs
    BY <1>12, EditedIs DEF Shape
  <2> QED BY <1>12, <2>1 DEF Edited, TreeInv, ListedShow, OpenAreAsked, DueAreListed
<1> QED BY <1>1, <1>3, <1>4, <1>5, <1>6, <1>7, <1>8, <1>9, <1>10, <1>11, <1>12 DEF Next

-----------------------------------------------------------------------------
(* The messages under way, by what they say of the file. *)

In(s, m) == \E i \in DOMAIN s : s[i] = m

Once(s, kind) == \A i, j \in DOMAIN s : s[i].kind = kind /\ s[j].kind = kind => i = j

Tells(m) == m.kind \in {"content", "saved"}

Silent(s) == \A m : In(s, m) => ~Tells(m)

\* The last of the messages to tell of the file.
Told(s, m) == \E i \in DOMAIN s : /\ s[i] = m /\ Tells(m)
                                  /\ \A j \in DOMAIN s : j > i => ~Tells(s[j])

LEMMA HoldsIsIn ==
    ASSUME NEW s, NEW kind
    PROVE  Holds(s, kind) <=> \E m : In(s, m) /\ m.kind = kind
BY DEF Holds, In

LEMMA InConcat ==
    ASSUME NEW S, NEW s \in Seq(S), NEW l \in Seq(S)
    PROVE  /\ \A m : In(s \o l, m) <=> In(s, m) \/ In(l, m)
           /\ \A kind : Once(s, kind) /\ ~Holds(l, kind) => Once(s \o l, kind)
<1> DEFINE t == s \o l
<1>1. \A i \in DOMAIN s : i \in DOMAIN t /\ t[i] = s[i]
  BY ConcatIs
<1>2. ASSUME NEW j \in DOMAIN l
      PROVE  \E i \in DOMAIN t : t[i] = l[j]
  BY ConcatIs
<1>3. ASSUME NEW i \in DOMAIN t
      PROVE  \/ i \in DOMAIN s /\ t[i] = s[i]
             \/ \E j \in DOMAIN l : t[i] = l[j]
  BY ConcatIs
<1> HIDE DEF t
<1>4. \A m : In(t, m) <=> In(s, m) \/ In(l, m)
  BY <1>1, <1>2, <1>3 DEF In
<1>5. \A kind : Once(s, kind) /\ ~Holds(l, kind) => Once(t, kind)
  BY <1>3 DEF Once, Holds
<1> QED BY <1>4, <1>5 DEF t

LEMMA InAppend ==
    ASSUME NEW S, NEW s \in Seq(S), NEW a \in S
    PROVE  /\ \A m : In(Append(s, a), m) <=> In(s, m) \/ m = a
           /\ \A kind : (Once(s, kind) /\ a.kind # kind) \/ ~Holds(s, kind) => Once(Append(s, a), kind)
           /\ \A m : Told(Append(s, a), m) <=> IF Tells(a) THEN m = a ELSE Told(s, m)
<1> DEFINE t == Append(s, a)
           n == Len(s)
<1>1. /\ DOMAIN s = 1..n /\ n \in Nat /\ DOMAIN t = 1..n + 1
      /\ \A i \in 1..n : t[i] = s[i]
      /\ t[n + 1] = a
  BY AppendIs
<1> HIDE DEF t, n
<1>2. DOMAIN t = DOMAIN s \cup {n + 1} /\ n + 1 \notin DOMAIN s /\ \A i \in DOMAIN s : n + 1 > i /\ ~(i > n + 1)
  BY <1>1
<1>3. \A m : In(t, m) <=> In(s, m) \/ m = a
  BY <1>1, <1>2 DEF In
<1>4. \A kind : (Once(s, kind) /\ a.kind # kind) \/ ~Holds(s, kind) => Once(t, kind)
  BY <1>1, <1>2 DEF Once, Holds
<1>5. ASSUME Tells(a), NEW m
      PROVE  Told(t, m) <=> m = a
  <2>1. Told(t, m) => m = a
    BY <1>1, <1>2, <1>5 DEF Told
  <2>2. m = a => Told(t, m)
    BY <1>1, <1>2, <1>5 DEF Told
  <2> QED BY <2>1, <2>2
<1>6. ASSUME ~Tells(a), NEW m
      PROVE  Told(t, m) <=> Told(s, m)
  <2>1. Told(t, m) => Told(s, m)
    BY <1>1, <1>2, <1>6 DEF Told
  <2>2. Told(s, m) => Told(t, m)
    BY <1>1, <1>2, <1>6 DEF Told
  <2> QED BY <2>1, <2>2
<1> QED BY <1>3, <1>4, <1>5, <1>6 DEF t

LEMMA InTail ==
    ASSUME NEW S, NEW s \in Seq(S), s # <<>>
    PROVE  /\ \A m : In(s, m) <=> m = Head(s) \/ In(Tail(s), m)
           /\ \A kind : Once(s, kind) => /\ Once(Tail(s), kind)
                                         /\ Head(s).kind = kind => ~Holds(Tail(s), kind)
           /\ \A m : Told(Tail(s), m) => Told(s, m)
           /\ Tells(Head(s)) /\ Silent(Tail(s)) => Told(s, Head(s))
<1> DEFINE t == Tail(s)
           h == Head(s)
<1>1. /\ h = s[1]
      /\ DOMAIN s = 1..Len(s) /\ Len(s) \in Nat /\ Len(s) >= 1
      /\ DOMAIN t = 1..Len(s) - 1
      /\ \A i \in 1..Len(s) - 1 : t[i] = s[i + 1]
      /\ \A i \in 2..Len(s) : i - 1 \in DOMAIN t /\ t[i - 1] = s[i]
  BY TailIs
<1> HIDE DEF t, h
<1>2. \A i \in DOMAIN t : i + 1 \in DOMAIN s /\ t[i] = s[i + 1] /\ i + 1 # 1
  BY <1>1
<1>3. \A i \in DOMAIN s : i = 1 \/ (i - 1 \in DOMAIN t /\ t[i - 1] = s[i])
  <2> TAKE i \in DOMAIN s
  <2>1. i = 1 \/ i \in 2..Len(s)
    BY <1>1
  <2> QED BY <1>1, <2>1
<1>4. 1 \in DOMAIN s
  BY <1>1
<1>5. \A m : In(s, m) <=> m = h \/ In(t, m)
  <2>1. \A m : In(s, m) => m = h \/ In(t, m)
    BY <1>1, <1>3 DEF In
  <2>2. \A m : m = h \/ In(t, m) => In(s, m)
    BY <1>1, <1>2, <1>4 DEF In
  <2> QED BY <2>1, <2>2
<1>6. ASSUME NEW kind, Once(s, kind)
      PROVE  Once(t, kind) /\ (h.kind = kind => ~Holds(t, kind))
  <2>1. Once(t, kind)
    <3> SUFFICES ASSUME NEW i \in DOMAIN t, NEW j \in DOMAIN t, t[i].kind = kind, t[j].kind = kind
                 PROVE  i = j
      BY DEF Once
    <3>1. i + 1 = j + 1
      BY <1>2, <1>6 DEF Once
    <3> QED BY <1>1, <3>1
  <2>2. h.kind = kind => ~Holds(t, kind)
    BY <1>1, <1>2, <1>4, <1>6 DEF Once, Holds
  <2> QED BY <2>1, <2>2
<1>7. ASSUME NEW m, Told(t, m)
      PROVE  Told(s, m)
  <2>1. PICK i \in DOMAIN t : t[i] = m /\ Tells(m) /\ \A j \in DOMAIN t : j > i => ~Tells(t[j])
    BY <1>7 DEF Told
  <2>2. i + 1 \in DOMAIN s /\ s[i + 1] = m
    BY <1>2, <2>1
  <2>3. \A j \in DOMAIN s : j > i + 1 => ~Tells(s[j])
    <3> TAKE j \in DOMAIN s
    <3> HAVE j > i + 1
    <3>1. j - 1 \in DOMAIN t /\ t[j - 1] = s[j] /\ j - 1 > i
      BY <1>1
    <3> QED BY <2>1, <3>1
  <2> QED BY <2>1, <2>2, <2>3 DEF Told
<1>8. ASSUME Tells(h), Silent(t)
      PROVE  Told(s, h)
  <2>1. \A j \in DOMAIN s : j > 1 => ~Tells(s[j])
    <3> TAKE j \in DOMAIN s
    <3> HAVE j > 1
    <3>1. j - 1 \in DOMAIN t /\ t[j - 1] = s[j]
      BY <1>1
    <3> QED BY <1>8, <3>1 DEF Silent, In
  <2> QED BY <1>1, <1>4, <1>8, <2>1 DEF Told
<1> QED BY <1>5, <1>6, <1>7, <1>8 DEF t, h

-----------------------------------------------------------------------------
(* The file. *)

\* As long as no save was given up too early at most one is under way, of what
\* the phone takes it for.
OneSave ==
    ~past.late =>
        /\ \A m : In(up, m) /\ m.kind = "write" => file.save = "saving" /\ m.n = file.saving
        /\ Holds(down, "saved") => file.save = "saving" /\ ~Holds(up, "write")
        /\ Once(up, "write") /\ Once(down, "saved")

\* The last to tell of the file tells what it was then, and if none does the
\* phone has it, or asks for it.
FileTold ==
    /\ \A m : Told(down, m) /\ m.kind = "content" => m.n = past.left
    /\ ~past.late => /\ \A m : Told(down, m) /\ m.kind = "saved" => file.saving = past.left
                     /\ link /\ Silent(down) => Holds(up, "read") \/ file.content = past.left

\* The file has held it, or will if nothing more fails.
Safe(n) == n \in disk.held \/ (past.late /\ In(up, Write(n)))

AllAreSafe ==
    /\ disk.file \in disk.held
    /\ \A m : In(down, m) /\ m.kind = "content" => m.n \in disk.held
    /\ ~past.dropped => /\ file.content = None \/ Safe(file.content)
                        /\ file.save = "saving" /\ (past.late \/ Holds(down, "saved")) => Safe(file.saving)

FileInv == OneSave /\ FileTold /\ AllAreSafe

LEMMA FileInit == Init => FileInv
<1> SUFFICES ASSUME Init PROVE FileInv
  OBVIOUS
<1>1. /\ up = <<Read>> /\ down = <<>> /\ link = FALSE
      /\ file.content = None /\ file.save = "none" /\ disk.file \in disk.held
  BY DEF Init
<1>2. /\ \A m : ~In(down, m) /\ ~Told(down, m)
      /\ ~Holds(down, "saved") /\ Once(down, "saved")
  BY <1>1 DEF In, Told, Holds, Once
<1>3. DOMAIN up = {1} /\ up[1].kind = "read"
  BY <1>1 DEF Read
<1>4. (\A m : In(up, m) => m.kind = "read") /\ Once(up, "write")
  BY <1>3 DEF In, Once
<1>5. OneSave
  BY <1>2, <1>4 DEF OneSave
<1>6. FileTold
  BY <1>1, <1>2 DEF FileTold
<1>7. AllAreSafe
  BY <1>1, <1>2 DEF AllAreSafe
<1> QED BY <1>5, <1>6, <1>7 DEF FileInv

\* The queues grow or shrink by what says nothing of the file.
Aside ==
    /\ \A m : In(up', m) => In(up, m) \/ m.kind # "write"
    /\ \A m : In(up, m) /\ m.kind \in {"read", "write"} => In(up', m)
    /\ Once(up, "write") => Once(up', "write")
    /\ \A m : In(down', m) => In(down, m) \/ ~Tells(m)
    /\ Once(down, "saved") => Once(down', "saved")
    /\ \A m : Told(down', m) => Told(down, m)
    /\ Silent(down') => Silent(down)

LEMMA FileAside ==
    ASSUME FileInv, Aside,
           UNCHANGED <<file.content, file.save, file.saving, past.left, past.late, past.dropped>>,
           disk'.file \in disk'.held, disk.held \subseteq disk'.held,
           link' = link \/ (link' /\ Holds(up', "read"))
    PROVE  FileInv'
<1>1. /\ \A m : In(up', m) /\ m.kind = "write" => In(up, m)
      /\ \A m : In(down', m) /\ Tells(m) => In(down, m)
      /\ Holds(down', "saved") => Holds(down, "saved")
      /\ Holds(up', "write") => Holds(up, "write")
      /\ Holds(up, "read") => Holds(up', "read")
  BY HoldsIsIn DEF Aside, Tells
<1>2. OneSave'
  BY <1>1 DEF FileInv, OneSave, Aside
<1>3. FileTold'
  BY <1>1 DEF FileInv, FileTold, Aside
<1>4. \A n : Safe(n) => Safe(n)'
  BY DEF Safe, Aside, Write
<1>5. AllAreSafe'
  BY <1>1, <1>4 DEF FileInv, AllAreSafe, Tells
<1> QED BY <1>2, <1>3, <1>5 DEF FileInv

\* What else is asked for.
LEMMA AsideAsks ==
    ASSUME Shape, NEW l \in Seq(Requests), up' = up \o l, ~Holds(l, "write"), UNCHANGED down
    PROVE  Aside
<1>1. /\ \A m : In(up', m) <=> In(up, m) \/ In(l, m)
      /\ Once(up, "write") => Once(up', "write")
  BY InConcat DEF Shape
<1>2. \A m : In(l, m) => m.kind # "write"
  BY HoldsIsIn
<1> QED BY <1>1, <1>2 DEF Aside

LEMMA TreeIsAside ==
    ASSUME Shape, NEW t \in Trees, TreeIs(t, up)
    PROVE  \E l \in Seq(Requests) : up' = up \o l /\ ~Holds(l, "write")
<1>1. PICK l \in Seq(Requests) : up' = up \o l /\ \A i \in DOMAIN l : l[i].kind = "list"
  BY TreeIsAsks DEF Shape
<1> QED BY <1>1 DEF Holds

\* What is asked and answered of folders.
LEMMA AsideAnswers ==
    ASSUME Shape,
           UNCHANGED down \/ \E a \in Answers : ~Tells(a) /\ down' = Append(down, a),
           \/ UNCHANGED up
           \/ up # <<>> /\ up' = Tail(up) /\ Head(up).kind \in {"list", "trash"}
    PROVE  Aside
<1>1. /\ \A m : In(down, m) => In(down', m)
      /\ \A m : In(down', m) => In(down, m) \/ ~Tells(m)
      /\ Once(down, "saved") => Once(down', "saved")
      /\ \A m : Told(down', m) => Told(down, m)
  <2>1. CASE UNCHANGED down
    BY <2>1
  <2>2. ASSUME NEW a \in Answers, ~Tells(a), down' = Append(down, a)
        PROVE  /\ \A m : In(down, m) => In(down', m)
               /\ \A m : In(down', m) => In(down, m) \/ ~Tells(m)
               /\ Once(down, "saved") => Once(down', "saved")
               /\ \A m : Told(down', m) => Told(down, m)
    <3>1. a.kind # "saved"
      BY <2>2 DEF Tells
    <3>2. /\ \A m : In(Append(down, a), m) <=> In(down, m) \/ m = a
          /\ Once(down, "saved") => Once(Append(down, a), "saved")
          /\ \A m : Told(Append(down, a), m) <=> Told(down, m)
      BY <2>2, <3>1, InAppend DEF Shape
    <3> QED BY <2>2, <3>2
  <2> QED BY <2>1, <2>2
<1>2. /\ \A m : In(up', m) => In(up, m)
      /\ \A m : In(up, m) /\ m.kind \in {"read", "write"} => In(up', m)
      /\ Once(up, "write") => Once(up', "write")
  BY InTail DEF Shape
<1>3. Silent(down') => Silent(down)
  BY <1>1 DEF Silent
<1> QED BY <1>1, <1>2, <1>3 DEF Aside

LEMMA FileSaves ==
    ASSUME Shape, FileInv, Save
    PROVE  FileInv'
<1> DEFINE w == Write(file.draft)
<1>1. file \in Files /\ file.draft \in Nat /\ up \in Seq(Requests)
  BY DEF Save, Shape, Files
<1>2. w \in Requests /\ w.kind = "write" /\ w.n = file.draft
  BY <1>1, RequestsAre DEF Write
<1>3. up' = Append(up, w) /\ UNCHANGED <<disk, link, down, past>> /\ file.save # "saving"
  BY DEF Save, Person
<1>4. file'.save = "saving" /\ file'.saving = file.draft /\ file'.content = file.content
  BY <1>1 DEF Save, StartSave, Files
<1>5. /\ \A m : In(up', m) <=> In(up, m) \/ m = w
      /\ ~Holds(up, "write") => Once(up', "write")
  BY <1>1, <1>2, <1>3, InAppend
<1>6. ~past.late => ~Holds(down, "saved") /\ ~Holds(up, "write")
  BY <1>3, HoldsIsIn DEF FileInv, OneSave
<1>7. OneSave'
  BY <1>2, <1>3, <1>4, <1>5, <1>6, HoldsIsIn DEF FileInv, OneSave
<1>8. FileTold'
  <2>1. \A m : Told(down, m) /\ m.kind = "saved" => Holds(down, "saved")
    BY DEF Told, Holds
  <2>2. Holds(up, "read") => Holds(up', "read")
    BY <1>5, HoldsIsIn
  <2> QED BY <1>3, <1>4, <1>6, <2>1, <2>2 DEF FileInv, FileTold
<1>9. AllAreSafe'
  <2>1. \A n : Safe(n) => Safe(n)'
    BY <1>3, <1>5 DEF Safe
  <2>2. past.late => Safe(file.saving)'
    BY <1>3, <1>4, <1>5 DEF Safe
  <2> QED BY <1>3, <1>4, <1>6, <2>1, <2>2 DEF FileInv, AllAreSafe
<1> QED BY <1>7, <1>8, <1>9 DEF FileInv

LEMMA FileFails ==
    ASSUME Shape, FileInv, FailSave
    PROVE  FileInv'
<1>1. /\ UNCHANGED <<disk, link, up, down>>
      /\ file'.save = "failed" /\ UNCHANGED <<file.content, file.saving>>
  BY DEF FailSave, Shape, Files
<1>2. /\ past'.late = (past.late \/ Holds(up, "write") \/ Holds(down, "saved"))
      /\ UNCHANGED <<past.left, past.dropped>>
  BY DEF FailSave, Answered, Shape, Pasts
<1>3. past.late => past'.late
  BY <1>2
<1>4. OneSave'
  BY <1>1, <1>2, HoldsIsIn DEF FileInv, OneSave
<1>5. FileTold'
  BY <1>1, <1>2, <1>3 DEF FileInv, FileTold
<1>6. AllAreSafe'
  BY <1>1, <1>2, <1>3 DEF FileInv, AllAreSafe, Safe
<1> QED BY <1>4, <1>5, <1>6 DEF FileInv

LEMMA FileBreaks ==
    ASSUME Shape, FileInv, Broke
    PROVE  FileInv'
<1>1. /\ up' = <<>> /\ down' = <<>> /\ ~link' /\ UNCHANGED <<disk, file>>
  BY DEF Broke
<1>2. /\ past'.late = FALSE /\ past'.left = past.left
      /\ past'.dropped = (past.dropped \/ (past.late /\ Holds(up, "write")))
  BY DEF Broke, Shape, Pasts
<1>3. /\ \A m : ~In(up', m) /\ ~In(down', m) /\ ~Told(down', m)
      /\ Once(up', "write") /\ Once(down', "saved")
  BY <1>1 DEF In, Told, Once
<1>4. \A kind : ~Holds(up', kind) /\ ~Holds(down', kind)
  BY <1>3, HoldsIsIn
<1>5. \A n : In(up, Write(n)) => Holds(up, "write")
  BY DEF In, Holds, Write
<1>6. ~past'.dropped => \A n : Safe(n) => Safe(n)'
  BY <1>1, <1>2, <1>5 DEF Safe
<1>7. OneSave'
  BY <1>3, <1>4 DEF OneSave
<1>8. FileTold'
  BY <1>1, <1>3 DEF FileTold
<1>9. AllAreSafe'
  BY <1>1, <1>2, <1>3, <1>4, <1>6 DEF FileInv, AllAreSafe
<1> QED BY <1>7, <1>8, <1>9 DEF FileInv

LEMMA FileReceives ==
    ASSUME Shape, FileInv, Receive
    PROVE  FileInv'
<1> DEFINE h == Head(down)
           t == Tail(down)
<1>1. h \in Answers /\ h.n \in Nat /\ file \in Files /\ past \in Pasts
  BY TailIs DEF Receive, Shape, Answers, Message
<1>2. /\ \A m : In(down, m) <=> m = h \/ In(t, m)
      /\ Once(down, "saved") => Once(t, "saved") /\ (h.kind = "saved" => ~Holds(t, "saved"))
      /\ \A m : Told(t, m) => Told(down, m)
      /\ Tells(h) /\ Silent(t) => Told(down, h)
  BY InTail DEF Receive, Shape
<1>3. down' = t /\ UNCHANGED <<disk, link>>
  BY DEF Receive
<1>4. Holds(t, "saved") => Holds(down, "saved")
  BY <1>2, HoldsIsIn
<1>5. CASE h.kind \in {"listing", "trashed"}
  <2>1. UNCHANGED <<file, past>>
    BY <1>5 DEF Receive
  <2>2. \E u \in Trees : TreeIs(u, up)
    <3>1. h.dir \in Dirs
      BY <1>1, <1>5 DEF Answers
    <3>2. SetListing(tree, h.dir, h.n) \in Trees /\ ForgetPath(tree, h.dir) \in Trees
      BY <1>1, <3>1 DEF SetListing, ForgetPath, Trees, Shape
    <3> QED BY <1>5, <3>2 DEF Receive
  <2>3. PICK l \in Seq(Requests) : up' = up \o l /\ ~Holds(l, "write")
    BY <2>2, TreeIsAside
  <2>4. /\ \A m : In(up', m) <=> In(up, m) \/ In(l, m)
        /\ Once(up, "write") => Once(up', "write")
    BY <2>3, InConcat DEF Shape
  <2>5. \A m : In(l, m) => m.kind # "write"
    BY <2>3, HoldsIsIn
  <2>6. ~Tells(h)
    BY <1>5 DEF Tells
  <2>7. Silent(t) => Silent(down)
    BY <1>2, <2>6 DEF Silent
  <2> HIDE DEF h, t
  <2>8. Aside
    BY <1>2, <1>3, <2>4, <2>5, <2>6, <2>7 DEF Aside
  <2>9. disk.file \in disk.held
    BY DEF FileInv, AllAreSafe
  <2> QED BY <1>3, <2>1, <2>8, <2>9, FileAside
<1>6. CASE h.kind = "content"
  <2>1. up' = up /\ past' = Reread(t) /\ file' = [file EXCEPT !.content = h.n]
    BY <1>3, <1>6 DEF Receive
  <2>2. file'.content = h.n /\ file'.save = file.save /\ file'.saving = file.saving
    BY <1>1, <2>1 DEF Files
  <2>3. past'.left = past.left
    BY <1>1, <2>1 DEF Reread, Pasts
  <2>4. \/ /\ past'.late = FALSE /\ past'.dropped = FALSE
           /\ ~Holds(up, "write") /\ ~Holds(t, "saved")
        \/ past' = past
    BY <1>1, <2>1 DEF Reread, Answered, Pasts
  <2>5. Silent(t) => h.n = past.left
    BY <1>2, <1>6 DEF FileInv, FileTold, Tells
  <2>6. h.n \in disk.held
    BY <1>2, <1>6 DEF FileInv, AllAreSafe
  <2> HIDE DEF h, t
  <2>7. OneSave'
    <3>1. CASE ~Holds(up, "write") /\ ~Holds(t, "saved")
      <4>1. Once(up, "write") /\ Once(t, "saved")
        BY <3>1 DEF Once, Holds
      <4> QED BY <1>3, <2>1, <3>1, <4>1, HoldsIsIn DEF OneSave
    <3>2. CASE past' = past
      BY <1>2, <1>3, <1>4, <2>1, <2>2, <3>2 DEF FileInv, OneSave
    <3> QED BY <2>4, <3>1, <3>2
  <2>8. FileTold'
    <3>1. \A m : Told(t, m) => In(t, m)
      BY DEF Told, In
    <3>2. \A m : Told(t, m) /\ m.kind = "content" => m.n = past'.left
      BY <1>2, <2>3 DEF FileInv, FileTold
    <3>3. ~past'.late => \A m : Told(t, m) /\ m.kind = "saved" => file'.saving = past'.left
      BY <1>2, <2>2, <2>3, <2>4, <3>1, HoldsIsIn DEF FileInv, FileTold
    <3> QED BY <1>3, <2>2, <2>3, <2>5, <3>2, <3>3 DEF FileTold
  <2>9. AllAreSafe'
    <3>1. \A m : In(t, m) => In(down, m)
      BY <1>2
    <3>2. past' = past => \A n : Safe(n) => Safe(n)'
      BY <1>3, <2>1 DEF Safe
    <3>3. Safe(file.content)'
      BY <1>3, <2>2, <2>6 DEF Safe
    <3>4. CASE past' = past
      BY <1>3, <1>4, <2>2, <3>1, <3>2, <3>3, <3>4 DEF FileInv, AllAreSafe
    <3>5. CASE past'.late = FALSE /\ ~Holds(t, "saved")
      BY <1>3, <3>1, <3>3, <3>5 DEF FileInv, AllAreSafe
    <3> QED BY <2>4, <3>4, <3>5
  <2> QED BY <2>7, <2>8, <2>9 DEF FileInv
<1>7. CASE h.kind = "saved"
  <2>1. UNCHANGED <<up, past>> /\ file' = FinishSave(file)
    BY <1>7 DEF Receive
  <2>2. file'.saving = file.saving /\ file'.save # "saving"
    BY <1>1, <2>1 DEF FinishSave, Files
  <2>3. IF file.save = "saving" THEN file'.content = file.saving ELSE file'.content = file.content
    BY <1>1, <2>1 DEF FinishSave, Files
  <2>4. Holds(down, "saved")
    BY <1>2, <1>7, HoldsIsIn
  <2>5. ~past.late => file.save = "saving" /\ ~Holds(up, "write") /\ ~Holds(t, "saved")
    BY <1>2, <1>7, <2>4 DEF FileInv, OneSave
  <2>6. ~past.late /\ Silent(t) => file.saving = past.left
    BY <1>2, <1>7 DEF FileInv, FileTold, Tells
  <2> HIDE DEF h, t
  <2>7. OneSave'
    <3>1. ~past.late => Once(up, "write") /\ Once(t, "saved")
      BY <1>2 DEF FileInv, OneSave
    <3> QED BY <1>3, <2>1, <2>5, <3>1, HoldsIsIn DEF OneSave
  <2>8. FileTold'
    <3>1. \A m : Told(t, m) => In(t, m)
      BY DEF Told, In
    <3>2. \A m : Told(t, m) /\ m.kind = "content" => m.n = past.left
      BY <1>2 DEF FileInv, FileTold
    <3>3. ~past.late => \A m : Told(t, m) => m.kind # "saved"
      BY <2>5, <3>1, HoldsIsIn
    <3>4. ~past.late /\ Silent(t) => file'.content = past.left
      BY <2>3, <2>5, <2>6
    <3> QED BY <1>3, <2>1, <3>2, <3>3, <3>4 DEF FileTold
  <2>9. AllAreSafe'
    <3>1. \A n : Safe(n) => Safe(n)'
      BY <1>3, <2>1 DEF Safe
    <3>2. \A m : In(t, m) => In(down, m)
      BY <1>2
    <3>3. file.save = "saving" /\ ~past.dropped => Safe(file.saving)
      BY <2>4 DEF FileInv, AllAreSafe
    <3>4. ~past'.dropped => file'.content = None \/ Safe(file.content)'
      <4>1. CASE file.save = "saving"
        BY <2>1, <2>3, <3>1, <3>3, <4>1
      <4>2. CASE file.save # "saving"
        BY <2>1, <2>3, <3>1, <4>2 DEF FileInv, AllAreSafe
      <4> QED BY <4>1, <4>2
    <3> QED BY <1>3, <2>1, <2>2, <3>2, <3>4 DEF FileInv, AllAreSafe
  <2> QED BY <2>7, <2>8, <2>9 DEF FileInv
<1> QED BY <1>1, <1>5, <1>6, <1>7 DEF Answers

LEMMA FileHandles ==
    ASSUME Shape, FileInv, Handle
    PROVE  FileInv'
<1> DEFINE h == Head(up)
           t == Tail(up)
<1>1. /\ h \in Requests /\ h.n \in Nat /\ up # <<>>
      /\ disk \in Disks /\ past \in Pasts
  BY TailIs DEF Handle, Shape, Requests, Message
<1>2. /\ \A m : In(up, m) <=> m = h \/ In(t, m)
      /\ Once(up, "write") => Once(t, "write") /\ (h.kind = "write" => ~Holds(t, "write"))
  BY <1>1, InTail DEF Shape
<1>3. up' = t /\ UNCHANGED <<file, link>> /\ down \in Seq(Answers)
  BY DEF Handle, Shape
<1>4. ASSUME h.kind \in {"list", "trash"},
             UNCHANGED <<past.left, past.late, past.dropped>>,
             UNCHANGED down \/ \E a \in Answers : ~Tells(a) /\ down' = Append(down, a),
             disk'.file = disk.file, disk'.held = disk.held
      PROVE  FileInv'
  <2>1. Aside
    BY <1>1, <1>3, <1>4, AsideAnswers
  <2>2. disk.file \in disk.held
    BY DEF FileInv, AllAreSafe
  <2> QED BY <1>3, <1>4, <2>1, <2>2, FileAside
<1>5. CASE h.kind = "list"
  <2> DEFINE a == Answer("listing", h.dir, disk.dirs[h.dir])
  <2>1. a \in Answers
    BY <1>1, <1>5, AnswersAre DEF Requests, Disks
  <2>2. ~Tells(a)
    BY DEF Answer, Tells
  <2>3. down' = Append(down, a) /\ UNCHANGED <<disk, past>>
    BY <1>5 DEF Handle
  <2> HIDE DEF a
  <2> QED BY <1>4, <1>5, <2>1, <2>2, <2>3
<1>6. CASE h.kind = "trash"
  <2> DEFINE a == Answer("trashed", h.dir, 0)
  <2>1. h.dir \in Dirs
    BY <1>1, <1>6 DEF Requests
  <2>2. a \in Answers /\ ~Tells(a)
    BY <2>1, AnswersAre DEF Answer, Tells
  <2>3. disk'.file = disk.file /\ disk'.held = disk.held
    BY <1>1, <1>6, <2>1, ChangeDirIs DEF Handle
  <2>4. UNCHANGED down \/ down' = Append(down, a)
    BY <1>6 DEF Handle
  <2>5. UNCHANGED <<past.left, past.late, past.dropped>>
    BY <1>1, <1>6 DEF Handle, Pasts
  <2> HIDE DEF a
  <2> QED BY <1>4, <1>6, <2>2, <2>3, <2>4, <2>5
<1>7. CASE h.kind = "read"
  <2> DEFINE a == Answer("content", None, disk.file)
  <2>1. a \in Answers /\ a.kind = "content" /\ a.n = disk.file
    BY <1>1, AnswersAre DEF Answer, Disks
  <2>2. down' = Append(down, a) /\ disk' = disk /\ past' = [past EXCEPT !.left = disk.file]
    BY <1>7 DEF Handle
  <2>3. past'.left = disk.file /\ UNCHANGED <<past.late, past.dropped>>
    BY <1>1, <2>2 DEF Pasts
  <2> HIDE DEF a
  <2>4. Tells(a) /\ a.kind # "saved"
    BY <2>1 DEF Tells
  <2>5. /\ \A m : In(down', m) <=> In(down, m) \/ m = a
        /\ Once(down, "saved") => Once(down', "saved")
        /\ \A m : Told(down', m) <=> m = a
    BY <1>3, <2>1, <2>2, <2>4, InAppend
  <2>6. (Holds(down', "saved") => Holds(down, "saved")) /\ (Holds(t, "write") => Holds(up, "write"))
    BY <1>2, <2>4, <2>5, HoldsIsIn
  <2> HIDE DEF h, t
  <2>7. OneSave'
    BY <1>2, <1>3, <2>3, <2>5, <2>6 DEF FileInv, OneSave
  <2>8. FileTold'
    BY <2>1, <2>3, <2>4, <2>5 DEF FileTold, Silent
  <2>9. AllAreSafe'
    <3>1. \A n : Safe(n) => Safe(n)'
      BY <1>2, <1>3, <1>7, <2>2, <2>3 DEF Safe, Write
    <3> QED BY <1>3, <2>1, <2>2, <2>3, <2>5, <2>6, <3>1 DEF FileInv, AllAreSafe
  <2> QED BY <2>7, <2>8, <2>9 DEF FileInv
<1>8. CASE h.kind = "write" /\ disk' = Written(h.n) /\ down' = Append(down, Answer("saved", None, 0))
           /\ past' = [past EXCEPT !.left = h.n]
  <2> DEFINE a == Answer("saved", None, 0)
  <2>1. a \in Answers /\ a.kind = "saved" /\ Tells(a)
    BY AnswersAre DEF Answer, Tells
  <2>2. disk'.file = h.n /\ disk'.held = disk.held \cup {h.n}
    BY <1>1, <1>8, WrittenIs
  <2>3. past'.left = h.n /\ UNCHANGED <<past.late, past.dropped>>
    BY <1>1, <1>8 DEF Pasts
  <2>4. down' = Append(down, a)
    BY <1>8
  <2> HIDE DEF a
  <2>5. /\ \A m : In(down', m) <=> In(down, m) \/ m = a
        /\ ~Holds(down, "saved") => Once(down', "saved")
        /\ \A m : Told(down', m) <=> m = a
    BY <1>3, <2>1, <2>4, InAppend
  <2>6. Holds(up, "write") /\ In(up, h)
    BY <1>2, <1>8, HoldsIsIn
  <2>7. ~past.late => /\ file.save = "saving" /\ h.n = file.saving
                      /\ ~Holds(down, "saved") /\ ~Holds(t, "write")
    BY <1>2, <1>8, <2>6 DEF FileInv, OneSave
  <2> HIDE DEF h, t
  <2>8. OneSave'
    <3>1. ~past.late => Once(t, "write") /\ Once(down', "saved")
      BY <1>2, <2>5, <2>7 DEF FileInv, OneSave
    <3>2. ~past.late => \A m : In(t, m) => m.kind # "write"
      BY <2>7, HoldsIsIn
    <3> QED BY <1>3, <2>3, <2>7, <3>1, <3>2 DEF OneSave
  <2>9. FileTold'
    BY <1>3, <2>1, <2>3, <2>5, <2>7 DEF FileTold, Silent
  <2>10. AllAreSafe'
    <3>1. \A n : Safe(n) => Safe(n)'
      <4>1. \A n : Write(n) = h => n = h.n
        BY DEF Write
      <4> QED BY <1>2, <1>3, <2>2, <2>3, <4>1 DEF Safe
    <3>2. ~past.dropped /\ file.save = "saving" => Safe(file.saving)'
      <4>1. CASE past.late
        BY <1>3, <3>1, <4>1 DEF FileInv, AllAreSafe
      <4>2. CASE ~past.late
        BY <1>3, <2>2, <2>7, <4>2 DEF Safe
      <4> QED BY <4>1, <4>2
    <3>3. /\ disk'.file \in disk'.held
          /\ \A m : In(down', m) /\ m.kind = "content" => m.n \in disk'.held
      BY <2>1, <2>2, <2>5 DEF FileInv, AllAreSafe
    <3> QED BY <1>3, <2>3, <3>1, <3>2, <3>3 DEF FileInv, AllAreSafe
  <2> QED BY <2>8, <2>9, <2>10 DEF FileInv
<1>9. CASE h.kind = "write" /\ UNCHANGED <<disk, down>>
           /\ past' = [past EXCEPT !.dropped = @ \/ (past.late /\ h.kind = "write")]
  <2>1. /\ past'.dropped = (past.dropped \/ past.late) /\ UNCHANGED <<past.left, past.late>>
    BY <1>1, <1>9 DEF Pasts
  <2>2. /\ Holds(t, "write") => Holds(up, "write")
        /\ Holds(up, "read") => Holds(t, "read")
    BY <1>2, <1>9, HoldsIsIn
  <2> HIDE DEF h, t
  <2>3. OneSave'
    BY <1>2, <1>3, <1>9, <2>1, <2>2 DEF FileInv, OneSave
  <2>4. FileTold'
    BY <1>3, <1>9, <2>1, <2>2 DEF FileInv, FileTold
  <2>5. AllAreSafe'
    BY <1>3, <1>9, <2>1 DEF FileInv, AllAreSafe, Safe
  <2> QED BY <2>3, <2>4, <2>5 DEF FileInv
<1>10. CASE h.kind = "write"
  BY <1>8, <1>9, <1>10 DEF Handle
<1> QED BY <1>1, <1>5, <1>6, <1>7, <1>10 DEF Requests

LEMMA FileStep ==
    ASSUME Shape, FileInv, Next
    PROVE  FileInv'
<1>1. file \in Files /\ up \in Seq(Requests) /\ disk.file \in disk.held
  BY DEF Shape, FileInv, AllAreSafe
<1>2. ASSUME \E t \in Trees : TreeIs(t, up), UNCHANGED <<disk, link, down, file, past>>
      PROVE  FileInv'
  <2>1. PICK l \in Seq(Requests) : up' = up \o l /\ ~Holds(l, "write")
    BY <1>2, TreeIsAside
  <2>2. Aside
    BY <1>2, <2>1, AsideAsks
  <2> QED BY <1>1, <1>2, <2>2, FileAside
<1>3. ASSUME \/ ShowTree \/ LeaveTree \/ \E d \in Folders : ToggleDir(d)
      PROVE  FileInv'
  <2>1. \E t \in Trees : TreeIs(t, up)
    <3>1. \A b \in BOOLEAN, open \in SUBSET Folders :
             [tree EXCEPT !.shown = b] \in Trees /\ [tree EXCEPT !.open = open] \in Trees
      BY DEF Trees, Shape
    <3>2. tree.open \subseteq Folders
      BY DEF Trees, Shape
    <3>3. CASE ShowTree \/ LeaveTree
      BY <3>1, <3>3 DEF ShowTree, LeaveTree
    <3>4. ASSUME NEW d \in Folders, ToggleDir(d)
          PROVE  \E t \in Trees : TreeIs(t, up)
      BY <3>1, <3>2, <3>4 DEF ToggleDir
    <3> QED BY <1>3, <3>3, <3>4
  <2> QED BY <1>2, <1>3, <2>1 DEF ShowTree, LeaveTree, ToggleDir, Person
<1>4. ASSUME NEW d \in Dirs, TrashPath(d)
      PROVE  FileInv'
  <2>1. <<Trash(d)>> \in Seq(Requests) /\ up' = up \o <<Trash(d)>>
    BY <1>1, <1>4, RequestsAre, AppendIsConcat DEF TrashPath
  <2>2. ~Holds(<<Trash(d)>>, "write")
    BY DEF Trash, Holds
  <2>3. UNCHANGED <<disk, link, down, file, past>>
    BY <1>4 DEF TrashPath, Person
  <2>4. Aside
    BY <2>1, <2>2, <2>3, AsideAsks
  <2> QED BY <1>1, <2>3, <2>4, FileAside
<1>5. ASSUME UNCHANGED <<link, up, down, file.content, file.save, file.saving, past>>,
             disk'.file \in disk'.held, disk.held \subseteq disk'.held
      PROVE  FileInv'
  <2>1. Aside
    BY <1>5 DEF Aside
  <2> QED BY <1>5, <2>1, FileAside
<1>6. ASSUME Begin \/ Change \/ Done
      PROVE  FileInv'
  <2>1. UNCHANGED <<file.content, file.save, file.saving>>
    BY <1>1, <1>6 DEF Begin, Change, Done, Files
  <2> QED BY <1>1, <1>5, <1>6, <2>1 DEF Begin, Change, Done, Person
<1>7. ASSUME Opened
      PROVE  FileInv'
  <2> DEFINE f == Lists(Relist(tree))
             g == <<Read>>
  <2>1. f \in Seq(Requests) /\ \A i \in DOMAIN f : f[i].kind = "list"
    <3>1. Relist(tree) \subseteq Dirs
      BY OpenAre DEF Shape
    <3> QED BY <3>1, ListsIs
  <2>2. g \in Seq(Requests) /\ ~Holds(g, "write") /\ In(g, Read) /\ Read.kind = "read"
    BY RequestsAre DEF Read, Holds, In
  <2>3. ~Holds(f, "write")
    BY <2>1 DEF Holds
  <2> HIDE DEF f, g
  <2>4. up' = up \o (f \o g) /\ f \o g \in Seq(Requests)
    <3>1. up' = (up \o f) \o g
      BY <1>7 DEF Opened, f, g
    <3> QED BY <1>1, <2>1, <2>2, <3>1, ConcatAssociative, ConcatProperties
  <2>5. ~Holds(f \o g, "write") /\ In(f \o g, Read)
    BY <2>1, <2>2, <2>3, InConcat, HoldsIsIn
  <2>6. Holds(up', "read")
    BY <1>1, <2>2, <2>4, <2>5, InConcat, HoldsIsIn
  <2>7. link' /\ UNCHANGED <<disk, file, down, past>>
    BY <1>7 DEF Opened
  <2>8. Aside
    BY <2>4, <2>5, <2>7, AsideAsks
  <2> QED BY <1>1, <2>6, <2>7, <2>8, FileAside
<1>8. ASSUME NEW d \in Dirs, Changes(d)
      PROVE  FileInv'
  <2>1. disk'.file = disk.file /\ disk'.held = disk.held
    BY <1>8, ChangeDirIs DEF Changes, Shape
  <2> QED BY <1>1, <1>5, <1>8, <2>1 DEF Changes
<1>9. ASSUME NEW n \in Edits, Edited(n)
      PROVE  FileInv'
  <2>1. disk'.file = n /\ disk'.held = disk.held \cup {n}
    BY <1>9, EditedIs DEF Shape
  <2> QED BY <1>5, <1>9, <2>1 DEF Edited
<1>10. ASSUME NEW d \in Dirs, DirChanged(d)
      PROVE  FileInv'
  <2> DEFINE a == Answer("listing", d, disk.dirs[d])
  <2>1. a \in Answers /\ ~Tells(a)
    BY AnswersAre DEF Answer, Shape, Disks, Tells
  <2>2. down' = Append(down, a) /\ UNCHANGED <<disk, file, link, up, past>>
    BY <1>10 DEF DirChanged, Tell
  <2> HIDE DEF a
  <2>3. Aside
    BY <2>1, <2>2, AsideAnswers
  <2> QED BY <1>1, <2>2, <2>3, FileAside
<1> QED BY <1>3, <1>4, <1>6, <1>7, <1>8, <1>9, <1>10,
           FileSaves, FileFails, FileBreaks, FileReceives, FileHandles DEF Next

-----------------------------------------------------------------------------
\* The inductive invariant: types, the tree, and the file.
IInv == Shape /\ TreeInv /\ FileInv

LEMMA Inductive == Spec => []IInv
<1>1. Init => IInv
  BY ShapeInit, TreeInit, FileInit DEF IInv
<1>2. IInv /\ [Next]_vars => IInv'
  <2>1. IInv /\ Next => IInv'
    BY ShapeStep, TreeStep, FileStep DEF IInv
  <2>2. IInv /\ UNCHANGED vars => IInv'
    BY DEF vars, IInv, Shape, TreeInv, ListedShow, OpenAreAsked, DueAreListed,
           FileInv, OneSave, FileTold, AllAreSafe, Safe
  <2> QED BY <2>1, <2>2
<1> QED BY <1>1, <1>2, PTL DEF Spec

\* Once nothing is under way the tree on screen is as it is on disk, and the file as it was last
\* read or written for the phone, however often the link broke, whatever was lost and whatever
\* others do (use-tree.ts, use-file.ts), if no save was given up that could still be answered.
THEOREM CurrentOnceQuiet == Spec => []ScreensAreCurrent
<1>1. IInv => ScreensAreCurrent
  <2> SUFFICES ASSUME IInv, Quiet
               PROVE  /\ tree.shown => \A d \in Open(tree) :
                            /\ tree.listing[d] # None
                            /\ d \in due \cup listed => tree.listing[d] = disk.dirs[d]
                      /\ ~past.late => file.content = past.left
    BY DEF ScreensAreCurrent
  <2>1. link /\ up = <<>> /\ down = <<>> /\ changed = {}
    BY DEF Quiet
  <2>2. \A d : ~Asked(d, up) /\ ~Coming(d, down)
    BY <2>1 DEF Asked, Coming
  <2>3. ASSUME tree.shown, NEW d \in Open(tree)
        PROVE  /\ tree.listing[d] # None
               /\ d \in due \cup listed => tree.listing[d] = disk.dirs[d]
    <3>1. tree.listing[d] # None
      BY <2>1, <2>2, <2>3 DEF IInv, TreeInv, OpenAreAsked, UnlistedDirs
    <3>2. d \in due => d \in listed
      BY <2>2 DEF IInv, TreeInv, DueAreListed
    <3>3. d \in listed => Shows(d, down, tree.listing[d], disk.dirs[d])
      BY <2>1 DEF IInv, TreeInv, ListedShow
    <3> QED BY <2>1, <3>1, <3>2, <3>3 DEF Shows
  <2>4. Silent(down) /\ ~Holds(up, "read")
    BY <2>1 DEF Silent, In, Holds
  <2>5. ~past.late => file.content = past.left
    BY <2>1, <2>4 DEF IInv, FileInv, FileTold
  <2> QED BY <2>3, <2>5
<1> QED BY <1>1, Inductive, PTL

\* No draft passes for saved that was not: what the phone takes for the file's content the file has
\* held, or will if nothing more fails (workspace.state.ts, finishSave).  A save may be given up
\* while it is held and its answer may come late, in any order with other saves.
THEOREM NothingPassesForSaved == Spec => []ShownWasHeld
<1>1. IInv => ShownWasHeld
  <2>1. \A n : In(up, Write(n)) => \E i \in DOMAIN up : up[i] = Write(n)
    BY DEF In
  <2> QED BY <2>1 DEF IInv, FileInv, AllAreSafe, Safe, ShownWasHeld
<1> QED BY <1>1, Inductive, PTL
=============================================================================
