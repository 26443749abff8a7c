----------------------------- MODULE TurnsProofs -----------------------------
(***************************************************************************)
(* What holds of a chat session with its queue, for any number of messages *)
(* and of stops: what the queue keeps whatever backend sends its messages  *)
(* (TurnQueue), then the backend that runs one process per turn            *)
(* (ExecTurns), then the one that keeps its agent running (StreamTurns).   *)
(***************************************************************************)
EXTENDS ExecTurns, StreamTurns, SequenceTheorems, TLAPS

-----------------------------------------------------------------------------
(* The queue: the steps of the person and of the watcher. *)

\* A queue in the order its messages were written, none of which is being sent.
Sound(q, c) ==
    /\ \A i, j \in 1..Len(q) : i < j => q[i] < q[j]
    /\ \A i \in 1..Len(q) : c[q[i]] = "none"

\* With that, what has not been written yet is neither queued nor being sent.
QueueInv ==
    /\ said \in 0..MaxMessages
    /\ turns \in Seq(Messages)
    /\ paused \in BOOLEAN
    /\ DOMAIN call = Messages
    /\ Sound(turns, call)
    /\ \A i \in 1..Len(turns) : turns[i] <= said
    /\ \A m \in Messages : m > said => call[m] = "none"

-----------------------------------------------------------------------------
LEMMA AppendFacts ==
    ASSUME NEW S, NEW q \in Seq(S), NEW e \in S
    PROVE  /\ Append(q, e) \in Seq(S)
           /\ Len(q) \in Nat
           /\ Len(Append(q, e)) = Len(q) + 1
           /\ \A i \in 1..Len(q) : Append(q, e)[i] = q[i] /\ q[i] \in S
           /\ Append(q, e)[Len(q) + 1] = e
           /\ Append(q, e) # <<>>
BY AppendProperties, LenProperties, ElementOfSeq

LEMMA TailFacts ==
    ASSUME NEW S, NEW q \in Seq(S), q # <<>>
    PROVE  /\ Tail(q) \in Seq(S)
           /\ Len(q) \in Nat \ {0}
           /\ Len(Tail(q)) = Len(q) - 1
           /\ \A i \in 1..Len(q) - 1 : Tail(q)[i] = q[i + 1]
           /\ \A i \in 1..Len(q) : q[i] \in S
           /\ Head(q) = q[1]
BY HeadTailProperties, EmptySeq, ElementOfSeq

LEMMA DomainFacts ==
    ASSUME NEW S, NEW q \in Seq(S)
    PROVE  DOMAIN q = 1..Len(q) /\ Len(q) \in Nat
BY LenProperties

LEMMA RemoveFacts ==
    ASSUME NEW S, NEW q \in Seq(S), NEW i \in 1..Len(q)
    PROVE  /\ RemoveAt(q, i) \in Seq(S)
           /\ Len(RemoveAt(q, i)) = Len(q) - 1
           /\ \A j \in 1..Len(q) - 1 : RemoveAt(q, i)[j] = IF j < i THEN q[j] ELSE q[j + 1]
<1> DEFINE a == SubSeq(q, 1, i - 1)
           b == SubSeq(q, i + 1, Len(q))
<1>1. Len(q) \in Nat /\ \A j \in 1..Len(q) : q[j] \in S
  BY LenProperties, ElementOfSeq
<1>2. /\ a \in Seq(S) /\ Len(a) = i - 1
      /\ \A j \in 1..i - 1 : a[j] = q[j]
  BY <1>1, SubSeqProperties
<1>3. /\ b \in Seq(S) /\ Len(b) = Len(q) - i
      /\ \A j \in 1..Len(q) - i : b[j] = q[i + j]
  <2>1. \A j \in i + 1..Len(q) : q[j] \in S
    BY <1>1
  <2>2. /\ b \in Seq(S)
        /\ Len(b) = IF i + 1 <= Len(q) THEN Len(q) - (i + 1) + 1 ELSE 0
        /\ \A j \in 1..Len(q) - (i + 1) + 1 : b[j] = q[i + 1 + j - 1]
    BY <1>1, <2>1, SubSeqProperties
  <2> QED BY <1>1, <2>2
<1>4. RemoveAt(q, i) = a \o b
  BY DEF RemoveAt
<1> HIDE DEF a, b
<1>5. /\ a \o b \in Seq(S) /\ Len(a \o b) = Len(a) + Len(b)
      /\ \A j \in 1..Len(a) + Len(b) : (a \o b)[j] = IF j <= Len(a) THEN a[j] ELSE b[j - Len(a)]
  BY <1>2, <1>3, ConcatProperties
<1> QED BY <1>1, <1>2, <1>3, <1>4, <1>5

LEMMA MessageFacts ==
    /\ Messages \subseteq Nat
    /\ \A n \in 0..MaxMessages : n # 0 => n \in Messages
    /\ \A n \in 0..MaxMessages : n < MaxMessages => n + 1 \in Messages /\ n + 1 \in 0..MaxMessages
BY TurnQueueAssumption DEF Messages

LEMMA SoundMeans == QueueInv => QueueSound
BY DomainFacts DEF QueueInv, Sound, QueueSound, Held

LEMMA QueueInit == TurnQueueInit => QueueInv
<1> SUFFICES ASSUME TurnQueueInit PROVE QueueInv
  OBVIOUS
<1>1. turns \in Seq(Messages) /\ Len(turns) = 0
  BY EmptySeq DEF TurnQueueInit
<1>2. \A m \in Messages : call[m] = "none"
  BY DEF TurnQueueInit
<1>3. Sound(turns, call) /\ \A i \in 1..Len(turns) : turns[i] <= said
  BY <1>1 DEF Sound
<1>4. DOMAIN call = Messages
  BY DEF TurnQueueInit
<1>5. said \in 0..MaxMessages /\ paused \in BOOLEAN
  <2>1. said = 0 /\ paused = FALSE
    BY DEF TurnQueueInit
  <2>2. said \in 0..MaxMessages
    BY <2>1, TurnQueueAssumption
  <2> QED BY <2>1, <2>2
<1>6. \A m \in Messages : m > said => call[m] = "none"
  BY <1>2
<1> QED BY <1>1, <1>3, <1>4, <1>5, <1>6 DEF QueueInv

\* A backend takes messages on from "begin": that leaves the queue alone.
LEMMA BackendKeeps ==
    ASSUME QueueInv, UNCHANGED queue, DOMAIN call' = Messages,
           \A m \in Messages : call[m] = "none" => call'[m] = "none"
    PROVE  QueueInv'
<1>1. \A i \in 1..Len(turns) : turns[i] \in Messages
  BY ElementOfSeq DEF QueueInv
<1> QED BY <1>1 DEF QueueInv, Sound, queue

-----------------------------------------------------------------------------
LEMMA ChatTurnKeeps == QueueInv /\ ChatTurn => QueueInv'
<1> SUFFICES ASSUME QueueInv, ChatTurn PROVE QueueInv'
  OBVIOUS
<1>1. \A i \in 1..Len(turns) : turns[i] \in Messages /\ turns[i] <= said
  BY ElementOfSeq DEF QueueInv
<1>2. said' = said + 1 /\ said' \in Messages /\ said' \in 0..MaxMessages /\ said \in Nat
  BY MessageFacts DEF QueueInv, ChatTurn
<1>3. /\ turns' = turns /\ paused' = FALSE
      /\ DOMAIN call' = Messages
      /\ \A m \in Messages : m # said' => call'[m] = call[m]
  <2>1. DOMAIN call = Messages /\ call' = [call EXCEPT ![said'] = "begin"]
    BY DEF QueueInv, ChatTurn
  <2>2. DOMAIN call' = Messages
    BY <2>1
  <2>3. \A m \in Messages : m # said' => call'[m] = call[m]
    BY <2>1
  <2>4. turns' = turns /\ paused' = FALSE
    BY DEF ChatTurn
  <2> QED BY <2>2, <2>3, <2>4
<1>4. \A i \in 1..Len(turns) : turns[i] # said' /\ turns[i] <= said' /\ call'[turns[i]] = "none"
  <2> SUFFICES ASSUME NEW i \in 1..Len(turns)
               PROVE  turns[i] # said' /\ turns[i] <= said' /\ call'[turns[i]] = "none"
    OBVIOUS
  <2>1. turns[i] \in Messages /\ turns[i] \in Nat /\ turns[i] <= said
    BY <1>1, MessageFacts
  <2>2. turns[i] # said' /\ turns[i] <= said'
    BY <1>2, <2>1
  <2> QED BY <1>3, <2>1, <2>2 DEF QueueInv, Sound
<1>5. \A m \in Messages : m > said' => call'[m] = "none"
  BY <1>2, <1>3, MessageFacts DEF QueueInv
<1>6. Sound(turns, call')
  BY <1>4 DEF QueueInv, Sound
<1> QED BY <1>2, <1>3, <1>4, <1>5, <1>6 DEF QueueInv

LEMMA ChatQueueKeeps == QueueInv /\ ChatQueue => QueueInv'
<1> SUFFICES ASSUME QueueInv, ChatQueue PROVE QueueInv'
  OBVIOUS
<1> DEFINE all == Append(turns, said')
<1>1. said' = said + 1 /\ said' \in Messages
  BY TurnQueueAssumption DEF QueueInv, ChatQueue, Messages
<1>2. /\ all \in Seq(Messages)
      /\ Len(turns) \in Nat
      /\ Len(all) = Len(turns) + 1
      /\ \A i \in 1..Len(turns) : all[i] = turns[i] /\ turns[i] \in Messages
      /\ all[Len(turns) + 1] = said'
      /\ all # <<>>
  BY <1>1, AppendFacts DEF QueueInv
<1>3. \A i \in 1..Len(all) : all[i] \in Messages /\ all[i] <= said'
  BY <1>1, <1>2 DEF QueueInv, Messages
<1>4. Sound(all, call)
  BY <1>1, <1>2 DEF QueueInv, Sound, Messages
<1>5. CASE turns' = all /\ UNCHANGED <<paused, call>>
  BY <1>1, <1>2, <1>3, <1>4, <1>5 DEF QueueInv, Messages
<1>6. CASE turns' = Tail(all) /\ paused' = FALSE /\ call' = [call EXCEPT ![Head(all)] = "begin"]
  <2> HIDE DEF all
  <2>1. /\ Tail(all) \in Seq(Messages)
        /\ Len(all) \in Nat \ {0}
        /\ Len(Tail(all)) = Len(all) - 1
        /\ \A i \in 1..Len(all) - 1 : Tail(all)[i] = all[i + 1]
        /\ Head(all) = all[1]
    BY <1>2, TailFacts
  <2>2. \A i \in 1..Len(all) - 1 : all[1] < all[i + 1] /\ call'[all[i + 1]] = "none"
    BY <1>3, <1>4, <1>6, <2>1 DEF Sound, QueueInv, Messages
  <2>3. Sound(turns', call')
    BY <1>4, <1>6, <2>1, <2>2 DEF Sound
  <2>4. \A i \in 1..Len(turns') : turns'[i] <= said'
    BY <1>3, <1>6, <2>1
  <2>5. \A m \in Messages : m > said' => call'[m] = "none"
    BY <1>1, <1>3, <1>6, <2>1, MessageFacts DEF QueueInv
  <2>6. said' \in 0..MaxMessages
    BY <1>1 DEF Messages
  <2> QED BY <1>6, <2>1, <2>3, <2>4, <2>5, <2>6 DEF QueueInv
<1> QED BY <1>5, <1>6 DEF ChatQueue

LEMMA ChatUnqueueKeeps ==
    ASSUME QueueInv, NEW i \in DOMAIN turns, NEW send \in BOOLEAN, ChatUnqueue(i, send)
    PROVE  QueueInv'
<1>1. i \in 1..Len(turns) /\ Len(turns) \in Nat
  BY DomainFacts DEF QueueInv
<1>2. /\ turns' \in Seq(Messages)
      /\ Len(turns') = Len(turns) - 1
      /\ \A j \in 1..Len(turns) - 1 : turns'[j] = IF j < i THEN turns[j] ELSE turns[j + 1]
  BY <1>1, RemoveFacts DEF QueueInv, ChatUnqueue
<1>3. \A j \in 1..Len(turns) : turns[j] \in Messages
  BY ElementOfSeq DEF QueueInv
<1>4. call' = call \/ call' = [call EXCEPT ![turns[i]] = "begin"]
  BY DEF ChatUnqueue
<1>5. \A j \in 1..Len(turns') :
        /\ turns'[j] # turns[i]
        /\ turns'[j] <= said
        /\ turns'[j] \in Messages
        /\ call[turns'[j]] = "none"
  BY <1>1, <1>2, <1>3 DEF QueueInv, Sound, Messages
<1>6. \A j, k \in 1..Len(turns') : j < k => turns'[j] < turns'[k]
  <2> SUFFICES ASSUME NEW j \in 1..Len(turns'), NEW k \in 1..Len(turns'), j < k
               PROVE  turns'[j] < turns'[k]
    OBVIOUS
  <2> DEFINE at(n) == IF n < i THEN n ELSE n + 1
  <2>1. /\ at(j) \in 1..Len(turns) /\ at(k) \in 1..Len(turns) /\ at(j) < at(k)
        /\ turns'[j] = turns[at(j)] /\ turns'[k] = turns[at(k)]
    BY <1>1, <1>2
  <2> QED BY <2>1 DEF QueueInv, Sound
<1>7. \A m \in Messages : m > said => call'[m] = "none"
  <2>1. turns[i] \in Messages /\ turns[i] <= said /\ said \in Nat
    BY <1>1, <1>3 DEF QueueInv
  <2> QED BY <1>4, <2>1, MessageFacts DEF QueueInv
<1>8. Sound(turns', call')
  BY <1>3, <1>4, <1>5, <1>6, <1>1 DEF Sound, QueueInv
<1> QED BY <1>2, <1>4, <1>5, <1>7, <1>8 DEF QueueInv, ChatUnqueue, PausedOf

LEMMA ChatInterruptKeeps ==
    ASSUME QueueInv, NEW p \in Presses, ChatInterrupt(p)
    PROVE  QueueInv'
BY DEF QueueInv, ChatInterrupt, PausedByStop, Sound

LEMMA WatcherKeeps == QueueInv /\ WatcherNext => QueueInv'
<1> SUFFICES ASSUME QueueInv, WatcherNext PROVE QueueInv'
  OBVIOUS
<1>1. CASE Observe \/ Fire
  BY <1>1 DEF Observe, Fire, QueueInv, Sound, queue
<1>2. CASE TakeNext /\ ~MayGo
  BY <1>2 DEF TakeNext, PausedOf, QueueInv, Sound
<1>3. CASE TakeNext /\ MayGo
  <2>1. turns # <<>> /\ turns' = Tail(turns) /\ call' = [call EXCEPT ![Head(turns)] = "begin"]
    BY <1>3 DEF TakeNext, MayGo, Rest
  <2>2. /\ turns' \in Seq(Messages)
        /\ Len(turns) \in Nat \ {0}
        /\ Len(turns') = Len(turns) - 1
        /\ \A i \in 1..Len(turns) - 1 : turns'[i] = turns[i + 1]
        /\ \A i \in 1..Len(turns) : turns[i] \in Messages
        /\ Head(turns) = turns[1]
    BY <2>1, TailFacts DEF QueueInv
  <2>3. \A i \in 1..Len(turns) - 1 :
          turns[1] < turns[i + 1] /\ call'[turns[i + 1]] = "none"
    BY <2>1, <2>2 DEF QueueInv, Sound, Messages
  <2>4. Sound(turns', call')
    BY <2>1, <2>2, <2>3 DEF QueueInv, Sound
  <2>5. \A m \in Messages : m > said => call'[m] = "none"
    BY <2>1, <2>2 DEF QueueInv, Messages
  <2> QED BY <1>3, <2>1, <2>2, <2>4, <2>5 DEF QueueInv, TakeNext, PausedOf
<1> QED BY <1>1, <1>2, <1>3 DEF WatcherNext

\* The person's steps and the watcher's.
LEMMA PersonKeeps == QueueInv /\ PersonNext => QueueInv'
BY ChatTurnKeeps, ChatQueueKeeps, ChatUnqueueKeeps, ChatInterruptKeeps DEF PersonNext

\* Neither takes a message further than to the start of its sending.
LEMMA OnlyBegins ==
    ASSUME QueueInv, PersonNext \/ WatcherNext,
           NEW T, call \in [Messages -> T], "begin" \in T
    PROVE  /\ call' \in [Messages -> T]
           /\ \A m \in Messages :
                call'[m] = call[m] \/ (call[m] = "none" /\ call'[m] = "begin")
<1>1. ASSUME NEW n \in Messages, call[n] = "none", call' = [call EXCEPT ![n] = "begin"]
      PROVE  /\ call' \in [Messages -> T]
             /\ \A m \in Messages :
                  call'[m] = call[m] \/ (call[m] = "none" /\ call'[m] = "begin")
  BY <1>1
<1>2. \A i \in 1..Len(turns) : turns[i] \in Messages /\ call[turns[i]] = "none"
  BY ElementOfSeq DEF QueueInv, Sound
<1>3. CASE ChatTurn
  <2>1. said' \in Messages /\ call[said'] = "none"
    BY <1>3, MessageFacts DEF ChatTurn, QueueInv
  <2> QED BY <1>1, <1>3, <2>1 DEF ChatTurn
<1>4. CASE ChatQueue
  <2> DEFINE all == Append(turns, said')
  <2>1. said' \in Messages /\ call[said'] = "none"
    BY <1>4, MessageFacts DEF ChatQueue, QueueInv
  <2>2. all \in Seq(Messages) /\ all # <<>> /\ all[1] \in Messages /\ call[all[1]] = "none"
    BY <1>2, <2>1, AppendFacts DEF QueueInv
  <2>3. Head(all) = all[1]
    BY <2>2, TailFacts
  <2>4. call' = call \/ call' = [call EXCEPT ![Head(all)] = "begin"]
    BY <1>4 DEF ChatQueue
  <2> HIDE DEF all
  <2> QED BY <1>1, <2>2, <2>3, <2>4
<1>5. CASE \E i \in DOMAIN turns, send \in BOOLEAN : ChatUnqueue(i, send)
  <2>1. PICK i \in DOMAIN turns, send \in BOOLEAN : ChatUnqueue(i, send)
    BY <1>5
  <2>2. turns[i] \in Messages /\ call[turns[i]] = "none"
    BY <1>2, DomainFacts DEF QueueInv
  <2>3. call' = call \/ call' = [call EXCEPT ![turns[i]] = "begin"]
    BY <2>1 DEF ChatUnqueue
  <2> QED BY <1>1, <2>2, <2>3
<1>6. CASE \E p \in Presses : ChatInterrupt(p)
  BY <1>6 DEF ChatInterrupt
<1>7. CASE Observe \/ Fire \/ (TakeNext /\ ~MayGo)
  BY <1>7 DEF Observe, Fire, TakeNext
<1>8. CASE TakeNext /\ MayGo
  <2>1. turns # <<>> /\ call' = [call EXCEPT ![Head(turns)] = "begin"]
    BY <1>8 DEF TakeNext, MayGo
  <2>2. Head(turns) \in Messages /\ call[Head(turns)] = "none"
    BY <1>2, <2>1, TailFacts DEF QueueInv
  <2> QED BY <1>1, <2>1, <2>2
<1> QED BY <1>3, <1>4, <1>5, <1>6, <1>7, <1>8 DEF PersonNext, WatcherNext

\* The person's steps and the watcher's leave the status alone and keep to their types.
LEMMA QueueTypes ==
    ASSUME QueueInv, TurnQueueTypeOK, PersonNext \/ WatcherNext,
           NEW T, call \in [Messages -> T], "begin" \in T,
           NEW U, stop \in [Presses -> U], "begin" \in U
    PROVE  /\ QueueInv' /\ TurnQueueTypeOK'
           /\ call' \in [Messages -> T] /\ stop' \in [Presses -> U]
           /\ status' = status
<1>1. QueueInv'
  BY PersonKeeps, WatcherKeeps
<1>2. call' \in [Messages -> T]
  BY OnlyBegins
<1>3. status' = status
  BY DEF PersonNext, WatcherNext, ChatTurn, ChatQueue, ChatUnqueue, ChatInterrupt, Observe, Fire,
     TakeNext
<1>4. stop' \in [Presses -> U]
  BY DEF PersonNext, WatcherNext, ChatTurn, ChatQueue, ChatUnqueue, ChatInterrupt, Observe, Fire,
     TakeNext
<1>5. sending' \in 0..MaxMessages
  <2>1. CASE sending' = sending
    BY <2>1 DEF TurnQueueTypeOK
  <2>2. CASE TakeNext /\ MayGo
    <3>1. turns # <<>> /\ sending' = Head(turns) /\ turns \in Seq(Messages)
      BY <2>2 DEF TakeNext, MayGo, QueueInv
    <3>2. sending' \in Messages
      BY <3>1, HeadTailProperties
    <3> QED BY <3>2 DEF Messages
  <2> QED BY <2>1, <2>2 DEF PersonNext, WatcherNext, ChatTurn, ChatQueue, ChatUnqueue,
     ChatInterrupt, Observe, Fire, TakeNext, watcher
<1>6. last' \in {"idle", "thinking", "waiting"} /\ {unseen', settling', checked'} \subseteq BOOLEAN
  BY DEF PersonNext, WatcherNext, ChatTurn, ChatQueue, ChatUnqueue, ChatInterrupt, Observe,
     Armed, Fire, TakeNext, watcher, TurnQueueTypeOK
<1> QED BY <1>1, <1>2, <1>3, <1>4, <1>5, <1>6 DEF TurnQueueTypeOK, QueueInv

\* A step that leaves the queue held sends none of what is in it.
LEMMA HoldsWhatItHas ==
    ASSUME QueueInv, PersonNext \/ WatcherNext, paused, paused'
    PROVE  \A m \in Held : call'[m] = "none"
<1>1. \A i \in 1..Len(turns) : turns[i] \in Messages /\ call[turns[i]] = "none"
  BY ElementOfSeq DEF QueueInv, Sound
<1>2. Held = {turns[i] : i \in 1..Len(turns)}
  BY DomainFacts DEF QueueInv, Held
<1>3. call' = call
  BY DEF PersonNext, WatcherNext, ChatTurn, ChatQueue, ChatUnqueue, ChatInterrupt, Observe, Fire,
     TakeNext, MayGo, PausedOf, QueueInv
<1> QED BY <1>1, <1>2, <1>3

-----------------------------------------------------------------------------
(* One process per turn.  Only a call that is being followed, or is about   *)
(* to be, makes the session be at work (AtWork), and every way out of those *)
(* stages settles it; a process runs, and is kept, only during them         *)
(* (KeptWhileFollowed).  Both rest on a message being sent once at most,    *)
(* which is the queue's doing (QueueInv).                                   *)

\* A session that is at work has a turn to settle it.
AtWork == status = "idle" \/ \E m \in Messages : call[m] \in {"launch", "keep", "follow"}

ExecInv == ExecTypeOK /\ QueueInv /\ AtWork /\ KeptWhileFollowed

-----------------------------------------------------------------------------
LEMMA ExecInitInv == ExecInit => ExecInv
<1> SUFFICES ASSUME ExecInit PROVE ExecInv
  OBVIOUS
<1>1. QueueInv
  BY QueueInit DEF ExecInit
<1>2. ExecTypeOK
  <2>1. TurnQueueTypeOK
    BY <1>1, TurnQueueAssumption DEF ExecInit, TurnQueueInit, TurnQueueTypeOK, QueueInv
  <2>2. /\ call \in [Messages -> Calls]
        /\ stop \in [Presses -> {"none", "begin", "settle", "done"}]
        /\ process \in [Messages -> {"none", "running", "exited", "killed"}]
        /\ heard \in [Messages -> {"nothing", "started", "completed"}]
    BY DEF ExecInit, TurnQueueInit, Calls
  <2>3. child \in 0..MaxMessages
    BY TurnQueueAssumption DEF ExecInit
  <2> QED BY <2>1, <2>2, <2>3 DEF ExecTypeOK
<1>3. AtWork /\ KeptWhileFollowed
  BY DEF ExecInit, TurnQueueInit, AtWork, KeptWhileFollowed
<1> QED BY <1>1, <1>2, <1>3 DEF ExecInv

\* What the person and the watcher do.
LEMMA ExecQueueStepInv ==
    ASSUME ExecInv, PersonNext \/ WatcherNext, UNCHANGED <<process, heard, child>>
    PROVE  ExecInv'
<1>1. /\ QueueInv' /\ TurnQueueTypeOK' /\ status' = status
      /\ call' \in [Messages -> Calls]
      /\ stop' \in [Presses -> {"none", "begin", "settle", "done"}]
  <2> DEFINE Ways == {"none", "begin", "settle", "done"}
  <2>1. /\ QueueInv /\ TurnQueueTypeOK
        /\ call \in [Messages -> Calls] /\ "begin" \in Calls
        /\ stop \in [Presses -> Ways] /\ "begin" \in Ways
    BY DEF ExecInv, ExecTypeOK, Calls
  <2> HIDE DEF Ways
  <2>2. /\ QueueInv' /\ TurnQueueTypeOK' /\ status' = status
        /\ call' \in [Messages -> Calls] /\ stop' \in [Presses -> Ways]
    BY <2>1, QueueTypes
  <2> QED BY <2>2 DEF Ways
<1>2. \A m \in Messages : call'[m] = call[m] \/ (call[m] = "none" /\ call'[m] = "begin")
  BY OnlyBegins DEF ExecInv, ExecTypeOK, Calls
<1>3. ExecTypeOK'
  BY <1>1 DEF ExecInv, ExecTypeOK
<1>4. AtWork'
  BY <1>1, <1>2 DEF ExecInv, AtWork
<1>5. KeptWhileFollowed'
  BY <1>1, <1>2, MessageFacts DEF ExecInv, KeptWhileFollowed, ExecTypeOK, Messages
<1> QED BY <1>1, <1>3, <1>4, <1>5 DEF ExecInv

-----------------------------------------------------------------------------
\* What a step of the session leaves alone.
LEMMA SessionLeaves ==
    ASSUME ExecInv, ExecSessionNext
    PROVE  UNCHANGED <<queue, watcher>>
BY DEF ExecSessionNext, ExecSends, Begin, Launch, Keep, Follow, Ended, Clear, Exit, ExecInterrupt,
   ExecSettle, qvars

\* A step of the task that sends m takes its own call on, and it had begun.
LEMMA SendsCalls ==
    ASSUME ExecInv, NEW m \in Messages, ExecSends(m)
    PROVE  /\ call' \in [Messages -> Calls]
           /\ \A n \in Messages : n # m => call'[n] = call[n]
           /\ call[m] # "none"
           /\ stop' = stop
BY DEF ExecSends, Begin, Launch, Keep, Follow, Ended, Clear, Goto, Calls, ExecInv, ExecTypeOK

LEMMA SessionTypes ==
    ASSUME ExecInv, ExecSessionNext
    PROVE  ExecTypeOK' /\ QueueInv'
<1>1. /\ call' \in [Messages -> Calls]
      /\ stop' \in [Presses -> {"none", "begin", "settle", "done"}]
      /\ \A n \in Messages : call[n] = "none" => call'[n] = "none"
  <2>1. CASE \E m \in Messages : ExecSends(m)
    BY <2>1, SendsCalls DEF ExecInv, ExecTypeOK
  <2>2. CASE \E m \in Messages : Exit(m)
    BY <2>2 DEF Exit, qvars, ExecInv, ExecTypeOK
  <2>3. CASE \E p \in Presses : ExecInterrupt(p) \/ ExecSettle(p)
    BY <2>3 DEF ExecInterrupt, ExecSettle, ExecInv, ExecTypeOK
  <2> QED BY <2>1, <2>2, <2>3 DEF ExecSessionNext
<1>2. QueueInv'
  BY <1>1, SessionLeaves, BackendKeeps DEF ExecInv
<1>3. status' \in {"idle", "thinking", "waiting"} /\ unseen' \in BOOLEAN
  BY DEF ExecSessionNext, ExecSends, Begin, Launch, Keep, Follow, Ended, Clear, Exit,
     ExecInterrupt, ExecSettle, qvars, Signal, NotStarted, ExecInv, ExecTypeOK, TurnQueueTypeOK
<1>4. TurnQueueTypeOK'
  BY <1>1, <1>2, <1>3, SessionLeaves DEF ExecInv, ExecTypeOK, TurnQueueTypeOK, watcher, queue,
     QueueInv
<1>5. /\ process' \in [Messages -> {"none", "running", "exited", "killed"}]
      /\ heard' \in [Messages -> {"nothing", "started", "completed"}]
      /\ child' \in 0..MaxMessages
  BY TurnQueueAssumption DEF ExecSessionNext, ExecSends, Begin, Launch, Keep, Follow, Ended,
     Clear, Exit, ExecInterrupt, ExecSettle, Killed, NoChild, Messages, ExecInv, ExecTypeOK
<1> QED BY <1>1, <1>2, <1>4, <1>5 DEF ExecTypeOK

LEMMA SessionAtWork ==
    ASSUME ExecInv, ExecSessionNext
    PROVE  AtWork'
<1>1. CASE \E m \in Messages : ExecSends(m)
  <2>1. PICK m \in Messages : ExecSends(m)
    BY <1>1
  <2>2. CASE status' = "idle"
    BY <2>2 DEF AtWork
  <2>3. CASE call'[m] \in {"launch", "keep", "follow"}
    BY <2>3 DEF AtWork
  <2>4. CASE Clear(m)
    <3>1. \A n \in Messages : call[n] \in {"launch", "keep", "follow"} => call'[n] = call[n]
      BY <2>1, <2>4, SendsCalls DEF Clear
    <3> QED BY <2>4, <3>1 DEF Clear, ExecInv, AtWork
  <2> QED BY <2>1, <2>2, <2>3, <2>4
      DEF ExecSends, Begin, Launch, Keep, Follow, Ended, Goto, Signal, NotStarted, ExecInv,
         ExecTypeOK
<1>2. CASE \E m \in Messages : Exit(m)
  BY <1>2 DEF Exit, qvars, ExecInv, AtWork
<1>3. CASE \E p \in Presses : ExecInterrupt(p) \/ ExecSettle(p)
  BY <1>3 DEF ExecInterrupt, ExecSettle, Signal, ExecInv, AtWork
<1> QED BY <1>1, <1>2, <1>3 DEF ExecSessionNext

LEMMA SessionKept ==
    ASSUME ExecInv, ExecSessionNext
    PROVE  KeptWhileFollowed'
<1>0. child # 0 => child \in Messages
  BY MessageFacts DEF ExecInv, ExecTypeOK
<1>1. ASSUME NEW m \in Messages, ExecSends(m)
      PROVE  KeptWhileFollowed'
  <2>1. CASE Begin(m) \/ Follow(m) \/ Ended(m)
    <3>1. process' = process /\ child' = child
      BY <2>1 DEF Begin, Follow, Ended
    <3>2. CASE Begin(m)
      BY <1>0, <1>1, <3>1, <3>2, SendsCalls DEF Begin, ExecInv, KeptWhileFollowed
    <3>3. CASE Follow(m)
      BY <3>1, <3>3 DEF Follow, ExecInv, KeptWhileFollowed
    <3>4. CASE Ended(m)
      <4>1. call'[m] = "clear" /\ process[m] # "running"
        BY <3>4 DEF Ended, Goto, ExecInv, ExecTypeOK
      <4> QED BY <1>0, <1>1, <3>1, <4>1, SendsCalls DEF ExecInv, KeptWhileFollowed
    <3> QED BY <2>1, <3>2, <3>3, <3>4
  <2>4. CASE Launch(m)
    <3>1. /\ call[m] = "launch" /\ call'[m] \in {"keep", "done"} /\ child' = child
          /\ call'[m] = "done" => process' = process
          /\ \A n \in Messages : n # m => process'[n] = process[n]
      BY <2>4 DEF Launch, Goto, ExecInv, ExecTypeOK
    <3> QED BY <1>0, <1>1, <3>1, SendsCalls DEF ExecInv, KeptWhileFollowed
  <2>2. CASE Keep(m)
    <3>1. call'[m] = "follow" /\ child' = m /\ \A n \in Messages : n # m => call'[n] = call[n]
      BY <1>1, <2>2, SendsCalls DEF Keep, Goto, ExecInv, ExecTypeOK
    <3>2. \A n \in Messages : process'[n] = "running" => process[n] = "running"
      BY <2>2 DEF Keep, Killed
    <3> QED BY <3>1, <3>2 DEF ExecInv, KeptWhileFollowed
  <2>3. CASE Clear(m)
    BY <1>1, <2>3, SendsCalls DEF Clear, Goto, Killed, NoChild, ExecInv, ExecTypeOK,
       KeptWhileFollowed
  <2> QED BY <1>1, <2>1, <2>2, <2>3, <2>4 DEF ExecSends
<1>2. CASE \E m \in Messages : Exit(m)
  BY <1>2 DEF Exit, qvars, ExecInv, ExecTypeOK, KeptWhileFollowed
<1>3. CASE \E p \in Presses : ExecInterrupt(p) \/ ExecSettle(p)
  BY <1>3 DEF ExecInterrupt, ExecSettle, Killed, ExecInv, ExecTypeOK, KeptWhileFollowed
<1> QED BY <1>1, <1>2, <1>3 DEF ExecSessionNext

-----------------------------------------------------------------------------
LEMMA ExecInvariance == ExecSpec => []ExecInv
<1>1. ExecInv /\ [ExecNext]_execVars => ExecInv'
  <2> SUFFICES ASSUME ExecInv, [ExecNext]_execVars PROVE ExecInv'
    OBVIOUS
  <2>1. CASE UNCHANGED execVars
    BY <2>1 DEF execVars, qvars, queue, watcher, ExecInv, ExecTypeOK, TurnQueueTypeOK, QueueInv,
       Sound, AtWork, KeptWhileFollowed
  <2>2. CASE (PersonNext \/ WatcherNext) /\ UNCHANGED <<process, heard, child>>
    BY <2>2, ExecQueueStepInv
  <2>3. CASE ExecSessionNext
    BY <2>3, SessionTypes, SessionAtWork, SessionKept DEF ExecInv
  <2> QED BY <2>1, <2>2, <2>3 DEF ExecNext
<1> QED BY <1>1, ExecInitInv, PTL DEF ExecSpec

\* The state of a session of one process per turn, with its queue and its watcher, stays in its
\* types (queue.rs, watch_chat, exec_chat.rs).
THEOREM ExecTypeCorrect == ExecSpec => []ExecTypeOK
BY ExecInvariance, PTL DEF ExecInv

\* However many turns run into each other, and wherever a stop or a failed start comes between, a
\* session that nothing is asked of any more is idle (send_turn, interrupt of exec_chat.rs).
THEOREM SettlesWhenQuiet == ExecSpec => []SettledWhenQuiet
<1>1. ExecInv => SettledWhenQuiet
  BY DEF ExecInv, AtWork, SettledWhenQuiet, Quiet
<1> QED BY <1>1, ExecInvariance, PTL

\* A stop never kills anything but a turn that is being followed, and no process outlives the call
\* that started it (`child` of exec_chat.rs).
THEOREM NothingOutlivesItsCall == ExecSpec => []KeptWhileFollowed
BY ExecInvariance, PTL DEF ExecInv

\* A message is queued or being sent, never both, and the queue keeps the order of writing, through
\* every way out of it: by hand, by the watcher, at once (queue.rs, service.rs).
THEOREM ExecQueueIsSound == ExecSpec => []QueueSound
<1>1. ExecInv => QueueSound
  BY SoundMeans DEF ExecInv
<1> QED BY <1>1, ExecInvariance, PTL

\* A queue that a stop holds sends nothing until the person does (pause, next).
THEOREM StopHoldsTheQueue == ExecSpec => HeldStaysHeld
<1>1. ExecInv /\ [ExecNext]_execVars => [paused /\ paused' => \A m \in Held : call'[m] =
   "none"]_qvars
  <2> SUFFICES ASSUME ExecInv, [ExecNext]_execVars, paused, paused'
               PROVE  qvars' = qvars \/ \A m \in Held : call'[m] = "none"
    OBVIOUS
  <2>1. CASE UNCHANGED execVars
    BY <2>1 DEF execVars
  <2>2. CASE PersonNext \/ WatcherNext
    BY <2>2, HoldsWhatItHas DEF ExecInv
  <2>3. CASE ExecSessionNext
    <3>1. QueueInv' /\ turns' = turns
      BY <2>3, SessionTypes, SessionLeaves DEF queue
    <3>2. \A i \in 1..Len(turns) : call'[turns[i]] = "none"
      BY <3>1 DEF QueueInv, Sound
    <3>3. Held = {turns[i] : i \in 1..Len(turns)}
      BY DomainFacts DEF Held, ExecInv, QueueInv
    <3> QED BY <3>2, <3>3
  <2> QED BY <2>1, <2>2, <2>3 DEF ExecNext
<1> QED BY <1>1, ExecInvariance, PTL DEF ExecSpec, HeldStaysHeld

-----------------------------------------------------------------------------
(* An agent that is kept running, with any number of requests and whatever  *)
(* the timing (StreamSpec).  A request is in one place at a time.  While it *)
(* is on its way to the reader, in the reader's hands or not made yet,      *)
(* nobody has touched it; once someone takes it to answer it, nobody can    *)
(* take it again (AskInv).                                                  *)

Holds(q, x) == \E i \in DOMAIN q : q[i] = x

\* No request comes twice in what the reader has yet to read.
Distinct(q) == \A i, j \in 1..Len(q) : i < j /\ q[i].kind = "ask" => q[i] # q[j]

OnItsWay(id) == Holds(output, Item("ask", id))
InHand(id) == reader = "allow" /\ parsed = id
Untouched(id) == answers[id] = 0 /\ id \notin pending /\ reply[id] = "none"

AskInv ==
    /\ Distinct(output)
    /\ \A id \in 0..MaxAsks : OnItsWay(id) \/ InHand(id) => id \in Asks /\ id <= asked
    /\ \A id \in Asks : OnItsWay(id) => ~InHand(id)
    /\ \A id \in Asks : id > asked \/ OnItsWay(id) \/ InHand(id) => Untouched(id)
    /\ \A id \in pending : answers[id] = 0 /\ reply[id] = "none"
    /\ \A id \in Asks : reply[id] = "taken" => answers[id] = 0
    /\ \A id \in Asks : answers[id] <= 1
    /\ agent = "gone" => awaited = {}

StreamInv == StreamTypeOK /\ QueueInv /\ AskInv /\ AskIsAnswerable

-----------------------------------------------------------------------------
LEMMA AppendHolds ==
    ASSUME NEW S, NEW q \in Seq(S), NEW e \in S
    PROVE  /\ Append(q, e) \in Seq(S)
           /\ \A x : Holds(Append(q, e), x) <=> Holds(q, x) \/ x = e
           /\ Distinct(q) /\ (e.kind # "ask" \/ ~Holds(q, e)) => Distinct(Append(q, e))
<1> DEFINE r == Append(q, e)
<1>1. /\ r \in Seq(S) /\ Len(q) \in Nat /\ Len(r) = Len(q) + 1
      /\ \A i \in 1..Len(q) : r[i] = q[i]
      /\ r[Len(q) + 1] = e
  BY AppendFacts
<1>2. DOMAIN q = 1..Len(q) /\ DOMAIN r = 1..Len(r)
  BY <1>1, DomainFacts
<1> HIDE DEF r
<1>3. \A x : Holds(r, x) <=> Holds(q, x) \/ x = e
  BY <1>1, <1>2 DEF Holds
<1>4. ASSUME Distinct(q), e.kind # "ask" \/ ~Holds(q, e)
      PROVE  Distinct(r)
  BY <1>1, <1>2, <1>4 DEF Holds, Distinct
<1> QED BY <1>1, <1>3, <1>4 DEF r

LEMMA TailHolds ==
    ASSUME NEW S, NEW q \in Seq(S), q # <<>>
    PROVE  /\ Tail(q) \in Seq(S)
           /\ Head(q) \in S
           /\ \A x : Holds(q, x) <=> Holds(Tail(q), x) \/ x = Head(q)
           /\ Distinct(q) => Distinct(Tail(q))
           /\ Distinct(q) /\ Head(q).kind = "ask" => ~Holds(Tail(q), Head(q))
<1> DEFINE r == Tail(q)
<1>1. /\ r \in Seq(S) /\ Len(q) \in Nat \ {0} /\ Len(r) = Len(q) - 1
      /\ \A i \in 1..Len(q) - 1 : r[i] = q[i + 1]
      /\ \A i \in 1..Len(q) : q[i] \in S
      /\ Head(q) = q[1]
  BY TailFacts
<1>2. DOMAIN q = 1..Len(q) /\ DOMAIN r = 1..Len(r)
  BY <1>1, DomainFacts
<1> HIDE DEF r
<1>3. \A x : Holds(q, x) <=> Holds(r, x) \/ x = Head(q)
  <2> SUFFICES ASSUME NEW x PROVE Holds(q, x) <=> Holds(r, x) \/ x = Head(q)
    OBVIOUS
  <2>1. ASSUME Holds(q, x), x # Head(q) PROVE Holds(r, x)
    <3>1. PICK i \in 1..Len(q) : q[i] = x
      BY <1>2, <2>1 DEF Holds
    <3>2. i - 1 \in 1..Len(q) - 1 /\ r[i - 1] = q[i]
      BY <1>1, <2>1, <3>1
    <3> QED BY <1>1, <1>2, <3>1, <3>2 DEF Holds
  <2>2. ASSUME Holds(r, x) PROVE Holds(q, x)
    BY <1>1, <1>2, <2>2 DEF Holds
  <2>3. Holds(q, Head(q))
    BY <1>1, <1>2 DEF Holds
  <2> QED BY <2>1, <2>2, <2>3
<1>4. Distinct(q) => Distinct(r)
  BY <1>1 DEF Distinct
<1>5. ASSUME Distinct(q), Head(q).kind = "ask" PROVE ~Holds(r, Head(q))
  BY <1>1, <1>2, <1>5 DEF Holds, Distinct
<1> QED BY <1>1, <1>3, <1>4, <1>5 DEF r

LEMMA ItemFacts ==
    /\ \A k, id : Item(k, id).kind = k /\ Item(k, id).id = id
    /\ \A x \in Inputs \cup Outputs : x = Item(x.kind, x.id) /\ x.id \in 0..MaxAsks
    /\ Asks \subseteq Nat /\ Asks \subseteq 0..MaxAsks
    /\ \A id \in 0..MaxAsks : id \in Asks <=> id # 0
BY StreamTurnsAssumption DEF Item, Inputs, Outputs, Asks

\* What is written joins the agent's input, if there is an agent.
LEMMA WriteFacts ==
    ASSUME input \in Seq(Inputs), NEW kind, NEW id, Item(kind, id) \in Inputs, Write(kind, id)
    PROVE  /\ input' \in Seq(Inputs) /\ output' = output
           /\ \A x : Holds(input, x) => Holds(input', x)
           /\ agent # "gone" => Holds(input', Item(kind, id))
BY AppendHolds DEF Write

\* What the agent says joins its output.
LEMMA SaysFacts ==
    ASSUME output \in Seq(Outputs), NEW kind, NEW id, Item(kind, id) \in Outputs, Says(kind, id)
    PROVE  /\ output' \in Seq(Outputs)
           /\ \A x : Holds(output', x) <=> Holds(output, x) \/ x = Item(kind, id)
           /\ Distinct(output) /\ (kind # "ask" \/ ~Holds(output, Item(kind, id)))
              => Distinct(output')
BY AppendHolds, ItemFacts DEF Says

-----------------------------------------------------------------------------
LEMMA StreamInitInv == StreamInit => StreamInv
<1> SUFFICES ASSUME StreamInit PROVE StreamInv
  OBVIOUS
<1>1. QueueInv
  BY QueueInit DEF StreamInit
<1>2. TurnQueueTypeOK
  BY <1>1, TurnQueueAssumption DEF StreamInit, TurnQueueInit, TurnQueueTypeOK, QueueInv
<1>3. input \in Seq(Inputs) /\ output \in Seq(Outputs) /\ DOMAIN output = {} /\ Len(output) = 0
  BY EmptySeq DEF StreamInit
<1>4. StreamTypeOK
  <2>1. /\ call \in [Messages -> {"none", "begin", "written", "done"}]
        /\ stop \in [Presses -> {"none", "begin", "written", "done"}]
    BY DEF StreamInit, TurnQueueInit
  <2>2. /\ agent = "idle" /\ reader = "reading"
        /\ awaited = {} /\ pending = {}
    BY DEF StreamInit
  <2>3. backlog \in Nat /\ asked \in 0..MaxAsks /\ parsed \in 0..MaxAsks
    BY StreamTurnsAssumption DEF StreamInit
  <2>4. reply \in [Asks -> {"none", "taken", "written"}] /\ answers \in [Asks -> Nat]
    BY DEF StreamInit
  <2> QED BY <1>2, <1>3, <2>1, <2>2, <2>3, <2>4 DEF StreamTypeOK
<1>5. AskInv
  BY <1>3 DEF StreamInit, AskInv, Distinct, OnItsWay, InHand, Untouched, Holds
<1>6. AskIsAnswerable
  BY DEF StreamInit, AskIsAnswerable
<1> QED BY <1>1, <1>4, <1>5, <1>6 DEF StreamInv

-----------------------------------------------------------------------------
\* What the person and the watcher do.
LEMMA StreamQueueStepInv == StreamInv /\ QueueNext => StreamInv'
<1> SUFFICES ASSUME StreamInv, QueueNext PROVE StreamInv'
  OBVIOUS
<1> DEFINE T == {"none", "begin", "written", "done"}
<1>1. /\ QueueInv /\ TurnQueueTypeOK /\ (PersonNext \/ WatcherNext)
      /\ call \in [Messages -> T] /\ stop \in [Presses -> T] /\ "begin" \in T
  BY DEF StreamInv, StreamTypeOK, QueueNext
<1> HIDE DEF T
<1>2. /\ QueueInv' /\ TurnQueueTypeOK'
      /\ call' \in [Messages -> T] /\ stop' \in [Presses -> T]
  BY <1>1, QueueTypes
<1>3. UNCHANGED sessionVars
  BY DEF QueueNext
<1>4. StreamTypeOK'
  BY <1>2, <1>3 DEF StreamInv, StreamTypeOK, T, sessionVars, agentVars, pipes, replies
<1>5. AskInv' /\ AskIsAnswerable'
  BY <1>3 DEF StreamInv, AskInv, OnItsWay, InHand, Untouched, AskIsAnswerable, sessionVars,
     agentVars, pipes, replies
<1> QED BY <1>2, <1>4, <1>5 DEF StreamInv

\* A step of the session and its agent leaves the queue and its watcher alone.
StreamSessionNext ==
    \/ \E m \in Messages : StreamSends(m)
    \/ \E p \in Presses : Stops(p)
    \/ \E id \in Asks : Respond(id) \/ Replies(id)
    \/ Reads
    \/ Obeys \/ Work \/ Ask \/ Finish \/ Die

LEMMA SessionQueue ==
    ASSUME StreamInv, StreamSessionNext
    PROVE  /\ QueueInv' /\ TurnQueueTypeOK'
           /\ call' \in [Messages -> {"none", "begin", "written", "done"}]
           /\ stop' \in [Presses -> {"none", "begin", "written", "done"}]
<1>1. UNCHANGED <<queue, watcher>>
  BY DEF StreamSessionNext, StreamSends, SendTurn, Working, Stops, StreamInterrupt, StreamSettle,
     Respond, Replies, Answer, Resume, Reads, Read, ReadWork, ReadResult, ReadAsk, Allow,
     Announce, ReadEnd, Obeys, TakeInput, TakeTurn, TakeInterrupt, TakeAnswer, Work, Ask, Finish,
     Die, qvars
<1>2. /\ call' \in [Messages -> {"none", "begin", "written", "done"}]
      /\ \A m \in Messages : call[m] = "none" => call'[m] = "none"
  BY DEF StreamSessionNext, StreamSends, SendTurn, Working, Stops, StreamInterrupt, StreamSettle,
     Respond, Replies, Answer, Resume, Reads, Read, ReadWork, ReadResult, ReadAsk, Allow,
     Announce, ReadEnd, Obeys, TakeInput, TakeTurn, TakeInterrupt, TakeAnswer, Work, Ask, Finish,
     Die, qvars, StreamInv, StreamTypeOK
<1>3. stop' \in [Presses -> {"none", "begin", "written", "done"}]
  BY DEF StreamSessionNext, StreamSends, SendTurn, Working, Stops, StreamInterrupt, StreamSettle,
     Respond, Replies, Answer, Resume, Reads, Read, ReadWork, ReadResult, ReadAsk, Allow,
     Announce, ReadEnd, Obeys, TakeInput, TakeTurn, TakeInterrupt, TakeAnswer, Work, Ask, Finish,
     Die, qvars, StreamInv, StreamTypeOK
<1>4. status' \in {"idle", "thinking", "waiting"} /\ unseen' \in BOOLEAN
  BY DEF StreamSessionNext, StreamSends, SendTurn, Working, Stops, StreamInterrupt, StreamSettle,
     Respond, Replies, Answer, Resume, Reads, Read, ReadWork, ReadResult, TurnOver, ReadAsk,
     Allow, Announce, ReadEnd, Obeys, TakeInput, TakeTurn, TakeInterrupt, TakeAnswer, Work, Ask,
     Finish, Die, qvars, Signal, StreamInv, StreamTypeOK, TurnQueueTypeOK
<1>5. QueueInv'
  BY <1>1, <1>2, BackendKeeps DEF StreamInv
<1>6. TurnQueueTypeOK'
  BY <1>1, <1>2, <1>3, <1>4, <1>5 DEF StreamInv, StreamTypeOK, TurnQueueTypeOK, watcher, queue,
     QueueInv
<1> QED BY <1>2, <1>3, <1>5, <1>6

-----------------------------------------------------------------------------
\* The rest of the invariant, which is about the session's own variables.
SessionTypeOK ==
    /\ agent \in {"idle", "working", "gone"} /\ backlog \in Nat
    /\ asked \in 0..MaxAsks /\ awaited \subseteq Asks
    /\ input \in Seq(Inputs) /\ output \in Seq(Outputs)
    /\ reader \in {"reading", "allow", "announce", "ended"}
    /\ parsed \in 0..MaxAsks
    /\ pending \subseteq Asks
    /\ reply \in [Asks -> {"none", "taken", "written"}]
    /\ answers \in [Asks -> Nat]

Session == SessionTypeOK /\ AskInv /\ AskIsAnswerable

LEMMA IInvSession == StreamInv => Session
BY DEF StreamInv, StreamTypeOK, Session, SessionTypeOK

\* Nothing but what the agent is told changes.
LEMMA WriteKeeps ==
    ASSUME Session, NEW kind, NEW id, Item(kind, id) \in Inputs, Write(kind, id),
           UNCHANGED <<agentVars, reader, parsed, replies>>
    PROVE  Session'
<1>1. /\ input' \in Seq(Inputs) /\ output' = output
      /\ \A x : Holds(input, x) => Holds(input', x)
  BY WriteFacts DEF Session, SessionTypeOK
<1>2. SessionTypeOK'
  BY <1>1 DEF Session, SessionTypeOK, agentVars, replies
<1>3. AskInv'
  BY <1>1 DEF Session, AskInv, OnItsWay, InHand, Untouched, agentVars, replies
<1>4. AskIsAnswerable'
  BY <1>1 DEF Session, AskIsAnswerable, Holds, agentVars, replies
<1> QED BY <1>2, <1>3, <1>4 DEF Session

LEMMA SendsKeep ==
    ASSUME Session, NEW m \in Messages, StreamSends(m)
    PROVE  Session'
<1>1. CASE SendTurn(m)
  <2>1. Item("turn", 0) \in Inputs
    BY StreamTurnsAssumption DEF Item, Inputs
  <2> QED BY <1>1, <2>1, WriteKeeps DEF SendTurn
<1>2. CASE Working(m)
  BY <1>2 DEF Working, Session, SessionTypeOK, AskInv, OnItsWay, InHand, Untouched,
     AskIsAnswerable, sessionVars, agentVars, pipes, replies
<1> QED BY <1>1, <1>2 DEF StreamSends

LEMMA StopsKeep ==
    ASSUME Session, NEW p \in Presses, Stops(p)
    PROVE  Session'
<1>1. CASE StreamInterrupt(p)
  <2>1. Item("interrupt", 0) \in Inputs
    BY StreamTurnsAssumption DEF Item, Inputs
  <2> QED BY <1>1, <2>1, WriteKeeps DEF StreamInterrupt
<1>2. CASE StreamSettle(p)
  BY <1>2 DEF StreamSettle, Session, SessionTypeOK, AskInv, OnItsWay, InHand, Untouched,
     AskIsAnswerable, sessionVars, agentVars, pipes, replies
<1> QED BY <1>1, <1>2 DEF Stops

\* An answer takes its request out of those to be answered, and keeps it in hand.
LEMMA RespondKeeps ==
    ASSUME Session, NEW id \in Asks, Respond(id)
    PROVE  Session'
<1>1. /\ pending' = pending \ {id} /\ reply' = [reply EXCEPT ![id] = "taken"]
      /\ id \in pending /\ answers' = answers
      /\ UNCHANGED <<agentVars, pipes, reader, parsed>>
  BY DEF Respond, NotPending
<1>2. SessionTypeOK'
  BY <1>1 DEF Session, SessionTypeOK, agentVars, pipes, Respond
<1>3. answers[id] = 0 /\ id <= asked /\ ~OnItsWay(id) /\ ~InHand(id)
  BY <1>1, ItemFacts DEF Session, AskInv, Untouched, SessionTypeOK
<1>4. \A x \in Asks : x # id => reply'[x] = reply[x] /\ (x \in pending' <=> x \in pending)
  BY <1>1 DEF Session, SessionTypeOK
<1>5. reply'[id] = "taken"
  BY <1>1 DEF Session, SessionTypeOK
<1>6. AskInv'
  <2> USE <1>1, <1>3, <1>4, <1>5 DEF agentVars, pipes
  <2>1. \A x : OnItsWay(x)' = OnItsWay(x) /\ InHand(x)' = InHand(x)
    BY DEF OnItsWay, InHand
  <2>2. \A x \in Asks : (x > asked \/ OnItsWay(x) \/ InHand(x) => Untouched(x))'
    BY <2>1, ItemFacts DEF Session, SessionTypeOK, AskInv, Untouched
  <2> QED BY <2>1, <2>2 DEF Session, SessionTypeOK, AskInv
<1>7. AskIsAnswerable'
  BY <1>1, <1>4, <1>5 DEF Session, SessionTypeOK, AskIsAnswerable, agentVars, pipes
<1> QED BY <1>2, <1>6, <1>7 DEF Session

LEMMA AnswerKeeps ==
    ASSUME Session, NEW id \in Asks, Answer(id)
    PROVE  Session'
<1>1. Item("answer", id) \in Inputs
  BY ItemFacts DEF Item, Inputs
<1>2. /\ input' \in Seq(Inputs) /\ output' = output
      /\ \A x : Holds(input, x) => Holds(input', x)
      /\ agent # "gone" => Holds(input', Item("answer", id))
  BY <1>1, WriteFacts DEF Session, SessionTypeOK, Answer
<1>3. /\ answers' = [answers EXCEPT ![id] = @ + 1] /\ reply' = [reply EXCEPT ![id] = "written"]
      /\ reply[id] = "taken"
      /\ UNCHANGED <<agentVars, reader, parsed, pending>>
  BY DEF Answer
<1>4. SessionTypeOK'
  BY <1>2, <1>3 DEF Session, SessionTypeOK, agentVars
<1>5. answers[id] = 0 /\ id <= asked /\ id \notin pending /\ ~OnItsWay(id) /\ ~InHand(id)
  BY <1>3, ItemFacts DEF Session, AskInv, Untouched, SessionTypeOK
<1>6. \A x \in Asks : x # id => reply'[x] = reply[x] /\ answers'[x] = answers[x]
  BY <1>3 DEF Session, SessionTypeOK
<1>7. reply'[id] = "written" /\ answers'[id] = 1
  BY <1>3, <1>5 DEF Session, SessionTypeOK
<1>8. AskInv'
  <2> USE <1>2, <1>3, <1>5, <1>6, <1>7 DEF agentVars
  <2>1. \A x : OnItsWay(x)' = OnItsWay(x) /\ InHand(x)' = InHand(x)
    BY DEF OnItsWay, InHand
  <2>2. \A x \in Asks : (x > asked \/ OnItsWay(x) \/ InHand(x) => Untouched(x))'
    BY <2>1, ItemFacts DEF Session, SessionTypeOK, AskInv, Untouched
  <2> QED BY <2>1, <2>2 DEF Session, SessionTypeOK, AskInv
<1>9. AskIsAnswerable'
  BY ZenonT(60), <1>2, <1>3, <1>6, <1>7 DEF Session, SessionTypeOK, AskInv, AskIsAnswerable, Holds, agentVars
<1> QED BY <1>4, <1>8, <1>9 DEF Session

LEMMA ResumeKeeps ==
    ASSUME Session, NEW id \in Asks, Resume(id)
    PROVE  Session'
<1>1. /\ reply[id] = "written" /\ reply' = [reply EXCEPT ![id] = "none"]
      /\ UNCHANGED <<agentVars, pipes, reader, parsed, pending, answers>>
  BY DEF Resume
<1>2. SessionTypeOK'
  BY <1>1 DEF Session, SessionTypeOK, agentVars, pipes
<1>3. \A x \in Asks : x # id => reply'[x] = reply[x]
  BY <1>1 DEF Session, SessionTypeOK
<1>4. reply'[id] = "none"
  BY <1>1 DEF Session, SessionTypeOK
<1>5. AskInv'
  BY <1>1, <1>3, <1>4 DEF Session, SessionTypeOK, AskInv, OnItsWay, InHand, Untouched, agentVars,
     pipes
<1>6. AskIsAnswerable'
  BY <1>1, <1>3, <1>4 DEF Session, AskIsAnswerable, agentVars, pipes
<1> QED BY <1>2, <1>5, <1>6 DEF Session

\* What the reader allows by itself it answers in the same step as it takes it out of its hands.
LEMMA AllowKeeps ==
    ASSUME Session, Allow
    PROVE  Session'
<1>1. /\ reader = "allow" /\ reader' = "reading"
      /\ answers' = [answers EXCEPT ![parsed] = @ + 1]
      /\ UNCHANGED <<agentVars, parsed, pending, reply>>
  BY DEF Allow
<1>2. parsed \in Asks /\ parsed <= asked /\ Untouched(parsed) /\ ~OnItsWay(parsed)
  BY <1>1 DEF Session, SessionTypeOK, AskInv, InHand
<1>3. Item("answer", parsed) \in Inputs
  BY <1>2, ItemFacts DEF Item, Inputs
<1>4. /\ input' \in Seq(Inputs) /\ output' = output
      /\ \A x : Holds(input, x) => Holds(input', x)
      /\ agent # "gone" => Holds(input', Item("answer", parsed))
  BY <1>3, WriteFacts DEF Session, SessionTypeOK, Allow
<1>5. SessionTypeOK'
  BY <1>1, <1>2, <1>4 DEF Session, SessionTypeOK, agentVars
<1>6. /\ answers'[parsed] = 1
      /\ \A x \in Asks : x # parsed => answers'[x] = answers[x]
  BY <1>1, <1>2 DEF Session, SessionTypeOK, Untouched
<1>7. AskInv'
  <2> USE <1>1, <1>2, <1>4, <1>6 DEF agentVars
  <2>1. \A x : OnItsWay(x)' = OnItsWay(x) /\ ~InHand(x)'
    BY DEF OnItsWay, InHand
  <2>2. \A x \in Asks : (x > asked \/ OnItsWay(x) \/ InHand(x) => Untouched(x))'
    <3> SUFFICES ASSUME NEW x \in Asks, x > asked \/ OnItsWay(x) PROVE Untouched(x)'
      BY <2>1
    <3>1. x # parsed
      BY ItemFacts DEF Session, SessionTypeOK
    <3> QED BY <3>1 DEF Session, AskInv, Untouched
  <2>3. \A x \in pending : answers'[x] = 0 /\ reply[x] = "none"
    BY DEF Session, SessionTypeOK, AskInv, Untouched
  <2>4. \A x \in Asks : (reply[x] = "taken" => answers'[x] = 0) /\ answers'[x] <= 1
    BY DEF Session, SessionTypeOK, AskInv, Untouched
  <2> QED BY <2>1, <2>2, <2>3, <2>4 DEF Session, AskInv
<1>8. AskIsAnswerable'
  BY <1>1, <1>4, ItemFacts DEF Session, SessionTypeOK, AskInv, AskIsAnswerable, Holds, agentVars
<1> QED BY <1>5, <1>7, <1>8 DEF Session

\* A frame that is not a request.
LEMMA ReadFrameKeeps ==
    ASSUME Session, NEW kind, kind # "ask", Read(kind), UNCHANGED <<reader, parsed, pending>>
    PROVE  Session'
<1>1. /\ output # <<>> /\ Head(output).kind = kind /\ output' = Tail(output)
      /\ UNCHANGED <<agentVars, input, replies, reader, parsed>>
  <2>1. output # <<>> /\ Head(output).kind = kind /\ output' = Tail(output)
    BY DEF Read
  <2>2. UNCHANGED <<agentVars, input, replies, reader, parsed>>
    BY DEF Read, replies
  <2> QED BY <2>1, <2>2
<1>2. /\ output' \in Seq(Outputs) /\ Distinct(output')
      /\ \A x : Holds(output, x) <=> Holds(output', x) \/ x = Head(output)
  BY <1>1, TailHolds DEF Session, SessionTypeOK, AskInv
<1>3. \A id : OnItsWay(id)' <=> OnItsWay(id)
  BY <1>1, <1>2, ItemFacts DEF OnItsWay
<1>4. SessionTypeOK'
  BY <1>1, <1>2 DEF Session, SessionTypeOK, agentVars, replies
<1>5. AskInv'
  BY <1>1, <1>2, <1>3 DEF Session, AskInv, InHand, Untouched, agentVars, replies
<1>6. AskIsAnswerable'
  <2>1. \A id : Holds(output, Item("ask", id)) => Holds(output', Item("ask", id))
    BY <1>3 DEF OnItsWay
  <2> QED BY <1>1, <2>1 DEF Session, AskIsAnswerable, Holds, agentVars, replies
<1> QED BY <1>4, <1>5, <1>6 DEF Session

\* A request: untouched until now, it comes into the reader's hands or the person's.
LEMMA ReadAskKeeps ==
    ASSUME Session, ReadAsk
    PROVE  Session'
<1>0. PICK r : r = Head(output).id
  OBVIOUS
<1>1. /\ output # <<>> /\ Head(output).kind = "ask" /\ output' = Tail(output)
      /\ parsed' = r /\ reader = "reading"
      /\ UNCHANGED <<agentVars, input, reply, answers>>
      /\ \/ reader' = "allow" /\ pending' = pending
         \/ reader' = "announce" /\ pending' = pending \cup {r}
  BY <1>0 DEF ReadAsk, Read, Parked
<1>2. /\ output' \in Seq(Outputs) /\ Distinct(output') /\ Head(output) \in Outputs
      /\ \A x : Holds(output, x) <=> Holds(output', x) \/ x = Head(output)
      /\ ~Holds(output', Head(output))
  BY <1>1, TailHolds DEF Session, SessionTypeOK, AskInv
<1>3. Head(output) = Item("ask", r)
  BY <1>0, <1>1, <1>2, ItemFacts
<1>4. /\ r \in 0..MaxAsks /\ OnItsWay(r) /\ ~OnItsWay(r)'
      /\ \A x : x # r => (OnItsWay(x)' <=> OnItsWay(x))
  <2>1. r \in 0..MaxAsks
    BY <1>0, <1>2, ItemFacts
  <2>2. OnItsWay(r) /\ ~OnItsWay(r)'
    BY <1>2, <1>3 DEF OnItsWay
  <2>3. \A x : Item("ask", x) = Head(output) => x = r
    BY <1>3 DEF Item
  <2> QED BY <1>2, <2>1, <2>2, <2>3 DEF OnItsWay
<1>5. r \in Asks /\ r <= asked /\ Untouched(r)
  BY <1>4 DEF Session, AskInv
<1>6. SessionTypeOK'
  BY <1>1, <1>2, <1>4, <1>5 DEF Session, SessionTypeOK, agentVars
<1>7. \A x : InHand(x)' => x = r
  BY <1>1 DEF InHand
<1>8. \A x \in Asks : x # r => (x \in pending' <=> x \in pending)
  BY <1>1
<1>9. AskInv'
  <2> USE <1>1, <1>2, <1>4, <1>5, <1>7, <1>8 DEF agentVars
  <2>1. \A x \in Asks : (x > asked \/ OnItsWay(x) \/ InHand(x) => Untouched(x))'
    <3>1. CASE reader' = "allow"
      BY <3>1 DEF Session, AskInv, Untouched
    <3>2. CASE reader' = "announce"
      <4>1. \A x : ~InHand(x)'
        BY <3>2 DEF InHand
      <4> SUFFICES ASSUME NEW x \in Asks, x > asked \/ OnItsWay(x)'
                   PROVE  Untouched(x)'
        BY <4>1
      <4>2. CASE x > asked
        <5>1. x # r
          BY <4>2, ItemFacts DEF Session, SessionTypeOK
        <5> QED BY <4>2, <5>1 DEF Session, AskInv, Untouched
      <4>3. CASE OnItsWay(x)'
        BY <4>3 DEF Session, AskInv, Untouched
      <4> QED BY <4>2, <4>3
    <3> QED BY <3>1, <3>2
  <2>2. \A x \in pending' : answers[x] = 0 /\ reply[x] = "none"
    BY DEF Session, AskInv, Untouched
  <2>3. \A x \in 0..MaxAsks : (OnItsWay(x) \/ InHand(x))' => x \in Asks /\ x <= asked
    BY DEF Session, AskInv
  <2>4. \A x \in Asks : (OnItsWay(x) => ~InHand(x))'
    OBVIOUS
  <2> QED BY <2>1, <2>2, <2>3, <2>4 DEF Session, AskInv
<1>10. AskIsAnswerable'
  <2> SUFFICES ASSUME NEW id \in awaited
               PROVE  \/ OnItsWay(id)' \/ InHand(id)' \/ id \in pending' \/ reply[id] = "taken"
                      \/ Holds(input, Item("answer", id))
    BY <1>1 DEF AskIsAnswerable, OnItsWay, InHand, Holds, agentVars
  <2>1. CASE id = r
    BY <1>1, <2>1 DEF InHand
  <2>2. CASE id # r
    BY <1>1, <1>4, <2>2 DEF Session, AskIsAnswerable, OnItsWay, Holds
  <2> QED BY <2>1, <2>2
<1> QED BY <1>6, <1>9, <1>10 DEF Session

LEMMA ReadsKeep ==
    ASSUME Session, Reads
    PROVE  Session'
<1>1. CASE ReadWork
  BY <1>1, ReadFrameKeeps DEF ReadWork
<1>2. CASE ReadResult
  BY <1>2, ReadFrameKeeps DEF ReadResult
<1>3. CASE Announce \/ ReadEnd
  <2>1. /\ reader # "allow" /\ reader' \in {"reading", "ended"}
        /\ UNCHANGED <<agentVars, pipes, parsed, replies>>
    BY <1>3 DEF Announce, ReadEnd
  <2> QED BY <2>1 DEF Session, SessionTypeOK, AskInv, OnItsWay, InHand, Untouched,
     AskIsAnswerable, agentVars, pipes, replies
<1> QED BY <1>1, <1>2, <1>3, ReadAskKeeps, AllowKeeps DEF Reads

-----------------------------------------------------------------------------
\* The agent takes what it is sent: it waits for no more than it did.
LEMMA ObeysKeeps ==
    ASSUME Session, Obeys
    PROVE  Session'
<1>1. PICK kind \in {"turn", "interrupt", "answer"} : TakeInput(kind)
  BY DEF Obeys, TakeTurn, TakeInterrupt, TakeAnswer
<1>2. /\ input # <<>> /\ input' = Tail(input) /\ agent # "gone"
      /\ UNCHANGED <<asked, reader, parsed, pending, reply, answers>>
  BY <1>1 DEF TakeInput, replies
<1>3. /\ input' \in Seq(Inputs) /\ Head(input) \in Inputs
      /\ \A x : Holds(input, x) <=> Holds(input', x) \/ x = Head(input)
  BY <1>2, TailHolds DEF Session, SessionTypeOK
<1>4. /\ agent' \in {"idle", "working"} /\ backlog' \in Nat
      /\ awaited' \subseteq awaited
  BY <1>2 DEF Obeys, TakeTurn, TakeInterrupt, TakeAnswer, NextTurn, Session, SessionTypeOK
<1>5. /\ output' \in Seq(Outputs) /\ Distinct(output')
      /\ \A id : OnItsWay(id)' <=> OnItsWay(id)
  <2>1. CASE output' = output
    BY <2>1 DEF Session, SessionTypeOK, AskInv, OnItsWay
  <2>2. CASE Says("result", 0)
    <3>1. Item("result", 0) \in Outputs
      BY StreamTurnsAssumption DEF Item, Outputs
    <3> QED BY <2>2, <3>1, SaysFacts, ItemFacts DEF Session, SessionTypeOK, AskInv, OnItsWay
  <2> QED BY <2>1, <2>2 DEF Obeys, TakeTurn, TakeInterrupt, TakeAnswer
<1>6. SessionTypeOK'
  BY <1>2, <1>3, <1>4, <1>5 DEF Session, SessionTypeOK
<1>7. AskInv'
  BY <1>2, <1>4, <1>5 DEF Session, AskInv, InHand, Untouched
<1>8. AskIsAnswerable'
  <2> SUFFICES ASSUME NEW id \in awaited'
               PROVE  \/ OnItsWay(id)' \/ InHand(id) \/ id \in pending \/ reply[id] = "taken"
                      \/ Holds(input', Item("answer", id))
    BY <1>2 DEF AskIsAnswerable, OnItsWay, InHand, Holds
  <2>1. Head(input) # Item("answer", id)
    <3>1. CASE TakeTurn \/ TakeInterrupt
      BY <3>1, ItemFacts DEF TakeTurn, TakeInterrupt, TakeInput
    <3>2. CASE TakeAnswer
      BY <3>2, ItemFacts DEF TakeAnswer
    <3> QED BY <3>1, <3>2 DEF Obeys
  <2>2. \/ OnItsWay(id) \/ InHand(id) \/ id \in pending \/ reply[id] = "taken"
        \/ Holds(input, Item("answer", id))
    BY <1>4 DEF Session, AskIsAnswerable, OnItsWay, InHand, Holds
  <2> QED BY <1>3, <1>5, <2>1, <2>2
<1> QED BY <1>6, <1>7, <1>8 DEF Session

\* A new request is on its way, and nobody knows of it yet.
LEMMA AskKeeps ==
    ASSUME Session, Ask
    PROVE  Session'
<1>1. /\ agent = "working" /\ asked < MaxAsks /\ asked' = asked + 1
      /\ awaited' = awaited \cup {asked'}
      /\ UNCHANGED <<agent, backlog, input, reader, parsed, replies>>
  BY DEF Ask
<1>2. asked' \in Asks /\ asked \in Nat
  BY <1>1, StreamTurnsAssumption DEF Session, SessionTypeOK, Asks
<1>3. Item("ask", asked') \in Outputs
  BY <1>2, ItemFacts DEF Item, Outputs
<1>4. ~OnItsWay(asked') /\ ~InHand(asked') /\ Untouched(asked')
  BY <1>1, <1>2, ItemFacts DEF Session, AskInv, SessionTypeOK
<1>5. Says("ask", asked')
  BY DEF Ask
<1>6. /\ output' \in Seq(Outputs) /\ Distinct(output')
      /\ \A id : OnItsWay(id)' <=> OnItsWay(id) \/ id = asked'
  BY <1>3, <1>4, <1>5, SaysFacts, ItemFacts DEF Session, SessionTypeOK, AskInv, OnItsWay
<1>7. SessionTypeOK'
  BY <1>1, <1>2, <1>6, ItemFacts DEF Session, SessionTypeOK, replies
<1>8. AskInv'
  <2> USE <1>1, <1>2, <1>4, <1>6 DEF replies
  <2>1. \A x : InHand(x)' = InHand(x)
    BY DEF InHand
  <2>2. \A x \in 0..MaxAsks : (OnItsWay(x) \/ InHand(x))' => x \in Asks /\ x <= asked'
    BY <2>1, ItemFacts DEF Session, AskInv
  <2>3. \A x \in Asks : (OnItsWay(x) => ~InHand(x))'
    BY <2>1 DEF Session, AskInv
  <2>4. \A x \in Asks : (x > asked \/ OnItsWay(x) \/ InHand(x) => Untouched(x))'
    BY <2>1, ItemFacts DEF Session, AskInv, Untouched
  <2> QED BY <2>2, <2>3, <2>4 DEF Session, AskInv
<1>9. AskIsAnswerable'
  <2> SUFFICES ASSUME NEW id \in awaited'
               PROVE  \/ OnItsWay(id)' \/ InHand(id) \/ id \in pending \/ reply[id] = "taken"
                      \/ Holds(input, Item("answer", id))
    BY <1>1 DEF AskIsAnswerable, OnItsWay, InHand, Holds, replies
  <2> QED BY <1>1, <1>6 DEF Session, AskIsAnswerable, OnItsWay, InHand, Holds
<1> QED BY <1>7, <1>8, <1>9 DEF Session

LEMMA AgentKeeps ==
    ASSUME Session, Work \/ Finish \/ Die
    PROVE  Session'
<1>1. CASE Die
  <2>1. /\ agent' = "gone" /\ backlog' = 0 /\ awaited' = {} /\ input' = <<>>
        /\ UNCHANGED <<asked, output, reader, parsed, replies>>
    BY <1>1 DEF Die
  <2>2. input' \in Seq(Inputs)
    BY <2>1, EmptySeq
  <2> QED BY <2>1, <2>2 DEF Session, SessionTypeOK, AskInv, OnItsWay, InHand, Untouched,
     AskIsAnswerable, replies
<1>2. CASE Work \/ Finish
  <2>1. PICK kind \in {"work", "result"} : Says(kind, 0)
    BY <1>2 DEF Work, Finish
  <2>2. /\ agent' \in {"working", "idle"} /\ backlog' \in Nat
        /\ agent = "working"
        /\ UNCHANGED <<asked, awaited, input, reader, parsed, replies>>
    BY <1>2 DEF Work, Finish, NextTurn, agentVars, Session, SessionTypeOK
  <2>3. Item(kind, 0) \in Outputs
    BY StreamTurnsAssumption DEF Item, Outputs
  <2>4. /\ output' \in Seq(Outputs) /\ Distinct(output')
        /\ \A id : OnItsWay(id)' <=> OnItsWay(id)
    BY <2>1, <2>3, SaysFacts, ItemFacts DEF Session, SessionTypeOK, AskInv, OnItsWay
  <2>5. SessionTypeOK'
    BY <2>2, <2>4 DEF Session, SessionTypeOK, replies
  <2>6. AskInv'
    BY <2>2, <2>4 DEF Session, AskInv, InHand, Untouched, replies
  <2>7. AskIsAnswerable'
    <3>1. \A id : Holds(output, Item("ask", id)) => Holds(output', Item("ask", id))
      BY <2>4 DEF OnItsWay
    <3> QED BY <2>2, <3>1 DEF Session, AskIsAnswerable, Holds, replies
  <2> QED BY <2>5, <2>6, <2>7 DEF Session
<1> QED BY <1>1, <1>2

-----------------------------------------------------------------------------
LEMMA StreamInvariance == StreamSpec => []StreamInv
<1>1. StreamInv /\ [StreamNext]_streamVars => StreamInv'
  <2> SUFFICES ASSUME StreamInv, [StreamNext]_streamVars PROVE StreamInv'
    OBVIOUS
  <2>1. CASE UNCHANGED streamVars
    <3>1. Session'
      BY <2>1, IInvSession DEF streamVars, sessionVars, agentVars, pipes, replies, Session,
         SessionTypeOK, AskInv, OnItsWay, InHand, Untouched, AskIsAnswerable
    <3> QED BY <2>1, <3>1 DEF streamVars, qvars, queue, watcher, StreamInv, StreamTypeOK,
       TurnQueueTypeOK, QueueInv, Sound, Session, SessionTypeOK
  <2>2. CASE QueueNext
    BY <2>2, StreamQueueStepInv
  <2>3. CASE StreamSessionNext
    <3>1. Session'
      BY <2>3, IInvSession, SendsKeep, StopsKeep, RespondKeeps, AnswerKeeps, ResumeKeeps,
         ReadsKeep, ObeysKeeps, AskKeeps, AgentKeeps DEF StreamSessionNext, Replies
    <3> QED BY <2>3, <3>1, SessionQueue DEF StreamInv, StreamTypeOK, Session, SessionTypeOK
  <2> QED BY <2>1, <2>2, <2>3 DEF StreamNext, StreamSessionNext
<1> QED BY <1>1, StreamInitInv, PTL DEF StreamSpec

\* The state of a session with a long-lived agent, with its queue and its watcher, stays in its
\* types (stream_json.rs, queue.rs, watch_chat).
THEOREM StreamTypeCorrect == StreamSpec => []StreamTypeOK
BY StreamInvariance, PTL DEF StreamInv

\* Whatever is asked, answered, stopped and allowed at once, a request the agent waits for is never
\* out of reach of an answer (spawn_reader, respond_approval).
THEOREM NoRequestIsLost == StreamSpec => []AskIsAnswerable
BY StreamInvariance, PTL DEF StreamInv

\* However many viewports answer at a time, a request is answered once, and is not shown again
\* (respond_approval).
THEOREM OneAnswerEach == StreamSpec => []AnsweredOnce
<1>1. StreamInv => AnsweredOnce
  BY DEF StreamInv, AskInv, AnsweredOnce
<1> QED BY <1>1, StreamInvariance, PTL

\* The queue is as sound with this backend as with the other: order of writing, and nothing in it is
\* being sent (queue.rs, service.rs).
THEOREM StreamQueueIsSound == StreamSpec => []QueueSound
<1>1. StreamInv => QueueSound
  BY SoundMeans DEF StreamInv
<1> QED BY <1>1, StreamInvariance, PTL

-----------------------------------------------------------------------------
\* A step that leaves the queue alone and has something to tell the watcher, or leaves the status
\* and the calls alone too, leaves nothing behind that was not.
LEMMA SessionWatched ==
    ASSUME StreamInv, StreamSessionNext, Left'
    PROVE  Left
<1>1. UNCHANGED <<queue, watcher>>
  BY DEF StreamSessionNext, StreamSends, SendTurn, Working, Stops, StreamInterrupt, StreamSettle,
     Respond, Replies, Answer, Resume, Reads, Read, ReadWork, ReadResult, ReadAsk, Allow,
     Announce, ReadEnd, Obeys, TakeInput, TakeTurn, TakeInterrupt, TakeAnswer, Work, Ask, Finish,
     Die, qvars
<1>2. \/ unseen'
      \/ UNCHANGED <<status, unseen>> /\ call' = call
      \/ \E m \in Messages : SendTurn(m)
  BY DEF StreamSessionNext, StreamSends, SendTurn, Working, Stops, StreamInterrupt, StreamSettle,
     Respond, Replies, Answer, Resume, Reads, Read, ReadWork, ReadResult, TurnOver, ReadAsk,
     Allow, Announce, ReadEnd, Obeys, TakeInput, TakeTurn, TakeInterrupt, TakeAnswer, Work, Ask,
     Finish, Die, qvars, Signal
<1>3. \A m \in Messages : SendTurn(m) => call'[m] = "written"
  BY DEF SendTurn, StreamInv, StreamTypeOK
<1>4. UNCHANGED <<status, unseen>> /\ call' = call
  BY <1>2, <1>3 DEF Left
<1> QED BY <1>1, <1>4 DEF Left, queue, watcher

\* A message that is taken to be sent is one whose call is about to begin.
LEMMA QueueStepWatched ==
    ASSUME StreamInv, QueueNext, Left', ~Left
    PROVE  unseen /\ last = "idle" /\ ~unseen' /\ last' = "idle"
<1>1. /\ turns \in Seq(Messages) /\ said \in 0..MaxMessages /\ QueueInv
      /\ call \in [Messages -> {"none", "begin", "written", "done"}]
      /\ {paused, unseen, settling, checked} \subseteq BOOLEAN
  BY DEF StreamInv, StreamTypeOK, TurnQueueTypeOK
<1>2. ~(\E m \in Messages : call' = [call EXCEPT ![m] = "begin"])
  BY <1>1 DEF Left
<1>3. ~ChatTurn
  <2>1. ChatTurn => said' \in Messages
    BY <1>1, TurnQueueAssumption DEF ChatTurn, Messages
  <2> QED BY <1>2, <2>1 DEF ChatTurn
<1>4. ~ChatQueue
  <2>1. SUFFICES ASSUME ChatQueue PROVE FALSE
    OBVIOUS
  <2>2. said' \in Messages
    BY <1>1, <2>1, TurnQueueAssumption DEF ChatQueue, Messages
  <2>3. Append(turns, said') \in Seq(Messages) /\ Append(turns, said') # <<>>
    BY <1>1, <2>2
  <2>4. Head(Append(turns, said')) \in Messages
    BY <2>3
  <2> QED BY <1>2, <2>1, <2>4 DEF ChatQueue, Left
<1>5. ASSUME NEW i \in DOMAIN turns, NEW send \in BOOLEAN, ChatUnqueue(i, send) PROVE FALSE
  <2>1. turns[i] \in Messages
    BY <1>1, <1>5
  <2>2. ~send
    BY <1>2, <1>5, <2>1 DEF ChatUnqueue
  <2>3. turns # <<>> /\ paused' = PausedOf(turns', paused)
    BY <1>1, <1>5, <2>2 DEF ChatUnqueue
  <2>4. ~paused
    BY <2>3 DEF Left, PausedOf
  <2> QED BY <1>5, <2>2, <2>3, <2>4 DEF ChatUnqueue, Left, watcher
<1>6. ASSUME NEW p \in Presses, ChatInterrupt(p) PROVE FALSE
  BY <1>6 DEF ChatInterrupt, PausedByStop, Left
<1>7. ~Fire
  BY <1>1 DEF Fire, Left, queue
<1>8. ~TakeNext
  <2>1. SUFFICES ASSUME TakeNext PROVE FALSE
    OBVIOUS
  <2>2. CASE MayGo
    <3>1. Head(turns) \in Messages
      BY <1>1, <2>2 DEF MayGo
    <3> QED BY <1>2, <2>1, <2>2, <3>1 DEF TakeNext
  <2>3. CASE ~MayGo
    BY <2>1, <2>3 DEF TakeNext, MayGo, Left, PausedOf
  <2> QED BY <2>2, <2>3
<1>9. Observe
  BY <1>3, <1>4, <1>5, <1>6, <1>7, <1>8 DEF QueueNext, PersonNext, WatcherNext
<1> QED BY <1>9 DEF Observe, Armed, Left

\* Whatever crosses what, the queue is left behind only by a look of the watcher that finds the
\* session as idle as the look before: a turn went by between the two (watch_chat).
THEOREM QueueStaysWatched == StreamSpec => QueueIsWatched
<1>1. ASSUME StreamInv, [StreamNext]_streamVars, Left', ~Left
      PROVE  unseen /\ last = "idle" /\ ~unseen' /\ last' = "idle"
  <2>1. CASE UNCHANGED streamVars
    <3>1. UNCHANGED <<queue, status, unseen, watcher, call>>
      BY <2>1 DEF streamVars, qvars
    <3> QED BY <1>1, <3>1 DEF Left, queue, watcher
  <2>2. CASE QueueNext
    BY <1>1, <2>2, QueueStepWatched
  <2>3. CASE StreamSessionNext
    BY <1>1, <2>3, SessionWatched
  <2> QED BY <1>1, <2>1, <2>2, <2>3 DEF StreamNext, StreamSessionNext
<1>2. StreamInv /\ [StreamNext]_streamVars
      => [Left' /\ ~Left => unseen /\ last = "idle" /\ ~unseen' /\ last' = "idle"]_streamVars
  BY <1>1
<1> QED BY <1>2, StreamInvariance, PTL DEF StreamSpec, QueueIsWatched
=============================================================================
