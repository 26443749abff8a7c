----------------------------- MODULE ExecTurns -----------------------------
(***************************************************************************)
(* A chat session that runs one process per turn (sessions/exec_chat.rs),  *)
(* with its queue.  Sending a message starts a process, keeps it in        *)
(* `child` for a stop to kill, follows what it prints to the end, and lets *)
(* go of it.  A process that `child` lets go of is killed (kill_on_drop).  *)
(* Calls of several messages may be under way at once.                     *)
(***************************************************************************)
EXTENDS TurnQueue

VARIABLES
    process,    \* of each message's turn: "none", "running", "exited" or "killed"
    heard,      \* what of its output has been followed: "nothing", "started" or "completed"
    child       \* the message whose process is kept, 0 if none

execVars == <<qvars, process, heard, child>>

Calls == {"none", "begin", "launch", "keep", "follow", "clear", "done"}

ExecTypeOK ==
    /\ TurnQueueTypeOK
    /\ call \in [Messages -> Calls]
    /\ stop \in [Presses -> {"none", "begin", "settle", "done"}]
    /\ process \in [Messages -> {"none", "running", "exited", "killed"}]
    /\ heard \in [Messages -> {"nothing", "started", "completed"}]
    /\ child \in 0..MaxMessages

ExecInit ==
    /\ TurnQueueInit
    /\ process = [m \in Messages |-> "none"]
    /\ heard = [m \in Messages |-> "nothing"]
    /\ child = 0

Goto(m, stage) == call' = [call EXCEPT ![m] = stage]

\* The processes once the one that is kept is killed; one that is over stays as it is.
Killed == [m \in Messages |->
              IF m = child /\ process[m] = "running" THEN "killed" ELSE process[m]]

-----------------------------------------------------------------------------
\* send_turn: the session is at work.
Begin(m) ==
    /\ call[m] = "begin"
    /\ Signal("thinking")
    /\ Goto(m, "launch")
    /\ UNCHANGED <<queue, watcher, stop, process, heard, child>>

\* A slip: a turn that cannot start leaves the session at work.
StillThinking == UNCHANGED <<status, unseen>>

\* A slip: it is reported as a status that chats do not have.
Blocked == Signal("blocked")

\* What a turn that cannot start leaves the session as.
NotStarted == Signal("idle")

\* The process is started, or cannot be.
Launch(m) ==
    /\ call[m] = "launch"
    /\ \/ /\ process' = [process EXCEPT ![m] = "running"]
          /\ Goto(m, "keep")
          /\ UNCHANGED <<status, unseen>>
       \/ /\ NotStarted
          /\ Goto(m, "done")
          /\ UNCHANGED process
    /\ UNCHANGED <<queue, watcher, stop, heard, child>>

\* It is kept, in place of any other.
Keep(m) ==
    /\ call[m] = "keep"
    /\ process' = Killed
    /\ child' = m
    /\ Goto(m, "follow")
    /\ UNCHANGED <<queue, status, unseen, watcher, stop, heard>>

\* Lines it printed: the turn started, the turn is complete.
Follow(m) ==
    /\ call[m] = "follow"
    /\ \/ /\ heard[m] = "nothing"
          /\ heard' = [heard EXCEPT ![m] = "started"]
          /\ Signal("thinking")
       \/ /\ heard[m] = "started"
          /\ heard' = [heard EXCEPT ![m] = "completed"]
          /\ Signal("idle")
    /\ UNCHANGED <<queue, watcher, call, stop, process, child>>

\* Its output ends: the turn is over, however it ended.
Ended(m) ==
    /\ call[m] = "follow"
    /\ process[m] \in {"exited", "killed"}
    /\ Signal("idle")
    /\ Goto(m, "clear")
    /\ UNCHANGED <<queue, watcher, stop, process, heard, child>>

\* A slip: the process that is kept stays.
KeptChild == child

\* What is kept once a turn is over.
NoChild == 0

\* What is kept is let go of.
Clear(m) ==
    /\ call[m] = "clear"
    /\ process' = Killed
    /\ child' = NoChild
    /\ Goto(m, "done")
    /\ UNCHANGED <<queue, status, unseen, watcher, stop, heard>>

\* interrupt: the process that is kept is killed ...
ExecInterrupt(p) ==
    /\ stop[p] = "begin"
    /\ process' = Killed
    /\ stop' = [stop EXCEPT ![p] = "settle"]
    /\ UNCHANGED <<queue, status, unseen, watcher, call, heard, child>>

\* ... and the session settles.
ExecSettle(p) ==
    /\ stop[p] = "settle"
    /\ Signal("idle")
    /\ stop' = [stop EXCEPT ![p] = "done"]
    /\ UNCHANGED <<queue, watcher, call, process, heard, child>>

\* A process ends by itself, its turn complete or not.
Exit(m) ==
    /\ process[m] = "running"
    /\ process' = [process EXCEPT ![m] = "exited"]
    /\ UNCHANGED <<qvars, heard, child>>

-----------------------------------------------------------------------------
\* What the task that sends m goes on to do.
ExecSends(m) == Begin(m) \/ Launch(m) \/ Keep(m) \/ Follow(m) \/ Ended(m) \/ Clear(m)

ExecSessionNext ==
    \/ \E m \in Messages : ExecSends(m) \/ Exit(m)
    \/ \E p \in Presses : ExecInterrupt(p) \/ ExecSettle(p)

ExecNext ==
    \/ (PersonNext \/ WatcherNext) /\ UNCHANGED <<process, heard, child>>
    \/ ExecSessionNext

ExecSpec == ExecInit /\ [][ExecNext]_execVars

\* The runtime goes on running the watcher and the tasks of a session, and an agent finishes its
\* turn sooner or later.
ExecFairness ==
    /\ WF_execVars(WatcherNext /\ UNCHANGED <<process, heard, child>>)
    /\ \A m \in Messages : WF_execVars(ExecSends(m)) /\ WF_execVars(Exit(m))
    /\ \A p \in Presses : WF_execVars(ExecInterrupt(p) \/ ExecSettle(p))

PromptSpec == ExecInit /\ [][ExecNext /\ Prompt]_execVars /\ ExecFairness

-----------------------------------------------------------------------------
\* Once nothing is under way the session is idle, however many turns ran into each other and
\* wherever a stop or a failed start came between (send_turn, interrupt).
SettledWhenQuiet == Quiet => status = "idle"

\* What a stop would kill belongs to a turn that is still being followed, and a message that has
\* been dealt with has left nothing running (Keep, Clear).
KeptWhileFollowed ==
    /\ child # 0 => call[child] \in {"follow", "clear"}
    /\ \A m \in Messages : process[m] = "running" => call[m] \in {"keep", "follow"}

\* "Each goes out as the next turn once the running one ends": a message that is queued leaves the
\* queue, or the queue is held.  It does not hold however prompt the watcher is (PromptSpec).
EachGoesOut == \A m \in Messages : m \in Held ~> (m \notin Held \/ paused)

\* "Sent at once, which steers the turn.  Neither interrupts it": nothing but a stop kills a turn.
\* It does not hold (README).
OnlyStopKills ==
    (\E m \in Messages : process[m] = "killed") => \E p \in Presses : stop[p] # "none"
=============================================================================
