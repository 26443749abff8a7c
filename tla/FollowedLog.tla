---------------------------- MODULE FollowedLog ----------------------------
(***************************************************************************)
(* What following a transcript promises the person who reads it, with      *)
(* queues, reconnects and re-attaching left out.                           *)
(*                                                                         *)
(* The transcript grows at its end, and may start over as a new run.  The  *)
(* reader holds a contiguous piece of one run that ends at its cursor.     *)
(* Within a run it never goes back, and it never returns to an older run.  *)
(***************************************************************************)
EXTENDS Naturals, Sequences

CONSTANT None           \* no cursor: the reader has never attached

VARIABLES log,          \* log[r]: how many events run r has; the last run is the current one
          held,         \* the events the reader shows, in order
          cursor        \* the run it shows, and the place of the last event it was sent

fvars == <<log, held, cursor>>

\* Events a to b of a run, as <<run, place>>.
Span(run, a, b) == [i \in 1..(b + 1 - a) |-> <<run, a + i - 1>>]

\* A contiguous piece that ends at the cursor.
Contiguous ==
    cursor # None =>
        /\ Len(held) <= cursor.seq
        /\ held = Span(cursor.log, cursor.seq + 1 - Len(held), cursor.seq)

-----------------------------------------------------------------------------
FInit ==
    /\ log = <<0>>
    /\ held = <<>>
    /\ cursor = None

Grow ==
    /\ log' = [log EXCEPT ![Len(log)] = @ + 1]
    /\ UNCHANGED <<held, cursor>>

NewRun ==
    /\ Len(log') = Len(log) + 1
    /\ \A r \in 1..Len(log) : log'[r] = log[r]
    /\ UNCHANGED <<held, cursor>>

\* The reader is told to start over, at a place no earlier than where it was.
StartOver ==
    \E run \in 1..Len(log) : \E seq \in 0..log[run] :
        /\ cursor = None \/ run > cursor.log \/ (run = cursor.log /\ seq >= cursor.seq)
        /\ cursor' = [log |-> run, seq |-> seq]
        /\ held' = <<>>
        /\ UNCHANGED log

\* The page it starts over with.
Fill ==
    /\ cursor # None
    /\ held = <<>>
    /\ \E a \in 1..cursor.seq : held' = Span(cursor.log, a, cursor.seq)
    /\ UNCHANGED <<log, cursor>>

\* It is sent what comes next.
Extend ==
    /\ cursor # None
    /\ \E b \in (cursor.seq + 1)..log[cursor.log] :
        /\ held' = held \o Span(cursor.log, cursor.seq + 1, b)
        /\ cursor' = [cursor EXCEPT !.seq = b]
    /\ UNCHANGED log

FNext == Grow \/ NewRun \/ StartOver \/ Fill \/ Extend

FSpec == FInit /\ [][FNext]_fvars
=============================================================================
