------------------------------ MODULE Driving ------------------------------
(***************************************************************************)
(* What control of the terminals promises to people, with the connections  *)
(* left out.  A party is whoever can hold a keyboard: one paired device,   *)
(* by however many routes it is connected, or one viewport on the computer *)
(* itself.  At most one party drives.  While it stays it keeps driving,    *)
(* until another takes control or a device that dropped off while driving  *)
(* comes back for it.  Control (module Control) implements this with       *)
(* several links per device and calls that interleave.                     *)
(***************************************************************************)
CONSTANTS Devices,      \* the paired devices
          LocalViews,   \* the viewports on the computer itself
          None          \* nobody

Parties == Devices \cup LocalViews

VARIABLES present,      \* the parties with at least one viewport attached
          driver,       \* the party in control, None while nobody is attached
          owed          \* the device that gets control back when it returns

dvars == <<present, driver, owed>>

-----------------------------------------------------------------------------
DInit ==
    /\ present = {}
    /\ driver = None
    /\ owed = None

\* A party attaches; it drives only if nobody did.
Join(p) ==
    /\ p \notin present
    /\ present' = present \cup {p}
    /\ driver' = IF driver = None THEN p ELSE driver
    /\ UNCHANGED owed

\* A party that was not driving goes: nothing else changes.
Withdraw(p) ==
    /\ p \in present
    /\ driver # p
    /\ present' = present \ {p}
    /\ UNCHANGED <<driver, owed>>

\* The driver goes: someone still there stands in, and a device is owed its return.
Drop(p) ==
    /\ driver = p
    /\ p \in present
    /\ present' = present \ {p}
    /\ IF present' = {} THEN driver' = None ELSE driver' \in present'
    /\ owed' = IF p \in Devices THEN p ELSE owed

\* The device that is owed control is back and has spoken.
GiveBack(p) ==
    /\ owed = p
    /\ p \in present
    /\ driver' = p
    /\ owed' = None
    /\ UNCHANGED present

\* A party presses Take control.
Take(p) ==
    /\ p \in present
    /\ driver' = p
    /\ UNCHANGED <<present, owed>>

\* Someone drove or claimed control: nothing is owed any more.
Settle ==
    /\ present # {}
    /\ owed # None
    /\ owed' = None
    /\ UNCHANGED <<present, driver>>

DNext ==
    \/ \E p \in Parties : Join(p) \/ Withdraw(p) \/ Drop(p) \/ Take(p)
    \/ \E p \in Devices : GiveBack(p)
    \/ Settle

DSpec == DInit /\ [][DNext]_dvars
=============================================================================
