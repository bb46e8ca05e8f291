---------------------------- MODULE SnapshotStore ----------------------------
(***************************************************************************)
(* What the server relies on when it calls save(): one value that survives *)
(* the process, replaced as a whole, by the snapshots in the order of the  *)
(* calls.  A save may fail; the process may die and take those not yet     *)
(* written with it.                                                        *)
(***************************************************************************)
EXTENDS Sequences

CONSTANTS
  Snapshots,
  Nothing     \* what is stored before the first save

VARIABLES
  saved,
  pending     \* saves asked for and not done

vars == << saved, pending >>

Init == saved = Nothing /\ pending = << >>

Ask(snapshot) == pending' = Append(pending, snapshot) /\ UNCHANGED saved

Done == pending # << >> /\ saved' = Head(pending) /\ pending' = Tail(pending)

Fails == pending # << >> /\ pending' = Tail(pending) /\ UNCHANGED saved

Dies == pending' = << >> /\ UNCHANGED saved

Next == (\E s \in Snapshots : Ask(s)) \/ Done \/ Fails \/ Dies

Spec == Init /\ [][Next]_vars
=============================================================================
