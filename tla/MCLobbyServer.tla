---------------------------- MODULE MCLobbyServer ----------------------------
(***************************************************************************)
(* Instances of LobbyServer for TLC: a lobby of two seats, as many wallets *)
(* as seats, one oracle answer (target 500 ml) and pours that tie with a   *)
(* different result, hit the mark, or spill.                               *)
(***************************************************************************)
EXTENDS LobbyServer, TLC

MCOverflow == 65535
MCU64Max == 2000000
MCRandomness == { [ b \in 0 .. 2 |-> 0 ] }
MCOnePour == { 500 }
MCTiePours == { 480, 520 }

MCFirstDay == { 0 }
MCTwoDays == { 0, CANCEL_TIMEOUT_SECONDS }

Faults(crash, call, save) == [ kind \in {"crash", "call", "save"} |->
  CASE kind = "crash" -> crash [] kind = "call" -> call [] kind = "save" -> save ]

MCCrashCall == Faults(1, 1, 0)
MCCallSave == Faults(0, 1, 1)
MCNoFaults == Faults(0, 0, 0)

MCSymmetry == Permutations(Accounts) \cup Permutations(Conns)
=============================================================================
