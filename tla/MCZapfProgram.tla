---------------------------- MODULE MCZapfProgram ----------------------------
(***************************************************************************)
(* Instances of ZapfProgram for TLC.  The clock takes the boundary values  *)
(* of the 24-hour timeout, the oracle hits the first and the second target *)
(* line, and the pours lie symmetrically around the first (a tie with a    *)
(* different result), on it, and over the rim.  The entry fee leaves a     *)
(* remainder for two winners, of two seats and of three.                   *)
(***************************************************************************)
EXTENDS ZapfProgram, TLC

CONSTANTS admin, server, treasury

MCAccounts == Players \cup { admin, server, treasury }

MCOverflow == 65535
MCU64Max == 2000000

Deploy(fee_bps, fees) ==
  [ authority |-> admin, treasury |-> treasury, result_authority |-> server,
    fee_bps |-> fee_bps, allowed_entry_fees |-> fees ]

MCDeployments == { Deploy(400, << 117 >>), Deploy(1001, << 117 >>), Deploy(400, << >>) }
MCFeeBps == { 1000, 1001 }
MCEntryFees == { 100, 117 }
MCPours == { 480, 520, MCOverflow }
MCPoursTwo == { 500, MCOverflow }
Bytes(b0, b1, b2) == [ b \in 0 .. 2 |-> << b0, b1, b2 >>[b + 1] ]
MCRandomness == { Bytes(3, 0, 0), Bytes(4, 255, 255) }
MCOneRandomness == { Bytes(0, 7, 3) }
MCInstants == { 0, 1, CANCEL_TIMEOUT_SECONDS, CANCEL_TIMEOUT_SECONDS + 1 }
MCBalance == [ a \in MCAccounts |-> IF a \in Players THEN 250 ELSE 0 ]

\* Every list of distinct players, in every order.
MCAccountLists ==
  UNION { { s \in [ 1 .. n -> Players ] : \A i, j \in 1 .. n : s[i] = s[j] => i = j }
          : n \in 0 .. Cardinality(Players) }

PlayerSymmetry == Permutations(Players)
=============================================================================
