------------------------------- MODULE Escrow -------------------------------
(***************************************************************************)
(* What the program promises its players, without lobbies, rounds or       *)
(* instructions: an escrow of games.  A stake goes in once per player and  *)
(* game, all stakes of a game are equal, and a game is closed exactly once,*)
(* by giving every stake back or by awarding the whole pot to depositors   *)
(* of that game, less a commission of at most 10 % for the house.  No      *)
(* money moves in any other way.                                           *)
(***************************************************************************)
EXTENDS Integers, Functions

CONSTANTS
  Parties,         \* everybody who has an account
  House,           \* the accounts a commission may go to
  Games,
  Endowment        \* money of each party at the start

VARIABLES
  money,           \* [ Parties -> Nat ]
  stake,           \* [ Games -> [ Parties -> Nat ] ]
  closed           \* games that are over

escrowVars == << money, stake, closed >>

NoStakes == [ p \in Parties |-> 0 ]

EscrowInit ==
  /\ money = Endowment
  /\ stake = [ g \in Games |-> NoStakes ]
  /\ closed = {}

Depositors(g) == { p \in Parties : stake[g][p] > 0 }

Deposit(p, g) ==
  /\ g \notin closed
  /\ stake[g][p] = 0
  /\ LET amount == money[p] - money'[p]
     IN /\ amount > 0
        /\ \A q \in Depositors(g) : stake[g][q] = amount
        /\ money' = [ money EXCEPT ![p] = @ - amount ]
        /\ stake' = [ stake EXCEPT ![g][p] = amount ]
  /\ money'[p] >= 0
  /\ UNCHANGED closed

Close(g) ==
  /\ g \notin closed
  /\ closed' = closed \cup {g}
  /\ stake' = [ stake EXCEPT ![g] = NoStakes ]

GiveBack(g) ==
  /\ Close(g)
  /\ money' = [ p \in Parties |-> money[p] + stake[g][p] ]

Award(g) ==
  /\ Close(g)
  /\ Depositors(g) # {}
  /\ LET gain == [ p \in Parties |-> money'[p] - money[p] ]
         pot == SumFunction(stake[g])
     IN /\ DOMAIN money' = Parties
        /\ \A p \in Parties : gain[p] >= 0
        /\ \A p \in Parties \ House : gain[p] > 0 => p \in Depositors(g)
        /\ SumFunction(gain) = pot
        /\ 10 * SumFunctionOnSet(gain, House) =< pot

EscrowNext ==
  \/ \E p \in Parties, g \in Games : Deposit(p, g)
  \/ \E g \in Games : GiveBack(g) \/ Award(g)

EscrowSpec == EscrowInit /\ [][EscrowNext]_escrowVars
=============================================================================
