----------------------------- MODULE ZapfProgram -----------------------------
(***************************************************************************)
(* The zapf_royale program on the ledger: its accounts and one action per  *)
(* instruction.  A transaction is atomic: an instruction that fails in any *)
(* require!, constraint or transfer changes nothing, so its action is not  *)
(* enabled.  The signer is a parameter of every instruction that checks it.*)
(***************************************************************************)
EXTENDS ZapfLobby, FiniteSetsExt

CONSTANTS
  Players,          \* accounts that join lobbies
  LobbyIds,         \* ids the server hands out
  Deployments,      \* argument sets of initialize, the first signer wins
  FeeBpsChoices,    \* arguments of set_fee
  Sizes,            \* sizes asked of create_lobby
  EntryFees,        \* entry fees asked of create_lobby
  Randomness,       \* outputs of the oracle
  Pours,            \* results the server reports
  AccountLists,     \* remaining_accounts of settle_lobby and cancel_lobby
  Instants,         \* values the unix clock takes
  InitialBalance,   \* lamports of every account before the program is used
  NotInitialized    \* the config account before initialize

Deployment == [ authority : Accounts, treasury : Accounts, result_authority : Accounts,
                fee_bps : Nat, allowed_entry_fees : Seq(0 .. U64_MAX) ]

ASSUME ProgramInputs ==
  /\ Players \subseteq Accounts
  /\ Deployments \subseteq Deployment
  /\ NotInitialized \notin Deployment
  /\ FeeBpsChoices \subseteq Nat
  /\ Sizes \subseteq Nat
  /\ EntryFees \subseteq 0 .. U64_MAX
  /\ Randomness \subseteq RandomBytes
  /\ Pours \subseteq 0 .. OVERFLOW_SENTINEL
  /\ Instants \subseteq Nat
  /\ 0 \in Instants
  /\ InitialBalance \in [ Accounts -> Nat ]

\* A public key has 32 bytes, a lobby id eight.
ASSUME FiniteLedger == IsFiniteSet(Accounts) /\ IsFiniteSet(LobbyIds)

MAX_ALLOWED_ENTRY_FEES == 8

VARIABLES
  config,    \* Config PDA
  stats,     \* GlobalStats PDA
  lobbies,   \* Lobby PDAs that exist
  vault,     \* lamports of each lobby's vault PDA
  balance,   \* lamports of the wallets
  clock      \* unix time of the cluster

vars == << config, stats, lobbies, vault, balance, clock >>

GlobalStats == [ total_games_settled : 0 .. U64_MAX,
                 total_volume_lamports : 0 .. U64_MAX,
                 total_fees_lamports : 0 .. U64_MAX ]

Init ==
  /\ config = NotInitialized
  /\ stats = [ total_games_settled |-> 0, total_volume_lamports |-> 0,
               total_fees_lamports |-> 0 ]
  /\ lobbies = [ id \in {} |-> {} ]
  /\ vault = [ id \in LobbyIds |-> 0 ]
  /\ balance = InitialBalance
  /\ clock = 0

Exists(id) == id \in DOMAIN lobbies

IsResultAuthority(signer) ==
  /\ config # NotInitialized
  /\ signer = config.result_authority

-----------------------------------------------------------------------------
(* Instructions *)

\* Mutant: the volume counts what was paid to the winners.
StatsOfPool(l, fee) ==
  [ total_games_settled |-> stats.total_games_settled + 1,
    total_volume_lamports |-> stats.total_volume_lamports + Pot(l) - fee,
    total_fees_lamports |-> stats.total_fees_lamports + fee ]

StatsAfter(l, fee) ==
  [ total_games_settled |-> stats.total_games_settled + 1,
    total_volume_lamports |-> stats.total_volume_lamports + Pot(l),
    total_fees_lamports |-> stats.total_fees_lamports + fee ]

Initialize(d) ==
  /\ config = NotInitialized
  /\ d.fee_bps =< MAX_FEE_BPS
  /\ Len(d.allowed_entry_fees) \in 1 .. MAX_ALLOWED_ENTRY_FEES
  /\ \A k \in DOMAIN d.allowed_entry_fees : d.allowed_entry_fees[k] > 0
  /\ config' = d
  /\ UNCHANGED << stats, lobbies, vault, balance, clock >>

SetFee(signer, fee_bps) ==
  /\ config # NotInitialized
  /\ signer = config.authority
  /\ fee_bps =< MAX_FEE_BPS
  /\ config' = [ config EXCEPT !.fee_bps = fee_bps ]
  /\ UNCHANGED << stats, lobbies, vault, balance, clock >>

CreateLobby(signer, id, size, entry_fee) ==
  /\ IsResultAuthority(signer)
  /\ ~ Exists(id)
  /\ size \in MIN_LOBBY_SIZE .. MAX_LOBBY_SIZE
  /\ \E k \in DOMAIN config.allowed_entry_fees : config.allowed_entry_fees[k] = entry_fee
  /\ lobbies' = [ i \in DOMAIN lobbies \cup {id} |->
                    IF i = id THEN NewLobby(size, entry_fee, clock) ELSE lobbies[i] ]
  /\ UNCHANGED << config, stats, vault, balance, clock >>

FulfillRound(id, bytes) ==
  /\ Exists(id)
  /\ CanFulfill(lobbies[id])
  /\ lobbies' = [ lobbies EXCEPT ![id] = Fulfilled(@, bytes) ]
  /\ UNCHANGED << config, stats, vault, balance, clock >>

JoinLobby(player, id) ==
  /\ Exists(id)
  /\ CanJoin(lobbies[id], player)
  /\ balance[player] >= lobbies[id].entry_fee
  /\ balance' = [ balance EXCEPT ![player] = @ - lobbies[id].entry_fee ]
  /\ vault' = [ vault EXCEPT ![id] = @ + lobbies[id].entry_fee ]
  /\ lobbies' = [ lobbies EXCEPT ![id] = Joined(@, player) ]
  /\ UNCHANGED << config, stats, clock >>

SubmitResult(signer, id, player, poured_ml) ==
  /\ IsResultAuthority(signer)
  /\ Exists(id)
  /\ CanSubmit(lobbies[id], player)
  /\ lobbies' = [ lobbies EXCEPT ![id] = Submitted(@, player, poured_ml) ]
  /\ UNCHANGED << config, stats, vault, balance, clock >>

\* What settle_lobby requires before it moves anything; every sum is checked.
StatsFit(id) == StatsAfter(lobbies[id], FeeOf(lobbies[id], config.fee_bps)) \in GlobalStats

MaySettle(signer, id, accts) ==
  /\ IsResultAuthority(signer)
  /\ Exists(id)
  /\ CanSettle(lobbies[id], accts)
  /\ vault[id] >= TotalPaid(lobbies[id], config.fee_bps)
  /\ StatsFit(id)

SettleLobby(signer, id, accts) ==
  /\ MaySettle(signer, id, accts)
  /\ LET l == lobbies[id]
         fee == FeeOf(l, config.fee_bps)
     IN /\ vault' = [ vault EXCEPT ![id] = @ - TotalPaid(l, config.fee_bps) ]
        /\ balance' = [ a \in Accounts |->
                          balance[a] + Payout(l, config.fee_bps, a)
                                     + (IF a = config.treasury THEN fee ELSE 0) ]
        /\ lobbies' = [ lobbies EXCEPT ![id] = Settled(@) ]
        /\ stats' = StatsAfter(l, fee)
  /\ UNCHANGED << config, clock >>

\* What cancel_lobby requires before it moves anything, of no signer.
MayCancel(id, accts) ==
  /\ Exists(id)
  /\ CanCancel(lobbies[id], clock, accts)
  /\ vault[id] >= TotalRefunded(lobbies[id])

CancelLobby(id, accts) ==
  /\ MayCancel(id, accts)
  /\ vault' = [ vault EXCEPT ![id] = @ - TotalRefunded(lobbies[id]) ]
  /\ balance' = [ a \in Accounts |-> balance[a] + Refund(lobbies[id], a) ]
  /\ lobbies' = [ lobbies EXCEPT ![id] = Cancelled(@) ]
  /\ UNCHANGED << config, stats, clock >>

\* The cluster's clock moves on to a later instant.
Tick ==
  /\ \E t \in Instants : t > clock /\ clock' = t
  /\ UNCHANGED << config, stats, lobbies, vault, balance >>

Next ==
  \/ \E d \in Deployments : Initialize(d)
  \/ \E a \in Accounts, f \in FeeBpsChoices : SetFee(a, f)
  \/ \E a \in Accounts, id \in LobbyIds, s \in Sizes, f \in EntryFees : CreateLobby(a, id, s, f)
  \/ \E id \in LobbyIds, r \in Randomness : FulfillRound(id, r)
  \/ \E p \in Players, id \in LobbyIds : JoinLobby(p, id)
  \/ \E a \in Accounts, id \in LobbyIds, p \in Players, ml \in Pours : SubmitResult(a, id, p, ml)
  \/ \E a \in Accounts, id \in LobbyIds, w \in AccountLists : SettleLobby(a, id, w)
  \/ \E id \in LobbyIds, w \in AccountLists : CancelLobby(id, w)
  \/ Tick

Spec == Init /\ [][Next]_vars

-----------------------------------------------------------------------------
(* Type invariant *)

\* Every account holds what its Rust type can hold.
TypeOK ==
  /\ config \in Deployment \cup {NotInitialized}
  /\ stats \in GlobalStats
  /\ DOMAIN lobbies \subseteq LobbyIds
  /\ lobbies \in [ DOMAIN lobbies -> Lobby ]
  /\ vault \in [ LobbyIds -> Nat ]
  /\ balance \in [ Accounts -> Nat ]
  /\ clock \in Nat

-----------------------------------------------------------------------------
(* Safety *)

\* A vault holds exactly the stakes of the players of a live lobby, and
\* nothing before the lobby exists or once it is settled or cancelled: the
\* claims of program/README.md that the vault pays out through settle_lobby
\* and cancel_lobby only and that it is empty afterwards.
VaultHoldsStakes ==
  \A id \in LobbyIds :
    vault[id] = IF Exists(id) /\ Live(lobbies[id])
                THEN lobbies[id].entry_fee * Len(lobbies[id].players)
                ELSE 0

\* No lamport is created or lost by any sequence of instructions.
LamportsConserved == SumFunction(balance) + SumFunction(vault) = SumFunction(InitialBalance)

\* Counters, seats and submission indices of every lobby agree (join_lobby,
\* submit_result).
RostersConsistent == \A id \in DOMAIN lobbies : RosterConsistent(lobbies[id])

\* GlobalStats reports the settled lobbies, all of them and nothing else, and
\* the fees it reports are what the treasuries have received.
SettledIds == { id \in DOMAIN lobbies : lobbies[id].status = "Settled" }
Treasuries == { d.treasury : d \in Deployments }

StatsMatchLedger ==
  /\ stats.total_games_settled = Cardinality(SettledIds)
  /\ stats.total_volume_lamports = SumFunction([ id \in SettledIds |-> Pot(lobbies[id]) ])
  /\ stats.total_fees_lamports =
       SumFunction([ a \in Treasuries |-> balance[a] - InitialBalance[a] ])

\* Stakes never get stuck, whatever happened before: a lobby whose players have
\* all been reported meets every condition of settle_lobby with the winners'
\* accounts in the order of the array, as long as the counters of GlobalStats
\* have room (its sums are checked too), and a live lobby past its 24 hours
\* meets every condition of cancel_lobby, whoever sends it.  The rest of the
\* two instructions assigns: they are enabled exactly where these hold.
Complete(l) == l.status = "Open" /\ l.played_count = l.size

StakesReleasable ==
  \A id \in DOMAIN lobbies :
    /\ Complete(lobbies[id]) /\ StatsFit(id) =>
         MaySettle(config.result_authority, id, WinnerKeys(lobbies[id]))
    /\ Live(lobbies[id]) /\ Expired(lobbies[id], clock) =>
         MayCancel(id, PlayerKeys(lobbies[id]))

-----------------------------------------------------------------------------
(* Action properties *)

\* Once someone has a stake in a lobby no instruction changes its terms, and a
\* lobby that has ended never changes at all.
StakedTermsFixed ==
  [][ \A id \in DOMAIN lobbies : id \in DOMAIN lobbies' /\ TermsKept(lobbies[id], lobbies'[id]) ]_vars

\* Settlement rewards the best pours, equally: every player whose balance grows
\* is at least as close to the target as every other player, an overflown
\* pour wins only where everybody overflowed, the winners' gains differ by at
\* most the indivisible rest, and that rest goes to the first reported of them.
\* Stated over the balances of the players, not over the code's computation.
Closeness(l, i) ==
  LET off == l.players[i].poured_ml - l.target_ml
  IN IF l.players[i].poured_ml = OVERFLOW_SENTINEL THEN << 1, 0 >> ELSE << 0, Max({off, -off}) >>

NoWorse(c, d) == c[1] < d[1] \/ (c[1] = d[1] /\ c[2] =< d[2])

RewardsBest(l, gain) ==
  \A i \in Seats(l) :
    LET best == \A j \in Seats(l) : NoWorse(Closeness(l, i), Closeness(l, j))
    IN /\ gain[i] > 0 <=> best
       /\ \A j \in Seats(l) :
            gain[i] > 0 /\ gain[j] > 0 =>
              /\ gain[i] - gain[j] < Len(l.players)
              /\ gain[i] > gain[j] =>
                   l.players[i].submission_index < l.players[j].submission_index

SettlementRewardsBest ==
  [][ \A id \in DOMAIN lobbies :
        lobbies[id].status = "Open" /\ lobbies'[id].status = "Settled" =>
          RewardsBest(lobbies[id],
                      [ i \in Seats(lobbies[id]) |->
                          balance'[lobbies[id].players[i].player]
                            - balance[lobbies[id].players[i].player] ]) ]_vars

-----------------------------------------------------------------------------
(* Refinement *)

\* The program implements an escrow of games: a live lobby's stakes are the
\* entry fees of its players, a terminal lobby is a closed game.
EscrowStake ==
  [ id \in LobbyIds |->
      [ a \in Accounts |->
          IF Exists(id) /\ Live(lobbies[id]) THEN Refund(lobbies[id], a) ELSE 0 ] ]

EscrowClosed == { id \in DOMAIN lobbies : ~ Live(lobbies[id]) }

Escrow == INSTANCE Escrow WITH
            Parties <- Accounts, House <- Treasuries, Games <- LobbyIds,
            Endowment <- InitialBalance,
            money <- balance, stake <- EscrowStake, closed <- EscrowClosed

ImplementsEscrow == Escrow!EscrowSpec

=============================================================================
