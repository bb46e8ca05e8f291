------------------------------ MODULE ZapfLobby ------------------------------
(***************************************************************************)
(* One lobby account of the zapf_royale program, as a value: what each     *)
(* instruction requires of a lobby and what it makes of it.  The operators *)
(* have no state of their own; ZapfProgram applies them to the accounts of *)
(* the ledger, LobbyServer to the one lobby a server instance talks to.    *)
(***************************************************************************)
EXTENDS Integers, Sequences, FiniteSets

CONSTANTS
  Accounts,           \* public keys
  OVERFLOW_SENTINEL,  \* u32::MAX in the code, the largest reportable result
  U64_MAX             \* u64::MAX in the code: bound of every checked sum

ASSUME LobbyNumbers ==
  /\ OVERFLOW_SENTINEL \in Nat
  /\ U64_MAX \in Nat
  /\ OVERFLOW_SENTINEL < U64_MAX
  /\ 1500 < OVERFLOW_SENTINEL  \* no target line reads as an overflow

MIN_LOBBY_SIZE == 2
MAX_LOBBY_SIZE == 10
MAX_FEE_BPS == 1000
BPS_DENOMINATOR == 10000
CANCEL_TIMEOUT_SECONDS == 86400
TARGETS_ML == << 500, 1000, 1500 >>
PRESSURE_MIN_MILLI == 800
PRESSURE_SPAN_MILLI == 500

-----------------------------------------------------------------------------
(* Account layout *)

LobbyStatus == { "AwaitingRandomness", "Open", "Settled", "Cancelled" }

PlayerEntry == [ player : Accounts,
                 poured_ml : 0 .. OVERFLOW_SENTINEL,
                 has_played : BOOLEAN,
                 submission_index : Nat ]

\* The three bytes of the VRF output that decide the round.
RandomBytes == [ 0 .. 2 -> 0 .. 255 ]
NoRandomness == [ b \in 0 .. 2 |-> 0 ]

\* 0 until the round is known.
TargetLines == {0, 500, 1000, 1500}

Lobby == [ size : MIN_LOBBY_SIZE .. MAX_LOBBY_SIZE,
           entry_fee : 0 .. U64_MAX,
           status : LobbyStatus,
           randomness : RandomBytes,
           target_ml : TargetLines,
           pressure_milli : Nat,
           created_at : Nat,
           players : Seq(PlayerEntry),
           joined_count : Nat,
           played_count : Nat ]

Live(l) == l.status \in { "AwaitingRandomness", "Open" }

Seats(l) == DOMAIN l.players

contains_player(l, key) == \E i \in Seats(l) : l.players[i].player = key

PlayerKeys(l) == [ i \in Seats(l) |-> l.players[i].player ]

-----------------------------------------------------------------------------
(* create_lobby and the VRF callback *)

NewLobby(size, entry_fee, now) ==
  [ size |-> size, entry_fee |-> entry_fee, status |-> "AwaitingRandomness",
    randomness |-> NoRandomness, target_ml |-> 0, pressure_milli |-> 0,
    created_at |-> now, players |-> << >>, joined_count |-> 0, played_count |-> 0 ]

\* Mutant: the modulus is one too large.
TargetOfFour(bytes) == 500 * ((bytes[0] % (Len(TARGETS_ML) + 1)) + 1)

TargetOf(bytes) == TARGETS_ML[(bytes[0] % Len(TARGETS_ML)) + 1]

PressureOf(bytes) ==
  PRESSURE_MIN_MILLI + ((bytes[1] + 256 * bytes[2]) * PRESSURE_SPAN_MILLI) \div 65535

\* Mutant: a second callback rolls the round again.
CanFulfillAgain(l) == Live(l)

CanFulfill(l) == l.status = "AwaitingRandomness"

Fulfilled(l, bytes) ==
  [ l EXCEPT !.randomness = bytes, !.target_ml = TargetOf(bytes),
             !.pressure_milli = PressureOf(bytes), !.status = "Open" ]

-----------------------------------------------------------------------------
(* join_lobby and submit_result *)

\* Mutant: a player may take a second seat.
CanJoinTwice(l, key) == l.status = "Open" /\ l.joined_count < l.size

CanJoin(l, key) ==
  /\ l.status = "Open"
  /\ l.joined_count < l.size
  /\ ~ contains_player(l, key)
  /\ l.entry_fee * (l.joined_count + 1) =< U64_MAX  \* pot_after is checked

Joined(l, key) ==
  [ l EXCEPT !.players = Append(@, [ player |-> key, poured_ml |-> 0,
                                     has_played |-> FALSE, submission_index |-> 0 ]),
             !.joined_count = @ + 1 ]

\* Mutant: a second report overwrites the first.
CanSubmitAgain(l, key) == l.status = "Open" /\ contains_player(l, key)

CanSubmit(l, key) ==
  /\ l.status = "Open"
  /\ \E i \in Seats(l) : l.players[i].player = key /\ ~ l.players[i].has_played

Reported(entry, ml, index) ==
  [ entry EXCEPT !.has_played = TRUE, !.poured_ml = ml, !.submission_index = index ]

Submitted(l, key, ml) ==
  [ l EXCEPT !.players = [ i \in Seats(l) |->
                 IF l.players[i].player = key
                 THEN Reported(l.players[i], ml, l.played_count)
                 ELSE l.players[i] ],
             !.played_count = @ + 1 ]

-----------------------------------------------------------------------------
(* settle_lobby: winners and the split of the pot *)

Score(l, i) ==
  LET ml == l.players[i].poured_ml
  IN IF ml = OVERFLOW_SENTINEL THEN U64_MAX
     ELSE IF ml < l.target_ml THEN l.target_ml - ml ELSE ml - l.target_ml

WinnerIndices(l) == { i \in Seats(l) : \A j \in Seats(l) : Score(l, i) =< Score(l, j) }

\* remaining_accounts the program accepts: the winners in the order of the array.
WinnerKeys(l) ==
  LET best(e) == \E i \in WinnerIndices(l) : l.players[i].player = e.player
      won == SelectSeq(l.players, best)
  IN [ k \in DOMAIN won |-> won[k].player ]

Pot(l) == l.entry_fee * l.size
FeeOf(l, fee_bps) == (Pot(l) * fee_bps) \div BPS_DENOMINATOR
Pool(l, fee_bps) == Pot(l) - FeeOf(l, fee_bps)
Share(l, fee_bps) == Pool(l, fee_bps) \div Cardinality(WinnerIndices(l))
Remainder(l, fee_bps) == Pool(l, fee_bps) % Cardinality(WinnerIndices(l))

\* Mutant: the remainder goes to the first winner of the array.
FirstWinner(l) == CHOOSE i \in WinnerIndices(l) : \A j \in WinnerIndices(l) : i =< j

\* The winner whose result was reported first also gets the remainder.
RemainderWinner(l) ==
  CHOOSE i \in WinnerIndices(l) :
    \A j \in WinnerIndices(l) :
      l.players[i].submission_index =< l.players[j].submission_index

\* Mutant: the shares are cut from the pot before the fee.
PayoutOfPot(l, fee_bps, key) ==
  IF \E i \in WinnerIndices(l) : l.players[i].player = key
  THEN Pot(l) \div Cardinality(WinnerIndices(l))
  ELSE 0

\* What settlement pays the account with this key out of the vault.
Payout(l, fee_bps, key) ==
  LET won == { i \in WinnerIndices(l) : l.players[i].player = key }
  IN IF won = {} THEN 0
     ELSE Share(l, fee_bps) + (IF RemainderWinner(l) \in won THEN Remainder(l, fee_bps) ELSE 0)

\* Mutant: the remainder stays in the vault.
TotalPaidRounded(l, fee_bps) ==
  Cardinality(WinnerIndices(l)) * Share(l, fee_bps) + FeeOf(l, fee_bps)

\* What settlement pays out of the vault altogether.
TotalPaid(l, fee_bps) ==
  Cardinality(WinnerIndices(l)) * Share(l, fee_bps) + Remainder(l, fee_bps) + FeeOf(l, fee_bps)

\* Mutant: the accounts handed in are not compared with the winners.
CanSettleAnyAccounts(l, accts) ==
  l.status = "Open" /\ l.joined_count = l.size /\ l.played_count = l.size

CanSettle(l, accts) ==
  /\ l.status = "Open"
  /\ l.joined_count = l.size
  /\ l.played_count = l.size
  /\ Pot(l) =< U64_MAX
  /\ accts = WinnerKeys(l)

Settled(l) == [ l EXCEPT !.status = "Settled" ]

-----------------------------------------------------------------------------
(* cancel_lobby *)

Expired(l, now) == now >= l.created_at + CANCEL_TIMEOUT_SECONDS

\* Mutant: a full lobby cannot be cancelled.
CanCancelUnfilled(l, now, accts) ==
  Live(l) /\ Expired(l, now) /\ accts = PlayerKeys(l) /\ l.joined_count < l.size

CanCancel(l, now, accts) ==
  /\ Live(l)
  /\ Expired(l, now)
  /\ accts = PlayerKeys(l)

\* What a cancellation pays out of the vault: the fee, to each account handed in.
TotalRefunded(l) == l.entry_fee * Len(l.players)

Refund(l, key) == IF contains_player(l, key) THEN l.entry_fee ELSE 0

Cancelled(l) == [ l EXCEPT !.status = "Cancelled" ]

-----------------------------------------------------------------------------
(* What is sound about a lobby, and about what becomes of it *)

\* The counters of the roster agree with the array they count, nobody sits in
\* a lobby whose round is unknown, keys are distinct, and the submission
\* indices of the reported results number them 0, 1, 2, ... without a gap or a
\* repetition: the remainder of a tie has one owner (join_lobby, submit_result).
Played(l) == { i \in Seats(l) : l.players[i].has_played }

RosterConsistent(l) ==
  /\ l.joined_count = Len(l.players)
  /\ l.joined_count =< l.size
  /\ l.status = "AwaitingRandomness" => l.players = << >>
  /\ \A i, j \in Seats(l) : l.players[i].player = l.players[j].player => i = j
  /\ { l.players[i].submission_index : i \in Played(l) } = 0 .. l.played_count - 1
  /\ Cardinality(Played(l)) = l.played_count

\* Once someone has a stake in a lobby its terms are fixed: size, fee, round
\* and creation time stay, seats are only added at the end, and a reported
\* result is never changed.  A settled or cancelled lobby never changes at all.
TermsKept(l, m) ==
  /\ << m.size, m.entry_fee, m.created_at >> = << l.size, l.entry_fee, l.created_at >>
  /\ l.players # << >> =>
       << m.randomness, m.target_ml, m.pressure_milli >>
         = << l.randomness, l.target_ml, l.pressure_milli >>
  /\ Len(m.players) >= Len(l.players)
  /\ \A i \in Seats(l) :
       /\ m.players[i].player = l.players[i].player
       /\ l.players[i].has_played => m.players[i] = l.players[i]
  /\ ~ Live(l) => m = l
=============================================================================
