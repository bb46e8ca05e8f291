------------------------------ MODULE DemoRound -------------------------------
(***************************************************************************)
(* One lobby of the demo mode (CHAIN=mock) from the moment it is offered:  *)
(* guests and the bots that fill the free seats, pours and their timers,   *)
(* and the settlement the server computes by itself.  The mock chain       *)
(* answers within the same turn of the event loop, so the only thing a     *)
(* handler waits for is the store; an action is the code between two saves.*)
(***************************************************************************)
EXTENDS Integers, FiniteSets, SequencesExt

CONSTANTS
  Guests,
  BotNames,           \* BOT_NAMES, in order
  BotCount,           \* BOTS
  LobbySize,          \* LOBBY_SIZE
  EntryFee, FEE_BPS,
  TargetMl, PressureMilli,
  OverflowMs,         \* overflowTimeMs at this pressure
  Durations,          \* how long guests hold the tap, in ms
  BotErrors,          \* reaction errors of the bots, in ms
  OVERFLOW_SENTINEL,
  MaxCrashes,
  NoSettlement

Bots == Range(BotNames)
Wallets == Guests \cup Bots

\* With bots there are seats for all of them and a guest.
Size == Max({ LobbySize, IF BotCount > 0 THEN BotCount + 1 ELSE 1 })

ASSUME DemoNumbers ==
  /\ {EntryFee, TargetMl, OverflowMs, BotCount, MaxCrashes, OVERFLOW_SENTINEL} \subseteq Nat
  /\ FEE_BPS \in 0 .. 10000
  /\ LobbySize \in Nat \ {0} /\ PressureMilli \in Nat \ {0}
  /\ Durations \subseteq Nat /\ BotErrors \subseteq Int
  /\ BotNames \in Seq(Bots) \ {<< >>} /\ Guests \cap Bots = {}

VARIABLES
  lobby,     \* LobbyManager's record; while the process is down, the one it will load
  disk,      \* the record in lobbies.json
  saves,     \* snapshots in JsonStore's queue, with what their caller does next
  timers,    \* LobbyManager.timers: << kind, wallet >>
  pours,     \* PourSessionManager.active
  late,      \* players whose deadline has passed
  dayOver,   \* CANCEL_AFTER_S have passed
  up, crashes,
  verdicts   \* settlements the chain was called with

vars == << lobby, disk, saves, timers, pours, late, dayOver, up, crashes, verdicts >>
process == << up, crashes >>

PlayerRecord == [ wallet : Wallets, isBot : BOOLEAN, status : {"playing", "done"},
                  pouredMl : Nat, overflow : BOOLEAN, submissionIndex : Nat ]

Settlement == [ fee : Nat, payouts : Seq([ player : Wallets, lamports : Nat ]) ]

LobbyRecord == [ status : {"open", "settling", "settled", "cancelled"},
                 players : Seq(PlayerRecord),
                 settlement : Settlement \cup {NoSettlement} ]

ASSUME NotSettled == NoSettlement \notin Settlement

Timer == ({"play"} \X Wallets) \cup ({"bot join", "bot pour"} \X Bots)

OpenLobby == [ status |-> "open", players |-> << >>, settlement |-> NoSettlement ]

Init ==
  /\ lobby = OpenLobby /\ disk = OpenLobby /\ saves = << >>
  /\ timers = {} /\ pours = {} /\ late = {} /\ dayOver = FALSE
  /\ up = TRUE /\ crashes = 0 /\ verdicts = {}

-----------------------------------------------------------------------------
(* simulation.ts *)

BASE_RATE_ML_S == 520

simulatePour(durationMs) ==
  LET overflow == durationMs >= OverflowMs
      ms == IF overflow THEN OverflowMs ELSE durationMs
  IN [ pouredMl |-> (BASE_RATE_ML_S * PressureMilli * ms + 500000) \div 1000000,
       overflow |-> overflow ]

Nothing == [ pouredMl |-> 0, overflow |-> FALSE ]

\* The glass and the marks are far below the result that stands for an overflow.
ASSUME PoursFit ==
  TargetMl < OVERFLOW_SENTINEL /\ simulatePour(OverflowMs).pouredMl < OVERFLOW_SENTINEL

scoreOf(p) ==
  IF p.overflow \/ p.pouredMl = OVERFLOW_SENTINEL THEN OVERFLOW_SENTINEL
  ELSE IF p.pouredMl < TargetMl THEN TargetMl - p.pouredMl ELSE p.pouredMl - TargetMl

\* Mutant: the winners stay in the order of their seats.
computeWinnersBySeat(results) ==
  LET best == { scoreOf(results[i]) : i \in DOMAIN results }
  IN SelectSeq(results, LAMBDA p : scoreOf(p) = Min(best))

\* The k-th winner is the one with k - 1 winners recorded before him.
computeWinners(results) ==
  LET best == Min({ scoreOf(results[i]) : i \in DOMAIN results })
      won == { p \in Range(results) : scoreOf(p) = best }
      before(p) == { q \in won : q.submissionIndex < p.submissionIndex }
  IN [ k \in 1 .. Cardinality(won) |->
         CHOOSE p \in won : Cardinality(before(p)) = k - 1 ]

feeOf(pot) == (pot * FEE_BPS) \div 10000

splitPot(pot, winners) ==
  LET distributable == pot - feeOf(pot)
      share == distributable \div Len(winners)
      remainder == distributable - share * Len(winners)
  IN [ fee |-> feeOf(pot),
       payouts |-> [ k \in DOMAIN winners |->
                       [ player |-> winners[k].wallet,
                         lamports |-> IF k = 1 THEN share + remainder ELSE share ] ] ]

-----------------------------------------------------------------------------
(* Helpers *)

Players(r) == Range(r.players)
Seated(r) == { p.wallet : p \in Players(r) }
Playing(r) == { p.wallet : p \in { q \in Players(r) : q.status = "playing" } }
BotsIn(r) == { p \in Players(r) : p.isBot }
Full(r) == Len(r.players) >= Size
Complete(r) == Full(r) /\ Playing(r) = {}

SeatOf(r, wallet) == CHOOSE i \in DOMAIN r.players : r.players[i].wallet = wallet

SaveOf(record, next) == [ record |-> record, next |-> next ]
Persist(next) == saves' = Append(saves, SaveOf(lobby', next))

MayJoin(wallet) == up /\ lobby.status = "open" /\ ~ Full(lobby) /\ wallet \notin Seated(lobby)

\* A seat, its play timer, the save; fired is the timer that has just fired.
TakeSeat(wallet, fired) ==
  /\ lobby' = [ lobby EXCEPT !.players = Append(@,
                 [ wallet |-> wallet, isBot |-> wallet \in Bots, status |-> "playing",
                   pouredMl |-> 0, overflow |-> FALSE, submissionIndex |-> 0 ]) ]
  /\ timers' = (timers \ fired) \cup { << "play", wallet >> }
  /\ late' = late \ {wallet}
  /\ Persist(<< "joined", wallet >>)

\* Mutant: one bot too few.
OneBotShort(existing) == Min({ Size - Len(lobby.players), BotCount - existing }) - 1

ToAdd(existing) == Min({ Size - Len(lobby.players), BotCount - existing })

\* The timers scheduleBots adds: the next names of the list, once a guest sits.
scheduleBots ==
  LET existing == Cardinality(BotsIn(lobby))
  IN IF lobby.status # "open" \/ Players(lobby) = BotsIn(lobby) THEN {}
     ELSE { << "bot join", BotNames[((existing + i) % Len(BotNames)) + 1] >> :
              i \in 0 .. ToAdd(existing) - 1 }

MayRecord(wallet) == lobby.status = "open" /\ wallet \in Playing(lobby)

\* recordResult up to the save: the mock chain takes every report.
RecordResult(wallet, outcome, fired) ==
  IF MayRecord(wallet)
  THEN /\ lobby' = [ lobby EXCEPT !.players[SeatOf(lobby, wallet)] =
                       [ @ EXCEPT !.status = "done",
                                  !.pouredMl = outcome.pouredMl, !.overflow = outcome.overflow,
                                  !.submissionIndex = Len(lobby.players) - Cardinality(Playing(lobby)) ] ]
       /\ timers' = timers \ (fired \cup { << "play", wallet >> })
       /\ Persist(<< "recorded" >>)
  ELSE timers' = timers \ fired /\ UNCHANGED << lobby, saves >>

-----------------------------------------------------------------------------
(* Guests *)

Join(guest) ==
  /\ MayJoin(guest)
  /\ TakeSeat(guest, {})
  /\ UNCHANGED << disk, pours, dayOver, process, verdicts >>

\* A pour outlives its socket: ws.ts leaves it to the play timer.
PourStart(guest) ==
  /\ up /\ guest \in Playing(lobby) \ (late \cup pours)
  /\ pours' = pours \cup {guest}
  /\ UNCHANGED << lobby, disk, saves, timers, late, dayOver, process, verdicts >>

PourStop(guest, durationMs) ==
  /\ guest \in pours
  /\ pours' = pours \ {guest}
  /\ RecordResult(guest, simulatePour(durationMs), {})
  /\ UNCHANGED << disk, late, dayOver, process, verdicts >>

-----------------------------------------------------------------------------
(* Timers *)

\* A pour in progress is locked in, otherwise 0 ml.
AtDeadline(wallet) ==
  IF wallet \in pours
  THEN { simulatePour(d) : d \in Durations }
  ELSE { Nothing }

PlayTimeout(wallet) ==
  /\ << "play", wallet >> \in timers /\ wallet \in late
  /\ \E outcome \in AtDeadline(wallet) :
       RecordResult(wallet, outcome, { << "play", wallet >> })
  /\ pours' = IF MayRecord(wallet) THEN pours \ {wallet} ELSE pours
  /\ UNCHANGED << disk, late, dayOver, process, verdicts >>

\* Mutant: a bot that sits here already joins again.
BotMayJoinTwice(bot) == lobby.status = "open" /\ ~ Full(lobby)

BotMayJoin(bot) == MayJoin(bot)

\* botJoinAndPour; its timer may have been set twice, and the lobby be full.
BotJoin(bot) ==
  /\ << "bot join", bot >> \in timers
  /\ IF BotMayJoin(bot)
     THEN TakeSeat(bot, { << "bot join", bot >> })
     ELSE timers' = timers \ { << "bot join", bot >> } /\ UNCHANGED << lobby, late, saves >>
  /\ UNCHANGED << disk, pours, dayOver, process, verdicts >>

idealMs == (TargetMl * 1000000) \div (BASE_RATE_ML_S * PressureMilli)

BotPour(bot, error) ==
  /\ << "bot pour", bot >> \in timers
  /\ RecordResult(bot, simulatePour(Max({ 60, idealMs + error })), { << "bot pour", bot >> })
  /\ UNCHANGED << disk, pours, late, dayOver, process, verdicts >>

-----------------------------------------------------------------------------
(* The store, and what its callers do next *)

\* maybeSettle up to its save.
Settling(r) == IF r.status = "open" /\ Complete(r) THEN [ r EXCEPT !.status = "settling" ] ELSE r

Verdict(r) == splitPot(EntryFee * Len(r.players), computeWinners(r.players))

\* Mutant: the chain is called before the settling lobby is saved.
CallsChainEarly(next) == next = "recorded" /\ Complete(lobby)

CallsChain(next) == next = "settle"

\* What the code after the await makes of the record, and the saves it asks for.
Continued(next) ==
  CASE next = "recorded" -> Settling(lobby)
    [] next = "settle" -> [ lobby EXCEPT !.status = "settled", !.settlement = Verdict(lobby) ]
    [] next \in {"joined", "done"} -> lobby

SaveDone ==
  /\ saves # << >>
  /\ LET next == Head(saves).next IN
     /\ disk' = Head(saves).record
     /\ lobby' = Continued(next[1])
     /\ saves' = IF lobby' = lobby THEN Tail(saves)
                 ELSE Append(Tail(saves),
                        SaveOf(lobby', << IF next[1] = "recorded" THEN "settle" ELSE "done" >>))
     /\ timers' = IF next[1] # "joined" THEN timers
                  ELSE timers \cup scheduleBots \cup ({"bot pour"} \X ({next[2]} \cap Bots))
     /\ verdicts' = IF CallsChain(next[1]) THEN verdicts \cup { Verdict(lobby) } ELSE verdicts
  /\ UNCHANGED << pours, late, dayOver, process >>

-----------------------------------------------------------------------------
(* Cancellation, process death, the clock *)

Sweep ==
  /\ up /\ dayOver
  /\ lobby.status = "open" /\ ~ Complete(lobby)
  /\ lobby' = [ lobby EXCEPT !.status = "cancelled" ]
  /\ timers' = timers \ ({"play"} \X Seated(lobby))
  /\ Persist(<< "done" >>)
  /\ UNCHANGED << disk, pours, late, dayOver, process, verdicts >>

Crash ==
  /\ up /\ crashes < MaxCrashes
  /\ up' = FALSE /\ crashes' = crashes + 1
  /\ lobby' = disk /\ timers' = {} /\ pours' = {} /\ saves' = << >>
  /\ UNCHANGED << disk, late, dayOver, verdicts >>

Reopens == {"settling"}

Rearmed(r) == IF r.status = "open" THEN {"play"} \X Playing(r) ELSE {}

\* init: play timers are armed again, the bots' are not.
Boot ==
  /\ ~ up /\ up' = TRUE
  /\ LET loaded == IF disk.status \in Reopens THEN [ disk EXCEPT !.status = "open" ] ELSE disk
     IN /\ lobby' = Settling(loaded)
        /\ timers' = Rearmed(loaded)
        /\ saves' = IF lobby' = loaded THEN << >> ELSE << SaveOf(lobby', << "settle" >>) >>
  /\ UNCHANGED << disk, pours, late, dayOver, crashes, verdicts >>

\* Deadlines pass in the order of the seats.
DeadlinePasses ==
  /\ \E i \in DOMAIN lobby.players :
       /\ lobby.players[i].wallet \notin late
       /\ \A j \in 1 .. i - 1 : lobby.players[j].wallet \in late
       /\ late' = late \cup { lobby.players[i].wallet }
  /\ UNCHANGED << lobby, disk, saves, timers, pours, dayOver, process, verdicts >>

DayPasses ==
  /\ ~ dayOver /\ dayOver' = TRUE
  /\ UNCHANGED << lobby, disk, saves, timers, pours, late, process, verdicts >>

Next ==
  \/ \E g \in Guests : Join(g) \/ PourStart(g)
  \/ \E g \in Guests, d \in Durations : PourStop(g, d)
  \/ \E w \in Wallets : PlayTimeout(w)
  \/ \E b \in Bots : BotJoin(b)
  \/ \E b \in Bots, e \in BotErrors : BotPour(b, e)
  \/ SaveDone
  \/ Sweep \/ Crash \/ Boot
  \/ DeadlinePasses \/ DayPasses

Spec == Init /\ [][Next]_vars

\* Fairness: saves end, timers fire, time passes, the process is started again.
\* No guest has to do anything.
FairSpec ==
  /\ Spec
  /\ WF_vars(SaveDone) /\ WF_vars(Boot) /\ WF_vars(DeadlinePasses)
  /\ \A w \in Wallets : WF_vars(PlayTimeout(w))
  /\ \A b \in Bots : WF_vars(BotJoin(b)) /\ WF_vars(\E e \in BotErrors : BotPour(b, e))

-----------------------------------------------------------------------------
(* Properties *)

Records == { lobby, disk } \cup { saves[k].record : k \in DOMAIN saves }

\* Every variable holds what its TypeScript type can hold; exactly the settled
\* records carry a settlement.
TypeOK ==
  /\ Records \subseteq LobbyRecord
  /\ \A r \in Records : r.status = "settled" <=> r.settlement # NoSettlement
  /\ timers \subseteq Timer
  /\ pours \subseteq Guests /\ late \subseteq Wallets
  /\ {dayOver, up} \subseteq BOOLEAN /\ crashes \in 0 .. MaxCrashes
  /\ verdicts \subseteq Settlement

\* Bots never cost a guest a seat: nobody sits twice, there are at most BotCount
\* bots and Size players, and none of them sits without a guest, although bots
\* are scheduled again after every join and their timers fire in any order
\* (lobby.ts:306-334, config.ts:65-70).
SeatsFair ==
  \A r \in Records :
    /\ Cardinality(Seated(r)) = Len(r.players) /\ Len(r.players) =< Size
    /\ Cardinality(BotsIn(r)) =< BotCount
    /\ BotsIn(r) # {} => Players(r) # BotsIn(r)

Program == INSTANCE ZapfLobby WITH Accounts <- Wallets, U64_MAX <- 2 * OVERFLOW_SENTINEL

\* The lobby account the results would have made on the ledger.
Account(r) ==
  [ size |-> Len(r.players), entry_fee |-> EntryFee, target_ml |-> TargetMl,
    players |-> [ i \in DOMAIN r.players |->
      [ player |-> r.players[i].wallet, has_played |-> TRUE,
        poured_ml |-> IF r.players[i].overflow THEN OVERFLOW_SENTINEL ELSE r.players[i].pouredMl,
        submission_index |-> r.players[i].submissionIndex ] ] ]

Paid(s, wallet) ==
  LET won == { k \in DOMAIN s.payouts : s.payouts[k].player = wallet }
  IN IF won = {} THEN 0 ELSE s.payouts[CHOOSE k \in won : TRUE].lamports

\* The server's own copy of the winner, tie and remainder rules gives every
\* player and the operator what the program would (simulation.ts:4-8, 88-92).
SettlesAsProgram ==
  \A r \in Records : r.status = "settled" =>
    /\ r.settlement.fee = Program!FeeOf(Account(r), FEE_BPS)
    /\ \A w \in Wallets : Paid(r.settlement, w) = Program!Payout(Account(r), FEE_BPS, w)

\* A crash may make the server settle twice, but never differently: the results
\* a settlement was computed from are on disk before the chain is called, those
\* of players whose own save was still queued included (lobby.ts:434-456).
OneVerdict == Cardinality(verdicts) =< 1

\* With a bot for every other seat a guest always gets to the end of a round,
\* whether he pours or not, as long as the process lives (lobby.ts:293-294, 346).
GuestsFinish ==
  crashes = 0 /\ Seated(lobby) # {} ~> lobby.status \in {"settled", "cancelled"} \/ crashes > 0

\* lobby.ts:293: bots fill the free seats once a human is in.
BotsFillUp == Seated(disk) # {} /\ disk.status = "open" ~> Full(disk) \/ dayOver
=============================================================================
