# Zapf Royale in TLA+

A verification project for the code under `src/`: a Solana program that holds
the stakes of small pouring games (lobbies), and a Node server that runs the
games and is the only one who may report results and settle. The modules follow
the code; the documents are only quoted where the code disagrees with them.

## 1. The system

| Part | Keeps | Operations | Talks to |
| --- | --- | --- | --- |
| **Program** `program/programs/zapf-royale` | `Config`, `GlobalStats`, one `Lobby` and one vault per game | `initialize`, `set_fee`, `create_lobby`, `fulfill_round`, `join_lobby`, `submit_result`, `settle_lobby`, `cancel_lobby` | wallets, the VRF program |
| **VRF oracle** (external) | pending requests | one callback `fulfill_round` per lobby, or none | program |
| **LobbyManager** `server/src/game/lobby.ts` | a map of `LobbyRecord`s, play timers | `createLobby`, `awaitFulfillment`, `confirmJoin`, `submitPour`/`recordResult`, `maybeSettle`, `cancelIfExpired`, `handleTimeout`, `init` | chain client, store, pour sessions, gateway |
| **Pour sessions** `pourSession.ts` | active pours | `start`, `stop`, `finalizeActive` | LobbyManager |
| **Simulation, fairness** `simulation.ts`, `fairness.ts` | nothing | `simulatePour`, `computeWinners`, `splitPot`, `deriveRound` | - |
| **Chain client** `chain/anchorClient.ts` | nothing | one RPC call per instruction, polls, join check | program |
| **JSON store** `persistence.ts` | a file, a queue of writes | `load`, `save` | - |
| **Auth** `auth.ts` | nonces, a secret | `createNonce`, `verifyLogin`, `verifyToken`, `pruneNonces` | store |
| **Gateway** `ws.ts` | connections | `hello`, `watch_lobby`, `join_lobby`, `pour_start`, `pour_stop`, broadcasts | LobbyManager, pour sessions |
| **Bootstrap** `index.ts`, `config.ts` | an interval | `main`, `ensureOpenLobby`, sweep, shutdown | all of the server |
| **Demo mode** `lobby.ts`, mock client | bot timers | `scheduleBots`, `botJoinAndPour`, own settlement | store |
| **Game page** `web/src/app/game`, `useGameSocket.ts` | session, join signature, round, what it shows | login, join transaction, pour gesture, reconnects | program, gateway |

A game: the server sends `create_lobby` and polls until the oracle's callback
has opened the account. A player signs `join_lobby` herself and then tells the
server, which checks the account, gives her a seat, arms a 60 s timer and
reveals the round. A pour, or the timer, produces one result, which the server
records, reports with `submit_result`, and saves. When every seat has a result
the server calls `settle_lobby` with the winners. A lobby older than a day may
be cancelled by anyone. In demo mode there is no ledger: guests play without money,
bots fill the seats, and what the server computes is what counts.

What makes it hard: the ledger and the server hold two copies of a lobby that
are connected only by calls that may land late, be rejected, get lost, or land
unnoticed; every server handler is cut into pieces by `await`, and other
handlers of the same lobby run between the pieces; the process may die at any
of these points and comes back with an older snapshot; players and strangers
act on the ledger without asking the server.

What makes each part correct:

* Program: vaults hold exactly the stakes of live lobbies; no lamport is lost;
  terms are fixed once somebody has paid; the best results are paid, equally;
  stakes never get stuck.
* LobbyManager: it claims nothing the ledger did not do; one seat, one timer,
  one attempt per player; every seated player gets a result; every complete
  lobby is settled.
* Store: a crash loses a suffix of the snapshots, never mixes two.
* Server rules: same winners, same order, same split as the program.
* Page and gateway: the round is shown to nobody who has not paid; a page that
  stays sees how the lobby ends, over any loss of its connection; a join that
  was paid is announced.
* Auth: a nonce logs in once, a token belongs to who signed for it and is good as
  long as promised.
* Bootstrap: the process always serves again, ids are fresh, lobbies do not pile
  up, a lobby is open for players.
* Demo mode: bots take nobody's seat, the server pays as the program would, a
  guest always gets to the end.

## 2. Modules

`ZapfLobby` – one lobby account as a value. For each instruction: what it
requires of the lobby (`CanJoin`, `CanSubmit`, `CanSettle`, `CanCancel`, ...)
and what it makes of it (`Joined`, `Submitted`, ...), the winners and the split
of the pot. It has no variables, so the ledger and the server model share it.

`ZapfProgram` – the program: `config`, `stats`, `lobbies`, `vault`, `balance`,
`clock`, and one action per instruction. A transaction is atomic, so a failing
instruction is an action that is not enabled. Signers and the lists of
`remaining_accounts` are parameters. Account addresses, bumps, rent, the
encoding and the events are left out; `oracle_queue` and the VRF request of
`create_lobby` are a precondition the model takes as met. Only wallets of the
model send lamports: a donation to a vault from outside is not modelled (it
would stay in the vault for ever and break no payment).

`Escrow` – what the program promises, without lobbies or instructions: equal
stakes go in once per player and game, a game closes once, by giving every
stake back or by awarding the whole pot to depositors less at most 10 % for the
house. `ZapfProgram` implements it (`ImplementsEscrow`) under the mapping
`EscrowStake` (entry fee of every player of a live lobby) and `EscrowClosed`
(settled or cancelled lobbies).

`LobbyServer` – the server's handling of one lobby from `lobby.ts:224` on,
composed with the lobby account. State and code correspond as follows:

| Variable | Code |
| --- | --- |
| `chain`, `now` | the `Lobby` account, the clocks |
| `mem` | the record in `LobbyManager.lobbies` |
| `armed`, `pouring` | `LobbyManager.timers`, `PourSessionManager.active` |
| `watching` | a running `waitForRoundFulfilled` |
| `joining` | `confirmJoin` calls in their `await` |
| `txs` | `submitResult`, `settleLobby`, `cancelLobby` calls in their `await`, and transactions of a dead process that may still land |
| `saves`, `disk` | the queue of `JsonStore` with the handler that waits for each write, and the file |
| `up`, `faults` | the process, the faults so far |

An action is the code between two awaits. `SaveDone` is what follows a
`persist()`: the rest of `recordResult` with `maybeSettle`'s synchronous part,
or the call to `settle_lobby`. `TxLands`, `TxRejected` and `CallFails` decide a
transaction; `SubmitReturns`, `SettleReturns`, `CancelReturns` are the handlers
that hear of it, after other handlers may have run. `Crash` forgets everything
but the ledger, the file and transactions on their way; `Boot` is `init`.
The saved snapshot contains one lobby, the clocks agree, an account read by the
server is not rolled back, and the RPC call of a sweep is over before the next
sweep ten minutes later. Bots are left out: they need the mock chain.

`GamePage` – one browser page, its connection and the gateway. `page` is the
state of `GamePage` and `useGameSocket` (React effects run with the change that
triggers them), `up` and `down` the messages on their way, `conn` the gateway's
`ConnState`, `handlers` what the server awaits for this page (`confirmJoin`, its
`persist`, `submitResult`, the end of `maybeSettle`), `tasks` what the manager
awaits for the lobby as a whole (the `persist` before each emission, the call of
`settle_lobby`, a `cancel_lobby` that has landed), `lobby`, `pours`, `paid` and
`ended` as much of the server and the ledger as the page can tell apart. A token, a round and a result are represented
by the wallet they were got for, a signature by its payer and whether the
transaction succeeded: that is what goes wrong when the visitor changes wallets.
The other players are the choice of when the lobby opens, settles, or is
cancelled; process death is left to `LobbyServer`, and a page does not outlive a
reload. A settlement and a cancellation may be under way together, and whichever
returns sets the status without looking at it (`Turns`): the catch of `maybeSettle`
opens a lobby that has been cancelled meanwhile (`SettleFails`), and pages are told
with the next update. The ledger decides for one of the two. A settlement and its
answer are one step, because nobody can observe what lies between; a
`cancel_lobby` that lands was started in the same step, because it names every
player and so none has joined in between; its answer is a step of its own
(`CancelReturns`). Every `persist` may be rejected (`SaveFails`, `HandlerFails`):
the handler ends there and announces nothing, which `unsaid` remembers until the
next state is sent.

`JsonStore` – `persistence.ts`: the file, the temporary file of the process, the
promise chain and what its head waits for. `WriteFile`, `Written` and `Rename`
are the pieces of a write between awaits, `WriteFails` and `StoreDies` what may
interrupt it. `SnapshotStore` is what the rest of the server relies on, one value
replaced as a whole in the order of the calls; `JsonStore` implements it
(`ImplementsRegister`), which is why the other models have a `disk` and a queue
of snapshots and no files.

`Login` – `auth.ts` over `JsonStore` (it extends the module and saves maps of
nonces through it) and the pages that log in. `nonces`, `secret` and `boots` are
the service; `issued` is a history of all nonces drawn, `prompts` and `requests`
are the nonces pages wait to have signed and signatures on their way, `tokens`
every token handed out, with the process that made it. `Sign` lets the page sign
with whatever wallet is connected by then. Cryptography is ideal: a signature is
a record naming its signer, a token names the secret it was made with. Malformed
input and rate limits are left out.

`DemoRound` – one lobby with `CHAIN=mock`, where the bots live. Calls to the mock
chain end within the turn of the event loop, so the only await is the store; the
server's own arithmetic (`simulatePour`, `scoreOf`, `computeWinners`, `splitPot`)
is modelled by its integers, times in milliseconds and the rounding of the beer
included, because here it decides about winners. `timers` are play timers and bot
timers, which fire in any order (a bot waits a random time); `late` are the
players whose deadline is over. `Account` is the lobby the same results would
have made on the ledger, and `SettlesAsProgram` compares the server's settlement
with the operators of `ZapfLobby` for it. Not in the model: foam, and
`overflowTimeMs`, whose value at the pressure of the run is the constant
`OverflowMs`.

`ServerProcess` – the process over its restarts with all lobbies, in anchor mode:
`main`, `ensureOpenLobby`, `createLobby` with `nextLobbyId`, `awaitFulfillment`,
settling, the sweep. A handler that waits is a record in `calls`, `watches` or
the queue of `saves`; its field `main` says that `main` waits for it, in which
case its failure ends the process. A round is one step (`RoundPlayed`), its
inside is `LobbyServer`; joins, and whether a settlement names the right
accounts, are not seen here. `phase` tells whether the process is down, still
waiting for its first lobby (it does not listen before), or listening. A crash
lets one transaction on its way land or none.

How they fit together: `ZapfProgram` and `LobbyServer` share `ZapfLobby` and so
the ledger's rules; `LobbyServer` is one lobby in depth, `ServerProcess` all
lobbies in breadth, `GamePage` the same lobby from the browser's side, `DemoRound`
the lobby without a ledger; `Login` is independent of lobbies and meets them in
the token `GamePage` starts from.

`ZapfProgramProofs`, `LobbyServerProofs`, `DemoRoundProofs`, `ServerProcessProofs`,
`GamePageProofs`, `JsonStoreProofs` and `LoginProofs` hold the theorems about the
module they are named after; `ZapfLobbyProofs` the lemmas about sums and about the
operators of `ZapfLobby` that program and server share. `MCZapfProgram`,
`MCLobbyServer` and `MCDemoRound` are instances for TLC.
Definitions marked "Mutant" are plausible bugs: with one of them in the place of
the definition that follows it a named property fails; they are used by nothing
else.

## 3. Runs

| Run | Question | Bounds |
| --- | --- | --- |
| `program_ties` | Does one lobby stay consistent, pay ties properly and release every stake? | 3 players, sizes 2 and 3 (and a rejected 1), two round outcomes, pours under, over, and spilled, every list of accounts in every order, clock around 24 h |
| `program_two` | Is money separated between lobbies and counted properly, and is it an escrow? | 2 lobbies of 2 seats, 2 players in both, fee 4 % and 10 % |
| `server_game` | Does everyone finish, does the server record what the ledger did, and does the file lose nothing? | full game of 2, one join request at a time, first day, one crash and one failed call |
| `server_races` | One seat, the ledger's target for whoever has one, one attempt, one settlement at a time, no false end? | full game of 2, two join requests at once, 24 h may pass, one failed call and one failed save |
| `page` | Is the round kept from those who have not paid, does a page show only ends that are true, is everything final on its way, and does a page catch up? | 2 wallets, one with money, one trouble of any kind at any moment |
| `login` | What does a nonce buy, what does the file hold, how long is a token good, and is the store a register? | 2 wallets, 2 nonces, clock 0..2 with lifetimes of 1, two troubles (death, failed write, repeated request) |
| `demo` | Do bots behave, does the server pay as the program would, does a guest get to the end? | 2 guests, 2 bots, 3 seats, pours under and over the limit, one crash |
| `boot` | Do lobbies stay few, saved and honest, and does the process always serve again? | up to 3 lobbies before the last round, two troubles, days that pass |

Bounds. Three players give every tie (none, two of three, all) and every order
of reports; the entry fee is chosen so that the pool of two winners leaves a
remainder with two seats and with three. Sizes up to ten change nothing but the
number of repetitions, and the theorems cover them. `OVERFLOW_SENTINEL` and
`U64_MAX` are scaled down where the amounts allow it.

On the server two players are enough for any two handlers of one lobby to race,
and one fault of a kind (`MaxFaults`) hits any step. A full game with every fault
and the cancellation together exceeds what can be explored: `server_game` has the
crash and the liveness, on the first day (`Instants`), `server_races` the
cancellation, both sockets (`Conns`) and the failing save.

`GamePage` counts lost connections, wallet changes, failed logins, payments,
settlements and saves and cancellations the server does not hear of together
(`MaxTroubles` 1): the queue of messages to the page is otherwise unbounded, and
one loss already separates every two messages. One failed settlement is what takes
back a cancellation. The theorems cover any number of troubles.

`Login`: two nonces (`MaxNonces`) are one that overwrites another, or one for
each wallet; a clock (`MaxNow`) of two steps with lifetimes of one (`NONCE_TTL`,
`TOKEN_TTL`) makes a nonce fresh, on the edge and expired; two troubles
(`MaxTroubles`) are a failed write followed by a crash. All of its properties are
proved for any bounds.

`DemoRound`: three seats for two guests and two bots is the smallest lobby in
which bots and guests compete for the last seat. A guest holds the tap for 1923 ms
(the target at this pressure) or 3100 ms, longer than the glass lasts
(`Durations`, `OverflowMs`), or not at all; `BotErrors` is 0, so bots tie with a
good guest, which is the case in which the order of winners matters. The fee
(35 lamports per seat, 4 %) leaves a remainder when two of three win.

`ServerProcess`: `MaxLobbies` stops new rounds when three lobbies exist, which
leaves room for lobbies of restarts beyond that; two troubles (`MaxTroubles`) are a
crash after a failure, or two crashes. `IDS_PER_MS` is scaled down to 10; the code
has 1000 and the assumption `ProcessBounds` says what it must exceed. The clock
moves at least a millisecond between two processes.

Symmetry in players (and join requests) is used in runs without liveness only.
The types of `GamePage`, `Login`, `JsonStore` and `DemoRound` are proved and not
checked a second time by a run.
The instances of the server, the page, the login and the demo may stop (a settled
lobby, nobody joins, the clock at its end), so they do not check deadlock; the
program's instances never stop, the admin may always set the fee.

Fairness. In `LobbyServer` transactions are decided and calls return (the RPC
client confirms until the block hash expires), promises of the store settle,
armed timers and the sweep's interval fire (event loop), the poll sees a new
status, the platform restarts the process (`restartPolicyType` in
`server/railway.json`, up to ten times; a run has one crash). On the page the
socket opens, reopens after a loss and is read, the gateway reads its messages,
and reports and the saves before an announcement come back (`Reported`,
`Announces`); the number of losses is finite. In `DemoRound`
saves end, timers of players and bots fire and deadlines pass. In `ServerProcess`
the process is started again, creations and settlements return, the store
writes, the oracle answers and the poll sees it: `ServesAgain` is refuted by a
silent oracle, on which `main` waits and exits for ever. Nobody is obliged to
join, pour, pay or cancel; in `LobbyServer` the oracle may stay silent too.

### Where the code and its documents disagree

Each of these runs checks one sentence of the repository and finds a
counterexample in the code's behaviour.

| Run | Says | Does |
| --- | --- | --- |
| `claim_order` | `simulation.ts:89`: winners sorted by submission index, identical to the on-chain rule | the program wants array order and rejects the settlement of such a tie (`lobby.ts:452`, `settle_lobby.rs:120`) |
| `claim_auto` | `docs/spec.md:27`: a complete lobby is settled automatically | a report confirmed while a premature settlement is failing finds `settling` and gives up; the lobby waits for a restart |
| `claim_absent` | `docs/spec.md:28`: a paid but absent player cannot block settlement | one whose client never reports the join gets no timer, and the server's cancellation names too few accounts |
| `claim_open` | `index.ts:46`: keep at least one open lobby available at all times | `ensureOpenLobby` runs at boot and after a settlement, not after the sweep cancels the only open lobby; an idle server then offers none until it is restarted |

More of the same kind, each refuted by TLC but without a run of its own. The
sentence is a definition at the end of the module named; the constants tell how
to see it fail.

| Definition | Says | Does | To see it |
| --- | --- | --- | --- |
| `OpenHasRound` in `LobbyServer` | `chain/client.ts:33`: the wait for the oracle ends when the callback landed and the lobby is open | it ends as well when the lobby was cancelled; the server opens it with target 0 (`anchorClient.ts:187`), though nobody can pay into it any more (`SeatsPaid`) | `Spec`, no faults, `MCTwoDays` |
| `CancelledStaysCancelled` in `LobbyServer` | `lobby.test.ts:324`: what comes late must not reopen a cancelled lobby (said of the oracle's callback, which `lobby.ts:237` heeds) | a settlement that is rejected after the sweep has cancelled the lobby sets it to open without looking (`lobby.ts:458`): it is listed again, its players refunded | `Spec`, no faults, `MCTwoDays`, as a property |
| `JoinAnnounced` in `GamePage` | `page.tsx:85`: with a join signature and an open socket the page announces the join | not while it still holds the round of a wallet connected before: the new wallet pays and gets no seat (`page.tsx:89`) | `GamePage_page.cfg` with `Funded = {a, b}` |
| `BotsFillUp` in `DemoRound` | `lobby.ts:293`: bots fill the free seats once a human is in | the bot timers are lost in a crash and `init` arms play timers only (`lobby.ts:166-169`): a lobby with a guest stays unfilled until the next join or the day is over | `FairSpec`, demo constants |
| `NonceSingleUse` in `Login` | `server/README.md:84`: a nonce is single-use | the save of the used nonce is not awaited (`auth.ts:66-67`, `111-112`): after a crash the file may bring the nonce back, and the same signature earns a second token | `Login_login.cfg` |

## 4. Proofs

Every safety property that a run checks is also proved for all values of the
constants. The numbers of players, lobbies, wallets,
faults, crashes and saves are arbitrary; what is assumed of the constants is named
`ASSUME`s of the modules, which TLC evaluates in every run.

| Module | Theorems | Invariant | Assumes |
| --- | --- | --- | --- |
| `ZapfProgramProofs` | `TypeCorrect`, `VaultsSolvent`, `RostersStayConsistent`, `TermsNeverChange`, `LamportsNeverLost`, `StatsTellTheLedger`, `ProgramIsEscrow`, `SettlementIsFair`, `StakesNeverStuck` | `IInv`, `MoneyInv`, `ReleaseInv` | `LobbyNumbers`, `ProgramInputs`, `FiniteLedger`; some: `Apart`, `StakesDivisible` |
| `LobbyServerProofs` | `TypeCorrect`, `SeatsArePaid`, `TerminalsAgree`, `IndicesAreNumbers`, `TimersCover`, `SubmittedAgreesAlways`, `SingleAttempt`, `SettledByOne`, `FileKeepsTheGame` | `IInv`, with `OneSettler` and `FileBehind` | `LobbyNumbers`, `ServerInputs`, `NoRecord` |
| `DemoRoundProofs` | `TypeCorrect`, `SeatsAlwaysFair`, `SettlesLikeProgram`, `VerdictNeverChanges` | `IInv` | `DemoNumbers`, `PoursFit`, `NotSettled` |
| `ServerProcessProofs` | `TypeCorrect`, `IdsAlwaysFresh`, `OfferedIsAlwaysSaved`, `EndsAlwaysAgree`, `LobbiesStayBounded` | `Orderly`, `Bounded` | `ProcessBounds` |
| `GamePageProofs` | `TypeCorrect`, `RoundsForThosePaid`, `NothingTakenBack`, `NewsAlwaysOnItsWay` | `IInv`, with `NewsOnItsWay` | `PageBounds`, `Nulls` |
| `JsonStoreProofs` | `StoreImplementsRegister` | `StoreInv` | `FilesDiffer` |
| `LoginProofs` | `LoginTypeCorrect`, `NonceSingleUsePerProcess`, `TokensAreEarned`, `TokensOutliveProcesses`, `FileHoldsNonces`, `LoginStoreImplementsRegister` | parts below | `LoginBounds`, `NoncesAreStored`, `FilesDiffer` |

### The program

The inductive invariant behind the first four theorems is

    IInv == TypeOK /\ FeeBounded /\ VaultHoldsStakes /\ RostersConsistent

None of the parts is inductive alone. A settlement pays
`winners * share + remainder + fee`; that this is the vault's content needs
that the vault holds `entry_fee * Len(players)` (`VaultHoldsStakes`), that
`Len(players) = joined_count` (`RostersConsistent`), that the fee is at most
10 % so that the pool is not negative (`FeeBounded`, kept by the guards of
`initialize` and `set_fee`), and that there is a winner to divide by. The lemmas
follow that argument: `WinnersExist` (a smallest score exists, by well-founded
induction on the naturals), `DivisionWithRest`, `SplitIsExact` (the payments add
up to the pot). Every instruction changes at most one lobby in one of six ways
(`Evolves`); `EvolvedTyped`, `EvolvedKeepsRoster` and `EvolvedKeepsTerms` treat
each way once, `LobbiesStep` lifts them to the function of lobbies and `StepIInv`
adds the money. `TermsNeverChange` uses `EvolvedKeepsTerms` and, for the callback,
that a lobby without a round has no players.

`LamportsNeverLost`, `StatsTellTheLedger` and `ProgramIsEscrow` speak of sums over
all accounts. The community module defines the sum by a recursive function;
`ZapfLobbyProofs` shows that the function exists (by induction over the subsets of a
finite set, stated with a set in the place of a predicate: `SubsetInduction`), that
the order of the elements does not matter (`SumTaken`), and what happens to a sum
when one value, or one value for each of a set of keys, changes (`SumChanged`,
`SumShared`). `PayoutsAddUp` and `RefundsAddUp` apply it to what a settlement and a
cancellation pay. The invariant becomes

    MoneyInv == IInv /\ ConfigSound /\ GamesSound

`ConfigSound` says that the fees allowed are positive and came, with the treasury,
from what `initialize` was given; `GamesSound` that the fee of every lobby is one of
them and that only players have seats. Without the first a pot could be empty,
without the second a payment could go to an account the sums do not cover. `ProgramIsEscrow` maps each instruction to its step of `Escrow`:
`join_lobby` to a deposit, `settle_lobby` to an award whose payouts add up to the
pot less the fee, `cancel_lobby` to the return of every stake, the rest to none.

`StakesNeverStuck` says of the guards of `settle_lobby` and `cancel_lobby`
(`MaySettle`, `MayCancel`, which the actions of `ZapfProgram` are made of) that the
list of accounts a caller can compute meets them. `ReleaseInv` adds to `IInv` that
the pot of every lobby fits its integer (`PotFits`: `join_lobby` checks it with the
new stake in it, no step changes the fee; `EvolvedPotFits`) and that where there is a
lobby there is a config (no instruction takes it away, `ConfigKept`). The vault covers the payments by `VaultHoldsStakes` and `SplitIsExact`,
and in a complete lobby everybody seated has a result (`CompleteIsFull`), so there are
winners to name. The counters of `GlobalStats` may overflow and then do block a
settlement; `StatsFit` in the property says so.

Two hypotheses appear in the statements, because the code does not exclude the
case and the property is false in it:

* `Apart`: the treasury of a config is no player. The program does not compare the
  two; a treasury that plays receives fee and winnings in one account, and what it
  holds is no longer the sum of fees (`StatsTellTheLedger`), nor is its gain a share
  (`ProgramIsEscrow`, `SettlementIsFair`).
* `StakesDivisible` (`SettlementIsFair` only): no stake is a single lamport. With
  ten players who tie at one lamport and a fee of 10 %, nine lamports are split by
  ten: the share is 0 and winners are paid nothing.

### The server

`LobbyServerProofs` rests on

    IInv == TypeOK /\ RosterConsistent(chain) /\ RecordsSound /\ CallsSound
              /\ NothingLeft /\ SettlesFinished /\ TimersCoverPlayers

`RecordsSound` holds the idea: memory, file and every queued snapshot are records the
ledger vouches for (each seat is a player of the account, each `submitted` result is
the one the account holds, an end is the account's end, and once the record is open or has
players its target is the account's: `Drawn`). A restart
loads an older record, and everything above is true of it because it was true when
that record was saved and the ledger only moves on (`Remembers`). `CallsSound` says what
a call in its await may return: a landed report is on the account, and a call whose
handler still waits reports a result the record in memory has. That this stays so
while other handlers run is `Succeeds`: their steps keep results and complete lobbies.
`NothingLeft` says that a dead process has no record, no pours and no waiting
joins, and `SettlesFinished` that a lobby is complete whenever it is settling or a
save will go on to settle it.
`SingleAttempt` is an action property and follows from the actions alone, given types.

`SettledByOne` adds `OneSettler` to `IInv` and is inductive with it. Who may begin to
settle is decided by the status in memory at one of two places, the end of a save
and `Boot`, so each action is one of a few ways to move on (`SettlerStep`): it adds
no settler, it hands the settling on from a save to the call, it ends it, or it
begins one where there is none. What remains is `Alone`: whoever holds the settling is
the only one, in the queue of saves and among the calls together. "Unless a save
failed" is in the property because a failed save of `maybeSettle` ends its handler and
leaves `settling` behind (`lobby.ts:440`).

`FileKeepsTheGame` is about two successive files, but the later one was taken from
memory long before it is written. `FileBehind` puts what exists in order of time,
file, queued saves, memory, and says that each keeps what any before it holds
(`InOrder`). Keeping is transitive (`KeepsOn`); the order moves on at memory's end
(`OrderGoesOn`) and grows there (`OrderGrows`), loses the head of the queue when a
write ends or fails (`OrderShrinks`), and a restart makes the file the memory
(`BootBehind`). That memory
keeps seats, results and target is `Succeeds`, from the proof above. That it keeps a
settlement (`SettledStays`) needs more: a cancellation or a second settlement
in flight would overwrite one, and `OneSettler` excludes the second, the ledger,
which cannot both settle and cancel a lobby, the first.

### The demo lobby

    IInv == Data(lobby, disk, saves, verdicts) /\ BotTimers /\ Clocks

`Data` says that every record, in memory, in the file and in a queued save, is `Sound`:
seats are taken once and bots come from the crew, the first `BotCount` names counted
round the list (`Seating`), the indices of finished players are distinct (`Results`),
a settled record is complete and carries the verdict on it (`Ended`). And it says that
along the chain from the file over the saves to memory a complete record keeps its
players (`Keeps`), which is why a second settlement after a crash finds the same
results. `Pushed`, `Popped` and `Loaded` treat the queue once for all actions.
`SettlesLikeProgram` needs no more of the history: `WinnersRanked` shows that the order by
index exists and starts with the smallest (`Ranking`: in a finite set with distinct
numbers every position has one element), `ScoresOrdered` that sentinel and
`U64_MAX` rank an overflow alike, `SameWinners` and `SameFirstWinner` that both sides
find the same winners and the same owner of the remainder, and `VerdictAsProgram` compares
the payments. `PoursFit` is what the comparison depends on: a full glass is less than
`OVERFLOW_SENTINEL`.

### The process

`EndsAlwaysAgree` and `OfferedIsAlwaysSaved` rest on

    Core == Typed /\ AllAgree /\ Chain /\ Vouched /\ Silent

`AllAgree` is `EndsAgree` with "every lobby of a map is on the ledger", without
which a settlement could end a lobby the ledger does not have. `OfferedIsSaved`
alone says nothing about the snapshot that replaces the file: `Chain` says that no
lobby is lost on the way from the file over the saves in their order to the
memory, `Vouched` that whoever waits to watch or settle a lobby has it in the file
or in the very save he waits for, `Silent` that a dead process has no state.

`TypeCorrect` adds `OneWaits`: while the process starts, `main` waits for exactly one
handler, and for none when it listens. `IdsAlwaysFresh` adds

    Orderly == Core /\ OneWaits /\ Fresh /\ Tally

`Fresh`: every id known anywhere was drawn, and pending creations hold different,
unused ones. It would break when the counter wraps within a millisecond; `Tally`
counts why it does not: a process settles a lobby once, each settlement announces one
creation, and complete lobbies are fewer than `MaxLobbies`, so that the draws of a
process stay below `IDS_PER_MS` (`ProcessBounds`). `LobbiesStayBounded` has `Bounded`:
unfinished lobbies, lobbies being created and settlements still to be announced
are together no more than the starts of the process. All of it was checked by TLC
on the `boot` run before it was proved.

### The page

    IInv == Values /\ up \in Seq(Requests) /\ Greeted
              /\ handlers \in Seq(Handlers)
              /\ down \in Seq(Messages) /\ Ordered(down) /\ ViewBehind
              /\ SeatsPaid /\ Ending
              /\ (page.config # NoWallet => Entitled(page.config))

`RoundForPaid` alone is not kept: a round is sent by a handler that has waited, or
for a seat taken long ago. So every handler on its way to send a round has seated a
wallet that has paid (`Handlers`), and every seat is a paid one (`SeatsPaid`).
`Greeted` says that the first message of a connection whose wallet is not known is
`hello`; without it the gateway would look up the seat of nobody. `NeverBack` is
about the order of messages: what is on its way to the page are earlier states of
the lobby (`Messages`), each follows those before it (`Ordered`) and all follow what
is shown (`ViewBehind`), where `Follows` is the order in which a settlement, a result
and a begun round are never lost. That an end on its way is the ledger's is
`Truthful`; it is inductive because the ledger ends a lobby once, because at most
one handler settles, and because a lobby being settled is `settling` or has been
cancelled meanwhile (`Ending`). A cancelled lobby may be opened again, so
`After` asks of the order that a cancellation is kept only as long as the lobby is
cancelled: a lobby is cancelled once, and what was said before did not say so
(`AfterStays`). Queue contents are stated as membership in the sequences over a set that
depends on the state; the set only grows when the lobby moves on (`Moves`,
`MessagesStay`, `HandlersStay`), so each action has to speak only of what it adds.

`NewsAlwaysOnItsWay` is the safety half of `CatchesUp`, without any fairness: it
adds `NewsOnItsWay` to `IInv` and is inductive with it. What the page will show is
never less final than what it shows (`SightsKept`, from `Ordered` and `ViewBehind`),
an end that has no announcement to come has been announced (`EndsKept`), a report
under way stays so until the page is told (`ReportsKept`), and the answer to
`watch_lobby` and every broadcast carry the state of the moment (`Told`); a connection
that is lost leaves the page asking again. A rejected save breaks the chain, which is
why both properties except the time until the next state is sent (`unsaid`).

### Store and login

`StoreImplementsRegister`: the file and the promise chain implement
`SnapshotStore`, for any snapshots, provided that the markers for "no
file" and "torn file" are no snapshots (`FilesDiffer`). Both initial states agree
and every step is a step of the register or none; what makes `Rename` the
register's `Done` is the invariant `StoreInv`, that between write and rename the
temporary file is the head of the chain.

The invariant behind the login: every entry, in memory, in the file, in the temporary
file and in every queued snapshot, is a nonce drawn for its wallet with the right
expiry (`NoncesVouched`: without the copies a restart would break it); tokens were
made from such nonces with the secret of their process (`TokensMade`,
`SecretKnown`); a nonce that bought a token in this process is no longer in
memory (`Spent`), which is single use. `FileHoldsNonces` has an invariant of its
own (`Pending`): the last snapshot asked for is what memory holds, up to expired
entries, so once the queue is empty and the last write was good, so is the file.

### Only model-checked

* All liveness (`SeatedPlayersFinish`, `SettlingEnds`, `CatchesUp`, `GuestsFinish`,
  `ServesAgain`, `OpensAgain`): the prover has no rules for fairness.

## 5. Not modelled, and the plan

Not modelled: `TapScene`, the statistics page and the rest of the presentation
(they only show what they are sent or have asked for), foam, HTTP routes other
than the login, configuration parsing, PDA derivation, rent, encoding, the
teardown of a process that is being stopped (it does not wait for its saves, so
it is a crash), tests and deployment. `deriveRound` serves the mock client and
draws target and pressure from bytes the model takes as given. A reload of the
page (token and signature are gone, the seat is not) and the way to the next
lobby are missing from `GamePage`; of the demo flow the page's side is only the
guest's login.

Plan: the sentences of the last table of section 3 in the form in which they do
hold, and a page that is reloaded.
