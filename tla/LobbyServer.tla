----------------------------- MODULE LobbyServer -----------------------------
(***************************************************************************)
(* The game server's LobbyManager for one lobby, from the moment           *)
(* createLobby has put the new record into its map, together with what it  *)
(* talks to: the lobby account on the ledger (the operators of ZapfLobby), *)
(* the JSON store, the play timers, the pours in progress, and the players *)
(* and strangers who send transactions of their own.                       *)
(*                                                                         *)
(* JavaScript runs a handler without interruption up to its next await, so *)
(* an action is the code between two awaits; what the handler waits for    *)
(* (a transaction, a poll, a save) is state.  Bots are left out: they only *)
(* run against the mock chain.                                             *)
(***************************************************************************)
EXTENDS ZapfLobby

CONSTANTS
  Conns,       \* join requests the server works on at the same time
  Size,        \* seats of the lobby
  EntryFee,
  Randomness,  \* outputs of the oracle
  Instants,    \* values the clock takes
  Pours,       \* outcomes of simulatePour as reported, sentinel for overflow
  MaxFaults,   \* how often the process dies, an RPC call fails, a save fails
  NoLobby      \* no record of the lobby

ASSUME ServerInputs ==
  /\ Size \in MIN_LOBBY_SIZE .. MAX_LOBBY_SIZE
  /\ EntryFee \in 0 .. U64_MAX
  /\ Randomness \subseteq RandomBytes
  /\ Pours \subseteq 0 .. OVERFLOW_SENTINEL
  /\ Instants \subseteq Nat
  /\ MaxFaults \in [ {"crash", "call", "save"} -> Nat ]

VARIABLES
  chain,     \* the Lobby account
  now,       \* the clock, in seconds; the server's and the cluster's agree
  mem,       \* LobbyManager.lobbies: the record of this lobby
  up,        \* the server process runs
  armed,     \* wallets with a play timer
  pouring,   \* PourSessionManager.active
  watching,  \* a waitForRoundFulfilled poll is running
  joining,   \* confirmJoin calls waiting for the chain: << connection, wallet >>
  txs,       \* transactions the server sent and has not heard of yet
  disk,      \* lobbies.json: the record of this lobby
  saves,     \* JsonStore.queue: snapshots to write, with what waits for each
  faults     \* faults so far, of each kind

vars == << chain, now, mem, up, armed, pouring, watching, joining, txs, disk, saves, faults >>
account == << chain, now >>
process == << up, armed, pouring, watching, joining >>
store == << disk, saves >>

PlayerRecord == [ wallet : Accounts, status : {"playing", "done"},
                  pouredMl : 0 .. OVERFLOW_SENTINEL, submissionIndex : Nat,
                  submitTxSig : BOOLEAN ]

LobbyRecord == [ status : {"awaiting_randomness", "open", "settling", "settled", "cancelled"},
                 targetMl : TargetLines,
                 players : Seq(PlayerRecord),
                 winners : Seq(Accounts) ]

ASSUME NoRecord == NoLobby \notin LobbyRecord

\* pending: on its way to the leader; the call returns on landed, throws on failed.
\* A transaction of a process that died (~ alive) may still land.
Transaction == [ op : {"submit", "settle", "cancel"}, accts : Seq(Accounts),
                 ml : 0 .. OVERFLOW_SENTINEL,
                 outcome : {"pending", "landed", "failed"}, alive : BOOLEAN ]

Save == [ record : LobbyRecord, next : {"watch", "maybeSettle", "settle", "done"} ]

NewRecord == [ status |-> "awaiting_randomness", targetMl |-> 0, players |-> << >>,
               winners |-> << >> ]

\* lobby.ts:224: the save of the new record is queued.
Init ==
  /\ chain = NewLobby(Size, EntryFee, 0)
  /\ now = 0
  /\ mem = NewRecord
  /\ up = TRUE
  /\ armed = {} /\ pouring = {} /\ watching = FALSE /\ joining = {} /\ txs = {}
  /\ disk = NoLobby
  /\ saves = << [ record |-> NewRecord, next |-> "watch" ] >>
  /\ faults = [ kind \in DOMAIN MaxFaults |-> 0 ]

-----------------------------------------------------------------------------
(* Helpers *)

Loaded == up /\ mem # NoLobby

Fault(kind) ==
  /\ faults[kind] < MaxFaults[kind]
  /\ faults' = [ faults EXCEPT ![kind] = @ + 1 ]

Wallets(r) == [ i \in DOMAIN r.players |-> r.players[i].wallet ]
Seated(r) == { r.players[i].wallet : i \in DOMAIN r.players }
Waiting(r) == { r.players[i].wallet : i \in { j \in DOMAIN r.players : r.players[j].status = "playing" } }

\* Mutant: only results the ledger has confirmed are counted.
SubmittedCount(r) == Cardinality({ i \in DOMAIN r.players : r.players[i].submitTxSig })

\* Mutant: counted before the player is marked, and one taken off all the same.
CountedTooEarly(r) == Cardinality({ i \in DOMAIN r.players : r.players[i].status = "done" }) - 1

DoneCount(r) == Cardinality({ i \in DOMAIN r.players : r.players[i].status = "done" })
Full(r) == Len(r.players) >= Size
Complete(r) == Full(r) /\ Waiting(r) = {}

\* Mutant: a call that throws is taken for one that returned.
Returned(tx) == tx.outcome # "pending"

\* The call did not throw.
Landed(tx) == tx.outcome = "landed"

\* Mutant: the last save asked for is written first.
PersistFirst(record, next) == saves' = << [ record |-> record, next |-> next ] >> \o saves

\* store.save: the snapshot is taken when it is called.
Persist(record, next) == saves' = Append(saves, [ record |-> record, next |-> next ])

Call(op, accts, ml) ==
  [ op |-> op, accts |-> accts, ml |-> ml, outcome |-> "pending", alive |-> TRUE ]

\* lobby.players.find: a wallet has one seat at most.
SeatOf(r, wallet) == CHOOSE i \in DOMAIN r.players : r.players[i].wallet = wallet

\* scoreOf and computeWinners: the best results, by submissionIndex.
scoreOf(p, target) ==
  IF p.pouredMl = OVERFLOW_SENTINEL THEN OVERFLOW_SENTINEL
  ELSE IF p.pouredMl < target THEN target - p.pouredMl ELSE p.pouredMl - target

computeWinners(r) ==
  LET best == { i \in DOMAIN r.players :
                  \A j \in DOMAIN r.players :
                    scoreOf(r.players[i], r.targetMl) =< scoreOf(r.players[j], r.targetMl) }
      Earlier(i) == { j \in best : r.players[j].submissionIndex < r.players[i].submissionIndex }
  IN [ k \in 1 .. Cardinality(best) |->
         r.players[CHOOSE i \in best : Cardinality(Earlier(i)) = k - 1].wallet ]

-----------------------------------------------------------------------------
(* The ledger and the people on it *)

OracleFulfills(bytes) ==
  /\ CanFulfill(chain)
  /\ chain' = Fulfilled(chain, bytes)
  /\ UNCHANGED << now, mem, process, txs, store, faults >>

PlayerJoins(wallet) ==
  /\ CanJoin(chain, wallet)
  /\ chain' = Joined(chain, wallet)
  /\ UNCHANGED << now, mem, process, txs, store, faults >>

\* cancel_lobby is permissionless.
StrangerCancels ==
  /\ CanCancel(chain, now, PlayerKeys(chain))
  /\ chain' = Cancelled(chain)
  /\ UNCHANGED << now, mem, process, txs, store, faults >>

Tick ==
  /\ \E t \in Instants : t > now /\ now' = t
  /\ UNCHANGED << chain, mem, process, txs, store, faults >>

Accepts(tx) ==
  \/ tx.op = "submit" /\ CanSubmit(chain, tx.accts[1])
  \/ tx.op = "settle" /\ CanSettle(chain, tx.accts)
  \/ tx.op = "cancel" /\ CanCancel(chain, now, tx.accts)

Effect(tx) ==
  CASE tx.op = "submit" -> Submitted(chain, tx.accts[1], tx.ml)
    [] tx.op = "settle" -> Settled(chain)
    [] tx.op = "cancel" -> Cancelled(chain)

Becomes(tx, outcome) ==
  txs' = (txs \ {tx}) \cup (IF tx.alive THEN {[ tx EXCEPT !.outcome = outcome ]} ELSE {})

TxLands(tx) ==
  /\ tx.outcome = "pending" /\ Accepts(tx)
  /\ chain' = Effect(tx)
  /\ Becomes(tx, "landed")
  /\ UNCHANGED << now, mem, process, store, faults >>

TxRejected(tx) ==
  /\ tx.outcome = "pending" /\ ~ Accepts(tx)
  /\ Becomes(tx, "failed")
  /\ UNCHANGED << account, mem, process, store, faults >>

\* The call throws although nothing rejected the transaction: it was dropped,
\* or it landed and its confirmation was lost.
CallFails(tx) ==
  /\ tx.outcome # "failed"
  /\ Fault("call")
  /\ Becomes(tx, "failed")
  /\ UNCHANGED << account, mem, process, store >>

-----------------------------------------------------------------------------
(* Opening the lobby *)

\* waitForRoundFulfilled resolves on any status but AwaitingRandomness.
RoundKnown ==
  /\ Loaded /\ watching
  /\ chain.status # "AwaitingRandomness"
  /\ watching' = FALSE
  /\ IF mem.status = "awaiting_randomness"
     THEN /\ mem' = [ mem EXCEPT !.targetMl = chain.target_ml, !.status = "open" ]
          /\ Persist(mem', "done")
     ELSE UNCHANGED << mem, saves >>
  /\ UNCHANGED << account, up, armed, pouring, joining, txs, disk, faults >>

\* fulfillTimeoutMs: the watch ends and only the next boot starts it again.
WatchTimesOut ==
  /\ Loaded /\ watching
  /\ watching' = FALSE
  /\ UNCHANGED << account, mem, up, armed, pouring, joining, txs, store, faults >>

-----------------------------------------------------------------------------
(* Joining *)

MayJoin(wallet) == mem.status = "open" /\ wallet \notin Seated(mem) /\ ~ Full(mem)

JoinRequest(conn, wallet) ==
  /\ Loaded
  /\ \A j \in joining : j[1] # conn
  /\ MayJoin(wallet)
  /\ joining' = joining \cup { << conn, wallet >> }
  /\ UNCHANGED << account, mem, up, armed, pouring, watching, txs, store, faults >>

\* Mutant: only the status is checked again.
StillOpen(wallet) == mem.status = "open"

\* After the await everything is checked once more.
StillMayJoin(wallet) == MayJoin(wallet)

JoinConfirmed(conn, wallet) ==
  /\ Loaded
  /\ << conn, wallet >> \in joining
  /\ contains_player(chain, wallet)
  /\ joining' = joining \ { << conn, wallet >> }
  /\ IF StillMayJoin(wallet)
     THEN /\ mem' = [ mem EXCEPT !.players =
                        Append(@, [ wallet |-> wallet, status |-> "playing", pouredMl |-> 0,
                                    submissionIndex |-> 0, submitTxSig |-> FALSE ]) ]
          /\ armed' = armed \cup {wallet}
          /\ Persist(mem', "done")
     ELSE UNCHANGED << mem, armed, saves >>
  /\ UNCHANGED << account, up, pouring, watching, txs, disk, faults >>

\* The transaction is not there yet, or the RPC node does not answer.
JoinRefused(conn, wallet) ==
  /\ Loaded
  /\ << conn, wallet >> \in joining
  /\ joining' = joining \ { << conn, wallet >> }
  /\ UNCHANGED << account, mem, up, armed, pouring, watching, txs, store, faults >>

-----------------------------------------------------------------------------
(* Pouring and recording the result *)

\* recordResult up to its first await: one attempt, decided synchronously.
Marked(wallet, ml) ==
  [ mem EXCEPT !.players[SeatOf(mem, wallet)] =
      [ @ EXCEPT !.status = "done", !.pouredMl = ml, !.submissionIndex = DoneCount(mem) ] ]

\* Mutant: the play timer keeps running.
RecordResultKeepTimer(wallet, ml) ==
  IF mem.status = "open" /\ wallet \in Waiting(mem)
  THEN mem' = Marked(wallet, ml) /\ armed' = armed /\ txs' = txs \cup { Call("submit", << wallet >>, ml) }
  ELSE armed' = armed /\ UNCHANGED << mem, txs >>

RecordResult(wallet, ml) ==
  IF mem.status = "open" /\ wallet \in Waiting(mem)
  THEN /\ mem' = Marked(wallet, ml)
       /\ armed' = armed \ {wallet}
       /\ txs' = txs \cup { Call("submit", << wallet >>, ml) }
  ELSE /\ armed' = armed
       /\ UNCHANGED << mem, txs >>

PourStart(wallet) ==
  /\ Loaded
  /\ wallet \in Waiting(mem) \ pouring
  /\ pouring' = pouring \cup {wallet}
  /\ UNCHANGED << account, mem, up, armed, watching, joining, txs, store, faults >>

PourStop(wallet, ml) ==
  /\ Loaded
  /\ wallet \in pouring
  /\ pouring' = pouring \ {wallet}
  /\ RecordResult(wallet, ml)
  /\ UNCHANGED << account, up, watching, joining, store, faults >>

\* handleTimeout: a pour in progress is locked in, otherwise 0 ml.
TimerFires(wallet, ml) ==
  /\ Loaded
  /\ wallet \in armed
  /\ ml \in (IF wallet \in pouring THEN Pours ELSE {0})
  /\ IF mem.status = "open" /\ wallet \in Waiting(mem)
     THEN /\ pouring' = pouring \ {wallet}
          /\ RecordResult(wallet, ml)
     ELSE /\ armed' = armed \ {wallet}
          /\ UNCHANGED << mem, pouring, txs >>
  /\ UNCHANGED << account, up, watching, joining, store, faults >>

\* Mutant: after a failed report the player may pour again.
NotedForRetry(p, tx) ==
  [ p EXCEPT !.submitTxSig = Landed(tx), !.status = IF Landed(tx) THEN "done" ELSE "playing" ]

\* recordResult after submitResult: a failed call is noted and never repeated.
Noted(p, tx) == [ p EXCEPT !.submitTxSig = Landed(tx) ]

SubmitReturns(tx) ==
  /\ Loaded
  /\ tx.op = "submit" /\ tx.alive /\ tx.outcome # "pending"
  /\ mem' = [ mem EXCEPT !.players[SeatOf(mem, tx.accts[1])] = Noted(@, tx) ]
  /\ txs' = txs \ {tx}
  /\ Persist(mem', "maybeSettle")
  /\ UNCHANGED << account, process, disk, faults >>

-----------------------------------------------------------------------------
(* The store, and the handlers it wakes up *)

\* Mutant: whoever finds the results complete settles.
ReadyAnyTime(r) == r.status \in {"open", "settling"} /\ Complete(r)

ReadyToSettle(r) == r.status = "open" /\ Complete(r)

\* The head of the queue is written; its caller goes on.
SaveDone ==
  /\ Loaded /\ saves # << >>
  /\ LET save == Head(saves)
         settle == save.next = "maybeSettle" /\ ReadyToSettle(mem)
     IN /\ disk' = save.record
        /\ watching' = (watching \/ save.next = "watch")
        /\ mem' = IF settle THEN [ mem EXCEPT !.status = "settling" ] ELSE mem
        /\ saves' = IF settle
                    THEN Append(Tail(saves), [ record |-> mem', next |-> "settle" ])
                    ELSE Tail(saves)
        /\ txs' = IF save.next = "settle"
                  THEN txs \cup { Call("settle", computeWinners(mem), 0) }
                  ELSE txs
  /\ UNCHANGED << account, up, armed, pouring, joining, faults >>

\* The write fails: its caller throws and goes no further, the queue goes on.
SaveFails ==
  /\ Loaded /\ saves # << >>
  /\ Fault("save")
  /\ saves' = Tail(saves)
  /\ UNCHANGED << account, mem, process, txs, disk >>

-----------------------------------------------------------------------------
(* Settling and cancelling *)

\* Mutant: a failed settlement is not opened again.
AfterSettleStuck(r, tx) ==
  IF Landed(tx) THEN [ r EXCEPT !.status = "settled", !.winners = tx.accts ] ELSE r

AfterSettle(r, tx) ==
  IF Landed(tx)
  THEN [ r EXCEPT !.status = "settled", !.winners = tx.accts ]
  ELSE [ r EXCEPT !.status = "open" ]

SettleReturns(tx) ==
  /\ Loaded
  /\ tx.op = "settle" /\ tx.alive /\ tx.outcome # "pending"
  /\ mem' = AfterSettle(mem, tx)
  /\ txs' = txs \ {tx}
  /\ Persist(mem', "done")
  /\ UNCHANGED << account, process, disk, faults >>

\* cancelIfExpired; sweeps are ten minutes apart, an RPC call is shorter.
Sweep ==
  /\ Loaded
  /\ mem.status \in { "open", "awaiting_randomness" }
  /\ now >= CANCEL_TIMEOUT_SECONDS
  /\ ~ ReadyToSettle(mem)
  /\ \A tx \in txs : ~ (tx.op = "cancel" /\ tx.alive)
  /\ txs' = txs \cup { Call("cancel", Wallets(mem), 0) }
  /\ UNCHANGED << account, mem, process, store, faults >>

CancelReturns(tx) ==
  /\ Loaded
  /\ tx.op = "cancel" /\ tx.alive /\ tx.outcome # "pending"
  /\ txs' = txs \ {tx}
  /\ IF Landed(tx)
     THEN /\ armed' = armed \ Seated(mem)
          /\ mem' = [ mem EXCEPT !.status = "cancelled" ]
          /\ Persist(mem', "done")
     ELSE UNCHANGED << armed, mem, saves >>
  /\ UNCHANGED << account, up, pouring, watching, joining, disk, faults >>

-----------------------------------------------------------------------------
(* Process death and init *)

Crash ==
  /\ up
  /\ Fault("crash")
  /\ up' = FALSE
  /\ mem' = NoLobby
  /\ armed' = {} /\ pouring' = {} /\ watching' = FALSE /\ joining' = {}
  /\ saves' = << >>
  /\ txs' = { [ tx EXCEPT !.alive = FALSE ] : tx \in { t \in txs : t.outcome = "pending" } }
  /\ UNCHANGED << account, disk >>

\* Mutant: play timers do not survive a restart.
NoneRearmed(r) == {}

Rearmed(r) == IF r # NoLobby /\ r.status = "open" THEN Waiting(r) ELSE {}

\* init: settling lobbies are open again, timers are armed, the watch and the
\* settlement are resumed.
Boot ==
  /\ ~ up
  /\ up' = TRUE
  /\ LET open == IF disk # NoLobby /\ disk.status = "settling"
                 THEN [ disk EXCEPT !.status = "open" ]
                 ELSE disk
         settle == disk # NoLobby /\ ReadyToSettle(open)
     IN /\ mem' = IF settle THEN [ open EXCEPT !.status = "settling" ] ELSE open
        /\ watching' = (disk # NoLobby /\ open.status = "awaiting_randomness")
        /\ armed' = Rearmed(open)
        /\ saves' = IF settle THEN << [ record |-> mem', next |-> "settle" ] >> ELSE << >>
  /\ UNCHANGED << account, pouring, joining, txs, disk, faults >>

-----------------------------------------------------------------------------

Next ==
  \/ \E bytes \in Randomness : OracleFulfills(bytes)
  \/ \E w \in Accounts : PlayerJoins(w)
  \/ StrangerCancels
  \/ Tick
  \/ \E tx \in txs : TxLands(tx)
  \/ \E tx \in txs : TxRejected(tx)
  \/ \E tx \in txs : CallFails(tx)
  \/ RoundKnown
  \/ WatchTimesOut
  \/ \E c \in Conns, w \in Accounts : JoinRequest(c, w)
  \/ \E c \in Conns, w \in Accounts : JoinConfirmed(c, w)
  \/ \E c \in Conns, w \in Accounts : JoinRefused(c, w)
  \/ \E w \in Accounts : PourStart(w)
  \/ \E w \in Accounts, ml \in Pours : PourStop(w, ml)
  \/ \E w \in Accounts, ml \in Pours \cup {0} : TimerFires(w, ml)
  \/ \E tx \in txs : SubmitReturns(tx)
  \/ SaveDone
  \/ SaveFails
  \/ \E tx \in txs : SettleReturns(tx)
  \/ Sweep
  \/ \E tx \in txs : CancelReturns(tx)
  \/ Crash
  \/ Boot

Spec == Init /\ [][Next]_vars

\* Fairness: transactions are decided and calls return, the store writes, armed
\* timers and the sweep's interval fire, polls see the new status, the platform
\* restarts the process.  Nobody is obliged to join or to pour, no stranger to
\* cancel and no oracle to answer.
FairSpec ==
  /\ Spec
  /\ WF_vars(\E tx \in txs : TxLands(tx))
  /\ WF_vars(\E tx \in txs : TxRejected(tx))
  /\ WF_vars(RoundKnown)
  /\ WF_vars(\E c \in Conns, w \in Accounts : JoinConfirmed(c, w))
  /\ \A w \in Accounts : WF_vars(\E ml \in Pours \cup {0} : TimerFires(w, ml))
  /\ WF_vars(\E tx \in txs : SubmitReturns(tx))
  /\ WF_vars(SaveDone)
  /\ WF_vars(\E tx \in txs : SettleReturns(tx))
  /\ WF_vars(\E tx \in txs : CancelReturns(tx))
  /\ WF_vars(Sweep)
  /\ WF_vars(Boot)

-----------------------------------------------------------------------------
(* Type invariant *)

\* Every variable holds what its TypeScript type can hold.
TypeOK ==
  /\ chain \in Lobby
  /\ now \in Nat
  /\ mem \in LobbyRecord \cup {NoLobby}
  /\ up \in BOOLEAN
  /\ armed \subseteq Accounts
  /\ pouring \subseteq Accounts
  /\ watching \in BOOLEAN
  /\ joining \subseteq Conns \X Accounts
  /\ txs \subseteq Transaction
  /\ disk \in LobbyRecord \cup {NoLobby}
  /\ saves \in Seq(Save)
  /\ faults \in [ DOMAIN MaxFaults -> Nat ]
  /\ \A kind \in DOMAIN MaxFaults : faults[kind] =< MaxFaults[kind]

-----------------------------------------------------------------------------
(* Safety: the server never claims what the ledger did not do *)

\* The record in memory, the one on disk, and those on their way there.
Records == ({ mem, disk } \cup { saves[k].record : k \in DOMAIN saves }) \ {NoLobby}

\* A lobby the server calls settled or cancelled, in memory or in any snapshot
\* a restart may load, is so on the ledger, and the winners it announces are
\* the ones the program paid (lobby.ts maybeSettle, cancelIfExpired, init).
TerminalAgrees ==
  \A r \in Records :
    /\ r.status = "settled" => chain.status = "Settled" /\ r.winners = WinnerKeys(chain)
    /\ r.status = "cancelled" => chain.status = "Cancelled"

\* Every seat the server gives is paid for on the ledger, no wallet has two and
\* there are never more than the lobby's size, although confirmJoin awaits the
\* chain between its checks and the push (lobby.ts:269-288); and whoever has a
\* seat pours at the ledger's target, although the wait for the oracle delivers
\* zeros as well when the lobby was cancelled under it (anchorClient.ts:187).
SeatsPaid ==
  \A r \in Records :
    /\ \A i \in DOMAIN r.players : contains_player(chain, r.players[i].wallet)
    /\ \A i, j \in DOMAIN r.players : r.players[i].wallet = r.players[j].wallet => i = j
    /\ Len(r.players) =< Size
    /\ r.players # << >> => r.targetMl = chain.target_ml

\* The submission indices of the recorded results number them 0, 1, 2, ..., in
\* every snapshot: computeWinners has one first winner to give the remainder to
\* (lobby.ts:401-406).
IndicesNumberResults ==
  \A r \in Records :
    LET done == { i \in DOMAIN r.players : r.players[i].status = "done" }
    IN { r.players[i].submissionIndex : i \in done } = 0 .. Cardinality(done) - 1

\* A play timer is armed for exactly the players of an open lobby who have no
\* result, restarts and cancellations included: none is forgotten, none is
\* charged after the end (lobby.ts armTimer, clearTimer, init).
TimersCoverPlayers ==
  armed = IF Loaded /\ mem.status = "open" THEN Waiting(mem) ELSE {}

\* A result the server notes as submitted (submitTxSig) is the one the ledger
\* holds, also when a restart has recorded a second attempt while the first
\* one's transaction was still on its way (lobby.ts:410-420).
SubmittedAgrees ==
  \A r \in Records : \A i \in DOMAIN r.players :
    r.players[i].submitTxSig =>
      \E j \in Seats(chain) :
        /\ chain.players[j].player = r.players[i].wallet
        /\ chain.players[j].has_played
        /\ chain.players[j].poured_ml = r.players[i].pouredMl

Settlers == { tx \in txs : tx.op = "settle" /\ tx.alive }
SettleSaves == { k \in DOMAIN saves : saves[k].next = "settle" }

\* maybeSettle runs once at a time, though every report and every boot calls
\* it and it awaits the save and then the chain: one handler at most is between
\* its status check and its end, while it is nobody else finds the lobby open,
\* and a settling lobby has its handler unless a save of it failed, after which
\* only a restart helps (lobby.ts:435-462, 157).
OneSettler ==
  Loaded =>
    /\ \A t, u \in Settlers : t = u
    /\ \A j, k \in SettleSaves : j = k
    /\ Settlers = {} \/ SettleSaves = {}
    /\ Settlers # {} \/ SettleSaves # {} => mem.status \in {"settling", "cancelled"}
    /\ mem.status = "settling" /\ faults["save"] = 0 => Settlers # {} \/ SettleSaves # {}

\* Nothing that was recorded in r is missing or different in q.
Keeps(r, q) ==
  /\ Len(r.players) =< Len(q.players)
  /\ \A i \in DOMAIN r.players :
       /\ q.players[i].wallet = r.players[i].wallet
       /\ r.players[i].status = "done" =>
            /\ q.players[i].status = "done"
            /\ q.players[i].pouredMl = r.players[i].pouredMl
            /\ q.players[i].submissionIndex = r.players[i].submissionIndex
  /\ r.players # << >> => q.targetMl = r.targetMl
  /\ r.status = "settled" => q.status = "settled" /\ q.winners = r.winners

\* The file only ever moves on: a seat, a result, the target people pour at and
\* a settlement that were once written are in every later lobbies.json, across
\* restarts, failed saves and handlers that save while others wait
\* (persistence.ts:28-42, lobby.ts persist, init).
FileKeepsGame ==
  [][ disk # NoLobby => disk' # NoLobby /\ Keeps(disk, disk') ]_vars

\* Single attempt: while the process lives a recorded result never changes,
\* whichever of pour_stop, timer and reconnect come first (lobby.ts:390-407).
OneAttempt ==
  [][ Loaded /\ up' =>
      \A i \in DOMAIN mem.players :
        mem.players[i].status = "done" =>
          /\ mem'.players[i].wallet = mem.players[i].wallet
          /\ mem'.players[i].status = "done"
          /\ mem'.players[i].pouredMl = mem.players[i].pouredMl
          /\ mem'.players[i].submissionIndex = mem.players[i].submissionIndex ]_vars

-----------------------------------------------------------------------------
(* Liveness *)

Playing(w) == Loaded /\ mem.status = "open" /\ w \in Waiting(mem)

\* Nobody the server has seated blocks the game: a player without a result
\* gets one, or the lobby ends, or a crash takes the seat that was not saved
\* yet (docs/spec.md:64, lobby.ts:167, 529-569).
SeatedPlayersFinish ==
  \A w \in Accounts :
    Playing(w) ~>
      \/ Loaded /\ w \in Seated(mem) \ Waiting(mem)
      \/ Loaded /\ w \notin Seated(mem)
      \/ mem = NoLobby /\ up
      \/ Loaded /\ mem.status = "cancelled"

\* Settling is a state of passage: the settlement comes back, or a restart
\* opens the lobby again (lobby.ts:157, 439-478).
SettlingEnds == (Loaded /\ mem.status = "settling") ~> (Loaded /\ mem.status # "settling")

-----------------------------------------------------------------------------
(* What comments and documents say and the code does not keep *)

\* chain/client.ts:33-37: the wait ends when the callback landed and the lobby
\* is Open; a lobby the server offers therefore has its round.
OpenHasRound == Loaded /\ mem.status = "open" => mem.targetMl # 0

\* server/test/lobby.test.ts:324: what arrives late must not reopen a cancelled
\* lobby; said there of the oracle's callback, here of any handler.
CancelledStaysCancelled ==
  [][ Loaded /\ up' /\ mem.status = "cancelled" => mem'.status = "cancelled" ]_vars

\* simulation.ts:88-92: the winners, ordered by submissionIndex, are ordered as
\* the on-chain rule wants them, so a settlement of a completely reported lobby
\* names the accounts settle_lobby accepts.
SettleNamesWinners ==
  \A tx \in txs :
    tx.op = "settle" /\ chain.status = "Open" /\ chain.played_count = chain.size =>
      tx.accts = WinnerKeys(chain)

\* docs/spec.md:27: with all seats paid and all results recorded the server
\* settles automatically.  Said here only of lobbies with one winner.
SettlesAutomatically ==
  ( /\ chain.status = "Open"
    /\ chain.played_count = chain.size
    /\ Cardinality(WinnerIndices(chain)) = 1 ) ~> ~ Live(chain)

\* docs/spec.md:28: the play timeout keeps a paid but absent player from
\* blocking settlement forever: who has paid into a lobby the server has open
\* gets a result, or the lobby ends.
PaidPlayersFinish ==
  \A w \in Accounts :
    Loaded /\ mem.status = "open" /\ contains_player(chain, w) ~>
      \/ ~ Live(chain)
      \/ \E i \in Seats(chain) : chain.players[i].player = w /\ chain.players[i].has_played
=============================================================================
