---------------------------- MODULE ServerProcess -----------------------------
(***************************************************************************)
(* The server process over its restarts (index.ts) with all its lobbies,   *)
(* in the anchor mode: which lobby is created when, offered, remembered    *)
(* and ended.  A round is one step here, its inside is LobbyServer; what   *)
(* remains are the handlers that wait for a transaction, a save or the     *)
(* oracle, and main, which waits for the first lobby before it listens and *)
(* exits when anything it waits for throws.                                *)
(***************************************************************************)
EXTENDS Integers, FiniteSets, SequencesExt

CONSTANTS
  IDS_PER_MS,   \* the factor of nextLobbyId
  MaxLobbies,   \* rounds are played while there are fewer lobbies on the ledger
  MaxTroubles   \* deaths of the process, failing calls and saves, timeouts, together

ASSUME ProcessBounds ==
  /\ MaxLobbies \in Nat /\ MaxTroubles \in Nat
  /\ IDS_PER_MS \in Nat /\ IDS_PER_MS > MaxLobbies + MaxTroubles

VARIABLES
  phase,      \* of the process: down, starting (main awaits a lobby), listening
  now,        \* the clock moves on, if only by a millisecond, between two processes
  idCounter,
  lobbies,    \* LobbyManager.lobbies
  calls,      \* transactions that handlers of this process wait for
  watches,    \* waitForRoundFulfilled polls of this process
  disk,       \* lobbies.json
  saves,      \* JsonStore.queue, with what the caller of each save does next
  ledger,     \* status of the lobby accounts
  old,        \* lobbies created more than CANCEL_AFTER_S ago
  boots, troubles

process == << phase, now, idCounter, boots >>
vars == << process, lobbies, calls, watches, disk, saves, ledger, old, troubles >>

LobbyRecord == [ status : {"awaiting_randomness", "open", "settling", "settled", "cancelled"},
                 complete : BOOLEAN ]

NoLobbies == [ id \in {} |-> 0 ]
Put(map, id, value) == [ i \in DOMAIN map \cup {id} |-> IF i = id THEN value ELSE map[i] ]

In(map, status) == { id \in DOMAIN map : map[id].status = status }
OnLedger(statuses) == { id \in DOMAIN ledger : ledger[id] \in statuses }

\* main: it is main that waits for this handler.
Handler(op, id, main) == [ op |-> op, id |-> id, main |-> main ]
Handlers(ops) == [ op : ops, id : Nat, main : BOOLEAN ]

SaveOf(record, next) == [ record |-> record, next |-> next ]
Persist(next) == saves' = Append(saves, SaveOf(lobbies', next))

Trouble == troubles < MaxTroubles /\ troubles' = troubles + 1

Init ==
  /\ phase = "down" /\ now = 0 /\ idCounter = 0 /\ boots = 0
  /\ lobbies = NoLobbies /\ calls = {} /\ watches = {}
  /\ disk = NoLobbies /\ saves = << >>
  /\ ledger = NoLobbies /\ old = {} /\ troubles = 0

-----------------------------------------------------------------------------
(* The process *)

\* The state of the process is gone.
Dies ==
  /\ phase' = "down"
  /\ lobbies' = NoLobbies /\ calls' = {} /\ watches' = {} /\ saves' = << >>
  /\ UNCHANGED << now, idCounter, boots >>

\* Mutant: main logs as well, and goes on waiting.
ThrowsLogged(h) ==
  calls' = calls \ {h} /\ watches' = watches \ {h} /\ UNCHANGED << process, lobbies, saves >>

\* A handler throws: main exits, anything else is logged.
Throws(h) ==
  IF h.main THEN Dies
  ELSE calls' = calls \ {h} /\ watches' = watches \ {h} /\ UNCHANGED << process, lobbies, saves >>

Live(id) == ledger[id] \in {"AwaitingRandomness", "Open"}

\* The transaction of a call is accepted by the program.
Lands(c) ==
  \/ /\ c.op = "create" /\ c.id \notin DOMAIN ledger
     /\ ledger' = Put(ledger, c.id, "AwaitingRandomness")
  \/ c.op = "settle" /\ ledger[c.id] = "Open" /\ ledger' = [ ledger EXCEPT ![c.id] = "Settled" ]
  \/ c.op = "cancel" /\ Live(c.id) /\ ledger' = [ ledger EXCEPT ![c.id] = "Cancelled" ]

\* Killed, or stopped by a signal: neither waits for the saves, and one of the
\* transactions on their way may land all the same.
Crash ==
  /\ phase # "down" /\ Trouble
  /\ UNCHANGED ledger \/ \E c \in calls : Lands(c)
  /\ Dies
  /\ UNCHANGED << disk, old >>

\* Mutant: the counter is added to the clock.
IdByAddition(ms, counter) == ms + counter

LobbyId(ms, counter) == (ms * IDS_PER_MS) + (counter % IDS_PER_MS)

\* Mutant: lobbies that have ended count as well.
NoneKnown(map) == DOMAIN map = {}

listOpenEmpty(map) == In(map, "open") = {}

\* ensureOpenLobby up to the transaction of create_lobby.
Created(map, ms, counter, main) ==
  IF listOpenEmpty(map) THEN { Handler("create", LobbyId(ms, counter), main) } ELSE {}

Reopened(r) == IF r.status = "settling" THEN [ r EXCEPT !.status = "open" ] ELSE r
Ready(r) == r.status = "open" /\ r.complete
SettlingUpTo(map, ids, k) ==
  [ id \in DOMAIN map |-> IF \E j \in 1 .. k : ids[j] = id
                          THEN [ map[id] EXCEPT !.status = "settling" ] ELSE map[id] ]

\* init and ensureOpenLobby; with a lobby to offer main listens.
Boot ==
  /\ phase = "down"
  /\ now' = now + 1 /\ idCounter' = 1 /\ boots' = boots + 1
  /\ LET loaded == [ id \in DOMAIN disk |-> Reopened(disk[id]) ]
         ready == SetToSeq({ id \in DOMAIN loaded : Ready(loaded[id]) })
     IN /\ lobbies' = SettlingUpTo(loaded, ready, Len(ready))
        /\ saves' = [ k \in DOMAIN ready |->
                        SaveOf(SettlingUpTo(loaded, ready, k), Handler("settle", ready[k], FALSE)) ]
        /\ watches' = { Handler("watch", id, FALSE) : id \in In(loaded, "awaiting_randomness") }
  /\ calls' = Created(lobbies', now', 1, TRUE)
  /\ phase' = IF calls' = {} THEN "listening" ELSE "starting"
  /\ UNCHANGED << disk, ledger, old, troubles >>

-----------------------------------------------------------------------------
(* Creating a lobby *)

Waits(c, op) == c.op = op /\ c \in calls

CreateReturns(c) ==
  /\ Waits(c, "create") /\ Lands(c)
  /\ lobbies' = Put(lobbies, c.id, [ status |-> "awaiting_randomness", complete |-> FALSE ])
  /\ calls' = calls \ {c}
  /\ Persist(Handler("watch", c.id, c.main))
  /\ UNCHANGED << process, watches, disk, old, troubles >>

\* The call throws; the transaction may have landed all the same.
CreateFails(c, landed) ==
  /\ Waits(c, "create") /\ Trouble
  /\ IF landed THEN Lands(c) ELSE UNCHANGED ledger
  /\ Throws(c)
  /\ UNCHANGED << disk, old >>

OracleFulfills(id) ==
  /\ id \in OnLedger({"AwaitingRandomness"})
  /\ ledger' = [ ledger EXCEPT ![id] = "Open" ]
  /\ UNCHANGED << process, lobbies, calls, watches, disk, saves, old, troubles >>

RoundKnown(w) ==
  /\ w \in watches /\ ledger[w.id] # "AwaitingRandomness"
  /\ watches' = watches \ {w}
  /\ IF lobbies[w.id].status = "awaiting_randomness"
     THEN /\ lobbies' = [ lobbies EXCEPT ![w.id].status = "open" ]
          /\ Persist(Handler("opened", w.id, w.main))
          /\ UNCHANGED phase
     ELSE /\ phase' = IF w.main THEN "listening" ELSE phase
          /\ UNCHANGED << lobbies, saves >>
  /\ UNCHANGED << now, idCounter, boots, calls, disk, ledger, old, troubles >>

WatchTimesOut(w) ==
  /\ w \in watches /\ Trouble
  /\ Throws(w)
  /\ UNCHANGED << disk, ledger, old >>

-----------------------------------------------------------------------------
(* Playing, settling and cancelling *)

\* The last result of a full lobby: recordResult and maybeSettle.
RoundPlayed(id) ==
  /\ phase = "listening" /\ Cardinality(DOMAIN ledger) < MaxLobbies
  /\ id \in In(lobbies, "open") /\ ~ lobbies[id].complete /\ ledger[id] = "Open"
  /\ lobbies' = [ lobbies EXCEPT ![id] = [ status |-> "settling", complete |-> TRUE ] ]
  /\ Persist(Handler("settle", id, FALSE))
  /\ UNCHANGED << process, calls, watches, disk, ledger, old, troubles >>

SettleReturns(c) ==
  /\ Waits(c, "settle") /\ Lands(c)
  /\ lobbies' = [ lobbies EXCEPT ![c.id].status = "settled" ]
  /\ calls' = calls \ {c}
  /\ Persist(Handler("settled", c.id, FALSE))
  /\ UNCHANGED << process, watches, disk, old, troubles >>

\* A failed settlement leaves an open lobby, which only a restart settles.
SettleThrows(c) ==
  /\ lobbies' = [ lobbies EXCEPT ![c.id].status = "open" ]
  /\ calls' = calls \ {c}
  /\ Persist(Handler("done", c.id, FALSE))
  /\ UNCHANGED << process, watches, disk, old >>

SettleRejected(c) ==
  /\ Waits(c, "settle") /\ ledger[c.id] # "Open"
  /\ SettleThrows(c)
  /\ UNCHANGED << ledger, troubles >>

SettleFails(c, landed) ==
  /\ Waits(c, "settle") /\ Trouble
  /\ IF landed THEN Lands(c) ELSE UNCHANGED ledger
  /\ SettleThrows(c)

\* Mutant: the sweep marks the lobby and then sends the transaction.
MarkedAtOnce(id) == [ lobbies EXCEPT ![id].status = "cancelled" ]

BeforeCancel(id) == lobbies

\* sweepExpired cancels one lobby after the other.
Sweep(id) ==
  /\ phase = "listening" /\ id \in old
  /\ id \in In(lobbies, "open") \cup In(lobbies, "awaiting_randomness") /\ ~ Ready(lobbies[id])
  /\ \A c \in calls : c.op # "cancel"
  /\ calls' = calls \cup { Handler("cancel", id, FALSE) }
  /\ lobbies' = BeforeCancel(id)
  /\ UNCHANGED << process, watches, disk, saves, ledger, old, troubles >>

CancelReturns(c) ==
  /\ Waits(c, "cancel") /\ Lands(c)
  /\ lobbies' = [ lobbies EXCEPT ![c.id].status = "cancelled" ]
  /\ calls' = calls \ {c}
  /\ Persist(Handler("done", c.id, FALSE))
  /\ UNCHANGED << process, watches, disk, old, troubles >>

CancelFails(c, landed) ==
  /\ Waits(c, "cancel")
  /\ IF landed
     THEN Lands(c) /\ Trouble
     ELSE (IF Live(c.id) THEN Trouble ELSE UNCHANGED troubles) /\ UNCHANGED ledger
  /\ Throws(c)
  /\ UNCHANGED << disk, old >>

DayPasses ==
  /\ old # DOMAIN ledger /\ old' = DOMAIN ledger
  /\ UNCHANGED << process, lobbies, calls, watches, disk, saves, ledger, troubles >>

-----------------------------------------------------------------------------
(* The store *)

\* Mutant: a lobby is written to the file only once its round is there.
DiskLags(record) == [ id \in DOMAIN record \ In(record, "awaiting_randomness") |-> record[id] ]

Written(record) == record

\* Mutant: the settlement is announced before the transaction.
EmitsEarly(op) == op = "settle"

EmitsSettled(op) == op = "settled"

\* The head of the queue is written and its caller goes on; emitSettled has
\* ensureOpenLobby run without anybody waiting for it.
SaveDone ==
  /\ saves # << >>
  /\ disk' = Written(Head(saves).record) /\ saves' = Tail(saves)
  /\ LET h == Head(saves).next
         ensured == IF EmitsSettled(h.op) THEN Created(lobbies, now, idCounter + 1, FALSE) ELSE {}
     IN /\ watches' = watches \cup (IF h.op = "watch" THEN {h} ELSE {})
        /\ calls' = calls \cup ensured \cup (IF h.op = "settle" THEN {h} ELSE {})
        /\ idCounter' = idCounter + Cardinality(ensured)
        /\ phase' = IF h.op = "opened" /\ h.main THEN "listening" ELSE phase
  /\ UNCHANGED << now, boots, lobbies, ledger, old, troubles >>

SaveFails ==
  /\ saves # << >> /\ Trouble
  /\ IF Head(saves).next.main THEN Dies
     ELSE saves' = Tail(saves) /\ UNCHANGED << process, lobbies, calls, watches >>
  /\ UNCHANGED << disk, ledger, old >>

-----------------------------------------------------------------------------

Next ==
  \/ Boot \/ Crash
  \/ \E c \in calls : CreateReturns(c) \/ SettleReturns(c) \/ SettleRejected(c) \/ CancelReturns(c)
  \/ \E c \in calls, landed \in BOOLEAN :
       CreateFails(c, landed) \/ SettleFails(c, landed) \/ CancelFails(c, landed)
  \/ \E id \in DOMAIN ledger : OracleFulfills(id)
  \/ \E w \in watches : RoundKnown(w) \/ WatchTimesOut(w)
  \/ \E id \in DOMAIN lobbies : RoundPlayed(id) \/ Sweep(id)
  \/ SaveDone \/ SaveFails
  \/ DayPasses

Spec == Init /\ [][Next]_vars

\* Fairness: the platform starts the process, calls return, the store writes,
\* polls see the new status, the oracle answers.  Nobody has to play.
FairSpec ==
  /\ Spec
  /\ WF_vars(Boot) /\ WF_vars(SaveDone)
  /\ WF_vars(\E c \in calls : CreateReturns(c))
  /\ WF_vars(\E c \in calls : SettleReturns(c) \/ SettleRejected(c))
  /\ WF_vars(\E id \in DOMAIN ledger : OracleFulfills(id))
  /\ WF_vars(\E w \in watches : RoundKnown(w))

-----------------------------------------------------------------------------
(* Properties *)

Records == { lobbies, disk } \cup { saves[k].record : k \in DOMAIN saves }

Asking == { saves[k].next : k \in DOMAIN saves }

\* Every variable holds what its TypeScript type can hold; main is waiting for
\* one of the handlers exactly while the process starts.
TypeOK ==
  /\ phase \in {"down", "starting", "listening"}
  /\ phase = "starting" <=> \E h \in calls \cup watches \cup Asking : h.main
  /\ {now, idCounter, boots} \subseteq Nat /\ troubles \in 0 .. MaxTroubles
  /\ \A m \in Records : DOMAIN m \subseteq Nat /\ \A id \in DOMAIN m : m[id] \in LobbyRecord
  /\ calls \subseteq Handlers({"create", "settle", "cancel"})
  /\ watches \subseteq Handlers({"watch"})
  /\ Asking \subseteq Handlers({"watch", "opened", "settle", "settled", "done"})
  /\ \A id \in DOMAIN ledger : ledger[id] \in {"AwaitingRandomness", "Open", "Settled", "Cancelled"}
  /\ old \subseteq DOMAIN ledger

\* A new lobby has an id no lobby had before, in this process or an earlier one,
\* on the ledger or in the file (lobby.ts:182-186).
IdsFresh ==
  \A c \in calls : c.op = "create" => c.id \notin DOMAIN ledger \cup DOMAIN disk \cup DOMAIN lobbies

\* A lobby is offered, and its players pay, only once it is in the file: no
\* restart forgets a lobby with money in it (lobby.ts:223-227).
OfferedIsSaved == In(lobbies, "open") \subseteq DOMAIN disk

\* A lobby the server calls settled or cancelled, in memory or in any snapshot,
\* is so on the ledger, whatever fails and whichever call returns when
\* (lobby.ts:454-475, 497-504).
EndsAgree ==
  \A m \in Records :
    /\ In(m, "settled") \subseteq OnLedger({"Settled"})
    /\ In(m, "cancelled") \subseteq OnLedger({"Cancelled"})

\* Settlements that end together, resumed watches and restarts multiply lobbies
\* no further than one for every start of the process: each costs rent and
\* oracle fees (index.ts:47-56, lobby.ts:156-165).
LobbiesBounded == Cardinality(OnLedger({"AwaitingRandomness", "Open"})) =< boots

\* However the process ends, it listens again, as long as the oracle answers
\* and the troubles end: main waits for a new lobby although an older one may
\* open first (index.ts:43-59).
ServesAgain == phase = "down" ~> phase = "listening"

Quiet == troubles = 0 /\ old = {}

\* While nothing fails and nothing expires, a round that ends is followed by a
\* lobby to join (index.ts:46-55).
OpensAgain == phase = "listening" /\ Quiet ~> In(lobbies, "open") # {} \/ ~ Quiet

\* index.ts:46: at least one open lobby is kept available at all times.
KeepsOneOpen == phase = "listening" ~> In(lobbies, "open") # {}
=============================================================================
