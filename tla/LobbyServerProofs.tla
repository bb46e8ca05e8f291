-------------------------- MODULE LobbyServerProofs --------------------------
(***************************************************************************)
(* Proofs about LobbyServer for every value of its constants: any number   *)
(* of wallets and join requests, any seats, results, instants and faults.  *)
(***************************************************************************)
EXTENDS LobbyServer, ZapfLobbyProofs, SequenceTheorems

-----------------------------------------------------------------------------
(* The inductive invariant *)

Done(r) == { i \in DOMAIN r.players : r.players[i].status = "done" }

\* What a record says by itself, in memory or in any snapshot: who may be
\* seated, and which indices results have.
RosterSound(r) ==
  /\ \A i, j \in DOMAIN r.players : r.players[i].wallet = r.players[j].wallet => i = j
  /\ Len(r.players) =< Size
  /\ { r.players[i].submissionIndex : i \in Done(r) } = 0 .. Cardinality(Done(r)) - 1
  /\ \A i \in DOMAIN r.players : r.players[i].submitTxSig => r.players[i].status = "done"
  /\ r.status = "awaiting_randomness" => r.players = << >>

\* The ledger holds this result of this wallet.
Holds(c, wallet, ml) ==
  \E j \in Seats(c) : /\ c.players[j].player = wallet
                      /\ c.players[j].has_played
                      /\ c.players[j].poured_ml = ml

\* The round of the record is the one the oracle has drawn on the ledger.
Drawn(r, c) == c.status # "AwaitingRandomness" /\ r.targetMl = c.target_ml

\* Somebody pours in the record's round, or still may.
InRound(r) == r.status \in { "open", "settling" } \/ r.players # << >>

\* What a record claims about the ledger is so on the ledger.
Vouched(r, c) ==
  /\ r.status = "settled" => c.status = "Settled" /\ r.winners = WinnerKeys(c)
  /\ r.status = "cancelled" => c.status = "Cancelled"
  /\ \A i \in DOMAIN r.players : contains_player(c, r.players[i].wallet)
  /\ \A i \in DOMAIN r.players :
       r.players[i].submitTxSig => Holds(c, r.players[i].wallet, r.players[i].pouredMl)
  /\ InRound(r) => Drawn(r, c)

RecordsSound == \A r \in Records : RosterSound(r) /\ Vouched(r, chain)

\* A transaction that landed has had its effect.
HadEffect(tx, c) ==
  /\ tx.op = "submit" => Holds(c, tx.accts[1], tx.ml)
  /\ tx.op = "settle" => c.status = "Settled" /\ tx.accts = WinnerKeys(c)
  /\ tx.op = "cancel" => c.status = "Cancelled"

\* Nobody is left to join or to pour.
Finished(r) == Full(r) /\ Waiting(r) = {}

\* Every seat has the result this call reports.
Reporting(tx, r) ==
  \E i \in DOMAIN r.players : /\ r.players[i].wallet = tx.accts[1]
                              /\ r.players[i].status = "done"
                              /\ r.players[i].pouredMl = tx.ml

\* A call whose handler still waits belongs to the record in memory.
Awaited(tx, r) ==
  /\ tx.op = "submit" => Reporting(tx, r)
  /\ tx.op = "settle" => Finished(r)

CallsSound ==
  \A tx \in txs :
    /\ tx.op = "submit" => Len(tx.accts) = 1
    /\ tx.outcome = "landed" => HadEffect(tx, chain)
    /\ tx.alive => Loaded /\ Awaited(tx, mem)

\* A dead process has no state, and a save is one of a record in memory.
NothingLeft ==
  /\ ~ up => mem = NoLobby /\ pouring = {} /\ joining = {} /\ ~ watching
  /\ saves # << >> => Loaded

\* Settling starts, and is under way, only when everybody has a result.
SettlesFinished ==
  Loaded /\ (mem.status = "settling" \/ \E k \in DOMAIN saves : saves[k].next = "settle")
    => Finished(mem)

IInv ==
  /\ TypeOK
  /\ RosterConsistent(chain)
  /\ RecordsSound
  /\ CallsSound
  /\ NothingLeft
  /\ SettlesFinished
  /\ TimersCoverPlayers

-----------------------------------------------------------------------------
(* Records *)

\* A seat of a record holds a well-typed player.
LEMMA RecordTyped ==
  ASSUME NEW r \in LobbyRecord
  PROVE  /\ r.players \in Seq(PlayerRecord)
         /\ Len(r.players) \in Nat
         /\ DOMAIN r.players = 1 .. Len(r.players)
         /\ \A i \in DOMAIN r.players : r.players[i] \in PlayerRecord
         /\ Seated(r) \subseteq Accounts
         /\ Waiting(r) \subseteq Seated(r)
<1>1. r.players \in Seq(PlayerRecord)
  BY DEF LobbyRecord
<1>2. \A i \in DOMAIN r.players : r.players[i] \in PlayerRecord
  BY <1>1
<1>3. Seated(r) \subseteq Accounts /\ Waiting(r) \subseteq Seated(r)
  BY <1>2 DEF Seated, Waiting, PlayerRecord
<1> QED BY <1>1, <1>2, <1>3

\* The results of a record, and how many there are.
LEMMA DoneTyped ==
  ASSUME NEW r \in LobbyRecord
  PROVE  /\ Done(r) \subseteq DOMAIN r.players
         /\ IsFiniteSet(Done(r))
         /\ Cardinality(Done(r)) \in Nat
         /\ DoneCount(r) = Cardinality(Done(r))
         /\ \A i \in DOMAIN r.players : i \notin Done(r) <=> r.players[i].status = "playing"
<1>1. IsFiniteSet(DOMAIN r.players)
  BY RecordTyped, FS_Interval
<1>2. Done(r) \in SUBSET DOMAIN r.players
  BY DEF Done
<1>3. IsFiniteSet(Done(r)) /\ Cardinality(Done(r)) \in Nat
  BY <1>1, <1>2, FS_Subset, FS_CardinalityType
<1>4. \A i \in DOMAIN r.players : i \notin Done(r) <=> r.players[i].status = "playing"
  BY RecordTyped DEF Done, PlayerRecord
<1>5. DoneCount(r) = Cardinality(Done(r))
  BY DEF DoneCount, Done
<1> QED BY <1>2, <1>3, <1>4, <1>5

\* Recorded results stay what they are.
ResultsKept(r, q) ==
  \A i \in DOMAIN r.players : r.players[i].status = "done" =>
    /\ i \in DOMAIN q.players
    /\ q.players[i].wallet = r.players[i].wallet
    /\ q.players[i].status = "done"
    /\ q.players[i].pouredMl = r.players[i].pouredMl
    /\ q.players[i].submissionIndex = r.players[i].submissionIndex

\* Seats stay where they are, and who is seated pours at the same target.
SeatsKept(r, q) ==
  /\ DOMAIN r.players \subseteq DOMAIN q.players
  /\ \A i \in DOMAIN r.players : q.players[i].wallet = r.players[i].wallet
  /\ r.players # << >> => q.targetMl = r.targetMl

\* What a handler may make of the record while others wait for their calls.
Succeeds(r, q) == ResultsKept(r, q) /\ SeatsKept(r, q) /\ (Finished(r) => Finished(q))

\* A call that belonged to the record belongs to what the record becomes.
LEMMA AwaitedKept ==
  ASSUME NEW r, NEW q, Succeeds(r, q), NEW tx, Awaited(tx, r)
  PROVE  Awaited(tx, q)
BY DEF Awaited, Reporting, Succeeds, ResultsKept

\* A handler that leaves the record alone.
LEMMA SucceedsItself ==
  ASSUME NEW r
  PROVE  Succeeds(r, r)
BY DEF Succeeds, ResultsKept, SeatsKept

\* What an action may write: a sound record the ledger vouches for.
GoodRecord(q, c) == q \in LobbyRecord /\ RosterSound(q) /\ Vouched(q, c)

\* Status, target and winners change, the players stay: the round becomes
\* known, settling starts, is given up or succeeds, the lobby is cancelled.
LEMMA Relabelled ==
  ASSUME NEW c, NEW r, GoodRecord(r, c), NEW q \in LobbyRecord, q.players = r.players,
         q.status # "awaiting_randomness",
         r.players # << >> => q.targetMl = r.targetMl,
         q.status = "settled" => c.status = "Settled" /\ q.winners = WinnerKeys(c),
         q.status = "cancelled" => c.status = "Cancelled",
         InRound(q) => Drawn(q, c) \/ (InRound(r) /\ q.targetMl = r.targetMl)
  PROVE  /\ GoodRecord(q, c)
         /\ Succeeds(r, q)
         /\ Waiting(q) = Waiting(r)
         /\ Full(q) <=> Full(r)
<1>1. Done(q) = Done(r) /\ Waiting(q) = Waiting(r) /\ (Full(q) <=> Full(r))
  BY DEF Done, Waiting, Full
<1>2. RosterSound(q)
  BY <1>1 DEF GoodRecord, RosterSound
<1>3. Vouched(q, c)
  BY DEF GoodRecord, Vouched, Drawn
<1>4. Succeeds(r, q)
  BY <1>1 DEF Succeeds, ResultsKept, SeatsKept, Finished
<1> QED BY <1>1, <1>2, <1>3, <1>4 DEF GoodRecord

\* A record that gets another list of players.
HavingPlayers(r, ps) == [ r EXCEPT !.players = ps ]

\* It stays a record, and nothing else in it changes.
LEMMA WithPlayers ==
  ASSUME NEW r \in LobbyRecord, NEW ps \in Seq(PlayerRecord)
  PROVE  /\ HavingPlayers(r, ps) \in LobbyRecord
         /\ HavingPlayers(r, ps).players = ps
         /\ HavingPlayers(r, ps).status = r.status
         /\ HavingPlayers(r, ps).winners = r.winners
         /\ HavingPlayers(r, ps).targetMl = r.targetMl
BY DEF LobbyRecord, HavingPlayers

\* What confirmJoin makes of a record.
WithSeat(r, w) ==
  [ r EXCEPT !.players = Append(@, [ wallet |-> w, status |-> "playing", pouredMl |-> 0,
                                     submissionIndex |-> 0, submitTxSig |-> FALSE ]) ]

\* The new seat is the wallet's only one, and it has no result.
LEMMA JoinedRecord ==
  ASSUME NEW c, NEW r, GoodRecord(r, c), NEW w \in Accounts,
         r.status = "open", w \notin Seated(r), ~ Full(r), contains_player(c, w),
         NEW q, q = WithSeat(r, w)
  PROVE  /\ GoodRecord(q, c)
         /\ Succeeds(r, q)
         /\ Waiting(q) = Waiting(r) \cup {w}
         /\ q.status = "open"
<1> DEFINE e == [ wallet |-> w, status |-> "playing", pouredMl |-> 0,
                  submissionIndex |-> 0, submitTxSig |-> FALSE ]
           n == Len(r.players) + 1
<1>1. r \in LobbyRecord /\ RosterSound(r) /\ Vouched(r, c)
  BY DEF GoodRecord
<1>2. e \in PlayerRecord
  BY LobbyNumbers DEF PlayerRecord
<1>3. /\ e.wallet = w /\ e.status = "playing" /\ e.submitTxSig = FALSE
  OBVIOUS
<1> HIDE DEF e
<1>4. /\ r.players \in Seq(PlayerRecord)
      /\ Len(r.players) \in Nat
      /\ DOMAIN r.players = 1 .. Len(r.players)
  BY <1>1, RecordTyped
<1>5. /\ q \in LobbyRecord /\ q.players = Append(r.players, e)
      /\ q.status = "open" /\ q.targetMl = r.targetMl
  <2>1. PICK ps : ps = Append(r.players, e)
    OBVIOUS
  <2>2. q = HavingPlayers(r, ps)
    BY <2>1 DEF e, HavingPlayers, WithSeat
  <2>3. ps \in Seq(PlayerRecord)
    BY <1>2, <1>4, <2>1
  <2>4. q \in LobbyRecord /\ q.players = ps /\ q.status = "open" /\ q.targetMl = r.targetMl
    BY <1>1, <2>2, <2>3, WithPlayers
  <2> QED BY <2>1, <2>4
<1>6. /\ DOMAIN q.players = DOMAIN r.players \cup {n}
      /\ n \notin DOMAIN r.players
      /\ Len(q.players) = n
      /\ q.players[n] = e
      /\ \A i \in DOMAIN r.players : q.players[i] = r.players[i]
  BY <1>2, <1>4, <1>5
<1>7. Done(q) = Done(r)
  BY <1>3, <1>6 DEF Done
<1>8. Waiting(q) = Waiting(r) \cup {w}
  BY <1>3, <1>6 DEF Waiting
<1>9. RosterSound(q)
  <2>1. ASSUME NEW i \in DOMAIN q.players, NEW j \in DOMAIN q.players,
               q.players[i].wallet = q.players[j].wallet
        PROVE  i = j
    BY <1>1, <1>3, <1>6, <2>1 DEF RosterSound, Seated
  <2>2. Len(q.players) =< Size
    BY <1>4, <1>6, ServerInputs DEF Full, MIN_LOBBY_SIZE, MAX_LOBBY_SIZE
  <2>3. { q.players[i].submissionIndex : i \in Done(q) } =
          { r.players[i].submissionIndex : i \in Done(r) }
    BY <1>6, <1>7 DEF Done
  <2>4. \A i \in DOMAIN q.players : q.players[i].submitTxSig => q.players[i].status = "done"
    BY <1>1, <1>3, <1>6 DEF RosterSound
  <2> QED BY <1>1, <1>5, <1>7, <2>1, <2>2, <2>3, <2>4 DEF RosterSound
<1>10. Vouched(q, c)
  BY <1>1, <1>3, <1>5, <1>6 DEF Vouched, InRound, Drawn
<1>11. Succeeds(r, q)
  BY <1>5, <1>6 DEF Succeeds, ResultsKept, SeatsKept, Finished
<1> QED BY <1>5, <1>8, <1>9, <1>10, <1>11 DEF GoodRecord

\* A seated wallet has exactly one seat, and find returns it.
LEMMA SeatFound ==
  ASSUME NEW r, RosterSound(r), NEW w \in Seated(r)
  PROVE  /\ SeatOf(r, w) \in DOMAIN r.players
         /\ \A i \in DOMAIN r.players : r.players[i].wallet = w <=> i = SeatOf(r, w)
         /\ w \in Waiting(r) => r.players[SeatOf(r, w)].status = "playing"
<1>1. \E i \in DOMAIN r.players : r.players[i].wallet = w
  BY DEF Seated
<1>2. SeatOf(r, w) \in DOMAIN r.players /\ r.players[SeatOf(r, w)].wallet = w
  BY <1>1, Zenon DEF SeatOf
<1>3. \A i \in DOMAIN r.players : r.players[i].wallet = w <=> i = SeatOf(r, w)
  BY <1>2 DEF RosterSound
<1>4. w \in Waiting(r) => r.players[SeatOf(r, w)].status = "playing"
  BY <1>3 DEF Waiting
<1> QED BY <1>2, <1>3, <1>4

\* A record in which one seat is written over.
SeatReplaced(r, s, p) == [ r EXCEPT !.players[s] = p ]

\* It stays a record, and the other seats stay what they are.
LEMMA SeatWritten ==
  ASSUME NEW r \in LobbyRecord, NEW s \in DOMAIN r.players, NEW p \in PlayerRecord
  PROVE  /\ SeatReplaced(r, s, p) \in LobbyRecord
         /\ SeatReplaced(r, s, p).status = r.status
         /\ SeatReplaced(r, s, p).winners = r.winners
         /\ SeatReplaced(r, s, p).targetMl = r.targetMl
         /\ DOMAIN SeatReplaced(r, s, p).players = DOMAIN r.players
         /\ Len(SeatReplaced(r, s, p).players) = Len(r.players)
         /\ SeatReplaced(r, s, p).players[s] = p
         /\ \A i \in DOMAIN r.players \ {s} : SeatReplaced(r, s, p).players[i] = r.players[i]
<1> DEFINE ps == [ r.players EXCEPT ![s] = p ]
<1>1. r.players \in Seq(PlayerRecord)
  BY RecordTyped
<1>2. /\ ps \in Seq(PlayerRecord)
      /\ DOMAIN ps = DOMAIN r.players
      /\ Len(ps) = Len(r.players)
      /\ ps[s] = p
      /\ \A i \in DOMAIN r.players \ {s} : ps[i] = r.players[i]
  BY <1>1
<1>3. SeatReplaced(r, s, p) = HavingPlayers(r, ps)
  BY DEF SeatReplaced, HavingPlayers
<1> HIDE DEF ps
<1> QED BY <1>2, <1>3, WithPlayers

\* What recordResult makes of a record before it reports.
WithResult(r, w, ml) ==
  [ r EXCEPT !.players[SeatOf(r, w)] =
      [ @ EXCEPT !.status = "done", !.pouredMl = ml, !.submissionIndex = DoneCount(r) ] ]

\* The result of a waiting player gets the next index, the other seats stay, and
\* nobody else's result is touched.
LEMMA MarkedRecord ==
  ASSUME NEW c, NEW r, GoodRecord(r, c), r.status = "open",
         NEW w \in Waiting(r), NEW ml \in 0 .. OVERFLOW_SENTINEL,
         NEW q, q = WithResult(r, w, ml)
  PROVE  /\ GoodRecord(q, c)
         /\ Succeeds(r, q)
         /\ Waiting(q) = Waiting(r) \ {w}
         /\ q.status = "open"
         /\ \E i \in DOMAIN q.players : /\ q.players[i].wallet = w
                                        /\ q.players[i].status = "done"
                                        /\ q.players[i].pouredMl = ml
<1> DEFINE s == SeatOf(r, w)
           n == Cardinality(Done(r))
           p == [ r.players[s] EXCEPT !.status = "done", !.pouredMl = ml,
                                      !.submissionIndex = DoneCount(r) ]
<1>1. r \in LobbyRecord /\ RosterSound(r) /\ Vouched(r, c)
  BY DEF GoodRecord
<1>2. /\ s \in DOMAIN r.players
      /\ \A i \in DOMAIN r.players : r.players[i].wallet = w <=> i = s
      /\ r.players[s].status = "playing"
  BY <1>1, RecordTyped, SeatFound
<1>3. /\ Done(r) \subseteq DOMAIN r.players /\ IsFiniteSet(Done(r)) /\ n \in Nat
      /\ DoneCount(r) = n /\ s \notin Done(r)
  BY <1>1, <1>2, DoneTyped
<1>4. /\ p \in PlayerRecord /\ p.wallet = w /\ p.status = "done"
      /\ p.pouredMl = ml /\ p.submissionIndex = n /\ p.submitTxSig = r.players[s].submitTxSig
  <2>1. r.players[s] \in PlayerRecord /\ r.players[s].wallet = w
    BY <1>1, <1>2, RecordTyped
  <2>2. DoneCount(r) \in Nat
    BY <1>3
  <2> QED BY <1>3, <2>1, <2>2 DEF PlayerRecord
<1>5. q = SeatReplaced(r, s, p)
  BY DEF SeatReplaced, WithResult
<1> HIDE DEF s, p, n
<1>6. /\ q \in LobbyRecord
      /\ q.status = r.status /\ q.winners = r.winners /\ q.targetMl = r.targetMl
      /\ DOMAIN q.players = DOMAIN r.players
      /\ Len(q.players) = Len(r.players)
      /\ q.players[s] = p
      /\ \A i \in DOMAIN r.players \ {s} : q.players[i] = r.players[i]
  BY <1>1, <1>2, <1>4, <1>5, SeatWritten
<1>7. Done(q) = Done(r) \cup {s}
  BY <1>2, <1>4, <1>6 DEF Done
<1>8. Cardinality(Done(q)) = n + 1
  BY <1>3, <1>7, FS_AddElement DEF n
<1>9. Waiting(q) = Waiting(r) \ {w}
  BY <1>2, <1>4, <1>6 DEF Waiting
<1>10. RosterSound(q)
  <2>1. \A i \in DOMAIN r.players : q.players[i].wallet = r.players[i].wallet
    BY <1>2, <1>4, <1>6
  <2>2. { q.players[i].submissionIndex : i \in Done(q) } =
          { r.players[i].submissionIndex : i \in Done(r) } \cup {n}
    <3>1. q.players[s].submissionIndex = n
      BY <1>4, <1>6
    <3>2. \A i \in Done(r) : q.players[i].submissionIndex = r.players[i].submissionIndex
      BY <1>3, <1>6
    <3> QED BY <1>7, <3>1, <3>2
  <2>3. (0 .. n - 1) \cup {n} = 0 .. (n + 1) - 1
    BY <1>3
  <2>4. { r.players[i].submissionIndex : i \in Done(r) } = 0 .. n - 1
    BY <1>1 DEF RosterSound, n
  <2>5. { q.players[i].submissionIndex : i \in Done(q) } = 0 .. Cardinality(Done(q)) - 1
    BY <1>8, <2>2, <2>3, <2>4, Zenon
  <2>6. \A i \in DOMAIN q.players : q.players[i].submitTxSig => q.players[i].status = "done"
    BY <1>1, <1>4, <1>6 DEF RosterSound
  <2>7. q.status = "awaiting_randomness" => q.players = << >>
    BY <1>6
  <2> QED BY <1>1, <1>6, <2>1, <2>5, <2>6, <2>7 DEF RosterSound
<1>11. Vouched(q, c)
  <2>1. ~ p.submitTxSig
    BY <1>1, <1>2, <1>4 DEF RosterSound
  <2>2. ASSUME NEW i \in DOMAIN q.players
        PROVE  /\ contains_player(c, q.players[i].wallet)
               /\ q.players[i].submitTxSig => Holds(c, q.players[i].wallet, q.players[i].pouredMl)
    <3>1. CASE i = s
      BY <1>1, <1>2, <1>4, <1>6, <2>1, <3>1 DEF Vouched
    <3>2. CASE i # s
      BY <1>1, <1>6, <3>2 DEF Vouched
    <3> QED BY <3>1, <3>2
  <2>3. InRound(q) => Drawn(q, c)
    BY <1>1, <1>2, <1>6 DEF Vouched, InRound, Drawn
  <2> QED BY <1>1, <1>6, <2>2, <2>3 DEF Vouched
<1>12. Succeeds(r, q)
  <2>1. ResultsKept(r, q)
    BY <1>2, <1>6 DEF ResultsKept
  <2>2. SeatsKept(r, q)
    BY <1>2, <1>4, <1>6 DEF SeatsKept
  <2> QED BY <1>2, <2>1, <2>2 DEF Succeeds, Finished, Waiting
<1> QED BY <1>2, <1>4, <1>6, <1>9, <1>10, <1>11, <1>12 DEF GoodRecord

\* What submitResult's return makes of a record: the call is noted on the seat
\* whose result it reported.
WithNote(r, tx) == [ r EXCEPT !.players[SeatOf(r, tx.accts[1])] = Noted(@, tx) ]

\* Nothing else is touched, and what is noted as submitted is on the ledger.
LEMMA NotedRecord ==
  ASSUME NEW c, NEW r, GoodRecord(r, c), NEW tx \in Transaction, Reporting(tx, r),
         tx.outcome = "landed" => Holds(c, tx.accts[1], tx.ml),
         NEW q, q = WithNote(r, tx)
  PROVE  /\ GoodRecord(q, c)
         /\ Succeeds(r, q)
         /\ Waiting(q) = Waiting(r)
         /\ q.status = r.status
<1> DEFINE s == SeatOf(r, tx.accts[1])
           p == Noted(r.players[s], tx)
<1>1. r \in LobbyRecord /\ RosterSound(r) /\ Vouched(r, c)
  BY DEF GoodRecord
<1>2. /\ s \in DOMAIN r.players
      /\ r.players[s].wallet = tx.accts[1]
      /\ r.players[s].status = "done"
      /\ r.players[s].pouredMl = tx.ml
  <2>1. PICK i \in DOMAIN r.players : /\ r.players[i].wallet = tx.accts[1]
                                      /\ r.players[i].status = "done"
                                      /\ r.players[i].pouredMl = tx.ml
    BY DEF Reporting
  <2>2. tx.accts[1] \in Seated(r)
    BY <2>1 DEF Seated
  <2>3. i = s
    BY <1>1, <2>1, <2>2, SeatFound
  <2> QED BY <2>1, <2>3
<1>3. Landed(tx) \in BOOLEAN
  BY DEF Landed
<1>4. /\ p \in PlayerRecord
      /\ p.wallet = r.players[s].wallet /\ p.status = "done"
      /\ p.pouredMl = tx.ml
      /\ p.submissionIndex = r.players[s].submissionIndex
      /\ p.submitTxSig => Landed(tx)
  <2>1. r.players[s] \in PlayerRecord
    BY <1>1, <1>2, RecordTyped
  <2>2. p = [ r.players[s] EXCEPT !.submitTxSig = Landed(tx) ]
    BY DEF Noted
  <2> HIDE DEF p
  <2> QED BY <1>2, <1>3, <2>1, <2>2 DEF PlayerRecord
<1>5. q = SeatReplaced(r, s, p)
  BY DEF SeatReplaced, WithNote
<1> HIDE DEF s, p
<1>6. /\ q \in LobbyRecord
      /\ q.status = r.status /\ q.winners = r.winners /\ q.targetMl = r.targetMl
      /\ DOMAIN q.players = DOMAIN r.players
      /\ Len(q.players) = Len(r.players)
      /\ q.players[s] = p
      /\ \A i \in DOMAIN r.players \ {s} : q.players[i] = r.players[i]
  BY <1>1, <1>2, <1>4, <1>5, SeatWritten
<1>7. \A i \in DOMAIN r.players :
        /\ q.players[i].wallet = r.players[i].wallet
        /\ q.players[i].status = r.players[i].status
        /\ q.players[i].pouredMl = r.players[i].pouredMl
        /\ q.players[i].submissionIndex = r.players[i].submissionIndex
  BY <1>2, <1>4, <1>6
<1>8. Done(q) = Done(r) /\ Waiting(q) = Waiting(r) /\ (Full(q) <=> Full(r))
  BY <1>6, <1>7 DEF Done, Waiting, Full
<1>9. RosterSound(q)
  <2>1. { q.players[i].submissionIndex : i \in Done(q) } =
          { r.players[i].submissionIndex : i \in Done(r) }
    BY <1>7, <1>8 DEF Done
  <2>2. \A i \in DOMAIN q.players : q.players[i].submitTxSig => q.players[i].status = "done"
    <3>1. q.players[s].status = "done"
      BY <1>4, <1>6
    <3>2. \A i \in DOMAIN r.players \ {s} : q.players[i].submitTxSig => q.players[i].status = "done"
      BY <1>1, <1>6 DEF RosterSound
    <3> QED BY <1>6, <3>1, <3>2
  <2>3. q.status = "awaiting_randomness" => q.players = << >>
    <3>1. r.status = "awaiting_randomness" => r.players = << >>
      BY <1>1 DEF RosterSound
    <3> QED BY <1>2, <1>6, <3>1
  <2>4. { q.players[i].submissionIndex : i \in Done(q) } = 0 .. Cardinality(Done(q)) - 1
    BY <1>1, <1>8, <2>1 DEF RosterSound
  <2>5. \A i, j \in DOMAIN q.players : q.players[i].wallet = q.players[j].wallet => i = j
    BY <1>1, <1>6, <1>7 DEF RosterSound
  <2>6. Len(q.players) =< Size
    BY <1>1, <1>6 DEF RosterSound
  <2> QED BY <2>2, <2>3, <2>4, <2>5, <2>6 DEF RosterSound
<1>10. Vouched(q, c)
  <2>1. ASSUME NEW i \in DOMAIN q.players
        PROVE  /\ contains_player(c, q.players[i].wallet)
               /\ q.players[i].submitTxSig => Holds(c, q.players[i].wallet, q.players[i].pouredMl)
    <3>1. CASE i = s
      BY <1>1, <1>2, <1>4, <1>6, <3>1 DEF Vouched, Landed
    <3>2. CASE i # s
      BY <1>1, <1>6, <3>2 DEF Vouched
    <3> QED BY <3>1, <3>2
  <2>2. InRound(q) => Drawn(q, c)
    BY <1>1, <1>2, <1>6 DEF Vouched, InRound, Drawn
  <2> QED BY <1>1, <1>6, <2>1, <2>2 DEF Vouched
<1>11. Succeeds(r, q)
  BY <1>6, <1>7, <1>8 DEF Succeeds, ResultsKept, SeatsKept, Finished
<1> QED BY <1>6, <1>8, <1>9, <1>10, <1>11 DEF GoodRecord

\* A lobby ready to be settled has players.
LEMMA FinishedHasPlayers ==
  ASSUME NEW r \in LobbyRecord, Finished(r)
  PROVE  InRound(r)
<1>1. Len(r.players) >= 1
  BY RecordTyped, ServerInputs DEF Finished, Full, MIN_LOBBY_SIZE, MAX_LOBBY_SIZE
<1> QED BY <1>1 DEF InRound

-----------------------------------------------------------------------------
(* Winners *)

\* How many elements of B have a smaller number than i.
Rank(B, f, i) == Cardinality({ j \in B : f[j] < f[i] })

\* Elements with distinct numbers have distinct ranks, so every rank is taken.
LEMMA RanksAreTaken ==
  ASSUME NEW B, IsFiniteSet(B), NEW f \in [ B -> Nat ],
         \A i, j \in B : f[i] = f[j] => i = j,
         NEW k \in 1 .. Cardinality(B)
  PROVE  \E i \in B : Rank(B, f, i) = k - 1
<1> DEFINE Below(i) == { j \in B : f[j] < f[i] }
           n == Cardinality(B)
           rank == [ i \in B |-> Cardinality(Below(i)) ]
<1>1. n \in Nat
  BY FS_CardinalityType
<1>2. ASSUME NEW i \in B
      PROVE  /\ IsFiniteSet(Below(i)) /\ Cardinality(Below(i)) \in Nat
             /\ Cardinality(Below(i)) < n
  <2>1. Below(i) \in SUBSET B /\ i \notin Below(i)
    OBVIOUS
  <2>2. IsFiniteSet(Below(i)) /\ Cardinality(Below(i)) \in Nat /\ Cardinality(Below(i)) =< n
        /\ Below(i) # B
    <3> HIDE DEF Below
    <3> QED BY <2>1, FS_Subset, FS_CardinalityType
  <2>3. Cardinality(Below(i)) # n
    <3> HIDE DEF Below
    <3> QED BY <2>1, <2>2, FS_Subset
  <2> QED BY <1>1, <2>2, <2>3
<1>3. ASSUME NEW i \in B, NEW j \in B, f[i] < f[j]
      PROVE  rank[i] < rank[j]
  <2>1. f[i] \in Nat /\ f[j] \in Nat /\ \A x \in B : f[x] \in Nat
    OBVIOUS
  <2>2. Below(i) \cup {i} \in SUBSET Below(j) /\ i \notin Below(i)
    BY <1>3, <2>1
  <2>3. Cardinality(Below(i) \cup {i}) = Cardinality(Below(i)) + 1
    <3> HIDE DEF Below
    <3> QED BY <1>2, <2>2, FS_AddElement
  <2>4. Cardinality(Below(i) \cup {i}) =< Cardinality(Below(j))
    <3> HIDE DEF Below
    <3> QED BY <1>2, <2>2, FS_Subset
  <2> HIDE DEF Below
  <2> QED BY <1>2, <2>3, <2>4
<1>4. rank \in Injection(B, 0 .. n - 1)
  <2>1. rank \in [ B -> 0 .. n - 1 ]
    <3> HIDE DEF Below
    <3> QED BY <1>1, <1>2
  <2>2. ASSUME NEW i \in B, NEW j \in B, rank[i] = rank[j]
        PROVE  i = j
    <3>1. rank[i] \in Nat /\ rank[j] \in Nat
      BY <1>1, <2>1
    <3>2. ~ (f[i] < f[j]) /\ ~ (f[j] < f[i])
      <4> HIDE DEF rank
      <4> QED BY <1>3, <2>2, <3>1
    <3>3. f[i] = f[j]
      BY <3>2
    <3> QED BY <3>3
  <2> HIDE DEF rank
  <2> QED BY <2>1, <2>2 DEF Injection, IsInjective
<1>5. rank \in Surjection(B, 0 .. n - 1)
  <2>1. IsFiniteSet(0 .. n - 1) /\ Cardinality(0 .. n - 1) = n
    <3> HIDE DEF n
    <3> QED BY <1>1, FS_Interval
  <2> HIDE DEF rank
  <2> QED BY <1>4, <2>1, FS_Injection
<1>6. PICK i \in B : rank[i] = k - 1
  <2>1. k - 1 \in 0 .. n - 1
    BY <1>1
  <2> HIDE DEF rank
  <2> QED BY <1>5, <2>1 DEF Surjection
<1> QED BY <1>6 DEF Rank

\* With all results in, computeWinners names wallets: every place has a winner.
LEMMA WinnersTyped ==
  ASSUME NEW r \in LobbyRecord, RosterSound(r), Waiting(r) = {}
  PROVE  computeWinners(r) \in Seq(Accounts)
<1> DEFINE best == { i \in DOMAIN r.players :
                       \A j \in DOMAIN r.players :
                         scoreOf(r.players[i], r.targetMl) =< scoreOf(r.players[j], r.targetMl) }
           f == [ i \in DOMAIN r.players |-> r.players[i].submissionIndex ]
           n == Cardinality(Done(r))
           place(k) == CHOOSE i \in best :
                         Cardinality({ j \in best :
                           r.players[j].submissionIndex < r.players[i].submissionIndex }) = k - 1
<1>1. Done(r) = DOMAIN r.players
  BY DoneTyped DEF Waiting
<1>2. IsFiniteSet(DOMAIN r.players) /\ n \in Nat /\ Cardinality(DOMAIN r.players) = n
  BY <1>1, DoneTyped
<1>3. \A i \in DOMAIN r.players : r.players[i].submissionIndex \in Nat /\ r.players[i].wallet \in Accounts
  BY RecordTyped DEF PlayerRecord
<1>4. \A i, j \in DOMAIN r.players : f[i] = f[j] => i = j
  <2>1. f \in Surjection(DOMAIN r.players, 0 .. n - 1)
    <3>1. { r.players[i].submissionIndex : i \in DOMAIN r.players } = 0 .. n - 1
      BY <1>1 DEF RosterSound
    <3>2. f \in [ DOMAIN r.players -> 0 .. n - 1 ]
      BY <3>1
    <3>3. \A m \in 0 .. n - 1 : \E i \in DOMAIN r.players : f[i] = m
      BY <3>1
    <3> HIDE DEF f
    <3> QED BY <3>2, <3>3 DEF Surjection
  <2>2. IsFiniteSet(0 .. n - 1) /\ Cardinality(0 .. n - 1) = n
    BY <1>2, FS_Interval
  <2>3. f \in Injection(DOMAIN r.players, 0 .. n - 1)
    <3> HIDE DEF f, n
    <3> QED BY <1>2, <2>1, <2>2, FS_Surjection
  <2> HIDE DEF f
  <2> QED BY <2>3 DEF Injection, IsInjective
<1>5. best \in SUBSET DOMAIN r.players
  OBVIOUS
<1> HIDE DEF best
<1>6. IsFiniteSet(best) /\ Cardinality(best) \in Nat
  BY <1>2, <1>5, FS_Subset, FS_CardinalityType
<1>7. ASSUME NEW k \in 1 .. Cardinality(best)
      PROVE  r.players[place(k)].wallet \in Accounts
  <2> DEFINE g == [ i \in best |-> r.players[i].submissionIndex ]
  <2>1. g \in [ best -> Nat ] /\ \A i, j \in best : g[i] = g[j] => i = j
    BY <1>3, <1>4, <1>5
  <2>2. \E i \in best : Rank(best, g, i) = k - 1
    <3> HIDE DEF g
    <3> QED BY <1>6, <2>1, RanksAreTaken
  <2>3. \A i \in best : { j \in best : g[j] < g[i] } =
          { j \in best : r.players[j].submissionIndex < r.players[i].submissionIndex }
    OBVIOUS
  <2>4. \E i \in best : Cardinality({ j \in best :
             r.players[j].submissionIndex < r.players[i].submissionIndex }) = k - 1
    BY <2>2, <2>3 DEF Rank
  <2>5. place(k) \in best
    BY <2>4, Zenon
  <2> HIDE DEF place
  <2> QED BY <1>3, <1>5, <2>5
<1>8. computeWinners(r) = [ k \in 1 .. Cardinality(best) |-> r.players[place(k)].wallet ]
  BY DEF computeWinners, best
<1> HIDE DEF place
<1> QED BY <1>6, <1>7, <1>8

-----------------------------------------------------------------------------
(* The ledger only ever adds to what records and calls rely on *)

Remembers(c, d) ==
  /\ ~ Live(c) => d = c
  /\ \A w : contains_player(c, w) => contains_player(d, w)
  /\ \A w, ml : Holds(c, w, ml) => Holds(d, w, ml)
  /\ \A r : Drawn(r, c) => Drawn(r, d)

\* An instruction keeps the lobby account sound and forgets nothing.
LEMMA LedgerRemembers ==
  ASSUME NEW c \in Lobby, RosterConsistent(c), NEW d, Evolves(c, d)
  PROVE  /\ d \in Lobby
         /\ RosterConsistent(d)
         /\ Remembers(c, d)
<1>1. d \in Lobby /\ RosterConsistent(d)
  BY EvolvedTyped, EvolvedKeepsRoster
<1>2. TermsKept(c, d)
  BY EvolvedKeepsTerms
<1>3. /\ Len(c.players) \in Nat /\ Seats(c) = 1 .. Len(c.players)
      /\ Len(d.players) \in Nat /\ Seats(d) = 1 .. Len(d.players)
  BY <1>1, EntryTyped
<1>4. \A i \in Seats(c) : /\ i \in Seats(d)
                          /\ d.players[i].player = c.players[i].player
                          /\ c.players[i].has_played => d.players[i] = c.players[i]
  BY <1>2, <1>3 DEF TermsKept
<1>5. ~ Live(c) => d = c
  BY <1>2 DEF TermsKept
<1>6. \A w : contains_player(c, w) => contains_player(d, w)
  BY <1>4 DEF contains_player
<1>7. \A w, ml : Holds(c, w, ml) => Holds(d, w, ml)
  BY <1>4 DEF Holds
<1>8. \A r : Drawn(r, c) => Drawn(r, d)
  <2>1. ASSUME NEW st, d = [ c EXCEPT !.status = st ]
        PROVE  d.status = st /\ d.target_ml = c.target_ml
    BY <2>1, FieldsKept
  <2>2. ASSUME NEW key, NEW ml, d = Joined(c, key) \/ d = Submitted(c, key, ml)
        PROVE  d.status = c.status /\ d.target_ml = c.target_ml
    BY <2>2, FieldsKept
  <2>3. /\ d = Settled(c) => d.status = "Settled" /\ d.target_ml = c.target_ml
        /\ d = Cancelled(c) => d.status = "Cancelled" /\ d.target_ml = c.target_ml
    BY <2>1 DEF Settled, Cancelled
  <2>4. c.status # "AwaitingRandomness" =>
          d.status # "AwaitingRandomness" /\ d.target_ml = c.target_ml
    BY <2>2, <2>3 DEF Evolves, CanFulfill
  <2> QED BY <2>4 DEF Drawn
<1> QED BY <1>1, <1>5, <1>6, <1>7, <1>8 DEF Remembers

\* What a record claims stays true.
LEMMA VouchedKept ==
  ASSUME NEW c, NEW d, Remembers(c, d), NEW r, Vouched(r, c)
  PROVE  Vouched(r, d)
BY DEF Vouched, Remembers, Live

\* What a landed transaction did stays done.
LEMMA HadEffectKept ==
  ASSUME NEW c, NEW d, Remembers(c, d), NEW tx, HadEffect(tx, c)
  PROVE  HadEffect(tx, d)
BY DEF HadEffect, Remembers, Live

\* Without a transaction nothing changes.
LEMMA RemembersItself ==
  ASSUME NEW c
  PROVE  Remembers(c, c)
BY DEF Remembers

\* A transaction that lands is one of the instructions and has its effect.
LEMMA Lands ==
  ASSUME chain \in Lobby, RosterConsistent(chain), NEW tx \in Transaction,
         tx.op = "submit" => Len(tx.accts) = 1, Accepts(tx)
  PROVE  Evolves(chain, Effect(tx)) /\ HadEffect(tx, Effect(tx))
<1>1. tx.op \in {"submit", "settle", "cancel"} /\ tx.ml \in 0 .. OVERFLOW_SENTINEL
      /\ tx.accts \in Seq(Accounts)
  BY DEF Transaction
<1>2. CASE tx.op = "submit"
  <2> DEFINE w == tx.accts[1]
             d == Submitted(chain, w, tx.ml)
  <2>1. w \in Accounts /\ CanSubmit(chain, w) /\ Effect(tx) = d
    BY <1>1, <1>2 DEF Accepts, Effect
  <2>2. PICK k \in Seats(chain) : chain.players[k].player = w
    BY <2>1 DEF CanSubmit
  <2>3. /\ d \in Lobby
        /\ Len(d.players) = Len(chain.players)
        /\ d.players[k] = Reported(chain.players[k], tx.ml, chain.played_count)
    BY <1>1, <2>1, <2>2, SubmittedTyped
  <2>4. k \in Seats(d)
    <3> HIDE DEF d
    <3> QED BY <2>2, <2>3, EntryTyped
  <2>5. chain.players[k] \in PlayerEntry
    BY <2>2, EntryTyped
  <2>6. LET e == Reported(chain.players[k], tx.ml, chain.played_count)
        IN e.player = w /\ e.has_played = TRUE /\ e.poured_ml = tx.ml
    BY <2>2, <2>5 DEF Reported, PlayerEntry
  <2>7. Holds(d, w, tx.ml)
    <3> HIDE DEF d, w
    <3> QED BY <2>3, <2>4, <2>6 DEF Holds
  <2> QED BY <1>1, <1>2, <2>1, <2>7 DEF Evolves, HadEffect
<1>3. CASE tx.op = "settle"
  <2> DEFINE d == Settled(chain)
  <2>1. CanSettle(chain, tx.accts) /\ Effect(tx) = d
    BY <1>3 DEF Accepts, Effect
  <2>2. d.status = "Settled" /\ d.players = chain.players /\ d.target_ml = chain.target_ml
    BY FieldsKept DEF Settled
  <2>3. WinnerKeys(d) = WinnerKeys(chain)
    <3> HIDE DEF d
    <3> QED BY <2>2 DEF WinnerKeys, WinnerIndices, Score, Seats
  <2> QED BY <1>3, <2>1, <2>2, <2>3 DEF Evolves, HadEffect, CanSettle
<1>4. CASE tx.op = "cancel"
  <2>1. CanCancel(chain, now, tx.accts) /\ Effect(tx) = Cancelled(chain)
    BY <1>4 DEF Accepts, Effect
  <2>2. Cancelled(chain).status = "Cancelled"
    BY FieldsKept DEF Cancelled
  <2> QED BY <1>4, <2>1, <2>2 DEF Evolves, HadEffect, CanCancel
<1> QED BY <1>1, <1>2, <1>3, <1>4

-----------------------------------------------------------------------------
(* The queue of saves, the calls and the faults *)

\* The records are those in memory, on disk and on the way there.
LEMMA RecordsAre ==
  ASSUME IInv
  PROVE  /\ \A r \in Records : GoodRecord(r, chain)
         /\ Loaded => mem \in Records /\ mem \in LobbyRecord
         /\ disk \in Records \cup {NoLobby}
         /\ \A k \in DOMAIN saves : saves[k].record \in Records
<1>1. TypeOK /\ RecordsSound
  BY DEF IInv
<1>2. \A k \in DOMAIN saves : saves[k].record \in LobbyRecord
  <2>1. saves \in Seq(Save)
    BY <1>1 DEF TypeOK
  <2>2. \A k \in DOMAIN saves : saves[k] \in Save
    BY <2>1
  <2> QED BY <2>2 DEF Save
<1>3. Records \subseteq LobbyRecord
  BY <1>1, <1>2 DEF Records, TypeOK
<1>4. \A r \in Records : GoodRecord(r, chain)
  BY <1>1, <1>3 DEF RecordsSound, GoodRecord
<1>5. Loaded => mem \in Records /\ mem \in LobbyRecord
  BY <1>1 DEF TypeOK, Loaded, Records
<1>6. disk \in Records \cup {NoLobby}
  BY DEF Records
<1>7. \A k \in DOMAIN saves : saves[k].record \in Records
  BY <1>2, NoRecord DEF Records
<1> QED BY <1>4, <1>5, <1>6, <1>7

\* Every snapshot of the queue q is a sound record or r itself, and a settlement
\* waits for its save only when r is finished.
QueueGood(q, r) ==
  /\ q \in Seq(Save)
  /\ \A k \in DOMAIN q : /\ q[k].record \in Records \cup {r}
                         /\ q[k].next = "settle" => Finished(r)

\* The queue as it is, for what the record becomes.
LEMMA QueueNow ==
  ASSUME IInv, Loaded, NEW r, Succeeds(mem, r)
  PROVE  QueueGood(saves, r)
BY RecordsAre DEF IInv, TypeOK, QueueGood, SettlesFinished, Succeeds

\* persist puts the record at the end of the queue.
LEMMA QueueGrows ==
  ASSUME NEW r \in LobbyRecord, NEW q, QueueGood(q, r),
         NEW next \in {"watch", "maybeSettle", "settle", "done"},
         next = "settle" => Finished(r)
  PROVE  QueueGood(Append(q, [ record |-> r, next |-> next ]), r)
<1> DEFINE s == [ record |-> r, next |-> next ]
<1>1. s \in Save /\ s.record = r /\ s.next = next
  BY DEF Save
<1>2. q \in Seq(Save)
  BY DEF QueueGood
<1> HIDE DEF s
<1>3. /\ Append(q, s) \in Seq(Save)
      /\ DOMAIN Append(q, s) = DOMAIN q \cup {Len(q) + 1}
      /\ \A k \in DOMAIN q : Append(q, s)[k] = q[k]
      /\ Append(q, s)[Len(q) + 1] = s
  BY <1>1, <1>2
<1>4. ASSUME NEW k \in DOMAIN Append(q, s)
      PROVE  /\ Append(q, s)[k].record \in Records \cup {r}
             /\ Append(q, s)[k].next = "settle" => Finished(r)
  <2>1. CASE k \in DOMAIN q
    BY <1>3, <2>1 DEF QueueGood
  <2>2. CASE k = Len(q) + 1
    BY <1>1, <1>3, <2>2
  <2> QED BY <1>3, <2>1, <2>2
<1>5. QueueGood(Append(q, s), r)
  BY <1>3, <1>4 DEF QueueGood
<1> QED BY <1>5 DEF s

\* The head of the queue leaves it.
LEMMA QueueShrinks ==
  ASSUME NEW r, NEW q, QueueGood(q, r), q # << >>
  PROVE  /\ QueueGood(Tail(q), r)
         /\ Head(q) \in Save
         /\ Head(q).record \in Records \cup {r}
         /\ Head(q).next = "settle" => Finished(r)
<1>1. q \in Seq(Save)
  BY DEF QueueGood
<1>2. /\ Tail(q) \in Seq(Save) /\ Head(q) = q[1] /\ 1 \in DOMAIN q /\ Head(q) \in Save
      /\ \A k \in DOMAIN Tail(q) : k + 1 \in DOMAIN q /\ Tail(q)[k] = q[k + 1]
  BY <1>1
<1> QED BY <1>2 DEF QueueGood

FaultsTyped ==
  /\ faults \in [ DOMAIN MaxFaults -> Nat ]
  /\ \A kind \in DOMAIN MaxFaults : faults[kind] =< MaxFaults[kind]

\* A fault is counted, up to its bound.
LEMMA FaultCounted ==
  ASSUME TypeOK, NEW kind \in {"crash", "call", "save"}, Fault(kind)
  PROVE  FaultsTyped'
<1>1. MaxFaults \in [ {"crash", "call", "save"} -> Nat ]
  BY ServerInputs
<1>2. faults \in [ DOMAIN MaxFaults -> Nat ] /\ kind \in DOMAIN MaxFaults
  BY <1>1 DEF TypeOK
<1>3. faults' = [ faults EXCEPT ![kind] = faults[kind] + 1 ] /\ faults[kind] < MaxFaults[kind]
  BY DEF Fault
<1>4. \A x \in DOMAIN MaxFaults : faults[x] \in Nat /\ MaxFaults[x] \in Nat /\ faults[x] =< MaxFaults[x]
  BY <1>1, <1>2 DEF TypeOK
<1>5. faults[kind] + 1 =< MaxFaults[kind] /\ faults[kind] + 1 \in Nat
  BY <1>2, <1>3, <1>4
<1> QED BY <1>2, <1>3, <1>4, <1>5 DEF FaultsTyped

\* No fault.
LEMMA FaultsStay ==
  ASSUME TypeOK, UNCHANGED faults
  PROVE  FaultsTyped'
BY DEF TypeOK, FaultsTyped

\* What holds of a transaction, beyond its type.
CallSound(tx, c) ==
  /\ tx.op = "submit" => Len(tx.accts) = 1
  /\ tx.outcome = "landed" => HadEffect(tx, c)

-----------------------------------------------------------------------------
(* Steps of the ledger, of transactions, and of the process *)

\* After the step every record is sound again.
LEMMA RecordsStep ==
  ASSUME IInv, chain' \in Lobby, Remembers(chain, chain'),
         mem' = NoLobby \/ GoodRecord(mem', chain'),
         disk' \in Records \cup {NoLobby},
         \A k \in DOMAIN saves' : saves'[k].record \in Records \cup {mem'}
  PROVE  /\ RecordsSound'
         /\ mem' \in LobbyRecord \cup {NoLobby}
         /\ disk' \in LobbyRecord \cup {NoLobby}
<1>1. \A r \in Records : GoodRecord(r, chain')
  BY RecordsAre, VouchedKept DEF GoodRecord
<1>2. ASSUME NEW r \in Records'
      PROVE  GoodRecord(r, chain')
  BY <1>1, <1>2 DEF Records
<1> QED BY <1>1, <1>2 DEF RecordsSound, GoodRecord

\* Steps outside of the process: an instruction on the account, time, or the
\* fate of one of the server's transactions.
LEMMA OutsideStep ==
  ASSUME IInv, UNCHANGED << mem, process, store >>, now' \in Nat,
         chain' \in Lobby, RosterConsistent(chain'), Remembers(chain, chain'),
         FaultsTyped',
         \A u \in txs' : \/ u \in txs
                         \/ /\ u \in Transaction /\ CallSound(u, chain')
                            /\ \E tx \in txs : << u.op, u.accts, u.ml, u.alive >>
                                                = << tx.op, tx.accts, tx.ml, tx.alive >>
  PROVE  IInv' /\ (Loaded => Loaded' /\ Succeeds(mem, mem'))
<1>1. TypeOK /\ CallsSound /\ NothingLeft /\ SettlesFinished /\ TimersCoverPlayers
  BY DEF IInv
<1>2. /\ mem' = mem /\ up' = up /\ armed' = armed /\ pouring' = pouring
      /\ watching' = watching /\ joining' = joining /\ disk' = disk /\ saves' = saves
  BY DEF process, store
<1>3. ASSUME NEW u \in txs'
      PROVE  u \in Transaction /\ CallSound(u, chain') /\ (u.alive => Loaded /\ Awaited(u, mem))
  <2>1. CASE u \in txs
    BY <1>1, <2>1, HadEffectKept DEF TypeOK, CallsSound, CallSound
  <2>2. ASSUME u \in Transaction, CallSound(u, chain'), NEW tx \in txs,
               << u.op, u.accts, u.ml, u.alive >> = << tx.op, tx.accts, tx.ml, tx.alive >>
        PROVE  u.alive => Loaded /\ Awaited(u, mem)
    <3>1. u.op = tx.op /\ u.accts = tx.accts /\ u.ml = tx.ml /\ u.alive = tx.alive
      BY <2>2
    <3>2. tx.alive => Loaded /\ Awaited(tx, mem)
      BY <1>1 DEF CallsSound
    <3> QED BY <3>1, <3>2 DEF Awaited, Reporting
  <2> QED BY <2>1, <2>2
<1>4. Loaded' <=> Loaded
  BY <1>2 DEF Loaded
<1>5. CallsSound' /\ txs' \subseteq Transaction
  BY <1>2, <1>3, <1>4 DEF CallsSound, CallSound
<1>6. RecordsSound'
  <2>1. mem' = NoLobby \/ GoodRecord(mem', chain')
    <3>1. CASE mem = NoLobby
      BY <1>2, <3>1
    <3>2. CASE mem # NoLobby
      <4>1. mem \in Records
        BY <3>2 DEF Records
      <4>2. GoodRecord(mem, chain)
        BY <4>1, RecordsAre
      <4> QED BY <1>2, <4>2, VouchedKept DEF GoodRecord
    <3> QED BY <3>1, <3>2
  <2> QED BY <1>2, <2>1, RecordsAre, RecordsStep
<1>7. NothingLeft' /\ SettlesFinished' /\ TimersCoverPlayers'
  BY <1>1, <1>2, <1>4 DEF NothingLeft, SettlesFinished, TimersCoverPlayers
<1>8. TypeOK'
  BY <1>1, <1>2, <1>5 DEF TypeOK, FaultsTyped
<1>9. Loaded => Loaded' /\ Succeeds(mem, mem')
  BY <1>2, <1>4, SucceedsItself
<1> QED BY <1>5, <1>6, <1>7, <1>8, <1>9 DEF IInv

\* A call a handler of the record r has just made.
NewCall(tx, r) ==
  /\ tx \in Transaction
  /\ tx.op = "submit" => Len(tx.accts) = 1
  /\ tx.outcome = "pending"
  /\ Awaited(tx, r)

\* When timers are armed for a record that was left so.
TimersFor(r) == IF r.status = "open" THEN Waiting(r) ELSE {}

\* Steps of a living process: the record becomes another sound one that still
\* has what the handlers of the calls wait for.
LEMMA ProcessStep ==
  ASSUME IInv, Loaded, UNCHANGED << account, up >>, FaultsTyped',
         GoodRecord(mem', chain), Succeeds(mem, mem'),
         mem'.status = "settling" => Finished(mem'),
         QueueGood(saves', mem'),
         disk' \in Records \cup {NoLobby},
         \A tx \in txs' : tx \in txs \/ NewCall(tx, mem'),
         armed' = TimersFor(mem'),
         pouring' \subseteq Accounts, joining' \subseteq Conns \X Accounts, watching' \in BOOLEAN
  PROVE  IInv' /\ (Loaded => Loaded' /\ Succeeds(mem, mem'))
<1>1. TypeOK /\ CallsSound /\ RosterConsistent(chain)
  BY DEF IInv
<1>2. chain' = chain /\ now' = now /\ up' = up /\ up
  BY DEF account, Loaded
<1>3. mem' \in LobbyRecord /\ mem' # NoLobby
  BY NoRecord DEF GoodRecord
<1>4. Loaded'
  BY <1>2, <1>3 DEF Loaded
<1>5. ASSUME NEW tx \in txs'
      PROVE  /\ tx \in Transaction
             /\ tx.op = "submit" => Len(tx.accts) = 1
             /\ tx.outcome = "landed" => HadEffect(tx, chain)
             /\ tx.alive => Awaited(tx, mem')
  <2>1. CASE tx \in txs
    BY <1>1, <2>1, AwaitedKept DEF TypeOK, CallsSound
  <2>2. CASE NewCall(tx, mem')
    BY <2>2 DEF NewCall
  <2> QED BY <2>1, <2>2
<1>6. CallsSound' /\ txs' \subseteq Transaction
  BY <1>2, <1>4, <1>5 DEF CallsSound
<1>7. /\ RecordsSound'
      /\ disk' \in LobbyRecord \cup {NoLobby}
  BY <1>1, <1>2, RemembersItself, RecordsStep DEF TypeOK, QueueGood
<1>8. NothingLeft'
  BY <1>2, <1>4 DEF NothingLeft
<1>9. SettlesFinished'
  BY DEF SettlesFinished, QueueGood
<1>10. TimersCoverPlayers'
  BY <1>4, Zenon DEF TimersCoverPlayers, TimersFor
<1>11. armed' \subseteq Accounts
  BY <1>3, RecordTyped DEF TimersFor
<1>12. TypeOK'
  BY <1>1, <1>2, <1>3, <1>6, <1>7, <1>11 DEF TypeOK, FaultsTyped, QueueGood
<1>13. RosterConsistent(chain)'
  BY <1>1, <1>2
<1> QED BY <1>4, <1>6, <1>7, <1>8, <1>9, <1>10, <1>12, <1>13 DEF IInv

\* What a living process can count on before a step of its own.
LEMMA LoadedFacts ==
  ASSUME IInv, Loaded
  PROVE  /\ GoodRecord(mem, chain)
         /\ mem \in LobbyRecord /\ mem \in Records
         /\ RosterSound(mem)
         /\ mem.status = "settling" => Finished(mem)
         /\ QueueGood(saves, mem)
         /\ disk \in Records \cup {NoLobby}
         /\ armed = TimersFor(mem)
         /\ pouring \subseteq Accounts /\ joining \subseteq Conns \X Accounts
         /\ watching \in BOOLEAN
         /\ TypeOK
         /\ \A tx \in txs : tx \in Transaction /\ CallSound(tx, chain)
                            /\ (tx.alive => Awaited(tx, mem))
<1>1. TypeOK /\ CallsSound /\ SettlesFinished /\ TimersCoverPlayers
  BY DEF IInv
<1>2. GoodRecord(mem, chain) /\ mem \in LobbyRecord /\ mem \in Records
  BY RecordsAre
<1>3. QueueGood(saves, mem)
  BY SucceedsItself, QueueNow
<1>4. armed = TimersFor(mem)
  BY <1>1 DEF TimersCoverPlayers, TimersFor
<1>5. mem.status = "settling" => Finished(mem)
  BY <1>1 DEF SettlesFinished
<1>6. \A tx \in txs : tx \in Transaction /\ CallSound(tx, chain) /\ (tx.alive => Awaited(tx, mem))
  BY <1>1 DEF CallsSound, CallSound, TypeOK
<1> QED BY <1>1, <1>2, <1>3, <1>4, <1>5, <1>6, RecordsAre DEF TypeOK, GoodRecord

\* Steps of a living process that leave the record, its saves and timers alone.
LEMMA QuietStep ==
  ASSUME IInv, Loaded, UNCHANGED << account, up, mem, armed, store, faults >>,
         \A tx \in txs' : tx \in txs \/ NewCall(tx, mem),
         pouring' \subseteq Accounts, joining' \subseteq Conns \X Accounts, watching' \in BOOLEAN
  PROVE  IInv' /\ (Loaded => Loaded' /\ Succeeds(mem, mem'))
<1>1. /\ GoodRecord(mem, chain)
      /\ mem.status = "settling" => Finished(mem)
      /\ QueueGood(saves, mem)
      /\ disk \in Records \cup {NoLobby}
      /\ armed = TimersFor(mem)
      /\ TypeOK
  BY LoadedFacts
<1>2. mem' = mem /\ armed' = armed /\ disk' = disk /\ saves' = saves /\ faults' = faults
  BY DEF store
<1>3. Succeeds(mem, mem') /\ FaultsTyped'
  BY <1>1, <1>2, SucceedsItself, FaultsStay
<1>4. UNCHANGED << account, up >>
  OBVIOUS
<1> QED BY <1>1, <1>2, <1>3, <1>4, ProcessStep

\* What a transaction may become.
LEMMA BecomesOne ==
  ASSUME NEW tx \in txs, tx \in Transaction, NEW outcome \in {"landed", "failed"},
         Becomes(tx, outcome), NEW u \in txs', u \notin txs
  PROVE  /\ u \in Transaction
         /\ u.outcome = outcome
         /\ << u.op, u.accts, u.ml, u.alive >> = << tx.op, tx.accts, tx.ml, tx.alive >>
<1>1. u = [ tx EXCEPT !.outcome = outcome ]
  BY DEF Becomes
<1> QED BY <1>1 DEF Transaction

-----------------------------------------------------------------------------
(* The actions *)

\* The ledger, the clock, and the fate of transactions.
LEMMA OutsideActions ==
  ASSUME IInv,
         \/ \E bytes \in Randomness : OracleFulfills(bytes)
         \/ \E w \in Accounts : PlayerJoins(w)
         \/ StrangerCancels
         \/ Tick
         \/ \E tx \in txs : TxLands(tx) \/ TxRejected(tx) \/ CallFails(tx)
  PROVE  IInv' /\ (Loaded => Loaded' /\ Succeeds(mem, mem'))
<1>1. /\ TypeOK /\ chain \in Lobby /\ RosterConsistent(chain) /\ now \in Nat
      /\ \A tx \in txs : tx \in Transaction /\ CallSound(tx, chain)
  BY DEF IInv, TypeOK, CallsSound, CallSound
\* Somebody else's instruction.
<1>2. ASSUME Evolves(chain, chain'), UNCHANGED << now, mem, process, txs, store, faults >>
      PROVE  IInv' /\ (Loaded => Loaded' /\ Succeeds(mem, mem'))
  <2>1. chain' \in Lobby /\ RosterConsistent(chain') /\ Remembers(chain, chain')
    BY <1>1, <1>2, LedgerRemembers
  <2>2. FaultsTyped'
    BY <1>1, <1>2, FaultsStay
  <2>3. /\ UNCHANGED << mem, process, store >>
        /\ now' = now /\ txs' = txs
    BY <1>2
  <2> QED BY <1>1, <2>1, <2>2, <2>3, OutsideStep
<1>3. ASSUME NEW bytes \in Randomness, OracleFulfills(bytes)
      PROVE  IInv' /\ (Loaded => Loaded' /\ Succeeds(mem, mem'))
  <2>1. Evolves(chain, chain')
    BY <1>3, ServerInputs DEF OracleFulfills, Evolves
  <2> QED BY <1>2, <1>3, <2>1 DEF OracleFulfills
<1>4. ASSUME NEW w \in Accounts, PlayerJoins(w)
      PROVE  IInv' /\ (Loaded => Loaded' /\ Succeeds(mem, mem'))
  <2>1. Evolves(chain, chain')
    BY <1>4 DEF PlayerJoins, Evolves
  <2> QED BY <1>2, <1>4, <2>1 DEF PlayerJoins
<1>5. CASE StrangerCancels
  <2>1. Evolves(chain, chain')
    BY <1>5 DEF StrangerCancels, CanCancel, Evolves
  <2> QED BY <1>2, <1>5, <2>1 DEF StrangerCancels
<1>6. CASE Tick
  <2>1. now' \in Nat /\ chain' = chain /\ txs' = txs
    BY <1>6, ServerInputs DEF Tick
  <2>2. FaultsTyped'
    BY <1>1, <1>6, FaultsStay DEF Tick
  <2>3. UNCHANGED << mem, process, store >>
    BY <1>6 DEF Tick
  <2> QED BY <1>1, <2>1, <2>2, <2>3, RemembersItself, OutsideStep
<1>7. ASSUME NEW tx \in txs, TxLands(tx)
      PROVE  IInv' /\ (Loaded => Loaded' /\ Succeeds(mem, mem'))
  <2>1. Evolves(chain, chain') /\ HadEffect(tx, chain')
    BY <1>1, <1>7, Lands DEF TxLands, CallSound
  <2>2. chain' \in Lobby /\ RosterConsistent(chain') /\ Remembers(chain, chain')
    BY <1>1, <2>1, LedgerRemembers
  <2>3. ASSUME NEW u \in txs', u \notin txs
        PROVE  /\ u \in Transaction /\ CallSound(u, chain')
               /\ << u.op, u.accts, u.ml, u.alive >> = << tx.op, tx.accts, tx.ml, tx.alive >>
    <3>1. /\ u \in Transaction
          /\ << u.op, u.accts, u.ml, u.alive >> = << tx.op, tx.accts, tx.ml, tx.alive >>
      BY <1>1, <1>7, <2>3, BecomesOne DEF TxLands
    <3>2. u.op = tx.op /\ u.accts = tx.accts /\ u.ml = tx.ml
      BY <3>1
    <3>3. CallSound(u, chain')
      BY <1>1, <2>1, <3>2 DEF CallSound, HadEffect
    <3> QED BY <3>1, <3>3
  <2>4. /\ UNCHANGED << mem, process, store >>
        /\ now' \in Nat /\ FaultsTyped'
    BY <1>1, <1>7, FaultsStay DEF TxLands
  <2> QED BY <2>2, <2>3, <2>4, OutsideStep
\* A transaction that fails.
<1>8. ASSUME NEW tx \in txs, Becomes(tx, "failed"), FaultsTyped',
             UNCHANGED << account, mem, process, store >>
      PROVE  IInv' /\ (Loaded => Loaded' /\ Succeeds(mem, mem'))
  <2>1. ASSUME NEW u \in txs', u \notin txs
        PROVE  /\ u \in Transaction /\ CallSound(u, chain)
               /\ << u.op, u.accts, u.ml, u.alive >> = << tx.op, tx.accts, tx.ml, tx.alive >>
    <3>1. /\ u \in Transaction /\ u.outcome = "failed"
          /\ << u.op, u.accts, u.ml, u.alive >> = << tx.op, tx.accts, tx.ml, tx.alive >>
      BY <1>1, <1>8, <2>1, BecomesOne
    <3>2. CallSound(u, chain)
      BY <1>1, <3>1 DEF CallSound
    <3> QED BY <3>1, <3>2
  <2>2. chain' = chain /\ now' = now /\ UNCHANGED << mem, process, store >>
    BY <1>8 DEF account
  <2> QED BY <1>1, <1>8, <2>1, <2>2, RemembersItself, OutsideStep
<1>9. ASSUME NEW tx \in txs, TxRejected(tx)
      PROVE  IInv' /\ (Loaded => Loaded' /\ Succeeds(mem, mem'))
  <2>1. FaultsTyped'
    BY <1>1, <1>9, FaultsStay DEF TxRejected
  <2> QED BY <1>8, <1>9, <2>1 DEF TxRejected
<1>10. ASSUME NEW tx \in txs, CallFails(tx)
       PROVE  IInv' /\ (Loaded => Loaded' /\ Succeeds(mem, mem'))
  <2>1. FaultsTyped'
    BY <1>1, <1>10, FaultCounted DEF CallFails
  <2> QED BY <1>8, <1>10, <2>1 DEF CallFails
<1> QED BY <1>3, <1>4, <1>5, <1>6, <1>7, <1>9, <1>10

\* The oracle's answer is seen, or given up.
LEMMA OpeningActions ==
  ASSUME IInv, RoundKnown \/ WatchTimesOut
  PROVE  IInv' /\ (Loaded => Loaded' /\ Succeeds(mem, mem'))
<1>1. Loaded
  BY DEF RoundKnown, WatchTimesOut
<1>2. CASE WatchTimesOut
  <2>1. /\ UNCHANGED << account, up, mem, armed, store, faults >>
        /\ txs' = txs /\ pouring' = pouring /\ joining' = joining /\ watching' = FALSE
    BY <1>2 DEF WatchTimesOut
  <2> QED BY <1>1, <2>1, LoadedFacts, QuietStep
<1>3. CASE RoundKnown /\ mem.status # "awaiting_randomness"
  <2>1. /\ UNCHANGED << account, up, mem, armed, store, faults >>
        /\ txs' = txs /\ pouring' = pouring /\ joining' = joining /\ watching' = FALSE
    BY <1>3 DEF RoundKnown, store
  <2> QED BY <1>1, <2>1, LoadedFacts, QuietStep
<1>4. CASE RoundKnown /\ mem.status = "awaiting_randomness"
  <2>1. /\ mem' = [ mem EXCEPT !.targetMl = chain.target_ml, !.status = "open" ]
        /\ saves' = Append(saves, [ record |-> mem', next |-> "done" ])
        /\ UNCHANGED << account, up >>
        /\ armed' = armed /\ txs' = txs /\ pouring' = pouring /\ joining' = joining
        /\ watching' = FALSE /\ disk' = disk /\ faults' = faults
    BY <1>4 DEF RoundKnown, Persist
  <2>2. GoodRecord(mem, chain) /\ mem \in LobbyRecord /\ TypeOK
    BY <1>1, LoadedFacts
  <2>3. chain.target_ml \in TargetLines
    BY <2>2 DEF TypeOK, Lobby
  <2>4. /\ mem' \in LobbyRecord /\ mem'.players = mem.players /\ mem'.status = "open"
        /\ Drawn(mem', chain)
    BY <1>4, <2>1, <2>2, <2>3 DEF LobbyRecord, RoundKnown, Drawn
  <2>5. mem.players = << >>
    BY <1>4, <2>2 DEF GoodRecord, RosterSound
  <2>6. /\ GoodRecord(mem', chain) /\ Succeeds(mem, mem') /\ Waiting(mem') = Waiting(mem)
        /\ Waiting(mem) = {}
    BY <2>2, <2>4, <2>5, Relabelled DEF Waiting
  <2>7. armed' = TimersFor(mem')
    BY <1>1, <1>4, <2>1, <2>4, <2>6, LoadedFacts DEF TimersFor
  <2>8. QueueGood(saves', mem')
    BY <1>1, <2>1, <2>4, <2>6, QueueNow, QueueGrows
  <2>9. FaultsTyped'
    BY <2>1, <2>2, FaultsStay
  <2> QED BY <1>1, <2>1, <2>4, <2>6, <2>7, <2>8, <2>9, LoadedFacts, ProcessStep
<1> QED BY <1>2, <1>3, <1>4

\* A join request comes in, is confirmed, or is turned away.
LEMMA JoiningActions ==
  ASSUME IInv,
         \E c \in Conns, w \in Accounts :
           JoinRequest(c, w) \/ JoinConfirmed(c, w) \/ JoinRefused(c, w)
  PROVE  IInv' /\ (Loaded => Loaded' /\ Succeeds(mem, mem'))
<1>1. Loaded
  BY DEF JoinRequest, JoinConfirmed, JoinRefused
<1>2. PICK c \in Conns, w \in Accounts :
        JoinRequest(c, w) \/ JoinConfirmed(c, w) \/ JoinRefused(c, w)
  OBVIOUS
\* Nobody is seated.
<1>3. ASSUME UNCHANGED << account, up, mem, armed, store, faults >>,
             txs' = txs, pouring' = pouring, watching' = watching,
             joining' \subseteq joining \cup { << c, w >> }
      PROVE  IInv' /\ (Loaded => Loaded' /\ Succeeds(mem, mem'))
  <2>1. joining' \subseteq Conns \X Accounts
    BY <1>1, <1>2, <1>3, LoadedFacts
  <2> QED BY <1>1, <1>3, <2>1, LoadedFacts, QuietStep
<1>4. CASE JoinRequest(c, w)
  <2>1. /\ UNCHANGED << account, up, mem, armed, store, faults >>
        /\ txs' = txs /\ pouring' = pouring /\ watching' = watching
        /\ joining' = joining \cup { << c, w >> }
    BY <1>4 DEF JoinRequest
  <2> QED BY <1>3, <2>1
<1>5. CASE JoinRefused(c, w)
  <2>1. /\ UNCHANGED << account, up, mem, armed, store, faults >>
        /\ txs' = txs /\ pouring' = pouring /\ watching' = watching
        /\ joining' = joining \ { << c, w >> }
    BY <1>5 DEF JoinRefused
  <2> QED BY <1>3, <2>1
<1>6. CASE JoinConfirmed(c, w) /\ ~ StillMayJoin(w)
  <2>1. /\ UNCHANGED << account, up, mem, armed, store, faults >>
        /\ txs' = txs /\ pouring' = pouring /\ watching' = watching
        /\ joining' = joining \ { << c, w >> }
    BY <1>6 DEF JoinConfirmed, store
  <2> QED BY <1>3, <2>1
<1>7. CASE JoinConfirmed(c, w) /\ StillMayJoin(w)
  <2>1. /\ mem' = WithSeat(mem, w)
        /\ armed' = armed \cup {w}
        /\ saves' = Append(saves, [ record |-> mem', next |-> "done" ])
        /\ joining' = joining \ { << c, w >> }
        /\ contains_player(chain, w)
        /\ UNCHANGED << account, up >>
        /\ pouring' = pouring /\ watching' = watching /\ txs' = txs
        /\ disk' = disk /\ faults' = faults
    BY <1>7 DEF JoinConfirmed, Persist, WithSeat
  <2>2. mem.status = "open" /\ w \notin Seated(mem) /\ ~ Full(mem)
    BY <1>7 DEF StillMayJoin, MayJoin
  <2>3. /\ GoodRecord(mem, chain) /\ TypeOK /\ armed = TimersFor(mem)
        /\ disk \in Records \cup {NoLobby}
        /\ pouring \subseteq Accounts /\ joining \subseteq Conns \X Accounts
        /\ watching \in BOOLEAN
    BY <1>1, LoadedFacts
  <2>4. /\ GoodRecord(mem', chain) /\ Succeeds(mem, mem')
        /\ Waiting(mem') = Waiting(mem) \cup {w} /\ mem'.status = "open"
    BY <1>2, <2>1, <2>2, <2>3, JoinedRecord
  <2>5. armed' = TimersFor(mem')
    BY <2>1, <2>2, <2>3, <2>4 DEF TimersFor
  <2>6. mem' \in LobbyRecord
    BY <2>4 DEF GoodRecord
  <2>7. QueueGood(saves', mem')
    BY <1>1, <2>1, <2>4, <2>6, QueueNow, QueueGrows
  <2>8. FaultsTyped'
    BY <2>1, <2>3, FaultsStay
  <2>9. mem'.status # "settling" /\ joining' \subseteq Conns \X Accounts
    BY <2>1, <2>3, <2>4
  <2> HIDE DEF StillMayJoin
  <2> QED BY <1>1, <2>1, <2>3, <2>4, <2>5, <2>7, <2>8, <2>9, ProcessStep
<1> QED BY <1>2, <1>4, <1>5, <1>6, <1>7

\* A recorded result: the player is marked, the timer goes, the report is sent.
LEMMA ResultStep ==
  ASSUME IInv, Loaded, NEW w \in Waiting(mem), NEW ml \in 0 .. OVERFLOW_SENTINEL,
         mem.status = "open", RecordResult(w, ml),
         UNCHANGED << account, up, watching, joining, store, faults >>,
         pouring' \subseteq pouring
  PROVE  IInv' /\ (Loaded => Loaded' /\ Succeeds(mem, mem'))
<1>1. /\ GoodRecord(mem, chain) /\ mem \in LobbyRecord /\ TypeOK
      /\ armed = TimersFor(mem)
      /\ disk \in Records \cup {NoLobby}
      /\ pouring \subseteq Accounts /\ joining \subseteq Conns \X Accounts
      /\ watching \in BOOLEAN
  BY LoadedFacts
<1>2. /\ mem' = WithResult(mem, w, ml)
      /\ armed' = armed \ {w}
      /\ txs' = txs \cup { Call("submit", << w >>, ml) }
  BY DEF RecordResult, Marked, WithResult
<1>3. /\ GoodRecord(mem', chain) /\ Succeeds(mem, mem')
      /\ Waiting(mem') = Waiting(mem) \ {w} /\ mem'.status = "open"
      /\ \E i \in DOMAIN mem'.players : /\ mem'.players[i].wallet = w
                                        /\ mem'.players[i].status = "done"
                                        /\ mem'.players[i].pouredMl = ml
  BY <1>1, <1>2, MarkedRecord
<1>4. NewCall(Call("submit", << w >>, ml), mem')
  <2> DEFINE tx == Call("submit", << w >>, ml)
  <2>1. w \in Accounts
    BY <1>1, RecordTyped
  <2>2. tx \in Transaction
    BY <2>1 DEF Call, Transaction
  <2>3. tx.op = "submit" /\ tx.outcome = "pending" /\ tx.ml = ml
        /\ Len(tx.accts) = 1 /\ tx.accts[1] = w
    BY DEF Call
  <2> HIDE DEF tx
  <2>4. Reporting(tx, mem')
    BY <1>3, <2>3 DEF Reporting
  <2>5. NewCall(tx, mem')
    BY <2>2, <2>3, <2>4 DEF NewCall, Awaited
  <2> QED BY <2>5 DEF tx
<1>5. \A tx \in txs' : tx \in txs \/ NewCall(tx, mem')
  BY <1>2, <1>4
<1>6. armed' = TimersFor(mem')
  BY <1>1, <1>2, <1>3 DEF TimersFor
<1>7. /\ UNCHANGED << account, up >>
      /\ disk' = disk /\ saves' = saves /\ faults' = faults
      /\ joining' = joining /\ watching' = watching /\ pouring' \subseteq Accounts
  BY <1>1 DEF store
<1>8. FaultsTyped' /\ QueueGood(saves', mem')
  BY <1>1, <1>3, <1>7, FaultsStay, QueueNow
<1>9. mem'.status # "settling"
  BY <1>3
<1> QED BY <1>1, <1>3, <1>5, <1>6, <1>7, <1>8, <1>9, ProcessStep

\* A pour starts or stops, a play timer fires.
LEMMA PouringActions ==
  ASSUME IInv,
         \/ \E w \in Accounts : PourStart(w)
         \/ \E w \in Accounts, ml \in Pours : PourStop(w, ml)
         \/ \E w \in Accounts, ml \in Pours \cup {0} : TimerFires(w, ml)
  PROVE  IInv' /\ (Loaded => Loaded' /\ Succeeds(mem, mem'))
<1>1. Loaded
  BY DEF PourStart, PourStop, TimerFires
<1>2. /\ pouring \subseteq Accounts /\ joining \subseteq Conns \X Accounts
      /\ watching \in BOOLEAN /\ armed = TimersFor(mem)
  BY <1>1, LoadedFacts
<1>3. Pours \cup {0} \subseteq 0 .. OVERFLOW_SENTINEL
  BY ServerInputs, LobbyNumbers
<1>4. ASSUME NEW w \in Accounts, PourStart(w)
      PROVE  IInv' /\ (Loaded => Loaded' /\ Succeeds(mem, mem'))
  <2>1. /\ UNCHANGED << account, up, mem, armed, store, faults >>
        /\ txs' = txs /\ joining' = joining /\ watching' = watching
        /\ pouring' \subseteq Accounts
    BY <1>2, <1>4 DEF PourStart
  <2> QED BY <1>1, <1>2, <2>1, QuietStep
<1>5. ASSUME NEW w \in Accounts, NEW ml \in Pours, PourStop(w, ml)
      PROVE  IInv' /\ (Loaded => Loaded' /\ Succeeds(mem, mem'))
  <2>1. CASE mem.status = "open" /\ w \in Waiting(mem)
    <3>1. RecordResult(w, ml) /\ pouring' \subseteq pouring
          /\ UNCHANGED << account, up, watching, joining, store, faults >>
      BY <1>5 DEF PourStop
    <3> QED BY <1>1, <1>3, <2>1, <3>1, ResultStep
  <2>2. CASE ~ (mem.status = "open" /\ w \in Waiting(mem))
    <3>1. /\ UNCHANGED << account, up, mem, armed, store, faults >>
          /\ txs' = txs /\ joining' = joining /\ watching' = watching
          /\ pouring' \subseteq Accounts
      BY <1>2, <1>5, <2>2 DEF PourStop, RecordResult
    <3> QED BY <1>1, <1>2, <3>1, QuietStep
  <2> QED BY <2>1, <2>2
<1>6. ASSUME NEW w \in Accounts, NEW ml \in Pours \cup {0}, TimerFires(w, ml)
      PROVE  IInv' /\ (Loaded => Loaded' /\ Succeeds(mem, mem'))
  \* A timer that fires belongs to a player who waits.
  <2>1. mem.status = "open" /\ w \in Waiting(mem)
    <3>1. w \in TimersFor(mem)
      BY <1>2, <1>6 DEF TimerFires
    <3> QED BY <3>1, Zenon DEF TimersFor
  <2>2. RecordResult(w, ml) /\ pouring' \subseteq pouring
        /\ UNCHANGED << account, up, watching, joining, store, faults >>
    BY <1>6, <2>1 DEF TimerFires
  <2> QED BY <1>1, <1>3, <2>1, <2>2, ResultStep
<1> QED BY <1>4, <1>5, <1>6

\* A save returns to its caller, who settles when everybody has a result, or
\* it fails and its caller goes no further.
LEMMA SavingActions ==
  ASSUME IInv, SaveDone \/ SaveFails
  PROVE  IInv' /\ (Loaded => Loaded' /\ Succeeds(mem, mem'))
<1>1. Loaded /\ saves # << >>
  BY DEF SaveDone, SaveFails
<1>2. /\ GoodRecord(mem, chain) /\ mem \in LobbyRecord /\ mem \in Records
      /\ RosterSound(mem) /\ TypeOK
      /\ mem.status = "settling" => Finished(mem)
      /\ QueueGood(saves, mem)
      /\ armed = TimersFor(mem)
      /\ disk \in Records \cup {NoLobby}
      /\ pouring \subseteq Accounts /\ joining \subseteq Conns \X Accounts
      /\ watching \in BOOLEAN
  BY <1>1, LoadedFacts
<1>3. /\ QueueGood(Tail(saves), mem)
      /\ Head(saves) \in Save /\ Head(saves).record \in Records
      /\ Head(saves).next = "settle" => Finished(mem)
  BY <1>1, <1>2, QueueShrinks
<1>4. CASE SaveFails
  <2>1. /\ saves' = Tail(saves) /\ mem' = mem /\ txs' = txs /\ disk' = disk
        /\ UNCHANGED << account, up >> /\ armed' = armed /\ pouring' = pouring
        /\ watching' = watching /\ joining' = joining
    BY <1>4 DEF SaveFails, process
  <2>2. FaultsTyped'
    BY <1>2, <1>4, FaultCounted DEF SaveFails
  <2>3. Succeeds(mem, mem')
    BY <2>1, SucceedsItself
  <2> QED BY <1>1, <1>2, <1>3, <2>1, <2>2, <2>3, ProcessStep
<1>5. CASE SaveDone
  <2> DEFINE save == Head(saves)
             settle == save.next = "maybeSettle" /\ ReadyToSettle(mem)
  <2>1. /\ disk' = save.record
        /\ watching' = (watching \/ save.next = "watch")
        /\ settle => mem' = [ mem EXCEPT !.status = "settling" ]
        /\ settle => saves' = Append(Tail(saves), [ record |-> mem', next |-> "settle" ])
        /\ ~ settle => mem' = mem /\ saves' = Tail(saves)
        /\ save.next = "settle" => txs' = txs \cup { Call("settle", computeWinners(mem), 0) }
        /\ save.next # "settle" => txs' = txs
        /\ UNCHANGED << account, up >> /\ armed' = armed /\ pouring' = pouring
        /\ joining' = joining /\ faults' = faults
    BY <1>5 DEF SaveDone
  <2>2. settle => Finished(mem) /\ mem.status = "open"
    BY DEF ReadyToSettle, Complete, Finished
  <2>3. /\ GoodRecord(mem', chain) /\ Succeeds(mem, mem') /\ Waiting(mem') = Waiting(mem)
        /\ mem' \in LobbyRecord
        /\ settle => mem'.status = "settling"
    <3>1. CASE settle
      <4>1. /\ mem' \in LobbyRecord /\ mem'.players = mem.players /\ mem'.status = "settling"
            /\ mem'.targetMl = mem.targetMl
        BY <1>2, <2>1, <3>1 DEF LobbyRecord
      <4>2. InRound(mem)
        BY <2>2, <3>1 DEF InRound
      <4> QED BY <1>2, <4>1, <4>2, Relabelled
    <3>2. CASE ~ settle
      BY <1>2, <2>1, <3>2, SucceedsItself
    <3> QED BY <3>1, <3>2
  <2>4. mem'.status = "settling" => Finished(mem')
    BY <1>2, <2>1, <2>2, <2>3 DEF Succeeds
  <2>5. QueueGood(saves', mem')
    <3>1. QueueGood(Tail(saves), mem')
      BY <1>2, <1>3, <2>3 DEF QueueGood, Succeeds
    <3>2. CASE settle
      BY <2>1, <2>3, <2>4, <3>1, <3>2, QueueGrows
    <3>3. CASE ~ settle
      BY <2>1, <3>1, <3>3
    <3> QED BY <3>2, <3>3
  <2>6. ASSUME save.next = "settle"
        PROVE  NewCall(Call("settle", computeWinners(mem), 0), mem')
    <3>1. Finished(mem) /\ Finished(mem')
      BY <1>3, <2>3, <2>6 DEF Succeeds
    <3>2. computeWinners(mem) \in Seq(Accounts)
      BY <1>2, <3>1, WinnersTyped DEF Finished
    <3>3. \A ws \in Seq(Accounts) : NewCall(Call("settle", ws, 0), mem')
      BY <3>1, LobbyNumbers DEF NewCall, Call, Transaction, Awaited
    <3> QED BY <3>2, <3>3
  <2>7. \A tx \in txs' : tx \in txs \/ NewCall(tx, mem')
    BY <2>1, <2>6
  <2>8. armed' = TimersFor(mem')
    BY <1>2, <2>1, <2>2, <2>3 DEF TimersFor, Finished
  <2>9. FaultsTyped' /\ watching' \in BOOLEAN /\ disk' \in Records \cup {NoLobby}
    BY <1>2, <1>3, <2>1, FaultsStay
  <2> HIDE DEF save, settle
  <2> QED BY <1>1, <1>2, <2>1, <2>3, <2>4, <2>5, <2>7, <2>8, <2>9, ProcessStep
<1> QED BY <1>4, <1>5

\* The settlement comes back, the sweep cancels, the cancellation comes back.
LEMMA EndingActions ==
  ASSUME IInv,
         \/ \E tx \in txs : SubmitReturns(tx) \/ SettleReturns(tx) \/ CancelReturns(tx)
         \/ Sweep
  PROVE  IInv' /\ (Loaded => Loaded' /\ Succeeds(mem, mem'))
<1>1. Loaded
  BY DEF SubmitReturns, SettleReturns, CancelReturns, Sweep
<1>2. /\ GoodRecord(mem, chain) /\ mem \in LobbyRecord /\ TypeOK
      /\ mem.status = "settling" => Finished(mem)
      /\ armed = TimersFor(mem)
      /\ disk \in Records \cup {NoLobby}
      /\ pouring \subseteq Accounts /\ joining \subseteq Conns \X Accounts
      /\ watching \in BOOLEAN
      /\ \A tx \in txs : /\ tx \in Transaction /\ CallSound(tx, chain)
                         /\ tx.alive => Awaited(tx, mem)
  BY <1>1, LoadedFacts
\* A return that changes the record: it is saved, and the call is over.
<1>3. ASSUME GoodRecord(mem', chain), Succeeds(mem, mem'),
             mem'.status = "settling" => Finished(mem'),
             armed' = TimersFor(mem'),
             NEW next \in {"maybeSettle", "done"},
             saves' = Append(saves, [ record |-> mem', next |-> next ]),
             txs' \subseteq txs,
             UNCHANGED << account, up, pouring, watching, joining, disk, faults >>
      PROVE  IInv' /\ (Loaded => Loaded' /\ Succeeds(mem, mem'))
  <2>1. mem' \in LobbyRecord
    BY <1>3 DEF GoodRecord
  <2>2. QueueGood(saves', mem')
    BY <1>1, <1>3, <2>1, QueueNow, QueueGrows
  <2>3. FaultsTyped'
    BY <1>2, <1>3, FaultsStay
  <2>4. UNCHANGED << account, up >> /\ pouring' = pouring /\ watching' = watching
        /\ joining' = joining /\ disk' = disk
    BY <1>3
  <2> QED BY <1>1, <1>2, <1>3, <2>2, <2>3, <2>4, ProcessStep
<1>4. ASSUME NEW tx \in txs, SubmitReturns(tx)
      PROVE  IInv' /\ (Loaded => Loaded' /\ Succeeds(mem, mem'))
  <2>1. /\ mem' = WithNote(mem, tx)
        /\ armed' = armed
        /\ saves' = Append(saves, [ record |-> mem', next |-> "maybeSettle" ])
        /\ txs' \subseteq txs
        /\ UNCHANGED << account, up, pouring, watching, joining, disk, faults >>
    BY <1>4 DEF SubmitReturns, WithNote, Persist, process
  <2>2. Reporting(tx, mem) /\ (tx.outcome = "landed" => Holds(chain, tx.accts[1], tx.ml))
    BY <1>2, <1>4 DEF SubmitReturns, Awaited, CallSound, HadEffect
  <2>3. /\ GoodRecord(mem', chain) /\ Succeeds(mem, mem')
        /\ Waiting(mem') = Waiting(mem) /\ mem'.status = mem.status
    BY <1>2, <2>1, <2>2, NotedRecord
  <2>4. mem'.status = "settling" => Finished(mem')
    BY <1>2, <2>3 DEF Succeeds
  <2>5. armed' = TimersFor(mem')
    BY <1>2, <2>1, <2>3 DEF TimersFor
  <2> QED BY <1>3, <2>1, <2>3, <2>4, <2>5
<1>5. ASSUME NEW tx \in txs, SettleReturns(tx)
      PROVE  IInv' /\ (Loaded => Loaded' /\ Succeeds(mem, mem'))
  <2>1. /\ mem' = AfterSettle(mem, tx)
        /\ armed' = armed
        /\ saves' = Append(saves, [ record |-> mem', next |-> "done" ])
        /\ txs' \subseteq txs
        /\ UNCHANGED << account, up, pouring, watching, joining, disk, faults >>
    BY <1>5 DEF SettleReturns, Persist, process
  <2>2. /\ tx.accts \in Seq(Accounts)
        /\ Landed(tx) => chain.status = "Settled" /\ tx.accts = WinnerKeys(chain)
        /\ Finished(mem)
    BY <1>2, <1>5 DEF SettleReturns, CallSound, HadEffect, Awaited, Landed, Transaction
  <2>3. /\ mem' \in LobbyRecord /\ mem'.players = mem.players /\ mem'.targetMl = mem.targetMl
        /\ \/ mem'.status = "settled" /\ mem'.winners = tx.accts /\ Landed(tx)
           \/ mem'.status = "open"
    <3>1. CASE Landed(tx)
      BY <1>2, <2>1, <2>2, <3>1 DEF AfterSettle, LobbyRecord
    <3>2. CASE ~ Landed(tx)
      BY <1>2, <2>1, <2>2, <3>2 DEF AfterSettle, LobbyRecord
    <3> QED BY <3>1, <3>2
  <2>4. /\ GoodRecord(mem', chain) /\ Succeeds(mem, mem') /\ Waiting(mem') = Waiting(mem)
    <3>1. InRound(mem)
      BY <1>2, <2>2, FinishedHasPlayers
    <3> QED BY <1>2, <2>2, <2>3, <3>1, Relabelled
  <2>5. mem'.status # "settling"
    BY <2>3
  <2>6. armed' = TimersFor(mem')
    <3>1. Waiting(mem) = {}
      BY <2>2 DEF Finished
    <3> QED BY <1>2, <2>1, <2>4, <3>1, Zenon DEF TimersFor
  <2> QED BY <1>3, <2>1, <2>4, <2>5, <2>6
<1>6. ASSUME NEW tx \in txs, CancelReturns(tx)
      PROVE  IInv' /\ (Loaded => Loaded' /\ Succeeds(mem, mem'))
  <2>1. CASE Landed(tx)
    <3>1. /\ mem' = [ mem EXCEPT !.status = "cancelled" ]
          /\ armed' = armed \ Seated(mem)
          /\ saves' = Append(saves, [ record |-> mem', next |-> "done" ])
          /\ txs' \subseteq txs
          /\ UNCHANGED << account, up, pouring, watching, joining, disk, faults >>
      BY <1>6, <2>1 DEF CancelReturns, Persist
    <3>2. chain.status = "Cancelled"
      BY <1>2, <1>6, <2>1 DEF CancelReturns, CallSound, HadEffect, Landed
    <3>3. mem' \in LobbyRecord /\ mem'.players = mem.players /\ mem'.status = "cancelled"
          /\ mem'.targetMl = mem.targetMl
      BY <1>2, <3>1 DEF LobbyRecord
    <3>4. GoodRecord(mem', chain) /\ Succeeds(mem, mem')
      BY <1>2, <3>2, <3>3, Relabelled DEF InRound
    <3>5. armed' = TimersFor(mem')
      <4>1. armed \subseteq Seated(mem)
        BY <1>2, RecordTyped DEF TimersFor
      <4> QED BY <3>1, <3>3, <4>1 DEF TimersFor
    <3>6. mem'.status # "settling"
      BY <3>3
    <3> QED BY <1>3, <3>1, <3>4, <3>5, <3>6
  <2>2. CASE ~ Landed(tx)
    <3>1. /\ UNCHANGED << account, up, mem, armed, store, faults >>
          /\ txs' \subseteq txs
          /\ pouring' = pouring /\ joining' = joining /\ watching' = watching
      BY <1>6, <2>2 DEF CancelReturns, store
    <3> QED BY <1>1, <1>2, <3>1, QuietStep
  <2> QED BY <2>1, <2>2
<1>7. CASE Sweep
  <2>1. /\ UNCHANGED << account, up, mem, armed, store, faults >>
        /\ txs' = txs \cup { Call("cancel", Wallets(mem), 0) }
        /\ pouring' = pouring /\ joining' = joining /\ watching' = watching
    BY <1>7 DEF Sweep, process
  <2>2. Wallets(mem) \in Seq(Accounts)
    <3>1. /\ Len(mem.players) \in Nat /\ DOMAIN mem.players = 1 .. Len(mem.players)
          /\ \A i \in DOMAIN mem.players : mem.players[i].wallet \in Accounts
      BY <1>2, RecordTyped DEF PlayerRecord
    <3> QED BY <3>1 DEF Wallets
  <2>3. \A ws \in Seq(Accounts) : NewCall(Call("cancel", ws, 0), mem)
    BY LobbyNumbers DEF NewCall, Call, Transaction, Awaited
  <2>4. \A tx \in txs' : tx \in txs \/ NewCall(tx, mem)
    BY <2>1, <2>2, <2>3
  <2> QED BY <1>1, <1>2, <2>1, <2>4, QuietStep
<1> QED BY <1>4, <1>5, <1>6, <1>7

\* The process dies: what it had on disk and on the ledger stays.
LEMMA CrashStep ==
  ASSUME IInv, Crash
  PROVE  IInv'
<1>1. TypeOK /\ CallsSound /\ RosterConsistent(chain)
  BY DEF IInv
<1>2. /\ up' = FALSE /\ mem' = NoLobby
      /\ armed' = {} /\ pouring' = {} /\ watching' = FALSE /\ joining' = {}
      /\ saves' = << >>
      /\ txs' = { [ tx EXCEPT !.alive = FALSE ] : tx \in { t \in txs : t.outcome = "pending" } }
      /\ chain' = chain /\ now' = now /\ disk' = disk
  BY DEF Crash, account
<1>3. FaultsTyped'
  BY <1>1, FaultCounted DEF Crash
<1>4. ASSUME NEW u \in txs'
      PROVE  /\ u \in Transaction /\ u.outcome = "pending" /\ ~ u.alive
             /\ u.op = "submit" => Len(u.accts) = 1
  <2>1. PICK tx \in txs : tx.outcome = "pending" /\ u = [ tx EXCEPT !.alive = FALSE ]
    BY <1>2
  <2>2. tx \in Transaction /\ (tx.op = "submit" => Len(tx.accts) = 1)
    BY <1>1 DEF TypeOK, CallsSound
  <2> QED BY <2>1, <2>2 DEF Transaction
<1>5. CallsSound' /\ txs' \subseteq Transaction
  BY <1>4 DEF CallsSound
<1>6. /\ RecordsSound'
      /\ disk' \in LobbyRecord \cup {NoLobby}
  BY <1>1, <1>2, RecordsAre, RemembersItself, RecordsStep DEF TypeOK
<1>7. ~ Loaded'
  BY <1>2 DEF Loaded
<1>8. NothingLeft' /\ SettlesFinished' /\ TimersCoverPlayers'
  BY <1>2, <1>7 DEF NothingLeft, SettlesFinished, TimersCoverPlayers
<1>9. TypeOK'
  <2>1. saves' \in Seq(Save) /\ joining' \subseteq Conns \X Accounts
    BY <1>2
  <2> QED BY <1>1, <1>2, <1>3, <1>5, <1>6, <2>1 DEF TypeOK, FaultsTyped
<1>10. RosterConsistent(chain)'
  BY <1>1, <1>2
<1> QED BY <1>5, <1>6, <1>8, <1>9, <1>10 DEF IInv

\* A dead process has no handler that waits for a call.
LEMMA NobodyWaits ==
  ASSUME IInv, ~ up
  PROVE  \A tx \in txs : ~ tx.alive
BY DEF IInv, CallsSound, Loaded

\* The record on disk as init opens it again.
Reopened(r) == IF r.status = "settling" THEN [ r EXCEPT !.status = "open" ] ELSE r

\* It is sound as well, has the same players, and nobody settles it.
LEMMA ReopenedRecord ==
  ASSUME NEW c, NEW r, GoodRecord(r, c), NEW q, q = Reopened(r)
  PROVE  /\ GoodRecord(q, c)
         /\ q.status # "settling"
<1>1. CASE r.status = "settling"
  <2>1. q \in LobbyRecord /\ q.players = r.players /\ q.status = "open" /\ q.targetMl = r.targetMl
    BY <1>1 DEF Reopened, GoodRecord, LobbyRecord
  <2>2. InRound(r)
    BY <1>1 DEF InRound
  <2> QED BY <2>1, <2>2, Relabelled
<1>2. CASE r.status # "settling"
  BY <1>2 DEF Reopened
<1> QED BY <1>1, <1>2

\* init: the record on disk is sound again in memory, its timers are armed, and
\* what waits to be settled has all its results.
LEMMA BootStep ==
  ASSUME IInv, Boot
  PROVE  IInv'
<1>1. TypeOK /\ CallsSound /\ RosterConsistent(chain) /\ NothingLeft
  BY DEF IInv
<1>2. /\ ~ up /\ up' = TRUE
      /\ chain' = chain /\ now' = now /\ disk' = disk /\ txs' = txs
      /\ pouring' = pouring /\ joining' = joining /\ faults' = faults
  BY DEF Boot, account
<1>3. FaultsTyped' /\ watching' \in BOOLEAN
  BY <1>1, <1>2, FaultsStay DEF Boot
<1>4. CallsSound' /\ txs' \subseteq Transaction
  BY <1>1, <1>2, NobodyWaits DEF TypeOK, CallsSound
<1>5. CASE disk = NoLobby
  <2>1. mem' = NoLobby /\ armed' = {} /\ saves' = << >>
    BY <1>5 DEF Boot, Rearmed
  <2>2. /\ RecordsSound'
        /\ disk' \in LobbyRecord \cup {NoLobby}
    BY <1>1, <1>2, <2>1, RecordsAre, RemembersItself, RecordsStep DEF TypeOK
  <2>3. ~ Loaded'
    BY <2>1 DEF Loaded
  <2>4. NothingLeft' /\ SettlesFinished' /\ TimersCoverPlayers'
    BY <1>2, <2>1, <2>3 DEF NothingLeft, SettlesFinished, TimersCoverPlayers
  <2>5. TypeOK'
    BY <1>1, <1>2, <1>3, <1>4, <2>1, <2>2 DEF TypeOK, FaultsTyped
  <2>6. RosterConsistent(chain)'
    BY <1>1, <1>2
  <2> QED BY <1>4, <2>2, <2>4, <2>5, <2>6 DEF IInv
<1>6. CASE disk # NoLobby
  <2> DEFINE open == Reopened(disk)
  <2>1. /\ mem' = IF ReadyToSettle(open) THEN [ open EXCEPT !.status = "settling" ] ELSE open
        /\ armed' = TimersFor(open)
        /\ saves' = IF ReadyToSettle(open)
                    THEN << [ record |-> mem', next |-> "settle" ] >> ELSE << >>
    <3>1. open # NoLobby
      <4>1. disk \in LobbyRecord
        BY <1>1, <1>6 DEF TypeOK
      <4>2. open \in LobbyRecord
        BY <4>1 DEF Reopened, LobbyRecord
      <4> QED BY <4>2, NoRecord
    <3>2. open = (IF disk # NoLobby /\ disk.status = "settling"
                  THEN [ disk EXCEPT !.status = "open" ] ELSE disk)
      BY <1>6 DEF Reopened
    <3> HIDE DEF open
    <3> QED BY <1>6, <3>1, <3>2 DEF Boot, Rearmed, TimersFor
  <2>2. GoodRecord(open, chain) /\ open.status # "settling"
    BY <1>6, RecordsAre, ReopenedRecord
  <2> HIDE DEF open
  <2>3. CASE ReadyToSettle(open)
    <3>1. /\ mem' = [ open EXCEPT !.status = "settling" ]
          /\ saves' = << [ record |-> mem', next |-> "settle" ] >>
      BY <2>1, <2>3
    <3>2. open.status = "open" /\ Finished(open) /\ Waiting(open) = {}
      BY <2>3 DEF ReadyToSettle, Complete, Finished
    <3>3. mem' \in LobbyRecord /\ mem'.players = open.players /\ mem'.status = "settling"
          /\ mem'.targetMl = open.targetMl
      BY <2>2, <3>1 DEF GoodRecord, LobbyRecord
    <3>4. GoodRecord(mem', chain) /\ Succeeds(open, mem')
      <4>1. InRound(open)
        BY <3>2 DEF InRound
      <4> QED BY <2>2, <3>3, <4>1, Relabelled
    <3>5. Finished(mem')
      BY <3>2, <3>4 DEF Succeeds
    <3>6. armed' = {}
      BY <2>1, <3>2, Zenon DEF TimersFor
    <3>7. /\ saves' \in Seq(Save)
          /\ \A k \in DOMAIN saves' : saves'[k].record = mem'
      BY <3>1, <3>3 DEF Save
    <3>8. /\ RecordsSound'
          /\ disk' \in LobbyRecord \cup {NoLobby}
      BY <1>1, <1>2, <3>4, <3>7, RecordsAre, RemembersItself, RecordsStep DEF TypeOK
    <3>9. Loaded' /\ mem' # NoLobby
      BY <1>2, <3>3, NoRecord DEF Loaded
    <3>10. NothingLeft' /\ SettlesFinished' /\ TimersCoverPlayers'
      BY <1>2, <3>3, <3>5, <3>6, <3>9 DEF NothingLeft, SettlesFinished, TimersCoverPlayers
    <3>11. TypeOK'
      BY <1>1, <1>2, <1>3, <1>4, <3>3, <3>6, <3>7, <3>8 DEF TypeOK, FaultsTyped
    <3>12. RosterConsistent(chain)'
      BY <1>1, <1>2
    <3> QED BY <1>4, <3>8, <3>10, <3>11, <3>12 DEF IInv
  <2>4. CASE ~ ReadyToSettle(open)
    <3>1. mem' = open /\ saves' = << >> /\ armed' = TimersFor(mem')
      BY <2>1, <2>4
    <3>2. mem' \in LobbyRecord
      BY <2>2, <3>1 DEF GoodRecord
    <3>3. armed' \subseteq Accounts
      BY <3>1, <3>2, RecordTyped DEF TimersFor
    <3>4. /\ RecordsSound'
          /\ disk' \in LobbyRecord \cup {NoLobby}
      BY <1>1, <1>2, <2>2, <3>1, RecordsAre, RemembersItself, RecordsStep DEF TypeOK
    <3>5. Loaded' /\ mem' # NoLobby
      BY <1>2, <3>2, NoRecord DEF Loaded
    <3>6. NothingLeft' /\ SettlesFinished'
      BY <1>2, <2>2, <3>1, <3>5 DEF NothingLeft, SettlesFinished
    <3>7. TimersCoverPlayers'
      BY <3>1, <3>5, Zenon DEF TimersCoverPlayers, TimersFor
    <3>8. TypeOK'
      BY <1>1, <1>2, <1>3, <1>4, <3>1, <3>2, <3>3, <3>4 DEF TypeOK, FaultsTyped
    <3>9. RosterConsistent(chain)'
      BY <1>1, <1>2
    <3> QED BY <1>4, <3>4, <3>6, <3>7, <3>8, <3>9 DEF IInv
  <2> QED BY <2>3, <2>4
<1> QED BY <1>5, <1>6

-----------------------------------------------------------------------------
(* The invariant holds *)

\* createLobby's first state satisfies the invariant.
LEMMA InitIInv ==
  ASSUME Init
  PROVE  IInv
<1>1. /\ chain = NewLobby(Size, EntryFee, 0) /\ now = 0
      /\ mem = NewRecord /\ up = TRUE
      /\ armed = {} /\ pouring = {} /\ watching = FALSE /\ joining = {} /\ txs = {}
      /\ disk = NoLobby
      /\ saves = << [ record |-> NewRecord, next |-> "watch" ] >>
      /\ faults = [ kind \in DOMAIN MaxFaults |-> 0 ]
  BY DEF Init
<1>2. NewRecord \in LobbyRecord /\ NewRecord.players = << >>
      /\ NewRecord.status = "awaiting_randomness"
  <2>1. << >> \in Seq(PlayerRecord) /\ << >> \in Seq(Accounts)
    OBVIOUS
  <2> QED BY <2>1 DEF NewRecord, LobbyRecord, TargetLines
<1>3. chain \in Lobby /\ RosterConsistent(chain)
  BY <1>1, ServerInputs, NewLobbyTyped, NewRosterConsistent
<1>4. saves \in Seq(Save) /\ \A k \in DOMAIN saves : saves[k].record = NewRecord
                                                  /\ saves[k].next = "watch"
  BY <1>1, <1>2 DEF Save
<1>5. Records = {NewRecord}
  BY <1>1, <1>2, <1>4, NoRecord DEF Records
<1>6. Done(NewRecord) = {} /\ Waiting(NewRecord) = {}
  BY <1>2 DEF Done, Waiting
<1>7. RosterSound(NewRecord)
  <2>1. Cardinality(Done(NewRecord)) = 0
    BY <1>6, FS_EmptySet
  <2>2. 0 .. Cardinality(Done(NewRecord)) - 1 = {}
    BY <2>1
  <2>3. { NewRecord.players[i].submissionIndex : i \in Done(NewRecord) } = {}
    BY <1>6
  <2>4. Len(NewRecord.players) =< Size
    BY <1>2, ServerInputs DEF MIN_LOBBY_SIZE, MAX_LOBBY_SIZE
  <2>5. { NewRecord.players[i].submissionIndex : i \in Done(NewRecord) } =
          0 .. Cardinality(Done(NewRecord)) - 1
    BY <2>2, <2>3
  <2>6. DOMAIN NewRecord.players = {}
    BY <1>2
  <2> QED BY <1>2, <2>4, <2>5, <2>6 DEF RosterSound
<1>8. Vouched(NewRecord, chain)
  BY <1>2 DEF Vouched, InRound
<1>9. Loaded /\ mem.status = "awaiting_randomness"
  BY <1>1, <1>2, NoRecord DEF Loaded
<1>10. faults \in [ DOMAIN MaxFaults -> Nat ]
       /\ \A kind \in DOMAIN MaxFaults : faults[kind] =< MaxFaults[kind]
  <2>1. \A kind \in DOMAIN MaxFaults : MaxFaults[kind] \in Nat
    BY ServerInputs
  <2> QED BY <1>1, <2>1
<1>11. TypeOK
  BY <1>1, <1>2, <1>3, <1>4, <1>10 DEF TypeOK
<1>12. RecordsSound /\ CallsSound /\ NothingLeft /\ TimersCoverPlayers
  BY <1>1, <1>5, <1>7, <1>8, <1>9 DEF RecordsSound, CallsSound, NothingLeft, TimersCoverPlayers
<1>13. SettlesFinished
  BY <1>4, <1>9 DEF SettlesFinished
<1> QED BY <1>3, <1>11, <1>12, <1>13 DEF IInv

\* Every step keeps the invariant, and a step the process survives keeps every
\* seat and every recorded result.
LEMMA StepIInv ==
  ASSUME IInv, [Next]_vars
  PROVE  IInv' /\ (Loaded /\ up' => Loaded' /\ Succeeds(mem, mem'))
<1>1. CASE UNCHANGED vars
  <2>1. mem' = mem /\ (Loaded => Loaded')
    BY <1>1 DEF vars, Loaded
  <2>2. IInv'
    BY <1>1 DEF vars, IInv, TypeOK, RecordsSound, Records, CallsSound, NothingLeft,
                SettlesFinished, TimersCoverPlayers, Loaded
  <2> QED BY <2>1, <2>2, SucceedsItself
<1>2. CASE Crash
  BY <1>2, CrashStep DEF Crash
<1>3. CASE Boot
  BY <1>3, BootStep DEF Boot, Loaded
<1>4. CASE Next /\ ~ Crash /\ ~ Boot
  BY <1>4, OutsideActions, OpeningActions, JoiningActions, PouringActions,
     SavingActions, EndingActions DEF Next
<1> QED BY <1>1, <1>2, <1>3, <1>4

\* The invariant holds in every reachable state.
LEMMA Invariance == Spec => []IInv
<1>1. Init => IInv
  BY InitIInv
<1>2. IInv /\ [Next]_vars => IInv'
  BY StepIInv
<1> QED BY <1>1, <1>2, PTL DEF Spec

-----------------------------------------------------------------------------
(* One settlement at a time *)

Single(S) == \A x, y \in S : x = y

\* The saves of a queue that a settlement waits for.
SettleSavesOf(q) == { k \in DOMAIN q : q[k].next = "settle" }

\* OneSettler, of any sets of calls and saves.
Alone(S, Q, r, saved) ==
  /\ Single(S)
  /\ Single(Q)
  /\ S = {} \/ Q = {}
  /\ S # {} \/ Q # {} => r.status \in {"settling", "cancelled"}
  /\ r.status = "settling" /\ saved => S # {} \/ Q # {}

\* Every write so far has succeeded.
AllSaved == faults["save"] = 0

LEMMA OneSettlerIs ==
  OneSettler <=> (Loaded => Alone(Settlers, SettleSavesOf(saves), mem, AllSaved))
BY DEF OneSettler, Alone, Single, SettleSaves, SettleSavesOf, AllSaved

\* A save nobody settles after.
LEMMA SettleSavesGrow ==
  ASSUME NEW q \in Seq(Save), NEW s \in Save
  PROVE  /\ s.next # "settle" => SettleSavesOf(Append(q, s)) = SettleSavesOf(q)
         /\ s.next = "settle" => SettleSavesOf(Append(q, s)) = SettleSavesOf(q) \cup {Len(q) + 1}
<1>1. /\ DOMAIN Append(q, s) = DOMAIN q \cup {Len(q) + 1}
      /\ \A k \in DOMAIN q : Append(q, s)[k] = q[k]
      /\ Append(q, s)[Len(q) + 1] = s
      /\ Len(q) + 1 \notin DOMAIN q
  OBVIOUS
<1> QED BY <1>1 DEF SettleSavesOf

\* The head leaves: the others keep waiting, and if the head was what the only
\* settlement waited for, none waits any more.
LEMMA SettleSavesShrink ==
  ASSUME NEW q \in Seq(Save), q # << >>
  PROVE  /\ Single(SettleSavesOf(q)) => Single(SettleSavesOf(Tail(q)))
         /\ Head(q).next # "settle" /\ SettleSavesOf(q) # {} => SettleSavesOf(Tail(q)) # {}
         /\ Head(q).next = "settle" /\ Single(SettleSavesOf(q)) => SettleSavesOf(Tail(q)) = {}
         /\ SettleSavesOf(q) = {} => SettleSavesOf(Tail(q)) = {}
         /\ Head(q).next = "settle" => SettleSavesOf(q) # {}
<1>1. /\ Len(q) \in Nat /\ Len(q) > 0
      /\ DOMAIN q = 1 .. Len(q)
      /\ DOMAIN Tail(q) = 1 .. Len(q) - 1
      /\ \A k \in 1 .. Len(q) - 1 : Tail(q)[k] = q[k + 1]
      /\ Head(q) = q[1]
  OBVIOUS
<1>2. \A k \in SettleSavesOf(Tail(q)) : k \in Nat /\ k >= 1 /\ k + 1 \in SettleSavesOf(q)
  BY <1>1 DEF SettleSavesOf
<1>3. \A k \in SettleSavesOf(q) : k \in Nat /\ (k = 1 \/ k - 1 \in SettleSavesOf(Tail(q)))
  BY <1>1 DEF SettleSavesOf
<1>4. 1 \in SettleSavesOf(q) <=> Head(q).next = "settle"
  BY <1>1 DEF SettleSavesOf
<1>5. ASSUME Single(SettleSavesOf(q))
      PROVE  Single(SettleSavesOf(Tail(q)))
  <2>1. ASSUME NEW j \in SettleSavesOf(Tail(q)), NEW k \in SettleSavesOf(Tail(q))
        PROVE  j = k
    <3>1. j + 1 = k + 1
      BY <1>2, <1>5 DEF Single
    <3> QED BY <1>2, <3>1
  <2> QED BY <2>1 DEF Single
<1>6. ASSUME Head(q).next = "settle", Single(SettleSavesOf(q)), NEW k \in SettleSavesOf(Tail(q))
      PROVE  FALSE
  <2>1. k + 1 = 1
    BY <1>2, <1>4, <1>6 DEF Single
  <2> QED BY <1>2, <2>1
<1>7. ASSUME Head(q).next # "settle", SettleSavesOf(q) # {}
      PROVE  SettleSavesOf(Tail(q)) # {}
  BY <1>3, <1>4, <1>7
<1>8. ASSUME SettleSavesOf(q) = {}
      PROVE  SettleSavesOf(Tail(q)) = {}
  BY <1>2, <1>8
<1> QED BY <1>4, <1>5, <1>6, <1>7, <1>8

\* Calls that come and go without settling anything.
LEMMA SettlersStay ==
  ASSUME NEW tx, tx.op # "settle"
  PROVE  /\ txs' = txs \cup {tx} => Settlers' = Settlers
         /\ txs' = txs \ {tx} => Settlers' = Settlers
BY DEF Settlers

\* A transaction that is decided is still the same call.
LEMMA SettlersDecided ==
  ASSUME txs \subseteq Transaction, NEW tx \in txs, NEW outcome \in {"landed", "failed"},
         Becomes(tx, outcome)
  PROVE  /\ Settlers' = {} <=> Settlers = {}
         /\ Single(Settlers) => Single(Settlers')
<1> DEFINE u == [ tx EXCEPT !.outcome = outcome ]
<1>1. u.op = tx.op /\ u.alive = tx.alive /\ tx.alive \in BOOLEAN
  BY DEF Transaction
<1>2. txs' = (txs \ {tx}) \cup (IF tx.alive THEN {u} ELSE {})
  BY DEF Becomes
<1> HIDE DEF u
<1>3. CASE tx.op = "settle" /\ tx.alive
  <2>1. tx \in Settlers /\ u \in Settlers' /\ Settlers' = (Settlers \ {tx}) \cup {u}
    BY <1>1, <1>2, <1>3 DEF Settlers
  <2> QED BY <2>1 DEF Single
<1>4. CASE ~ (tx.op = "settle" /\ tx.alive)
  <2>1. Settlers' = Settlers
    BY <1>1, <1>2, <1>4 DEF Settlers
  <2> QED BY <2>1
<1> QED BY <1>3, <1>4

\* What a step has to establish.
LEMMA OneSettlerNext ==
  ASSUME Loaded' => Alone(Settlers', SettleSavesOf(saves'), mem', AllSaved')
  PROVE  OneSettler'
BY DEF OneSettler, Alone, Single, SettleSaves, SettleSavesOf, AllSaved

\* A record is loaded by init alone.
LEMMA LoadedBefore ==
  ASSUME Next, ~ Crash, ~ Boot, Loaded'
  PROVE  Loaded
<1>1. Loaded \/ UNCHANGED << mem, process >>
  BY DEF Next, OracleFulfills, PlayerJoins, StrangerCancels, Tick, TxLands, TxRejected, CallFails,
         RoundKnown, WatchTimesOut, JoinRequest, JoinConfirmed, JoinRefused, PourStart, PourStop,
         TimerFires, SubmitReturns, SaveDone, SaveFails, SettleReturns, Sweep, CancelReturns
<1> QED BY <1>1 DEF Loaded, process

\* Nothing a settlement depends on changes, whatever becomes of the others.
LEMMA SettlerUndisturbed ==
  ASSUME OneSettler, Loaded' => Loaded,
         Single(Settlers) => Single(Settlers'), Settlers' = {} <=> Settlers = {},
         SettleSavesOf(saves') = SettleSavesOf(saves),
         Loaded => mem'.status = mem.status \/ (Settlers = {} /\ SettleSavesOf(saves) = {} /\ mem'.status # "settling")
                   \/ mem'.status = "cancelled",
         faults'["save"] = faults["save"]
  PROVE  OneSettler'
<1>1. CASE Loaded'
  <2>1. Alone(Settlers, SettleSavesOf(saves), mem, AllSaved)
    BY <1>1, OneSettlerIs
  <2>2. AllSaved' <=> AllSaved
    BY DEF AllSaved
  <2>3. Alone(Settlers', SettleSavesOf(saves'), mem', AllSaved')
    BY <1>1, <2>1, <2>2 DEF Alone
  <2> QED BY <2>3, OneSettlerNext
<1>2. CASE ~ Loaded'
  BY <1>2, OneSettlerNext
<1> QED BY <1>1, <1>2

\* Faults of other kinds.
LEMMA OtherFaults ==
  ASSUME TypeOK, UNCHANGED faults \/ Fault("call")
  PROVE  faults'["save"] = faults["save"]
<1>1. faults \in [ DOMAIN MaxFaults -> Nat ] /\ DOMAIN MaxFaults = {"crash", "call", "save"}
  BY ServerInputs DEF TypeOK
<1> QED BY <1>1 DEF Fault

\* A failed save is counted.
LEMMA SaveFaultCounted ==
  ASSUME TypeOK, Fault("save")
  PROVE  faults'["save"] # 0
<1>1. faults \in [ DOMAIN MaxFaults -> Nat ] /\ DOMAIN MaxFaults = {"crash", "call", "save"}
  BY ServerInputs DEF TypeOK
<1> QED BY <1>1 DEF Fault

\* A save after which nobody settles.
LEMMA PersistQuiet ==
  ASSUME TypeOK, mem' \in LobbyRecord, NEW next \in {"watch", "maybeSettle", "done"},
         saves' = Append(saves, [ record |-> mem', next |-> next ])
  PROVE  SettleSavesOf(saves') = SettleSavesOf(saves)
<1>1. [ record |-> mem', next |-> next ] \in Save
  BY DEF Save
<1> QED BY <1>1, SettleSavesGrow DEF TypeOK

\* The ledger, the clock, and the fate of transactions.
LEMMA OutsideSettler ==
  ASSUME IInv, OneSettler,
         \/ \E bytes \in Randomness : OracleFulfills(bytes)
         \/ \E w \in Accounts : PlayerJoins(w)
         \/ StrangerCancels
         \/ Tick
         \/ \E tx \in txs : TxLands(tx) \/ TxRejected(tx) \/ CallFails(tx)
  PROVE  OneSettler'
<1>1. TypeOK /\ txs \subseteq Transaction
  BY DEF IInv, TypeOK
<1>2. UNCHANGED << mem, process, store >>
  BY DEF OracleFulfills, PlayerJoins, StrangerCancels, Tick, TxLands, TxRejected, CallFails
<1>3. mem' = mem /\ saves' = saves /\ up' = up
  BY <1>2 DEF process, store
<1>4. Loaded' => Loaded
  BY <1>3 DEF Loaded
<1>5. faults'["save"] = faults["save"]
  <2>1. UNCHANGED faults \/ Fault("call")
    BY DEF OracleFulfills, PlayerJoins, StrangerCancels, Tick, TxLands, TxRejected, CallFails
  <2> QED BY <1>1, <2>1, OtherFaults
<1>6. (Single(Settlers) => Single(Settlers')) /\ (Settlers' = {} <=> Settlers = {})
  <2>1. CASE UNCHANGED txs
    BY <2>1 DEF Settlers
  <2>2. CASE \E tx \in txs : \E outcome \in {"landed", "failed"} : Becomes(tx, outcome)
    BY <1>1, <2>2, SettlersDecided
  <2> QED BY <2>1, <2>2 DEF OracleFulfills, PlayerJoins, StrangerCancels, Tick, TxLands,
                            TxRejected, CallFails
<1> QED BY <1>3, <1>4, <1>5, <1>6, SettlerUndisturbed

\* The handlers that neither settle nor are asked to.
LEMMA BystandersSettler ==
  ASSUME IInv, IInv', OneSettler, Loaded, Loaded',
         \/ RoundKnown \/ WatchTimesOut
         \/ \E c \in Conns, w \in Accounts :
              JoinRequest(c, w) \/ JoinConfirmed(c, w) \/ JoinRefused(c, w)
         \/ \E w \in Accounts : PourStart(w)
         \/ \E w \in Accounts, ml \in Pours : PourStop(w, ml)
         \/ \E w \in Accounts, ml \in Pours \cup {0} : TimerFires(w, ml)
         \/ Sweep
         \/ \E tx \in txs : SubmitReturns(tx) \/ CancelReturns(tx)
  PROVE  OneSettler'
<1>1. TypeOK /\ mem \in LobbyRecord /\ mem' \in LobbyRecord
  BY DEF IInv, TypeOK, Loaded
<1>2. faults'["save"] = faults["save"]
  <2>1. UNCHANGED faults
    BY DEF RoundKnown, WatchTimesOut, JoinRequest, JoinConfirmed, JoinRefused, PourStart, PourStop,
           TimerFires, Sweep, SubmitReturns, CancelReturns
  <2> QED BY <2>1
<1>3. SettleSavesOf(saves') = SettleSavesOf(saves)
  <2>1. \/ saves' = saves
        \/ \E next \in {"watch", "maybeSettle", "done"} :
             saves' = Append(saves, [ record |-> mem', next |-> next ])
    BY DEF RoundKnown, WatchTimesOut, JoinRequest, JoinConfirmed, JoinRefused, PourStart, PourStop,
           TimerFires, Sweep, SubmitReturns, CancelReturns, Persist, store
  <2> QED BY <1>1, <2>1, PersistQuiet
<1>4. Settlers' = Settlers
  <2>1. \/ txs' = txs
        \/ \E tx : tx.op # "settle" /\ (txs' = txs \cup {tx} \/ txs' = txs \ {tx})
    <3>1. ASSUME NEW w, NEW ml, RecordResult(w, ml)
          PROVE  txs' = txs \/ \E tx : tx.op # "settle" /\ txs' = txs \cup {tx}
      <4>1. Call("submit", << w >>, ml).op = "submit"
        BY DEF Call
      <4> QED BY <3>1, <4>1 DEF RecordResult
    <3>2. CASE Sweep
      <4>1. Call("cancel", Wallets(mem), 0).op = "cancel"
        BY DEF Call
      <4> QED BY <3>2, <4>1 DEF Sweep
    <3>3. CASE \E tx \in txs : SubmitReturns(tx) \/ CancelReturns(tx)
      BY <3>3 DEF SubmitReturns, CancelReturns
    <3>4. CASE \/ \E w \in Accounts, ml \in Pours : PourStop(w, ml)
               \/ \E w \in Accounts, ml \in Pours \cup {0} : TimerFires(w, ml)
      BY <3>1, <3>4 DEF PourStop, TimerFires
    <3>5. CASE \/ RoundKnown \/ WatchTimesOut
               \/ \E c \in Conns, w \in Accounts :
                    JoinRequest(c, w) \/ JoinConfirmed(c, w) \/ JoinRefused(c, w)
               \/ \E w \in Accounts : PourStart(w)
      BY <3>5 DEF RoundKnown, WatchTimesOut, JoinRequest, JoinConfirmed, JoinRefused, PourStart
    <3> QED BY <3>2, <3>3, <3>4, <3>5
  <2>2. CASE txs' = txs
    BY <2>2 DEF Settlers
  <2>3. ASSUME NEW tx, tx.op # "settle", txs' = txs \cup {tx} \/ txs' = txs \ {tx}
        PROVE  Settlers' = Settlers
    BY <2>3, SettlersStay
  <2> QED BY <2>1, <2>2, <2>3
<1>5. \/ mem'.status = mem.status
      \/ mem.status = "awaiting_randomness" /\ mem'.status = "open"
      \/ mem'.status = "cancelled"
  <2>1. CASE RoundKnown
    BY <1>1, <2>1 DEF RoundKnown, LobbyRecord
  <2>2. ASSUME NEW tx \in txs, CancelReturns(tx)
        PROVE  mem' = mem \/ mem'.status = "cancelled"
    BY <1>1, <2>2 DEF CancelReturns, LobbyRecord
  <2>3. ASSUME NEW tx \in txs, SubmitReturns(tx)
        PROVE  mem'.status = mem.status
    <3>1. mem' = HavingPlayers(mem, [ mem.players EXCEPT ![SeatOf(mem, tx.accts[1])] = Noted(@, tx) ])
      BY <2>3 DEF SubmitReturns, HavingPlayers
    <3> QED BY <1>1, <3>1 DEF HavingPlayers, LobbyRecord
  <2>4. ASSUME NEW w, NEW ml, RecordResult(w, ml)
        PROVE  mem'.status = mem.status
    <3>1. mem' = mem \/ \E ps : mem' = HavingPlayers(mem, ps)
      BY <2>4 DEF RecordResult, Marked, HavingPlayers
    <3> QED BY <1>1, <3>1 DEF HavingPlayers, LobbyRecord
  <2>5. ASSUME NEW c, NEW w, JoinConfirmed(c, w)
        PROVE  mem'.status = mem.status
    <3>1. mem' = mem \/ \E ps : mem' = HavingPlayers(mem, ps)
      BY <2>5 DEF JoinConfirmed, HavingPlayers
    <3> QED BY <1>1, <3>1 DEF HavingPlayers, LobbyRecord
  <2>6. CASE \/ \E w \in Accounts, ml \in Pours : PourStop(w, ml)
             \/ \E w \in Accounts, ml \in Pours \cup {0} : TimerFires(w, ml)
    BY <2>4, <2>6 DEF PourStop, TimerFires
  <2>7. CASE \/ WatchTimesOut \/ Sweep
             \/ \E c \in Conns, w \in Accounts : JoinRequest(c, w) \/ JoinRefused(c, w)
             \/ \E w \in Accounts : PourStart(w)
    BY <2>7 DEF WatchTimesOut, Sweep, JoinRequest, JoinRefused, PourStart
  <2> QED BY <2>1, <2>2, <2>3, <2>5, <2>6, <2>7
<1>6. mem.status = "awaiting_randomness" => Settlers = {} /\ SettleSavesOf(saves) = {}
  BY OneSettlerIs DEF Alone
<1> QED BY <1>2, <1>3, <1>4, <1>5, <1>6, SettlerUndisturbed

\* The save before the settlement returns and the call is made, or the status
\* check starts a settlement when there is none, or a save fails.
LEMMA SavingSettler ==
  ASSUME IInv, IInv', OneSettler, Loaded, Loaded', SaveDone \/ SaveFails
  PROVE  OneSettler'
<1>1. /\ TypeOK /\ mem \in LobbyRecord /\ mem' \in LobbyRecord
      /\ saves \in Seq(Save) /\ saves # << >>
  BY DEF IInv, TypeOK, Loaded, SaveDone, SaveFails
<1>2. Alone(Settlers, SettleSavesOf(saves), mem, AllSaved)
  BY OneSettlerIs
<1>3. /\ Single(SettleSavesOf(Tail(saves)))
      /\ Head(saves).next # "settle" /\ SettleSavesOf(saves) # {} => SettleSavesOf(Tail(saves)) # {}
      /\ Head(saves).next = "settle" => SettleSavesOf(Tail(saves)) = {} /\ SettleSavesOf(saves) # {}
      /\ SettleSavesOf(saves) = {} => SettleSavesOf(Tail(saves)) = {}
  BY <1>1, <1>2, SettleSavesShrink DEF Alone
<1>4. CASE SaveFails
  <2>1. saves' = Tail(saves) /\ mem' = mem /\ Settlers' = Settlers
    BY <1>4 DEF SaveFails, Settlers
  <2>2. ~ AllSaved'
    BY <1>1, <1>4, SaveFaultCounted DEF SaveFails, AllSaved
  <2>3. Alone(Settlers', SettleSavesOf(saves'), mem', AllSaved')
    BY <1>2, <1>3, <2>1, <2>2 DEF Alone
  <2> QED BY <2>3, OneSettlerNext
<1>5. ASSUME SaveDone
      PROVE  AllSaved' <=> AllSaved
  BY <1>5 DEF SaveDone, AllSaved
<1>6. CASE SaveDone /\ Head(saves).next = "settle"
  <2> DEFINE call == Call("settle", computeWinners(mem), 0)
  <2>1. saves' = Tail(saves) /\ mem' = mem /\ txs' = txs \cup {call}
    BY <1>6 DEF SaveDone
  <2>2. call.op = "settle" /\ call.alive
    BY DEF Call
  <2> HIDE DEF call
  <2>3. Settlers' = Settlers \cup {call}
    BY <2>1, <2>2 DEF Settlers
  <2>4. Settlers = {} /\ SettleSavesOf(saves') = {} /\ mem.status \in {"settling", "cancelled"}
    BY <1>2, <1>3, <1>6, <2>1 DEF Alone
  <2>5. Alone(Settlers', SettleSavesOf(saves'), mem', AllSaved')
    BY <2>1, <2>3, <2>4 DEF Alone, Single
  <2> QED BY <2>5, OneSettlerNext
<1>7. CASE SaveDone /\ Head(saves).next # "settle"
           /\ ~ (Head(saves).next = "maybeSettle" /\ ReadyToSettle(mem))
  <2>1. saves' = Tail(saves) /\ mem' = mem /\ txs' = txs
    BY <1>7 DEF SaveDone
  <2>2. Settlers' = Settlers
    BY <2>1 DEF Settlers
  <2>3. Alone(Settlers', SettleSavesOf(saves'), mem', AllSaved')
    BY <1>2, <1>3, <1>5, <1>7, <2>1, <2>2 DEF Alone
  <2> QED BY <2>3, OneSettlerNext
<1>8. CASE SaveDone /\ Head(saves).next = "maybeSettle" /\ ReadyToSettle(mem)
  <2> DEFINE save == [ record |-> mem', next |-> "settle" ]
  <2>1. /\ saves' = Append(Tail(saves), save) /\ txs' = txs
        /\ mem' = [ mem EXCEPT !.status = "settling" ]
    BY <1>8 DEF SaveDone
  <2>2. mem'.status = "settling" /\ mem.status = "open"
    BY <1>1, <1>8, <2>1 DEF ReadyToSettle, LobbyRecord
  <2>3. Settlers' = {} /\ SettleSavesOf(Tail(saves)) = {}
    <3>1. Settlers = {} /\ SettleSavesOf(saves) = {}
      BY <1>2, <2>2 DEF Alone
    <3> QED BY <1>3, <2>1, <3>1 DEF Settlers
  <2>4. Tail(saves) \in Seq(Save) /\ save \in Save /\ save.next = "settle"
    BY <1>1 DEF Save
  <2> HIDE DEF save
  <2>5. SettleSavesOf(saves') = {Len(Tail(saves)) + 1}
    BY <2>1, <2>3, <2>4, SettleSavesGrow
  <2>6. Alone(Settlers', SettleSavesOf(saves'), mem', AllSaved')
    BY <2>2, <2>3, <2>5 DEF Alone, Single
  <2> QED BY <2>6, OneSettlerNext
<1> QED BY <1>4, <1>6, <1>7, <1>8

\* The settlement returns: it was the only one.
LEMMA SettleReturnsSettler ==
  ASSUME IInv, IInv', OneSettler, Loaded, Loaded', NEW tx \in txs, SettleReturns(tx)
  PROVE  OneSettler'
<1>1. /\ TypeOK /\ mem \in LobbyRecord /\ mem' \in LobbyRecord
      /\ saves' = Append(saves, [ record |-> mem', next |-> "done" ])
      /\ txs' = txs \ {tx} /\ mem' = AfterSettle(mem, tx)
  BY DEF IInv, TypeOK, Loaded, SettleReturns, Persist
<1>2. tx \in Settlers
  BY DEF SettleReturns, Settlers
<1>3. Alone(Settlers, SettleSavesOf(saves), mem, AllSaved)
  BY OneSettlerIs
<1>4. Settlers' = {}
  BY <1>1, <1>2, <1>3 DEF Settlers, Alone, Single
<1>5. SettleSavesOf(saves') = {}
  BY <1>1, <1>2, <1>3, PersistQuiet DEF Alone
<1>6. mem'.status \in {"settled", "open"}
  BY <1>1 DEF AfterSettle, LobbyRecord
<1>7. Alone(Settlers', SettleSavesOf(saves'), mem', AllSaved')
  BY <1>4, <1>5, <1>6 DEF Alone, Single
<1> QED BY <1>7, OneSettlerNext

\* init: whoever waited for a call is dead, and one settlement at most starts.
LEMMA BootSettler ==
  ASSUME IInv, Boot
  PROVE  OneSettler'
<1>1. Settlers' = {}
  BY NobodyWaits DEF Boot, Settlers
<1>2. CASE Loaded' /\ saves' = << >>
  <2>1. SettleSavesOf(saves') = {}
    BY <1>2 DEF SettleSavesOf
  <2>2. mem'.status # "settling"
    <3>1. disk \in LobbyRecord
      BY <1>2 DEF IInv, TypeOK, Boot, Loaded
    <3>2. CASE disk.status = "settling"
      <4> DEFINE open == [ disk EXCEPT !.status = "open" ]
      <4>1. open.status = "open"
        BY <3>1 DEF LobbyRecord
      <4>2. mem' = open
        <5>1. disk # NoLobby
          BY <3>1, NoRecord
        <5>2. << [ record |-> mem', next |-> "settle" ] >> # << >>
          OBVIOUS
        <5> HIDE DEF open
        <5>3. disk.status = "settling" => open = [ disk EXCEPT !.status = "open" ]
          BY DEF open
        <5> QED BY <1>2, <3>2, <5>1, <5>2, <5>3 DEF Boot
      <4> QED BY <4>1, <4>2
    <3>3. CASE disk.status # "settling"
      <4>1. disk # NoLobby
        BY <3>1, NoRecord
      <4>2. mem' = disk
        BY <1>2, <3>3, <4>1 DEF Boot
      <4> QED BY <3>3, <4>2
    <3> QED BY <3>2, <3>3
  <2>3. Alone(Settlers', SettleSavesOf(saves'), mem', AllSaved')
    BY <1>1, <2>1, <2>2 DEF Alone, Single
  <2> QED BY <2>3, OneSettlerNext
<1>3. CASE Loaded' /\ saves' # << >>
  <2>1. saves' = << [ record |-> mem', next |-> "settle" ] >>
    BY <1>3 DEF Boot
  <2>2. SettleSavesOf(saves') = {1}
    BY <2>1 DEF SettleSavesOf
  <2>3. mem'.status = "settling"
    <3>1. disk \in LobbyRecord
      BY <1>3 DEF IInv, TypeOK, Boot, Loaded
    <3>2. \E r \in LobbyRecord : mem' = [ r EXCEPT !.status = "settling" ]
      <4>1. [ disk EXCEPT !.status = "open" ] \in LobbyRecord
        BY <3>1 DEF LobbyRecord
      <4> QED BY <1>3, <3>1, <4>1 DEF Boot
    <3> QED BY <3>2 DEF LobbyRecord
  <2>4. Alone(Settlers', SettleSavesOf(saves'), mem', AllSaved')
    BY <1>1, <2>2, <2>3 DEF Alone, Single
  <2> QED BY <2>4, OneSettlerNext
<1>4. CASE ~ Loaded'
  BY <1>4, OneSettlerNext
<1> QED BY <1>2, <1>3, <1>4

\* Every step keeps settlements single.
LEMMA SettlerStep ==
  ASSUME IInv, OneSettler, [Next]_vars
  PROVE  OneSettler'
<1>1. IInv'
  BY StepIInv
<1>2. CASE UNCHANGED vars
  BY <1>2 DEF vars, OneSettler, Loaded, Settlers, SettleSaves
<1>3. CASE Crash
  BY <1>3 DEF Crash, OneSettler, Loaded
<1>4. CASE Boot
  BY <1>4, BootSettler
<1>5. CASE Next /\ ~ Crash /\ ~ Boot
  <2>1. CASE ~ Loaded'
    BY <2>1, OneSettlerNext
  <2>2. CASE Loaded'
    <3>1. Loaded
      BY <1>5, <2>2, LoadedBefore
    <3> QED BY <1>1, <1>5, <2>2, <3>1, OutsideSettler, BystandersSettler, SavingSettler,
               SettleReturnsSettler DEF Next
  <2> QED BY <2>1, <2>2
<1> QED BY <1>2, <1>3, <1>4, <1>5

\* At the start nobody settles.
LEMMA InitSettler ==
  ASSUME Init
  PROVE  OneSettler
<1>1. Settlers = {} /\ SettleSavesOf(saves) = {} /\ mem.status = "awaiting_randomness"
  BY DEF Init, Settlers, SettleSavesOf, NewRecord
<1>2. Alone(Settlers, SettleSavesOf(saves), mem, AllSaved)
  BY <1>1 DEF Alone, Single
<1> QED BY <1>2, OneSettlerIs

-----------------------------------------------------------------------------
(* The file only moves on *)

\* A record keeps what it says.
LEMMA KeepsItself ==
  ASSUME NEW r \in LobbyRecord
  PROVE  Keeps(r, r)
BY RecordTyped DEF Keeps

\* What is kept twice is kept.
LEMMA KeepsOn ==
  ASSUME NEW r \in LobbyRecord, NEW q \in LobbyRecord, NEW s \in LobbyRecord,
         Keeps(r, q), Keeps(q, s)
  PROVE  Keeps(r, s)
<1>1. /\ Len(r.players) \in Nat /\ DOMAIN r.players = 1 .. Len(r.players)
      /\ Len(q.players) \in Nat /\ DOMAIN q.players = 1 .. Len(q.players)
      /\ Len(s.players) \in Nat
      /\ r.players \in Seq(PlayerRecord) /\ q.players \in Seq(PlayerRecord)
  BY RecordTyped
<1>2. Len(r.players) =< Len(q.players) /\ Len(q.players) =< Len(s.players)
  BY DEF Keeps
<1>3. DOMAIN r.players \subseteq DOMAIN q.players
  BY <1>1, <1>2
<1>4. r.players # << >> => q.players # << >>
  BY <1>1, <1>2
<1>5. ASSUME NEW i \in DOMAIN r.players
      PROVE  /\ s.players[i].wallet = r.players[i].wallet
             /\ r.players[i].status = "done" =>
                  /\ s.players[i].status = "done"
                  /\ s.players[i].pouredMl = r.players[i].pouredMl
                  /\ s.players[i].submissionIndex = r.players[i].submissionIndex
  BY <1>3 DEF Keeps
<1>6. Len(r.players) =< Len(s.players)
  BY <1>1, <1>2
<1> QED BY <1>4, <1>5, <1>6 DEF Keeps

\* What handlers make of a record keeps it, if a settlement stays what it was.
LEMMA SucceedsKeeps ==
  ASSUME NEW r \in LobbyRecord, NEW q \in LobbyRecord, Succeeds(r, q),
         r.status = "settled" => q.status = "settled" /\ q.winners = r.winners
  PROVE  Keeps(r, q)
<1>1. /\ Len(r.players) \in Nat /\ DOMAIN r.players = 1 .. Len(r.players)
      /\ Len(q.players) \in Nat /\ DOMAIN q.players = 1 .. Len(q.players)
  BY RecordTyped
<1>2. DOMAIN r.players \subseteq DOMAIN q.players
  BY DEF Succeeds, SeatsKept
<1>3. Len(r.players) =< Len(q.players)
  BY <1>1, <1>2
<1> QED BY <1>3 DEF Succeeds, SeatsKept, ResultsKept, Keeps

\* The file, the snapshots of the queue and the record in memory, in the order
\* of time: each keeps what the ones before it say.
InOrder(d, q, r) ==
  /\ d # NoLobby => Keeps(d, r)
  /\ d # NoLobby => \A k \in DOMAIN q : Keeps(d, q[k].record)
  /\ \A k \in DOMAIN q : Keeps(q[k].record, r)
  /\ \A j, k \in DOMAIN q : j < k => Keeps(q[j].record, q[k].record)

FileBehind == Loaded => InOrder(disk, saves, mem)

\* The record in memory moves on.
LEMMA OrderGoesOn ==
  ASSUME NEW d \in LobbyRecord \cup {NoLobby}, NEW q \in Seq(Save),
         NEW r \in LobbyRecord, NEW t \in LobbyRecord, InOrder(d, q, r), Keeps(r, t)
  PROVE  InOrder(d, q, t)
<1>1. \A k \in DOMAIN q : q[k].record \in LobbyRecord
  <2>1. \A k \in DOMAIN q : q[k] \in Save
    OBVIOUS
  <2> QED BY <2>1 DEF Save
<1>2. \A k \in DOMAIN q : Keeps(q[k].record, t)
  BY <1>1, KeepsOn DEF InOrder
<1>3. d # NoLobby => Keeps(d, t)
  BY KeepsOn DEF InOrder
<1> QED BY <1>2, <1>3 DEF InOrder

\* It is saved.
LEMMA OrderGrows ==
  ASSUME NEW d \in LobbyRecord \cup {NoLobby}, NEW q \in Seq(Save),
         NEW r \in LobbyRecord, InOrder(d, q, r), NEW s \in Save, s.record = r
  PROVE  InOrder(d, Append(q, s), r)
<1> DEFINE a == Append(q, s)
           n == Len(q) + 1
<1>1. /\ Len(q) \in Nat /\ DOMAIN q = 1 .. Len(q)
      /\ DOMAIN a = DOMAIN q \cup {n}
      /\ \A k \in DOMAIN q : a[k] = q[k]
      /\ a[n] = s
  OBVIOUS
<1>2. \A j, k \in DOMAIN a : j < k => j \in DOMAIN q /\ (k \in DOMAIN q \/ k = n)
  BY <1>1
<1> HIDE DEF a, n
<1>3. d # NoLobby => \A k \in DOMAIN a : Keeps(d, a[k].record)
  BY <1>1 DEF InOrder
<1>4. \A k \in DOMAIN a : Keeps(a[k].record, r)
  BY <1>1, KeepsItself DEF InOrder
<1>5. \A j, k \in DOMAIN a : j < k => Keeps(a[j].record, a[k].record)
  BY <1>1, <1>2 DEF InOrder
<1>6. InOrder(d, a, r)
  BY <1>3, <1>4, <1>5 DEF InOrder
<1> QED BY <1>6 DEF a

\* The oldest snapshot is written, or its write fails.
LEMMA OrderShrinks ==
  ASSUME NEW d \in LobbyRecord \cup {NoLobby}, NEW q \in Seq(Save), q # << >>,
         NEW r \in LobbyRecord, InOrder(d, q, r)
  PROVE  /\ InOrder(d, Tail(q), r)
         /\ InOrder(Head(q).record, Tail(q), r)
         /\ Head(q).record \in LobbyRecord
         /\ d # NoLobby => Keeps(d, Head(q).record)
<1>1. /\ Len(q) \in Nat /\ Len(q) > 0
      /\ DOMAIN q = 1 .. Len(q)
      /\ DOMAIN Tail(q) = 1 .. Len(q) - 1
      /\ \A k \in 1 .. Len(q) - 1 : Tail(q)[k] = q[k + 1]
      /\ Head(q) = q[1] /\ Head(q) \in Save
  OBVIOUS
<1>2. \A k \in DOMAIN Tail(q) : k + 1 \in DOMAIN q /\ 1 < k + 1 /\ Tail(q)[k] = q[k + 1]
  BY <1>1
<1>3. \A j, k \in DOMAIN Tail(q) : j < k => j + 1 < k + 1
  BY <1>1
<1>4. 1 \in DOMAIN q /\ Head(q).record = q[1].record /\ Head(q).record \in LobbyRecord
  BY <1>1 DEF Save
<1>5. \A k \in DOMAIN Tail(q) : Keeps(Tail(q)[k].record, r)
  BY <1>2 DEF InOrder
<1>6. \A j, k \in DOMAIN Tail(q) : j < k => Keeps(Tail(q)[j].record, Tail(q)[k].record)
  BY <1>2, <1>3 DEF InOrder
<1>7. InOrder(d, Tail(q), r)
  BY <1>2, <1>5, <1>6 DEF InOrder
<1>8. \A k \in DOMAIN Tail(q) : Keeps(Head(q).record, Tail(q)[k].record)
  BY <1>2, <1>4 DEF InOrder
<1>9. InOrder(Head(q).record, Tail(q), r)
  BY <1>4, <1>5, <1>6, <1>8 DEF InOrder
<1> QED BY <1>4, <1>7, <1>9 DEF InOrder

\* A settled record stays as it is while the process lives: who may write a
\* status has found another one, or waits for a call that a settled lobby on
\* the ledger rules out.
LEMMA SettledStays ==
  ASSUME IInv, OneSettler, Loaded, mem.status = "settled", Next, ~ Crash, ~ Boot
  PROVE  mem'.status = "settled" /\ mem'.winners = mem.winners
<1>1. /\ mem \in LobbyRecord /\ chain.status = "Settled"
      /\ \A tx \in txs : tx.outcome = "landed" => HadEffect(tx, chain)
  BY LoadedFacts DEF GoodRecord, Vouched, CallSound
<1>2. Settlers = {} /\ armed = {}
  BY OneSettlerIs, LoadedFacts DEF Alone, TimersFor
<1>3. ASSUME NEW tx \in txs
      PROVE  ~ SettleReturns(tx) /\ (CancelReturns(tx) => mem' = mem)
  BY <1>1, <1>2, <1>3 DEF SettleReturns, CancelReturns, Settlers, Landed, HadEffect
<1>4. ASSUME NEW tx \in txs, SubmitReturns(tx)
      PROVE  mem'.status = mem.status /\ mem'.winners = mem.winners
  <2>1. mem' = HavingPlayers(mem, [ mem.players EXCEPT ![SeatOf(mem, tx.accts[1])] = Noted(@, tx) ])
    BY <1>4 DEF SubmitReturns, HavingPlayers
  <2> QED BY <1>1, <2>1 DEF HavingPlayers, LobbyRecord
<1>5. ASSUME NEW w, NEW ml, PourStop(w, ml) \/ TimerFires(w, ml)
      PROVE  mem' = mem
  BY <1>2, <1>5 DEF PourStop, TimerFires, RecordResult
<1>6. SaveDone \/ SaveFails => mem' = mem
  BY DEF SaveDone, SaveFails, ReadyToSettle
<1>7. \A c, w : JoinRequest(c, w) \/ JoinConfirmed(c, w) \/ JoinRefused(c, w) => mem' = mem
  BY DEF JoinRequest, JoinConfirmed, JoinRefused, StillMayJoin, MayJoin
<1>8. RoundKnown \/ WatchTimesOut \/ Sweep \/ (\E w \in Accounts : PourStart(w)) => mem' = mem
  BY DEF RoundKnown, WatchTimesOut, Sweep, PourStart
<1>9. (\E bytes \in Randomness : OracleFulfills(bytes)) \/ (\E w \in Accounts : PlayerJoins(w))
        \/ StrangerCancels \/ Tick
        \/ (\E tx \in txs : TxLands(tx) \/ TxRejected(tx) \/ CallFails(tx)) => mem' = mem
  BY DEF OracleFulfills, PlayerJoins, StrangerCancels, Tick, TxLands, TxRejected, CallFails
<1>10. mem' = mem \/ \E tx \in txs : SubmitReturns(tx)
  BY <1>3, <1>5, <1>6, <1>7, <1>8, <1>9 DEF Next
<1> QED BY <1>4, <1>10

\* What a step of a living process may do to the queue and the file.
LEMMA QueueMoves ==
  ASSUME Loaded, Next, ~ Crash, ~ Boot
  PROVE  \/ saves' = saves /\ disk' = disk
         \/ /\ \E next \in {"watch", "maybeSettle", "settle", "done"} :
                 saves' = Append(saves, [ record |-> mem', next |-> next ])
            /\ disk' = disk
         \/ /\ saves # << >>
            /\ disk' \in {disk, Head(saves).record}
            /\ \/ saves' = Tail(saves)
               \/ saves' = Append(Tail(saves), [ record |-> mem', next |-> "settle" ])
<1>1. SaveDone \/ SaveFails =>
        /\ saves # << >>
        /\ disk' \in {disk, Head(saves).record}
        /\ \/ saves' = Tail(saves)
           \/ saves' = Append(Tail(saves), [ record |-> mem', next |-> "settle" ])
  BY DEF SaveDone, SaveFails
<1>2. Next /\ ~ Crash /\ ~ Boot /\ ~ SaveDone /\ ~ SaveFails =>
        \/ saves' = saves /\ disk' = disk
        \/ /\ \E next \in {"watch", "maybeSettle", "settle", "done"} :
                saves' = Append(saves, [ record |-> mem', next |-> next ])
           /\ disk' = disk
  BY DEF Next, OracleFulfills, PlayerJoins, StrangerCancels, Tick, TxLands, TxRejected, CallFails,
         RoundKnown, WatchTimesOut, JoinRequest, JoinConfirmed, JoinRefused, PourStart, PourStop,
         TimerFires, SubmitReturns, SettleReturns, Sweep, CancelReturns, Persist, store
<1> QED BY <1>1, <1>2

\* init: the record in memory is the one on disk, opened or settling again.
LEMMA BootBehind ==
  ASSUME IInv, IInv', Boot
  PROVE  FileBehind'
<1>1. CASE ~ Loaded'
  BY <1>1 DEF FileBehind
<1>2. CASE Loaded'
  <2> DEFINE open == Reopened(disk)
  <2>1. disk \in LobbyRecord /\ disk # NoLobby /\ mem' \in LobbyRecord /\ disk' = disk
    BY <1>2, NoRecord DEF IInv, TypeOK, Loaded, Boot
  <2>2. /\ open \in LobbyRecord
        /\ open.players = disk.players /\ open.targetMl = disk.targetMl
        /\ open.winners = disk.winners
        /\ disk.status = "settled" => open.status = "settled"
    BY <2>1 DEF Reopened, LobbyRecord
  <2>3. open = (IF disk # NoLobby /\ disk.status = "settling"
                THEN [ disk EXCEPT !.status = "open" ] ELSE disk)
    BY <2>1 DEF Reopened
  <2> HIDE DEF open
  <2>4. /\ mem' = IF ReadyToSettle(open) THEN [ open EXCEPT !.status = "settling" ] ELSE open
        /\ saves' = IF ReadyToSettle(open)
                    THEN << [ record |-> mem', next |-> "settle" ] >> ELSE << >>
    BY <2>1, <2>3 DEF Boot
  <2>5. /\ mem'.players = disk.players /\ mem'.targetMl = disk.targetMl
        /\ disk.status = "settled" => mem'.status = "settled" /\ mem'.winners = disk.winners
    BY <2>2, <2>4 DEF ReadyToSettle, LobbyRecord
  <2>6. Keeps(disk, mem')
    BY <2>1, <2>5, RecordTyped DEF Keeps
  <2>7. DOMAIN saves' \subseteq {1} /\ \A k \in DOMAIN saves' : saves'[k].record = mem'
    BY <2>4
  <2>8. \A j, k \in DOMAIN saves' : ~ (j < k)
    BY <2>7
  <2>9. InOrder(disk, saves', mem')
    BY <2>1, <2>6, <2>7, <2>8, KeepsItself DEF InOrder
  <2> QED BY <2>1, <2>9 DEF FileBehind
<1> QED BY <1>1, <1>2

\* Every step keeps file, queue and memory in the order of time, and what is
\* written next keeps what the file says.
LEMMA BehindStep ==
  ASSUME IInv, OneSettler, FileBehind, [Next]_vars
  PROVE  FileBehind' /\ (disk # NoLobby => disk' # NoLobby /\ Keeps(disk, disk'))
<1>1. /\ IInv' /\ (Loaded /\ up' => Loaded' /\ Succeeds(mem, mem'))
      /\ TypeOK /\ saves \in Seq(Save) /\ disk \in LobbyRecord \cup {NoLobby}
  BY StepIInv DEF IInv, TypeOK
<1>2. ASSUME disk' = disk
      PROVE  disk # NoLobby => disk' # NoLobby /\ Keeps(disk, disk')
  BY <1>1, <1>2, KeepsItself
<1>3. CASE UNCHANGED vars
  <2>1. FileBehind' /\ disk' = disk
    BY <1>3 DEF vars, FileBehind, Loaded
  <2> QED BY <1>2, <2>1
<1>4. CASE Crash
  BY <1>2, <1>4 DEF Crash, FileBehind, Loaded
<1>5. CASE Boot
  BY <1>1, <1>2, <1>5, BootBehind DEF Boot
<1>6. CASE Next /\ ~ Crash /\ ~ Boot /\ Loaded
  <2>1. mem \in LobbyRecord /\ InOrder(disk, saves, mem) /\ up
    BY <1>1, <1>6 DEF TypeOK, Loaded, FileBehind
  <2>2. up' = up
    BY <1>6 DEF Next, OracleFulfills, PlayerJoins, StrangerCancels, Tick, TxLands, TxRejected,
                CallFails, RoundKnown, WatchTimesOut, JoinRequest, JoinConfirmed, JoinRefused,
                PourStart, PourStop, TimerFires, SubmitReturns, SaveDone, SaveFails,
                SettleReturns, Sweep, CancelReturns, process
  <2>3. CASE ~ Loaded'
    BY <1>1, <1>6, <2>1, <2>2, <2>3
  <2>4. CASE Loaded'
    <3>1. mem' \in LobbyRecord
      BY <1>1, <2>4 DEF IInv, TypeOK, Loaded
    <3>2. Keeps(mem, mem')
      BY <1>1, <1>6, <2>1, <2>2, <3>1, SettledStays, SucceedsKeeps
    \* Saving the record as it is now.
    <3>3. ASSUME NEW d \in LobbyRecord \cup {NoLobby}, NEW q \in Seq(Save), InOrder(d, q, mem),
                 NEW next \in {"watch", "maybeSettle", "settle", "done"}
          PROVE  /\ InOrder(d, q, mem')
                 /\ InOrder(d, Append(q, [ record |-> mem', next |-> next ]), mem')
      <4>1. [ record |-> mem', next |-> next ] \in Save
        BY <3>1 DEF Save
      <4>2. InOrder(d, q, mem')
        BY <2>1, <3>1, <3>2, <3>3, OrderGoesOn
      <4> QED BY <3>1, <4>1, <4>2, OrderGrows
    <3>4. CASE saves' = saves /\ disk' = disk
      <4>1. InOrder(disk', saves', mem')
        BY <1>1, <2>1, <3>3, <3>4
      <4> QED BY <1>2, <3>4, <4>1 DEF FileBehind
    <3>5. CASE /\ \E next \in {"watch", "maybeSettle", "settle", "done"} :
                    saves' = Append(saves, [ record |-> mem', next |-> next ])
               /\ disk' = disk
      <4>1. InOrder(disk', saves', mem')
        BY <1>1, <2>1, <3>3, <3>5
      <4> QED BY <1>2, <3>5, <4>1 DEF FileBehind
    <3>6. CASE /\ saves # << >>
               /\ disk' \in {disk, Head(saves).record}
               /\ \/ saves' = Tail(saves)
                  \/ saves' = Append(Tail(saves), [ record |-> mem', next |-> "settle" ])
      <4>1. /\ InOrder(disk, Tail(saves), mem)
            /\ InOrder(Head(saves).record, Tail(saves), mem)
            /\ Head(saves).record \in LobbyRecord
            /\ disk # NoLobby => Keeps(disk, Head(saves).record)
        BY <1>1, <2>1, <3>6, OrderShrinks
      <4>2. disk' \in LobbyRecord \cup {NoLobby} /\ InOrder(disk', Tail(saves), mem)
        BY <1>1, <3>6, <4>1
      <4>3. Tail(saves) \in Seq(Save)
        BY <1>1, <3>6
      <4>4. InOrder(disk', saves', mem')
        BY <3>3, <3>6, <4>2, <4>3
      <4>5. disk # NoLobby => disk' # NoLobby /\ Keeps(disk, disk')
        BY <1>2, <3>6, <4>1, NoRecord
      <4> QED BY <4>4, <4>5 DEF FileBehind
    <3> QED BY <1>6, <3>4, <3>5, <3>6, QueueMoves
  <2> QED BY <2>3, <2>4
<1>7. CASE Next /\ ~ Crash /\ ~ Boot /\ ~ Loaded
  <2>1. ~ Loaded'
    BY <1>7, LoadedBefore
  <2>2. disk' = disk
    BY <1>7 DEF Next, OracleFulfills, PlayerJoins, StrangerCancels, Tick, TxLands, TxRejected,
                CallFails, RoundKnown, WatchTimesOut, JoinRequest, JoinConfirmed, JoinRefused,
                PourStart, PourStop, TimerFires, SubmitReturns, SaveDone, SaveFails,
                SettleReturns, Sweep, CancelReturns, store
  <2> QED BY <1>2, <2>1, <2>2 DEF FileBehind
<1> QED BY <1>3, <1>4, <1>5, <1>6, <1>7

\* At the start the new record waits to be written.
LEMMA InitBehind ==
  ASSUME Init
  PROVE  FileBehind
<1>1. /\ disk = NoLobby /\ DOMAIN saves = {1} /\ saves[1].record = mem
      /\ \A j, k \in DOMAIN saves : ~ (j < k)
  BY DEF Init
<1>2. Loaded => mem \in LobbyRecord
  BY InitIInv DEF IInv, TypeOK, Loaded
<1> QED BY <1>1, <1>2, KeepsItself DEF FileBehind, InOrder

\* The file, too, is in order in every reachable state.
LEMMA InvarianceOfOrder == Spec => [](IInv /\ OneSettler /\ FileBehind)
<1> DEFINE OInv == IInv /\ OneSettler /\ FileBehind
<1>1. Init => OInv
  BY InitIInv, InitSettler, InitBehind
<1>2. OInv /\ [Next]_vars => OInv'
  BY StepIInv, SettlerStep, BehindStep
<1> QED BY <1>1, <1>2, PTL DEF Spec

-----------------------------------------------------------------------------
(* The theorems *)

\* Type correctness: whatever the handlers, the store and the ledger do, every
\* variable holds what its type in lobby.ts can hold, computeWinners included.
THEOREM TypeCorrect == Spec => []TypeOK
<1>1. IInv => TypeOK
  BY DEF IInv
<1> QED BY <1>1, Invariance, PTL

\* Every seat in every snapshot is paid for on the ledger, given once, there are
\* never more than the size, and whoever has one pours at the ledger's target:
\* the checks confirmJoin repeats after its await are enough, and the zeros a
\* cancelled lobby opens with are never played with.
THEOREM SeatsArePaid == Spec => []SeatsPaid
<1>1. IInv => SeatsPaid
  BY DEF IInv, RecordsSound, RosterSound, Vouched, InRound, Drawn, SeatsPaid
<1> QED BY <1>1, Invariance, PTL

\* A settled or cancelled record agrees with the ledger, winners included, in
\* memory, in the queue and on disk.
THEOREM TerminalsAgree == Spec => []TerminalAgrees
<1>1. IInv => TerminalAgrees
  BY DEF IInv, RecordsSound, Vouched, TerminalAgrees
<1> QED BY <1>1, Invariance, PTL

\* recordResult numbers the results 0, 1, 2, ... in every snapshot.
THEOREM IndicesAreNumbers == Spec => []IndicesNumberResults
<1>1. IInv => IndicesNumberResults
  BY DEF IInv, RecordsSound, RosterSound, IndicesNumberResults, Done
<1> QED BY <1>1, Invariance, PTL

\* Play timers are armed for exactly the players an open lobby waits for.
THEOREM TimersCover == Spec => []TimersCoverPlayers
<1>1. IInv => TimersCoverPlayers
  BY DEF IInv
<1> QED BY <1>1, Invariance, PTL

\* What a record notes as submitted is what the ledger holds, whatever
\* transactions of processes that died have landed meanwhile.
THEOREM SubmittedAgreesAlways == Spec => []SubmittedAgrees
<1>1. IInv => SubmittedAgrees
  BY DEF IInv, RecordsSound, Vouched, Holds, SubmittedAgrees
<1> QED BY <1>1, Invariance, PTL

\* One settlement at a time, over every interleaving of reports, sweeps, failed
\* calls and restarts: the status check before the first await is enough.
THEOREM SettledByOne == Spec => []OneSettler
<1>1. IInv /\ OneSettler /\ FileBehind => OneSettler
  OBVIOUS
<1> QED BY <1>1, InvarianceOfOrder, PTL

\* What the file once said of a seat, a result, the target or a settlement every
\* later file says too: snapshots are written in the order they were taken, and
\* a restart goes on from the last one.
THEOREM FileKeepsTheGame == Spec => FileKeepsGame
<1>1. IInv /\ OneSettler /\ FileBehind /\ [Next]_vars =>
        [ disk # NoLobby => disk' # NoLobby /\ Keeps(disk, disk') ]_vars
  BY BehindStep
<1> QED BY <1>1, InvarianceOfOrder, PTL DEF Spec, FileKeepsGame

\* Single attempt: a recorded result never changes while the process lives.
THEOREM SingleAttempt == Spec => OneAttempt
<1>1. IInv /\ [Next]_vars =>
        [ Loaded /\ up' =>
            \A i \in DOMAIN mem.players :
              mem.players[i].status = "done" =>
                /\ mem'.players[i].wallet = mem.players[i].wallet
                /\ mem'.players[i].status = "done"
                /\ mem'.players[i].pouredMl = mem.players[i].pouredMl
                /\ mem'.players[i].submissionIndex = mem.players[i].submissionIndex ]_vars
  BY StepIInv DEF Succeeds, ResultsKept
<1> QED BY <1>1, Invariance, PTL DEF Spec, OneAttempt
=============================================================================
