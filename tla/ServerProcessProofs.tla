------------------------- MODULE ServerProcessProofs -------------------------
(***************************************************************************)
(* Proofs about ServerProcess for any number of lobbies, restarts and      *)
(* failures.                                                               *)
(***************************************************************************)
EXTENDS ServerProcess, SequenceTheorems, FiniteSetTheorems, TLAPS

-----------------------------------------------------------------------------
(* Maps of lobbies *)

Statuses == {"awaiting_randomness", "open", "settling", "settled", "cancelled"}

FiniteIds == { S \in SUBSET Nat : IsFiniteSet(S) }
Maps == UNION { [ S -> LobbyRecord ] : S \in FiniteIds }

\* What it takes to be a map LobbyManager can hold.
LEMMA MapTyped ==
  \A m : m \in Maps <=> DOMAIN m \in FiniteIds /\ m \in [ DOMAIN m -> LobbyRecord ]
<1>1. ASSUME NEW m, m \in Maps
      PROVE  DOMAIN m \in FiniteIds /\ m \in [ DOMAIN m -> LobbyRecord ]
  <2>1. PICK S \in FiniteIds : m \in [ S -> LobbyRecord ]
    BY <1>1 DEF Maps
  <2> QED BY <2>1
<1>2. ASSUME NEW m, DOMAIN m \in FiniteIds, m \in [ DOMAIN m -> LobbyRecord ]
      PROVE  m \in Maps
  BY <1>2 DEF Maps
<1> QED BY <1>1, <1>2

LEMMA NoLobbiesTyped == NoLobbies \in Maps /\ DOMAIN NoLobbies = {}
<1>1. DOMAIN NoLobbies = {} /\ NoLobbies \in [ {} -> LobbyRecord ]
  BY DEF NoLobbies
<1>2. {} \in FiniteIds
  BY FS_EmptySet DEF FiniteIds
<1> QED BY <1>1, <1>2, MapTyped

\* A lobby is added, or its record replaced.
LEMMA PutTyped ==
  ASSUME NEW m \in Maps, NEW id \in Nat, NEW r \in LobbyRecord
  PROVE  /\ Put(m, id, r) \in Maps
         /\ DOMAIN Put(m, id, r) = DOMAIN m \cup {id}
         /\ Put(m, id, r)[id] = r
         /\ \A i \in DOMAIN m \ {id} : Put(m, id, r)[i] = m[i]
<1>1. DOMAIN m \in FiniteIds /\ m \in [ DOMAIN m -> LobbyRecord ]
  BY MapTyped
<1>2. DOMAIN m \cup {id} \in FiniteIds
  BY <1>1, FS_AddElement DEF FiniteIds
<1>3. DOMAIN Put(m, id, r) = DOMAIN m \cup {id}
  BY DEF Put
<1>4. Put(m, id, r) \in [ DOMAIN m \cup {id} -> LobbyRecord ]
  BY <1>1 DEF Put
<1> QED BY <1>2, <1>3, <1>4, MapTyped DEF Put

\* m2 is m with another record for id.
Changed(m, m2, id) ==
  /\ m2 \in Maps /\ DOMAIN m2 = DOMAIN m
  /\ \A i \in DOMAIN m \ {id} : m2[i] = m[i]

LEMMA RecordChanged ==
  ASSUME NEW m \in Maps, NEW id, NEW r \in LobbyRecord
  PROVE  /\ Changed(m, [ m EXCEPT ![id] = r ], id)
         /\ id \in DOMAIN m => [ m EXCEPT ![id] = r ][id] = r
<1>1. DOMAIN m \in FiniteIds /\ m \in [ DOMAIN m -> LobbyRecord ]
  BY MapTyped
<1>2. [ m EXCEPT ![id] = r ] \in [ DOMAIN m -> LobbyRecord ]
  BY <1>1
<1> QED BY <1>1, <1>2, MapTyped DEF Changed

LEMMA StatusChanged ==
  ASSUME NEW m \in Maps, NEW id, NEW s \in Statuses
  PROVE  /\ Changed(m, [ m EXCEPT ![id].status = s ], id)
         /\ id \in DOMAIN m => [ m EXCEPT ![id].status = s ][id].status = s
<1>1. DOMAIN m \in FiniteIds /\ m \in [ DOMAIN m -> LobbyRecord ]
  BY MapTyped
<1>2. ASSUME id \in DOMAIN m
      PROVE  [ m[id] EXCEPT !.status = s ] \in LobbyRecord
             /\ [ m[id] EXCEPT !.status = s ].status = s
  BY <1>1, <1>2 DEF LobbyRecord, Statuses
<1>3. [ m EXCEPT ![id].status = s ] \in [ DOMAIN m -> LobbyRecord ]
  BY <1>1, <1>2
<1> QED BY <1>1, <1>2, <1>3, MapTyped DEF Changed

-----------------------------------------------------------------------------
(* The invariant *)

SaveHandlers == Handlers({"watch", "opened", "settle", "settled", "done"})
SaveRecords == [ record : Maps, next : SaveHandlers ]
LedgerStatuses == {"AwaitingRandomness", "Open", "Settled", "Cancelled"}

Typed ==
  /\ phase \in {"down", "starting", "listening"}
  /\ now \in Nat /\ idCounter \in Nat /\ boots \in Nat
  /\ troubles \in 0 .. MaxTroubles
  /\ lobbies \in Maps /\ disk \in Maps
  /\ saves \in Seq(SaveRecords)
  /\ calls \subseteq Handlers({"create", "settle", "cancel"})
  /\ watches \subseteq Handlers({"watch"})
  /\ ledger \in [ DOMAIN ledger -> LedgerStatuses ]
  /\ DOMAIN ledger \subseteq Nat /\ old \subseteq DOMAIN ledger

\* A map speaks of no lobby the ledger l does not have, and says of none that it
\* has ended otherwise than it has.
Agrees(m, l) ==
  /\ DOMAIN m \subseteq DOMAIN l
  /\ \A id \in DOMAIN m :
       /\ m[id].status = "settled" => l[id] = "Settled"
       /\ m[id].status = "cancelled" => l[id] = "Cancelled"

AllAgree ==
  /\ Agrees(lobbies, ledger) /\ Agrees(disk, ledger)
  /\ \A k \in DOMAIN saves : Agrees(saves[k].record, ledger)

\* From the file over the saves in their order to the memory, no lobby is lost.
Chain ==
  /\ phase # "down" => DOMAIN disk \subseteq DOMAIN lobbies
  /\ \A k \in DOMAIN saves :
       DOMAIN disk \subseteq DOMAIN saves[k].record /\ DOMAIN saves[k].record \subseteq DOMAIN lobbies
  /\ \A j, k \in DOMAIN saves :
       j =< k => DOMAIN saves[j].record \subseteq DOMAIN saves[k].record

\* What is offered, watched or settled is in the file; who waits for a save to
\* watch or settle a lobby has that lobby in the save.
Vouched ==
  /\ In(lobbies, "open") \subseteq DOMAIN disk
  /\ \A w \in watches : w.id \in DOMAIN disk
  /\ \A c \in calls : c.op = "settle" => c.id \in DOMAIN disk
  /\ \A k \in DOMAIN saves :
       saves[k].next.op \in {"watch", "settle"} => saves[k].next.id \in DOMAIN saves[k].record

Silent ==
  phase = "down" => lobbies = NoLobbies /\ calls = {} /\ watches = {} /\ saves = << >>

Core == Typed /\ AllAgree /\ Chain /\ Vouched /\ Silent

LEMMA Starts == Init => Core
<1> SUFFICES ASSUME Init PROVE Core
  OBVIOUS
<1>1. NoLobbies \in Maps /\ DOMAIN NoLobbies = {}
  BY NoLobbiesTyped
<1>2. saves \in Seq(SaveRecords) /\ DOMAIN saves = {}
  BY EmptySeq DEF Init
<1>3. ledger \in [ DOMAIN ledger -> LedgerStatuses ]
  BY <1>1 DEF Init, NoLobbies
<1>4. Typed
  BY <1>1, <1>2, <1>3, ProcessBounds DEF Init, Typed
<1> QED BY <1>1, <1>2, <1>4 DEF Init, Core, AllAgree, Agrees, In, Chain, Vouched, Silent

-----------------------------------------------------------------------------
(* Ways to change the state *)

\* The ledger forgets no lobby and revives none.
GoesOn(l, l2) ==
  /\ l2 \in [ DOMAIN l2 -> LedgerStatuses ]
  /\ DOMAIN l2 \subseteq Nat /\ DOMAIN l \subseteq DOMAIN l2
  /\ \A id \in DOMAIN l : l[id] \in {"Settled", "Cancelled"} => l2[id] = l[id]

LEMMA StillAgrees ==
  ASSUME NEW m, NEW l, NEW l2, Agrees(m, l), GoesOn(l, l2)
  PROVE  Agrees(m, l2)
BY DEF Agrees, GoesOn

\* The lobby of an instruction moves on, or a new one appears.
LEMMA LedgerMoves ==
  ASSUME Typed, NEW id, NEW s \in LedgerStatuses,
         id \in DOMAIN ledger => ledger[id] \in {"AwaitingRandomness", "Open"}
  PROVE  GoesOn(ledger, [ ledger EXCEPT ![id] = s ])
BY DEF Typed, GoesOn

LEMMA LedgerGrows ==
  ASSUME Typed, NEW id \in Nat, id \notin DOMAIN ledger, NEW s \in LedgerStatuses
  PROVE  GoesOn(ledger, Put(ledger, id, s))
BY DEF Typed, GoesOn, Put

\* A transaction that lands moves its lobby, or makes a new one.
LEMMA LandsGoesOn ==
  ASSUME Typed, NEW c \in calls, Lands(c)
  PROVE  /\ GoesOn(ledger, ledger')
         /\ c.op = "create" => DOMAIN ledger' = DOMAIN ledger \cup {c.id}
         /\ c.op = "settle" /\ c.id \in DOMAIN ledger => ledger'[c.id] = "Settled"
         /\ c.op = "cancel" /\ c.id \in DOMAIN ledger => ledger'[c.id] = "Cancelled"
<1>1. c.id \in Nat
  BY DEF Typed, Handlers
<1>2. {"AwaitingRandomness", "Settled", "Cancelled"} \subseteq LedgerStatuses
  BY DEF LedgerStatuses
<1>3. CASE /\ c.op = "create" /\ c.id \notin DOMAIN ledger
           /\ ledger' = Put(ledger, c.id, "AwaitingRandomness")
  <2>1. GoesOn(ledger, ledger')
    BY <1>1, <1>2, <1>3, LedgerGrows
  <2> QED BY <1>3, <2>1 DEF Put
<1>4. CASE c.op = "settle" /\ ledger[c.id] = "Open" /\ ledger' = [ ledger EXCEPT ![c.id] = "Settled" ]
  <2>1. GoesOn(ledger, ledger')
    BY <1>2, <1>4, LedgerMoves
  <2> QED BY <1>4, <2>1
<1>5. CASE c.op = "cancel" /\ Live(c.id) /\ ledger' = [ ledger EXCEPT ![c.id] = "Cancelled" ]
  <2>1. GoesOn(ledger, ledger')
    BY <1>2, <1>5, LedgerMoves DEF Live
  <2> QED BY <1>5, <2>1
<1> QED BY <1>3, <1>4, <1>5 DEF Lands

LEMMA LedgerStays == Typed => GoesOn(ledger, ledger)
BY DEF Typed, GoesOn

\* Nothing but the ledger, the waiting handlers and the phase changes, and no
\* handler is waiting that would watch or settle.
LEMMA QuietStep ==
  ASSUME Core, Typed', GoesOn(ledger, ledger'), UNCHANGED << lobbies, disk, saves >>,
         watches' \subseteq watches,
         \A c \in calls' \ calls : c.op # "settle",
         phase = "down" => phase' = "down" /\ calls' = {},
         phase' = "down" => phase = "down"
  PROVE  Core'
<1>1. AllAgree'
  BY StillAgrees DEF Core, AllAgree
<1>2. Chain' /\ Vouched' /\ Silent'
  BY DEF Core, Chain, Vouched, Silent, In
<1> QED BY <1>1, <1>2 DEF Core

\* The process dies; the ledger may have changed.
LEMMA DeadStep ==
  ASSUME Core, Typed', GoesOn(ledger, ledger'), Dies, UNCHANGED disk
  PROVE  Core'
<1>1. lobbies' = NoLobbies /\ DOMAIN lobbies' = {} /\ saves' = << >> /\ DOMAIN saves' = {}
  BY NoLobbiesTyped DEF Dies
<1>2. AllAgree'
  BY <1>1, StillAgrees DEF Core, AllAgree, Agrees
<1>3. Chain' /\ Vouched' /\ Silent'
  BY <1>1 DEF Dies, Chain, Vouched, Silent, In
<1> QED BY <1>2, <1>3 DEF Core

\* A save joins the queue at its end.
LEMMA Queued ==
  ASSUME NEW S, NEW q \in Seq(S), NEW r \in S
  PROVE  /\ Append(q, r) \in Seq(S)
         /\ DOMAIN Append(q, r) = DOMAIN q \cup { Len(q) + 1 }
         /\ Append(q, r)[Len(q) + 1] = r
         /\ \A k \in DOMAIN q : Append(q, r)[k] = q[k] /\ k \in 1 .. Len(q)
<1>1. DOMAIN q = 1 .. Len(q) /\ Len(q) \in Nat
  BY LenProperties
<1>2. Append(q, r) \in Seq(S) /\ Len(Append(q, r)) = Len(q) + 1
  BY AppendProperties
<1>3. DOMAIN Append(q, r) = 1 .. Len(q) + 1
  BY <1>2, LenProperties
<1>4. DOMAIN Append(q, r) = DOMAIN q \cup { Len(q) + 1 }
  BY <1>1, <1>3
<1>5. Append(q, r)[Len(q) + 1] = r /\ \A k \in 1 .. Len(q) : Append(q, r)[k] = q[k]
  BY <1>1, AppendProperties
<1> QED BY <1>1, <1>2, <1>4, <1>5

\* The step of a handler that changes the memory and asks for a save.
LEMMA PersistStep ==
  ASSUME Core, NEW h \in SaveHandlers, Persist(h), lobbies' \in Maps,
         phase # "down", phase' # "down",
         GoesOn(ledger, ledger'), UNCHANGED disk,
         DOMAIN lobbies \subseteq DOMAIN lobbies', Agrees(lobbies', ledger'),
         In(lobbies', "open") \subseteq DOMAIN disk,
         h.op \in {"watch", "settle"} => h.id \in DOMAIN lobbies',
         watches' \subseteq watches, calls' \subseteq calls
  PROVE  saves' \in Seq(SaveRecords) /\ AllAgree' /\ Chain' /\ Vouched' /\ Silent'
<1> DEFINE r == SaveOf(lobbies', h)
           n == Len(saves) + 1
<1>1. r \in SaveRecords /\ r.record = lobbies' /\ r.next = h /\ saves' = Append(saves, r)
  BY DEF SaveRecords, SaveOf, Persist
<1>2. saves \in Seq(SaveRecords)
  BY DEF Core, Typed
<1> HIDE DEF r
<1>3. saves' \in Seq(SaveRecords) /\ DOMAIN saves' = DOMAIN saves \cup {n} /\ saves'[n] = r
  BY <1>1, <1>2, Queued
<1>4. \A k \in DOMAIN saves : saves'[k] = saves[k] /\ k \in 1 .. Len(saves)
  BY <1>1, <1>2, Queued
<1>5. Len(saves) \in Nat
  BY <1>2, LenProperties
<1>6. AllAgree'
  <2>1. Agrees(disk, ledger') /\ \A k \in DOMAIN saves : Agrees(saves[k].record, ledger')
    BY StillAgrees DEF Core, AllAgree
  <2> QED BY <1>1, <1>3, <1>4, <2>1 DEF AllAgree
<1>7. Chain'
  <2>1. DOMAIN disk \subseteq DOMAIN lobbies'
    BY DEF Core, Chain
  <2>2. \A k \in DOMAIN saves' :
          DOMAIN disk \subseteq DOMAIN saves'[k].record
          /\ DOMAIN saves'[k].record \subseteq DOMAIN lobbies'
    BY <1>1, <1>3, <1>4, <2>1 DEF Core, Chain
  <2>3. ASSUME NEW j \in DOMAIN saves', NEW k \in DOMAIN saves', j =< k
        PROVE  DOMAIN saves'[j].record \subseteq DOMAIN saves'[k].record
    <3>1. CASE k = n
      BY <3>1, <1>1, <1>3, <2>2
    <3>2. CASE k \in DOMAIN saves /\ j \in DOMAIN saves
      BY <2>3, <3>2, <1>4 DEF Core, Chain
    <3>3. CASE k \in DOMAIN saves /\ j = n
      BY <2>3, <3>3, <1>4, <1>5
    <3> QED BY <3>1, <3>2, <3>3, <1>3
  <2> QED BY <2>1, <2>2, <2>3 DEF Chain
<1>8. Vouched'
  <2>1. \A k \in DOMAIN saves' :
          saves'[k].next.op \in {"watch", "settle"} => saves'[k].next.id \in DOMAIN saves'[k].record
    BY <1>1, <1>3, <1>4 DEF Core, Vouched
  <2>2. \A w \in watches' : w.id \in DOMAIN disk'
    BY DEF Core, Vouched
  <2>3. \A c \in calls' : c.op = "settle" => c.id \in DOMAIN disk'
    BY DEF Core, Vouched
  <2> QED BY <2>1, <2>2, <2>3 DEF Vouched, In
<1> QED BY <1>3, <1>6, <1>7, <1>8 DEF Silent

-----------------------------------------------------------------------------
(* Core is inductive *)

\* Who waits for something waits in a process that runs.
LEMMA Awake ==
  ASSUME Core, calls # {} \/ watches # {} \/ saves # << >> \/ lobbies # NoLobbies
  PROVE  phase # "down"
BY DEF Core, Silent

LEMMA DyingTyped ==
  ASSUME Core, Dies, UNCHANGED << disk, old >>, GoesOn(ledger, ledger'),
         troubles' \in 0 .. MaxTroubles
  PROVE  Typed'
<1>1. lobbies' \in Maps /\ saves' \in Seq(SaveRecords)
  BY NoLobbiesTyped, EmptySeq DEF Dies
<1>2. ledger' \in [ DOMAIN ledger' -> LedgerStatuses ] /\ DOMAIN ledger' \subseteq Nat
      /\ old' \subseteq DOMAIN ledger'
  BY DEF Core, Typed, GoesOn
<1>3. now' \in Nat /\ idCounter' \in Nat /\ boots' \in Nat /\ disk' \in Maps
  BY DEF Core, Typed, Dies
<1> QED BY <1>1, <1>2, <1>3 DEF Typed, Dies

LEMMA TroubleCounted ==
  ASSUME Core, Trouble
  PROVE  troubles' \in 0 .. MaxTroubles
BY ProcessBounds DEF Core, Typed, Trouble

\* A handler that throws, whatever it has done to the ledger.
LEMMA ThrowStep ==
  ASSUME Core, NEW h, h \in calls \cup watches, Throws(h),
         UNCHANGED << disk, old >>, GoesOn(ledger, ledger'),
         troubles' \in 0 .. MaxTroubles
  PROVE  Core'
<1>1. CASE h.main
  <2>1. Dies
    BY <1>1 DEF Throws
  <2> QED BY <2>1, DyingTyped, DeadStep
<1>2. CASE ~ h.main
  <2>1. /\ calls' \subseteq calls /\ watches' \subseteq watches
        /\ UNCHANGED << process, lobbies, saves >>
    BY <1>2 DEF Throws
  <2>2. Typed'
    BY <2>1 DEF Core, Typed, GoesOn, process
  <2>3. phase # "down" /\ phase' = phase
    BY <2>1, Awake DEF process
  <2> QED BY <2>1, <2>2, <2>3, QuietStep
<1> QED BY <1>1, <1>2

LEMMA CrashStep == ASSUME Core, Crash PROVE Core'
<1>1. troubles' \in 0 .. MaxTroubles /\ Dies /\ GoesOn(ledger, ledger')
  BY TroubleCounted, LedgerStays, LandsGoesOn DEF Crash, Core
<1>2. Typed'
  BY <1>1, DyingTyped DEF Crash
<1> QED BY <1>1, <1>2, DeadStep DEF Crash

LEMMA CreateReturnsStep == ASSUME Core, NEW c \in calls, CreateReturns(c) PROVE Core'
<1> DEFINE r == [ status |-> "awaiting_randomness", complete |-> FALSE ]
           h == Handler("watch", c.id, c.main)
<1>1. c.id \in Nat /\ c.main \in BOOLEAN /\ c.id \notin DOMAIN ledger
  BY DEF CreateReturns, Waits, Lands, Core, Typed, Handlers
<1>2. r \in LobbyRecord /\ r.status = "awaiting_randomness"
  BY DEF LobbyRecord
<1>3. h \in SaveHandlers /\ h.op = "watch" /\ h.id = c.id
  BY <1>1 DEF SaveHandlers, Handlers, Handler
<1>4. lobbies' = Put(lobbies, c.id, r) /\ Persist(h)
  BY DEF CreateReturns
<1> HIDE DEF r, h
<1>5. lobbies \in Maps
  BY DEF Core, Typed
<1>6. /\ lobbies' \in Maps /\ DOMAIN lobbies' = DOMAIN lobbies \cup {c.id} /\ lobbies'[c.id] = r
      /\ \A i \in DOMAIN lobbies \ {c.id} : lobbies'[i] = lobbies[i]
  <2> DEFINE id == c.id
  <2>1. id \in Nat
    BY <1>1
  <2> HIDE DEF id
  <2>2. /\ Put(lobbies, id, r) \in Maps
        /\ DOMAIN Put(lobbies, id, r) = DOMAIN lobbies \cup {id}
        /\ Put(lobbies, id, r)[id] = r
        /\ \A i \in DOMAIN lobbies \ {id} : Put(lobbies, id, r)[i] = lobbies[i]
    BY <1>2, <1>5, <2>1, PutTyped
  <2>3. lobbies' = Put(lobbies, id, r)
    BY <1>4 DEF id
  <2> QED BY <2>2, <2>3 DEF id
<1>7. GoesOn(ledger, ledger') /\ DOMAIN ledger' = DOMAIN ledger \cup {c.id}
  BY LandsGoesOn DEF CreateReturns, Waits, Core
<1>8. Agrees(lobbies', ledger')
  <2>1. Agrees(lobbies, ledger')
    BY <1>7, StillAgrees DEF Core, AllAgree
  <2> QED BY <2>1, <1>2, <1>6, <1>7 DEF Agrees
<1>9. In(lobbies', "open") \subseteq DOMAIN disk
  BY <1>2, <1>6 DEF In, Core, Vouched
<1>10. phase # "down" /\ UNCHANGED << process, watches, disk, old, troubles >> /\ calls' \subseteq calls
  BY Awake DEF CreateReturns
<1>11. phase' # "down"
  BY <1>10 DEF process
<1>12. saves' \in Seq(SaveRecords) /\ AllAgree' /\ Chain' /\ Vouched' /\ Silent'
  BY <1>3, <1>4, <1>6, <1>7, <1>8, <1>9, <1>10, <1>11, PersistStep
<1>13. Typed'
  BY <1>6, <1>7, <1>10, <1>12 DEF Core, Typed, GoesOn, process
<1> QED BY <1>12, <1>13 DEF Core

LEMMA CreateFailsStep ==
  ASSUME Core, NEW c \in calls, NEW landed \in BOOLEAN, CreateFails(c, landed)
  PROVE  Core'
<1>1. troubles' \in 0 .. MaxTroubles
  BY TroubleCounted DEF CreateFails
<1>2. GoesOn(ledger, ledger')
  BY LandsGoesOn, LedgerStays DEF CreateFails, Core
<1> QED BY <1>1, <1>2, ThrowStep DEF CreateFails

\* A handler gives a lobby the status s and saves.
LEMMA MarkStep ==
  ASSUME Core, NEW id, NEW s, NEW h \in SaveHandlers, Persist(h), h.op # "watch",
         Changed(lobbies, lobbies', id),
         id \in DOMAIN lobbies => lobbies'[id].status = s,
         s = "open" => id \in DOMAIN disk,
         s = "settled" /\ id \in DOMAIN ledger => ledger'[id] = "Settled",
         s = "cancelled" /\ id \in DOMAIN ledger => ledger'[id] = "Cancelled",
         h.op = "settle" => h.id \in DOMAIN lobbies,
         GoesOn(ledger, ledger'), UNCHANGED << process, disk, old >>,
         watches' \subseteq watches, calls' \subseteq calls,
         phase # "down", troubles' \in 0 .. MaxTroubles
  PROVE  Core'
<1>1. /\ lobbies' \in Maps /\ DOMAIN lobbies' = DOMAIN lobbies
      /\ \A i \in DOMAIN lobbies \ {id} : lobbies'[i] = lobbies[i]
  BY DEF Changed
<1>2. phase' # "down" /\ UNCHANGED << phase, now, idCounter, boots >>
  BY DEF process
<1>3. Agrees(lobbies', ledger')
  <2>1. Agrees(lobbies, ledger') /\ Agrees(lobbies, ledger)
    BY StillAgrees DEF Core, AllAgree
  <2> QED BY <1>1, <2>1 DEF Agrees
<1>4. In(lobbies', "open") \subseteq DOMAIN disk
  BY <1>1 DEF In, Core, Vouched
<1>5. saves' \in Seq(SaveRecords) /\ AllAgree' /\ Chain' /\ Vouched' /\ Silent'
  BY <1>1, <1>2, <1>3, <1>4, PersistStep
<1>6. Typed'
  BY <1>1, <1>2, <1>5 DEF Core, Typed, GoesOn
<1> QED BY <1>5, <1>6 DEF Core

LEMMA OracleStep == ASSUME Core, NEW id, OracleFulfills(id) PROVE Core'
<1>1. id \in DOMAIN ledger /\ ledger[id] = "AwaitingRandomness"
  BY DEF OracleFulfills, OnLedger
<1>2. GoesOn(ledger, ledger')
  BY <1>1, LedgerMoves DEF OracleFulfills, Core, LedgerStatuses
<1>3. Typed'
  BY <1>2 DEF Core, Typed, GoesOn, OracleFulfills, process
<1> QED BY <1>2, <1>3, QuietStep DEF OracleFulfills, process, Core, Silent

LEMMA RoundKnownStep == ASSUME Core, NEW w \in watches, RoundKnown(w) PROVE Core'
<1>1. /\ w.id \in DOMAIN disk /\ w.id \in Nat /\ w.main \in BOOLEAN
      /\ GoesOn(ledger, ledger') /\ phase # "down"
  BY Awake, LedgerStays DEF Core, Vouched, Typed, Handlers, RoundKnown
<1>2. CASE lobbies[w.id].status = "awaiting_randomness"
  <2> DEFINE h == Handler("opened", w.id, w.main)
  <2>1. h \in SaveHandlers /\ h.op = "opened"
    BY <1>1 DEF SaveHandlers, Handlers, Handler
  <2>2. lobbies' = [ lobbies EXCEPT ![w.id].status = "open" ] /\ Persist(h)
    BY <1>2 DEF RoundKnown
  <2> HIDE DEF h
  <2>3. "open" \in Statuses /\ lobbies \in Maps
    BY DEF Statuses, Core, Typed
  <2>4. Changed(lobbies, lobbies', w.id)
        /\ (w.id \in DOMAIN lobbies => lobbies'[w.id].status = "open")
    BY <2>2, <2>3, StatusChanged
  <2>5. UNCHANGED << process, disk, old, troubles >>
        /\ watches' \subseteq watches /\ calls' \subseteq calls
    BY <1>2 DEF RoundKnown, process
  <2>6. troubles' \in 0 .. MaxTroubles
    BY <2>5 DEF Core, Typed
  <2> QED BY <1>1, <2>1, <2>2, <2>4, <2>5, <2>6, MarkStep
<1>3. CASE lobbies[w.id].status # "awaiting_randomness"
  <2>1. UNCHANGED << lobbies, saves, now, idCounter, boots, calls, disk, ledger, old, troubles >>
        /\ watches' \subseteq watches /\ phase' \in {phase, "listening"}
    BY <1>3 DEF RoundKnown
  <2>2. Typed'
    BY <2>1 DEF Core, Typed
  <2> QED BY <1>1, <2>1, <2>2, QuietStep
<1> QED BY <1>2, <1>3

LEMMA WatchTimesOutStep == ASSUME Core, NEW w \in watches, WatchTimesOut(w) PROVE Core'
BY TroubleCounted, LedgerStays, ThrowStep DEF WatchTimesOut, Core

LEMMA RoundPlayedStep == ASSUME Core, NEW id \in DOMAIN lobbies, RoundPlayed(id) PROVE Core'
<1> DEFINE r == [ status |-> "settling", complete |-> TRUE ]
           h == Handler("settle", id, FALSE)
<1>1. lobbies \in Maps /\ id \in Nat /\ phase # "down"
  BY Awake, NoLobbiesTyped, MapTyped DEF Core, Typed, FiniteIds, RoundPlayed
<1>2. h \in SaveHandlers /\ h.op = "settle" /\ h.id = id
  BY <1>1 DEF SaveHandlers, Handlers, Handler
<1>3. r \in LobbyRecord /\ r.status = "settling"
  BY DEF LobbyRecord
<1>4. lobbies' = [ lobbies EXCEPT ![id] = r ] /\ Persist(h)
  BY DEF RoundPlayed
<1> HIDE DEF r, h
<1>5. Changed(lobbies, lobbies', id) /\ lobbies'[id].status = "settling"
  BY <1>1, <1>3, <1>4, RecordChanged
<1>6. GoesOn(ledger, ledger') /\ UNCHANGED << process, calls, watches, disk, old, troubles >>
  BY LedgerStays DEF Core, RoundPlayed
<1>7. troubles' \in 0 .. MaxTroubles
  BY <1>6 DEF Core, Typed
<1> QED BY <1>1, <1>2, <1>4, <1>5, <1>6, <1>7, MarkStep

LEMMA SettleReturnsStep == ASSUME Core, NEW c \in calls, SettleReturns(c) PROVE Core'
<1> DEFINE h == Handler("settled", c.id, FALSE)
<1>1. lobbies \in Maps /\ c.id \in Nat /\ phase # "down"
  BY Awake DEF Core, Typed, Handlers
<1>2. h \in SaveHandlers /\ h.op = "settled"
  BY <1>1 DEF SaveHandlers, Handlers, Handler
<1>3. lobbies' = [ lobbies EXCEPT ![c.id].status = "settled" ] /\ Persist(h)
  BY DEF SettleReturns
<1> HIDE DEF h
<1>4. Changed(lobbies, lobbies', c.id)
      /\ (c.id \in DOMAIN lobbies => lobbies'[c.id].status = "settled")
  BY <1>1, <1>3, StatusChanged DEF Statuses
<1>5. GoesOn(ledger, ledger') /\ (c.id \in DOMAIN ledger => ledger'[c.id] = "Settled")
  BY LandsGoesOn DEF SettleReturns, Waits, Core
<1>6. UNCHANGED << process, watches, disk, old, troubles >> /\ calls' \subseteq calls
  BY DEF SettleReturns
<1>7. troubles' \in 0 .. MaxTroubles
  BY <1>6 DEF Core, Typed
<1> QED BY <1>1, <1>2, <1>3, <1>4, <1>5, <1>6, <1>7, MarkStep

LEMMA SettleThrowsStep ==
  ASSUME Core, NEW c \in calls, c.op = "settle", SettleThrows(c),
         GoesOn(ledger, ledger'), troubles' \in 0 .. MaxTroubles
  PROVE  Core'
<1> DEFINE h == Handler("done", c.id, FALSE)
<1>1. lobbies \in Maps /\ c.id \in Nat /\ phase # "down" /\ c.id \in DOMAIN disk
  BY Awake DEF Core, Typed, Handlers, Vouched
<1>2. h \in SaveHandlers /\ h.op = "done"
  BY <1>1 DEF SaveHandlers, Handlers, Handler
<1>3. lobbies' = [ lobbies EXCEPT ![c.id].status = "open" ] /\ Persist(h)
  BY DEF SettleThrows
<1> HIDE DEF h
<1>4. Changed(lobbies, lobbies', c.id)
      /\ (c.id \in DOMAIN lobbies => lobbies'[c.id].status = "open")
  BY <1>1, <1>3, StatusChanged DEF Statuses
<1>5. UNCHANGED << process, watches, disk, old >> /\ calls' \subseteq calls
  BY DEF SettleThrows
<1> QED BY <1>1, <1>2, <1>3, <1>4, <1>5, MarkStep

LEMMA SettleRejectedStep == ASSUME Core, NEW c \in calls, SettleRejected(c) PROVE Core'
<1>1. troubles' \in 0 .. MaxTroubles /\ GoesOn(ledger, ledger')
  BY LedgerStays DEF SettleRejected, Core, Typed
<1> QED BY <1>1, SettleThrowsStep DEF SettleRejected, Waits

LEMMA SettleFailsStep ==
  ASSUME Core, NEW c \in calls, NEW landed \in BOOLEAN, SettleFails(c, landed)
  PROVE  Core'
<1>1. troubles' \in 0 .. MaxTroubles
  BY TroubleCounted DEF SettleFails
<1>2. GoesOn(ledger, ledger')
  BY LandsGoesOn, LedgerStays DEF SettleFails, Core
<1> QED BY <1>1, <1>2, SettleThrowsStep DEF SettleFails, Waits

LEMMA SweepStep == ASSUME Core, NEW id \in DOMAIN lobbies, Sweep(id) PROVE Core'
<1> DEFINE h == Handler("cancel", id, FALSE)
<1>1. id \in Nat /\ phase # "down"
  BY MapTyped DEF Core, Typed, FiniteIds, Sweep
<1>2. h \in Handlers({"create", "settle", "cancel"}) /\ h.op = "cancel"
  BY <1>1 DEF Handlers, Handler
<1>3. calls' = calls \cup {h}
  BY DEF Sweep
<1>4. UNCHANGED << process, lobbies, watches, disk, saves, ledger, old, troubles >>
  BY DEF Sweep, BeforeCancel
<1> HIDE DEF h
<1>5. Typed'
  BY <1>2, <1>3, <1>4 DEF Core, Typed, process
<1> QED BY <1>1, <1>2, <1>3, <1>4, <1>5, LedgerStays, QuietStep DEF Core, process

LEMMA CancelReturnsStep == ASSUME Core, NEW c \in calls, CancelReturns(c) PROVE Core'
<1> DEFINE h == Handler("done", c.id, FALSE)
<1>1. lobbies \in Maps /\ c.id \in Nat /\ phase # "down"
  BY Awake DEF Core, Typed, Handlers
<1>2. h \in SaveHandlers /\ h.op = "done"
  BY <1>1 DEF SaveHandlers, Handlers, Handler
<1>3. lobbies' = [ lobbies EXCEPT ![c.id].status = "cancelled" ] /\ Persist(h)
  BY DEF CancelReturns
<1> HIDE DEF h
<1>4. Changed(lobbies, lobbies', c.id)
      /\ (c.id \in DOMAIN lobbies => lobbies'[c.id].status = "cancelled")
  BY <1>1, <1>3, StatusChanged DEF Statuses
<1>5. GoesOn(ledger, ledger') /\ (c.id \in DOMAIN ledger => ledger'[c.id] = "Cancelled")
  BY LandsGoesOn DEF CancelReturns, Waits, Core
<1>6. UNCHANGED << process, watches, disk, old, troubles >> /\ calls' \subseteq calls
  BY DEF CancelReturns
<1>7. troubles' \in 0 .. MaxTroubles
  BY <1>6 DEF Core, Typed
<1> QED BY <1>1, <1>2, <1>3, <1>4, <1>5, <1>6, <1>7, MarkStep

LEMMA CancelFailsStep ==
  ASSUME Core, NEW c \in calls, NEW landed \in BOOLEAN, CancelFails(c, landed)
  PROVE  Core'
<1>1. troubles' \in 0 .. MaxTroubles
  BY TroubleCounted DEF CancelFails, Core, Typed
<1>2. GoesOn(ledger, ledger')
  BY LandsGoesOn, LedgerStays DEF CancelFails, Core
<1> QED BY <1>1, <1>2, ThrowStep DEF CancelFails

LEMMA DayPassesStep == ASSUME Core, DayPasses PROVE Core'
<1>1. Typed'
  BY DEF DayPasses, Core, Typed, process
<1> QED BY <1>1, LedgerStays, QuietStep DEF DayPasses, Core, Silent, process

\* A finite set of ids can be brought into an order.
LEMMA Ordered ==
  ASSUME NEW S \in FiniteIds
  PROVE  SetToSeq(S) \in Seq(S) /\ DOMAIN SetToSeq(S) = 1 .. Cardinality(S)
<1>1. Cardinality(S) \in Nat /\ ExistsBijection(1 .. Cardinality(S), S)
  BY FS_CardinalityType DEF FiniteIds
<1>2. \E f \in [ 1 .. Cardinality(S) -> S ] : IsInjective(f)
  BY <1>1 DEF ExistsBijection, Bijection, Injection
<1>3. SetToSeq(S) \in [ 1 .. Cardinality(S) -> S ]
  BY <1>2 DEF SetToSeq
<1> QED BY <1>1, <1>3

LEMMA IdIsNat == ASSUME NEW ms \in Nat, NEW counter \in Nat PROVE LobbyId(ms, counter) \in Nat
<1>1. ms * IDS_PER_MS \in Nat /\ counter % IDS_PER_MS \in Nat
  BY ProcessBounds
<1> QED BY <1>1 DEF LobbyId

\* ensureOpenLobby asks for at most one lobby.
LEMMA CreatedTyped ==
  ASSUME NEW m, NEW ms \in Nat, NEW counter \in Nat, NEW main \in BOOLEAN
  PROVE  /\ Created(m, ms, counter, main) \subseteq Handlers({"create", "settle", "cancel"})
         /\ \A c \in Created(m, ms, counter, main) : c.op = "create" /\ c.main = main
         /\ \A c, d \in Created(m, ms, counter, main) : c = d
         /\ Cardinality(Created(m, ms, counter, main)) \in Nat
<1> DEFINE h == Handler("create", LobbyId(ms, counter), main)
<1>1. LobbyId(ms, counter) \in Nat
  BY IdIsNat
<1>2. h \in Handlers({"create", "settle", "cancel"}) /\ h.op = "create" /\ h.main = main
  BY <1>1 DEF Handlers, Handler
<1>3. Created(m, ms, counter, main) \in { {h}, {} }
  BY DEF Created
<1> HIDE DEF h
<1>4. Cardinality({h}) \in Nat /\ Cardinality({}) \in Nat
  BY FS_Singleton, FS_EmptySet
<1> QED BY <1>2, <1>3, <1>4

\* A complete lobby of the file is marked for settlement, nothing else changes.
LEMMA MarkedTyped ==
  ASSUME NEW m \in Maps, NEW ids, NEW k
  PROVE  /\ SettlingUpTo(m, ids, k) \in Maps
         /\ DOMAIN SettlingUpTo(m, ids, k) = DOMAIN m
         /\ \A l : Agrees(m, l) => Agrees(SettlingUpTo(m, ids, k), l)
<1>1. DOMAIN m \in FiniteIds /\ m \in [ DOMAIN m -> LobbyRecord ]
  BY MapTyped
<1>2. ASSUME NEW id \in DOMAIN m
      PROVE  [ m[id] EXCEPT !.status = "settling" ] \in LobbyRecord
             /\ [ m[id] EXCEPT !.status = "settling" ].status = "settling"
  BY <1>1 DEF LobbyRecord
<1>3. DOMAIN SettlingUpTo(m, ids, k) = DOMAIN m
  BY DEF SettlingUpTo
<1>4. \A id \in DOMAIN m :
        /\ SettlingUpTo(m, ids, k)[id] \in LobbyRecord
        /\ SettlingUpTo(m, ids, k)[id] = m[id] \/ SettlingUpTo(m, ids, k)[id].status = "settling"
  <2> TAKE id \in DOMAIN m
  <2>1. CASE \E j \in 1 .. k : ids[j] = id
    <3>1. SettlingUpTo(m, ids, k)[id] = [ m[id] EXCEPT !.status = "settling" ]
      BY <2>1 DEF SettlingUpTo
    <3> QED BY <3>1, <1>2
  <2>2. CASE ~ \E j \in 1 .. k : ids[j] = id
    <3>1. SettlingUpTo(m, ids, k)[id] = m[id]
      BY <2>2 DEF SettlingUpTo
    <3> QED BY <3>1, <1>1
  <2> QED BY <2>1, <2>2
<1>5. SettlingUpTo(m, ids, k) \in [ DOMAIN m -> LobbyRecord ]
  <2>1. SettlingUpTo(m, ids, k) = [ id \in DOMAIN m |-> SettlingUpTo(m, ids, k)[id] ]
    BY DEF SettlingUpTo
  <2> QED BY <2>1, <1>4
<1>6. ASSUME NEW l, Agrees(m, l) PROVE Agrees(SettlingUpTo(m, ids, k), l)
  BY <1>3, <1>4, <1>6 DEF Agrees
<1> QED BY <1>1, <1>3, <1>5, <1>6, MapTyped

LEMMA LoadedTyped ==
  ASSUME NEW m \in Maps, NEW loaded, loaded = [ id \in DOMAIN m |-> Reopened(m[id]) ]
  PROVE  /\ loaded \in Maps /\ DOMAIN loaded = DOMAIN m
         /\ \A l : Agrees(m, l) => Agrees(loaded, l)
<1>1. DOMAIN m \in FiniteIds /\ m \in [ DOMAIN m -> LobbyRecord ]
  BY MapTyped
<1>2. DOMAIN loaded = DOMAIN m
  OBVIOUS
<1>3. ASSUME NEW r \in LobbyRecord
      PROVE  Reopened(r) \in LobbyRecord /\ (Reopened(r) = r \/ Reopened(r).status = "open")
  BY DEF Reopened, LobbyRecord
<1>4. \A id \in DOMAIN m : loaded[id] = Reopened(m[id])
  OBVIOUS
<1>5. \A id \in DOMAIN m :
        loaded[id] \in LobbyRecord /\ (loaded[id] = m[id] \/ loaded[id].status = "open")
  BY <1>1, <1>3, <1>4
<1>6. loaded \in [ DOMAIN m -> LobbyRecord ]
  BY <1>4, <1>5
<1>7. ASSUME NEW l, Agrees(m, l) PROVE Agrees(loaded, l)
  BY <1>2, <1>5, <1>7 DEF Agrees
<1> QED BY <1>1, <1>2, <1>6, <1>7, MapTyped

\* What init makes of the file: the lobbies, the saves it asks for, the watches.
LEMMA BootStep == ASSUME Core, Boot PROVE Core'
<1> DEFINE loaded == [ id \in DOMAIN disk |-> Reopened(disk[id]) ]
           R == { id \in DOMAIN loaded : Ready(loaded[id]) }
           ready == SetToSeq(R)
           Marked(k) == SettlingUpTo(loaded, ready, k)
           n == Cardinality(R)
<1>1. disk \in Maps /\ DOMAIN disk \in FiniteIds /\ Agrees(disk, ledger)
  BY MapTyped DEF Core, Typed, AllAgree
<1>2. loaded \in Maps /\ DOMAIN loaded = DOMAIN disk /\ Agrees(loaded, ledger)
  BY <1>1, LoadedTyped
<1>3. R \in FiniteIds /\ R \subseteq DOMAIN disk /\ n \in Nat
  <2>1. R \subseteq DOMAIN disk
    BY <1>2
  <2>2. IsFiniteSet(R)
    BY <1>1, <2>1, FS_Subset DEF FiniteIds
  <2>3. R \subseteq Nat
    BY <1>1, <2>1 DEF FiniteIds
  <2> QED BY <2>1, <2>2, <2>3, FS_CardinalityType DEF FiniteIds
<1>4. ready \in Seq(R) /\ DOMAIN ready = 1 .. n
  BY <1>3, Ordered
<1>5. \A k \in DOMAIN ready : ready[k] \in R
  BY <1>4, ElementOfSeq, LenProperties
<1>6. \A k : Marked(k) \in Maps /\ DOMAIN Marked(k) = DOMAIN disk /\ Agrees(Marked(k), ledger)
  BY <1>2, MarkedTyped
<1>7. /\ lobbies' = Marked(Len(ready))
      /\ saves' = [ k \in DOMAIN ready |-> SaveOf(Marked(k), Handler("settle", ready[k], FALSE)) ]
      /\ watches' = { Handler("watch", id, FALSE) : id \in In(loaded, "awaiting_randomness") }
      /\ calls' = Created(lobbies', now', 1, TRUE)
      /\ now' = now + 1 /\ idCounter' = 1 /\ boots' = boots + 1
      /\ phase' \in {"listening", "starting"}
      /\ UNCHANGED << disk, ledger, old, troubles >>
  BY DEF Boot
<1> HIDE DEF loaded, R, ready, Marked, n
<1>8. /\ DOMAIN saves' = 1 .. n /\ DOMAIN saves' = DOMAIN ready
      /\ \A k \in DOMAIN saves' :
           /\ saves'[k] = SaveOf(Marked(k), Handler("settle", ready[k], FALSE))
           /\ saves'[k] \in SaveRecords
           /\ saves'[k].record = Marked(k)
           /\ saves'[k].next.id \in DOMAIN disk
  <2>1. DOMAIN saves' = 1 .. n /\ DOMAIN saves' = DOMAIN ready
    BY <1>4, <1>7
  <2> SUFFICES ASSUME NEW k \in DOMAIN saves'
               PROVE  /\ saves'[k] = SaveOf(Marked(k), Handler("settle", ready[k], FALSE))
                      /\ saves'[k] \in SaveRecords
                      /\ saves'[k].record = Marked(k)
                      /\ saves'[k].next.id \in DOMAIN disk
    BY <2>1
  <2> DEFINE h == Handler("settle", ready[k], FALSE)
  <2>2. ready[k] \in DOMAIN disk /\ ready[k] \in Nat
    BY <1>1, <1>3, <1>5, <2>1 DEF FiniteIds
  <2>3. h \in SaveHandlers /\ h.id = ready[k]
    BY <2>2 DEF SaveHandlers, Handlers, Handler
  <2>4. saves'[k] = SaveOf(Marked(k), h)
    BY <1>7, <2>1
  <2> HIDE DEF h
  <2>5. saves'[k] \in SaveRecords /\ saves'[k].record = Marked(k) /\ saves'[k].next = h
    BY <1>6, <2>3, <2>4 DEF SaveRecords, SaveOf
  <2> QED BY <2>2, <2>3, <2>4, <2>5 DEF h
<1>9. saves' \in Seq(SaveRecords)
  <2>1. saves' \in [ 1 .. n -> SaveRecords ]
    BY <1>7, <1>8
  <2> QED BY <1>3, <2>1
<1>10. lobbies' \in Maps /\ DOMAIN lobbies' = DOMAIN disk /\ Agrees(lobbies', ledger)
  BY <1>6, <1>7
<1>11. now' \in Nat /\ idCounter' \in Nat /\ boots' \in Nat
  BY <1>7 DEF Core, Typed
<1>12. calls' \subseteq Handlers({"create", "settle", "cancel"}) /\ \A c \in calls' : c.op = "create"
  BY <1>7, <1>11, CreatedTyped
<1>13. watches' \subseteq Handlers({"watch"}) /\ \A w \in watches' : w.id \in DOMAIN disk
  <2>1. In(loaded, "awaiting_randomness") \subseteq DOMAIN disk /\ DOMAIN disk \subseteq Nat
    BY <1>1, <1>2 DEF In, FiniteIds
  <2>2. ASSUME NEW w \in watches'
        PROVE  w \in Handlers({"watch"}) /\ w.id \in DOMAIN disk
    <3>1. PICK id \in In(loaded, "awaiting_randomness") : w = Handler("watch", id, FALSE)
      BY <1>7
    <3>2. id \in Nat /\ id \in DOMAIN disk
      BY <2>1
    <3> QED BY <3>1, <3>2 DEF Handlers, Handler
  <2> QED BY <2>2
<1>14. Typed'
  <2>1. UNCHANGED << disk, ledger, old, troubles >> /\ phase' \in {"listening", "starting"}
    BY <1>7
  <2>2. disk' \in Maps /\ ledger' \in [ DOMAIN ledger' -> LedgerStatuses ]
        /\ DOMAIN ledger' \subseteq Nat /\ old' \subseteq DOMAIN ledger'
        /\ troubles' \in 0 .. MaxTroubles
    BY <2>1 DEF Core, Typed
  <2> QED BY <1>9, <1>10, <1>11, <1>12, <1>13, <2>1, <2>2 DEF Typed
<1>15. AllAgree'
  BY <1>1, <1>6, <1>7, <1>8, <1>10 DEF AllAgree
<1>16. Chain'
  <2>1. \A k \in DOMAIN saves' : DOMAIN saves'[k].record = DOMAIN disk
    BY <1>6, <1>8
  <2>2. disk' = disk
    BY <1>7
  <2> QED BY <1>10, <2>1, <2>2 DEF Chain
<1>17. Vouched'
  BY <1>6, <1>7, <1>8, <1>10, <1>12, <1>13 DEF Vouched, In
<1> QED BY <1>7, <1>14, <1>15, <1>16, <1>17 DEF Core, Silent

\* The queue without its head.
LEMMA Dequeued ==
  ASSUME NEW S, NEW q \in Seq(S), q # << >>
  PROVE  /\ Tail(q) \in Seq(S) /\ Head(q) = q[1] /\ 1 \in DOMAIN q /\ q[1] \in S
         /\ \A k \in DOMAIN Tail(q) : k \in Nat /\ k + 1 \in DOMAIN q /\ Tail(q)[k] = q[k + 1]
<1>1. DOMAIN q = 1 .. Len(q) /\ Len(q) \in Nat \ {0}
  BY LenProperties, EmptySeq
<1>2. Tail(q) \in Seq(S) /\ Head(q) \in S
  BY HeadTailProperties
<1>3. Len(Tail(q)) = Len(q) - 1 /\ \A k \in 1 .. Len(q) - 1 : Tail(q)[k] = q[k + 1]
  BY <1>1, HeadTailProperties
<1>4. DOMAIN Tail(q) = 1 .. Len(q) - 1
  BY <1>2, <1>3, LenProperties
<1>5. Head(q) = q[1]
  BY <1>1
<1> QED BY <1>1, <1>2, <1>3, <1>4, <1>5

\* The saves behind the first one keep what Core says of them, and follow it.
LEMMA QueueMoves ==
  ASSUME Core, saves # << >>, saves' = Tail(saves)
  PROVE  /\ saves' \in Seq(SaveRecords)
         /\ 1 \in DOMAIN saves /\ Head(saves) = saves[1] /\ Head(saves) \in SaveRecords
         /\ \A k \in DOMAIN saves' :
              /\ Agrees(saves'[k].record, ledger)
              /\ DOMAIN saves[1].record \subseteq DOMAIN saves'[k].record
              /\ DOMAIN saves'[k].record \subseteq DOMAIN lobbies
              /\ saves'[k].next.op \in {"watch", "settle"}
                   => saves'[k].next.id \in DOMAIN saves'[k].record
         /\ \A j, k \in DOMAIN saves' :
              j =< k => DOMAIN saves'[j].record \subseteq DOMAIN saves'[k].record
<1>1. saves \in Seq(SaveRecords)
  BY DEF Core, Typed
<1>2. saves' \in Seq(SaveRecords) /\ 1 \in DOMAIN saves /\ Head(saves) = saves[1]
      /\ Head(saves) \in SaveRecords
  BY <1>1, Dequeued
<1>3. \A k \in DOMAIN saves' : k \in Nat /\ k + 1 \in DOMAIN saves /\ saves'[k] = saves[k + 1]
  BY <1>1, Dequeued
<1>4. ASSUME NEW k \in DOMAIN saves'
      PROVE  /\ Agrees(saves'[k].record, ledger)
             /\ DOMAIN saves[1].record \subseteq DOMAIN saves'[k].record
             /\ DOMAIN saves'[k].record \subseteq DOMAIN lobbies
             /\ saves'[k].next.op \in {"watch", "settle"}
                  => saves'[k].next.id \in DOMAIN saves'[k].record
  <2>1. k \in Nat /\ k + 1 \in DOMAIN saves /\ saves'[k] = saves[k + 1] /\ 1 =< k + 1
    BY <1>3, <1>4
  <2>2. Agrees(saves[k + 1].record, ledger)
    BY <2>1 DEF Core, AllAgree
  <2>3. DOMAIN saves[1].record \subseteq DOMAIN saves[k + 1].record
    BY <1>2, <2>1 DEF Core, Chain
  <2>4. DOMAIN saves[k + 1].record \subseteq DOMAIN lobbies
    BY <2>1 DEF Core, Chain
  <2>5. saves[k + 1].next.op \in {"watch", "settle"}
          => saves[k + 1].next.id \in DOMAIN saves[k + 1].record
    BY <2>1 DEF Core, Vouched
  <2> QED BY <2>1, <2>2, <2>3, <2>4, <2>5
<1>5. ASSUME NEW j \in DOMAIN saves', NEW k \in DOMAIN saves', j =< k
      PROVE  DOMAIN saves'[j].record \subseteq DOMAIN saves'[k].record
  <2>1. j + 1 \in DOMAIN saves /\ k + 1 \in DOMAIN saves /\ j + 1 =< k + 1
        /\ saves'[j] = saves[j + 1] /\ saves'[k] = saves[k + 1]
    BY <1>3, <1>5
  <2>2. DOMAIN saves[j + 1].record \subseteq DOMAIN saves[k + 1].record
    BY <2>1 DEF Core, Chain
  <2> QED BY <2>1, <2>2
<1> QED BY <1>2, <1>4, <1>5

\* The written snapshot has every lobby of the older file, and the lobby the
\* caller of the save goes on with.
LEMMA SaveDoneStep == ASSUME Core, SaveDone PROVE Core'
<1> DEFINE h == Head(saves).next
           ensured == IF EmitsSettled(h.op) THEN Created(lobbies, now, idCounter + 1, FALSE) ELSE {}
<1>1. /\ saves # << >> /\ disk' = Head(saves).record /\ saves' = Tail(saves)
      /\ watches' = watches \cup (IF h.op = "watch" THEN {h} ELSE {})
      /\ calls' = calls \cup ensured \cup (IF h.op = "settle" THEN {h} ELSE {})
      /\ idCounter' = idCounter + Cardinality(ensured)
      /\ phase' \in {phase, "listening"}
      /\ UNCHANGED << now, boots, lobbies, ledger, old, troubles >>
  BY DEF SaveDone, Written
<1>2. /\ phase # "down" /\ phase' # "down" /\ saves' \in Seq(SaveRecords)
      /\ 1 \in DOMAIN saves /\ Head(saves) = saves[1] /\ Head(saves) \in SaveRecords
  BY <1>1, Awake, QueueMoves
<1>3. disk' = saves[1].record /\ disk' \in Maps /\ h = saves[1].next /\ h \in SaveHandlers
  BY <1>1, <1>2 DEF SaveRecords
<1>4. /\ ensured \subseteq Handlers({"create", "settle", "cancel"})
      /\ \A c \in ensured : c.op = "create"
      /\ Cardinality(ensured) \in Nat
  <2>1. now \in Nat /\ idCounter + 1 \in Nat
    BY DEF Core, Typed
  <2>2. Cardinality({}) \in Nat
    BY FS_EmptySet
  <2> QED BY <2>1, <2>2, CreatedTyped
<1>5. /\ DOMAIN disk \subseteq DOMAIN disk' /\ DOMAIN disk' \subseteq DOMAIN lobbies
      /\ Agrees(disk', ledger)
      /\ h.op \in {"watch", "settle"} => h.id \in DOMAIN disk'
  BY <1>2, <1>3 DEF Core, Chain, Vouched, AllAgree
<1> HIDE DEF h, ensured
<1>6. calls' \subseteq Handlers({"create", "settle", "cancel"})
      /\ watches' \subseteq Handlers({"watch"})
  <2>1. h.op = "settle" => h \in Handlers({"create", "settle", "cancel"})
    BY <1>3 DEF SaveHandlers, Handlers
  <2>2. h.op = "watch" => h \in Handlers({"watch"})
    BY <1>3 DEF SaveHandlers, Handlers
  <2> QED BY <1>1, <1>4, <2>1, <2>2 DEF Core, Typed
<1>7. Typed'
  <2>1. idCounter' \in Nat /\ now' \in Nat /\ boots' \in Nat /\ troubles' \in 0 .. MaxTroubles
    BY <1>1, <1>4 DEF Core, Typed
  <2>2. phase' \in {"down", "starting", "listening"} /\ lobbies' \in Maps
        /\ ledger' \in [ DOMAIN ledger' -> LedgerStatuses ]
        /\ DOMAIN ledger' \subseteq Nat /\ old' \subseteq DOMAIN ledger'
    BY <1>1 DEF Core, Typed
  <2> QED BY <1>2, <1>3, <1>6, <2>1, <2>2 DEF Typed
<1>8. AllAgree'
  BY <1>1, <1>5, QueueMoves DEF Core, AllAgree
<1>9. Chain'
  BY <1>1, <1>3, <1>5, QueueMoves DEF Chain
<1>10. Vouched'
  <2>1. In(lobbies', "open") \subseteq DOMAIN disk'
    BY <1>1, <1>5 DEF Core, Vouched
  <2>2. \A w \in watches' : w.id \in DOMAIN disk'
    BY <1>1, <1>5 DEF Core, Vouched
  <2>3. \A c \in calls' : c.op = "settle" => c.id \in DOMAIN disk'
    BY <1>1, <1>4, <1>5 DEF Core, Vouched
  <2> QED BY <1>1, <2>1, <2>2, <2>3, QueueMoves DEF Vouched
<1> QED BY <1>2, <1>7, <1>8, <1>9, <1>10 DEF Core, Silent

LEMMA SaveFailsStep == ASSUME Core, SaveFails PROVE Core'
<1>1. troubles' \in 0 .. MaxTroubles /\ GoesOn(ledger, ledger') /\ saves # << >>
      /\ UNCHANGED << disk, ledger, old >>
  BY TroubleCounted, LedgerStays DEF SaveFails, Core
<1>2. CASE Head(saves).next.main
  <2>1. Dies
    BY <1>2 DEF SaveFails
  <2> QED BY <1>1, <2>1, DyingTyped, DeadStep
<1>3. CASE ~ Head(saves).next.main
  <2>1. saves' = Tail(saves) /\ UNCHANGED << process, lobbies, calls, watches, disk, ledger, old >>
    BY <1>1, <1>3 DEF SaveFails
  <2>2. saves' \in Seq(SaveRecords) /\ 1 \in DOMAIN saves
        /\ DOMAIN disk \subseteq DOMAIN saves[1].record
    BY <1>1, <2>1, QueueMoves DEF Core, Chain
  <2>3. phase # "down" /\ UNCHANGED << phase, now, idCounter, boots >>
    BY <1>1, <2>1, Awake DEF process
  <2>4. Typed'
    BY <1>1, <2>1, <2>2, <2>3 DEF Core, Typed
  <2>5. AllAgree'
    BY <1>1, <2>1, QueueMoves DEF Core, AllAgree
  <2>6. Chain'
    BY <1>1, <2>1, <2>2, <2>3, QueueMoves DEF Core, Chain
  <2>7. Vouched'
    BY <1>1, <2>1, QueueMoves DEF Core, Vouched, In
  <2> QED BY <2>3, <2>4, <2>5, <2>6, <2>7 DEF Core, Silent
<1> QED BY <1>2, <1>3

LEMMA StutterStep == ASSUME Core, UNCHANGED vars PROVE Core'
<1>1. UNCHANGED << lobbies, disk, saves, calls, watches, ledger, old, troubles, phase, now, idCounter, boots >>
  BY DEF vars, process
<1>2. Typed'
  BY <1>1 DEF Core, Typed
<1> QED BY <1>1, <1>2, LedgerStays, QuietStep DEF Core, Silent

LEMMA CoreStep == ASSUME Core, [Next]_vars PROVE Core'
<1>1. CASE UNCHANGED vars
  BY <1>1, StutterStep
<1>2. CASE Boot
  BY <1>2, BootStep
<1>3. CASE Crash
  BY <1>3, CrashStep
<1>4. CASE \E c \in calls :
             CreateReturns(c) \/ SettleReturns(c) \/ SettleRejected(c) \/ CancelReturns(c)
  BY <1>4, CreateReturnsStep, SettleReturnsStep, SettleRejectedStep, CancelReturnsStep
<1>5. CASE \E c \in calls, landed \in BOOLEAN :
             CreateFails(c, landed) \/ SettleFails(c, landed) \/ CancelFails(c, landed)
  BY <1>5, CreateFailsStep, SettleFailsStep, CancelFailsStep
<1>6. CASE \E id \in DOMAIN ledger : OracleFulfills(id)
  BY <1>6, OracleStep
<1>7. CASE \E w \in watches : RoundKnown(w) \/ WatchTimesOut(w)
  BY <1>7, RoundKnownStep, WatchTimesOutStep
<1>8. CASE \E id \in DOMAIN lobbies : RoundPlayed(id) \/ Sweep(id)
  BY <1>8, RoundPlayedStep, SweepStep
<1>9. CASE SaveDone
  BY <1>9, SaveDoneStep
<1>10. CASE SaveFails
  BY <1>10, SaveFailsStep
<1>11. CASE DayPasses
  BY <1>11, DayPassesStep
<1> QED BY <1>1, <1>2, <1>3, <1>4, <1>5, <1>6, <1>7, <1>8, <1>9, <1>10, <1>11 DEF Next

LEMMA CoreHolds == Spec => []Core
BY Starts, CoreStep, PTL DEF Spec

\* What the server says has ended has ended on the ledger, in memory, in the
\* file and in every save on its way, over any failures and restarts.
THEOREM EndsAlwaysAgree == Spec => []EndsAgree
<1>1. Core => EndsAgree
  BY DEF Core, AllAgree, Agrees, EndsAgree, Records, In, OnLedger
<1> QED BY <1>1, CoreHolds, PTL

\* No restart forgets a lobby that was offered: it was in the file before.
THEOREM OfferedIsAlwaysSaved == Spec => []OfferedIsSaved
<1>1. Core => OfferedIsSaved
  BY DEF Core, Vouched, OfferedIsSaved
<1> QED BY <1>1, CoreHolds, PTL

-----------------------------------------------------------------------------
(* Queues *)

\* The lobbies for which a save in the queue q has a handler op waiting.
NextIds(q, op) == { q[k].next.id : k \in { j \in DOMAIN q : q[j].next.op = op } }

\* At most one for each.
OnceEach(q, op) ==
  \A j, k \in DOMAIN q :
    q[j].next.op = op /\ q[k].next.op = op /\ q[j].next.id = q[k].next.id => j = k

\* The saves main waits for.
Mains(q) == { k \in DOMAIN q : q[k].next.main }

LEMMA EmptyQueue ==
  ASSUME NEW op
  PROVE  NextIds(<< >>, op) = {} /\ OnceEach(<< >>, op) /\ Mains(<< >>) = {}
<1>1. DOMAIN << >> = {}
  BY EmptySeq
<1> QED BY <1>1 DEF NextIds, OnceEach, Mains

\* A save at the end of the queue.
LEMMA NextQueued ==
  ASSUME NEW q \in Seq(SaveRecords), NEW s \in SaveRecords, NEW op
  PROVE  /\ s.next.op = op => NextIds(Append(q, s), op) = NextIds(q, op) \cup {s.next.id}
         /\ s.next.op # op => NextIds(Append(q, s), op) = NextIds(q, op)
         /\ OnceEach(q, op) /\ (s.next.op = op => s.next.id \notin NextIds(q, op))
              => OnceEach(Append(q, s), op)
         /\ s.next.main => Mains(Append(q, s)) = Mains(q) \cup { Len(q) + 1 }
         /\ ~ s.next.main => Mains(Append(q, s)) = Mains(q)
<1> DEFINE p == Append(q, s)
           n == Len(q) + 1
<1>1. DOMAIN p = DOMAIN q \cup {n} /\ p[n] = s /\ n \notin DOMAIN q
      /\ \A k \in DOMAIN q : p[k] = q[k]
  <2>1. /\ DOMAIN p = DOMAIN q \cup {n} /\ p[n] = s
        /\ \A k \in DOMAIN q : p[k] = q[k] /\ k \in 1 .. Len(q)
    BY Queued
  <2> QED BY <2>1, LenProperties
<1> HIDE DEF p, n
<1>2. s.next.op = op => NextIds(p, op) = NextIds(q, op) \cup {s.next.id}
  BY <1>1 DEF NextIds
<1>3. s.next.op # op => NextIds(p, op) = NextIds(q, op)
  BY <1>1 DEF NextIds
<1>4. ASSUME OnceEach(q, op), s.next.op = op => s.next.id \notin NextIds(q, op)
      PROVE  OnceEach(p, op)
  BY <1>1, <1>4 DEF OnceEach, NextIds
<1>5. (s.next.main => Mains(p) = Mains(q) \cup {n}) /\ (~ s.next.main => Mains(p) = Mains(q))
  BY <1>1 DEF Mains
<1> QED BY <1>2, <1>3, <1>4, <1>5 DEF p, n

\* The head of the queue is done with.
LEMMA NextDone ==
  ASSUME NEW q \in Seq(SaveRecords), q # << >>, NEW op
  PROVE  /\ NextIds(Tail(q), op) \subseteq NextIds(q, op)
         /\ Head(q).next.op # op => NextIds(Tail(q), op) = NextIds(q, op)
         /\ OnceEach(q, op) => OnceEach(Tail(q), op)
         /\ Head(q).next.op = op => Head(q).next.id \in NextIds(q, op)
         /\ OnceEach(q, op) /\ Head(q).next.op = op
              => Head(q).next.id \notin NextIds(Tail(q), op)
         /\ Mains(Tail(q)) = { k \in DOMAIN Tail(q) : k + 1 \in Mains(q) }
         /\ \A k \in Mains(q) : k # 1 => k - 1 \in Mains(Tail(q))
         /\ 1 \in DOMAIN q /\ (1 \in Mains(q) <=> Head(q).next.main)
<1> DEFINE t == Tail(q)
<1>1. /\ Head(q) = q[1] /\ 1 \in DOMAIN q
      /\ \A k \in DOMAIN t : k \in Nat /\ k + 1 \in DOMAIN q /\ t[k] = q[k + 1]
  BY Dequeued
<1>2. \A k \in DOMAIN q : k \in Nat /\ (k = 1 \/ (k - 1 \in DOMAIN t /\ t[k - 1] = q[k]))
  <2>1. DOMAIN q = 1 .. Len(q) /\ Len(q) \in Nat \ {0}
    BY LenProperties, EmptySeq
  <2>2. DOMAIN t = 1 .. Len(q) - 1 /\ \A k \in 1 .. Len(q) - 1 : t[k] = q[k + 1]
    <3>1. t \in Seq(SaveRecords) /\ Len(t) = Len(q) - 1
          /\ \A k \in 1 .. Len(q) - 1 : t[k] = q[k + 1]
      BY <2>1, HeadTailProperties
    <3> QED BY <3>1, LenProperties
  <2>3. ASSUME NEW k \in DOMAIN q, k # 1
        PROVE  k - 1 \in DOMAIN t /\ t[k - 1] = q[k]
    <3>1. k - 1 \in 1 .. Len(q) - 1 /\ (k - 1) + 1 = k
      BY <2>1, <2>3
    <3>2. t[k - 1] = q[(k - 1) + 1]
      BY <3>1, <2>2
    <3> QED BY <3>1, <3>2, <2>2
  <2> QED BY <2>1, <2>3
<1>3. \A k \in DOMAIN t : k + 1 # 1
  <2>1. t \in Seq(SaveRecords)
    BY Dequeued
  <2> QED BY <2>1, LenProperties
<1> HIDE DEF t
<1>4. NextIds(t, op) \subseteq NextIds(q, op)
  BY <1>1 DEF NextIds
<1>5. ASSUME q[1].next.op # op PROVE NextIds(q, op) \subseteq NextIds(t, op)
  <2> SUFFICES ASSUME NEW k \in DOMAIN q, q[k].next.op = op
               PROVE  q[k].next.id \in NextIds(t, op)
    BY DEF NextIds
  <2>1. k - 1 \in DOMAIN t /\ t[k - 1] = q[k]
    BY <1>2, <1>5
  <2> QED BY <2>1 DEF NextIds
<1>6. ASSUME OnceEach(q, op) PROVE OnceEach(t, op)
  <2> SUFFICES ASSUME NEW j \in DOMAIN t, NEW k \in DOMAIN t, t[j].next.op = op,
                      t[k].next.op = op, t[j].next.id = t[k].next.id
               PROVE  j = k
    BY DEF OnceEach
  <2>1. j + 1 = k + 1
    BY <1>1, <1>6 DEF OnceEach
  <2> QED BY <1>1, <2>1
<1>7. q[1].next.op = op => q[1].next.id \in NextIds(q, op)
  BY <1>1 DEF NextIds
<1>8. ASSUME OnceEach(q, op), q[1].next.op = op
      PROVE  q[1].next.id \notin NextIds(t, op)
  <2> SUFFICES ASSUME NEW k \in DOMAIN t, t[k].next.op = op, t[k].next.id = q[1].next.id
               PROVE  FALSE
    BY DEF NextIds
  <2>1. k + 1 \in DOMAIN q /\ q[k + 1].next.op = op /\ q[k + 1].next.id = q[1].next.id
    BY <1>1
  <2>2. k + 1 = 1
    BY <1>1, <1>8, <2>1 DEF OnceEach
  <2> QED BY <1>3, <2>2
<1>9. Mains(t) = { k \in DOMAIN t : k + 1 \in Mains(q) }
  BY <1>1 DEF Mains
<1>10. \A k \in Mains(q) : k # 1 => k - 1 \in Mains(t)
  BY <1>2 DEF Mains
<1>11. 1 \in Mains(q) <=> q[1].next.main
  BY <1>1 DEF Mains
<1> QED BY <1>1, <1>4, <1>5, <1>6, <1>7, <1>8, <1>9, <1>10, <1>11 DEF t

-----------------------------------------------------------------------------
(* Whom main waits for *)

MainsOf(S) == { h \in S : h.main }
AtMostOne(S) == \A x, y \in S : x = y

\* main waits for one handler exactly while the process starts: for the creation
\* of the lobby, for the save that follows, for the oracle, for the save after it.
OneWaits ==
  /\ AtMostOne(MainsOf(calls)) /\ AtMostOne(MainsOf(watches)) /\ AtMostOne(Mains(saves))
  /\ MainsOf(calls) = {} \/ (MainsOf(watches) = {} /\ Mains(saves) = {})
  /\ MainsOf(watches) = {} \/ Mains(saves) = {}
  /\ \A c \in MainsOf(calls) : c.op = "create"
  /\ \A k \in Mains(saves) : saves[k].next.op \in {"watch", "opened"}
  /\ phase = "starting" <=> ~ (MainsOf(calls) = {} /\ MainsOf(watches) = {} /\ Mains(saves) = {})

LEMMA WaitsStarts == Init => OneWaits
<1> SUFFICES ASSUME Init PROVE OneWaits
  OBVIOUS
<1>1. Mains(saves) = {}
  BY EmptyQueue DEF Init
<1> QED BY <1>1 DEF Init, OneWaits, AtMostOne, MainsOf

\* Another handler goes on, main waits for the same as before.
LEMMA MainWaitsOn ==
  ASSUME OneWaits, MainsOf(calls') = MainsOf(calls), MainsOf(watches') = MainsOf(watches),
         phase' = phase, Mains(saves') = Mains(saves),
         \A k \in Mains(saves) : saves'[k].next = saves[k].next
  PROVE  OneWaits'
BY DEF OneWaits

LEMMA MainDies ==
  ASSUME Dies
  PROVE  OneWaits'
<1>1. Mains(saves') = {} /\ MainsOf(calls') = {} /\ MainsOf(watches') = {} /\ phase' = "down"
  BY EmptyQueue DEF Dies, MainsOf
<1> QED BY <1>1 DEF OneWaits, AtMostOne

\* A handler of another caller asks for a save.
LEMMA OtherPersists ==
  ASSUME Core, OneWaits, NEW h \in SaveHandlers, Persist(h), lobbies' \in Maps, ~ h.main,
         MainsOf(calls') = MainsOf(calls), MainsOf(watches') = MainsOf(watches), phase' = phase
  PROVE  OneWaits'
<1> DEFINE s == SaveOf(lobbies', h)
<1>1. s \in SaveRecords /\ s.next = h /\ saves' = Append(saves, s) /\ saves \in Seq(SaveRecords)
  BY DEF SaveRecords, SaveOf, Persist, Core, Typed
<1> HIDE DEF s
<1>2. Mains(saves') = Mains(saves)
  BY <1>1, NextQueued
<1>3. \A k \in DOMAIN saves : saves'[k] = saves[k]
  BY <1>1, Queued
<1>4. \A k \in Mains(saves) : saves'[k].next = saves[k].next
  BY <1>3 DEF Mains
<1> QED BY <1>2, <1>4, MainWaitsOn

\* The handler main waits for asks for a save, and main waits for that.
LEMMA MainPersists ==
  ASSUME Core, OneWaits, NEW h \in SaveHandlers, Persist(h), lobbies' \in Maps,
         h.main, h.op \in {"watch", "opened"},
         MainsOf(calls) # {} \/ MainsOf(watches) # {},
         MainsOf(calls') = {}, MainsOf(watches') = {}, phase' = phase
  PROVE  OneWaits'
<1> DEFINE s == SaveOf(lobbies', h)
           n == Len(saves) + 1
<1>1. s \in SaveRecords /\ s.next = h /\ saves' = Append(saves, s) /\ saves \in Seq(SaveRecords)
  BY DEF SaveRecords, SaveOf, Persist, Core, Typed
<1> HIDE DEF s, n
<1>2. Mains(saves) = {}
  BY DEF OneWaits
<1>3. Mains(saves') = {n}
  BY <1>1, <1>2, NextQueued DEF n
<1>4. saves'[n].next = h
  BY <1>1, Queued DEF n
<1> QED BY <1>3, <1>4 DEF OneWaits, AtMostOne

LEMMA OtherThrows ==
  ASSUME OneWaits, NEW h, Throws(h)
  PROVE  OneWaits'
<1>1. CASE h.main
  BY <1>1, MainDies DEF Throws
<1>2. CASE ~ h.main
  <2>1. calls' = calls \ {h} /\ watches' = watches \ {h} /\ UNCHANGED << phase, saves >>
    BY <1>2 DEF Throws, process
  <2>2. MainsOf(calls') = MainsOf(calls) /\ MainsOf(watches') = MainsOf(watches)
    BY <1>2, <2>1 DEF MainsOf
  <2> QED BY <2>1, <2>2, MainWaitsOn
<1> QED BY <1>1, <1>2

LEMMA BootWaits ==
  ASSUME Core, Core', Boot
  PROVE  OneWaits'
<1>1. \A c, d \in calls' : c = d /\ c.op = "create" /\ c.main
  <2>1. calls' = Created(lobbies', now', 1, TRUE) /\ now' \in Nat
    BY DEF Boot, Core, Typed
  <2> QED BY <2>1, CreatedTyped
<1>2. phase' = IF calls' = {} THEN "listening" ELSE "starting"
  BY DEF Boot
<1>3. MainsOf(watches') = {}
  BY DEF Boot, MainsOf, Handler
<1>4. Mains(saves') = {}
  <2>1. \A k \in DOMAIN saves' : saves'[k].next.main = FALSE
    <3> DEFINE loaded == [ id \in DOMAIN disk |-> Reopened(disk[id]) ]
               ready == SetToSeq({ id \in DOMAIN loaded : Ready(loaded[id]) })
    <3>1. saves' = [ k \in DOMAIN ready |->
                       SaveOf(SettlingUpTo(loaded, ready, k), Handler("settle", ready[k], FALSE)) ]
      BY DEF Boot
    <3> HIDE DEF loaded, ready
    <3> QED BY <3>1 DEF SaveOf, Handler
  <2> QED BY <2>1 DEF Mains
<1> QED BY <1>1, <1>2, <1>3, <1>4 DEF OneWaits, AtMostOne, MainsOf

LEMMA CreateReturnsWaits ==
  ASSUME Core, Core', OneWaits, NEW c \in calls, CreateReturns(c)
  PROVE  OneWaits'
<1> DEFINE h == Handler("watch", c.id, c.main)
<1>1. c.id \in Nat /\ c.main \in BOOLEAN
  BY DEF Core, Typed, Handlers
<1>2. h \in SaveHandlers /\ h.op = "watch" /\ h.main = c.main
  BY <1>1 DEF SaveHandlers, Handlers, Handler
<1>3. /\ Persist(h) /\ calls' = calls \ {c} /\ watches' = watches /\ phase' = phase
      /\ lobbies' \in Maps
  BY DEF CreateReturns, process, Core, Typed
<1> HIDE DEF h
<1>4. CASE c.main
  <2>1. c \in MainsOf(calls) /\ MainsOf(calls') = {} /\ MainsOf(watches') = {}
    BY <1>3, <1>4 DEF OneWaits, AtMostOne, MainsOf
  <2> QED BY <1>2, <1>3, <1>4, <2>1, MainPersists
<1>5. CASE ~ c.main
  <2>1. MainsOf(calls') = MainsOf(calls)
    BY <1>3, <1>5 DEF MainsOf
  <2> QED BY <1>2, <1>3, <1>5, <2>1, OtherPersists
<1> QED BY <1>4, <1>5

LEMMA RoundKnownWaits ==
  ASSUME Core, Core', OneWaits, NEW w \in watches, RoundKnown(w)
  PROVE  OneWaits'
<1> DEFINE h == Handler("opened", w.id, w.main)
<1>1. w.id \in Nat /\ w.main \in BOOLEAN
  BY DEF Core, Typed, Handlers
<1>2. h \in SaveHandlers /\ h.op = "opened" /\ h.main = w.main
  BY <1>1 DEF SaveHandlers, Handlers, Handler
<1>3. watches' = watches \ {w} /\ calls' = calls /\ lobbies' \in Maps
  BY DEF RoundKnown, Core, Typed
<1>4. w.main => w \in MainsOf(watches) /\ MainsOf(watches') = {} /\ MainsOf(calls) = {}
                /\ Mains(saves) = {}
  BY <1>3 DEF OneWaits, AtMostOne, MainsOf
<1>5. ~ w.main => MainsOf(watches') = MainsOf(watches)
  BY <1>3 DEF MainsOf
<1>6. CASE lobbies[w.id].status = "awaiting_randomness"
  <2>1. Persist(h) /\ phase' = phase
    BY <1>6 DEF RoundKnown
  <2> HIDE DEF h
  <2>2. CASE w.main
    BY <1>2, <1>3, <1>4, <2>1, <2>2, MainPersists
  <2>3. CASE ~ w.main
    BY <1>2, <1>3, <1>5, <2>1, <2>3, OtherPersists
  <2> QED BY <2>2, <2>3
<1>7. CASE lobbies[w.id].status # "awaiting_randomness"
  <2>1. saves' = saves /\ phase' = IF w.main THEN "listening" ELSE phase
    BY <1>7 DEF RoundKnown
  <2>2. CASE w.main
    BY <1>3, <1>4, <2>1, <2>2 DEF OneWaits, AtMostOne
  <2>3. CASE ~ w.main
    BY <1>3, <1>5, <2>1, <2>3, MainWaitsOn
  <2> QED BY <2>2, <2>3
<1> QED BY <1>6, <1>7

\* A call main does not wait for returns or fails, and its handler saves.
LEMMA CallEndsWaits ==
  ASSUME Core, Core', OneWaits, NEW c \in calls, c.op # "create", calls' = calls \ {c},
         NEW op \in {"settled", "done"}, Persist(Handler(op, c.id, FALSE)),
         UNCHANGED << process, watches >>
  PROVE  OneWaits'
<1> DEFINE h == Handler(op, c.id, FALSE)
<1>1. h \in SaveHandlers /\ ~ h.main
  BY DEF SaveHandlers, Handlers, Handler, Core, Typed
<1>2. MainsOf(calls') = MainsOf(calls)
  BY DEF OneWaits, MainsOf
<1>3. lobbies' \in Maps /\ phase' = phase /\ MainsOf(watches') = MainsOf(watches)
  BY DEF Core, Typed, process
<1> HIDE DEF h
<1>4. Persist(h)
  BY DEF h
<1> QED BY <1>1, <1>2, <1>3, <1>4, OtherPersists

LEMMA RoundPlayedWaits ==
  ASSUME Core, Core', OneWaits, NEW id \in DOMAIN lobbies, RoundPlayed(id)
  PROVE  OneWaits'
<1> DEFINE h == Handler("settle", id, FALSE)
<1>1. id \in Nat /\ lobbies' \in Maps
  BY MapTyped DEF Core, Typed, FiniteIds
<1>2. h \in SaveHandlers /\ ~ h.main
  BY <1>1 DEF SaveHandlers, Handlers, Handler
<1>3. Persist(h) /\ UNCHANGED << phase, calls, watches >>
  BY DEF RoundPlayed, process
<1> HIDE DEF h
<1> QED BY <1>1, <1>2, <1>3, OtherPersists

LEMMA SweepWaits ==
  ASSUME OneWaits, NEW id, Sweep(id)
  PROVE  OneWaits'
<1> DEFINE h == Handler("cancel", id, FALSE)
<1>1. calls' = calls \cup {h} /\ ~ h.main /\ UNCHANGED << phase, watches, saves >>
  BY DEF Sweep, Handler, process
<1> HIDE DEF h
<1>2. MainsOf(calls') = MainsOf(calls)
  BY <1>1 DEF MainsOf
<1> QED BY <1>1, <1>2, MainWaitsOn

LEMMA SaveDoneWaits ==
  ASSUME Core, Core', OneWaits, SaveDone
  PROVE  OneWaits'
<1> DEFINE h == Head(saves).next
           ensured == IF EmitsSettled(h.op) THEN Created(lobbies, now, idCounter + 1, FALSE) ELSE {}
<1>1. /\ saves # << >> /\ saves' = Tail(saves)
      /\ watches' = watches \cup (IF h.op = "watch" THEN {h} ELSE {})
      /\ calls' = calls \cup ensured \cup (IF h.op = "settle" THEN {h} ELSE {})
      /\ phase' = IF h.op = "opened" /\ h.main THEN "listening" ELSE phase
  BY DEF SaveDone
<1>2. \A c \in ensured : ~ c.main
  <2>1. now \in Nat /\ idCounter + 1 \in Nat
    BY DEF Core, Typed
  <2> QED BY <2>1, CreatedTyped
<1>3. saves \in Seq(SaveRecords)
  BY DEF Core, Typed
<1>4. /\ Mains(saves') = { k \in DOMAIN saves' : k + 1 \in Mains(saves) }
      /\ \A k \in Mains(saves) : k # 1 => k - 1 \in Mains(saves')
      /\ 1 \in DOMAIN saves /\ (1 \in Mains(saves) <=> h.main)
  BY <1>1, <1>3, NextDone
<1>5. h = saves[1].next
      /\ \A k \in DOMAIN saves' : k \in Nat /\ k + 1 \in DOMAIN saves /\ saves'[k] = saves[k + 1]
  BY <1>1, <1>3, Dequeued
<1>6. \A k \in DOMAIN saves' : k \in 1 .. Len(saves')
  <2>1. saves' \in Seq(SaveRecords)
    BY DEF Core, Typed
  <2> QED BY <2>1, LenProperties
<1> HIDE DEF h, ensured
<1>7. CASE h.main
  <2>1. 1 \in Mains(saves) /\ MainsOf(calls) = {} /\ MainsOf(watches) = {} /\ phase = "starting"
        /\ h.op \in {"watch", "opened"}
    BY <1>4, <1>5, <1>7 DEF OneWaits
  <2>2. Mains(saves') = {}
    <3>1. \A k \in DOMAIN saves' : k + 1 # 1
      BY <1>6
    <3> QED BY <1>4, <2>1, <3>1 DEF OneWaits, AtMostOne
  <2>3. MainsOf(calls') = {}
    BY <1>1, <1>2, <2>1 DEF MainsOf
  <2>4. CASE h.op = "watch"
    <3>1. MainsOf(watches') = {h} /\ phase' = "starting"
      BY <1>1, <1>7, <2>1, <2>4 DEF MainsOf
    <3> QED BY <2>2, <2>3, <3>1 DEF OneWaits, AtMostOne
  <2>5. CASE h.op = "opened"
    <3>1. MainsOf(watches') = {} /\ phase' = "listening"
      BY <1>1, <1>7, <2>1, <2>5 DEF MainsOf
    <3> QED BY <2>2, <2>3, <3>1 DEF OneWaits, AtMostOne
  <2> QED BY <2>1, <2>4, <2>5
<1>8. CASE ~ h.main
  <2>1. MainsOf(watches') = MainsOf(watches) /\ MainsOf(calls') = MainsOf(calls) /\ phase' = phase
    BY <1>1, <1>2, <1>8 DEF MainsOf
  <2>2. Mains(saves') = {} <=> Mains(saves) = {}
    BY <1>4, <1>8
  <2>3. AtMostOne(Mains(saves'))
    <3> SUFFICES ASSUME NEW j \in Mains(saves'), NEW k \in Mains(saves') PROVE j = k
      BY DEF AtMostOne
    <3>1. j + 1 = k + 1 /\ j \in Nat /\ k \in Nat
      BY <1>4, <1>5 DEF OneWaits, AtMostOne
    <3> QED BY <3>1
  <2>4. \A k \in Mains(saves') : saves'[k].next.op \in {"watch", "opened"}
    BY <1>4, <1>5 DEF OneWaits
  <2> QED BY <2>1, <2>2, <2>3, <2>4 DEF OneWaits
<1> QED BY <1>7, <1>8

LEMMA SaveFailsWaits ==
  ASSUME Core, Core', OneWaits, SaveFails
  PROVE  OneWaits'
<1>1. CASE Head(saves).next.main
  BY <1>1, MainDies DEF SaveFails
<1>2. CASE ~ Head(saves).next.main
  <2>1. saves # << >> /\ saves' = Tail(saves) /\ UNCHANGED << phase, calls, watches >>
    BY <1>2 DEF SaveFails, process
  <2>2. saves \in Seq(SaveRecords)
    BY DEF Core, Typed
  <2>3. /\ Mains(saves') = { k \in DOMAIN saves' : k + 1 \in Mains(saves) }
        /\ \A k \in Mains(saves) : k # 1 => k - 1 \in Mains(saves')
        /\ 1 \notin Mains(saves)
    BY <1>2, <2>1, <2>2, NextDone
  <2>4. \A k \in DOMAIN saves' : k \in Nat /\ k + 1 \in DOMAIN saves /\ saves'[k] = saves[k + 1]
    BY <2>1, <2>2, Dequeued
  <2>5. Mains(saves') = {} <=> Mains(saves) = {}
    BY <2>3
  <2>6. AtMostOne(Mains(saves'))
    <3> SUFFICES ASSUME NEW j \in Mains(saves'), NEW k \in Mains(saves') PROVE j = k
      BY DEF AtMostOne
    <3>1. j + 1 = k + 1 /\ j \in Nat /\ k \in Nat
      BY <2>3, <2>4 DEF OneWaits, AtMostOne
    <3> QED BY <3>1
  <2>7. \A k \in Mains(saves') : saves'[k].next.op \in {"watch", "opened"}
    BY <2>3, <2>4 DEF OneWaits
  <2> QED BY <2>1, <2>5, <2>6, <2>7 DEF OneWaits
<1> QED BY <1>1, <1>2

LEMMA WaitsStep == ASSUME Core, Core', OneWaits, [Next]_vars PROVE OneWaits'
<1>1. CASE UNCHANGED << phase, calls, watches, saves >>
  BY <1>1 DEF OneWaits
<1>2. CASE Boot
  BY <1>2, BootWaits
<1>3. CASE Crash
  BY <1>3, MainDies DEF Crash
<1>4. CASE \E c \in calls : CreateReturns(c)
  BY <1>4, CreateReturnsWaits
<1>5. CASE \E c \in calls :
             SettleReturns(c) \/ SettleRejected(c) \/ CancelReturns(c)
             \/ \E landed \in BOOLEAN : SettleFails(c, landed)
  <2>1. PICK c \in calls :
          SettleReturns(c) \/ SettleRejected(c) \/ CancelReturns(c)
          \/ \E landed \in BOOLEAN : SettleFails(c, landed)
    BY <1>5
  <2>2. /\ c.op # "create" /\ calls' = calls \ {c} /\ UNCHANGED << process, watches >>
        /\ \E op \in {"settled", "done"} : Persist(Handler(op, c.id, FALSE))
    BY <2>1 DEF SettleReturns, SettleRejected, CancelReturns, SettleFails, SettleThrows, Waits
  <2> QED BY <2>2, CallEndsWaits
<1>6. CASE \E c \in calls, landed \in BOOLEAN : CreateFails(c, landed) \/ CancelFails(c, landed)
  BY <1>6, OtherThrows DEF CreateFails, CancelFails
<1>7. CASE \E w \in watches : RoundKnown(w)
  BY <1>7, RoundKnownWaits
<1>8. CASE \E w \in watches : WatchTimesOut(w)
  BY <1>8, OtherThrows DEF WatchTimesOut
<1>9. CASE \E id \in DOMAIN lobbies : RoundPlayed(id)
  BY <1>9, RoundPlayedWaits
<1>10. CASE \E id \in DOMAIN lobbies : Sweep(id)
  BY <1>10, SweepWaits
<1>11. CASE SaveDone
  BY <1>11, SaveDoneWaits
<1>12. CASE SaveFails
  BY <1>12, SaveFailsWaits
<1>13. CASE DayPasses \/ UNCHANGED vars \/ \E id \in DOMAIN ledger : OracleFulfills(id)
  BY <1>1, <1>13 DEF DayPasses, OracleFulfills, vars, process
<1> QED BY <1>2, <1>3, <1>4, <1>5, <1>6, <1>7, <1>8, <1>9, <1>10, <1>11, <1>12, <1>13 DEF Next

LEMMA WaitsHolds == Spec => [](Core /\ OneWaits)
BY Starts, CoreStep, WaitsStarts, WaitsStep, PTL DEF Spec

\* Every variable holds what its type can hold, and main waits for one of the
\* handlers exactly while the process starts: it neither listens too early nor
\* waits for ever for a handler that is gone.
THEOREM TypeCorrect == Spec => []TypeOK
<1>1. Core /\ OneWaits => TypeOK
  <2> SUFFICES ASSUME Core, OneWaits PROVE TypeOK
    OBVIOUS
  <2>1. phase = "starting" <=> \E h \in calls \cup watches \cup Asking : h.main
    <3>1. Mains(saves) # {} <=> \E h \in Asking : h.main
      BY DEF Mains, Asking
    <3> QED BY <3>1 DEF OneWaits, MainsOf
  <2>2. \A k \in DOMAIN saves : saves[k] \in SaveRecords
    BY ElementOfSeq, LenProperties DEF Core, Typed
  <2>3. Asking \subseteq SaveHandlers
    BY <2>2 DEF Asking, SaveRecords
  <2>4. \A m \in Records : m \in Maps
    BY <2>2 DEF Records, SaveRecords, Core, Typed
  <2>5. \A m \in Records : DOMAIN m \subseteq Nat /\ \A id \in DOMAIN m : m[id] \in LobbyRecord
    BY <2>4, MapTyped DEF FiniteIds
  <2> QED BY <2>1, <2>3, <2>5 DEF Core, Typed, TypeOK, SaveHandlers, LedgerStatuses
<1> QED BY <1>1, WaitsHolds, PTL

-----------------------------------------------------------------------------
(* Ids *)

Creates == { c \in calls : c.op = "create" }
CreateIds == { c.id : c \in Creates }

\* An id of an earlier process, or of this one so far.
Drawn(id, ms, counter) ==
  id < ms * IDS_PER_MS \/ \E k \in 1 .. counter : id = LobbyId(ms, k)

\* Every id was drawn, and those of lobbies to be created are still unused.
Fresh ==
  /\ IsFiniteSet(DOMAIN ledger)
  /\ \A c, d \in Creates : c.id = d.id => c = d
  /\ CreateIds \cap DOMAIN ledger = {}
  /\ \A id \in DOMAIN ledger \cup CreateIds : Drawn(id, now, idCounter)

\* The ids of a millisecond lie between those of others.
LEMMA IdBetween ==
  ASSUME NEW ms \in Nat, NEW counter \in Nat
  PROVE  /\ ms * IDS_PER_MS =< LobbyId(ms, counter)
         /\ LobbyId(ms, counter) < (ms + 1) * IDS_PER_MS
<1>1. counter % IDS_PER_MS \in 0 .. IDS_PER_MS - 1 /\ IDS_PER_MS \in Nat
  BY ProcessBounds
<1>2. (ms + 1) * IDS_PER_MS = (ms * IDS_PER_MS) + IDS_PER_MS /\ ms * IDS_PER_MS \in Nat
  BY <1>1
<1> QED BY <1>1, <1>2 DEF LobbyId

\* A counter within the factor gives every lobby of a process an id of its own.
LEMMA IdsDiffer ==
  ASSUME NEW ms \in Nat, NEW j \in Nat, NEW k \in Nat, 0 < j, j < k, k =< IDS_PER_MS
  PROVE  LobbyId(ms, j) # LobbyId(ms, k)
<1>1. IDS_PER_MS \in Nat /\ 0 < IDS_PER_MS
  BY ProcessBounds
<1>2. j % IDS_PER_MS = j
  BY <1>1
<1>3. k % IDS_PER_MS = k \/ k % IDS_PER_MS = 0
  BY <1>1
<1>4. ms * IDS_PER_MS \in Nat
  BY <1>1
<1> QED BY <1>2, <1>3, <1>4 DEF LobbyId

LEMMA NewIdFresh ==
  ASSUME NEW ms \in Nat, NEW counter \in Nat, counter + 1 =< IDS_PER_MS,
         NEW id \in Nat, Drawn(id, ms, counter)
  PROVE  id # LobbyId(ms, counter + 1) /\ Drawn(id, ms, counter + 1)
<1>1. CASE id < ms * IDS_PER_MS
  <2>1. ms * IDS_PER_MS =< LobbyId(ms, counter + 1) /\ ms * IDS_PER_MS \in Nat
        /\ LobbyId(ms, counter + 1) \in Nat
    <3>1. counter + 1 \in Nat
      OBVIOUS
    <3>2. ms * IDS_PER_MS \in Nat
      BY ProcessBounds
    <3> QED BY <3>1, <3>2, IdBetween, IdIsNat
  <2> QED BY <1>1, <2>1 DEF Drawn
<1>2. CASE \E k \in 1 .. counter : id = LobbyId(ms, k)
  <2>1. PICK k \in 1 .. counter : id = LobbyId(ms, k)
    BY <1>2
  <2>2. LobbyId(ms, k) # LobbyId(ms, counter + 1)
    BY IdsDiffer
  <2>3. k \in 1 .. counter + 1
    OBVIOUS
  <2> QED BY <2>1, <2>2, <2>3 DEF Drawn
<1> QED BY <1>1, <1>2 DEF Drawn

LEMMA OldIdsBelow ==
  ASSUME NEW ms \in Nat, NEW counter \in Nat, NEW id \in Nat, Drawn(id, ms, counter)
  PROVE  id < (ms + 1) * IDS_PER_MS
<1>1. IDS_PER_MS \in Nat
  BY ProcessBounds
<1>2. CASE id < ms * IDS_PER_MS
  <2>1. (ms + 1) * IDS_PER_MS = (ms * IDS_PER_MS) + IDS_PER_MS /\ ms * IDS_PER_MS \in Nat
    BY <1>1
  <2> QED BY <1>1, <1>2, <2>1
<1>3. CASE \E k \in 1 .. counter : id = LobbyId(ms, k)
  BY <1>3, IdBetween
<1> QED BY <1>2, <1>3 DEF Drawn

\* A transaction adds at most the lobby of a creation.
LEMMA LandsAdds ==
  ASSUME Typed, NEW c \in calls, Lands(c)
  PROVE  /\ c.op = "create" => DOMAIN ledger' = DOMAIN ledger \cup {c.id}
         /\ c.op # "create" => DOMAIN ledger' = DOMAIN ledger
BY DEF Lands, Put

\* What all steps but Boot and SaveDone have in common.
OrdersKept ==
  /\ UNCHANGED << now, idCounter, boots >>
  /\ Creates' \subseteq Creates
  /\ GoesOn(ledger, ledger')
  /\ DOMAIN ledger' = DOMAIN ledger
     \/ \E c \in Creates \ Creates' : DOMAIN ledger' = DOMAIN ledger \cup {c.id}

LEMMA ThrowsKeepsOrders ==
  ASSUME Core, NEW h, Throws(h), GoesOn(ledger, ledger'),
         DOMAIN ledger' = DOMAIN ledger
         \/ (h \in Creates /\ DOMAIN ledger' = DOMAIN ledger \cup {h.id})
  PROVE  OrdersKept
<1>1. calls' = {} \/ calls' = calls \ {h}
  BY DEF Throws, Dies
<1>2. UNCHANGED << now, idCounter, boots >>
  BY DEF Throws, Dies, process
<1> QED BY <1>1, <1>2 DEF OrdersKept, Creates

LEMMA CallsKeepOrders ==
  ASSUME Core, NEW c \in calls, NEW landed \in BOOLEAN,
         \/ CreateReturns(c) \/ SettleReturns(c) \/ SettleRejected(c) \/ CancelReturns(c)
         \/ CreateFails(c, landed) \/ SettleFails(c, landed) \/ CancelFails(c, landed)
  PROVE  OrdersKept
<1>1. \/ ledger' = ledger
      \/ Lands(c)
  BY DEF CreateReturns, SettleReturns, SettleRejected, CancelReturns, CreateFails, SettleFails,
         CancelFails
<1>2. GoesOn(ledger, ledger')
  BY <1>1, LandsGoesOn, LedgerStays DEF Core
<1>3. DOMAIN ledger' = DOMAIN ledger
      \/ (c \in Creates /\ DOMAIN ledger' = DOMAIN ledger \cup {c.id})
  BY <1>1, LandsAdds DEF Core, Creates
<1>4. CASE CreateFails(c, landed) \/ CancelFails(c, landed)
  BY <1>2, <1>3, <1>4, ThrowsKeepsOrders DEF CreateFails, CancelFails
<1>5. CASE CreateReturns(c) \/ SettleReturns(c) \/ SettleRejected(c) \/ CancelReturns(c)
           \/ SettleFails(c, landed)
  <2>1. calls' = calls \ {c} /\ UNCHANGED << now, idCounter, boots >>
    BY <1>5 DEF CreateReturns, SettleReturns, SettleRejected, CancelReturns, SettleFails,
                SettleThrows, process
  <2> QED BY <1>2, <1>3, <2>1 DEF OrdersKept, Creates
<1> QED BY <1>4, <1>5

LEMMA OrdersStay ==
  ASSUME Core, [Next]_vars, ~ Boot, ~ SaveDone
  PROVE  OrdersKept
<1>1. CASE UNCHANGED << now, idCounter, boots, calls >> /\ GoesOn(ledger, ledger')
           /\ DOMAIN ledger' = DOMAIN ledger
  BY <1>1 DEF OrdersKept, Creates
<1>2. CASE Crash
  <2>1. calls' = {} /\ UNCHANGED << now, idCounter, boots >>
    BY <1>2 DEF Crash, Dies
  <2>2. CASE ledger' = ledger
    BY <2>1, <2>2, LedgerStays DEF OrdersKept, Creates, Core
  <2>3. CASE \E c \in calls : Lands(c)
    <3>1. PICK c \in calls : Lands(c)
      BY <2>3
    <3>2. GoesOn(ledger, ledger')
      BY <3>1, LandsGoesOn DEF Core
    <3>3. DOMAIN ledger' = DOMAIN ledger
          \/ (c \in Creates /\ DOMAIN ledger' = DOMAIN ledger \cup {c.id})
      BY <3>1, LandsAdds DEF Core, Creates
    <3> QED BY <2>1, <3>2, <3>3 DEF OrdersKept, Creates
  <2> QED BY <1>2, <2>2, <2>3 DEF Crash
<1>3. CASE \E c \in calls :
             CreateReturns(c) \/ SettleReturns(c) \/ SettleRejected(c) \/ CancelReturns(c)
  BY <1>3, CallsKeepOrders
<1>4. CASE \E c \in calls, landed \in BOOLEAN :
             CreateFails(c, landed) \/ SettleFails(c, landed) \/ CancelFails(c, landed)
  BY <1>4, CallsKeepOrders
<1>5. CASE \E id \in DOMAIN ledger : OracleFulfills(id)
  <2>1. PICK id : OracleFulfills(id)
    BY <1>5
  <2>2. id \in DOMAIN ledger /\ ledger[id] = "AwaitingRandomness"
    BY <2>1 DEF OracleFulfills, OnLedger
  <2>3. GoesOn(ledger, ledger') /\ DOMAIN ledger' = DOMAIN ledger
    BY <2>1, <2>2, LedgerMoves DEF OracleFulfills, Core, LedgerStatuses
  <2> QED BY <1>1, <2>1, <2>3 DEF OracleFulfills, process
<1>6. CASE \E w \in watches : RoundKnown(w)
  BY <1>1, <1>6, LedgerStays DEF RoundKnown, Core
<1>7. CASE \E w \in watches : WatchTimesOut(w)
  BY <1>7, LedgerStays, ThrowsKeepsOrders DEF WatchTimesOut, Core
<1>8. CASE \E id \in DOMAIN lobbies : RoundPlayed(id)
  BY <1>1, <1>8, LedgerStays DEF RoundPlayed, Core, process
<1>9. CASE \E id \in DOMAIN lobbies : Sweep(id)
  <2>1. PICK id : Sweep(id)
    BY <1>9
  <2>2. Creates' = Creates /\ UNCHANGED << now, idCounter, boots, ledger >>
    BY <2>1 DEF Sweep, Handler, Creates, process
  <2> QED BY <2>2, LedgerStays DEF OrdersKept, Core
<1>10. CASE SaveFails
  <2>1. calls' \subseteq calls /\ UNCHANGED << now, idCounter, boots, ledger >>
    BY <1>10 DEF SaveFails, Dies, process
  <2> QED BY <2>1, LedgerStays DEF OrdersKept, Creates, Core
<1>11. CASE DayPasses \/ UNCHANGED vars
  BY <1>1, <1>11, LedgerStays DEF DayPasses, vars, process, Core
<1> QED BY <1>2, <1>3, <1>4, <1>5, <1>6, <1>7, <1>8, <1>9, <1>10, <1>11 DEF Next

LEMMA FreshKept ==
  ASSUME Fresh, OrdersKept
  PROVE  Fresh'
<1>1. /\ DOMAIN ledger' \subseteq DOMAIN ledger \cup CreateIds
      /\ CreateIds' \subseteq CreateIds
      /\ CreateIds' \cap DOMAIN ledger' = {}
  <2>1. CreateIds' \subseteq CreateIds
    BY DEF OrdersKept, CreateIds
  <2>2. CASE DOMAIN ledger' = DOMAIN ledger
    BY <2>1, <2>2 DEF Fresh
  <2>3. CASE \E c \in Creates \ Creates' : DOMAIN ledger' = DOMAIN ledger \cup {c.id}
    <3>1. PICK c \in Creates \ Creates' : DOMAIN ledger' = DOMAIN ledger \cup {c.id}
      BY <2>3
    <3>2. c.id \notin CreateIds'
      BY DEF Fresh, OrdersKept, CreateIds
    <3>3. c.id \in CreateIds
      BY DEF CreateIds
    <3> QED BY <2>1, <3>1, <3>2, <3>3 DEF Fresh
  <2> QED BY <2>2, <2>3 DEF OrdersKept
<1>2. IsFiniteSet(DOMAIN ledger')
  <2>1. CASE DOMAIN ledger' = DOMAIN ledger
    BY <2>1 DEF Fresh
  <2>2. ASSUME NEW c \in Creates, DOMAIN ledger' = DOMAIN ledger \cup {c.id}
        PROVE  IsFiniteSet(DOMAIN ledger')
    BY <2>2, FS_AddElement DEF Fresh
  <2> QED BY <2>1, <2>2 DEF OrdersKept
<1>3. \A c, d \in Creates' : c.id = d.id => c = d
  BY DEF Fresh, OrdersKept
<1>4. \A id \in DOMAIN ledger' \cup CreateIds' : Drawn(id, now', idCounter')
  BY <1>1 DEF Fresh, OrdersKept
<1> QED BY <1>1, <1>2, <1>3, <1>4 DEF Fresh

-----------------------------------------------------------------------------
(* Settlements *)

CompleteIn(m) == { id \in DOMAIN m : m[id].complete }

\* Lobbies that are complete and not yet settled.
Due(m) == CompleteIn(m) \ In(m, "settled")

\* Settled lobbies whose settlement is still to be announced.
Announced == NextIds(saves, "settled")

\* Every lobby has one settlement at a time, by one caller of a save or one call.
Jobs ==
  /\ OnceEach(saves, "settle") /\ OnceEach(saves, "settled")
  /\ \A c \in calls : c.op = "settle" => c.id \in Due(lobbies) \ NextIds(saves, "settle")
  /\ NextIds(saves, "settle") \subseteq Due(lobbies)
  /\ Announced \subseteq In(lobbies, "settled")

\* What was settled was complete, and rounds are only played to the bound.
Few(m) ==
  /\ In(m, "settled") \subseteq CompleteIn(m)
  /\ CompleteIn(m) = {} \/ Cardinality(CompleteIn(m)) < MaxLobbies

AllFew == Few(lobbies) /\ Few(disk) /\ \A k \in DOMAIN saves : Few(saves[k].record)

\* Only an announced settlement has a process draw another id.
Counted ==
  phase # "down" => idCounter - 1 =< Cardinality(In(lobbies, "settled") \ Announced)

Tally == Jobs /\ AllFew /\ Counted

\* A step leaves Tally true and announces nothing but what was live.
LiveIds == OnLedger({"AwaitingRandomness", "Open"})
TallyKept == Tally' /\ Announced' \subseteq Announced \cup LiveIds

LEMMA NoneFew == Few(NoLobbies)
<1>1. DOMAIN NoLobbies = {}
  BY NoLobbiesTyped
<1> QED BY <1>1 DEF Few, In, CompleteIn

LEMMA TallyStarts == Init => Tally /\ Fresh
<1> SUFFICES ASSUME Init PROVE Tally /\ Fresh
  OBVIOUS
<1>1. DOMAIN saves = {} /\ Announced = {} /\ NextIds(saves, "settle") = {}
      /\ OnceEach(saves, "settle") /\ OnceEach(saves, "settled")
  BY EmptyQueue, EmptySeq DEF Init, Announced
<1>2. Tally
  BY <1>1, NoneFew DEF Init, Tally, Jobs, AllFew, Counted
<1>3. DOMAIN ledger = {}
  BY NoLobbiesTyped DEF Init
<1>4. Fresh
  BY <1>3, FS_EmptySet DEF Init, Fresh, CreateIds, Creates
<1> QED BY <1>2, <1>4

LEMMA TallyDies ==
  ASSUME Tally, Dies, UNCHANGED disk
  PROVE  TallyKept
<1>1. DOMAIN saves' = {} /\ Announced' = {} /\ NextIds(saves', "settle") = {}
      /\ OnceEach(saves', "settle") /\ OnceEach(saves', "settled")
  BY EmptyQueue, EmptySeq DEF Dies, Announced
<1>2. lobbies' = NoLobbies /\ calls' = {} /\ phase' = "down"
  BY DEF Dies
<1> QED BY <1>1, <1>2, NoneFew DEF TallyKept, Tally, Jobs, AllFew, Counted

\* Neither lobbies nor saves change, and no call settles that did not before.
LEMMA TallyRests ==
  ASSUME Tally, UNCHANGED << lobbies, disk, saves, idCounter >>,
         \A c \in calls' : c.op = "settle" => c \in calls,
         phase' # "down" => phase # "down"
  PROVE  TallyKept
BY DEF TallyKept, Tally, Jobs, AllFew, Counted, Announced

LEMMA TallyThrows ==
  ASSUME Tally, NEW h, Throws(h), UNCHANGED disk
  PROVE  TallyKept
<1>1. CASE h.main
  BY <1>1, TallyDies DEF Throws
<1>2. CASE ~ h.main
  <2>1. calls' = calls \ {h} /\ UNCHANGED << lobbies, disk, saves, idCounter, phase >>
    BY <1>2 DEF Throws, process
  <2> QED BY <2>1, TallyRests
<1> QED BY <1>1, <1>2

\* What a new save adds to the queue.
LEMMA Persisted ==
  ASSUME Core, NEW h \in SaveHandlers, Persist(h), lobbies' \in Maps
  PROVE  /\ \A op : h.op = op => NextIds(saves', op) = NextIds(saves, op) \cup {h.id}
         /\ \A op : h.op # op => NextIds(saves', op) = NextIds(saves, op)
         /\ \A op : OnceEach(saves, op) /\ (h.op = op => h.id \notin NextIds(saves, op))
                      => OnceEach(saves', op)
         /\ AllFew /\ Few(lobbies') /\ UNCHANGED disk => AllFew'
<1> DEFINE s == SaveOf(lobbies', h)
<1>1. s \in SaveRecords /\ s.next = h /\ s.record = lobbies'
      /\ saves' = Append(saves, s) /\ saves \in Seq(SaveRecords)
  BY DEF SaveRecords, SaveOf, Persist, Core, Typed
<1> HIDE DEF s
<1>2. /\ \A op : h.op = op => NextIds(saves', op) = NextIds(saves, op) \cup {h.id}
      /\ \A op : h.op # op => NextIds(saves', op) = NextIds(saves, op)
      /\ \A op : OnceEach(saves, op) /\ (h.op = op => h.id \notin NextIds(saves, op))
                   => OnceEach(saves', op)
  BY <1>1, NextQueued
<1>3. /\ DOMAIN saves' = DOMAIN saves \cup { Len(saves) + 1 }
      /\ saves'[Len(saves) + 1] = s
      /\ \A k \in DOMAIN saves : saves'[k] = saves[k]
  BY <1>1, Queued
<1>4. AllFew /\ Few(lobbies') /\ UNCHANGED disk => AllFew'
  BY <1>1, <1>3 DEF AllFew
<1> QED BY <1>2, <1>4

\* A handler saves a change that completes and settles no lobby.
LEMMA TallyPersists ==
  ASSUME Core, Tally, NEW h \in SaveHandlers, h.op \notin {"settle", "settled"}, Persist(h),
         lobbies' \in Maps, UNCHANGED << disk, idCounter >>,
         CompleteIn(lobbies') = CompleteIn(lobbies),
         In(lobbies', "settled") = In(lobbies, "settled"),
         calls' \subseteq calls, phase # "down"
  PROVE  TallyKept
<1>1. /\ NextIds(saves', "settle") = NextIds(saves, "settle") /\ Announced' = Announced
      /\ OnceEach(saves', "settle") /\ OnceEach(saves', "settled")
  BY Persisted DEF Tally, Jobs, Announced
<1>2. Due(lobbies') = Due(lobbies)
  BY DEF Due
<1>3. Jobs'
  BY <1>1, <1>2 DEF Tally, Jobs
<1>4. AllFew'
  <2>1. Few(lobbies')
    BY DEF Tally, AllFew, Few
  <2> QED BY <2>1, Persisted DEF Tally
<1>5. Counted'
  BY <1>1 DEF Tally, Counted
<1> QED BY <1>1, <1>3, <1>4, <1>5 DEF TallyKept, Tally

\* A lobby that is not settled gets another status than that.
LEMMA MarkedCounts ==
  ASSUME NEW m \in Maps, NEW id, NEW s \in Statuses, s # "settled",
         NEW m2, m2 = [ m EXCEPT ![id].status = s ],
         id \in DOMAIN m => m[id].status # "settled"
  PROVE  CompleteIn(m2) = CompleteIn(m) /\ In(m2, "settled") = In(m, "settled")
<1>1. m \in [ DOMAIN m -> LobbyRecord ]
  BY MapTyped
<1>2. DOMAIN m2 = DOMAIN m
  OBVIOUS
<1>3. ASSUME NEW i \in DOMAIN m
      PROVE  /\ m2[i].complete = m[i].complete
             /\ m2[i].status = "settled" <=> m[i].status = "settled"
  <2>1. m[i] \in LobbyRecord
    BY <1>1
  <2>2. CASE i = id
    <3>1. m2[i] = [ m[i] EXCEPT !.status = s ]
      BY <2>2
    <3>2. m2[i].complete = m[i].complete /\ m2[i].status = s
      BY <2>1, <3>1 DEF LobbyRecord
    <3> QED BY <2>2, <3>2
  <2>3. CASE i # id
    <3>1. m2[i] = m[i]
      BY <2>3
    <3> QED BY <3>1
  <2> QED BY <2>2, <2>3
<1> QED BY <1>2, <1>3 DEF CompleteIn, In

LEMMA SettledCounts ==
  ASSUME NEW m \in Maps, NEW id \in DOMAIN m, NEW m2, m2 = [ m EXCEPT ![id].status = "settled" ]
  PROVE  CompleteIn(m2) = CompleteIn(m) /\ In(m2, "settled") = In(m, "settled") \cup {id}
<1>1. m \in [ DOMAIN m -> LobbyRecord ]
  BY MapTyped
<1>2. DOMAIN m2 = DOMAIN m
  OBVIOUS
<1>3. m2[id] = [ m[id] EXCEPT !.status = "settled" ] /\ m[id] \in LobbyRecord
  BY <1>1
<1>4. m2[id].complete = m[id].complete /\ m2[id].status = "settled"
  BY <1>3 DEF LobbyRecord
<1>5. \A i \in DOMAIN m \ {id} : m2[i] = m[i]
  OBVIOUS
<1> QED BY <1>2, <1>4, <1>5 DEF CompleteIn, In

LEMMA CompletedCounts ==
  ASSUME NEW m \in Maps, NEW id \in DOMAIN m, m[id].status # "settled",
         NEW m2, m2 = [ m EXCEPT ![id] = [ status |-> "settling", complete |-> TRUE ] ]
  PROVE  CompleteIn(m2) = CompleteIn(m) \cup {id} /\ In(m2, "settled") = In(m, "settled")
<1>1. m \in [ DOMAIN m -> LobbyRecord ]
  BY MapTyped
<1>2. DOMAIN m2 = DOMAIN m
  OBVIOUS
<1>3. m2[id].complete = TRUE /\ m2[id].status = "settling"
  OBVIOUS
<1>4. \A i \in DOMAIN m \ {id} : m2[i] = m[i]
  OBVIOUS
<1> QED BY <1>2, <1>3, <1>4 DEF CompleteIn, In

LEMMA CreateReturnsTally ==
  ASSUME Core, Core', Tally, NEW c \in calls, CreateReturns(c)
  PROVE  TallyKept
<1> DEFINE h == Handler("watch", c.id, c.main)
           r == [ status |-> "awaiting_randomness", complete |-> FALSE ]
<1>1. c.id \in Nat /\ c.id \notin DOMAIN ledger /\ lobbies' = Put(lobbies, c.id, r)
  BY DEF CreateReturns, Waits, Lands, Core, Typed, Handlers
<1>2. h \in SaveHandlers /\ h.op = "watch"
  BY DEF SaveHandlers, Handlers, Handler, Core, Typed
<1>3. c.id \notin DOMAIN lobbies
  BY <1>1 DEF Core, AllAgree, Agrees
<1>4. r.complete = FALSE /\ r.status = "awaiting_randomness" /\ r \in LobbyRecord
  BY DEF LobbyRecord
<1>5. Persist(h) /\ lobbies' \in Maps /\ UNCHANGED << disk, idCounter >> /\ calls' \subseteq calls
      /\ phase # "down"
  BY Awake DEF CreateReturns, Core, Typed, process
<1> HIDE DEF h, r
<1>6. DOMAIN lobbies' = DOMAIN lobbies \cup {c.id} /\ lobbies'[c.id] = r
      /\ \A i \in DOMAIN lobbies : lobbies'[i] = lobbies[i]
  BY <1>1, <1>3 DEF Put
<1>7. CompleteIn(lobbies') = CompleteIn(lobbies) /\ In(lobbies', "settled") = In(lobbies, "settled")
  BY <1>3, <1>4, <1>6 DEF CompleteIn, In
<1> QED BY <1>2, <1>5, <1>7, TallyPersists

\* The status of an unfinished lobby changes, to anything but settled.
LEMMA MarkTally ==
  ASSUME Core, Core', Tally, NEW id \in Nat, NEW s \in Statuses, s # "settled",
         lobbies' = [ lobbies EXCEPT ![id].status = s ],
         id \in DOMAIN lobbies => lobbies[id].status # "settled",
         NEW op \in {"opened", "done"}, NEW main \in BOOLEAN, Persist(Handler(op, id, main)),
         UNCHANGED << disk, idCounter >>, calls' \subseteq calls, phase # "down"
  PROVE  TallyKept
<1> DEFINE h == Handler(op, id, main)
<1>1. h \in SaveHandlers /\ h.op \notin {"settle", "settled"}
  BY DEF SaveHandlers, Handlers, Handler
<1>2. lobbies \in Maps /\ lobbies' \in Maps
  BY DEF Core, Typed
<1>3. CompleteIn(lobbies') = CompleteIn(lobbies) /\ In(lobbies', "settled") = In(lobbies, "settled")
  BY <1>2, MarkedCounts
<1> HIDE DEF h
<1>4. Persist(h)
  BY DEF h
<1> QED BY <1>1, <1>2, <1>3, <1>4, TallyPersists

LEMMA RoundKnownTally ==
  ASSUME Core, Core', Tally, NEW w \in watches, RoundKnown(w)
  PROVE  TallyKept
<1>1. w.id \in Nat /\ w.main \in BOOLEAN /\ phase # "down"
  BY Awake DEF Core, Typed, Handlers
<1>2. CASE lobbies[w.id].status = "awaiting_randomness"
  <2>1. /\ lobbies' = [ lobbies EXCEPT ![w.id].status = "open" ]
        /\ Persist(Handler("opened", w.id, w.main))
        /\ UNCHANGED << disk, idCounter >> /\ calls' \subseteq calls
    BY <1>2 DEF RoundKnown
  <2> QED BY <1>1, <1>2, <2>1, MarkTally DEF Statuses
<1>3. CASE lobbies[w.id].status # "awaiting_randomness"
  BY <1>1, <1>3, TallyRests DEF RoundKnown
<1> QED BY <1>2, <1>3

LEMMA SettleThrowsTally ==
  ASSUME Core, Core', Tally, NEW c \in calls, c.op = "settle", SettleThrows(c)
  PROVE  TallyKept
<1>1. c.id \in Nat /\ phase # "down"
  BY Awake DEF Core, Typed, Handlers
<1>2. c.id \in DOMAIN lobbies => lobbies[c.id].status # "settled"
  BY DEF Tally, Jobs, Due, In
<1>3. /\ lobbies' = [ lobbies EXCEPT ![c.id].status = "open" ]
      /\ Persist(Handler("done", c.id, FALSE))
      /\ UNCHANGED << disk, idCounter >> /\ calls' \subseteq calls
  BY DEF SettleThrows, process
<1> QED BY <1>1, <1>2, <1>3, MarkTally DEF Statuses

LEMMA CancelReturnsTally ==
  ASSUME Core, Core', Tally, NEW c \in calls, CancelReturns(c)
  PROVE  TallyKept
<1>1. c.id \in Nat /\ phase # "down"
  BY Awake DEF Core, Typed, Handlers
<1>2. c.id \in DOMAIN lobbies => lobbies[c.id].status # "settled"
  BY DEF CancelReturns, Waits, Lands, Live, Core, AllAgree, Agrees
<1>3. /\ lobbies' = [ lobbies EXCEPT ![c.id].status = "cancelled" ]
      /\ Persist(Handler("done", c.id, FALSE))
      /\ UNCHANGED << disk, idCounter >> /\ calls' \subseteq calls
  BY DEF CancelReturns, process
<1> QED BY <1>1, <1>2, <1>3, MarkTally DEF Statuses

\* A lobby becomes complete: there are fewer of those than lobbies, and it gets
\* its one settlement.
LEMMA RoundPlayedTally ==
  ASSUME Core, Core', Fresh, Tally, NEW id \in DOMAIN lobbies, RoundPlayed(id)
  PROVE  TallyKept
<1> DEFINE h == Handler("settle", id, FALSE)
<1>1. id \in Nat /\ lobbies \in Maps /\ lobbies' \in Maps
  BY MapTyped DEF Core, Typed, FiniteIds
<1>2. h \in SaveHandlers /\ h.op = "settle" /\ h.id = id
  BY <1>1 DEF SaveHandlers, Handlers, Handler
<1>3. /\ Persist(h) /\ UNCHANGED << calls, disk, idCounter, phase, ledger >>
      /\ lobbies[id].status = "open" /\ ~ lobbies[id].complete
      /\ Cardinality(DOMAIN ledger) < MaxLobbies
      /\ lobbies' = [ lobbies EXCEPT ![id] = [ status |-> "settling", complete |-> TRUE ] ]
  BY DEF RoundPlayed, process, In
<1> HIDE DEF h
<1>4. CompleteIn(lobbies') = CompleteIn(lobbies) \cup {id} /\ In(lobbies', "settled") = In(lobbies, "settled")
  BY <1>1, <1>3, CompletedCounts
<1>5. id \notin CompleteIn(lobbies) /\ id \notin In(lobbies, "settled")
  BY <1>3 DEF CompleteIn, In
<1>6. Due(lobbies') = Due(lobbies) \cup {id} /\ id \notin Due(lobbies)
  BY <1>4, <1>5 DEF Due
<1>7. id \notin NextIds(saves, "settle")
  BY <1>6 DEF Tally, Jobs
<1>8. /\ NextIds(saves', "settle") = NextIds(saves, "settle") \cup {id} /\ Announced' = Announced
      /\ OnceEach(saves', "settle") /\ OnceEach(saves', "settled")
  BY <1>1, <1>2, <1>3, <1>7, Persisted DEF Tally, Jobs, Announced
<1>9. Jobs'
  <2>1. \A c \in calls' : c.op = "settle" => c.id \in Due(lobbies') \ NextIds(saves', "settle")
    BY <1>3, <1>6, <1>8 DEF Tally, Jobs
  <2> QED BY <1>4, <1>6, <1>8, <2>1 DEF Tally, Jobs
<1>10. AllFew'
  <2>1. CompleteIn(lobbies') \subseteq DOMAIN ledger
    BY <1>3, <1>4 DEF CompleteIn, Core, AllAgree, Agrees
  <2>2. Cardinality(CompleteIn(lobbies')) =< Cardinality(DOMAIN ledger)
        /\ Cardinality(CompleteIn(lobbies')) \in Nat /\ Cardinality(DOMAIN ledger) \in Nat
    BY <2>1, FS_Subset, FS_CardinalityType DEF Fresh
  <2>3. Few(lobbies')
    <3>1. In(lobbies', "settled") \subseteq CompleteIn(lobbies')
      BY <1>4 DEF Few, Tally, AllFew
    <3>2. Cardinality(CompleteIn(lobbies')) < MaxLobbies
      <4>1. MaxLobbies \in Nat
        BY ProcessBounds
      <4> QED BY <1>3, <2>2, <4>1
    <3> QED BY <3>1, <3>2 DEF Few
  <2> QED BY <1>1, <1>2, <1>3, <2>3, Persisted DEF Tally
<1>11. Counted'
  BY <1>3, <1>4, <1>8 DEF Tally, Counted
<1> QED BY <1>8, <1>9, <1>10, <1>11 DEF TallyKept, Tally

\* A lobby is settled once: by the one call there is for it.
LEMMA SettleReturnsTally ==
  ASSUME Core, Core', OneWaits, Tally, NEW c \in calls, SettleReturns(c)
  PROVE  TallyKept
<1> DEFINE h == Handler("settled", c.id, FALSE)
<1>1. c.op = "settle" /\ ledger[c.id] = "Open" /\ c.id \in Due(lobbies) \ NextIds(saves, "settle")
  BY DEF SettleReturns, Waits, Lands, Tally, Jobs
<1>2. h \in SaveHandlers /\ h.op = "settled" /\ h.id = c.id
  BY DEF SaveHandlers, Handlers, Handler, Core, Typed
<1>3. /\ Persist(h) /\ UNCHANGED << disk, idCounter, phase >> /\ calls' = calls \ {c}
      /\ lobbies' = [ lobbies EXCEPT ![c.id].status = "settled" ]
      /\ lobbies \in Maps /\ lobbies' \in Maps
  BY DEF SettleReturns, process, Core, Typed
<1> HIDE DEF h
<1>4. PICK id \in DOMAIN lobbies : id = c.id
  BY <1>1 DEF Due, CompleteIn
<1>5. CompleteIn(lobbies') = CompleteIn(lobbies)
      /\ In(lobbies', "settled") = In(lobbies, "settled") \cup {id}
  BY <1>3, <1>4, SettledCounts
<1>6. Due(lobbies') = Due(lobbies) \ {id} /\ id \notin In(lobbies, "settled") /\ id \in CompleteIn(lobbies)
  BY <1>1, <1>4, <1>5 DEF Due
<1>7. id \notin Announced
  BY <1>6 DEF Tally, Jobs
<1>8. /\ NextIds(saves', "settle") = NextIds(saves, "settle")
      /\ Announced' = Announced \cup {id}
      /\ OnceEach(saves', "settle") /\ OnceEach(saves', "settled")
  BY <1>2, <1>3, <1>4, <1>7, Persisted DEF Tally, Jobs, Announced
<1>9. \A d \in calls' : d.op = "settle" => d.id # id
  <2> SUFFICES ASSUME NEW d \in calls', d.op = "settle", d.id = c.id PROVE FALSE
    BY <1>4
  <2>1. d \in calls /\ d # c
    BY <1>3
  <2>2. ~ c.main /\ ~ d.main
    BY <1>1, <2>1 DEF OneWaits, MainsOf
  <2>3. c \in Handlers({"create", "settle", "cancel"}) /\ d \in Handlers({"create", "settle", "cancel"})
    BY <2>1 DEF Core, Typed
  <2> QED BY <1>1, <2>1, <2>2, <2>3 DEF Handlers
<1>10. Jobs'
  <2>1. \A d \in calls' : d.op = "settle" => d.id \in Due(lobbies') \ NextIds(saves', "settle")
    BY <1>3, <1>6, <1>8, <1>9 DEF Tally, Jobs
  <2>2. NextIds(saves', "settle") \subseteq Due(lobbies')
    BY <1>1, <1>4, <1>6, <1>8 DEF Tally, Jobs
  <2>3. Announced' \subseteq In(lobbies', "settled")
    BY <1>5, <1>8 DEF Tally, Jobs
  <2> QED BY <1>8, <2>1, <2>2, <2>3 DEF Jobs
<1>11. AllFew'
  <2>1. Few(lobbies')
    BY <1>5, <1>6 DEF Tally, AllFew, Few
  <2> QED BY <1>2, <1>3, <2>1, Persisted DEF Tally
<1>12. Counted'
  <2>1. In(lobbies', "settled") \ Announced' = In(lobbies, "settled") \ Announced
    BY <1>5, <1>6, <1>8
  <2> QED BY <1>3, <2>1 DEF Tally, Counted
<1>13. id \in LiveIds
  <2>1. id \in DOMAIN ledger
    BY DEF Core, AllAgree, Agrees
  <2> QED BY <1>1, <1>4, <2>1 DEF LiveIds, OnLedger
<1> QED BY <1>8, <1>10, <1>11, <1>12, <1>13 DEF TallyKept, Tally

LEMMA FewSettled ==
  ASSUME Fresh, Core, Tally
  PROVE  /\ IsFiniteSet(In(lobbies, "settled")) /\ Cardinality(In(lobbies, "settled")) \in Nat
         /\ In(lobbies, "settled") # {} => Cardinality(In(lobbies, "settled")) < MaxLobbies
<1>1. In(lobbies, "settled") \subseteq CompleteIn(lobbies)
      /\ CompleteIn(lobbies) \subseteq DOMAIN ledger
  BY DEF Tally, AllFew, Few, CompleteIn, Core, AllAgree, Agrees
<1>2. IsFiniteSet(CompleteIn(lobbies))
  BY <1>1, FS_Subset DEF Fresh
<1>3. /\ IsFiniteSet(In(lobbies, "settled")) /\ Cardinality(In(lobbies, "settled")) \in Nat
      /\ Cardinality(In(lobbies, "settled")) =< Cardinality(CompleteIn(lobbies))
      /\ Cardinality(CompleteIn(lobbies)) \in Nat
  BY <1>1, <1>2, FS_Subset, FS_CardinalityType
<1>4. In(lobbies, "settled") # {} => Cardinality(CompleteIn(lobbies)) < MaxLobbies
  BY <1>1 DEF Tally, AllFew, Few
<1>5. MaxLobbies \in Nat
  BY ProcessBounds
<1> QED BY <1>3, <1>4, <1>5

\* The queue moves on: its jobs are those behind the head.
LEMMA Unqueued ==
  ASSUME Core, Tally, saves # << >>, saves' = Tail(saves)
  PROVE  LET h == Head(saves).next IN
         /\ OnceEach(saves', "settle") /\ OnceEach(saves', "settled")
         /\ NextIds(saves', "settle") \subseteq NextIds(saves, "settle")
         /\ Announced' \subseteq Announced
         /\ h.op # "settle" => NextIds(saves', "settle") = NextIds(saves, "settle")
         /\ h.op # "settled" => Announced' = Announced
         /\ h.op = "settle" => h.id \in NextIds(saves, "settle") \ NextIds(saves', "settle")
         /\ h.op = "settled" => h.id \in Announced \ Announced'
         /\ Few(Head(saves).record) /\ \A k \in DOMAIN saves' : Few(saves'[k].record)
<1>1. saves \in Seq(SaveRecords)
  BY DEF Core, Typed
<1>2. OnceEach(saves, "settle") /\ OnceEach(saves, "settled")
  BY DEF Tally, Jobs
<1>3. Few(Head(saves).record) /\ \A k \in DOMAIN saves' : Few(saves'[k].record)
  BY <1>1, Dequeued DEF Tally, AllFew
<1> QED BY <1>1, <1>2, <1>3, NextDone DEF Announced

LEMMA SaveFailsTally ==
  ASSUME Core, Core', Fresh, Tally, SaveFails
  PROVE  TallyKept
<1>1. CASE Head(saves).next.main
  BY <1>1, TallyDies DEF SaveFails
<1>2. CASE ~ Head(saves).next.main
  <2>1. saves # << >> /\ saves' = Tail(saves)
        /\ UNCHANGED << phase, lobbies, calls, disk, idCounter >>
    BY <1>2 DEF SaveFails, process
  <2>2. Jobs'
    BY <2>1, Unqueued DEF Tally, Jobs
  <2>3. AllFew'
    BY <2>1, Unqueued DEF Tally, AllFew
  <2>4. Counted'
    <3> DEFINE S == In(lobbies, "settled") \ Announced
               T == In(lobbies, "settled") \ Announced'
    <3>1. S \subseteq T /\ T \subseteq In(lobbies, "settled")
      BY <2>1, Unqueued
    <3>2. IsFiniteSet(T)
      BY <3>1, FewSettled, FS_Subset
    <3>3. Cardinality(S) =< Cardinality(T) /\ Cardinality(S) \in Nat /\ Cardinality(T) \in Nat
      BY <3>1, <3>2, FS_Subset, FS_CardinalityType
    <3>4. T = In(lobbies', "settled") \ Announced' /\ phase' = phase /\ idCounter' = idCounter
      BY <2>1
    <3>5. phase # "down" => idCounter - 1 =< Cardinality(S)
      BY DEF Tally, Counted
    <3>6. idCounter \in Nat
      BY DEF Core, Typed
    <3> HIDE DEF S, T
    <3>7. phase # "down" => idCounter - 1 =< Cardinality(T)
      BY <3>3, <3>5, <3>6
    <3> QED BY <3>4, <3>7 DEF Counted
  <2>5. Announced' \subseteq Announced
    BY <2>1, Unqueued
  <2> QED BY <2>2, <2>3, <2>4, <2>5 DEF TallyKept, Tally
<1> QED BY <1>1, <1>2

\* ensureOpenLobby draws at most one id, the one of the next counter.
LEMMA OneCreated ==
  ASSUME NEW m, NEW ms \in Nat, NEW counter \in Nat, NEW main \in BOOLEAN
  PROVE  LET C == Created(m, ms, counter, main) IN
         /\ C \subseteq { Handler("create", LobbyId(ms, counter), main) }
         /\ IsFiniteSet(C) /\ Cardinality(C) \in {0, 1}
         /\ C # {} => Cardinality(C) = 1
<1> DEFINE h == Handler("create", LobbyId(ms, counter), main)
<1>1. Created(m, ms, counter, main) \in { {h}, {} }
  BY DEF Created
<1> HIDE DEF h
<1>2. IsFiniteSet({h}) /\ Cardinality({h}) = 1 /\ IsFiniteSet({}) /\ Cardinality({}) = 0
  BY FS_Singleton, FS_EmptySet
<1>3. {h} # {}
  OBVIOUS
<1> QED BY <1>1, <1>2, <1>3 DEF h

\* What SaveDone makes of the handler of the head.
LEMMA SaveDoneParts ==
  ASSUME Core, SaveDone
  PROVE  \E h, ensured :
         /\ h = Head(saves).next /\ h \in SaveHandlers
         /\ saves # << >> /\ saves' = Tail(saves) /\ disk' = Head(saves).record
         /\ calls' = calls \cup ensured \cup (IF h.op = "settle" THEN {h} ELSE {})
         /\ idCounter' = idCounter + Cardinality(ensured)
         /\ IsFiniteSet(ensured) /\ Cardinality(ensured) \in {0, 1}
         /\ ensured # {} => Cardinality(ensured) = 1
         /\ ensured \subseteq { Handler("create", LobbyId(now, idCounter + 1), FALSE) }
         /\ h.op # "settled" => ensured = {} /\ Cardinality(ensured) = 0
         /\ phase' # "down" => phase # "down"
         /\ UNCHANGED << now, boots, lobbies, ledger >>
<1> DEFINE h == Head(saves).next
           ensured == IF EmitsSettled(h.op) THEN Created(lobbies, now, idCounter + 1, FALSE) ELSE {}
<1>1. /\ saves # << >> /\ disk' = Head(saves).record /\ saves' = Tail(saves)
      /\ calls' = calls \cup ensured \cup (IF h.op = "settle" THEN {h} ELSE {})
      /\ idCounter' = idCounter + Cardinality(ensured)
      /\ UNCHANGED << now, boots, lobbies, ledger >>
  BY DEF SaveDone, Written
<1>2. phase # "down"
  BY <1>1, Awake
<1>3. h \in SaveHandlers
  <2>1. Head(saves) \in SaveRecords
    BY <1>1, HeadTailProperties DEF Core, Typed
  <2> QED BY <2>1 DEF SaveRecords
<1>4. /\ IsFiniteSet(ensured) /\ Cardinality(ensured) \in {0, 1}
      /\ ensured # {} => Cardinality(ensured) = 1
      /\ ensured \subseteq { Handler("create", LobbyId(now, idCounter + 1), FALSE) }
  <2>1. now \in Nat /\ idCounter + 1 \in Nat
    BY DEF Core, Typed
  <2>2. LET C == Created(lobbies, now, idCounter + 1, FALSE) IN
        /\ C \subseteq { Handler("create", LobbyId(now, idCounter + 1), FALSE) }
        /\ IsFiniteSet(C) /\ Cardinality(C) \in {0, 1}
        /\ C # {} => Cardinality(C) = 1
    BY <2>1, OneCreated
  <2>3. IsFiniteSet({}) /\ Cardinality({}) = 0
    BY FS_EmptySet
  <2> QED BY <2>2, <2>3
<1>5. h.op # "settled" => ensured = {} /\ Cardinality(ensured) = 0
  BY FS_EmptySet DEF EmitsSettled
<1> HIDE DEF h, ensured
<1>6. h = Head(saves).next
  BY DEF h
<1> QED BY <1>1, <1>2, <1>3, <1>4, <1>5, <1>6

LEMMA SaveDoneTally ==
  ASSUME Core, Core', Fresh, Tally, SaveDone
  PROVE  TallyKept /\ (Head(saves).next.op = "settled" => idCounter + 1 =< IDS_PER_MS)
<1>1. PICK h, ensured :
         /\ h = Head(saves).next /\ h \in SaveHandlers
         /\ saves # << >> /\ saves' = Tail(saves) /\ disk' = Head(saves).record
         /\ calls' = calls \cup ensured \cup (IF h.op = "settle" THEN {h} ELSE {})
         /\ idCounter' = idCounter + Cardinality(ensured)
         /\ IsFiniteSet(ensured) /\ Cardinality(ensured) \in {0, 1}
         /\ ensured # {} => Cardinality(ensured) = 1
         /\ ensured \subseteq { Handler("create", LobbyId(now, idCounter + 1), FALSE) }
         /\ h.op # "settled" => ensured = {} /\ Cardinality(ensured) = 0
         /\ phase' # "down" => phase # "down"
         /\ UNCHANGED << now, boots, lobbies, ledger >>
  BY SaveDoneParts
<1>2. /\ OnceEach(saves', "settle") /\ OnceEach(saves', "settled")
      /\ NextIds(saves', "settle") \subseteq NextIds(saves, "settle")
      /\ Announced' \subseteq Announced
      /\ h.op # "settled" => Announced' = Announced
      /\ h.op = "settle" => h.id \in NextIds(saves, "settle") \ NextIds(saves', "settle")
      /\ h.op = "settled" => h.id \in Announced \ Announced'
      /\ Few(disk') /\ \A k \in DOMAIN saves' : Few(saves'[k].record)
  BY <1>1, Unqueued
<1>3. \A c \in ensured : c.op = "create"
  BY <1>1 DEF Handler
<1>4. Jobs'
  <2>1. ASSUME NEW c \in calls', c.op = "settle"
        PROVE  c.id \in Due(lobbies') \ NextIds(saves', "settle")
    <3>1. CASE c \in calls
      BY <1>1, <1>2, <2>1, <3>1 DEF Tally, Jobs
    <3>2. CASE h.op = "settle" /\ c = h
      BY <1>1, <1>2, <3>2 DEF Tally, Jobs
    <3> QED BY <1>1, <1>3, <2>1, <3>1, <3>2
  <2> QED BY <1>1, <1>2, <2>1 DEF Tally, Jobs
<1>5. AllFew'
  BY <1>1, <1>2 DEF Tally, AllFew
<1>6. phase # "down"
  BY <1>1, Awake
<1>7. idCounter \in Nat /\ MaxLobbies \in Nat /\ IDS_PER_MS \in Nat /\ MaxLobbies < IDS_PER_MS
  BY ProcessBounds DEF Core, Typed
<1>8. Counted' /\ (h.op = "settled" => idCounter + 1 =< IDS_PER_MS)
  <2> DEFINE S == In(lobbies, "settled")
             old0 == S \ Announced
             new0 == S \ Announced'
  <2>1. idCounter - 1 =< Cardinality(old0)
    BY <1>6 DEF Tally, Counted
  <2>2. IsFiniteSet(S) /\ Cardinality(S) \in Nat /\ (S # {} => Cardinality(S) < MaxLobbies)
    BY FewSettled
  <2>3. IsFiniteSet(old0) /\ IsFiniteSet(new0) /\ Cardinality(new0) =< Cardinality(S)
        /\ Cardinality(old0) =< Cardinality(new0)
        /\ Cardinality(old0) \in Nat /\ Cardinality(new0) \in Nat
    <3>1. old0 \subseteq new0 /\ new0 \subseteq S
      BY <1>2
    <3>2. IsFiniteSet(new0) /\ Cardinality(new0) =< Cardinality(S)
      BY <2>2, <3>1, FS_Subset
    <3> HIDE DEF old0, new0
    <3>3. IsFiniteSet(old0) /\ Cardinality(old0) =< Cardinality(new0)
      BY <3>1, <3>2, FS_Subset
    <3> QED BY <3>2, <3>3, FS_CardinalityType
  <2>4. ASSUME h.op = "settled"
        PROVE  Cardinality(old0) + 1 =< Cardinality(new0) /\ S # {}
    <3>1. h.id \in S /\ h.id \notin old0 /\ old0 \cup {h.id} \subseteq new0
      BY <1>2, <2>4 DEF Tally, Jobs
    <3> HIDE DEF S, old0, new0
    <3>2. IsFiniteSet(old0 \cup {h.id}) /\ Cardinality(old0 \cup {h.id}) = Cardinality(old0) + 1
      BY <2>3, <3>1, FS_AddElement
    <3>3. Cardinality(old0 \cup {h.id}) =< Cardinality(new0)
      BY <2>3, <3>1, FS_Subset
    <3> QED BY <3>1, <3>2, <3>3
  <2>5. In(lobbies', "settled") \ Announced' = new0
    BY <1>1
  <2> HIDE DEF S, old0, new0
  <2>6. CASE h.op = "settled"
    <3>1. idCounter' - 1 =< Cardinality(new0)
      BY <1>1, <1>7, <2>1, <2>3, <2>4, <2>6
    <3>2. idCounter + 1 =< IDS_PER_MS
      BY <1>7, <2>1, <2>2, <2>3, <2>4, <2>6
    <3> QED BY <2>5, <3>1, <3>2 DEF Counted
  <2>7. CASE h.op # "settled"
    <3>1. idCounter' - 1 =< Cardinality(new0)
      BY <1>1, <1>7, <2>1, <2>3, <2>7
    <3> QED BY <2>5, <2>7, <3>1 DEF Counted
  <2> QED BY <2>6, <2>7
<1> QED BY <1>1, <1>2, <1>4, <1>5, <1>8 DEF TallyKept, Tally

LEMMA OrderedOnce ==
  ASSUME NEW S \in FiniteIds
  PROVE  \A j, k \in DOMAIN SetToSeq(S) : SetToSeq(S)[j] = SetToSeq(S)[k] => j = k
<1>1. Cardinality(S) \in Nat /\ ExistsBijection(1 .. Cardinality(S), S)
  BY FS_CardinalityType DEF FiniteIds
<1>2. \E f \in [ 1 .. Cardinality(S) -> S ] : IsInjective(f)
  BY <1>1 DEF ExistsBijection, Bijection, Injection
<1>3. IsInjective(SetToSeq(S))
  BY <1>2 DEF SetToSeq
<1> QED BY <1>3 DEF IsInjective

\* Loading the file and marking its complete lobbies completes and settles none.
LEMMA LoadedCounts ==
  ASSUME NEW m \in Maps, NEW loaded, loaded = [ id \in DOMAIN m |-> Reopened(m[id]) ]
  PROVE  CompleteIn(loaded) = CompleteIn(m) /\ In(loaded, "settled") = In(m, "settled")
<1>1. m \in [ DOMAIN m -> LobbyRecord ]
  BY MapTyped
<1>2. ASSUME NEW r \in LobbyRecord
      PROVE  Reopened(r).complete = r.complete
             /\ (Reopened(r).status = "settled" <=> r.status = "settled")
  BY DEF Reopened, LobbyRecord
<1>3. DOMAIN loaded = DOMAIN m /\ \A id \in DOMAIN m : loaded[id] = Reopened(m[id])
  OBVIOUS
<1>4. \A id \in DOMAIN m : loaded[id].complete = m[id].complete
                           /\ (loaded[id].status = "settled" <=> m[id].status = "settled")
  BY <1>1, <1>2, <1>3
<1> QED BY <1>3, <1>4 DEF CompleteIn, In

LEMMA MarkedUpCounts ==
  ASSUME NEW m \in Maps, NEW ids, NEW k, NEW m2, m2 = SettlingUpTo(m, ids, k)
  PROVE  /\ CompleteIn(m2) = CompleteIn(m) /\ In(m2, "settled") \subseteq In(m, "settled")
         /\ \A j \in 1 .. k : ids[j] \in DOMAIN m => m2[ids[j]].status = "settling"
<1>1. m \in [ DOMAIN m -> LobbyRecord ]
  BY MapTyped
<1>2. ASSUME NEW r \in LobbyRecord
      PROVE  [ r EXCEPT !.status = "settling" ].complete = r.complete
             /\ [ r EXCEPT !.status = "settling" ].status = "settling"
  BY DEF LobbyRecord
<1>3. DOMAIN m2 = DOMAIN m
      /\ \A id \in DOMAIN m :
           m2[id] = IF \E j \in 1 .. k : ids[j] = id
                    THEN [ m[id] EXCEPT !.status = "settling" ] ELSE m[id]
  BY DEF SettlingUpTo
<1>4. ASSUME NEW id \in DOMAIN m
      PROVE  /\ m2[id].complete = m[id].complete
             /\ m2[id].status = "settled" => m[id].status = "settled"
             /\ (\E j \in 1 .. k : ids[j] = id) => m2[id].status = "settling"
  <2>1. m[id] \in LobbyRecord
    BY <1>1
  <2>2. CASE \E j \in 1 .. k : ids[j] = id
    <3>1. m2[id] = [ m[id] EXCEPT !.status = "settling" ]
      BY <1>3, <2>2
    <3>2. m2[id].complete = m[id].complete /\ m2[id].status = "settling"
      BY <1>2, <2>1, <3>1
    <3> QED BY <3>2
  <2>3. CASE ~ \E j \in 1 .. k : ids[j] = id
    <3>1. m2[id] = m[id]
      BY <1>3, <2>3
    <3> QED BY <2>3, <3>1
  <2> QED BY <2>2, <2>3
<1>5. CompleteIn(m2) = CompleteIn(m) /\ In(m2, "settled") \subseteq In(m, "settled")
  BY <1>3, <1>4 DEF CompleteIn, In
<1> QED BY <1>4, <1>5

\* init asks for one settlement of every complete lobby of the file.
LEMMA BootTally ==
  ASSUME Core, Core', Tally, Boot
  PROVE  Tally' /\ Announced' = {}
<1> DEFINE loaded == [ id \in DOMAIN disk |-> Reopened(disk[id]) ]
           R == { id \in DOMAIN loaded : Ready(loaded[id]) }
           ready == SetToSeq(R)
           Marked(k) == SettlingUpTo(loaded, ready, k)
<1>1. disk \in Maps /\ DOMAIN disk \in FiniteIds /\ Few(disk)
  BY MapTyped DEF Core, Typed, Tally, AllFew
<1>2. loaded \in Maps /\ DOMAIN loaded = DOMAIN disk
      /\ CompleteIn(loaded) = CompleteIn(disk) /\ In(loaded, "settled") = In(disk, "settled")
  BY <1>1, LoadedTyped, LoadedCounts
<1>3. R \in FiniteIds /\ R \subseteq CompleteIn(loaded)
  <2>1. R \subseteq CompleteIn(loaded) /\ R \subseteq DOMAIN disk
    BY <1>2 DEF Ready, CompleteIn
  <2>2. IsFiniteSet(R) /\ R \subseteq Nat
    BY <1>1, <2>1, FS_Subset DEF FiniteIds
  <2> QED BY <2>1, <2>2 DEF FiniteIds
<1>4. /\ ready \in Seq(R) /\ DOMAIN ready = 1 .. Len(ready)
      /\ \A k \in DOMAIN ready : ready[k] \in R
      /\ \A j, k \in DOMAIN ready : ready[j] = ready[k] => j = k
  <2>1. ready \in Seq(R)
    BY <1>3, Ordered
  <2>2. DOMAIN ready = 1 .. Len(ready) /\ \A k \in DOMAIN ready : ready[k] \in R
    BY <2>1, ElementOfSeq, LenProperties
  <2> QED BY <1>3, <2>1, <2>2, OrderedOnce
<1>5. \A k : Few(Marked(k))
  <2>1. \A k : CompleteIn(Marked(k)) = CompleteIn(loaded)
               /\ In(Marked(k), "settled") \subseteq In(loaded, "settled")
    BY <1>2, MarkedUpCounts
  <2> QED BY <1>1, <1>2, <2>1 DEF Few
<1>6. /\ lobbies' = Marked(Len(ready))
      /\ saves' = [ k \in DOMAIN ready |-> SaveOf(Marked(k), Handler("settle", ready[k], FALSE)) ]
      /\ calls' = Created(lobbies', now', 1, TRUE)
      /\ now' = now + 1 /\ idCounter' = 1 /\ disk' = disk
  BY DEF Boot
<1>7. \A k \in 1 .. Len(ready) : ready[k] \in DOMAIN loaded => lobbies'[ready[k]].status = "settling"
  BY <1>2, <1>6, MarkedUpCounts
<1>8. CompleteIn(lobbies') = CompleteIn(loaded)
  BY <1>2, <1>6, MarkedUpCounts
<1> HIDE DEF loaded, R, ready, Marked
<1>9. DOMAIN saves' = DOMAIN ready
      /\ \A k \in DOMAIN saves' :
           /\ saves'[k].record = Marked(k)
           /\ saves'[k].next.op = "settle" /\ saves'[k].next.id = ready[k]
  BY <1>6 DEF SaveOf, Handler
<1>10. OnceEach(saves', "settle") /\ OnceEach(saves', "settled") /\ Announced' = {}
  BY <1>4, <1>9 DEF OnceEach, Announced, NextIds
<1>11. NextIds(saves', "settle") \subseteq Due(lobbies')
  <2> SUFFICES ASSUME NEW k \in DOMAIN saves' PROVE ready[k] \in Due(lobbies')
    BY <1>9 DEF NextIds
  <2>1. ready[k] \in CompleteIn(lobbies') /\ ready[k] \in DOMAIN loaded
    BY <1>3, <1>4, <1>8, <1>9 DEF CompleteIn
  <2>2. lobbies'[ready[k]].status = "settling"
    BY <1>4, <1>7, <1>9, <2>1
  <2> QED BY <2>1, <2>2 DEF Due, In
<1>12. \A c \in calls' : c.op = "create"
  BY <1>6 DEF Created, Handler
<1>13. Jobs'
  BY <1>10, <1>11, <1>12 DEF Jobs
<1>14. AllFew'
  BY <1>1, <1>5, <1>6, <1>9 DEF AllFew
<1>15. Counted'
  <2> DEFINE S == In(lobbies', "settled") \ Announced'
  <2>1. IsFiniteSet(S)
    <3>1. IsFiniteSet(DOMAIN lobbies') /\ S \subseteq DOMAIN lobbies'
      BY MapTyped DEF Core, Typed, FiniteIds, In
    <3> QED BY <3>1, FS_Subset
  <2>2. Cardinality(S) \in Nat
    BY <2>1, FS_CardinalityType
  <2> HIDE DEF S
  <2>3. idCounter' - 1 =< Cardinality(S)
    BY <1>6, <2>2
  <2> QED BY <2>3 DEF S, Counted
<1> QED BY <1>10, <1>13, <1>14, <1>15 DEF Tally

LEMMA TallyStep ==
  ASSUME Core, Core', OneWaits, Fresh, Tally, [Next]_vars, ~ Boot
  PROVE  TallyKept
<1>1. CASE UNCHANGED << lobbies, disk, saves, idCounter, calls, phase >>
  BY <1>1, TallyRests
<1>2. CASE Crash
  BY <1>2, TallyDies DEF Crash
<1>3. CASE \E c \in calls : CreateReturns(c) \/ SettleReturns(c) \/ CancelReturns(c)
  BY <1>3, CreateReturnsTally, SettleReturnsTally, CancelReturnsTally
<1>4. CASE \E c \in calls, landed \in BOOLEAN : SettleRejected(c) \/ SettleFails(c, landed)
  BY <1>4, SettleThrowsTally DEF SettleRejected, SettleFails, Waits
<1>5. CASE \E c \in calls, landed \in BOOLEAN : CreateFails(c, landed) \/ CancelFails(c, landed)
  BY <1>5, TallyThrows DEF CreateFails, CancelFails
<1>6. CASE \E w \in watches : RoundKnown(w)
  BY <1>6, RoundKnownTally
<1>7. CASE \E w \in watches : WatchTimesOut(w)
  BY <1>7, TallyThrows DEF WatchTimesOut
<1>8. CASE \E id \in DOMAIN lobbies : RoundPlayed(id)
  BY <1>8, RoundPlayedTally
<1>9. CASE \E id \in DOMAIN lobbies : Sweep(id)
  <2>1. PICK id \in DOMAIN lobbies : Sweep(id)
    BY <1>9
  <2>2. /\ UNCHANGED << lobbies, disk, saves, idCounter, phase >>
        /\ calls' = calls \cup { Handler("cancel", id, FALSE) }
    BY <2>1 DEF Sweep, BeforeCancel, process
  <2>3. Handler("cancel", id, FALSE).op = "cancel"
    BY DEF Handler
  <2> QED BY <2>2, <2>3, TallyRests
<1>10. CASE SaveDone
  BY <1>10, SaveDoneTally
<1>11. CASE SaveFails
  BY <1>11, SaveFailsTally
<1>12. CASE DayPasses \/ UNCHANGED vars \/ \E id \in DOMAIN ledger : OracleFulfills(id)
  BY <1>1, <1>12 DEF DayPasses, OracleFulfills, vars, process
<1> QED BY <1>2, <1>3, <1>4, <1>5, <1>6, <1>7, <1>8, <1>9, <1>10, <1>11, <1>12 DEF Next

\* The id of a lobby ensureOpenLobby creates is above all of earlier processes
\* and differs from those of its own.
LEMMA BootFresh ==
  ASSUME Core, Fresh, Boot
  PROVE  Fresh'
<1> DEFINE id == LobbyId(now + 1, 1)
<1>1. now \in Nat /\ now + 1 \in Nat /\ idCounter \in Nat /\ DOMAIN ledger \subseteq Nat
      /\ CreateIds \subseteq Nat
  BY DEF Core, Typed, CreateIds, Creates, Handlers
<1>2. now' = now + 1 /\ idCounter' = 1 /\ ledger' = ledger
      /\ calls' \subseteq { Handler("create", id, TRUE) }
  BY DEF Boot, Created
<1>3. (now + 1) * IDS_PER_MS =< id /\ id \in Nat /\ (now + 1) * IDS_PER_MS \in Nat
  BY <1>1, IdBetween, IdIsNat, ProcessBounds
<1>4. \A i \in DOMAIN ledger : i < (now + 1) * IDS_PER_MS
  BY <1>1, OldIdsBelow DEF Fresh
<1>5. Drawn(id, now + 1, 1)
  BY DEF Drawn
<1> HIDE DEF id
<1>6. id \notin DOMAIN ledger
  BY <1>1, <1>3, <1>4
<1>7. CreateIds' \subseteq {id} /\ \A c, d \in Creates' : c = d
  <2> DEFINE h == Handler("create", id, TRUE)
  <2>1. h.id = id
    BY DEF Handler
  <2>2. Creates' \subseteq {h}
    BY <1>2 DEF Creates
  <2> HIDE DEF h
  <2> QED BY <2>1, <2>2 DEF CreateIds
<1>8. \A i \in DOMAIN ledger : Drawn(i, now + 1, 1)
  BY <1>4 DEF Drawn
<1> QED BY <1>2, <1>5, <1>6, <1>7, <1>8 DEF Fresh

LEMMA SaveDoneFresh ==
  ASSUME Core, Fresh, SaveDone,
         Head(saves).next.op = "settled" => idCounter + 1 =< IDS_PER_MS
  PROVE  Fresh'
<1>1. PICK h, ensured :
         /\ h = Head(saves).next
         /\ calls' = calls \cup ensured \cup (IF h.op = "settle" THEN {h} ELSE {})
         /\ idCounter' = idCounter + Cardinality(ensured)
         /\ ensured # {} => Cardinality(ensured) = 1
         /\ ensured \subseteq { Handler("create", LobbyId(now, idCounter + 1), FALSE) }
         /\ h.op # "settled" => ensured = {} /\ Cardinality(ensured) = 0
         /\ Cardinality(ensured) \in {0, 1}
         /\ UNCHANGED << now, ledger >>
  BY SaveDoneParts
<1>2. now \in Nat /\ idCounter \in Nat /\ DOMAIN ledger \subseteq Nat /\ CreateIds \subseteq Nat
  BY DEF Core, Typed, CreateIds, Creates, Handlers
<1>3. CASE ensured = {}
  <2>1. Creates' = Creates
    BY <1>1, <1>3 DEF Creates
  <2>2. \A i \in DOMAIN ledger \cup CreateIds : Drawn(i, now, idCounter')
    <3>1. idCounter' \in {idCounter, idCounter + 1}
      BY <1>1, <1>2
    <3>2. \A k \in 1 .. idCounter : k \in 1 .. idCounter'
      BY <1>2, <3>1
    <3> QED BY <3>2 DEF Fresh, Drawn
  <2> QED BY <1>1, <2>1, <2>2 DEF Fresh, CreateIds
<1>4. CASE ensured # {}
  <2> DEFINE id == LobbyId(now, idCounter + 1)
             new == Handler("create", id, FALSE)
  <2>1. idCounter + 1 =< IDS_PER_MS /\ ensured = {new} /\ idCounter' = idCounter + 1
    BY <1>1, <1>2, <1>4
  <2>2. \A i \in DOMAIN ledger \cup CreateIds : i # id /\ Drawn(i, now, idCounter + 1)
    BY <1>2, <2>1, NewIdFresh DEF Fresh
  <2>3. new.op = "create" /\ new.id = id
    BY DEF Handler
  <2>4. Drawn(id, now, idCounter + 1)
    <3>1. idCounter + 1 \in 1 .. idCounter + 1
      BY <1>2
    <3> QED BY <3>1 DEF Drawn
  <2> HIDE DEF id, new
  <2>5. Creates' = Creates \cup {new}
    BY <1>1, <2>1, <2>3 DEF Creates
  <2>6. CreateIds' = CreateIds \cup {id}
    BY <2>3, <2>5 DEF CreateIds
  <2>7. \A c, d \in Creates' : c.id = d.id => c = d
    BY <2>2, <2>3, <2>5 DEF Fresh, CreateIds
  <2> QED BY <1>1, <2>1, <2>2, <2>4, <2>6, <2>7 DEF Fresh
<1> QED BY <1>3, <1>4

Orderly == Core /\ OneWaits /\ Fresh /\ Tally

LEMMA OrderlyStep == ASSUME Orderly, [Next]_vars PROVE Orderly'
<1>1. Core' /\ OneWaits'
  BY CoreStep, WaitsStep DEF Orderly
<1>2. CASE Boot
  BY <1>1, <1>2, BootTally, BootFresh DEF Orderly
<1>3. CASE SaveDone
  BY <1>1, <1>3, SaveDoneTally, SaveDoneFresh DEF Orderly, TallyKept
<1>4. CASE ~ Boot /\ ~ SaveDone
  <2>1. OrdersKept
    BY <1>4, OrdersStay DEF Orderly
  <2>2. Fresh'
    BY <2>1, FreshKept DEF Orderly
  <2>3. TallyKept
    BY <1>1, <1>4, TallyStep DEF Orderly
  <2> QED BY <1>1, <2>2, <2>3 DEF Orderly, TallyKept
<1> QED BY <1>2, <1>3, <1>4

LEMMA OrderlyHolds == Spec => []Orderly
<1>1. Init => Orderly
  BY Starts, WaitsStarts, TallyStarts DEF Orderly
<1> QED BY <1>1, OrderlyStep, PTL DEF Spec

\* A new lobby has an id of its own, whatever earlier processes created, and
\* however many settlements of this one asked for a lobby.
THEOREM IdsAlwaysFresh == Spec => []IdsFresh
<1>1. Orderly => IdsFresh
  <2> SUFFICES ASSUME Orderly, NEW c \in calls, c.op = "create"
               PROVE  c.id \notin DOMAIN ledger \cup DOMAIN disk \cup DOMAIN lobbies
    BY DEF IdsFresh
  <2>1. c.id \notin DOMAIN ledger
    BY DEF Orderly, Fresh, CreateIds, Creates
  <2> QED BY <2>1 DEF Orderly, Core, AllAgree, Agrees
<1> QED BY <1>1, OrderlyHolds, PTL

-----------------------------------------------------------------------------
(* How many lobbies there are *)

\* Lobbies that are live, are being created, or whose settlement will have
\* another one created.
Active == LiveIds \cup CreateIds \cup Announced

Bounded == IsFiniteSet(Active) /\ Cardinality(Active) =< boots

LEMMA BoundedKept ==
  ASSUME Core, Bounded, Active' \subseteq Active, boots' = boots
  PROVE  Bounded'
<1>1. IsFiniteSet(Active') /\ Cardinality(Active') =< Cardinality(Active)
  BY FS_Subset DEF Bounded
<1>2. Cardinality(Active') \in Nat /\ Cardinality(Active) \in Nat /\ boots \in Nat
  BY <1>1, FS_CardinalityType DEF Bounded, Core, Typed
<1> QED BY <1>1, <1>2 DEF Bounded

LEMMA BootBounded ==
  ASSUME Core, Bounded, Boot, Announced' = {}
  PROVE  Bounded'
<1> DEFINE id == LobbyId(now + 1, 1)
<1>1. boots' = boots + 1 /\ ledger' = ledger /\ calls' \subseteq { Handler("create", id, TRUE) }
  BY DEF Boot, Created
<1> HIDE DEF id
<1>2. CreateIds' \subseteq {id} /\ LiveIds' = LiveIds
  BY <1>1 DEF CreateIds, Creates, Handler, LiveIds, OnLedger
<1>3. Active' \subseteq Active \cup {id}
  BY <1>2 DEF Active
<1>4. /\ IsFiniteSet(Active \cup {id}) /\ Cardinality(Active) \in Nat
      /\ Cardinality(Active \cup {id}) \in { Cardinality(Active), Cardinality(Active) + 1 }
  BY FS_AddElement, FS_CardinalityType DEF Bounded
<1>5. IsFiniteSet(Active') /\ Cardinality(Active') =< Cardinality(Active \cup {id})
      /\ Cardinality(Active') \in Nat
  BY <1>3, <1>4, FS_Subset, FS_CardinalityType
<1>6. boots \in Nat
  BY DEF Core, Typed
<1> QED BY <1>1, <1>4, <1>5, <1>6 DEF Bounded

\* An announced settlement has at most one lobby created in its place.
LEMMA SaveDoneBounded ==
  ASSUME Core, Fresh, Tally, Bounded, SaveDone
  PROVE  Bounded'
<1>1. PICK h, ensured :
         /\ h = Head(saves).next
         /\ saves # << >> /\ saves' = Tail(saves)
         /\ calls' = calls \cup ensured \cup (IF h.op = "settle" THEN {h} ELSE {})
         /\ ensured \subseteq { Handler("create", LobbyId(now, idCounter + 1), FALSE) }
         /\ h.op # "settled" => ensured = {}
         /\ UNCHANGED << boots, lobbies, ledger >>
  BY SaveDoneParts
<1>2. /\ Announced' \subseteq Announced
      /\ h.op # "settled" => Announced' = Announced
      /\ h.op = "settled" => h.id \in Announced \ Announced'
  BY <1>1, Unqueued
<1>3. LiveIds' = LiveIds
  BY <1>1 DEF LiveIds, OnLedger
<1>4. CASE h.op # "settled"
  <2>1. Creates' = Creates
    BY <1>1, <1>4 DEF Creates
  <2>2. Active' = Active
    BY <1>2, <1>3, <1>4, <2>1 DEF Active, CreateIds
  <2> QED BY <1>1, <2>2, BoundedKept
<1>5. CASE h.op = "settled"
  <2> DEFINE id == LobbyId(now, idCounter + 1)
             rest == Active \ {h.id}
  <2>1. Creates' \subseteq Creates \cup { Handler("create", id, FALSE) }
    BY <1>1, <1>5 DEF Creates
  <2> HIDE DEF id
  <2>2. CreateIds' \subseteq CreateIds \cup {id}
    BY <2>1 DEF CreateIds, Handler
  <2>3. h.id \in DOMAIN ledger /\ ledger[h.id] = "Settled"
    BY <1>2, <1>5 DEF Tally, Jobs, In, Core, AllAgree, Agrees
  <2>4. h.id \notin LiveIds /\ h.id \notin CreateIds /\ h.id \in Active
    BY <1>2, <1>5, <2>3 DEF LiveIds, OnLedger, Fresh, Active
  <2>5. Active' \subseteq rest \cup {id}
    BY <1>2, <1>3, <1>5, <2>2, <2>4 DEF Active
  <2>6. IsFiniteSet(rest) /\ Cardinality(rest) = Cardinality(Active) - 1
        /\ Cardinality(Active) \in Nat /\ Cardinality(rest) \in Nat
    BY <2>4, FS_RemoveElement, FS_CardinalityType DEF Bounded
  <2> HIDE DEF rest
  <2>7. IsFiniteSet(rest \cup {id})
        /\ Cardinality(rest \cup {id}) \in { Cardinality(rest), Cardinality(rest) + 1 }
    BY <2>6, FS_AddElement
  <2>8. IsFiniteSet(Active') /\ Cardinality(Active') =< Cardinality(rest \cup {id})
        /\ Cardinality(Active') \in Nat
    BY <2>5, <2>7, FS_Subset, FS_CardinalityType
  <2>9. boots \in Nat
    BY DEF Core, Typed
  <2> QED BY <1>1, <2>6, <2>7, <2>8, <2>9 DEF Bounded
<1> QED BY <1>4, <1>5

LEMMA BoundedStep == ASSUME Orderly, Bounded, [Next]_vars PROVE Bounded'
<1>1. Core' /\ OneWaits'
  BY CoreStep, WaitsStep DEF Orderly
<1>2. CASE Boot
  BY <1>1, <1>2, BootTally, BootBounded DEF Orderly
<1>3. CASE SaveDone
  BY <1>3, SaveDoneBounded DEF Orderly
<1>4. CASE ~ Boot /\ ~ SaveDone
  <2>1. OrdersKept
    BY <1>4, OrdersStay DEF Orderly
  <2>2. Announced' \subseteq Announced \cup LiveIds
    BY <1>1, <1>4, TallyStep DEF Orderly, TallyKept
  <2>3. CreateIds' \subseteq CreateIds /\ boots' = boots
    BY <2>1 DEF OrdersKept, CreateIds
  <2>4. LiveIds' \subseteq LiveIds \cup CreateIds
    <3>1. DOMAIN ledger' \subseteq DOMAIN ledger \cup CreateIds
      BY <2>1 DEF OrdersKept, CreateIds
    <3>2. \A id \in DOMAIN ledger : ledger[id] \in LedgerStatuses
      BY DEF Orderly, Core, Typed
    <3>3. ASSUME NEW id \in DOMAIN ledger, id \in LiveIds' PROVE id \in LiveIds
      BY <2>1, <3>2, <3>3 DEF OrdersKept, GoesOn, LiveIds, OnLedger, LedgerStatuses
    <3> QED BY <3>1, <3>3 DEF LiveIds, OnLedger
  <2>5. Active' \subseteq Active
    BY <2>2, <2>3, <2>4 DEF Active
  <2> QED BY <2>3, <2>5, BoundedKept DEF Orderly
<1> QED BY <1>2, <1>3, <1>4

\* There are never more live lobbies on the ledger than starts of the process,
\* whatever failed, landed late or was resumed.
THEOREM LobbiesStayBounded == Spec => []LobbiesBounded
<1>1. Init => Orderly /\ Bounded
  <2> SUFFICES ASSUME Init PROVE Orderly /\ Bounded
    OBVIOUS
  <2>1. Orderly
    BY Starts, WaitsStarts, TallyStarts DEF Orderly
  <2>2. DOMAIN ledger = {} /\ calls = {} /\ saves = << >> /\ boots = 0
    BY NoLobbiesTyped DEF Init
  <2>3. Active = {}
    BY <2>2, EmptyQueue DEF Active, LiveIds, OnLedger, CreateIds, Creates, Announced
  <2>4. Bounded
    BY <2>2, <2>3, FS_EmptySet DEF Bounded
  <2> QED BY <2>1, <2>4
<1>2. Orderly /\ Bounded => LobbiesBounded
  <2> SUFFICES ASSUME Orderly, Bounded PROVE LobbiesBounded
    OBVIOUS
  <2>1. LiveIds \subseteq Active /\ IsFiniteSet(Active) /\ Cardinality(Active) =< boots /\ boots \in Nat
    BY DEF Active, Bounded, Orderly, Core, Typed
  <2>2. Cardinality(LiveIds) =< Cardinality(Active) /\ IsFiniteSet(LiveIds)
    BY <2>1, FS_Subset
  <2>3. Cardinality(LiveIds) \in Nat /\ Cardinality(Active) \in Nat
    BY <2>1, <2>2, FS_CardinalityType
  <2> QED BY <2>1, <2>2, <2>3 DEF LobbiesBounded, LiveIds
<1> QED BY <1>1, <1>2, OrderlyStep, BoundedStep, PTL DEF Spec
=============================================================================
