--------------------------- MODULE DemoRoundProofs ---------------------------
(***************************************************************************)
(* Proofs about DemoRound for any number of guests, bots, seats, crashes   *)
(* and stakes.                                                             *)
(***************************************************************************)
EXTENDS DemoRound, FiniteSetTheorems, SequenceTheorems, WellFoundedInduction, TLAPS

-----------------------------------------------------------------------------
(* The invariant *)

Seats(r) == DOMAIN r.players
Done(r) == { i \in Seats(r) : r.players[i].status = "done" }

\* The bots there can ever be: the first BotCount names, counted round the list.
Crew == { BotNames[(j % Len(BotNames)) + 1] : j \in 0 .. BotCount - 1 }

HasGuest(r) == \E i \in Seats(r) : ~ r.players[i].isBot

\* Who sits: one seat each, no more than there are, bots from the crew and only
\* where a guest is.
Seating(r) ==
  /\ Len(r.players) =< Size
  /\ \A i, j \in Seats(r) : r.players[i].wallet = r.players[j].wallet => i = j
  /\ \A i \in Seats(r) :
       /\ r.players[i].isBot <=> r.players[i].wallet \in Bots
       /\ r.players[i].isBot => r.players[i].wallet \in Crew /\ HasGuest(r)

\* What they have poured: no result reads as an overflow, and the indices of
\* those who are done are distinct and below their number.
Results(r) ==
  /\ \A i \in Seats(r) : r.players[i].pouredMl < OVERFLOW_SENTINEL
  /\ \A i \in Done(r) :
       r.players[i].submissionIndex < Len(r.players) - Cardinality(Playing(r))
  /\ \A i, j \in Done(r) :
       r.players[i].submissionIndex = r.players[j].submissionIndex => i = j

\* How it ends: settled records are complete and carry the verdict on them.
Ended(r) ==
  /\ r.status = "settled" <=> r.settlement # NoSettlement
  /\ r.status = "settled" => Complete(r) /\ r.settlement = Verdict(r)

Sound(r) == r \in LobbyRecord /\ Seating(r) /\ Results(r) /\ Ended(r)

Nexts == ({"joined"} \X Wallets) \cup { << "recorded" >>, << "settle" >>, << "done" >> }
Saves == [ record : LobbyRecord, next : Nexts ]

\* s is what became of r: once everybody is done, nobody's result changes.
Keeps(r, s) == Complete(r) => s.players = r.players

\* The record l in memory, the record d on disk, the queue q of saves between
\* them and the verdicts v.
Data(l, d, q, v) ==
  /\ Sound(l) /\ Sound(d)
  /\ q \in Seq(Saves) /\ v \subseteq Settlement
  /\ \A k \in DOMAIN q : Sound(q[k].record)
  /\ Keeps(d, l) /\ \A k \in DOMAIN q : Keeps(d, q[k].record) /\ Keeps(q[k].record, l)
  /\ \A j, k \in DOMAIN q : j =< k => Keeps(q[j].record, q[k].record)
  /\ \A k \in DOMAIN q : q[k].next[1] = "settle" => Complete(q[k].record)
  /\ v # {} => Complete(d) /\ v = { Verdict(d) }

BotTimers ==
  \A b \in Bots : << "bot join", b >> \in timers => b \in Crew /\ HasGuest(lobby)

Clocks ==
  /\ timers \subseteq Timer
  /\ pours \subseteq Guests /\ late \subseteq Wallets
  /\ dayOver \in BOOLEAN /\ up \in BOOLEAN /\ crashes \in 0 .. MaxCrashes

IInv == Data(lobby, disk, saves, verdicts) /\ BotTimers /\ Clocks

-----------------------------------------------------------------------------
(* Numbers *)

LEMMA MaxOfTwo ==
  ASSUME NEW a \in Int, NEW b \in Int
  PROVE  Max({a, b}) \in {a, b} /\ Max({a, b}) >= a /\ Max({a, b}) >= b
<1>1. \E x \in {a, b} : \A y \in {a, b} : x >= y
  <2>1. CASE a >= b
    BY <2>1
  <2>2. CASE b >= a
    BY <2>2
  <2> QED BY <2>1, <2>2
<1>2. Max({a, b}) \in {a, b} /\ \A y \in {a, b} : Max({a, b}) >= y
  BY <1>1 DEF Max
<1> QED BY <1>2

LEMMA MinOfTwo ==
  ASSUME NEW a \in Int, NEW b \in Int
  PROVE  Min({a, b}) \in {a, b} /\ Min({a, b}) =< a /\ Min({a, b}) =< b
<1>1. \E x \in {a, b} : \A y \in {a, b} : x =< y
  <2>1. CASE a =< b
    BY <2>1
  <2>2. CASE b =< a
    BY <2>2
  <2> QED BY <2>1, <2>2
<1>2. Min({a, b}) \in {a, b} /\ \A y \in {a, b} : Min({a, b}) =< y
  BY <1>1 DEF Min
<1> QED BY <1>2

LEMMA NumbersTyped ==
  /\ EntryFee \in Nat /\ TargetMl \in Nat /\ OverflowMs \in Nat /\ BotCount \in Nat
  /\ MaxCrashes \in Nat /\ OVERFLOW_SENTINEL \in Nat
  /\ FEE_BPS \in 0 .. 10000 /\ LobbySize \in Nat \ {0} /\ PressureMilli \in Nat \ {0}
BY DemoNumbers

LEMMA SizeTyped == Size \in Nat \ {0}
<1>1. (IF BotCount > 0 THEN BotCount + 1 ELSE 1) \in Nat \ {0}
  BY NumbersTyped
<1> QED BY <1>1, NumbersTyped, MaxOfTwo DEF Size

LEMMA ProductsOrdered ==
  ASSUME NEW c \in Nat, NEW a \in Nat, NEW b \in Nat, a =< b
  PROVE  c * a =< c * b
OBVIOUS

\* A pour is a number of ml, and never the number that stands for an overflow.
LEMMA PourTyped ==
  ASSUME NEW ms \in Nat
  PROVE  /\ simulatePour(ms) \in [ pouredMl : Nat, overflow : BOOLEAN ]
         /\ simulatePour(ms).pouredMl < OVERFLOW_SENTINEL
<1> DEFINE beer(t) == (BASE_RATE_ML_S * PressureMilli * t + 500000) \div 1000000
           held == IF ms >= OverflowMs THEN OverflowMs ELSE ms
           rate == BASE_RATE_ML_S * PressureMilli
<1>1. held \in Nat /\ held =< OverflowMs /\ OverflowMs \in Nat /\ rate \in Nat
  BY NumbersTyped DEF BASE_RATE_ML_S
<1>2. rate * held \in Nat /\ rate * OverflowMs \in Nat /\ rate * held =< rate * OverflowMs
  <2> HIDE DEF rate, held
  <2> QED BY <1>1, ProductsOrdered
<1>3. beer(held) \in Nat /\ beer(OverflowMs) \in Nat /\ beer(held) =< beer(OverflowMs)
  <2> HIDE DEF rate, held
  <2>1. \A x, y \in Nat : x =< y => (x + 500000) \div 1000000 =< (y + 500000) \div 1000000
    OBVIOUS
  <2>2. \A x \in Nat : (x + 500000) \div 1000000 \in Nat
    OBVIOUS
  <2> QED BY <1>2, <2>1, <2>2 DEF rate
<1>4. simulatePour(ms).pouredMl = beer(held) /\ simulatePour(OverflowMs).pouredMl = beer(OverflowMs)
  BY <1>1 DEF simulatePour
<1>5. simulatePour(ms) = [ pouredMl |-> beer(held), overflow |-> ms >= OverflowMs ]
  BY DEF simulatePour
<1>6. (ms >= OverflowMs) \in BOOLEAN
  OBVIOUS
<1> HIDE DEF beer, held
<1>7. beer(OverflowMs) < OVERFLOW_SENTINEL
  BY <1>4, PoursFit
<1>8. simulatePour(ms).pouredMl < OVERFLOW_SENTINEL
  BY <1>3, <1>4, <1>7, NumbersTyped
<1> QED BY <1>3, <1>5, <1>6, <1>8

\* What a player can get: 0 ml, or what a pour makes.
Outcomes == { o \in [ pouredMl : Nat, overflow : BOOLEAN ] : o.pouredMl < OVERFLOW_SENTINEL }

LEMMA OutcomesTyped ==
  /\ Nothing \in Outcomes
  /\ \A ms \in Nat : simulatePour(ms) \in Outcomes
  /\ \A w : AtDeadline(w) \subseteq Outcomes
  /\ \A e \in BotErrors : simulatePour(Max({ 60, idealMs + e })) \in Outcomes
<1>1. Nothing \in Outcomes
  <2>1. 0 < OVERFLOW_SENTINEL
    BY PoursFit, NumbersTyped
  <2> QED BY <2>1 DEF Nothing, Outcomes
<1>2. \A ms \in Nat : simulatePour(ms) \in Outcomes
  BY PourTyped DEF Outcomes
<1>3. \A w : AtDeadline(w) \subseteq Outcomes
  BY <1>1, <1>2, DemoNumbers DEF AtDeadline
<1>4. ASSUME NEW e \in BotErrors
      PROVE  simulatePour(Max({ 60, idealMs + e })) \in Outcomes
  <2>1. idealMs \in Int
    <3>1. TargetMl * 1000000 \in Nat /\ BASE_RATE_ML_S * PressureMilli \in Nat \ {0}
      BY NumbersTyped DEF BASE_RATE_ML_S
    <3>2. \A x \in Nat, y \in Nat \ {0} : x \div y \in Int
      OBVIOUS
    <3> QED BY <3>1, <3>2 DEF idealMs
  <2>2. idealMs + e \in Int
    BY <2>1, DemoNumbers
  <2>3. Max({ 60, idealMs + e }) \in Nat
    BY <2>2, MaxOfTwo
  <2> QED BY <1>2, <2>3
<1> QED BY <1>1, <1>2, <1>3, <1>4

-----------------------------------------------------------------------------
(* Records and who plays *)

LEMMA RecordFacts ==
  ASSUME NEW r \in LobbyRecord
  PROVE  /\ r.players \in Seq(PlayerRecord) /\ Len(r.players) \in Nat
         /\ Seats(r) = 1 .. Len(r.players)
         /\ \A i \in Seats(r) : r.players[i] \in PlayerRecord
<1>1. r.players \in Seq(PlayerRecord)
  BY DEF LobbyRecord
<1> QED BY <1>1 DEF Seats

LEMMA PlayingFacts ==
  ASSUME NEW r \in LobbyRecord
  PROVE  /\ \A w : w \in Playing(r) <=>
              \E i \in Seats(r) : r.players[i].wallet = w /\ r.players[i].status = "playing"
         /\ \A w : w \in Seated(r) <=> \E i \in Seats(r) : r.players[i].wallet = w
         /\ Playing(r) \subseteq Seated(r)
         /\ IsFiniteSet(Seated(r)) /\ IsFiniteSet(Playing(r))
         /\ Cardinality(Playing(r)) \in Nat
<1>1. /\ Seats(r) = 1 .. Len(r.players) /\ Len(r.players) \in Nat
      /\ \A p : p \in Players(r) <=> \E i \in Seats(r) : r.players[i] = p
  BY RecordFacts DEF Players, Range, Seats
<1>2. \A w : w \in Seated(r) <=> \E i \in Seats(r) : r.players[i].wallet = w
  BY <1>1 DEF Seated
<1>3. \A w : w \in Playing(r) <=>
        \E i \in Seats(r) : r.players[i].wallet = w /\ r.players[i].status = "playing"
  BY <1>1 DEF Playing
<1>4. IsFiniteSet(Seated(r))
  <2> DEFINE f == [ i \in Seats(r) |-> r.players[i].wallet ]
  <2>1. f \in Surjection(Seats(r), Seated(r))
    <3>1. f \in [ Seats(r) -> Seated(r) ]
      BY <1>2
    <3>2. \A w \in Seated(r) : \E i \in Seats(r) : f[i] = w
      BY <1>2
    <3> HIDE DEF f
    <3> QED BY <3>1, <3>2 DEF Surjection
  <2>2. IsFiniteSet(Seats(r))
    BY <1>1, FS_Interval
  <2> HIDE DEF f
  <2> QED BY <2>1, <2>2, FS_Surjection
<1>5. Playing(r) \subseteq Seated(r)
  BY <1>2, <1>3
<1>6. IsFiniteSet(Playing(r)) /\ Cardinality(Playing(r)) \in Nat
  BY <1>4, <1>5, FS_Subset, FS_CardinalityType
<1> QED BY <1>2, <1>3, <1>4, <1>5, <1>6

LEMMA CompleteMeans ==
  ASSUME NEW r \in LobbyRecord
  PROVE  Complete(r) <=> Len(r.players) >= Size /\ Done(r) = Seats(r)
<1>1. \A i \in Seats(r) : r.players[i].status \in {"playing", "done"}
  BY RecordFacts DEF PlayerRecord
<1>2. Playing(r) = {} <=> \A i \in Seats(r) : r.players[i].status # "playing"
  BY PlayingFacts
<1> QED BY <1>1, <1>2 DEF Complete, Full, Done

\* Seating, results and verdict are read off the players alone.
LEMMA SamePlayers ==
  ASSUME NEW r, NEW s, r.players = s.players
  PROVE  /\ Seating(r) <=> Seating(s)
         /\ Results(r) <=> Results(s)
         /\ Complete(r) <=> Complete(s)
         /\ HasGuest(r) <=> HasGuest(s)
         /\ Verdict(r) = Verdict(s)
<1>1. Seats(r) = Seats(s) /\ Done(r) = Done(s) /\ Playing(r) = Playing(s)
  BY DEF Seats, Done, Playing, Players
<1>2. HasGuest(r) <=> HasGuest(s)
  BY <1>1 DEF HasGuest
<1>3. Seating(r) <=> Seating(s)
  BY <1>1, <1>2 DEF Seating
<1>4. Results(r) <=> Results(s)
  BY <1>1 DEF Results
<1>5. Complete(r) <=> Complete(s)
  BY <1>1 DEF Complete, Full
<1>6. Verdict(r) = Verdict(s)
  BY DEF Verdict
<1> QED BY <1>2, <1>3, <1>4, <1>5, <1>6

LEMMA StillKept ==
  ASSUME NEW r, NEW s, NEW t, Keeps(r, s), Complete(s) => t.players = s.players
  PROVE  Keeps(r, t)
<1> SUFFICES ASSUME Complete(r) PROVE t.players = r.players
  BY DEF Keeps
<1>1. s.players = r.players
  BY DEF Keeps
<1> QED BY <1>1, SamePlayers

\* Another status, as long as the record neither was nor gets settled.
LEMMA StatusSound ==
  ASSUME NEW r, Sound(r), r.status # "settled",
         NEW s \in {"open", "settling", "cancelled"}
  PROVE  /\ Sound([ r EXCEPT !.status = s ])
         /\ [ r EXCEPT !.status = s ].players = r.players
         /\ [ r EXCEPT !.status = s ].status = s
<1> DEFINE t == [ r EXCEPT !.status = s ]
<1>1. r \in LobbyRecord
  BY DEF Sound
<1>2. t \in LobbyRecord /\ t.players = r.players /\ t.status = s /\ t.settlement = r.settlement
  BY <1>1 DEF LobbyRecord
<1>3. Ended(t)
  BY <1>2 DEF Sound, Ended
<1> HIDE DEF t
<1>4. Sound(t)
  BY <1>2, <1>3, SamePlayers DEF Sound
<1> QED BY <1>2, <1>4 DEF t

-----------------------------------------------------------------------------
(* A seat is taken *)

NewPlayer(wallet) ==
  [ wallet |-> wallet, isBot |-> wallet \in Bots, status |-> "playing",
    pouredMl |-> 0, overflow |-> FALSE, submissionIndex |-> 0 ]

WithSeat(r, wallet) == [ r EXCEPT !.players = Append(@, NewPlayer(wallet)) ]

LEMMA SeatAppended ==
  ASSUME NEW r \in LobbyRecord, NEW w \in Wallets
  PROVE  LET s == WithSeat(r, w)
             n == Len(r.players)
         IN /\ s \in LobbyRecord
            /\ s.status = r.status /\ s.settlement = r.settlement
            /\ Len(s.players) = n + 1 /\ Seats(s) = Seats(r) \cup {n + 1}
            /\ \A i \in Seats(r) : s.players[i] = r.players[i]
            /\ s.players[n + 1] = NewPlayer(w)
            /\ Done(s) = Done(r)
            /\ Playing(s) = Playing(r) \cup {w}
<1> DEFINE s == WithSeat(r, w)
           n == Len(r.players)
<1>1. n \in Nat /\ Seats(r) = 1 .. n /\ r.players \in Seq(PlayerRecord)
  BY RecordFacts
<1>2. NewPlayer(w) \in PlayerRecord
  <2>1. (w \in Bots) \in BOOLEAN
    OBVIOUS
  <2> QED BY <2>1 DEF NewPlayer, PlayerRecord
<1>3. /\ s.players = Append(r.players, NewPlayer(w))
      /\ s.status = r.status /\ s.settlement = r.settlement
  BY DEF WithSeat, LobbyRecord
<1>4. /\ s.players \in Seq(PlayerRecord) /\ Len(s.players) = n + 1
      /\ \A i \in Seats(r) : s.players[i] = r.players[i]
      /\ s.players[n + 1] = NewPlayer(w)
  BY <1>1, <1>2, <1>3, AppendProperties
<1>5. s \in LobbyRecord
  BY <1>4 DEF WithSeat, LobbyRecord
<1>6. Seats(s) = Seats(r) \cup {n + 1}
  <2>1. Seats(s) = 1 .. n + 1
    BY <1>4, <1>5, RecordFacts
  <2> QED BY <1>1, <2>1
<1>7. NewPlayer(w).status = "playing" /\ NewPlayer(w).wallet = w
  BY DEF NewPlayer
<1> HIDE DEF s
<1>8. Done(s) = Done(r)
  BY <1>4, <1>6, <1>7 DEF Done
<1>9. Playing(s) = Playing(r) \cup {w}
  <2>1. \A x : x \in Playing(s) <=> x \in Playing(r) \cup {w}
    BY <1>4, <1>5, <1>6, <1>7, PlayingFacts
  <2> QED BY <2>1
<1> QED BY <1>3, <1>4, <1>5, <1>6, <1>8, <1>9 DEF s

\* A new wallet on a free seat; a bot, if it is of the crew and a guest is there
\* (lobby.ts:267-280, 336-355).
LEMMA SeatSound ==
  ASSUME NEW r, Sound(r), r.status # "settled", Len(r.players) < Size,
         NEW w \in Wallets, w \notin Seated(r),
         w \in Bots => w \in Crew /\ HasGuest(r)
  PROVE  /\ Sound(WithSeat(r, w))
         /\ WithSeat(r, w).status = r.status
         /\ HasGuest(r) => HasGuest(WithSeat(r, w))
<1> DEFINE s == WithSeat(r, w)
           n == Len(r.players)
<1>1. r \in LobbyRecord /\ Seating(r) /\ Results(r) /\ Ended(r)
  BY DEF Sound
<1>2. /\ s \in LobbyRecord
      /\ s.status = r.status /\ s.settlement = r.settlement
      /\ Len(s.players) = n + 1 /\ Seats(s) = Seats(r) \cup {n + 1}
      /\ \A i \in Seats(r) : s.players[i] = r.players[i]
      /\ s.players[n + 1] = NewPlayer(w)
      /\ Done(s) = Done(r)
      /\ Playing(s) = Playing(r) \cup {w}
  BY <1>1, SeatAppended
<1>3. n \in Nat /\ Size \in Nat /\ Seats(r) = 1 .. n
  BY <1>1, SizeTyped, RecordFacts
<1>4. /\ NewPlayer(w).wallet = w /\ NewPlayer(w).isBot = (w \in Bots)
      /\ NewPlayer(w).pouredMl = 0
  BY DEF NewPlayer
<1>5. \A i \in Seats(r) : r.players[i].wallet # w
  BY <1>1, PlayingFacts
<1> HIDE DEF s
<1>6. HasGuest(r) => HasGuest(s)
  BY <1>2 DEF HasGuest
<1>7. Seating(s)
  <2>1. Len(s.players) =< Size
    BY <1>2, <1>3
  <2>2. \A i, j \in Seats(s) : s.players[i].wallet = s.players[j].wallet => i = j
    BY <1>1, <1>2, <1>4, <1>5 DEF Seating
  <2>3. \A i \in Seats(s) :
           /\ s.players[i].isBot <=> s.players[i].wallet \in Bots
           /\ s.players[i].isBot => s.players[i].wallet \in Crew /\ HasGuest(s)
    BY <1>1, <1>2, <1>4, <1>6 DEF Seating
  <2> QED BY <2>1, <2>2, <2>3 DEF Seating
<1>8. Cardinality(Playing(s)) = Cardinality(Playing(r)) + 1
  <2>1. w \notin Playing(r) /\ IsFiniteSet(Playing(r))
    BY <1>1, PlayingFacts
  <2> QED BY <1>2, <2>1, FS_AddElement
<1>9. Results(s)
  <2>1. 0 < OVERFLOW_SENTINEL
    BY PoursFit, NumbersTyped
  <2>2. \A i \in Seats(s) : s.players[i].pouredMl < OVERFLOW_SENTINEL
    BY <1>1, <1>2, <1>4, <2>1 DEF Results
  <2>3. Cardinality(Playing(r)) \in Nat
    BY <1>1, PlayingFacts
  <2>4. Len(s.players) - Cardinality(Playing(s)) = n - Cardinality(Playing(r))
    BY <1>2, <1>3, <1>8, <2>3
  <2>5. \A i \in Done(s) : i \in Seats(r) /\ s.players[i] = r.players[i]
    BY <1>2 DEF Done
  <2>6. \A i \in Done(s) :
          s.players[i].submissionIndex < Len(s.players) - Cardinality(Playing(s))
    BY <1>1, <1>2, <2>4, <2>5 DEF Results
  <2>7. \A i, j \in Done(s) :
          s.players[i].submissionIndex = s.players[j].submissionIndex => i = j
    BY <1>1, <1>2, <2>5 DEF Results
  <2> QED BY <2>2, <2>6, <2>7 DEF Results
<1>10. Ended(s)
  BY <1>1, <1>2 DEF Ended
<1> QED BY <1>2, <1>6, <1>7, <1>9, <1>10 DEF Sound, s

-----------------------------------------------------------------------------
(* A result is recorded *)

WithResult(r, wallet, outcome) ==
  [ r EXCEPT !.players[SeatOf(r, wallet)] =
      [ @ EXCEPT !.status = "done",
                 !.pouredMl = outcome.pouredMl, !.overflow = outcome.overflow,
                 !.submissionIndex = Len(r.players) - Cardinality(Playing(r)) ] ]

\* s is r with the result o of w in seat h.
Written(r, w, o, s, h) ==
  /\ s \in LobbyRecord
  /\ s.status = r.status /\ s.settlement = r.settlement
  /\ Len(s.players) = Len(r.players) /\ Seats(s) = Seats(r)
  /\ \A i \in Seats(r) \ {h} : s.players[i] = r.players[i]
  /\ h \in Seats(r) \ Done(r)
  /\ s.players[h] = [ r.players[h] EXCEPT !.status = "done",
       !.pouredMl = o.pouredMl, !.overflow = o.overflow,
       !.submissionIndex = Len(r.players) - Cardinality(Playing(r)) ]
  /\ Done(s) = Done(r) \cup {h}
  /\ Playing(s) = Playing(r) \ {w}

LEMMA ResultPut ==
  ASSUME NEW r \in LobbyRecord, NEW w \in Playing(r), NEW o \in Outcomes,
         \A i, j \in Seats(r) : r.players[i].wallet = r.players[j].wallet => i = j,
         Cardinality(Playing(r)) =< Len(r.players)
  PROVE  Written(r, w, o, WithResult(r, w, o), SeatOf(r, w))
<1> DEFINE s == WithResult(r, w, o)
           h == SeatOf(r, w)
           idx == Len(r.players) - Cardinality(Playing(r))
           p == [ r.players[h] EXCEPT !.status = "done",
                    !.pouredMl = o.pouredMl, !.overflow = o.overflow,
                    !.submissionIndex = idx ]
<1>1. /\ r.players \in Seq(PlayerRecord) /\ Seats(r) = 1 .. Len(r.players)
      /\ \A i \in Seats(r) : r.players[i] \in PlayerRecord
      /\ Len(r.players) \in Nat
  BY RecordFacts
<1>2. PICK g \in Seats(r) : r.players[g].wallet = w /\ r.players[g].status = "playing"
  BY PlayingFacts
<1>3. h \in Seats(r) /\ r.players[h].wallet = w
  <2>1. \E i \in DOMAIN r.players : r.players[i].wallet = w
    BY <1>2 DEF Seats
  <2> QED BY <2>1 DEF SeatOf, Seats
<1>4. h = g
  BY <1>2, <1>3
<1>5. idx \in Nat
  <2>1. Cardinality(Playing(r)) \in Nat
    BY PlayingFacts
  <2> QED BY <1>1, <2>1
<1>6. o.pouredMl \in Nat /\ o.overflow \in BOOLEAN
  BY DEF Outcomes
<1> HIDE DEF idx, h
<1>7. p \in PlayerRecord /\ p.wallet = w /\ p.status = "done"
  BY <1>1, <1>3, <1>5, <1>6 DEF PlayerRecord
<1>8. /\ s.players = [ r.players EXCEPT ![h] = p ]
      /\ s.status = r.status /\ s.settlement = r.settlement
  BY DEF WithResult, LobbyRecord, h, idx
<1>9. s = [ r EXCEPT !.players = [ r.players EXCEPT ![h] = p ] ]
  BY DEF WithResult, LobbyRecord, h, idx
<1> HIDE DEF p
<1>10. /\ s.players \in Seq(PlayerRecord) /\ Len(s.players) = Len(r.players)
       /\ s.players[h] = p /\ \A i \in Seats(r) \ {h} : s.players[i] = r.players[i]
  BY <1>1, <1>3, <1>7, <1>8 DEF Seats
<1>11. s \in LobbyRecord
  BY <1>8, <1>9, <1>10 DEF LobbyRecord
<1>12. Seats(s) = Seats(r)
  BY <1>1, <1>10, <1>11, RecordFacts
<1> HIDE DEF s
<1>13. h \notin Done(r)
  BY <1>2, <1>4 DEF Done
<1>14. Done(s) = Done(r) \cup {h}
  <2>1. \A i : i \in Done(s) <=> i \in Done(r) \cup {h}
    BY <1>3, <1>7, <1>10, <1>12 DEF Done
  <2> QED BY <2>1
<1>15. Playing(s) = Playing(r) \ {w}
  <2>1. ASSUME NEW x \in Playing(s)
        PROVE  x \in Playing(r) \ {w}
    <3>1. PICK i \in Seats(s) : s.players[i].wallet = x /\ s.players[i].status = "playing"
      BY <1>11, PlayingFacts
    <3>2. i \in Seats(r) \ {h} /\ s.players[i] = r.players[i]
      BY <1>7, <1>10, <1>12, <3>1
    <3>3. x # w
      BY <1>3, <3>1, <3>2
    <3> QED BY <3>1, <3>2, <3>3, PlayingFacts
  <2>2. ASSUME NEW x \in Playing(r), x # w
        PROVE  x \in Playing(s)
    <3>1. PICK i \in Seats(r) : r.players[i].wallet = x /\ r.players[i].status = "playing"
      BY PlayingFacts
    <3>2. i \in Seats(s) /\ s.players[i] = r.players[i]
      BY <1>3, <1>10, <1>12, <2>2, <3>1
    <3> QED BY <1>11, <3>1, <3>2, PlayingFacts
  <2> QED BY <2>1, <2>2
<1> QED BY <1>3, <1>8, <1>10, <1>11, <1>12, <1>13, <1>14, <1>15 DEF Written, s, p, h, idx

\* recordResult: a number of his own for the player who is done (lobby.ts:399-411).
LEMMA ResultSound ==
  ASSUME NEW r, Sound(r), r.status # "settled", NEW w \in Playing(r), NEW o \in Outcomes
  PROVE  /\ Sound(WithResult(r, w, o))
         /\ WithResult(r, w, o).status = r.status
         /\ HasGuest(r) => HasGuest(WithResult(r, w, o))
<1> DEFINE s == WithResult(r, w, o)
           h == SeatOf(r, w)
           n == Len(r.players) - Cardinality(Playing(r))
<1>1. r \in LobbyRecord /\ Seating(r) /\ Results(r) /\ Ended(r)
  BY DEF Sound
<1>2. /\ Len(r.players) \in Nat /\ Seats(r) = 1 .. Len(r.players)
      /\ Cardinality(Playing(r)) \in Nat /\ IsFiniteSet(Playing(r))
  BY <1>1, RecordFacts, PlayingFacts
<1>3. Cardinality(Playing(r)) =< Len(r.players)
  <2> DEFINE f == [ i \in Seats(r) |-> r.players[i].wallet ]
  <2>1. f \in Surjection(Seats(r), Seated(r))
    <3>1. f \in [ Seats(r) -> Seated(r) ]
      BY <1>1, PlayingFacts
    <3>2. \A x \in Seated(r) : \E i \in Seats(r) : f[i] = x
      BY <1>1, PlayingFacts
    <3> HIDE DEF f
    <3> QED BY <3>1, <3>2 DEF Surjection
  <2>2. IsFiniteSet(Seats(r)) /\ Cardinality(Seats(r)) = Len(r.players)
    BY <1>2, FS_Interval
  <2> HIDE DEF f
  <2>3. IsFiniteSet(Seated(r)) /\ Cardinality(Seated(r)) =< Len(r.players)
    BY <2>1, <2>2, FS_Surjection
  <2>4. Playing(r) \in SUBSET Seated(r)
    BY <1>1, PlayingFacts
  <2>5. Cardinality(Playing(r)) =< Cardinality(Seated(r))
    BY <2>3, <2>4, FS_Subset
  <2>6. Cardinality(Seated(r)) \in Nat
    BY <2>3, FS_CardinalityType
  <2> QED BY <1>2, <2>3, <2>5, <2>6
<1>4. /\ s \in LobbyRecord
      /\ s.status = r.status /\ s.settlement = r.settlement
      /\ Len(s.players) = Len(r.players) /\ Seats(s) = Seats(r)
      /\ \A i \in Seats(r) \ {h} : s.players[i] = r.players[i]
      /\ h \in Seats(r) \ Done(r)
      /\ s.players[h] = [ r.players[h] EXCEPT !.status = "done",
           !.pouredMl = o.pouredMl, !.overflow = o.overflow,
           !.submissionIndex = n ]
      /\ Done(s) = Done(r) \cup {h}
      /\ Playing(s) = Playing(r) \ {w}
  <2>1. \A i, j \in Seats(r) : r.players[i].wallet = r.players[j].wallet => i = j
    BY <1>1 DEF Seating
  <2>2. Written(r, w, o, s, h)
    BY <1>1, <1>3, <2>1, ResultPut
  <2> QED BY <2>2 DEF Written
<1>5. r.players[h] \in PlayerRecord
  BY <1>1, <1>4, RecordFacts
<1>6. /\ s.players[h].wallet = r.players[h].wallet
      /\ s.players[h].isBot = r.players[h].isBot
      /\ s.players[h].pouredMl = o.pouredMl /\ s.players[h].submissionIndex = n
  BY <1>4, <1>5 DEF PlayerRecord
<1> HIDE DEF s, h, n
<1>7. \A i \in Seats(s) : /\ i \in Seats(r)
                          /\ s.players[i].wallet = r.players[i].wallet
                          /\ s.players[i].isBot = r.players[i].isBot
  BY <1>4, <1>6
<1>8. HasGuest(r) => HasGuest(s)
  BY <1>4, <1>7 DEF HasGuest
<1>9. Seating(s)
  BY <1>1, <1>4, <1>7, <1>8 DEF Seating
<1>10. Results(s)
  <2>1. \A i \in Seats(s) : s.players[i].pouredMl < OVERFLOW_SENTINEL
    BY <1>1, <1>4, <1>6 DEF Results, Outcomes
  <2>2. Cardinality(Playing(s)) = Cardinality(Playing(r)) - 1
    BY <1>2, <1>4, FS_RemoveElement
  <2>3. n \in Nat /\ Len(s.players) - Cardinality(Playing(s)) = n + 1
    BY <1>2, <1>3, <1>4, <2>2 DEF n
  <2>4. \A i \in Done(r) :
          /\ i \in Seats(r) /\ i # h /\ s.players[i] = r.players[i]
          /\ r.players[i].submissionIndex \in Nat /\ r.players[i].submissionIndex < n
    <3>1. \A i \in Done(r) : i \in Seats(r) /\ i # h
      BY <1>4 DEF Done
    <3>2. \A i \in Done(r) : r.players[i].submissionIndex \in Nat
      BY <1>1, <3>1, RecordFacts DEF PlayerRecord
    <3> QED BY <1>1, <1>4, <3>1, <3>2 DEF Results, n
  <2>5. \A i \in Done(s) : s.players[i].submissionIndex < n + 1
    <3>1. Done(s) = Done(r) \cup {h} /\ s.players[h].submissionIndex = n
      BY <1>4, <1>6
    <3>2. \A i \in Done(r) : s.players[i].submissionIndex < n + 1
      BY <2>3, <2>4
    <3>3. n < n + 1
      BY <2>3
    <3> QED BY <3>1, <3>2, <3>3
  <2>6. \A i, j \in Done(s) :
          s.players[i].submissionIndex = s.players[j].submissionIndex => i = j
    <3>1. \A i \in Done(r) : s.players[i].submissionIndex # s.players[h].submissionIndex
      BY <1>6, <2>3, <2>4
    <3>2. \A i, j \in Done(r) :
            s.players[i].submissionIndex = s.players[j].submissionIndex => i = j
      BY <1>1, <2>4 DEF Results
    <3> QED BY <1>4, <3>1, <3>2
  <2> QED BY <2>1, <2>3, <2>5, <2>6 DEF Results
<1>11. Ended(s)
  BY <1>1, <1>4 DEF Ended
<1> QED BY <1>4, <1>8, <1>9, <1>10, <1>11 DEF Sound, s

-----------------------------------------------------------------------------
(* The winners in the order of their results *)

Rank(S, idx, p) == Cardinality({ q \in S : idx[q] < idx[p] })

\* In a finite set every position has exactly one element, if the elements have
\* distinct numbers.
LEMMA Ranking ==
  ASSUME NEW S, IsFiniteSet(S), NEW idx \in [ S -> Nat ],
         \A p, q \in S : idx[p] = idx[q] => p = q
  PROVE  /\ \A p \in S : Rank(S, idx, p) + 1 \in 1 .. Cardinality(S)
         /\ \A p, q \in S : idx[p] < idx[q] => Rank(S, idx, p) < Rank(S, idx, q)
         /\ \A p, q \in S : Rank(S, idx, p) = Rank(S, idx, q) => p = q
         /\ \A k \in 1 .. Cardinality(S) : \E p \in S : Rank(S, idx, p) = k - 1
<1> DEFINE n == Cardinality(S)
           below(p) == { q \in S : idx[q] < idx[p] }
<1>1. \A p \in S : below(p) \in SUBSET S /\ p \notin below(p)
  OBVIOUS
<1>2. ASSUME NEW T \in SUBSET S
      PROVE  IsFiniteSet(T) /\ Cardinality(T) \in Nat /\ Cardinality(T) =< n
  BY FS_Subset, FS_CardinalityType
<1>3. n \in Nat
  BY FS_CardinalityType
<1>4. ASSUME NEW T \in SUBSET S, NEW p \in S, p \notin T
      PROVE  Cardinality(T) + 1 =< n
  <2>1. Cardinality(T \cup {p}) = Cardinality(T) + 1
    BY <1>2, <1>4, FS_AddElement
  <2>2. T \cup {p} \in SUBSET S
    OBVIOUS
  <2>3. Cardinality(T \cup {p}) =< n
    BY <1>2, <2>2
  <2> QED BY <2>1, <2>3
<1> HIDE DEF n
<1>5. \A p \in S : Rank(S, idx, p) \in Nat /\ Rank(S, idx, p) + 1 =< n
  <2> TAKE p \in S
  <2>1. Rank(S, idx, p) = Cardinality(below(p))
    BY DEF Rank
  <2> HIDE DEF below
  <2> QED BY <1>1, <1>2, <1>4, <2>1
<1>6. \A p \in S : Rank(S, idx, p) + 1 \in 1 .. n
  BY <1>3, <1>5
<1>7. ASSUME NEW p \in S, NEW q \in S, idx[p] < idx[q]
      PROVE  Rank(S, idx, p) < Rank(S, idx, q)
  <2>1. below(p) \cup {p} \in SUBSET below(q)
    <3>1. \A x \in below(p) : idx[x] \in Nat /\ idx[p] \in Nat /\ idx[q] \in Nat
      OBVIOUS
    <3> QED BY <1>7, <3>1
  <2>2. Rank(S, idx, p) = Cardinality(below(p)) /\ Rank(S, idx, q) = Cardinality(below(q))
    BY DEF Rank
  <2>3. IsFiniteSet(below(p)) /\ IsFiniteSet(below(q)) /\ p \notin below(p)
    <3> HIDE DEF below
    <3> QED BY <1>1, <1>2
  <2> HIDE DEF below
  <2>4. Cardinality(below(p) \cup {p}) = Cardinality(below(p)) + 1
    BY <2>3, FS_AddElement
  <2>5. Cardinality(below(p) \cup {p}) =< Cardinality(below(q))
    BY <2>1, <2>3, FS_Subset
  <2>6. Cardinality(below(p)) \in Nat /\ Cardinality(below(q)) \in Nat
    BY <2>3, FS_CardinalityType
  <2> QED BY <2>2, <2>4, <2>5, <2>6
<1>8. ASSUME NEW p \in S, NEW q \in S, Rank(S, idx, p) = Rank(S, idx, q)
      PROVE  p = q
  <2>1. idx[p] \in Nat /\ idx[q] \in Nat
    OBVIOUS
  <2>2. ~ (idx[p] < idx[q]) /\ ~ (idx[q] < idx[p])
    BY <1>5, <1>7, <1>8
  <2>3. idx[p] = idx[q]
    BY <2>1, <2>2
  <2> QED BY <2>3
<1>9. \A k \in 1 .. n : \E p \in S : Rank(S, idx, p) = k - 1
  <2> DEFINE f == [ p \in S |-> Rank(S, idx, p) + 1 ]
  <2>1. f \in Injection(S, 1 .. n)
    <3>1. f \in [ S -> 1 .. n ]
      BY <1>6
    <3>2. \A p, q \in S : f[p] = f[q] => p = q
      BY <1>5, <1>8
    <3> HIDE DEF f
    <3> QED BY <3>1, <3>2 DEF Injection, IsInjective
  <2>2. IsFiniteSet(1 .. n) /\ Cardinality(1 .. n) = n
    BY <1>3, FS_Interval
  <2>3. f \in Surjection(S, 1 .. n)
    <3> HIDE DEF f
    <3> QED BY <2>1, <2>2, FS_Injection DEF n
  <2>4. \A k \in 1 .. n : \E p \in S : f[p] = k
    <3> HIDE DEF f
    <3> QED BY <2>3 DEF Surjection
  <2> TAKE k \in 1 .. n
  <2>5. PICK p \in S : f[p] = k
    BY <2>4
  <2>6. Rank(S, idx, p) = k - 1
    BY <1>5, <2>5
  <2> QED BY <2>6
<1> QED BY <1>6, <1>7, <1>8, <1>9 DEF n

Best(r) == Min({ scoreOf(r.players[i]) : i \in Seats(r) })
Won(r) == { p \in Players(r) : scoreOf(p) = Best(r) }

\* What is known of a complete, sound record.
LEMMA CompleteFacts ==
  ASSUME NEW r, Sound(r), Complete(r)
  PROVE  /\ r \in LobbyRecord /\ Len(r.players) \in Nat \ {0}
         /\ Seats(r) = 1 .. Len(r.players)
         /\ \A i \in Seats(r) :
              /\ r.players[i] \in PlayerRecord
              /\ r.players[i].pouredMl < OVERFLOW_SENTINEL
         /\ \A i, j \in Seats(r) :
              /\ r.players[i].submissionIndex = r.players[j].submissionIndex => i = j
              /\ r.players[i].wallet = r.players[j].wallet => i = j
         /\ Players(r) = { r.players[i] : i \in Seats(r) }
<1>1. r \in LobbyRecord
  BY DEF Sound
<1>2. Done(r) = Seats(r) /\ Len(r.players) >= Size
  BY <1>1, CompleteMeans
<1>3. Len(r.players) \in Nat \ {0}
  BY <1>1, <1>2, SizeTyped, RecordFacts
<1>4. Players(r) = { r.players[i] : i \in Seats(r) }
  BY DEF Players, Range, Seats
<1> QED BY <1>1, <1>2, <1>3, <1>4, RecordFacts DEF Sound, Seating, Results

LEMMA ScoreTyped ==
  ASSUME NEW p \in PlayerRecord
  PROVE  scoreOf(p) \in Nat
<1>1. p.pouredMl \in Nat /\ p.overflow \in BOOLEAN
  BY DEF PlayerRecord
<1> QED BY <1>1, NumbersTyped DEF scoreOf

\* There is a best score, and somebody who has it.
LEMMA BestExists ==
  ASSUME NEW r, Sound(r), Complete(r)
  PROVE  /\ \E i \in Seats(r) : scoreOf(r.players[i]) = Best(r)
         /\ \A i \in Seats(r) : Best(r) =< scoreOf(r.players[i])
<1> DEFINE S == { scoreOf(r.players[i]) : i \in Seats(r) }
<1>1. S \subseteq Nat /\ S # {}
  <2>1. \A i \in Seats(r) : r.players[i] \in PlayerRecord
    BY CompleteFacts
  <2>2. S \subseteq Nat
    BY <2>1, ScoreTyped
  <2>3. 1 \in Seats(r)
    BY CompleteFacts
  <2> QED BY <2>2, <2>3
<1>2. \E m \in S : \A n \in S : m =< n
  <2> HIDE DEF S
  <2> DEFINE Less == OpToRel(<, Nat)
  <2>1. IsWellFoundedOn(Less, Nat)
    BY NatLessThanWellFounded
  <2>2. PICK m \in S : \A n \in S : ~ (<< n, m >> \in Less)
    <3> HIDE DEF Less
    <3> QED BY <1>1, <2>1, WFMin
  <2>3. \A n \in S : ~ (n < m)
    BY <1>1, <2>2 DEF OpToRel
  <2> QED BY <1>1, <2>3
<1>3. Best(r) \in S /\ \A n \in S : Best(r) =< n
  <2>1. Best(r) = Min(S)
    BY DEF Best
  <2> HIDE DEF S
  <2> QED BY <1>2, <2>1 DEF Min
<1> QED BY <1>3

\* computeWinners names everybody with the best score once, the first to have
\* got a result first (simulation.ts:93-105).
LEMMA WinnersRanked ==
  ASSUME NEW r, Sound(r), Complete(r)
  PROVE  LET ws == computeWinners(r.players)
             n == Cardinality(Won(r))
         IN /\ n \in Nat \ {0} /\ IsFiniteSet(Won(r))
            /\ ws \in [ 1 .. n -> Won(r) ]
            /\ \A k, m \in 1 .. n : ws[k] = ws[m] => k = m
            /\ \A p \in Won(r) : \E k \in 1 .. n : ws[k] = p
            /\ \A p \in Won(r) : ws[1].submissionIndex =< p.submissionIndex
<1> DEFINE ws == computeWinners(r.players)
           W == Won(r)
           n == Cardinality(W)
           idx == [ p \in W |-> p.submissionIndex ]
<1>1. W \subseteq Players(r) /\ \A p \in W : p \in PlayerRecord
  BY CompleteFacts DEF Won
<1>2. IsFiniteSet(W)
  <2> DEFINE f == [ i \in Seats(r) |-> r.players[i] ]
  <2>1. f \in Surjection(Seats(r), Players(r))
    <3>1. Players(r) = { r.players[i] : i \in Seats(r) }
      BY CompleteFacts
    <3>2. f \in [ Seats(r) -> Players(r) ] /\ \A p \in Players(r) : \E i \in Seats(r) : f[i] = p
      BY <3>1
    <3> HIDE DEF f
    <3> QED BY <3>2 DEF Surjection
  <2>2. IsFiniteSet(Seats(r))
    BY CompleteFacts, FS_Interval
  <2>3. IsFiniteSet(Players(r))
    <3> HIDE DEF f
    <3> QED BY <2>1, <2>2, FS_Surjection
  <2> QED BY <1>1, <2>3, FS_Subset
<1>3. n \in Nat \ {0}
  <2>1. W # {}
    <3>1. PICK i \in Seats(r) : scoreOf(r.players[i]) = Best(r)
      BY BestExists
    <3>2. r.players[i] \in W
      BY <3>1, CompleteFacts DEF Won
    <3> QED BY <3>2
  <2> QED BY <1>2, <2>1, FS_CardinalityType, FS_EmptySet
<1>4. idx \in [ W -> Nat ] /\ \A p, q \in W : idx[p] = idx[q] => p = q
  <2>1. \A p \in W : p.submissionIndex \in Nat
    BY <1>1 DEF PlayerRecord
  <2>2. ASSUME NEW p \in W, NEW q \in W, p.submissionIndex = q.submissionIndex
        PROVE  p = q
    <3>1. PICK i \in Seats(r) : p = r.players[i]
      BY <1>1, CompleteFacts
    <3>2. PICK j \in Seats(r) : q = r.players[j]
      BY <1>1, CompleteFacts
    <3> QED BY <2>2, <3>1, <3>2, CompleteFacts
  <2> HIDE DEF W
  <2> QED BY <2>1, <2>2
<1>5. /\ \A p \in W : Rank(W, idx, p) + 1 \in 1 .. n
      /\ \A p, q \in W : idx[p] < idx[q] => Rank(W, idx, p) < Rank(W, idx, q)
      /\ \A p, q \in W : Rank(W, idx, p) = Rank(W, idx, q) => p = q
      /\ \A k \in 1 .. n : \E p \in W : Rank(W, idx, p) = k - 1
  <2> HIDE DEF W, idx
  <2> QED BY <1>2, <1>4, Ranking
<1>6. \A p \in W : Rank(W, idx, p) = Cardinality({ q \in W : q.submissionIndex < p.submissionIndex })
  <2> TAKE p \in W
  <2>1. { q \in W : idx[q] < idx[p] } = { q \in W : q.submissionIndex < p.submissionIndex }
    <3> HIDE DEF W
    <3> QED OBVIOUS
  <2> QED BY <2>1 DEF Rank
<1>7. ws = [ k \in 1 .. n |->
               CHOOSE p \in W :
                 Cardinality({ q \in W : q.submissionIndex < p.submissionIndex }) = k - 1 ]
  BY DEF computeWinners, Won, Best, Players, Seats
<1> HIDE DEF ws, W, n, idx
<1>8. \A k \in 1 .. n : ws[k] \in W /\ Rank(W, idx, ws[k]) = k - 1
  <2> TAKE k \in 1 .. n
  <2>1. PICK p \in W : Rank(W, idx, p) = k - 1
    BY <1>5
  <2>2. ws[k] = CHOOSE x \in W : Cardinality({ q \in W : q.submissionIndex < x.submissionIndex }) = k - 1
    BY <1>7
  <2>3. \E x \in W : Cardinality({ q \in W : q.submissionIndex < x.submissionIndex }) = k - 1
    BY <1>6, <2>1
  <2>4. ws[k] \in W /\ Cardinality({ q \in W : q.submissionIndex < ws[k].submissionIndex }) = k - 1
    BY <2>2, <2>3
  <2> QED BY <1>6, <2>4
<1>9. ws \in [ 1 .. n -> W ]
  BY <1>7, <1>8
<1>10. \A k, m \in 1 .. n : ws[k] = ws[m] => k = m
  <2> TAKE k, m \in 1 .. n
  <2> HAVE ws[k] = ws[m]
  <2>1. k - 1 = m - 1
    BY <1>8
  <2> QED BY <1>3, <2>1
<1>11. \A p \in W : \E k \in 1 .. n : ws[k] = p
  <2> TAKE p \in W
  <2>1. PICK k \in 1 .. n : k = Rank(W, idx, p) + 1
    BY <1>5
  <2>2. Rank(W, idx, ws[k]) = k - 1 /\ ws[k] \in W
    BY <1>8
  <2>3. Rank(W, idx, p) = k - 1
    <3>1. Rank(W, idx, p) \in Nat
      BY <1>2, FS_Subset, FS_CardinalityType DEF Rank
    <3> QED BY <2>1, <3>1
  <2>4. ws[k] = p
    BY <1>5, <2>2, <2>3
  <2> QED BY <2>4
<1>12. \A p \in W : ws[1].submissionIndex =< p.submissionIndex
  <2> TAKE p \in W
  <2>1. 1 \in 1 .. n
    BY <1>3
  <2>2. ws[1] \in W /\ Rank(W, idx, ws[1]) = 0
    BY <1>8, <2>1
  <2>3. idx[p] \in Nat /\ idx[ws[1]] \in Nat
    BY <1>4, <2>2
  <2>4. ~ (idx[p] < idx[ws[1]])
    <3>1. Rank(W, idx, p) \in Nat
      BY <1>2, FS_Subset, FS_CardinalityType DEF Rank
    <3> QED BY <1>5, <2>2, <3>1
  <2>5. idx[p] = p.submissionIndex /\ idx[ws[1]] = ws[1].submissionIndex
    BY <2>2 DEF idx
  <2> QED BY <2>3, <2>4, <2>5
<1> QED BY <1>2, <1>3, <1>9, <1>10, <1>11, <1>12 DEF ws, W, n

-----------------------------------------------------------------------------
(* The split of the pot *)

\* Division as the rules use it: a share for everybody and a rest.
LEMMA DivisionByWinners ==
  ASSUME NEW a \in Nat, NEW n \in Nat \ {0}
  PROVE  a \div n \in Nat /\ a - (a \div n) * n = a % n /\ a % n \in Nat
<1>1. a \div n \in Nat /\ a % n \in Nat
  OBVIOUS
<1>2. a = n * (a \div n) + (a % n)
  OBVIOUS
<1>3. n * (a \div n) = (a \div n) * n
  OBVIOUS
<1> QED BY <1>1, <1>2, <1>3

LEMMA FeeTyped ==
  ASSUME NEW pot \in Nat
  PROVE  feeOf(pot) \in Nat /\ feeOf(pot) =< pot
<1>1. pot * FEE_BPS \in Nat /\ pot * FEE_BPS =< pot * 10000
  <2>1. FEE_BPS \in Nat /\ FEE_BPS =< 10000
    BY NumbersTyped
  <2> QED BY <2>1, ProductsOrdered
<1>2. \A x \in Nat : x =< pot * 10000 => x \div 10000 \in Nat /\ x \div 10000 =< pot
  OBVIOUS
<1>3. (pot * FEE_BPS) \div 10000 \in Nat /\ (pot * FEE_BPS) \div 10000 =< pot
  BY <1>1, <1>2
<1> QED BY <1>3 DEF feeOf

PotOf(r) == EntryFee * Len(r.players)
Pool(r) == PotOf(r) - feeOf(PotOf(r))

LEMMA PoolTyped ==
  ASSUME NEW r \in LobbyRecord
  PROVE  PotOf(r) \in Nat /\ feeOf(PotOf(r)) \in Nat /\ Pool(r) \in Nat
<1>1. PotOf(r) \in Nat
  <2>1. \A a, b \in Nat : a * b \in Nat
    OBVIOUS
  <2> QED BY <2>1, RecordFacts, NumbersTyped DEF PotOf
<1>2. feeOf(PotOf(r)) \in Nat /\ feeOf(PotOf(r)) =< PotOf(r)
  BY <1>1, FeeTyped
<1> QED BY <1>1, <1>2 DEF Pool

\* What the verdict on a complete record says, winner by winner.
LEMMA VerdictFacts ==
  ASSUME NEW r, Sound(r), Complete(r)
  PROVE  LET ws == computeWinners(r.players)
             n == Cardinality(Won(r))
             s == Verdict(r)
         IN /\ s.fee = feeOf(PotOf(r)) /\ DOMAIN s.payouts = 1 .. n
            /\ \A k \in 1 .. n :
                 /\ s.payouts[k].player = ws[k].wallet
                 /\ s.payouts[k].lamports =
                      (Pool(r) \div n) + (IF k = 1 THEN Pool(r) % n ELSE 0)
            /\ s \in Settlement
<1> DEFINE ws == computeWinners(r.players)
           n == Cardinality(Won(r))
           s == Verdict(r)
           share == Pool(r) \div n
           paid == [ k \in 1 .. n |->
                       [ player |-> ws[k].wallet,
                         lamports |-> IF k = 1 THEN share + (Pool(r) - share * n) ELSE share ] ]
<1>1. n \in Nat \ {0} /\ ws \in [ 1 .. n -> Won(r) ]
  BY WinnersRanked
<1>2. DOMAIN ws = 1 .. n /\ Len(ws) = n
  <2> HIDE DEF ws, n
  <2>1. ws \in Seq(Won(r))
    BY <1>1
  <2> QED BY <1>1, <2>1
<1>3. s = [ fee |-> feeOf(PotOf(r)), payouts |-> paid ]
  <2>1. Verdict(r) = splitPot(PotOf(r), ws)
    BY DEF Verdict, PotOf
  <2> HIDE DEF ws, n
  <2> QED BY <1>2, <2>1 DEF splitPot, Pool
<1>4. r \in LobbyRecord
  BY DEF Sound
<1>5. Pool(r) \in Nat /\ feeOf(PotOf(r)) \in Nat
  BY <1>4, PoolTyped
<1>6. share \in Nat /\ Pool(r) - share * n = Pool(r) % n /\ Pool(r) % n \in Nat
  <2> HIDE DEF n
  <2> QED BY <1>1, <1>5, DivisionByWinners
<1>7. \A k \in 1 .. n : ws[k] \in PlayerRecord
  <2>1. \A p \in Won(r) : p \in PlayerRecord
    BY CompleteFacts DEF Won
  <2> HIDE DEF ws, n
  <2> QED BY <1>1, <2>1
<1> HIDE DEF ws, n, share
<1>8. \A k \in 1 .. n :
        /\ paid[k].player = ws[k].wallet
        /\ paid[k].lamports = share + (IF k = 1 THEN Pool(r) % n ELSE 0)
        /\ paid[k] \in [ player : Wallets, lamports : Nat ]
  <2> TAKE k \in 1 .. n
  <2>1. ws[k].wallet \in Wallets
    BY <1>7 DEF PlayerRecord
  <2>2. (IF k = 1 THEN share + (Pool(r) - share * n) ELSE share)
          = share + (IF k = 1 THEN Pool(r) % n ELSE 0)
    BY <1>6
  <2>3. share + (IF k = 1 THEN Pool(r) % n ELSE 0) \in Nat
    BY <1>6
  <2> QED BY <2>1, <2>2, <2>3
<1>9. paid \in Seq([ player : Wallets, lamports : Nat ])
  <2> DEFINE Payment == [ player : Wallets, lamports : Nat ]
  <2>1. paid \in [ 1 .. n -> Payment ]
    BY <1>8
  <2>2. n \in Nat
    BY <1>1
  <2> HIDE DEF paid, Payment
  <2>3. paid \in Seq(Payment)
    BY <2>1, <2>2
  <2> QED BY <2>3 DEF Payment
<1>10. DOMAIN paid = 1 .. n
  OBVIOUS
<1> HIDE DEF paid
<1>11. s \in Settlement
  BY <1>3, <1>5, <1>9 DEF Settlement
<1> QED BY <1>3, <1>8, <1>10, <1>11 DEF ws, n, s, share

\* maybeSettle's end: the verdict becomes the record's settlement.
LEMMA VerdictSound ==
  ASSUME NEW r, Sound(r), Complete(r)
  PROVE  LET s == [ r EXCEPT !.status = "settled", !.settlement = Verdict(r) ]
         IN Sound(s) /\ s.players = r.players
<1> DEFINE s == [ r EXCEPT !.status = "settled", !.settlement = Verdict(r) ]
<1>1. r \in LobbyRecord
  BY DEF Sound
<1>2. Verdict(r) \in Settlement
  BY VerdictFacts
<1>3. s \in LobbyRecord /\ s.players = r.players /\ s.status = "settled"
      /\ s.settlement = Verdict(r)
  BY <1>1, <1>2 DEF LobbyRecord
<1> HIDE DEF s
<1>4. Complete(s) /\ Verdict(s) = Verdict(r) /\ Seating(s) /\ Results(s)
  BY <1>3, SamePlayers DEF Sound
<1>5. Ended(s)
  BY <1>2, <1>3, <1>4, NotSettled DEF Ended
<1> QED BY <1>3, <1>4, <1>5 DEF Sound, s

-----------------------------------------------------------------------------
(* The program's rules on the same results *)

\* The instance of ZapfLobby counts like everybody else.
LEMMA ProgramCounts == \A S : Program!Cardinality(S) = Cardinality(S)
BY DEF Program!Cardinality, Cardinality

WinnerSeats(r) == { i \in Seats(r) : scoreOf(r.players[i]) = Best(r) }

LEMMA AccountRead ==
  ASSUME NEW r, Sound(r), Complete(r)
  PROVE  /\ Program!Seats(Account(r)) = Seats(r)
         /\ \A i \in Seats(r) :
              /\ Account(r).players[i].player = r.players[i].wallet
              /\ Account(r).players[i].submission_index = r.players[i].submissionIndex
              /\ Account(r).players[i].poured_ml =
                   IF r.players[i].overflow THEN OVERFLOW_SENTINEL ELSE r.players[i].pouredMl
         /\ Account(r).target_ml = TargetMl
         /\ Account(r).entry_fee = EntryFee /\ Account(r).size = Len(r.players)
<1>1. Account(r).players = [ i \in Seats(r) |->
        [ player |-> r.players[i].wallet, has_played |-> TRUE,
          poured_ml |-> IF r.players[i].overflow THEN OVERFLOW_SENTINEL ELSE r.players[i].pouredMl,
          submission_index |-> r.players[i].submissionIndex ] ]
  BY DEF Account, Seats
<1>2. Program!Seats(Account(r)) = Seats(r)
  BY <1>1 DEF Program!Seats
<1>3. /\ Account(r).target_ml = TargetMl
      /\ Account(r).entry_fee = EntryFee /\ Account(r).size = Len(r.players)
  BY DEF Account
<1> QED BY <1>1, <1>2, <1>3

\* An overflow is the worst score on either side, and the others are the same.
LEMMA ScoresOrdered ==
  ASSUME NEW r, Sound(r), Complete(r), NEW i \in Seats(r), NEW j \in Seats(r)
  PROVE  Program!Score(Account(r), i) =< Program!Score(Account(r), j)
           <=> scoreOf(r.players[i]) =< scoreOf(r.players[j])
<1> DEFINE worst(p) == p.overflow
           gap(p) == IF p.pouredMl < TargetMl THEN TargetMl - p.pouredMl ELSE p.pouredMl - TargetMl
<1>1. OVERFLOW_SENTINEL \in Nat /\ TargetMl \in Nat /\ TargetMl < OVERFLOW_SENTINEL
  BY NumbersTyped, PoursFit
<1>2. ASSUME NEW h \in Seats(r)
      PROVE  LET p == r.players[h] IN
             /\ p.overflow \in BOOLEAN /\ gap(p) \in Nat /\ gap(p) < OVERFLOW_SENTINEL
             /\ scoreOf(p) = IF worst(p) THEN OVERFLOW_SENTINEL ELSE gap(p)
             /\ Program!Score(Account(r), h) =
                  IF worst(p) THEN 2 * OVERFLOW_SENTINEL ELSE gap(p)
  <2> DEFINE p == r.players[h]
  <2>1. p.overflow \in BOOLEAN /\ p.pouredMl \in Nat /\ p.pouredMl < OVERFLOW_SENTINEL
    BY CompleteFacts DEF PlayerRecord
  <2>2. Account(r).players[h].poured_ml = IF p.overflow THEN OVERFLOW_SENTINEL ELSE p.pouredMl
    BY AccountRead
  <2>3. Account(r).target_ml = TargetMl
    BY AccountRead
  <2> HIDE DEF p
  <2>4. gap(p) \in Nat /\ gap(p) < OVERFLOW_SENTINEL
    BY <1>1, <2>1
  <2>5. scoreOf(p) = IF worst(p) THEN OVERFLOW_SENTINEL ELSE gap(p)
    BY <1>1, <2>1 DEF scoreOf
  <2>6. Program!Score(Account(r), h) = IF worst(p) THEN 2 * OVERFLOW_SENTINEL ELSE gap(p)
    BY <1>1, <2>1, <2>2, <2>3 DEF Program!Score
  <2> QED BY <2>1, <2>4, <2>5, <2>6 DEF p
<1> HIDE DEF gap, worst
<1> QED BY <1>1, <1>2

LEMMA SameWinners ==
  ASSUME NEW r, Sound(r), Complete(r)
  PROVE  /\ Program!WinnerIndices(Account(r)) = WinnerSeats(r)
         /\ Won(r) = { r.players[i] : i \in WinnerSeats(r) }
         /\ Cardinality(WinnerSeats(r)) = Cardinality(Won(r))
<1>1. \A i \in Seats(r) : scoreOf(r.players[i]) \in Nat
  BY CompleteFacts, ScoreTyped
<1>2. \A i \in Seats(r) : scoreOf(r.players[i]) = Best(r)
        <=> \A j \in Seats(r) : scoreOf(r.players[i]) =< scoreOf(r.players[j])
  <2> TAKE i \in Seats(r)
  <2>1. PICK h \in Seats(r) : scoreOf(r.players[h]) = Best(r)
    BY BestExists
  <2>2. \A j \in Seats(r) : Best(r) =< scoreOf(r.players[j])
    BY BestExists
  <2> QED BY <1>1, <2>1, <2>2
<1>3. Program!WinnerIndices(Account(r)) = WinnerSeats(r)
  <2>1. Program!WinnerIndices(Account(r)) =
          { i \in Seats(r) : \A j \in Seats(r) :
              Program!Score(Account(r), i) =< Program!Score(Account(r), j) }
    BY AccountRead DEF Program!WinnerIndices
  <2>2. \A i, j \in Seats(r) : Program!Score(Account(r), i) =< Program!Score(Account(r), j)
           <=> scoreOf(r.players[i]) =< scoreOf(r.players[j])
    BY ScoresOrdered
  <2>3. \A i \in Seats(r) :
          (\A j \in Seats(r) : Program!Score(Account(r), i) =< Program!Score(Account(r), j))
            <=> i \in WinnerSeats(r)
    BY <1>2, <2>2 DEF WinnerSeats
  <2>4. WinnerSeats(r) \subseteq Seats(r)
    BY DEF WinnerSeats
  <2> QED BY <2>1, <2>3, <2>4
<1>4. Won(r) = { r.players[i] : i \in WinnerSeats(r) }
  BY CompleteFacts DEF Won, WinnerSeats
<1>5. Cardinality(WinnerSeats(r)) = Cardinality(Won(r))
  <2> DEFINE f == [ i \in WinnerSeats(r) |-> r.players[i] ]
  <2>1. f \in Bijection(WinnerSeats(r), Won(r))
    <3>1. f \in [ WinnerSeats(r) -> Won(r) ]
      BY <1>4
    <3>2. \A p \in Won(r) : \E i \in WinnerSeats(r) : f[i] = p
      BY <1>4
    <3>3. \A i, j \in WinnerSeats(r) : f[i] = f[j] => i = j
      BY CompleteFacts DEF WinnerSeats
    <3> HIDE DEF f
    <3> QED BY <3>1, <3>2, <3>3 DEF Bijection, Injection, Surjection, IsInjective
  <2>2. IsFiniteSet(WinnerSeats(r))
    <3>1. IsFiniteSet(Seats(r))
      BY CompleteFacts, FS_Interval
    <3>2. WinnerSeats(r) \in SUBSET Seats(r)
      BY DEF WinnerSeats
    <3> QED BY <3>1, <3>2, FS_Subset
  <2>3. ExistsBijection(WinnerSeats(r), Won(r))
    <3> HIDE DEF f
    <3> QED BY <2>1 DEF ExistsBijection
  <2> QED BY <2>2, <2>3, FS_Bijection
<1> QED BY <1>3, <1>4, <1>5

\* Both give the remainder to the winner with the first result: the server by
\* sorting, the program by looking for the smallest index.
LEMMA SameFirstWinner ==
  ASSUME NEW r, Sound(r), Complete(r)
  PROVE  /\ Program!RemainderWinner(Account(r)) \in WinnerSeats(r)
         /\ computeWinners(r.players)[1] = r.players[Program!RemainderWinner(Account(r))]
<1> DEFINE ws == computeWinners(r.players)
           A == Account(r)
           idx(i) == r.players[i].submissionIndex
<1>1. Program!RemainderWinner(A) =
        CHOOSE i \in WinnerSeats(r) : \A j \in WinnerSeats(r) :
          A.players[i].submission_index =< A.players[j].submission_index
  BY SameWinners DEF Program!RemainderWinner
<1>2. \A i \in WinnerSeats(r) : i \in Seats(r) /\ A.players[i].submission_index = idx(i)
  BY AccountRead DEF WinnerSeats
<1>3. PICK h \in WinnerSeats(r) : ws[1] = r.players[h]
  <2>1. ws[1] \in Won(r)
    BY WinnersRanked
  <2> QED BY <2>1, SameWinners
<1>4. \A j \in WinnerSeats(r) : idx(h) =< idx(j)
  <2> TAKE j \in WinnerSeats(r)
  <2>1. r.players[j] \in Won(r)
    BY SameWinners
  <2>2. ws[1].submissionIndex =< r.players[j].submissionIndex
    BY <2>1, WinnersRanked
  <2> QED BY <1>3, <2>2
<1>5. \A i \in WinnerSeats(r) : idx(i) \in Nat
  BY <1>2, CompleteFacts DEF PlayerRecord
<1> DEFINE m == Program!RemainderWinner(A)
<1> HIDE DEF A, ws
<1>6. m \in WinnerSeats(r) /\ \A j \in WinnerSeats(r) :
          A.players[m].submission_index =< A.players[j].submission_index
  <2>1. \E i \in WinnerSeats(r) : \A j \in WinnerSeats(r) :
          A.players[i].submission_index =< A.players[j].submission_index
    BY <1>2, <1>4
  <2> QED BY <1>1, <2>1
<1>7. idx(m) =< idx(h)
  BY <1>2, <1>6
<1>8. m = h
  <2>1. idx(m) = idx(h)
    BY <1>4, <1>5, <1>6, <1>7
  <2> QED BY <1>2, <1>6, <2>1, CompleteFacts
<1> QED BY <1>3, <1>6, <1>8 DEF A, ws

\* The server's verdict gives the operator and every player what the program
\* would (simulation.ts:4-8, settle_lobby.rs:84-150).
LEMMA VerdictAsProgram ==
  ASSUME NEW r, Sound(r), Complete(r)
  PROVE  /\ Verdict(r).fee = Program!FeeOf(Account(r), FEE_BPS)
         /\ \A w \in Wallets : Paid(Verdict(r), w) = Program!Payout(Account(r), FEE_BPS, w)
<1> DEFINE ws == computeWinners(r.players)
           n == Cardinality(Won(r))
           s == Verdict(r)
           A == Account(r)
           m == Program!RemainderWinner(A)
           owed(i) == (Pool(r) \div n) + (IF i = m THEN Pool(r) % n ELSE 0)
<1>1. /\ Program!FeeOf(A, FEE_BPS) = feeOf(PotOf(r))
      /\ Program!Pool(A, FEE_BPS) = Pool(r)
  <2>1. Program!Pot(A) = PotOf(r)
    BY AccountRead DEF Program!Pot, PotOf
  <2>2. Program!FeeOf(A, FEE_BPS) = feeOf(PotOf(r))
    BY <2>1 DEF Program!FeeOf, Program!BPS_DENOMINATOR, feeOf
  <2> QED BY <2>1, <2>2 DEF Program!Pool, Pool
<1>2. /\ Program!Share(A, FEE_BPS) = Pool(r) \div n
      /\ Program!Remainder(A, FEE_BPS) = Pool(r) % n
  <2>1. Cardinality(Program!WinnerIndices(A)) = n
    BY SameWinners
  <2> HIDE DEF n, A
  <2>2. Program!Share(A, FEE_BPS) = Pool(r) \div n
    BY <1>1, <2>1, ProgramCounts, Zenon DEF Program!Share
  <2>3. Program!Remainder(A, FEE_BPS) = Pool(r) % n
    BY <1>1, <2>1, ProgramCounts, Zenon DEF Program!Remainder
  <2> QED BY <2>2, <2>3
<1>3. /\ n \in Nat \ {0}
      /\ \A k, j \in 1 .. n : ws[k] = ws[j] => k = j
      /\ \A p \in Won(r) : \E k \in 1 .. n : ws[k] = p
      /\ \A k \in 1 .. n : ws[k] \in Won(r)
  BY WinnersRanked
<1>4. /\ s.fee = feeOf(PotOf(r)) /\ DOMAIN s.payouts = 1 .. n
      /\ \A k \in 1 .. n :
           /\ s.payouts[k].player = ws[k].wallet
           /\ s.payouts[k].lamports = (Pool(r) \div n) + (IF k = 1 THEN Pool(r) % n ELSE 0)
  BY VerdictFacts
<1>5. m \in WinnerSeats(r) /\ ws[1] = r.players[m]
  BY SameFirstWinner
<1>6. /\ Won(r) = { r.players[i] : i \in WinnerSeats(r) }
      /\ WinnerSeats(r) \subseteq Seats(r)
  BY SameWinners DEF WinnerSeats
<1>7. \A i, j \in Seats(r) : r.players[i].wallet = r.players[j].wallet => i = j
  BY CompleteFacts
<1>8. \A w \in Wallets : Program!Payout(A, FEE_BPS, w) =
        LET won == { i \in WinnerSeats(r) : A.players[i].player = w }
        IN IF won = {} THEN 0
           ELSE (Pool(r) \div n) + (IF m \in won THEN Pool(r) % n ELSE 0)
  <2>1. Program!WinnerIndices(A) = WinnerSeats(r)
    BY SameWinners
  <2> TAKE w \in Wallets
  <2> HIDE DEF n, A
  <2> QED BY <1>2, <2>1 DEF Program!Payout, m
<1>9. \A i \in WinnerSeats(r) : A.players[i].player = r.players[i].wallet
  BY <1>6, AccountRead
<1> HIDE DEF ws, n, s, A, m
<1>10. Pool(r) \div n \in Nat /\ Pool(r) % n \in Nat
  <2>1. Pool(r) \in Nat
    BY PoolTyped DEF Sound
  <2> QED BY <1>3, <2>1, DivisionByWinners
<1>11. ASSUME NEW w \in Wallets, NEW i \in WinnerSeats(r), r.players[i].wallet = w
       PROVE  Paid(s, w) = Program!Payout(A, FEE_BPS, w)
  <2>1. PICK k \in 1 .. n : ws[k] = r.players[i]
    <3>1. r.players[i] \in Won(r)
      BY <1>6
    <3> QED BY <1>3, <3>1
  <2>2. \A j \in 1 .. n : ws[j].wallet = w => j = k
    <3> TAKE j \in 1 .. n
    <3> HAVE ws[j].wallet = w
    <3>1. PICK h \in WinnerSeats(r) : ws[j] = r.players[h]
      BY <1>3, <1>6
    <3>2. h = i
      BY <1>6, <1>7, <1>11, <3>1
    <3> QED BY <1>3, <2>1, <3>1, <3>2
  <2>3. { j \in DOMAIN s.payouts : s.payouts[j].player = w } = {k}
    <3>1. \A j \in 1 .. n : s.payouts[j].player = w <=> j = k
      BY <1>4, <1>11, <2>1, <2>2
    <3> QED BY <1>4, <3>1
  <2>4. Paid(s, w) = s.payouts[k].lamports
    BY <2>3 DEF Paid
  <2>5. k = 1 <=> i = m
    <3>1. ASSUME k = 1
          PROVE  i = m
      <4>1. r.players[i] = r.players[m]
        BY <1>5, <2>1, <3>1
      <4>2. r.players[i].wallet = r.players[m].wallet
        BY <4>1
      <4> QED BY <1>5, <1>6, <1>7, <4>2
    <3>2. ASSUME i = m
          PROVE  k = 1
      <4>1. 1 \in 1 .. n
        BY <1>3
      <4> QED BY <1>3, <1>5, <2>1, <3>2, <4>1
    <3> QED BY <3>1, <3>2
  <2>6. { j \in WinnerSeats(r) : A.players[j].player = w } = {i}
    <3>1. \A j \in WinnerSeats(r) : A.players[j].player = w <=> j = i
      BY <1>6, <1>7, <1>9, <1>11
    <3> QED BY <3>1
  <2>7. Program!Payout(A, FEE_BPS, w) = (Pool(r) \div n) + (IF i = m THEN Pool(r) % n ELSE 0)
    BY <1>8, <2>6
  <2> QED BY <1>4, <2>4, <2>5, <2>7
<1>12. ASSUME NEW w \in Wallets, \A i \in WinnerSeats(r) : r.players[i].wallet # w
       PROVE  Paid(s, w) = Program!Payout(A, FEE_BPS, w)
  <2>1. \A k \in 1 .. n : ws[k].wallet # w
    BY <1>3, <1>6, <1>12
  <2>2. { j \in DOMAIN s.payouts : s.payouts[j].player = w } = {}
    BY <1>4, <2>1
  <2>3. { j \in WinnerSeats(r) : A.players[j].player = w } = {}
    BY <1>9, <1>12
  <2>4. Paid(s, w) = 0
    BY <2>2 DEF Paid
  <2>5. Program!Payout(A, FEE_BPS, w) = 0
    BY <1>8, <2>3
  <2> QED BY <2>4, <2>5
<1> QED BY <1>1, <1>4, <1>11, <1>12 DEF s, A

-----------------------------------------------------------------------------
(* The queue of saves *)

LEMMA QueueFacts ==
  ASSUME NEW q \in Seq(Saves)
  PROVE  /\ Len(q) \in Nat /\ DOMAIN q = 1 .. Len(q)
         /\ \A k \in DOMAIN q : q[k] \in Saves
OBVIOUS

\* A save is asked for: the record it replaces in memory was not complete, or
\* nobody's result has changed.
LEMMA Pushed ==
  ASSUME NEW l, NEW d, NEW q, NEW v, Data(l, d, q, v),
         NEW m, Sound(m), Keeps(l, m),
         NEW x \in Nexts, x[1] = "settle" => Complete(m)
  PROVE  Data(m, d, Append(q, SaveOf(m, x)), v)
<1> DEFINE z == SaveOf(m, x)
           n == Len(q)
           p == Append(q, z)
<1>1. q \in Seq(Saves) /\ n \in Nat /\ DOMAIN q = 1 .. n
  BY QueueFacts DEF Data
<1>2. z \in Saves /\ z.record = m /\ z.next = x
  BY DEF SaveOf, Saves, Sound
<1>3. /\ p \in Seq(Saves) /\ DOMAIN p = DOMAIN q \cup {n + 1}
      /\ \A k \in DOMAIN q : p[k] = q[k]
      /\ p[n + 1] = z
  <2> HIDE DEF z
  <2>1. /\ p \in Seq(Saves) /\ Len(p) = n + 1
        /\ \A k \in 1 .. n : p[k] = q[k]
        /\ p[n + 1] = z
    BY <1>1, <1>2, AppendProperties
  <2>2. DOMAIN p = 1 .. n + 1
    BY <2>1
  <2> QED BY <1>1, <2>1, <2>2
<1>4. /\ Sound(l) /\ Sound(d) /\ v \subseteq Settlement
      /\ \A k \in DOMAIN q : Sound(q[k].record)
      /\ Keeps(d, l) /\ \A k \in DOMAIN q : Keeps(d, q[k].record) /\ Keeps(q[k].record, l)
      /\ \A j, k \in DOMAIN q : j =< k => Keeps(q[j].record, q[k].record)
      /\ \A k \in DOMAIN q : q[k].next[1] = "settle" => Complete(q[k].record)
      /\ v # {} => Complete(d) /\ v = { Verdict(d) }
  BY DEF Data
<1>5. Keeps(d, m) /\ \A k \in DOMAIN q : Keeps(q[k].record, m)
  <2>1. \A r : Keeps(r, l) => Keeps(r, m)
    BY StillKept DEF Keeps
  <2> QED BY <1>4, <2>1
<1>6. Keeps(m, m)
  BY DEF Keeps
<1>7. \A k \in DOMAIN q : k < n + 1
  BY <1>1
<1> HIDE DEF p, z, n
<1>8. \A k \in DOMAIN p : Sound(p[k].record)
  BY <1>2, <1>3, <1>4
<1>9. \A k \in DOMAIN p : Keeps(d, p[k].record) /\ Keeps(p[k].record, m)
  BY <1>2, <1>3, <1>4, <1>5, <1>6
<1>10. \A j, k \in DOMAIN p : j =< k => Keeps(p[j].record, p[k].record)
  <2> TAKE j, k \in DOMAIN p
  <2> HAVE j =< k
  <2>1. CASE k \in DOMAIN q
    <3>1. j \in DOMAIN q
      <4>1. j # n + 1
        BY <1>1, <1>7, <2>1
      <4> QED BY <1>3, <4>1
    <3> QED BY <1>3, <1>4, <2>1, <3>1
  <2>2. CASE k = n + 1
    BY <1>2, <1>3, <1>5, <1>6, <2>2
  <2> QED BY <1>3, <2>1, <2>2
<1>11. \A k \in DOMAIN p : p[k].next[1] = "settle" => Complete(p[k].record)
  BY <1>2, <1>3, <1>4
<1> QED BY <1>3, <1>4, <1>5, <1>8, <1>9, <1>10, <1>11 DEF Data, p, z

\* A save ends: its record is in the file, and if its caller settles, it calls
\* the chain with the verdict on the record in memory.
LEMMA Popped ==
  ASSUME NEW l, NEW d, NEW q, NEW v, Data(l, d, q, v), q # << >>
  PROVE  LET x == Head(q).next
             c == Head(q).record
         IN /\ x \in Nexts
            /\ x[1] = "settle" => Complete(l)
            /\ Data(l, c, Tail(q), IF x[1] = "settle" THEN v \cup { Verdict(l) } ELSE v)
<1> DEFINE c == Head(q).record
           x == Head(q).next
           t == Tail(q)
           u == IF x[1] = "settle" THEN v \cup { Verdict(l) } ELSE v
<1>1. q \in Seq(Saves) /\ Len(q) \in Nat /\ DOMAIN q = 1 .. Len(q) /\ 1 \in DOMAIN q
      /\ Head(q) = q[1]
  <2>1. q \in Seq(Saves)
    BY DEF Data
  <2> QED BY <2>1
<1>2. /\ t \in Seq(Saves) /\ DOMAIN t = 1 .. Len(q) - 1
      /\ \A k \in DOMAIN t : k + 1 \in DOMAIN q /\ t[k] = q[k + 1]
  <2>1. /\ t \in Seq(Saves) /\ Len(t) = Len(q) - 1
        /\ \A k \in 1 .. Len(t) : t[k] = q[k + 1]
    BY <1>1, HeadTailProperties
  <2>2. DOMAIN t = 1 .. Len(q) - 1
    BY <1>1, <2>1
  <2> QED BY <1>1, <2>1, <2>2
<1>3. /\ Sound(l) /\ Sound(d) /\ v \subseteq Settlement
      /\ \A k \in DOMAIN q : Sound(q[k].record)
      /\ Keeps(d, l) /\ \A k \in DOMAIN q : Keeps(d, q[k].record) /\ Keeps(q[k].record, l)
      /\ \A j, k \in DOMAIN q : j =< k => Keeps(q[j].record, q[k].record)
      /\ \A k \in DOMAIN q : q[k].next[1] = "settle" => Complete(q[k].record)
      /\ v # {} => Complete(d) /\ v = { Verdict(d) }
  BY DEF Data
<1>4. x \in Nexts
  BY <1>1, QueueFacts DEF Saves
<1>5. Sound(c) /\ Keeps(c, l) /\ Keeps(d, c) /\ (x[1] = "settle" => Complete(c))
  BY <1>1, <1>3
<1> HIDE DEF t, u
<1>6. x[1] = "settle" => Complete(l)
  BY <1>5, SamePlayers DEF Keeps
<1>7. \A k \in DOMAIN t : /\ Sound(t[k].record)
                          /\ Keeps(c, t[k].record) /\ Keeps(t[k].record, l)
                          /\ t[k].next[1] = "settle" => Complete(t[k].record)
  <2> TAKE k \in DOMAIN t
  <2>1. k + 1 \in DOMAIN q /\ 1 =< k + 1 /\ t[k] = q[k + 1]
    BY <1>1, <1>2
  <2> QED BY <1>1, <1>3, <2>1
<1>8. \A j, k \in DOMAIN t : j =< k => Keeps(t[j].record, t[k].record)
  <2> TAKE j, k \in DOMAIN t
  <2> HAVE j =< k
  <2>1. j + 1 \in DOMAIN q /\ k + 1 \in DOMAIN q /\ t[j] = q[j + 1] /\ t[k] = q[k + 1]
    BY <1>2
  <2>2. j + 1 =< k + 1
    BY <1>2
  <2> QED BY <1>3, <2>1, <2>2
<1>9. v # {} => Complete(c) /\ v = { Verdict(c) }
  <2> HAVE v # {}
  <2>1. c.players = d.players
    BY <1>3, <1>5 DEF Keeps
  <2> QED BY <1>3, <2>1, SamePlayers
<1>10. u # {} => Complete(c) /\ u = { Verdict(c) }
  <2>1. CASE x[1] = "settle"
    <3>1. Complete(c) /\ Verdict(l) = Verdict(c)
      BY <1>5, <2>1, SamePlayers DEF Keeps
    <3>2. u = v \cup { Verdict(l) }
      BY <2>1 DEF u
    <3> QED BY <1>9, <3>1, <3>2
  <2>2. CASE x[1] # "settle"
    BY <1>9, <2>2 DEF u
  <2> QED BY <2>1, <2>2
<1>11. u \subseteq Settlement
  BY <1>3, <1>6, VerdictFacts DEF u
<1>12. Data(l, c, t, u)
  BY <1>2, <1>3, <1>5, <1>7, <1>8, <1>10, <1>11 DEF Data
<1> QED BY <1>4, <1>6, <1>12 DEF t, u

\* What the file holds is loaded.
LEMMA Loaded ==
  ASSUME NEW l, NEW d, NEW q, NEW v, Data(l, d, q, v),
         NEW m, Sound(m), m.players = d.players
  PROVE  Data(m, d, << >>, v)
<1>1. Sound(d) /\ v \subseteq Settlement /\ (v # {} => Complete(d) /\ v = { Verdict(d) })
  BY DEF Data
<1>2. << >> \in Seq(Saves) /\ DOMAIN << >> = {}
  OBVIOUS
<1>3. Keeps(d, m)
  BY DEF Keeps
<1> QED BY <1>1, <1>2, <1>3 DEF Data

-----------------------------------------------------------------------------
(* The invariant is kept *)

DataNow == Data(lobby, disk, saves, verdicts)

LEMMA NextsTyped ==
  /\ << "recorded" >> \in Nexts /\ << "settle" >> \in Nexts /\ << "done" >> \in Nexts
  /\ \A w \in Wallets : << "joined", w >> \in Nexts
BY DEF Nexts

LEMMA NowSound ==
  ASSUME DataNow
  PROVE  Sound(lobby) /\ Sound(disk) /\ lobby \in LobbyRecord /\ disk \in LobbyRecord
BY DEF DataNow, Data, Sound

LEMMA InitIInv == Init => IInv
<1> SUFFICES ASSUME Init PROVE IInv
  OBVIOUS
<1>1. OpenLobby \in LobbyRecord /\ OpenLobby.players = << >>
      /\ OpenLobby.status = "open" /\ OpenLobby.settlement = NoSettlement
  BY EmptySeq DEF OpenLobby, LobbyRecord
<1>2. Seats(OpenLobby) = {} /\ Len(OpenLobby.players) = 0 /\ Done(OpenLobby) = {}
  BY <1>1 DEF Seats, Done
<1>3. ~ Complete(OpenLobby)
  BY <1>1, <1>2, CompleteMeans, SizeTyped
<1>4. Seating(OpenLobby) /\ Results(OpenLobby) /\ Ended(OpenLobby)
  BY <1>1, <1>2, SizeTyped DEF Seating, Results, Ended
<1>5. Sound(OpenLobby)
  BY <1>1, <1>4 DEF Sound
<1>6. << >> \in Seq(Saves) /\ DOMAIN << >> = {}
  OBVIOUS
<1>7. Data(OpenLobby, OpenLobby, << >>, {})
  BY <1>3, <1>5, <1>6 DEF Data, Keeps
<1>8. BotTimers
  BY DEF Init, BotTimers
<1>9. Clocks
  <2>1. 0 \in 0 .. MaxCrashes
    BY NumbersTyped
  <2>2. timers = {} /\ pours = {} /\ late = {} /\ dayOver = FALSE /\ up = TRUE /\ crashes = 0
    BY DEF Init
  <2> QED BY <2>1, <2>2 DEF Clocks
<1>10. Data(lobby, disk, saves, verdicts)
  <2>1. lobby = OpenLobby /\ disk = OpenLobby /\ saves = << >> /\ verdicts = {}
    BY DEF Init
  <2> QED BY <1>7, <2>1
<1> QED BY <1>8, <1>9, <1>10 DEF IInv

\* Nothing that is recorded or saved changes; timers may fire.
LEMMA StillStep ==
  ASSUME DataNow, BotTimers, UNCHANGED << lobby, disk, saves, verdicts >>, timers' \subseteq timers
  PROVE  DataNow' /\ BotTimers'
<1>1. DataNow'
  BY DEF DataNow, Data
<1>2. BotTimers'
  BY DEF BotTimers, HasGuest, Seats
<1> QED BY <1>1, <1>2

LEMMA TakeSeatStep ==
  ASSUME DataNow, BotTimers, NEW w \in Wallets, NEW fired,
         MayJoin(w), TakeSeat(w, fired), UNCHANGED << disk, verdicts >>,
         w \in Bots => w \in Crew /\ HasGuest(lobby)
  PROVE  DataNow' /\ BotTimers'
<1>1. Sound(lobby) /\ lobby \in LobbyRecord
  BY NowSound
<1>2. lobby.status = "open" /\ w \notin Seated(lobby) /\ Len(lobby.players) < Size
  <2>1. lobby.status = "open" /\ w \notin Seated(lobby) /\ ~ (Len(lobby.players) >= Size)
    BY DEF MayJoin, Full
  <2> QED BY <1>1, <2>1, RecordFacts, SizeTyped
<1>3. lobby' = WithSeat(lobby, w) /\ saves' = Append(saves, SaveOf(lobby', << "joined", w >>))
      /\ timers' = (timers \ fired) \cup { << "play", w >> }
  BY DEF TakeSeat, Persist, WithSeat, NewPlayer
<1>4. Sound(lobby') /\ (HasGuest(lobby) => HasGuest(lobby'))
  BY <1>1, <1>2, <1>3, SeatSound
<1>5. Keeps(lobby, lobby')
  <2>1. ~ Complete(lobby)
    BY <1>1, <1>2, CompleteMeans, RecordFacts, SizeTyped
  <2> QED BY <2>1 DEF Keeps
<1>6. << "joined", w >> \in Nexts /\ << "joined", w >>[1] # "settle"
  BY NextsTyped
<1>7. Data(lobby', disk, Append(saves, SaveOf(lobby', << "joined", w >>)), verdicts)
  BY <1>4, <1>5, <1>6, Pushed DEF DataNow
<1>8. DataNow'
  BY <1>3, <1>7 DEF DataNow
<1>9. BotTimers'
  <2>1. \A b : << "bot join", b >> \in timers' => << "bot join", b >> \in timers
    BY <1>3
  <2>2. \A b \in Bots : << "bot join", b >> \in timers => b \in Crew /\ HasGuest(lobby')
    BY <1>4 DEF BotTimers
  <2>3. ASSUME NEW b \in Bots, << "bot join", b >> \in timers'
        PROVE  b \in Crew /\ HasGuest(lobby')
    BY <2>1, <2>2, <2>3
  <2> QED BY <2>3 DEF BotTimers, HasGuest, Seats
<1> QED BY <1>8, <1>9

LEMMA RecordResultStep ==
  ASSUME DataNow, BotTimers, NEW w, NEW o \in Outcomes, NEW fired,
         RecordResult(w, o, fired), UNCHANGED << disk, verdicts >>
  PROVE  DataNow' /\ BotTimers' /\ timers' \subseteq timers
<1>1. timers' \subseteq timers
  BY DEF RecordResult
<1>2. CASE ~ MayRecord(w)
  <2>1. UNCHANGED << lobby, saves >>
    BY <1>2 DEF RecordResult
  <2> QED BY <1>1, <2>1, StillStep
<1>3. CASE MayRecord(w)
  <2>1. Sound(lobby) /\ lobby \in LobbyRecord /\ lobby.status = "open" /\ w \in Playing(lobby)
    BY <1>3, NowSound DEF MayRecord
  <2>2. lobby' = WithResult(lobby, w, o) /\ saves' = Append(saves, SaveOf(lobby', << "recorded" >>))
    BY <1>3 DEF RecordResult, Persist, WithResult
  <2>3. Sound(lobby') /\ (HasGuest(lobby) => HasGuest(lobby'))
    BY <2>1, <2>2, ResultSound
  <2>4. Keeps(lobby, lobby')
    BY <2>1 DEF Keeps, Complete
  <2>5. << "recorded" >> \in Nexts /\ << "recorded" >>[1] # "settle"
    BY NextsTyped
  <2>6. Data(lobby', disk, Append(saves, SaveOf(lobby', << "recorded" >>)), verdicts)
    BY <2>3, <2>4, <2>5, Pushed DEF DataNow
  <2>7. DataNow'
    BY <2>2, <2>6 DEF DataNow
  <2>8. BotTimers'
    <3>1. \A b \in Bots : << "bot join", b >> \in timers' => b \in Crew /\ HasGuest(lobby')
      BY <1>1, <2>3 DEF BotTimers
    <3> QED BY <3>1 DEF BotTimers, HasGuest, Seats
  <2> QED BY <1>1, <2>7, <2>8
<1> QED BY <1>2, <1>3

\* scheduleBots sets timers for names of the crew, and only where a guest sits
\* (lobby.ts:308-318).
LEMMA Scheduled ==
  ASSUME DataNow, NEW t \in scheduleBots
  PROVE  \E b \in Bots : t = << "bot join", b >> /\ b \in Crew /\ HasGuest(lobby)
<1> DEFINE existing == Cardinality(BotsIn(lobby))
<1>1. PICK a \in 0 .. ToAdd(existing) - 1 :
        t = << "bot join", BotNames[((existing + a) % Len(BotNames)) + 1] >>
  BY DEF scheduleBots
<1>2. lobby.status = "open" /\ Players(lobby) # BotsIn(lobby)
  BY DEF scheduleBots
<1>3. HasGuest(lobby)
  <2>1. PICK p \in Players(lobby) : ~ p.isBot
    BY <1>2 DEF BotsIn
  <2> QED BY <2>1 DEF Players, Range, HasGuest, Seats
<1>4. existing \in Nat
  <2>1. IsFiniteSet(Players(lobby))
    <3> DEFINE f == [ i \in Seats(lobby) |-> lobby.players[i] ]
    <3>1. IsFiniteSet(Seats(lobby))
      <4>1. Seats(lobby) = 1 .. Len(lobby.players) /\ Len(lobby.players) \in Int
        BY NowSound, RecordFacts
      <4> QED BY <4>1, FS_Interval
    <3>2. f \in Surjection(Seats(lobby), Players(lobby))
      <4>1. f \in [ Seats(lobby) -> Players(lobby) ]
            /\ \A p \in Players(lobby) : \E i \in Seats(lobby) : f[i] = p
        BY DEF Players, Range, Seats
      <4> HIDE DEF f
      <4> QED BY <4>1 DEF Surjection
    <3> HIDE DEF f
    <3> QED BY <3>1, <3>2, FS_Surjection
  <2>2. BotsIn(lobby) \in SUBSET Players(lobby)
    BY DEF BotsIn
  <2> QED BY <2>1, <2>2, FS_Subset, FS_CardinalityType
<1>5. a \in 0 .. ToAdd(existing) - 1
  BY <1>1
<1> HIDE DEF existing
<1>6. ToAdd(existing) \in Int /\ ToAdd(existing) =< BotCount - existing
  <2>1. Size - Len(lobby.players) \in Int
    BY NowSound, RecordFacts, SizeTyped
  <2>2. BotCount - existing \in Int
    BY <1>4, NumbersTyped
  <2> QED BY <2>1, <2>2, MinOfTwo DEF ToAdd
<1>7. existing + a \in 0 .. BotCount - 1
  <2>1. a \in Nat /\ a =< ToAdd(existing) - 1
    BY <1>5, <1>6
  <2>2. BotCount \in Nat
    BY NumbersTyped
  <2> DEFINE n == ToAdd(existing)
  <2>3. n \in Int /\ n =< BotCount - existing /\ a =< n - 1
    BY <1>6, <2>1
  <2> HIDE DEF n
  <2> QED BY <1>4, <2>1, <2>2, <2>3
<1> DEFINE b == BotNames[((existing + a) % Len(BotNames)) + 1]
<1>8. b \in Crew
  BY <1>7 DEF Crew
<1>9. b \in Bots
  <2>1. BotNames \in Seq(Bots) /\ BotNames # << >>
    BY DemoNumbers
  <2>2. Len(BotNames) \in Nat \ {0}
    BY <2>1, EmptySeq
  <2>3. ((existing + a) % Len(BotNames)) + 1 \in 1 .. Len(BotNames)
    <3>1. \A x \in Nat, y \in Nat \ {0} : (x % y) + 1 \in 1 .. y
      OBVIOUS
    <3> QED BY <1>7, <2>2, <3>1
  <2> QED BY <2>1, <2>3
<1> QED BY <1>1, <1>3, <1>8, <1>9

LEMMA SettlingKeeps ==
  ASSUME NEW r, Sound(r)
  PROVE  /\ Sound(Settling(r)) /\ Settling(r).players = r.players
         /\ Settling(r) # r => Complete(Settling(r))
<1>1. CASE r.status = "open" /\ Complete(r)
  <2>1. Settling(r) = [ r EXCEPT !.status = "settling" ]
    BY <1>1 DEF Settling
  <2>2. Sound(Settling(r)) /\ Settling(r).players = r.players
    BY <1>1, <2>1, StatusSound
  <2> QED BY <1>1, <2>2, SamePlayers
<1>2. CASE ~ (r.status = "open" /\ Complete(r))
  <2>1. Settling(r) = r
    BY <1>2 DEF Settling
  <2> QED BY <2>1
<1> QED BY <1>1, <1>2

\* A save ends and its caller goes on, perhaps to ask for another.
LEMMA SaveDoneStep ==
  ASSUME DataNow, BotTimers, SaveDone
  PROVE  /\ DataNow' /\ BotTimers'
         /\ Head(saves).next \in Nexts
<1> DEFINE x == Head(saves).next
           c == Head(saves).record
           v == IF x[1] = "settle" THEN verdicts \cup { Verdict(lobby) } ELSE verdicts
           y == << IF x[1] = "recorded" THEN "settle" ELSE "done" >>
<1>1. /\ saves # << >> /\ disk' = c /\ lobby' = Continued(x[1])
      /\ saves' = IF lobby' = lobby THEN Tail(saves) ELSE Append(Tail(saves), SaveOf(lobby', y))
      /\ timers' = IF x[1] # "joined" THEN timers
                   ELSE timers \cup scheduleBots \cup ({"bot pour"} \X ({x[2]} \cap Bots))
      /\ verdicts' = v
  BY DEF SaveDone, CallsChain
<1>2. x \in Nexts /\ (x[1] = "settle" => Complete(lobby)) /\ Data(lobby, c, Tail(saves), v)
  BY <1>1, Popped DEF DataNow
<1> HIDE DEF v, c
<1>3. Sound(lobby)
  BY NowSound
<1>4. x[1] \in {"joined", "recorded", "settle", "done"}
  BY <1>2 DEF Nexts
<1> HIDE DEF x
<1>5. /\ Sound(lobby') /\ lobby'.players = lobby.players
      /\ x[1] \in {"joined", "done"} => lobby' = lobby
      /\ x[1] = "recorded" /\ lobby' # lobby => Complete(lobby')
  <2>1. CASE x[1] = "recorded"
    <3>1. lobby' = Settling(lobby)
      BY <1>1, <2>1 DEF Continued
    <3> QED BY <1>3, <2>1, <3>1, SettlingKeeps
  <2>2. CASE x[1] = "settle"
    <3>1. lobby' = [ lobby EXCEPT !.status = "settled", !.settlement = Verdict(lobby) ]
      BY <1>1, <2>2 DEF Continued
    <3> QED BY <1>2, <1>3, <2>2, <3>1, VerdictSound
  <2>3. CASE x[1] \in {"joined", "done"}
    <3>1. lobby' = lobby
      BY <1>1, <2>3 DEF Continued
    <3> QED BY <1>3, <2>3, <3>1
  <2> QED BY <1>4, <2>1, <2>2, <2>3
<1>6. DataNow'
  <2>1. CASE lobby' = lobby
    <3>1. Data(lobby', disk', saves', verdicts')
      BY <1>1, <1>2, <2>1
    <3> QED BY <3>1 DEF DataNow, Data
  <2>2. CASE lobby' # lobby
    <3>1. Keeps(lobby, lobby')
      BY <1>5 DEF Keeps
    <3>2. y \in Nexts /\ (y[1] = "settle" => Complete(lobby'))
      <4>1. y = << "settle" >> \/ y = << "done" >>
        OBVIOUS
      <4>2. y[1] = "settle" => x[1] = "recorded"
        OBVIOUS
      <4> QED BY <1>5, <2>2, <4>1, <4>2, NextsTyped
    <3> HIDE DEF y
    <3>3. Data(lobby', c, Append(Tail(saves), SaveOf(lobby', y)), v)
      BY <1>2, <1>5, <3>1, <3>2, Pushed
    <3>4. saves' = Append(Tail(saves), SaveOf(lobby', y))
      BY <1>1, <2>2
    <3> QED BY <1>1, <3>3, <3>4 DEF DataNow, Data
  <2> QED BY <2>1, <2>2
<1>7. BotTimers'
  <2>1. HasGuest(lobby) => HasGuest(lobby')
    BY <1>5, SamePlayers
  <2>2. ASSUME NEW b \in Bots, << "bot join", b >> \in timers'
        PROVE  b \in Crew /\ HasGuest(lobby')
    <3>1. << "bot join", b >> \in timers \/ << "bot join", b >> \in scheduleBots
      BY <1>1, <2>2
    <3>2. CASE << "bot join", b >> \in timers
      BY <2>1, <3>2 DEF BotTimers
    <3>3. CASE << "bot join", b >> \in scheduleBots
      <4>1. PICK a \in Bots : << "bot join", b >> = << "bot join", a >> /\ a \in Crew /\ HasGuest(lobby)
        BY <3>3, Scheduled
      <4> QED BY <2>1, <4>1
    <3> QED BY <3>1, <3>2, <3>3
  <2> QED BY <2>2 DEF BotTimers, HasGuest, Seats
<1> QED BY <1>2, <1>6, <1>7 DEF x

LEMMA SweepStep ==
  ASSUME DataNow, BotTimers, Sweep
  PROVE  DataNow' /\ BotTimers'
<1>1. /\ lobby.status = "open" /\ ~ Complete(lobby)
      /\ lobby' = [ lobby EXCEPT !.status = "cancelled" ]
      /\ timers' \subseteq timers
      /\ saves' = Append(saves, SaveOf(lobby', << "done" >>))
      /\ UNCHANGED << disk, verdicts >>
  BY DEF Sweep, Persist
<1>2. Sound(lobby') /\ lobby'.players = lobby.players
  BY <1>1, NowSound, StatusSound
<1>3. Keeps(lobby, lobby')
  BY <1>1 DEF Keeps
<1>4. << "done" >> \in Nexts /\ << "done" >>[1] # "settle"
  BY NextsTyped
<1>5. Data(lobby', disk, Append(saves, SaveOf(lobby', << "done" >>)), verdicts)
  BY <1>2, <1>3, <1>4, Pushed DEF DataNow
<1>6. DataNow'
  BY <1>1, <1>5 DEF DataNow
<1>7. BotTimers'
  <2>1. \A b \in Bots : << "bot join", b >> \in timers' => b \in Crew /\ HasGuest(lobby')
    BY <1>1, <1>2, SamePlayers DEF BotTimers
  <2> QED BY <2>1 DEF BotTimers, HasGuest, Seats
<1> QED BY <1>6, <1>7

LEMMA CrashStep ==
  ASSUME DataNow, Crash
  PROVE  DataNow' /\ BotTimers'
<1>1. lobby' = disk /\ disk' = disk /\ saves' = << >> /\ verdicts' = verdicts /\ timers' = {}
  BY DEF Crash
<1>2. Data(disk, disk, << >>, verdicts)
  BY NowSound, Loaded DEF DataNow
<1>3. DataNow'
  BY <1>1, <1>2 DEF DataNow
<1>4. BotTimers'
  BY <1>1 DEF BotTimers
<1> QED BY <1>3, <1>4

\* init: a lobby that was settling is open again, and settling at once.
LEMMA BootStep ==
  ASSUME DataNow, Boot
  PROVE  /\ DataNow' /\ BotTimers'
         /\ timers' \subseteq {"play"} \X Wallets
<1> DEFINE m == IF disk.status \in Reopens THEN [ disk EXCEPT !.status = "open" ] ELSE disk
<1>1. /\ lobby' = Settling(m) /\ timers' = Rearmed(m)
      /\ saves' = IF lobby' = m THEN << >> ELSE << SaveOf(lobby', << "settle" >>) >>
      /\ UNCHANGED << disk, verdicts >>
  BY DEF Boot
<1>2. Sound(m) /\ m.players = disk.players
  <2>1. Sound(disk)
    BY NowSound
  <2>2. CASE disk.status \in Reopens
    <3>1. disk.status # "settled"
      BY <2>2 DEF Reopens
    <3> QED BY <2>1, <2>2, <3>1, StatusSound
  <2>3. CASE disk.status \notin Reopens
    BY <2>1, <2>3
  <2> QED BY <2>2, <2>3
<1> HIDE DEF m
<1>3. Data(m, disk, << >>, verdicts)
  BY <1>2, Loaded DEF DataNow
<1>4. Sound(lobby') /\ lobby'.players = m.players /\ (lobby' # m => Complete(lobby'))
  BY <1>1, <1>2, SettlingKeeps
<1>5. DataNow'
  <2>1. CASE lobby' = m
    BY <1>1, <1>3, <2>1 DEF DataNow
  <2>2. CASE lobby' # m
    <3>1. Keeps(m, lobby')
      BY <1>4 DEF Keeps
    <3>2. Data(lobby', disk, Append(<< >>, SaveOf(lobby', << "settle" >>)), verdicts)
      BY <1>3, <1>4, <2>2, <3>1, NextsTyped, Pushed
    <3>3. Append(<< >>, SaveOf(lobby', << "settle" >>)) = << SaveOf(lobby', << "settle" >>) >>
      OBVIOUS
    <3> QED BY <1>1, <2>2, <3>2, <3>3 DEF DataNow
  <2> QED BY <2>1, <2>2
<1>6. timers' \subseteq {"play"} \X Wallets
  <2>1. Playing(m) \subseteq Wallets
    <3>1. m \in LobbyRecord
      BY <1>2 DEF Sound
    <3>2. \A i \in Seats(m) : m.players[i].wallet \in Wallets
      BY <3>1, RecordFacts DEF PlayerRecord
    <3> QED BY <3>1, <3>2, PlayingFacts
  <2> QED BY <1>1, <2>1 DEF Rearmed
<1>7. BotTimers'
  BY <1>6 DEF BotTimers
<1> QED BY <1>5, <1>6, <1>7

LEMMA StepData ==
  ASSUME IInv, [Next]_vars
  PROVE  DataNow' /\ BotTimers'
<1> USE DEF IInv
<1>1. DataNow /\ BotTimers
  BY DEF DataNow
<1>2. ASSUME NEW g \in Guests, Join(g)
      PROVE  DataNow' /\ BotTimers'
  <2>1. g \in Wallets /\ g \notin Bots
    BY DemoNumbers DEF Wallets
  <2> QED BY <1>1, <1>2, <2>1, TakeSeatStep DEF Join
<1>3. ASSUME NEW g \in Guests, PourStart(g)
      PROVE  DataNow' /\ BotTimers'
  BY <1>1, <1>3, StillStep DEF PourStart
<1>4. ASSUME NEW g \in Guests, NEW d \in Durations, PourStop(g, d)
      PROVE  DataNow' /\ BotTimers'
  <2>1. simulatePour(d) \in Outcomes
    BY OutcomesTyped, DemoNumbers
  <2>2. RecordResult(g, simulatePour(d), {}) /\ UNCHANGED << disk, verdicts >>
    BY <1>4 DEF PourStop
  <2> QED BY <1>1, <2>1, <2>2, RecordResultStep
<1>5. ASSUME NEW w \in Wallets, PlayTimeout(w)
      PROVE  DataNow' /\ BotTimers'
  <2>1. PICK o \in AtDeadline(w) : RecordResult(w, o, { << "play", w >> })
    BY <1>5 DEF PlayTimeout
  <2>2. o \in Outcomes
    BY OutcomesTyped
  <2>3. UNCHANGED << disk, verdicts >>
    BY <1>5 DEF PlayTimeout
  <2> QED BY <1>1, <2>1, <2>2, <2>3, RecordResultStep
<1>6. ASSUME NEW b \in Bots, BotJoin(b)
      PROVE  DataNow' /\ BotTimers'
  <2>1. b \in Wallets /\ b \in Crew /\ HasGuest(lobby)
    BY <1>1, <1>6 DEF BotJoin, BotTimers, Wallets
  <2>2. UNCHANGED << disk, verdicts >>
    BY <1>6 DEF BotJoin
  <2>3. CASE BotMayJoin(b)
    <3>1. MayJoin(b) /\ TakeSeat(b, { << "bot join", b >> })
      BY <1>6, <2>3 DEF BotJoin, BotMayJoin
    <3> QED BY <1>1, <2>1, <2>2, <3>1, TakeSeatStep
  <2>4. CASE ~ BotMayJoin(b)
    <3>1. timers' \subseteq timers /\ UNCHANGED << lobby, disk, saves, verdicts >>
      BY <1>6, <2>4 DEF BotJoin
    <3> QED BY <1>1, <3>1, StillStep
  <2> QED BY <2>3, <2>4
<1>7. ASSUME NEW b \in Bots, NEW e \in BotErrors, BotPour(b, e)
      PROVE  DataNow' /\ BotTimers'
  <2>1. simulatePour(Max({ 60, idealMs + e })) \in Outcomes
    BY OutcomesTyped
  <2>2. RecordResult(b, simulatePour(Max({ 60, idealMs + e })), { << "bot pour", b >> })
        /\ UNCHANGED << disk, verdicts >>
    BY <1>7 DEF BotPour
  <2> QED BY <1>1, <2>1, <2>2, RecordResultStep
<1>8. CASE DeadlinePasses \/ DayPasses
  BY <1>1, <1>8, StillStep DEF DeadlinePasses, DayPasses
<1>9. CASE UNCHANGED vars
  BY <1>1, <1>9, StillStep DEF vars
<1> QED
  BY <1>1, <1>2, <1>3, <1>4, <1>5, <1>6, <1>7, <1>8, <1>9,
     SaveDoneStep, SweepStep, CrashStep, BootStep DEF Next

\* Timers and pours belong to wallets of the game.
LEMMA StepClocks ==
  ASSUME IInv, [Next]_vars
  PROVE  Clocks'
<1>1. Clocks /\ DataNow /\ BotTimers
  BY DEF IInv, DataNow
<1>2. ASSUME timers' \subseteq Timer, pours' \subseteq Guests, late' \subseteq Wallets,
             dayOver' \in BOOLEAN, UNCHANGED << up, crashes >>
      PROVE  Clocks'
  BY <1>1, <1>2 DEF Clocks
<1>3. \A w \in Wallets : << "play", w >> \in Timer
  BY DEF Timer
<1>4. ASSUME NEW w, NEW o, NEW fired, RecordResult(w, o, fired)
      PROVE  timers' \subseteq timers
  BY <1>4 DEF RecordResult
<1>5. ASSUME NEW w \in Wallets, NEW fired, TakeSeat(w, fired)
      PROVE  timers' \subseteq Timer /\ late' \subseteq late
  BY <1>1, <1>3, <1>5 DEF TakeSeat, Clocks
<1>6. ASSUME NEW g \in Guests, Join(g)
      PROVE  Clocks'
  <2>1. g \in Wallets
    BY DEF Wallets
  <2> QED BY <1>1, <1>2, <1>5, <1>6, <2>1 DEF Join, Clocks, process
<1>7. ASSUME NEW g \in Guests, PourStart(g)
      PROVE  Clocks'
  BY <1>1, <1>2, <1>7 DEF PourStart, Clocks, process
<1>8. ASSUME NEW g \in Guests, NEW d \in Durations, PourStop(g, d)
      PROVE  Clocks'
  <2>1. timers' \subseteq timers
    BY <1>4, <1>8 DEF PourStop
  <2> QED BY <1>1, <1>2, <1>8, <2>1 DEF PourStop, Clocks, process
<1>9. ASSUME NEW w \in Wallets, PlayTimeout(w)
      PROVE  Clocks'
  <2>1. timers' \subseteq timers
    BY <1>4, <1>9 DEF PlayTimeout
  <2> QED BY <1>1, <1>2, <1>9, <2>1 DEF PlayTimeout, Clocks, process
<1>10. ASSUME NEW b \in Bots, BotJoin(b)
       PROVE  Clocks'
  <2>1. b \in Wallets
    BY DEF Wallets
  <2>2. timers' \subseteq Timer /\ late' \subseteq Wallets
    BY <1>1, <1>5, <1>10, <2>1 DEF BotJoin, Clocks
  <2> QED BY <1>1, <1>2, <1>10, <2>2 DEF BotJoin, Clocks, process
<1>11. ASSUME NEW b \in Bots, NEW e \in BotErrors, BotPour(b, e)
       PROVE  Clocks'
  <2>1. timers' \subseteq timers
    BY <1>4, <1>11 DEF BotPour
  <2> QED BY <1>1, <1>2, <1>11, <2>1 DEF BotPour, Clocks, process
<1>12. CASE SaveDone
  <2> DEFINE x == Head(saves).next
  <2>1. timers' = IF x[1] # "joined" THEN timers
                  ELSE timers \cup scheduleBots \cup ({"bot pour"} \X ({x[2]} \cap Bots))
    BY <1>12 DEF SaveDone
  <2>2. scheduleBots \subseteq Timer
    <3> SUFFICES ASSUME NEW t \in scheduleBots PROVE t \in Timer
      OBVIOUS
    <3>1. PICK b \in Bots : t = << "bot join", b >>
      BY <1>1, Scheduled
    <3> QED BY <3>1 DEF Timer
  <2>3. ({"bot pour"} \X ({x[2]} \cap Bots)) \subseteq Timer
    BY DEF Timer
  <2>4. timers' \subseteq Timer
    <3> HIDE DEF x
    <3> QED BY <1>1, <2>1, <2>2, <2>3 DEF Clocks
  <2> QED BY <1>1, <1>2, <1>12, <2>4 DEF SaveDone, Clocks, process
<1>13. CASE Sweep
  BY <1>1, <1>2, <1>13 DEF Sweep, Clocks, process
<1>14. CASE Crash
  <2>1. crashes' \in 0 .. MaxCrashes
    <3>1. crashes \in 0 .. MaxCrashes /\ crashes < MaxCrashes /\ crashes' = crashes + 1
      BY <1>1, <1>14 DEF Crash, Clocks
    <3> QED BY <3>1, NumbersTyped
  <2> QED BY <1>1, <1>14, <2>1 DEF Crash, Clocks
<1>15. CASE Boot
  <2>1. timers' \subseteq Timer
    BY <1>1, <1>15, BootStep DEF Timer
  <2> QED BY <1>1, <1>15, <2>1 DEF Boot, Clocks
<1>16. CASE DeadlinePasses
  <2>1. PICK i \in Seats(lobby) : late' = late \cup { lobby.players[i].wallet }
    BY <1>16 DEF DeadlinePasses, Seats
  <2>2. lobby.players[i].wallet \in Wallets
    BY <1>1, NowSound, RecordFacts DEF PlayerRecord
  <2> QED BY <1>1, <1>2, <1>16, <2>1, <2>2 DEF DeadlinePasses, Clocks, process
<1>17. CASE DayPasses
  BY <1>1, <1>2, <1>17 DEF DayPasses, Clocks, process
<1>18. CASE UNCHANGED vars
  BY <1>1, <1>2, <1>18 DEF vars, Clocks
<1> QED
  BY <1>6, <1>7, <1>8, <1>9, <1>10, <1>11, <1>12, <1>13, <1>14, <1>15, <1>16, <1>17, <1>18
  DEF Next

LEMMA AlwaysIInv == Spec => []IInv
<1>1. ASSUME IInv, [Next]_vars
      PROVE  IInv'
  <2>1. DataNow' /\ BotTimers' /\ Clocks'
    BY <1>1, StepData, StepClocks
  <2> QED BY <2>1 DEF IInv, DataNow, Data
<1> QED BY <1>1, InitIInv, PTL DEF Spec

-----------------------------------------------------------------------------
(* The theorems *)

LEMMA RecordsSound ==
  ASSUME IInv, NEW r \in Records
  PROVE  Sound(r)
BY DEF IInv, Data, Records

\* DemoRound's variables always hold what their TypeScript types can hold, and
\* exactly the settled records carry a settlement (types.ts, lobby.ts:440-456).
THEOREM TypeCorrect == Spec => []TypeOK
<1>1. ASSUME IInv
      PROVE  TypeOK
  <2>1. \A r \in Records : r \in LobbyRecord /\ (r.status = "settled" <=> r.settlement # NoSettlement)
    BY <1>1, RecordsSound DEF Sound, Ended
  <2>2. verdicts \subseteq Settlement /\ Clocks
    BY <1>1 DEF IInv, Data
  <2> QED BY <2>1, <2>2 DEF TypeOK, Clocks
<1> QED BY <1>1, AlwaysIInv, PTL

\* Bots never cost a guest a seat, with any number of guests, bots and seats and
\* in any order of their timers (lobby.ts:306-334, config.ts:65-70).
THEOREM SeatsAlwaysFair == Spec => []SeatsFair
<1>1. ASSUME NEW r, Sound(r)
      PROVE  /\ Cardinality(Seated(r)) = Len(r.players) /\ Len(r.players) =< Size
             /\ Cardinality(BotsIn(r)) =< BotCount
             /\ BotsIn(r) # {} => Players(r) # BotsIn(r)
  <2>1. /\ r \in LobbyRecord /\ Seating(r)
        /\ Seats(r) = 1 .. Len(r.players) /\ Len(r.players) \in Nat
        /\ Players(r) = { r.players[i] : i \in Seats(r) }
    BY <1>1, RecordFacts DEF Sound, Players, Range, Seats
  <2>2. IsFiniteSet(Seats(r)) /\ Cardinality(Seats(r)) = Len(r.players)
    BY <2>1, FS_Interval
  <2>3. Cardinality(Seated(r)) = Len(r.players)
    <3> DEFINE f == [ i \in Seats(r) |-> r.players[i].wallet ]
    <3>1. f \in [ Seats(r) -> Seated(r) ] /\ \A w \in Seated(r) : \E i \in Seats(r) : f[i] = w
      BY <2>1, PlayingFacts
    <3>2. \A i, j \in Seats(r) : f[i] = f[j] => i = j
      BY <2>1 DEF Seating
    <3> HIDE DEF f
    <3>3. f \in Surjection(Seats(r), Seated(r)) /\ f \in Injection(Seats(r), Seated(r))
      BY <3>1, <3>2 DEF Surjection, Injection, IsInjective
    <3> QED BY <2>2, <3>3, FS_Surjection
  <2>4. Cardinality(BotsIn(r)) =< BotCount
    <3> DEFINE g == [ p \in BotsIn(r) |-> p.wallet ]
               h == [ j \in 0 .. BotCount - 1 |-> BotNames[(j % Len(BotNames)) + 1] ]
    <3>1. IsFiniteSet(Crew) /\ Cardinality(Crew) =< BotCount
      <4>1. h \in Surjection(0 .. BotCount - 1, Crew)
        <5>1. h \in [ 0 .. BotCount - 1 -> Crew ]
              /\ \A w \in Crew : \E j \in 0 .. BotCount - 1 : h[j] = w
          BY DEF Crew
        <5> HIDE DEF h
        <5> QED BY <5>1 DEF Surjection
      <4>2. IsFiniteSet(0 .. BotCount - 1) /\ Cardinality(0 .. BotCount - 1) = BotCount
        <5>1. BotCount \in Nat
          BY NumbersTyped
        <5> QED BY <5>1, FS_Interval
      <4> HIDE DEF h
      <4> QED BY <4>1, <4>2, FS_Surjection
    <3>2. g \in Injection(BotsIn(r), Crew)
      <4>1. \A p \in BotsIn(r) : \E i \in Seats(r) : p = r.players[i] /\ r.players[i].isBot
        BY <2>1 DEF BotsIn
      <4>2. \A p \in BotsIn(r) : p.wallet \in Crew
        BY <2>1, <4>1 DEF Seating
      <4>3. \A p, q \in BotsIn(r) : p.wallet = q.wallet => p = q
        BY <2>1, <4>1 DEF Seating
      <4>4. g \in [ BotsIn(r) -> Crew ] /\ \A p, q \in BotsIn(r) : g[p] = g[q] => p = q
        BY <4>2, <4>3
      <4> HIDE DEF g
      <4> QED BY <4>4 DEF Injection, IsInjective
    <3> HIDE DEF g, h
    <3>3. IsFiniteSet(BotsIn(r)) /\ Cardinality(BotsIn(r)) =< Cardinality(Crew)
      BY <3>1, <3>2, FS_Injection
    <3>4. Cardinality(BotsIn(r)) \in Nat /\ Cardinality(Crew) \in Nat /\ BotCount \in Nat
      BY <3>1, <3>3, FS_CardinalityType, NumbersTyped
    <3> QED BY <3>1, <3>3, <3>4
  <2>5. ASSUME BotsIn(r) # {}
        PROVE  Players(r) # BotsIn(r)
    <3>1. PICK i \in Seats(r) : r.players[i].isBot
      BY <2>1, <2>5 DEF BotsIn
    <3>2. PICK j \in Seats(r) : ~ r.players[j].isBot
      BY <2>1, <3>1 DEF Seating, HasGuest
    <3> QED BY <2>1, <3>2 DEF BotsIn
  <2> QED BY <2>1, <2>3, <2>4, <2>5 DEF Seating
<1>2. IInv => SeatsFair
  BY <1>1, RecordsSound DEF SeatsFair
<1> QED BY <1>2, AlwaysIInv, PTL

\* The server's copy of the winner, tie and remainder rules agrees with the
\* program's on every lobby that is settled, for any results, stakes and fees
\* (simulation.ts:4-8, 88-92).
THEOREM SettlesLikeProgram == Spec => []SettlesAsProgram
<1>1. ASSUME IInv
      PROVE  SettlesAsProgram
  <2> SUFFICES ASSUME NEW r \in Records, r.status = "settled"
               PROVE  /\ r.settlement.fee = Program!FeeOf(Account(r), FEE_BPS)
                      /\ \A w \in Wallets :
                           Paid(r.settlement, w) = Program!Payout(Account(r), FEE_BPS, w)
    BY DEF SettlesAsProgram
  <2>1. Sound(r)
    BY <1>1, RecordsSound
  <2>2. Complete(r) /\ r.settlement = Verdict(r)
    BY <2>1 DEF Sound, Ended
  <2> QED BY <2>1, <2>2, VerdictAsProgram
<1> QED BY <1>1, AlwaysIInv, PTL

\* However often a crash makes the server settle again, it comes to the same
\* verdict (lobby.ts:434-456).
THEOREM VerdictNeverChanges == Spec => []OneVerdict
<1>1. ASSUME IInv
      PROVE  OneVerdict
  <2>1. verdicts = {} \/ \E s : verdicts = {s}
    BY <1>1 DEF IInv, Data
  <2>2. Cardinality(verdicts) \in {0, 1}
    BY <2>1, FS_EmptySet, FS_Singleton
  <2> QED BY <2>2 DEF OneVerdict
<1> QED BY <1>1, AlwaysIInv, PTL
=============================================================================
