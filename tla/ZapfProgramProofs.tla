-------------------------- MODULE ZapfProgramProofs --------------------------
(***************************************************************************)
(* Proofs about ZapfProgram for every value of its constants.              *)
(***************************************************************************)
EXTENDS ZapfProgram, ZapfLobbyProofs

-----------------------------------------------------------------------------
(* The lobbies of the ledger *)

\* Every step is, for every existing lobby, one of the ways of Evolves; lobbies never vanish
\* and new ones start empty.
LEMMA LobbiesEvolve ==
  ASSUME TypeOK, [Next]_vars
  PROVE  /\ \A id \in DOMAIN lobbies :
              id \in DOMAIN lobbies' /\ Evolves(lobbies[id], lobbies'[id])
         /\ \A id \in DOMAIN lobbies' \ DOMAIN lobbies :
              /\ id \in LobbyIds
              /\ \E s \in MIN_LOBBY_SIZE .. MAX_LOBBY_SIZE, f \in 0 .. U64_MAX :
                   lobbies'[id] = NewLobby(s, f, clock)
         /\ lobbies' = [ id \in DOMAIN lobbies' |-> lobbies'[id] ]
<1> DEFINE Kept == /\ \A id \in DOMAIN lobbies :
                        id \in DOMAIN lobbies' /\ Evolves(lobbies[id], lobbies'[id])
                   /\ \A id \in DOMAIN lobbies' \ DOMAIN lobbies :
                        /\ id \in LobbyIds
                        /\ \E s \in MIN_LOBBY_SIZE .. MAX_LOBBY_SIZE, f \in 0 .. U64_MAX :
                             lobbies'[id] = NewLobby(s, f, clock)
                   /\ lobbies' = [ id \in DOMAIN lobbies' |-> lobbies'[id] ]
<1>1. lobbies' = lobbies => Kept
  BY DEF Evolves, TypeOK
\* An instruction that changes the lobby x alone, to m.
<1>2. ASSUME NEW x \in DOMAIN lobbies, NEW m, Evolves(lobbies[x], m),
             lobbies' = [ lobbies EXCEPT ![x] = m ]
      PROVE  Kept
  BY <1>2 DEF Evolves, TypeOK
<1>3. CASE UNCHANGED vars
  BY <1>1, <1>3 DEF vars
<1>4. ASSUME NEW d \in Deployments, Initialize(d)
      PROVE  Kept
  BY <1>1, <1>4 DEF Initialize
<1>5. ASSUME NEW a \in Accounts, NEW f \in FeeBpsChoices, SetFee(a, f)
      PROVE  Kept
  BY <1>1, <1>5 DEF SetFee
<1>6. ASSUME NEW a \in Accounts, NEW id \in LobbyIds, NEW s \in Sizes, NEW f \in EntryFees,
             CreateLobby(a, id, s, f)
      PROVE  Kept
  <2>1. s \in MIN_LOBBY_SIZE .. MAX_LOBBY_SIZE /\ f \in 0 .. U64_MAX /\ id \notin DOMAIN lobbies
    BY <1>6, ProgramInputs DEF CreateLobby, Exists
  <2>2. lobbies' = [ i \in DOMAIN lobbies \cup {id} |->
                       IF i = id THEN NewLobby(s, f, clock) ELSE lobbies[i] ]
    BY <1>6 DEF CreateLobby
  <2> QED BY <2>1, <2>2 DEF Evolves
<1>7. ASSUME NEW id \in LobbyIds, NEW r \in Randomness, FulfillRound(id, r)
      PROVE  Kept
  <2>1. Evolves(lobbies[id], Fulfilled(lobbies[id], r))
    BY <1>7, ProgramInputs DEF FulfillRound, Evolves
  <2> QED BY <1>2, <1>7, <2>1 DEF FulfillRound, Exists
<1>8. ASSUME NEW p \in Players, NEW id \in LobbyIds, JoinLobby(p, id)
      PROVE  Kept
  <2>1. Evolves(lobbies[id], Joined(lobbies[id], p))
    BY <1>8, ProgramInputs DEF JoinLobby, Evolves
  <2> QED BY <1>2, <1>8, <2>1 DEF JoinLobby, Exists
<1>9. ASSUME NEW a \in Accounts, NEW id \in LobbyIds, NEW p \in Players, NEW ml \in Pours,
             SubmitResult(a, id, p, ml)
      PROVE  Kept
  <2>1. Evolves(lobbies[id], Submitted(lobbies[id], p, ml))
    BY <1>9, ProgramInputs DEF SubmitResult, Evolves
  <2> QED BY <1>2, <1>9, <2>1 DEF SubmitResult, Exists
<1>10. ASSUME NEW a \in Accounts, NEW id \in LobbyIds, NEW w \in AccountLists,
              SettleLobby(a, id, w)
       PROVE  Kept
  <2>1. Evolves(lobbies[id], Settled(lobbies[id]))
    BY <1>10 DEF SettleLobby, MaySettle, CanSettle, Evolves
  <2> QED BY <1>2, <1>10, <2>1 DEF SettleLobby, MaySettle, Exists
<1>11. ASSUME NEW id \in LobbyIds, NEW w \in AccountLists, CancelLobby(id, w)
       PROVE  Kept
  <2>1. Evolves(lobbies[id], Cancelled(lobbies[id]))
    BY <1>11 DEF CancelLobby, MayCancel, CanCancel, Evolves
  <2> QED BY <1>2, <1>11, <2>1 DEF CancelLobby, MayCancel, Exists
<1>12. CASE Tick
  BY <1>1, <1>12 DEF Tick
<1> QED
  BY <1>3, <1>4, <1>5, <1>6, <1>7, <1>8, <1>9, <1>10, <1>11, <1>12 DEF Next

-----------------------------------------------------------------------------
(* The inductive invariant *)

\* A vault's content is tied to the length of the roster, settlement pays
\* entry_fee * size and cancellation entry_fee * Len(players): only with the
\* counters consistent do these agree, and only with the fee within its bound
\* is the commission covered by the pot.
FeeBounded == config # NotInitialized => config.fee_bps =< MAX_FEE_BPS

IInv == TypeOK /\ FeeBounded /\ VaultHoldsStakes /\ RostersConsistent

\* Before initialize there is no lobby and every vault is empty.
LEMMA InitIInv == Init => IInv
<1> SUFFICES ASSUME Init PROVE IInv
  OBVIOUS
<1>1. DOMAIN lobbies = {}
  BY DEF Init
<1>2. TypeOK
  <2>1. lobbies \in [ DOMAIN lobbies -> Lobby ]
    BY <1>1 DEF Init
  <2>2. stats \in GlobalStats
    BY LobbyNumbers DEF Init, GlobalStats
  <2> QED BY <1>1, <2>1, <2>2, ProgramInputs DEF Init, TypeOK
<1>3. FeeBounded
  BY DEF Init, FeeBounded
<1>4. VaultHoldsStakes
  BY <1>1 DEF Init, VaultHoldsStakes, Exists
<1>5. RostersConsistent
  BY <1>1 DEF RostersConsistent
<1> QED BY <1>2, <1>3, <1>4, <1>5 DEF IInv

\* What settle_lobby and cancel_lobby pay: exactly what the vault holds.
LEMMA SettlementPaysStakes ==
  ASSUME NEW l \in Lobby, RosterConsistent(l), NEW f \in 0 .. MAX_FEE_BPS,
         NEW accts, CanSettle(l, accts)
  PROVE  /\ TotalPaid(l, f) = l.entry_fee * Len(l.players)
         /\ TotalPaid(l, f) \in Nat
         /\ FeeOf(l, f) \in Nat
         /\ Pot(l) \in Nat
         /\ \A key : Payout(l, f, key) \in Nat
<1>1. Len(l.players) > 0 /\ l.size = Len(l.players)
  BY DEF CanSettle, RosterConsistent, Lobby, MIN_LOBBY_SIZE, MAX_LOBBY_SIZE
<1>2. /\ Pot(l) \in Nat
      /\ FeeOf(l, f) \in 0 .. Pot(l)
      /\ Share(l, f) \in Nat
      /\ Remainder(l, f) \in Nat
      /\ TotalPaid(l, f) = Pot(l)
  BY <1>1, SplitIsExact
<1>3. \A key : Payout(l, f, key) \in Nat
  BY <1>2 DEF Payout
<1> QED BY <1>1, <1>2, <1>3 DEF Pot


\* The lobby accounts stay typed and their rosters consistent under every step.
LEMMA LobbiesStep ==
  ASSUME IInv, [Next]_vars
  PROVE  /\ DOMAIN lobbies' \subseteq LobbyIds
         /\ lobbies' \in [ DOMAIN lobbies' -> Lobby ]
         /\ RostersConsistent'
<1>1. DOMAIN lobbies' \subseteq LobbyIds
  BY LobbiesEvolve DEF IInv, TypeOK
<1>2. ASSUME NEW id \in DOMAIN lobbies'
      PROVE  lobbies'[id] \in Lobby /\ RosterConsistent(lobbies'[id])
  <2>1. CASE id \in DOMAIN lobbies
    <3>1. Evolves(lobbies[id], lobbies'[id])
      BY <2>1, LobbiesEvolve DEF IInv
    <3>2. lobbies[id] \in Lobby /\ RosterConsistent(lobbies[id])
      BY <2>1 DEF IInv, TypeOK, RostersConsistent
    <3> QED BY <3>1, <3>2, EvolvedTyped, EvolvedKeepsRoster
  <2>2. CASE id \notin DOMAIN lobbies
    <3>1. PICK s \in MIN_LOBBY_SIZE .. MAX_LOBBY_SIZE, f \in 0 .. U64_MAX :
            lobbies'[id] = NewLobby(s, f, clock)
      BY <1>2, <2>2, LobbiesEvolve DEF IInv
    <3>2. clock \in Nat
      BY DEF IInv, TypeOK
    <3> QED BY <3>1, <3>2, NewLobbyTyped, NewRosterConsistent
  <2> QED BY <2>1, <2>2
<1>3. lobbies' \in [ DOMAIN lobbies' -> Lobby ]
  <2>1. lobbies' = [ id \in DOMAIN lobbies' |-> lobbies'[id] ]
    BY LobbiesEvolve DEF IInv
  <2> QED BY <1>2, <2>1
<1>4. RostersConsistent'
  BY <1>2 DEF RostersConsistent
<1> QED BY <1>1, <1>3, <1>4


\* The rest of the type invariant and the vaults, one step per action.
LEMMA StepIInv == IInv /\ [Next]_vars => IInv'
<1> SUFFICES ASSUME IInv, [Next]_vars PROVE IInv'
  OBVIOUS
<1> DEFINE Money == /\ config' \in Deployment \cup {NotInitialized} /\ FeeBounded'
                    /\ stats' \in GlobalStats /\ clock' \in Nat
                    /\ vault' \in [ LobbyIds -> Nat ] /\ balance' \in [ Accounts -> Nat ]
                    /\ VaultHoldsStakes'
<1>1. TypeOK /\ FeeBounded /\ VaultHoldsStakes /\ RostersConsistent
  BY DEF IInv
<1>2. \A id \in DOMAIN lobbies :
        lobbies[id] \in Lobby /\ RosterConsistent(lobbies[id]) /\ lobbies[id].entry_fee \in Nat
          /\ Len(lobbies[id].players) \in Nat
  BY <1>1, LobbyNumbers, EntryTyped DEF TypeOK, RostersConsistent, Lobby
<1>3. ASSUME UNCHANGED vars
      PROVE  Money
  BY <1>1, <1>3 DEF vars, TypeOK, FeeBounded, VaultHoldsStakes, Exists
<1>4. ASSUME NEW d \in Deployments, Initialize(d)
      PROVE  Money
  BY <1>1, <1>4, ProgramInputs DEF Initialize, TypeOK, FeeBounded, VaultHoldsStakes, Exists
<1>5. ASSUME NEW a \in Accounts, NEW f \in FeeBpsChoices, SetFee(a, f)
      PROVE  Money
  <2>1. config \in Deployment /\ f \in Nat
    BY <1>1, <1>5, ProgramInputs DEF SetFee, TypeOK
  <2>2. config' \in Deployment /\ config'.fee_bps = f
    BY <1>5, <2>1 DEF SetFee, Deployment
  <2> QED
    BY <1>1, <1>5, <2>2 DEF SetFee, TypeOK, FeeBounded, VaultHoldsStakes, Exists
<1>6. ASSUME NEW a \in Accounts, NEW x \in LobbyIds, NEW s \in Sizes, NEW f \in EntryFees,
             CreateLobby(a, x, s, f)
      PROVE  Money
  <2>1. vault[x] = 0
    BY <1>1, <1>6 DEF VaultHoldsStakes, CreateLobby
  <2>2. NewLobby(s, f, clock).entry_fee * Len(NewLobby(s, f, clock).players) = 0
    <3>1. f \in Nat /\ NewLobby(s, f, clock).entry_fee = f
      BY ProgramInputs, LobbyNumbers DEF NewLobby
    <3>2. Len(NewLobby(s, f, clock).players) = 0
      BY DEF NewLobby
    <3> QED BY <3>1, <3>2
  <2>3. VaultHoldsStakes'
    BY <1>1, <1>6, <2>1, <2>2 DEF CreateLobby, VaultHoldsStakes, Exists
  <2> QED BY <1>1, <1>6, <2>3 DEF CreateLobby, TypeOK, FeeBounded
<1>7. ASSUME NEW x \in LobbyIds, NEW r \in Randomness, FulfillRound(x, r)
      PROVE  Money
  <2>1. LET m == Fulfilled(lobbies[x], r)
        IN m.entry_fee = lobbies[x].entry_fee /\ m.players = lobbies[x].players /\ Live(m)
    BY <1>2, <1>7, FieldsKept DEF FulfillRound, Exists, Live
  <2>2. Live(lobbies[x])
    BY <1>7 DEF FulfillRound, CanFulfill, Live
  <2>3. VaultHoldsStakes'
    BY <1>1, <1>7, <2>1, <2>2 DEF FulfillRound, VaultHoldsStakes, Exists, TypeOK
  <2> QED BY <1>1, <1>7, <2>3 DEF FulfillRound, TypeOK, FeeBounded
<1>8. ASSUME NEW p \in Players, NEW x \in LobbyIds, JoinLobby(p, x)
      PROVE  Money
  <2> DEFINE l == lobbies[x]
             m == Joined(l, p)
             n == Len(l.players)
  <2>1. l \in Lobby /\ l.entry_fee \in Nat /\ n \in Nat /\ p \in Accounts
    BY <1>2, <1>8, ProgramInputs DEF JoinLobby, Exists
  <2>2. Live(l) /\ Live(m) /\ m.entry_fee = l.entry_fee
    BY <1>8, <2>1, FieldsKept DEF JoinLobby, CanJoin, Live
  <2>3. Len(m.players) = n + 1
    BY <2>1, JoinedTyped, Zenon
  <2>4. l.entry_fee * (n + 1) = l.entry_fee * n + l.entry_fee
    BY <2>1
  <2>5. balance' \in [ Accounts -> Nat ] /\ vault' \in [ LobbyIds -> Nat ]
    BY <1>1, <1>8, <2>1 DEF JoinLobby, TypeOK
  <2>6. vault[x] = l.entry_fee * n /\ vault'[x] = l.entry_fee * n + l.entry_fee
    BY <1>1, <1>8, <2>2 DEF JoinLobby, VaultHoldsStakes, TypeOK
  <2>7. /\ lobbies' = [ lobbies EXCEPT ![x] = m ] /\ x \in DOMAIN lobbies
        /\ \A id \in LobbyIds \ {x} : vault'[id] = vault[id]
    BY <1>1, <1>8 DEF JoinLobby, Exists, TypeOK
  <2>8. VaultHoldsStakes'
    <3> HIDE DEF m, n
    <3>1. \A id \in LobbyIds \ {x} : id \in DOMAIN lobbies' <=> id \in DOMAIN lobbies
      BY <2>7
    <3>2. \A id \in DOMAIN lobbies \ {x} : lobbies'[id] = lobbies[id]
      BY <2>7
    <3>3. x \in DOMAIN lobbies' /\ lobbies'[x] = m
      BY <1>1, <2>7 DEF TypeOK
    <3>4. vault'[x] = m.entry_fee * Len(m.players)
      BY <2>2, <2>3, <2>4, <2>6
    <3> QED BY <1>1, <2>2, <2>7, <3>1, <3>2, <3>3, <3>4 DEF VaultHoldsStakes, Exists
  <2> QED BY <1>1, <1>8, <2>5, <2>8 DEF JoinLobby, TypeOK, FeeBounded
<1>9. ASSUME NEW a \in Accounts, NEW x \in LobbyIds, NEW p \in Players, NEW ml \in Pours,
             SubmitResult(a, x, p, ml)
      PROVE  Money
  <2> DEFINE l == lobbies[x]
             m == Submitted(l, p, ml)
  <2>1. l \in Lobby /\ p \in Accounts /\ ml \in 0 .. OVERFLOW_SENTINEL
    BY <1>2, <1>9, ProgramInputs DEF SubmitResult, Exists
  <2>2. Live(l) /\ Live(m) /\ m.entry_fee = l.entry_fee
    BY <1>9, <2>1, FieldsKept DEF SubmitResult, CanSubmit, Live
  <2>3. Len(m.players) = Len(l.players)
    BY <2>1, SubmittedTyped, Zenon
  <2>4. lobbies' = [ lobbies EXCEPT ![x] = m ] /\ x \in DOMAIN lobbies
    BY <1>9 DEF SubmitResult, Exists
  <2>5. VaultHoldsStakes'
    <3> HIDE DEF m
    <3> QED BY <1>1, <1>9, <2>2, <2>3, <2>4 DEF SubmitResult, VaultHoldsStakes, Exists, TypeOK
  <2> QED BY <1>1, <1>9, <2>5 DEF SubmitResult, TypeOK, FeeBounded
<1>10. ASSUME NEW a \in Accounts, NEW x \in LobbyIds, NEW w \in AccountLists,
              SettleLobby(a, x, w)
       PROVE  Money
  <2> DEFINE l == lobbies[x]
             f == config.fee_bps
  <2>1. l \in Lobby /\ RosterConsistent(l) /\ CanSettle(l, w) /\ x \in DOMAIN lobbies
    BY <1>2, <1>10 DEF SettleLobby, MaySettle, Exists
  <2>2. config \in Deployment /\ f \in 0 .. MAX_FEE_BPS
    <3>1. config # NotInitialized
      BY <1>10 DEF SettleLobby, MaySettle, IsResultAuthority
    <3>2. config \in Deployment
      BY <1>1, <3>1 DEF TypeOK
    <3>3. f \in Nat
      BY <3>2 DEF Deployment
    <3>4. f =< MAX_FEE_BPS
      BY <1>1, <3>1 DEF FeeBounded
    <3> QED BY <3>2, <3>3, <3>4 DEF MAX_FEE_BPS
  <2>3. /\ TotalPaid(l, f) = l.entry_fee * Len(l.players)
        /\ TotalPaid(l, f) \in Nat
        /\ FeeOf(l, f) \in Nat
        /\ Pot(l) \in Nat
        /\ \A key : Payout(l, f, key) \in Nat
    BY <2>1, <2>2, SettlementPaysStakes
  <2>4. vault[x] = TotalPaid(l, f)
    BY <1>1, <2>1, <2>3 DEF VaultHoldsStakes, Exists, CanSettle, Live
  <2>5. vault' = [ vault EXCEPT ![x] = 0 ]
    <3>1. vault' = [ vault EXCEPT ![x] = vault[x] - TotalPaid(l, f) ]
      BY <1>10 DEF SettleLobby
    <3>2. vault[x] - TotalPaid(l, f) = 0
      BY <2>3, <2>4
    <3> QED BY <3>1, <3>2, Zenon
  <2>6. ~ Live(Settled(l))
    BY <2>1, FieldsKept DEF Settled, Live
  <2>7. VaultHoldsStakes'
    BY <1>1, <1>10, <2>5, <2>6 DEF SettleLobby, VaultHoldsStakes, Exists, TypeOK
  <2>8. balance' \in [ Accounts -> Nat ]
    BY <1>1, <1>10, <2>3 DEF SettleLobby, TypeOK
  <2>9. stats' \in GlobalStats
    BY <1>10 DEF SettleLobby, MaySettle, StatsFit
  <2> QED BY <1>1, <1>10, <2>5, <2>7, <2>8, <2>9 DEF SettleLobby, TypeOK, FeeBounded
<1>11. ASSUME NEW x \in LobbyIds, NEW w \in AccountLists, CancelLobby(x, w)
       PROVE  Money
  <2> DEFINE l == lobbies[x]
  <2>1. l \in Lobby /\ x \in DOMAIN lobbies /\ Live(l) /\ l.entry_fee \in Nat
    BY <1>2, <1>11 DEF CancelLobby, MayCancel, Exists, CanCancel
  <2>2. vault[x] = TotalRefunded(l) /\ TotalRefunded(l) \in Nat
    BY <1>1, <2>1 DEF VaultHoldsStakes, Exists, TotalRefunded, TypeOK
  <2>3. vault' = [ vault EXCEPT ![x] = 0 ]
    <3>1. vault' = [ vault EXCEPT ![x] = vault[x] - TotalRefunded(l) ]
      BY <1>11 DEF CancelLobby
    <3>2. vault[x] - TotalRefunded(l) = 0
      BY <2>2
    <3> QED BY <3>1, <3>2, Zenon
  <2>4. ~ Live(Cancelled(l))
    BY <2>1, FieldsKept DEF Cancelled, Live
  <2>5. VaultHoldsStakes'
    BY <1>1, <1>11, <2>3, <2>4 DEF CancelLobby, VaultHoldsStakes, Exists, TypeOK
  <2>6. balance' \in [ Accounts -> Nat ]
    BY <1>1, <1>11, <2>1 DEF CancelLobby, TypeOK, Refund
  <2> QED BY <1>1, <1>11, <2>3, <2>5, <2>6 DEF CancelLobby, TypeOK, FeeBounded
<1>12. ASSUME Tick
       PROVE  Money
  BY <1>1, <1>12, ProgramInputs DEF Tick, TypeOK, FeeBounded, VaultHoldsStakes, Exists
<1>13. Money
  BY <1>3, <1>4, <1>5, <1>6, <1>7, <1>8, <1>9, <1>10, <1>11, <1>12 DEF Next
<1>14. TypeOK'
  BY <1>13, LobbiesStep DEF TypeOK
<1> QED BY <1>13, <1>14, LobbiesStep DEF IInv

-----------------------------------------------------------------------------
(* Where the lamports go *)

\* What an instruction that moves no lamports leaves of a lobby.
SameGame(l, m) ==
  /\ m.entry_fee = l.entry_fee
  /\ m.size = l.size
  /\ Live(m) <=> Live(l)
  /\ m.status = "Settled" <=> l.status = "Settled"
  /\ \A a \in Accounts : contains_player(m, a) <=> contains_player(l, a)

Quiet ==
  /\ UNCHANGED << stats, vault, balance >>
  /\ DOMAIN lobbies \subseteq DOMAIN lobbies'
  /\ \A id \in DOMAIN lobbies : SameGame(lobbies[id], lobbies'[id])
  /\ \A id \in DOMAIN lobbies' \ DOMAIN lobbies :
       /\ lobbies'[id].status = "AwaitingRandomness"
       /\ lobbies'[id].players = << >>
       /\ config # NotInitialized
       /\ \E k \in DOMAIN config.allowed_entry_fees :
            config.allowed_entry_fees[k] = lobbies'[id].entry_fee

\* submit_result leaves every seat with its player.
LEMMA SubmittedKeys ==
  ASSUME NEW l \in Lobby, NEW key \in Accounts, NEW ml \in 0 .. OVERFLOW_SENTINEL, NEW a
  PROVE  contains_player(Submitted(l, key, ml), a) <=> contains_player(l, a)
<1> DEFINE m == Submitted(l, key, ml)
<1>1. /\ m \in Lobby
      /\ Len(m.players) = Len(l.players)
      /\ \A i \in Seats(l) : m.players[i] = IF l.players[i].player = key
                                            THEN Reported(l.players[i], ml, l.played_count)
                                            ELSE l.players[i]
  BY SubmittedTyped, Zenon
<1> HIDE DEF m
<1>2. Seats(m) = Seats(l)
  BY <1>1, EntryTyped
<1>3. \A i \in Seats(l) : m.players[i].player = l.players[i].player
  <2>1. \A i \in Seats(l) : Reported(l.players[i], ml, l.played_count).player = l.players[i].player
    BY EntryTyped, ReportedTyped DEF Lobby
  <2> QED BY <1>1, <2>1
<1>4. contains_player(m, a) <=> contains_player(l, a)
  BY <1>2, <1>3 DEF contains_player
<1> QED BY <1>4 DEF m

\* Only join, settle and cancel move lamports, seats or ends of lobbies.
LEMMA OnlyThreeMoveMoney ==
  ASSUME IInv, [Next]_vars
  PROVE  \/ Quiet
         \/ \E p \in Players, id \in LobbyIds : JoinLobby(p, id)
         \/ \E a \in Accounts, id \in LobbyIds, w \in AccountLists : SettleLobby(a, id, w)
         \/ \E id \in LobbyIds, w \in AccountLists : CancelLobby(id, w)
<1>1. TypeOK /\ \A id \in DOMAIN lobbies : lobbies[id] \in Lobby
  BY DEF IInv, TypeOK
<1>2. ASSUME UNCHANGED << stats, lobbies, vault, balance >>
      PROVE  Quiet
  BY <1>2 DEF Quiet, SameGame
\* An instruction that changes the lobby x alone, to a lobby of the same game.
<1>3. ASSUME NEW x \in DOMAIN lobbies, NEW m, SameGame(lobbies[x], m),
             lobbies' = [ lobbies EXCEPT ![x] = m ],
             UNCHANGED << stats, vault, balance >>
      PROVE  Quiet
  <2>1. DOMAIN lobbies' = DOMAIN lobbies
    BY <1>3
  <2>2. \A id \in DOMAIN lobbies : lobbies'[id] = IF id = x THEN m ELSE lobbies[id]
    BY <1>3
  <2>3. \A id \in DOMAIN lobbies : SameGame(lobbies[id], lobbies[id])
    BY DEF SameGame
  <2> QED BY <1>3, <2>1, <2>2, <2>3 DEF Quiet
<1>4. ASSUME NEW a \in Accounts, NEW id \in LobbyIds, NEW s \in Sizes, NEW f \in EntryFees,
             CreateLobby(a, id, s, f)
      PROVE  Quiet
  <2>1. /\ DOMAIN lobbies' = DOMAIN lobbies \cup {id} /\ id \notin DOMAIN lobbies
        /\ lobbies'[id] = NewLobby(s, f, clock)
        /\ \A i \in DOMAIN lobbies : lobbies'[i] = lobbies[i]
    BY <1>4 DEF CreateLobby, Exists
  <2>2. LET l == NewLobby(s, f, clock)
        IN l.status = "AwaitingRandomness" /\ l.players = << >> /\ l.entry_fee = f
    BY DEF NewLobby
  <2>3. \A i \in DOMAIN lobbies : SameGame(lobbies[i], lobbies[i])
    BY DEF SameGame
  <2>4. config # NotInitialized
        /\ \E k \in DOMAIN config.allowed_entry_fees : config.allowed_entry_fees[k] = f
        /\ UNCHANGED << stats, vault, balance >>
    BY <1>4 DEF CreateLobby, IsResultAuthority
  <2> QED BY <2>1, <2>2, <2>3, <2>4 DEF Quiet
<1>5. ASSUME NEW id \in LobbyIds, NEW r \in Randomness, FulfillRound(id, r)
      PROVE  Quiet
  <2>1. id \in DOMAIN lobbies /\ lobbies[id] \in Lobby /\ lobbies[id].status = "AwaitingRandomness"
    BY <1>1, <1>5 DEF FulfillRound, Exists, CanFulfill
  <2>2. SameGame(lobbies[id], Fulfilled(lobbies[id], r))
    BY <2>1, FieldsKept DEF SameGame, Live, contains_player, Seats
  <2> QED BY <1>3, <1>5, <2>1, <2>2 DEF FulfillRound
<1>6. ASSUME NEW a \in Accounts, NEW id \in LobbyIds, NEW p \in Players, NEW ml \in Pours,
             SubmitResult(a, id, p, ml)
      PROVE  Quiet
  <2>1. id \in DOMAIN lobbies /\ lobbies[id] \in Lobby
    BY <1>1, <1>6 DEF SubmitResult, Exists
  <2>2. p \in Accounts /\ ml \in 0 .. OVERFLOW_SENTINEL
    BY ProgramInputs
  <2>3. SameGame(lobbies[id], Submitted(lobbies[id], p, ml))
    <3>1. \A k \in Accounts :
            contains_player(Submitted(lobbies[id], p, ml), k) <=> contains_player(lobbies[id], k)
      BY <2>1, <2>2, SubmittedKeys
    <3> QED BY <2>1, <3>1, FieldsKept DEF SameGame, Live
  <2> QED BY <1>3, <1>6, <2>1, <2>3 DEF SubmitResult
<1> QED
  BY <1>2, <1>4, <1>5, <1>6 DEF Next, vars, Initialize, SetFee, Tick

\* A stake moves from the player to the vault.
LEMMA JoinMoves ==
  ASSUME IInv, NEW p \in Players, NEW x \in LobbyIds, JoinLobby(p, x),
         NEW l, l = lobbies[x]
  PROVE  /\ x \in DOMAIN lobbies /\ l \in Lobby /\ CanJoin(l, p) /\ p \in Accounts
         /\ l.entry_fee \in Nat /\ balance[p] >= l.entry_fee
         /\ \A a \in Accounts :
              balance'[a] = IF a = p THEN balance[p] - l.entry_fee ELSE balance[a]
         /\ \A y \in LobbyIds :
              vault'[y] = IF y = x THEN vault[x] + l.entry_fee ELSE vault[y]
         /\ DOMAIN lobbies' = DOMAIN lobbies
         /\ \A y \in DOMAIN lobbies \ {x} : lobbies'[y] = lobbies[y]
         /\ lobbies'[x].entry_fee = l.entry_fee
         /\ lobbies'[x].status = "Open" /\ l.status = "Open"
         /\ \A a \in Accounts : contains_player(lobbies'[x], a) <=> contains_player(l, a) \/ a = p
<1>1. TypeOK
  BY DEF IInv
<1>2. x \in DOMAIN lobbies /\ l \in Lobby /\ p \in Accounts /\ l.entry_fee \in Nat
  <2>1. x \in DOMAIN lobbies
    BY DEF JoinLobby, Exists
  <2> QED BY <1>1, <2>1, ProgramInputs, LobbyNumbers DEF TypeOK, Lobby
<1>3. CanJoin(l, p) /\ l.status = "Open" /\ balance[p] >= l.entry_fee
  BY DEF JoinLobby, CanJoin
<1>4. /\ \A a \in Accounts :
           balance'[a] = IF a = p THEN balance[p] - l.entry_fee ELSE balance[a]
      /\ \A y \in LobbyIds : vault'[y] = IF y = x THEN vault[x] + l.entry_fee ELSE vault[y]
  BY <1>1 DEF JoinLobby, TypeOK
<1>5. /\ DOMAIN lobbies' = DOMAIN lobbies
      /\ lobbies'[x] = Joined(l, p)
      /\ \A y \in DOMAIN lobbies \ {x} : lobbies'[y] = lobbies[y]
  BY <1>1, <1>2 DEF JoinLobby, TypeOK
<1>6. Joined(l, p).entry_fee = l.entry_fee /\ Joined(l, p).status = "Open"
  BY <1>2, <1>3, FieldsKept
<1>7. ASSUME NEW a \in Accounts
      PROVE  contains_player(Joined(l, p), a) <=> contains_player(l, a) \/ a = p
  <2> DEFINE m == Joined(l, p)
             n == Len(l.players) + 1
  <2>1. /\ m \in Lobby
        /\ Len(m.players) = n
        /\ \A i \in Seats(l) : m.players[i] = l.players[i]
        /\ m.players[n] = [ player |-> p, poured_ml |-> 0,
                            has_played |-> FALSE, submission_index |-> 0 ]
    BY <1>2, JoinedTyped, Zenon
  <2> HIDE DEF m
  <2>2. Seats(m) = Seats(l) \cup {n}
    BY <1>2, <2>1, EntryTyped
  <2>3. m.players[n].player = p
    BY <2>1
  <2>4. contains_player(m, a) <=> contains_player(l, a) \/ a = p
    <3> HIDE DEF n
    <3> QED BY <2>1, <2>2, <2>3 DEF contains_player
  <2> QED BY <2>4 DEF m
<1> QED BY <1>2, <1>3, <1>4, <1>5, <1>6, <1>7

\* A settlement empties the vault: the winners and the treasury get, together,
\* exactly what the vault held.
LEMMA SettleMoves ==
  ASSUME IInv, NEW s, NEW x \in LobbyIds, NEW w, SettleLobby(s, x, w),
         NEW l, l = lobbies[x], NEW f, f = config.fee_bps
  PROVE  /\ x \in DOMAIN lobbies /\ l \in Lobby /\ RosterConsistent(l)
         /\ l.status = "Open" /\ Len(l.players) = l.size /\ Len(l.players) > 0
         /\ config \in Deployment /\ config # NotInitialized /\ f \in 0 .. MAX_FEE_BPS
         /\ Pot(l) \in Nat /\ FeeOf(l, f) \in Nat
         /\ \A key : Payout(l, f, key) \in Nat
         /\ Pot(l) = l.entry_fee * Len(l.players)
         /\ \A a \in Accounts : balance'[a] = balance[a] + Payout(l, f, a)
                                  + (IF a = config.treasury THEN FeeOf(l, f) ELSE 0)
         /\ vault[x] = Pot(l)
         /\ \A y \in LobbyIds : vault'[y] = IF y = x THEN 0 ELSE vault[y]
         /\ DOMAIN lobbies' = DOMAIN lobbies
         /\ \A y \in DOMAIN lobbies \ {x} : lobbies'[y] = lobbies[y]
         /\ lobbies'[x].entry_fee = l.entry_fee /\ lobbies'[x].size = l.size
         /\ lobbies'[x].players = l.players /\ lobbies'[x].status = "Settled"
         /\ stats' = StatsAfter(l, FeeOf(l, f))
<1>1. TypeOK /\ FeeBounded /\ VaultHoldsStakes /\ RostersConsistent
  BY DEF IInv
<1>2. x \in DOMAIN lobbies /\ l \in Lobby /\ RosterConsistent(l) /\ CanSettle(l, w)
  <2>1. x \in DOMAIN lobbies /\ CanSettle(l, w)
    BY DEF SettleLobby, MaySettle, Exists
  <2> QED BY <1>1, <2>1 DEF TypeOK, RostersConsistent
<1>3. config \in Deployment /\ config # NotInitialized /\ f \in 0 .. MAX_FEE_BPS
  <2>1. config # NotInitialized
    BY DEF SettleLobby, MaySettle, IsResultAuthority
  <2>2. config \in Deployment
    BY <1>1, <2>1 DEF TypeOK
  <2>3. f \in Nat
    BY <2>2 DEF Deployment
  <2>4. f =< MAX_FEE_BPS
    BY <1>1, <2>1 DEF FeeBounded
  <2> QED BY <2>1, <2>2, <2>3, <2>4 DEF MAX_FEE_BPS
<1>4. l.status = "Open" /\ Len(l.players) = l.size /\ Len(l.players) > 0
  BY <1>2 DEF CanSettle, RosterConsistent, Lobby, MIN_LOBBY_SIZE, MAX_LOBBY_SIZE
<1>5. /\ TotalPaid(l, f) = l.entry_fee * Len(l.players)
      /\ Pot(l) \in Nat /\ FeeOf(l, f) \in Nat
      /\ \A key : Payout(l, f, key) \in Nat
  BY <1>2, <1>3, SettlementPaysStakes
<1>6. Pot(l) = l.entry_fee * Len(l.players)
  BY <1>4 DEF Pot
<1>7. vault[x] = Pot(l)
  BY <1>1, <1>2, <1>4, <1>6 DEF VaultHoldsStakes, Exists, Live
<1>8. /\ \A a \in Accounts : balance'[a] = balance[a] + Payout(l, f, a)
                               + (IF a = config.treasury THEN FeeOf(l, f) ELSE 0)
      /\ stats' = StatsAfter(l, FeeOf(l, f))
  BY <1>1 DEF SettleLobby, TypeOK
<1>9. \A y \in LobbyIds : vault'[y] = IF y = x THEN 0 ELSE vault[y]
  <2>1. \A y \in LobbyIds : vault'[y] = IF y = x THEN vault[x] - TotalPaid(l, f) ELSE vault[y]
    BY <1>1 DEF SettleLobby, TypeOK
  <2>2. vault[x] - TotalPaid(l, f) = 0
    BY <1>5, <1>6, <1>7
  <2> QED BY <2>1, <2>2
<1>10. /\ DOMAIN lobbies' = DOMAIN lobbies
       /\ lobbies'[x] = Settled(l)
       /\ \A y \in DOMAIN lobbies \ {x} : lobbies'[y] = lobbies[y]
  BY <1>1, <1>2 DEF SettleLobby, TypeOK
<1>11. LET m == Settled(l)
       IN /\ m.entry_fee = l.entry_fee /\ m.size = l.size
          /\ m.players = l.players /\ m.status = "Settled"
  BY <1>2, FieldsKept DEF Settled
<1> QED BY <1>2, <1>3, <1>4, <1>5, <1>6, <1>7, <1>8, <1>9, <1>10, <1>11

\* A cancellation empties the vault: every player gets the entry fee back.
LEMMA CancelMoves ==
  ASSUME IInv, NEW x \in LobbyIds, NEW w, CancelLobby(x, w), NEW l, l = lobbies[x]
  PROVE  /\ x \in DOMAIN lobbies /\ l \in Lobby /\ RosterConsistent(l)
         /\ Live(l) /\ l.entry_fee \in Nat /\ Len(l.players) \in Nat
         /\ \A a \in Accounts : balance'[a] = balance[a] + Refund(l, a)
         /\ vault[x] = l.entry_fee * Len(l.players)
         /\ \A y \in LobbyIds : vault'[y] = IF y = x THEN 0 ELSE vault[y]
         /\ DOMAIN lobbies' = DOMAIN lobbies
         /\ \A y \in DOMAIN lobbies \ {x} : lobbies'[y] = lobbies[y]
         /\ lobbies'[x].entry_fee = l.entry_fee /\ lobbies'[x].size = l.size
         /\ lobbies'[x].players = l.players /\ lobbies'[x].status = "Cancelled"
         /\ stats' = stats
<1>1. TypeOK /\ VaultHoldsStakes /\ RostersConsistent
  BY DEF IInv
<1>2. x \in DOMAIN lobbies /\ l \in Lobby /\ RosterConsistent(l) /\ Live(l)
  <2>1. x \in DOMAIN lobbies /\ Live(l)
    BY DEF CancelLobby, MayCancel, Exists, CanCancel
  <2> QED BY <1>1, <2>1 DEF TypeOK, RostersConsistent
<1>3. l.entry_fee \in Nat /\ Len(l.players) \in Nat
  BY <1>2, EntryTyped, LobbyNumbers DEF Lobby
<1>4. vault[x] = l.entry_fee * Len(l.players) /\ vault[x] \in Nat
  BY <1>1, <1>2 DEF VaultHoldsStakes, Exists, TypeOK
<1>5. /\ \A a \in Accounts : balance'[a] = balance[a] + Refund(l, a)
      /\ stats' = stats
  BY <1>1 DEF CancelLobby, TypeOK
<1>6. \A y \in LobbyIds : vault'[y] = IF y = x THEN 0 ELSE vault[y]
  <2>1. \A y \in LobbyIds : vault'[y] = IF y = x THEN vault[x] - TotalRefunded(l) ELSE vault[y]
    BY <1>1 DEF CancelLobby, TypeOK
  <2>2. vault[x] - TotalRefunded(l) = 0
    BY <1>4 DEF TotalRefunded
  <2> QED BY <2>1, <2>2
<1>7. /\ DOMAIN lobbies' = DOMAIN lobbies
      /\ lobbies'[x] = Cancelled(l)
      /\ \A y \in DOMAIN lobbies \ {x} : lobbies'[y] = lobbies[y]
  BY <1>1, <1>2 DEF CancelLobby, TypeOK
<1>8. LET m == Cancelled(l)
      IN /\ m.entry_fee = l.entry_fee /\ m.size = l.size
         /\ m.players = l.players /\ m.status = "Cancelled"
  BY <1>2, FieldsKept DEF Cancelled
<1> QED BY <1>2, <1>3, <1>4, <1>5, <1>6, <1>7, <1>8

\* What the winners and the treasury gain by a settlement adds up to the pot.
LEMMA GainsAddUp ==
  ASSUME IInv, NEW s, NEW x \in LobbyIds, NEW w, SettleLobby(s, x, w)
  PROVE  SumFunctionOnSet([ a \in Accounts |-> balance'[a] - balance[a] ], Accounts)
           = Pot(lobbies[x])
<1> PICK l, f : l = lobbies[x] /\ f = config.fee_bps
  OBVIOUS
<1> DEFINE gain == [ a \in Accounts |-> balance'[a] - balance[a] ]
           pay == [ a \in Accounts |-> Payout(l, f, a) ]
           fee == [ a \in Accounts |-> IF a \in {config.treasury} THEN FeeOf(l, f) ELSE 0 ]
<1>1. /\ l \in Lobby /\ RosterConsistent(l) /\ Len(l.players) > 0 /\ f \in 0 .. MAX_FEE_BPS
      /\ Pot(l) \in Nat /\ FeeOf(l, f) \in Nat
      /\ \A key : Payout(l, f, key) \in Nat
      /\ \A a \in Accounts : balance'[a] = balance[a] + Payout(l, f, a)
                               + (IF a = config.treasury THEN FeeOf(l, f) ELSE 0)
  <2>1. l \in Lobby /\ RosterConsistent(l) /\ Len(l.players) > 0 /\ f \in 0 .. MAX_FEE_BPS
    BY SettleMoves
  <2>2. Pot(l) \in Nat /\ FeeOf(l, f) \in Nat
    BY SettleMoves
  <2>3. \A key : Payout(l, f, key) \in Nat
    BY SettleMoves
  <2>4. \A a \in Accounts : balance'[a] = balance[a] + Payout(l, f, a)
                               + (IF a = config.treasury THEN FeeOf(l, f) ELSE 0)
    BY DEF SettleLobby, IInv, TypeOK
  <2> QED BY <2>1, <2>2, <2>3, <2>4
<1>2. config.treasury \in Accounts
  <2>1. config \in Deployment
    BY SettleMoves
  <2> QED BY <2>1 DEF Deployment
<1>3. \A a \in Accounts : balance[a] \in Nat
  BY DEF IInv, TypeOK
<1>4. \A a \in Accounts : pay[a] \in Int /\ fee[a] \in Int /\ gain[a] = pay[a] + fee[a]
  BY <1>1, <1>3
<1>5. SumFunctionOnSet(gain, Accounts) = SumFunctionOnSet(pay, Accounts) + SumFunctionOnSet(fee, Accounts)
  <2> HIDE DEF gain, pay, fee
  <2> QED BY <1>4, FiniteLedger, SumAdds
<1>6. SumFunctionOnSet(pay, Accounts) = Pot(l) - FeeOf(l, f)
  BY <1>1, FiniteLedger, PayoutsAddUp
<1>7. SumFunctionOnSet(fee, Accounts) = FeeOf(l, f)
  <2>1. \A a \in Accounts : fee[a] = IF a \in {config.treasury} THEN FeeOf(l, f) ELSE 0
    OBVIOUS
  <2>2. {config.treasury} \in SUBSET Accounts /\ FeeOf(l, f) \in Int
    BY <1>1, <1>2
  <2>3. SumFunctionOnSet(fee, Accounts) = FeeOf(l, f) * Cardinality({config.treasury})
    <3> HIDE DEF fee
    <3> QED BY <2>1, <2>2, FiniteLedger, SumShared
  <2>4. Cardinality({config.treasury}) = 1
    BY FS_Singleton
  <2> QED BY <1>1, <2>3, <2>4
<1>8. SumFunctionOnSet(gain, Accounts) = Pot(l)
  <2> HIDE DEF gain, pay, fee
  <2> QED BY <1>1, <1>5, <1>6, <1>7
<1> QED BY <1>8

\* Whatever an instruction does to wallets and vaults, their sums balance.
LEMMA LamportsStep ==
  ASSUME IInv, LamportsConserved, [Next]_vars
  PROVE  LamportsConserved'
<1> DEFINE W == SumFunctionOnSet(balance, Accounts)
           V == SumFunctionOnSet(vault, LobbyIds)
           Wn == SumFunctionOnSet(balance', Accounts)
           Vn == SumFunctionOnSet(vault', LobbyIds)
<1>1. TypeOK /\ TypeOK' /\ IsFiniteSet(Accounts) /\ IsFiniteSet(LobbyIds)
  BY StepIInv, FiniteLedger DEF IInv
<1>2. /\ DOMAIN balance = Accounts /\ DOMAIN balance' = Accounts
      /\ DOMAIN vault = LobbyIds /\ DOMAIN vault' = LobbyIds
      /\ \A a \in Accounts : balance[a] \in Int /\ balance'[a] \in Int
      /\ \A y \in LobbyIds : vault[y] \in Int /\ vault'[y] \in Int
  BY <1>1 DEF TypeOK
<1>3. W \in Int /\ V \in Int
  BY <1>1, <1>2, SumTyped
<1>4. /\ LamportsConserved <=> W + V = SumFunction(InitialBalance)
      /\ LamportsConserved' <=> Wn + Vn = SumFunction(InitialBalance)
  BY <1>2, Zenon DEF LamportsConserved, SumFunction
\* The vault of one game changes, the others stay.
<1>5. ASSUME NEW x \in LobbyIds, \A y \in LobbyIds \ {x} : vault'[y] = vault[y]
      PROVE  Vn = V - vault[x] + vault'[x]
  <2>1. /\ \A y \in LobbyIds : vault[y] \in Int /\ vault'[y] \in Int
        /\ \A y \in LobbyIds \ {x} : vault'[y] = vault[y]
    BY <1>2, <1>5
  <2> QED BY <1>1, <2>1, SumChanged
\* The wallets gain g, account by account.
<1>6. ASSUME NEW g, \A a \in Accounts : g[a] \in Int /\ balance'[a] = balance[a] + g[a]
      PROVE  Wn = W + SumFunctionOnSet(g, Accounts)
  <2>1. \A a \in Accounts : balance[a] \in Int /\ g[a] \in Int /\ balance'[a] = balance[a] + g[a]
    BY <1>2, <1>6
  <2> QED BY <1>1, <2>1, SumAdds
<1>7. CASE Quiet
  BY <1>4, <1>7 DEF Quiet, LamportsConserved
<1>8. ASSUME NEW p \in Players, NEW x \in LobbyIds, JoinLobby(p, x)
      PROVE  LamportsConserved'
  <2> PICK l : l = lobbies[x]
    OBVIOUS
  <2>1. /\ l.entry_fee \in Nat /\ p \in Accounts
        /\ \A a \in Accounts :
              balance'[a] = IF a = p THEN balance[p] - l.entry_fee ELSE balance[a]
        /\ \A y \in LobbyIds :
              vault'[y] = IF y = x THEN vault[x] + l.entry_fee ELSE vault[y]
    BY <1>8, JoinMoves
  <2>2. Wn = W - balance[p] + balance'[p]
    <3>1. /\ \A a \in Accounts : balance[a] \in Int /\ balance'[a] \in Int
          /\ \A a \in Accounts \ {p} : balance'[a] = balance[a]
      BY <1>2, <2>1
    <3> QED BY <1>1, <2>1, <3>1, SumChanged
  <2>3. Vn = V - vault[x] + vault'[x]
    BY <1>5, <2>1
  <2>4. Wn + Vn = W + V
    <3> HIDE DEF W, V, Wn, Vn
    <3> QED BY <1>2, <1>3, <2>1, <2>2, <2>3
  <2> QED BY <1>4, <2>4
<1>9. ASSUME NEW s \in Accounts, NEW x \in LobbyIds, NEW w, SettleLobby(s, x, w)
      PROVE  LamportsConserved'
  <2> DEFINE g == [ a \in Accounts |-> balance'[a] - balance[a] ]
  <2>1. Wn = W + SumFunctionOnSet(g, Accounts)
    <3>1. \A a \in Accounts : g[a] \in Int /\ balance'[a] = balance[a] + g[a]
      BY <1>2
    <3> HIDE DEF g
    <3> QED BY <1>6, <3>1
  <2>2. SumFunctionOnSet(g, Accounts) = Pot(lobbies[x])
    BY <1>9, GainsAddUp
  <2>3. /\ vault[x] = Pot(lobbies[x])
        /\ \A y \in LobbyIds : vault'[y] = IF y = x THEN 0 ELSE vault[y]
    BY <1>9, SettleMoves
  <2>4. Vn = V - vault[x] + vault'[x]
    BY <1>5, <2>3
  <2>5. Wn + Vn = W + V
    <3> HIDE DEF W, V, Wn, Vn, g
    <3> QED BY <1>2, <1>3, <2>1, <2>2, <2>3, <2>4
  <2> QED BY <1>4, <2>5
<1>10. ASSUME NEW x \in LobbyIds, NEW w, CancelLobby(x, w)
       PROVE  LamportsConserved'
  <2> PICK l : l = lobbies[x]
    OBVIOUS
  <2> DEFINE g == [ a \in Accounts |-> Refund(l, a) ]
  <2>1. /\ l \in Lobby /\ RosterConsistent(l) /\ l.entry_fee \in Nat
        /\ \A a \in Accounts : balance'[a] = balance[a] + Refund(l, a)
        /\ vault[x] = l.entry_fee * Len(l.players)
        /\ \A y \in LobbyIds : vault'[y] = IF y = x THEN 0 ELSE vault[y]
    BY <1>10, CancelMoves
  <2>2. Wn = W + SumFunctionOnSet(g, Accounts)
    <3>1. \A a \in Accounts : g[a] \in Int /\ balance'[a] = balance[a] + g[a]
      BY <1>2, <2>1 DEF Refund
    <3> HIDE DEF g
    <3> QED BY <1>6, <3>1
  <2>3. SumFunctionOnSet(g, Accounts) = vault[x]
    BY <1>1, <2>1, RefundsAddUp
  <2>4. Vn = V - vault[x] + vault'[x]
    BY <1>5, <2>1
  <2>5. Wn + Vn = W + V
    <3> HIDE DEF W, V, Wn, Vn, g
    <3> QED BY <1>2, <1>3, <2>1, <2>2, <2>3, <2>4
  <2> QED BY <1>4, <2>5
<1> QED BY <1>7, <1>8, <1>9, <1>10, OnlyThreeMoveMoney

\* What the configuration and the seats add to the balance of the lamports:
\* every stake is worth something and one of the fees that were deployed, so is
\* the treasury, and only those who play have seats.
FeeLists == { d.allowed_entry_fees : d \in Deployments }
IsFee(fee) == \E fees \in FeeLists : \E k \in DOMAIN fees : fees[k] = fee

ConfigSound ==
  config # NotInitialized =>
    /\ \A k \in DOMAIN config.allowed_entry_fees : config.allowed_entry_fees[k] > 0
    /\ config.treasury \in Treasuries
    /\ config.allowed_entry_fees \in FeeLists

GamesSound ==
  \A id \in DOMAIN lobbies :
    /\ lobbies[id].entry_fee > 0
    /\ IsFee(lobbies[id].entry_fee)
    /\ \A a \in Accounts : contains_player(lobbies[id], a) => a \in Players

MoneyInv == IInv /\ ConfigSound /\ GamesSound

\* No configuration and no lobby at first.
LEMMA InitMoney == Init => MoneyInv
BY InitIInv DEF Init, MoneyInv, ConfigSound, GamesSound

\* initialize checks the fees it is given, set_fee changes only the commission.
LEMMA ConfigStep ==
  ASSUME MoneyInv, [Next]_vars
  PROVE  ConfigSound'
<1>1. ASSUME NEW d \in Deployments, Initialize(d)
      PROVE  ConfigSound'
  BY <1>1 DEF Initialize, ConfigSound, Treasuries, FeeLists
<1>2. ASSUME NEW a \in Accounts, NEW f \in FeeBpsChoices, SetFee(a, f)
      PROVE  ConfigSound'
  <2>1. config \in Deployment /\ config # NotInitialized
    BY <1>2 DEF SetFee, MoneyInv, IInv, TypeOK
  <2>2. /\ config'.allowed_entry_fees = config.allowed_entry_fees
        /\ config'.treasury = config.treasury
    BY <1>2, <2>1 DEF SetFee, Deployment
  <2> QED BY <2>1, <2>2 DEF MoneyInv, ConfigSound, Treasuries, FeeLists
<1>3. ASSUME config' = config
      PROVE  ConfigSound'
  BY <1>3 DEF MoneyInv, ConfigSound, Treasuries, FeeLists
<1> QED
  BY <1>1, <1>2, <1>3
  DEF Next, vars, CreateLobby, FulfillRound, JoinLobby, SubmitResult, SettleLobby, CancelLobby, Tick

\* A new lobby costs one of the allowed fees, a new seat goes to a player.
LEMMA MoneyStep == MoneyInv /\ [Next]_vars => MoneyInv'
<1> SUFFICES ASSUME MoneyInv, [Next]_vars PROVE MoneyInv'
  OBVIOUS
<1>1. IInv /\ IInv' /\ ConfigSound /\ GamesSound /\ ConfigSound'
  BY StepIInv, ConfigStep DEF MoneyInv
<1>2. CASE Quiet
  <2>1. ASSUME NEW id \in DOMAIN lobbies
        PROVE  /\ lobbies'[id].entry_fee > 0 /\ IsFee(lobbies'[id].entry_fee)
               /\ \A a \in Accounts : contains_player(lobbies'[id], a) => a \in Players
    BY <1>1, <1>2 DEF Quiet, SameGame, GamesSound
  <2>2. ASSUME NEW id \in DOMAIN lobbies' \ DOMAIN lobbies
        PROVE  /\ lobbies'[id].entry_fee > 0 /\ IsFee(lobbies'[id].entry_fee)
               /\ \A a \in Accounts : ~ contains_player(lobbies'[id], a)
    BY <1>1, <1>2 DEF Quiet, ConfigSound, IsFee, contains_player, Seats
  <2> QED BY <1>1, <2>1, <2>2 DEF MoneyInv, GamesSound
\* One lobby changes, its fee and its players do not, or one player joins.
<1>3. ASSUME NEW x \in DOMAIN lobbies, DOMAIN lobbies' = DOMAIN lobbies,
             \A y \in DOMAIN lobbies \ {x} : lobbies'[y] = lobbies[y],
             lobbies'[x].entry_fee = lobbies[x].entry_fee,
             \A a \in Accounts : contains_player(lobbies'[x], a) =>
                                   contains_player(lobbies[x], a) \/ a \in Players
      PROVE  MoneyInv'
  BY <1>1, <1>3 DEF MoneyInv, GamesSound
<1>4. ASSUME NEW p \in Players, NEW x \in LobbyIds, JoinLobby(p, x)
      PROVE  MoneyInv'
  <2>1. /\ x \in DOMAIN lobbies /\ DOMAIN lobbies' = DOMAIN lobbies
        /\ \A y \in DOMAIN lobbies \ {x} : lobbies'[y] = lobbies[y]
        /\ lobbies'[x].entry_fee = lobbies[x].entry_fee
        /\ \A a \in Accounts : contains_player(lobbies'[x], a) <=>
                                 contains_player(lobbies[x], a) \/ a = p
    BY <1>1, <1>4, JoinMoves
  <2> QED BY <1>3, <2>1
<1>5. ASSUME NEW s \in Accounts, NEW x \in LobbyIds, NEW w, SettleLobby(s, x, w)
      PROVE  MoneyInv'
  <2>1. /\ x \in DOMAIN lobbies /\ DOMAIN lobbies' = DOMAIN lobbies
        /\ \A y \in DOMAIN lobbies \ {x} : lobbies'[y] = lobbies[y]
        /\ lobbies'[x].entry_fee = lobbies[x].entry_fee
        /\ lobbies'[x].players = lobbies[x].players
    BY <1>1, <1>5, SettleMoves
  <2> QED BY <1>3, <2>1 DEF contains_player, Seats
<1>6. ASSUME NEW x \in LobbyIds, NEW w, CancelLobby(x, w)
      PROVE  MoneyInv'
  <2>1. /\ x \in DOMAIN lobbies /\ DOMAIN lobbies' = DOMAIN lobbies
        /\ \A y \in DOMAIN lobbies \ {x} : lobbies'[y] = lobbies[y]
        /\ lobbies'[x].entry_fee = lobbies[x].entry_fee
        /\ lobbies'[x].players = lobbies[x].players
    BY <1>1, <1>6, CancelMoves
  <2> QED BY <1>3, <2>1 DEF contains_player, Seats
<1> QED BY <1>1, <1>2, <1>4, <1>5, <1>6, OnlyThreeMoveMoney

-----------------------------------------------------------------------------
(* The statistics *)

\* The treasuries do not play.  The program would let them, and then their
\* stakes and prizes would mix with the fees.
Apart == Treasuries \cap Players = {}

Volume == SumFunctionOnSet([ id \in SettledIds |-> Pot(lobbies[id]) ], SettledIds)
Income == SumFunctionOnSet([ a \in Treasuries |-> balance[a] - InitialBalance[a] ], Treasuries)

\* The sums of StatsMatchLedger, their sets named.
LEMMA StatsUnfolded ==
  StatsMatchLedger <=> /\ stats.total_games_settled = Cardinality(SettledIds)
                       /\ stats.total_volume_lamports = Volume
                       /\ stats.total_fees_lamports = Income
<1>1. /\ DOMAIN [ id \in SettledIds |-> Pot(lobbies[id]) ] = SettledIds
      /\ DOMAIN [ a \in Treasuries |-> balance[a] - InitialBalance[a] ] = Treasuries
  OBVIOUS
<1> QED BY <1>1, Zenon DEF StatsMatchLedger, SumFunction, Volume, Income

\* The sets of both sums are finite, their terms numbers.
LEMMA StatsTyped ==
  ASSUME TypeOK
  PROVE  /\ IsFiniteSet(Treasuries) /\ Treasuries \subseteq Accounts
         /\ IsFiniteSet(SettledIds) /\ Cardinality(SettledIds) \in Nat
         /\ \A a \in Accounts : balance[a] \in Int /\ InitialBalance[a] \in Int
         /\ \A id \in DOMAIN lobbies : Pot(lobbies[id]) \in Nat
         /\ Volume \in Int /\ Income \in Int
<1>1. Treasuries \subseteq Accounts
  BY ProgramInputs DEF Treasuries, Deployment
<1>2. IsFiniteSet(Treasuries)
  BY <1>1, FiniteLedger, FS_Subset
<1>3. SettledIds \subseteq LobbyIds
  BY DEF SettledIds, TypeOK
<1>4. IsFiniteSet(SettledIds) /\ Cardinality(SettledIds) \in Nat
  BY <1>3, FiniteLedger, FS_Subset, FS_CardinalityType
<1>5. \A a \in Accounts : balance[a] \in Int /\ InitialBalance[a] \in Int
  BY ProgramInputs DEF TypeOK
<1>6. ASSUME NEW id \in DOMAIN lobbies
      PROVE  Pot(lobbies[id]) \in Nat
  <2>1. lobbies[id] \in Lobby
    BY <1>6 DEF TypeOK
  <2>2. lobbies[id].entry_fee \in Nat /\ lobbies[id].size \in Nat
    BY <2>1, LobbyNumbers DEF Lobby, MIN_LOBBY_SIZE, MAX_LOBBY_SIZE
  <2> QED BY <2>2, ProductIsNat DEF Pot
<1>7. Volume \in Int
  <2> DEFINE g == [ id \in SettledIds |-> Pot(lobbies[id]) ]
  <2>1. \A id \in SettledIds : g[id] \in Int
    BY <1>6 DEF SettledIds
  <2>2. SumFunctionOnSet(g, SettledIds) \in Int
    <3> HIDE DEF g
    <3> QED BY <1>4, <2>1, SumTyped
  <2> QED BY <2>2 DEF Volume
<1>8. Income \in Int
  <2> DEFINE g == [ a \in Treasuries |-> balance[a] - InitialBalance[a] ]
  <2>1. \A a \in Treasuries : g[a] \in Int
    BY <1>1, <1>5
  <2>2. SumFunctionOnSet(g, Treasuries) \in Int
    <3> HIDE DEF g
    <3> QED BY <1>2, <2>1, SumTyped
  <2> QED BY <2>2 DEF Income
<1> QED BY <1>1, <1>2, <1>4, <1>5, <1>6, <1>7, <1>8

\* Nothing settled, nothing received.
LEMMA InitStats == Init => StatsMatchLedger
<1> SUFFICES ASSUME Init PROVE StatsMatchLedger
  OBVIOUS
<1>1. TypeOK /\ SettledIds = {}
  BY InitIInv DEF IInv, Init, SettledIds
<1>2. Cardinality(SettledIds) = 0
  BY <1>1, FS_EmptySet, Zenon
<1>3. Volume = 0
  <2> DEFINE g == [ id \in SettledIds |-> Pot(lobbies[id]) ]
  <2>1. IsFiniteSet(SettledIds)
    BY <1>1, StatsTyped
  <2>2. SumFunctionOnSet(g, SettledIds) = 0
    <3> HIDE DEF g
    <3> QED BY <1>1, <2>1, SumTaken, Zenon
  <2> QED BY <2>2 DEF Volume
<1>4. Income = 0
  <2> DEFINE g == [ a \in Treasuries |-> balance[a] - InitialBalance[a] ]
  <2>1. \A a \in Treasuries : g[a] = IF a \in {} THEN 0 ELSE 0
    BY <1>1, StatsTyped DEF Init
  <2>2. SumFunctionOnSet(g, Treasuries) = 0 * Cardinality({})
    <3> HIDE DEF g
    <3>1. {} \in SUBSET Treasuries /\ 0 \in Int /\ IsFiniteSet(Treasuries)
      BY <1>1, StatsTyped
    <3> QED BY <2>1, <3>1, SumShared
  <2>3. Cardinality({}) = 0
    BY FS_EmptySet
  <2> HIDE DEF g
  <2>4. SumFunctionOnSet(g, Treasuries) = 0
    BY <2>2, <2>3
  <2> QED BY <2>4 DEF Income, g
<1>5. /\ stats.total_games_settled = 0 /\ stats.total_volume_lamports = 0
      /\ stats.total_fees_lamports = 0
  BY DEF Init
<1> QED BY <1>2, <1>3, <1>4, <1>5, StatsUnfolded

\* The treasuries gain what they gain: the sum follows account by account.
LEMMA IncomeStep ==
  ASSUME TypeOK, TypeOK', NEW t \in Treasuries, NEW fee \in Nat,
         \A a \in Treasuries : balance'[a] = balance[a] + (IF a = t THEN fee ELSE 0)
  PROVE  Income' = Income + fee
<1> DEFINE g == [ a \in Treasuries |-> balance[a] - InitialBalance[a] ]
           h == [ a \in Treasuries |-> balance'[a] - InitialBalance[a] ]
           d == [ a \in Treasuries |-> IF a \in {t} THEN fee ELSE 0 ]
<1>1. IsFiniteSet(Treasuries)
  BY StatsTyped
<1>2. \A a \in Treasuries : g[a] \in Int /\ d[a] \in Int /\ h[a] = g[a] + d[a]
  BY StatsTyped
<1>3. \A a \in Treasuries : d[a] = IF a \in {t} THEN fee ELSE 0
  OBVIOUS
<1>4. Income = SumFunctionOnSet(g, Treasuries) /\ Income' = SumFunctionOnSet(h, Treasuries)
  BY DEF Income, Treasuries
<1> HIDE DEF g, h, d
<1>5. SumFunctionOnSet(h, Treasuries) =
        SumFunctionOnSet(g, Treasuries) + SumFunctionOnSet(d, Treasuries)
  BY <1>1, <1>2, SumAdds
<1>6. SumFunctionOnSet(d, Treasuries) = fee * Cardinality({t})
  BY <1>1, <1>3, SumShared
<1>7. Cardinality({t}) = 1
  BY FS_Singleton
<1> QED BY <1>4, <1>5, <1>6, <1>7

\* Every step keeps the books.  Settlement is the interesting one: one lobby is
\* added to the settled, with its pot, and one treasury gains the fee.
LEMMA StatsStep ==
  ASSUME MoneyInv, Apart, StatsMatchLedger, [Next]_vars
  PROVE  StatsMatchLedger'
<1>1. /\ IInv /\ MoneyInv' /\ TypeOK /\ TypeOK' /\ GamesSound
      /\ stats.total_games_settled = Cardinality(SettledIds)
      /\ stats.total_volume_lamports = Volume
      /\ stats.total_fees_lamports = Income
  BY MoneyStep, StatsUnfolded DEF MoneyInv, IInv
<1>2. /\ stats'.total_games_settled = Cardinality(SettledIds')
      /\ stats'.total_volume_lamports = Volume'
      /\ stats'.total_fees_lamports = Income'
      => StatsMatchLedger'
  <2>1. /\ DOMAIN [ id \in SettledIds' |-> Pot(lobbies'[id]) ] = SettledIds'
        /\ DOMAIN [ a \in Treasuries |-> balance'[a] - InitialBalance[a] ] = Treasuries
    OBVIOUS
  <2> QED BY <2>1, Zenon DEF StatsMatchLedger, SumFunction, Volume, Income, Treasuries
\* The settled lobbies stay, and so do their pots.
<1>3. ASSUME SettledIds' = SettledIds,
             \A id \in SettledIds : Pot(lobbies'[id]) = Pot(lobbies[id])
      PROVE  Volume' = Volume
  BY <1>3 DEF Volume
\* The treasuries gain nothing.
<1>4. ASSUME \A a \in Treasuries : balance'[a] = balance[a]
      PROVE  Income' = Income
  BY <1>4 DEF Income, Treasuries
\* Players are no treasuries.
<1>5. \A id \in DOMAIN lobbies : \A a \in Treasuries : ~ contains_player(lobbies[id], a)
  BY <1>1, StatsTyped DEF GamesSound, Apart
<1>6. CASE Quiet
  <2>1. /\ UNCHANGED << stats, balance >>
        /\ \A id \in DOMAIN lobbies : id \in DOMAIN lobbies' /\ SameGame(lobbies[id], lobbies'[id])
        /\ \A id \in DOMAIN lobbies' \ DOMAIN lobbies : lobbies'[id].status = "AwaitingRandomness"
    BY <1>6 DEF Quiet
  <2>2. SettledIds' = SettledIds
    BY <2>1 DEF SettledIds, SameGame
  <2>3. Volume' = Volume
    BY <1>3, <2>1, <2>2 DEF SettledIds, SameGame, Pot
  <2>4. Income' = Income
    BY <1>4, <2>1
  <2> QED BY <1>1, <1>2, <2>1, <2>2, <2>3, <2>4
<1>7. ASSUME NEW p \in Players, NEW x \in LobbyIds, JoinLobby(p, x)
      PROVE  StatsMatchLedger'
  <2> PICK l : l = lobbies[x]
    OBVIOUS
  <2>1. /\ x \in DOMAIN lobbies /\ l.status = "Open" /\ lobbies'[x].status = "Open"
        /\ DOMAIN lobbies' = DOMAIN lobbies
        /\ \A y \in DOMAIN lobbies \ {x} : lobbies'[y] = lobbies[y]
    BY <1>1, <1>7, JoinMoves
  <2>2. \A a \in Accounts : balance'[a] = IF a = p THEN balance[p] - l.entry_fee ELSE balance[a]
    BY <1>1, <1>7, JoinMoves
  <2>3. SettledIds' = SettledIds /\ Volume' = Volume
    <3>1. SettledIds' = SettledIds
      BY <2>1 DEF SettledIds
    <3>2. \A y \in SettledIds : lobbies'[y] = lobbies[y]
      BY <2>1 DEF SettledIds
    <3> QED BY <1>3, <3>1, <3>2
  <2>4. Income' = Income
    BY <1>1, <1>4, <2>2, StatsTyped DEF Apart
  <2>5. stats' = stats
    BY <1>7 DEF JoinLobby
  <2> QED BY <1>1, <1>2, <2>3, <2>4, <2>5
<1>8. ASSUME NEW x \in LobbyIds, NEW w, CancelLobby(x, w)
      PROVE  StatsMatchLedger'
  <2> PICK l : l = lobbies[x]
    OBVIOUS
  <2>1. /\ x \in DOMAIN lobbies /\ l \in Lobby /\ Live(l) /\ lobbies'[x].status = "Cancelled"
        /\ DOMAIN lobbies' = DOMAIN lobbies
        /\ \A y \in DOMAIN lobbies \ {x} : lobbies'[y] = lobbies[y]
        /\ stats' = stats
    BY <1>1, <1>8, CancelMoves
  <2>2. \A a \in Accounts : balance'[a] = balance[a] + Refund(l, a)
    BY <1>1, <1>8, CancelMoves
  <2>3. SettledIds' = SettledIds /\ Volume' = Volume
    <3>1. SettledIds' = SettledIds
      BY <2>1 DEF SettledIds, Live
    <3>2. \A y \in SettledIds : lobbies'[y] = lobbies[y]
      BY <2>1 DEF SettledIds, Live
    <3> QED BY <1>3, <3>1, <3>2
  <2>4. Income' = Income
    <3>1. \A a \in Treasuries : Refund(l, a) = 0
      BY <1>5, <2>1, OnlyPlayersPaid
    <3>2. \A a \in Treasuries : balance'[a] = balance[a]
      BY <1>1, <2>2, <3>1, StatsTyped
    <3> QED BY <1>4, <3>2
  <2> QED BY <1>1, <1>2, <2>1, <2>3, <2>4
<1>9. ASSUME NEW s \in Accounts, NEW x \in LobbyIds, NEW w, SettleLobby(s, x, w)
      PROVE  StatsMatchLedger'
  <2> PICK l, f : l = lobbies[x] /\ f = config.fee_bps
    OBVIOUS
  <2>1. /\ x \in DOMAIN lobbies /\ l \in Lobby /\ l.status = "Open"
        /\ config # NotInitialized /\ Pot(l) \in Nat /\ FeeOf(l, f) \in Nat
    BY <1>1, <1>9, SettleMoves
  <2>2. /\ lobbies'[x].entry_fee = l.entry_fee /\ lobbies'[x].size = l.size
        /\ lobbies'[x].status = "Settled" /\ DOMAIN lobbies' = DOMAIN lobbies
        /\ \A y \in DOMAIN lobbies \ {x} : lobbies'[y] = lobbies[y]
    <3>1. /\ lobbies'[x].entry_fee = l.entry_fee /\ lobbies'[x].size = l.size
          /\ lobbies'[x].status = "Settled"
      <4>1. IInv
        BY <1>1
      <4> QED BY <1>9, <4>1, SettleMoves
    <3>2. /\ DOMAIN lobbies' = DOMAIN lobbies
          /\ \A y \in DOMAIN lobbies \ {x} : lobbies'[y] = lobbies[y]
      <4>1. lobbies' = [ lobbies EXCEPT ![x] = Settled(@) ]
        BY <1>9 DEF SettleLobby
      <4> QED BY <4>1
    <3> QED BY <3>1, <3>2
  <2>3. stats' = StatsAfter(l, FeeOf(l, f))
    BY <1>9 DEF SettleLobby
  <2>4. \A a \in Accounts : balance'[a] = balance[a] + Payout(l, f, a)
                              + (IF a = config.treasury THEN FeeOf(l, f) ELSE 0)
    BY <1>1, <1>9 DEF SettleLobby, TypeOK
  <2>5. SettledIds' = SettledIds \cup {x} /\ x \notin SettledIds
    BY <2>1, <2>2 DEF SettledIds
  <2>6. Cardinality(SettledIds') = Cardinality(SettledIds) + 1
    BY <1>1, <2>5, StatsTyped, FS_AddElement
  <2>7. Volume' = Volume + Pot(l)
    <3> DEFINE g == [ id \in SettledIds |-> Pot(lobbies[id]) ]
               h == [ id \in SettledIds' |-> Pot(lobbies'[id]) ]
    <3>1. Volume = SumFunctionOnSet(g, SettledIds) /\ Volume' = SumFunctionOnSet(h, SettledIds')
      BY DEF Volume
    <3>2. IsFiniteSet(SettledIds) /\ \A id \in SettledIds : g[id] \in Int
      BY <1>1, StatsTyped DEF SettledIds
    <3>3. h[x] = Pot(l) /\ \A id \in SettledIds : h[id] = g[id]
      BY <2>1, <2>2, <2>5 DEF Pot, SettledIds
    <3>4. SumFunctionOnSet(h, SettledIds \cup {x}) = SumFunctionOnSet(h, SettledIds) + h[x]
      <4>1. \A id \in SettledIds \cup {x} : h[id] \in Int
        BY <2>1, <3>2, <3>3
      <4> HIDE DEF h, g
      <4> QED BY <2>5, <3>2, <4>1, SumExtended
    <3>5. SumFunctionOnSet(h, SettledIds) = SumFunctionOnSet(g, SettledIds)
      <4> HIDE DEF h, g
      <4> QED BY <3>2, <3>3, SumSame
    <3>6. SumFunctionOnSet(h, SettledIds') = SumFunctionOnSet(h, SettledIds \cup {x})
      BY <2>5, Zenon
    <3> HIDE DEF g, h
    <3> QED BY <3>1, <3>3, <3>4, <3>5, <3>6
  <2>8. Income' = Income + FeeOf(l, f)
    <3>1. config.treasury \in Treasuries
      BY <2>1 DEF MoneyInv, ConfigSound
    <3>2. \A a \in Treasuries : Payout(l, f, a) = 0
      BY <1>5, <2>1, OnlyPlayersPaid
    <3>3. \A a \in Treasuries :
            balance'[a] = balance[a] + (IF a = config.treasury THEN FeeOf(l, f) ELSE 0)
      BY <1>1, <2>4, <3>2, StatsTyped
    <3> QED BY <1>1, <2>1, <3>1, <3>3, IncomeStep
  <2>9. /\ stats'.total_games_settled = stats.total_games_settled + 1
        /\ stats'.total_volume_lamports = stats.total_volume_lamports + Pot(l)
        /\ stats'.total_fees_lamports = stats.total_fees_lamports + FeeOf(l, f)
    BY <2>3 DEF StatsAfter
  <2> QED BY <1>1, <1>2, <2>6, <2>7, <2>8, <2>9
<1> QED BY <1>1, <1>6, <1>7, <1>8, <1>9, OnlyThreeMoveMoney

-----------------------------------------------------------------------------
(* The escrow *)

StakeFunctions == [ LobbyIds -> [ Accounts -> Nat ] ]

\* The two updates the escrow makes, named so that a lemma can be cited of them.
RowReplaced(s, x, n) == [ s EXCEPT ![x] = n ]
EntryReplaced(s, x, p, v) == [ s EXCEPT ![x][p] = v ]

\* Tables of stakes are the same when they agree entry by entry.
LEMMA StakesAgree ==
  ASSUME NEW s \in StakeFunctions, NEW t \in StakeFunctions,
         \A g \in LobbyIds : \A a \in Accounts : s[g][a] = t[g][a]
  PROVE  s = t
<1>1. \A g \in LobbyIds : s[g] = t[g]
  BY DEF StakeFunctions
<1> QED BY <1>1 DEF StakeFunctions

\* Closing a game replaces one row of the table.
LEMMA StakesCleared ==
  ASSUME NEW s \in StakeFunctions, NEW x \in LobbyIds, NEW n \in [ Accounts -> Nat ],
         NEW t, t = RowReplaced(s, x, n)
  PROVE  /\ t \in StakeFunctions
         /\ \A g \in LobbyIds : \A a \in Accounts :
              t[g][a] = IF g = x THEN n[a] ELSE s[g][a]
BY DEF StakeFunctions, RowReplaced

\* A deposit replaces one entry.
LEMMA StakePlaced ==
  ASSUME NEW s \in StakeFunctions, NEW x \in LobbyIds, NEW p \in Accounts, NEW v \in Nat,
         NEW t, t = EntryReplaced(s, x, p, v)
  PROVE  /\ t \in StakeFunctions
         /\ \A g \in LobbyIds : \A a \in Accounts :
              t[g][a] = IF g = x /\ a = p THEN v ELSE s[g][a]
BY DEF StakeFunctions, EntryReplaced

\* The sums of the escrow are the sums of the program.
LEMMA EscrowSums ==
  ASSUME NEW f, NEW S
  PROVE  /\ Escrow!SumFunctionOnSet(f, S) = SumFunctionOnSet(f, S)
         /\ Escrow!SumFunction(f) = SumFunctionOnSet(f, DOMAIN f)
BY Zenon DEF SumFunctionOnSet, FoldFunctionOnSet, MapThenFoldSet, Escrow!SumFunctionOnSet,
             Escrow!SumFunction, Escrow!FoldFunctionOnSet, Escrow!MapThenFoldSet

\* The stakes of the escrow, entry by entry.
LEMMA StakesTyped ==
  ASSUME TypeOK
  PROVE  /\ EscrowStake \in StakeFunctions
         /\ \A g \in LobbyIds : \A a \in Accounts :
              EscrowStake[g][a] = IF g \in DOMAIN lobbies /\ Live(lobbies[g])
                                  THEN Refund(lobbies[g], a) ELSE 0
<1>1. ASSUME NEW g \in DOMAIN lobbies, NEW a \in Accounts
      PROVE  Refund(lobbies[g], a) \in Nat
  <2>1. lobbies[g] \in Lobby
    BY <1>1 DEF TypeOK
  <2>2. lobbies[g].entry_fee \in Nat
    BY <2>1, LobbyNumbers DEF Lobby
  <2> QED BY <2>2 DEF Refund
<1> QED BY <1>1 DEF EscrowStake, StakeFunctions, Exists

\* The same in the next state.
LEMMA StakesTypedNext ==
  ASSUME TypeOK'
  PROVE  /\ EscrowStake' \in StakeFunctions
         /\ \A g \in LobbyIds : \A a \in Accounts :
              EscrowStake'[g][a] = IF g \in DOMAIN lobbies' /\ Live(lobbies'[g])
                                   THEN Refund(lobbies'[g], a) ELSE 0
<1>1. ASSUME NEW g \in DOMAIN lobbies', NEW a \in Accounts
      PROVE  Refund(lobbies'[g], a) \in Nat
  <2>1. lobbies'[g] \in Lobby
    BY <1>1 DEF TypeOK
  <2>2. lobbies'[g].entry_fee \in Nat
    BY <2>1, LobbyNumbers DEF Lobby
  <2> QED BY <2>2 DEF Refund
<1> QED BY <1>1 DEF EscrowStake, StakeFunctions, Exists

\* Creating a lobby, its round and the reported results are nothing to the
\* escrow.
LEMMA QuietStutters ==
  ASSUME TypeOK, TypeOK', Quiet
  PROVE  UNCHANGED << balance, EscrowStake, EscrowClosed >>
<1>1. /\ \A id \in DOMAIN lobbies : id \in DOMAIN lobbies' /\ SameGame(lobbies[id], lobbies'[id])
      /\ \A id \in DOMAIN lobbies' \ DOMAIN lobbies :
           /\ lobbies'[id].status = "AwaitingRandomness"
           /\ lobbies'[id].players = << >>
  BY DEF Quiet
<1>2. ASSUME NEW g \in LobbyIds, NEW a \in Accounts
      PROVE  EscrowStake'[g][a] = EscrowStake[g][a]
  <2>1. CASE g \in DOMAIN lobbies
    BY <1>1, <2>1, StakesTyped, StakesTypedNext DEF SameGame, Refund
  <2>2. CASE g \in DOMAIN lobbies' \ DOMAIN lobbies
    <3>1. Refund(lobbies'[g], a) = 0
      BY <1>1, <2>2 DEF Refund, contains_player, Seats
    <3> QED BY <2>2, <3>1, StakesTyped, StakesTypedNext
  <2>3. CASE g \notin DOMAIN lobbies' /\ g \notin DOMAIN lobbies
    BY <2>3, StakesTyped, StakesTypedNext
  <2> QED BY <2>1, <2>2, <2>3
<1>3. EscrowStake' = EscrowStake
  BY <1>2, StakesTyped, StakesTypedNext, StakesAgree
<1>4. EscrowClosed' = EscrowClosed
  BY <1>1 DEF EscrowClosed, SameGame, Live
<1> QED BY <1>3, <1>4 DEF Quiet

\* A lobby that ends closes its game and no other.
LEMMA EndCloses ==
  ASSUME TypeOK, TypeOK', NEW x \in DOMAIN lobbies, Live(lobbies[x]), ~ Live(lobbies'[x]),
         DOMAIN lobbies' = DOMAIN lobbies,
         \A y \in DOMAIN lobbies \ {x} : lobbies'[y] = lobbies[y]
  PROVE  Escrow!Close(x)
<1>1. x \in LobbyIds
  BY DEF TypeOK
<1>2. x \notin EscrowClosed /\ EscrowClosed' = EscrowClosed \cup {x}
  BY DEF EscrowClosed
<1>3. PICK n : n = [ p \in Accounts |-> 0 ]
  OBVIOUS
<1>4. n \in [ Accounts -> Nat ] /\ \A p \in Accounts : n[p] = 0
  BY <1>3
<1>5. PICK t : t = RowReplaced(EscrowStake, x, n)
  OBVIOUS
<1>6. /\ t \in StakeFunctions
      /\ \A g \in LobbyIds : \A a \in Accounts :
           t[g][a] = IF g = x THEN n[a] ELSE EscrowStake[g][a]
  <2>1. EscrowStake \in StakeFunctions
    BY StakesTyped
  <2> QED BY <1>1, <1>4, <1>5, <2>1, StakesCleared
<1>7. ASSUME NEW g \in LobbyIds, NEW a \in Accounts
      PROVE  EscrowStake'[g][a] = t[g][a]
  <2>1. /\ EscrowStake[g][a] = IF g \in DOMAIN lobbies /\ Live(lobbies[g])
                               THEN Refund(lobbies[g], a) ELSE 0
        /\ EscrowStake'[g][a] = IF g \in DOMAIN lobbies' /\ Live(lobbies'[g])
                                THEN Refund(lobbies'[g], a) ELSE 0
    BY StakesTyped, StakesTypedNext
  <2> QED BY <1>4, <1>6, <2>1
<1>8. EscrowStake' = t
  BY <1>6, <1>7, StakesTypedNext, StakesAgree
<1> QED BY <1>2, <1>3, <1>5, <1>8, Zenon DEF RowReplaced, Escrow!Close, Escrow!NoStakes

\* join_lobby is a deposit.
LEMMA JoinDeposits ==
  ASSUME MoneyInv, MoneyInv', NEW p \in Players, NEW x \in LobbyIds, JoinLobby(p, x)
  PROVE  Escrow!Deposit(p, x)
<1> PICK l, e : l = lobbies[x] /\ e = lobbies[x].entry_fee
  OBVIOUS
<1>1. IInv /\ TypeOK /\ TypeOK' /\ GamesSound
  BY DEF MoneyInv, IInv
<1>2. /\ x \in DOMAIN lobbies /\ CanJoin(l, p) /\ p \in Accounts
      /\ e \in Nat /\ balance[p] >= e
      /\ DOMAIN lobbies' = DOMAIN lobbies
      /\ \A y \in DOMAIN lobbies \ {x} : lobbies'[y] = lobbies[y]
      /\ lobbies'[x].entry_fee = e
      /\ lobbies'[x].status = "Open" /\ l.status = "Open"
      /\ \A a \in Accounts : contains_player(lobbies'[x], a) <=> contains_player(l, a) \/ a = p
  BY <1>1, JoinMoves
<1>3. e > 0
  BY <1>1, <1>2 DEF GamesSound
<1>4. balance' = [ balance EXCEPT ![p] = @ - e ] /\ balance[p] \in Nat /\ balance'[p] = balance[p] - e
  <2>1. balance' = [ balance EXCEPT ![p] = @ - e ]
    BY DEF JoinLobby
  <2> QED BY <1>1, <1>2, <2>1 DEF TypeOK
<1>5. \A a \in Accounts : EscrowStake[x][a] = IF contains_player(l, a) THEN e ELSE 0
  BY <1>1, <1>2, StakesTyped DEF Live, Refund
<1>6. EscrowStake[x][p] = 0
  BY <1>2, <1>5 DEF CanJoin
<1>7. \A q \in Escrow!Depositors(x) : EscrowStake[x][q] = e
  BY <1>5 DEF Escrow!Depositors
<1>8. EscrowStake' = [ EscrowStake EXCEPT ![x][p] = e ]
  <2>1. PICK t : t = EntryReplaced(EscrowStake, x, p, e)
    OBVIOUS
  <2>2. /\ t \in StakeFunctions
        /\ \A g \in LobbyIds : \A a \in Accounts :
             t[g][a] = IF g = x /\ a = p THEN e ELSE EscrowStake[g][a]
    <3>1. EscrowStake \in StakeFunctions
      BY <1>1, StakesTyped
    <3> QED BY <1>2, <2>1, <3>1, StakePlaced
  <2>3. ASSUME NEW a \in Accounts
        PROVE  EscrowStake'[x][a] = t[x][a]
    BY <1>1, <1>2, <1>5, <2>2, StakesTypedNext DEF Live, Refund
  <2>4. ASSUME NEW g \in LobbyIds \ {x}, NEW a \in Accounts
        PROVE  EscrowStake'[g][a] = t[g][a]
    BY <1>1, <1>2, <2>2, StakesTyped, StakesTypedNext
  <2>5. EscrowStake' = t
    BY <1>1, <2>2, <2>3, <2>4, StakesTypedNext, StakesAgree
  <2> QED BY <2>1, <2>5 DEF EntryReplaced
<1>9. x \notin EscrowClosed /\ EscrowClosed' = EscrowClosed
  BY <1>2 DEF EscrowClosed, Live
<1>10. balance[p] - balance'[p] = e /\ balance'[p] >= 0
  BY <1>2, <1>4
<1> QED
  BY <1>3, <1>4, <1>6, <1>7, <1>8, <1>9, <1>10, Zenon DEF Escrow!Deposit

\* cancel_lobby gives every stake back.
LEMMA CancelGivesBack ==
  ASSUME IInv, IInv', NEW x \in LobbyIds, NEW w, CancelLobby(x, w)
  PROVE  Escrow!GiveBack(x)
<1> PICK l : l = lobbies[x]
  OBVIOUS
<1>1. TypeOK /\ TypeOK'
  BY DEF IInv
<1>2. /\ x \in DOMAIN lobbies /\ Live(l)
      /\ \A a \in Accounts : balance'[a] = balance[a] + Refund(l, a)
      /\ DOMAIN lobbies' = DOMAIN lobbies
      /\ \A y \in DOMAIN lobbies \ {x} : lobbies'[y] = lobbies[y]
      /\ lobbies'[x].status = "Cancelled"
  BY CancelMoves
<1>3. Escrow!Close(x)
  BY <1>1, <1>2, EndCloses DEF Live
<1>4. \A a \in Accounts : EscrowStake[x][a] = Refund(l, a)
  BY <1>1, <1>2, StakesTyped
<1>5. balance' = [ a \in Accounts |-> balance[a] + EscrowStake[x][a] ]
  BY <1>1, <1>2, <1>4 DEF TypeOK
<1> QED BY <1>3, <1>5, Zenon DEF Escrow!GiveBack

\* settle_lobby awards the pot: all of it, to players of the game, but for at
\* most a tenth that goes to the house.
LEMMA SettleAwards ==
  ASSUME MoneyInv, MoneyInv', Apart, NEW s, NEW x \in LobbyIds, NEW w, SettleLobby(s, x, w)
  PROVE  Escrow!Award(x)
<1> PICK l, f : l = lobbies[x] /\ f = config.fee_bps
  OBVIOUS
<1> DEFINE gain == [ a \in Accounts |-> balance'[a] - balance[a] ]
           pot == [ a \in Accounts |-> Refund(l, a) ]
<1>1. IInv /\ TypeOK /\ TypeOK'
  BY DEF MoneyInv, IInv
<1>2. GamesSound /\ ConfigSound
  BY DEF MoneyInv
<1>3. /\ x \in DOMAIN lobbies /\ l \in Lobby /\ RosterConsistent(l) /\ l.status = "Open"
      /\ Len(l.players) > 0 /\ Pot(l) = l.entry_fee * Len(l.players)
      /\ config # NotInitialized /\ f \in 0 .. MAX_FEE_BPS
      /\ Pot(l) \in Nat /\ FeeOf(l, f) \in Nat
      /\ \A key : Payout(l, f, key) \in Nat
  BY <1>1, SettleMoves
<1>4. \A a \in Accounts : balance'[a] = balance[a] + Payout(l, f, a)
                            + (IF a = config.treasury THEN FeeOf(l, f) ELSE 0)
  BY <1>1 DEF SettleLobby, TypeOK
<1>5. Escrow!Close(x)
  <2>1. /\ DOMAIN lobbies' = DOMAIN lobbies
        /\ \A y \in DOMAIN lobbies \ {x} : lobbies'[y] = lobbies[y]
    <3>1. lobbies' = [ lobbies EXCEPT ![x] = Settled(@) ]
      BY DEF SettleLobby
    <3> QED BY <3>1
  <2>2. lobbies'[x].status = "Settled"
    BY <1>1, SettleMoves
  <2> QED BY <1>1, <1>3, <2>1, <2>2, EndCloses DEF Live
<1>6. EscrowStake[x] = pot /\ l.entry_fee > 0 /\ l.entry_fee \in Nat
  <2>1. EscrowStake[x] = [ a \in Accounts |-> Refund(l, a) ]
    BY <1>3 DEF EscrowStake, Exists, Live
  <2>2. l.entry_fee > 0 /\ l.entry_fee \in Nat
    BY <1>2, <1>3, LobbyNumbers DEF GamesSound, Lobby
  <2> QED BY <2>1, <2>2
<1>7. Escrow!Depositors(x) = { a \in Accounts : contains_player(l, a) }
  BY <1>6 DEF Escrow!Depositors, Refund
<1>8. Escrow!Depositors(x) # {}
  <2>1. 1 \in Seats(l) /\ l.players[1].player \in Accounts
    <3>1. 1 \in Seats(l) /\ \A i \in Seats(l) : l.players[i] \in PlayerEntry
      BY <1>3, EntryTyped
    <3> QED BY <3>1 DEF PlayerEntry
  <2> QED BY <1>7, <2>1 DEF contains_player
<1>9. \A a \in Accounts : gain[a] = Payout(l, f, a)
                            + (IF a = config.treasury THEN FeeOf(l, f) ELSE 0)
  <2>1. \A a \in Accounts : balance[a] \in Nat
    BY <1>1 DEF TypeOK
  <2> QED BY <1>3, <1>4, <2>1
<1>10. \A a \in Accounts : gain[a] \in Nat
  <2> HIDE DEF gain
  <2> QED BY <1>3, <1>9
<1>11. config.treasury \in Treasuries /\ Treasuries \subseteq Accounts /\ IsFiniteSet(Treasuries)
  BY <1>1, <1>2, <1>3, StatsTyped DEF ConfigSound
<1>12. \A a \in Accounts \ Treasuries : gain[a] > 0 => a \in Escrow!Depositors(x)
  <2>1. ASSUME NEW a \in Accounts \ Treasuries, ~ contains_player(l, a)
        PROVE  gain[a] = 0
    <3>1. Payout(l, f, a) = 0
      BY <1>3, <2>1, OnlyPlayersPaid
    <3> HIDE DEF gain
    <3> QED BY <1>9, <1>11, <3>1
  <2> HIDE DEF gain
  <2> QED BY <1>7, <1>10, <2>1
<1>13. SumFunctionOnSet(gain, Accounts) = Pot(l)
  BY <1>1, GainsAddUp
<1>14. SumFunctionOnSet(pot, Accounts) = Pot(l)
  BY <1>3, FiniteLedger, RefundsAddUp
<1>15. SumFunctionOnSet(gain, Treasuries) = FeeOf(l, f)
  <2>1. ASSUME NEW a \in Treasuries
        PROVE  gain[a] = IF a \in {config.treasury} THEN FeeOf(l, f) ELSE 0
    <3>1. ~ contains_player(l, a)
      BY <1>2, <1>3, <1>11, <2>1 DEF GamesSound, Apart
    <3>2. Payout(l, f, a) = 0
      BY <1>3, <3>1, OnlyPlayersPaid
    <3> HIDE DEF gain
    <3> QED BY <1>3, <1>9, <1>11, <3>2
  <2>2. {config.treasury} \in SUBSET Treasuries /\ FeeOf(l, f) \in Int
    BY <1>3, <1>11
  <2>3. SumFunctionOnSet(gain, Treasuries) = FeeOf(l, f) * Cardinality({config.treasury})
    <3> HIDE DEF gain
    <3> QED BY <1>11, <2>1, <2>2, SumShared
  <2>4. Cardinality({config.treasury}) = 1
    BY FS_Singleton
  <2> HIDE DEF gain
  <2> QED BY <1>3, <2>3, <2>4
<1>16. 10 * FeeOf(l, f) =< Pot(l)
  BY <1>3, CommissionBounded
<1>17. DOMAIN balance' = Accounts /\ DOMAIN gain = Accounts /\ DOMAIN pot = Accounts
  BY <1>1 DEF TypeOK
<1>18. Escrow!SumFunction(gain) = Escrow!SumFunction(EscrowStake[x])
  <2>1. Escrow!SumFunction(gain) = SumFunctionOnSet(gain, Accounts)
    <3> HIDE DEF gain
    <3> QED BY <1>17, EscrowSums, Zenon
  <2>2. Escrow!SumFunction(EscrowStake[x]) = SumFunctionOnSet(pot, Accounts)
    <3> HIDE DEF pot
    <3> QED BY <1>6, <1>17, EscrowSums, Zenon
  <2> QED BY <1>13, <1>14, <2>1, <2>2, Zenon
<1>19. 10 * Escrow!SumFunctionOnSet(gain, Treasuries) =< Escrow!SumFunction(EscrowStake[x])
  <2>1. Escrow!SumFunctionOnSet(gain, Treasuries) = FeeOf(l, f)
    <3> HIDE DEF gain
    <3> QED BY <1>15, EscrowSums, Zenon
  <2>2. Escrow!SumFunction(EscrowStake[x]) = Pot(l)
    <3> HIDE DEF pot
    <3> QED BY <1>6, <1>14, <1>17, EscrowSums, Zenon
  <2> QED BY <1>16, <2>1, <2>2, Zenon
<1>20. \A a \in Accounts : gain[a] >= 0
  <2> HIDE DEF gain
  <2> QED BY <1>10
<1> QED
  BY <1>5, <1>8, <1>12, <1>17, <1>18, <1>19, <1>20, Zenon DEF Escrow!Award

\* Every step of the program is one of the escrow's, or none.
LEMMA EscrowStep ==
  ASSUME MoneyInv, Apart, [Next]_vars
  PROVE  [Escrow!EscrowNext]_(Escrow!escrowVars)
<1>1. MoneyInv' /\ IInv /\ IInv' /\ TypeOK /\ TypeOK' /\ Players \subseteq Accounts
  BY MoneyStep, ProgramInputs DEF MoneyInv, IInv
<1>2. CASE Quiet
  <2>1. UNCHANGED << balance, EscrowStake, EscrowClosed >>
    BY <1>1, <1>2, QuietStutters
  <2> QED BY <2>1 DEF Escrow!escrowVars
<1>3. ASSUME NEW p \in Players, NEW x \in LobbyIds, JoinLobby(p, x)
      PROVE  Escrow!EscrowNext
  <2>1. Escrow!Deposit(p, x)
    BY <1>1, <1>3, JoinDeposits
  <2> QED BY <1>1, <2>1 DEF Escrow!EscrowNext
<1>4. ASSUME NEW s \in Accounts, NEW x \in LobbyIds, NEW w, SettleLobby(s, x, w)
      PROVE  Escrow!EscrowNext
  <2>1. Escrow!Award(x)
    BY <1>1, <1>4, SettleAwards
  <2> QED BY <2>1 DEF Escrow!EscrowNext
<1>5. ASSUME NEW x \in LobbyIds, NEW w, CancelLobby(x, w)
      PROVE  Escrow!EscrowNext
  <2>1. Escrow!GiveBack(x)
    BY <1>1, <1>5, CancelGivesBack
  <2> QED BY <2>1 DEF Escrow!EscrowNext
<1> QED BY <1>1, <1>2, <1>3, <1>4, <1>5, OnlyThreeMoveMoney

\* Before the program is used nothing is at stake.
LEMMA EscrowStarts ==
  ASSUME Init
  PROVE  Escrow!EscrowInit
<1>1. TypeOK /\ DOMAIN lobbies = {} /\ balance = InitialBalance
  BY InitIInv DEF IInv, Init
<1>2. EscrowClosed = {}
  BY <1>1 DEF EscrowClosed
<1>3. EscrowStake = [ g \in LobbyIds |-> [ p \in Accounts |-> 0 ] ]
  BY <1>1 DEF EscrowStake, Exists
<1> QED BY <1>1, <1>2, <1>3, Zenon DEF Escrow!EscrowInit, Escrow!NoStakes

-----------------------------------------------------------------------------
(* Who is rewarded *)

\* A stake of one lamport cannot be shared: ten players who tie for ten lamports
\* less one of fee leave a share of zero.
StakesDivisible == \A fees \in FeeLists : \A k \in DOMAIN fees : fees[k] > 1

\* The greater of a number and its opposite.
LEMMA MaxOfOpposites ==
  ASSUME NEW d \in Int
  PROVE  Max({d, -d}) = IF d >= 0 THEN d ELSE -d
<1> DEFINE m == IF d >= 0 THEN d ELSE -d
<1>1. m \in {d, -d} /\ \A y \in {d, -d} : m >= y
  OBVIOUS
<1>2. \A x \in {d, -d} : (\A y \in {d, -d} : x >= y) => x = m
  OBVIOUS
<1> HIDE DEF m
<1>3. Max({d, -d}) = m
  BY <1>1, <1>2 DEF Max
<1> QED BY <1>3 DEF m

\* The score settle_lobby computes orders the seats as the closeness of their
\* pours to the target does, an overflow after everything else.
LEMMA ScoreIsCloseness ==
  ASSUME NEW l \in Lobby, NEW i \in Seats(l), NEW j \in Seats(l)
  PROVE  NoWorse(Closeness(l, i), Closeness(l, j)) <=> Score(l, i) =< Score(l, j)
<1> DEFINE ml(k) == l.players[k].poured_ml
           far(k) == IF ml(k) < l.target_ml THEN l.target_ml - ml(k) ELSE ml(k) - l.target_ml
<1>1. l.target_ml \in Nat /\ l.target_ml =< 1500
  BY DEF Lobby, TargetLines
<1>2. \A k \in Seats(l) : ml(k) \in Nat /\ ml(k) =< OVERFLOW_SENTINEL
  BY EntryTyped, LobbyNumbers DEF PlayerEntry
<1>3. ASSUME NEW k \in Seats(l), ml(k) # OVERFLOW_SENTINEL
      PROVE  far(k) \in Nat /\ far(k) < U64_MAX
  <2>1. ml(k) \in Nat /\ ml(k) =< OVERFLOW_SENTINEL
    BY <1>2
  <2> HIDE DEF ml
  <2> QED BY <1>1, <1>3, <2>1, LobbyNumbers
<1>4. ASSUME NEW k \in Seats(l)
      PROVE  Closeness(l, k) = IF ml(k) = OVERFLOW_SENTINEL THEN << 1, 0 >> ELSE << 0, far(k) >>
  <2>1. ml(k) - l.target_ml \in Int
    BY <1>1, <1>2, LobbyNumbers
  <2>2. Max({ ml(k) - l.target_ml, -(ml(k) - l.target_ml) }) = far(k)
    <3>1. Max({ ml(k) - l.target_ml, -(ml(k) - l.target_ml) })
            = IF ml(k) - l.target_ml >= 0 THEN ml(k) - l.target_ml ELSE -(ml(k) - l.target_ml)
      <4> HIDE DEF ml
      <4> QED BY <2>1, MaxOfOpposites
    <3>2. ml(k) \in Nat
      BY <1>2
    <3> HIDE DEF ml
    <3> QED BY <1>1, <3>1, <3>2
  <2> QED BY <2>2 DEF Closeness
<1>5. \A k \in Seats(l) : Score(l, k) = IF ml(k) = OVERFLOW_SENTINEL THEN U64_MAX ELSE far(k)
  BY DEF Score
<1> HIDE DEF ml, far
<1> QED BY <1>3, <1>4, <1>5, LobbyNumbers DEF NoWorse

\* The payouts of a complete lobby reward the best pours, equally but for the
\* rest, which goes to the first reported of them.
LEMMA PayoutsReward ==
  ASSUME NEW l \in Lobby, RosterConsistent(l), NEW f \in 0 .. MAX_FEE_BPS,
         l.played_count = Len(l.players), Len(l.players) = l.size, l.entry_fee > 1,
         NEW gain, \A i \in Seats(l) : gain[i] = Payout(l, f, l.players[i].player)
  PROVE  RewardsBest(l, gain)
<1> DEFINE W == WinnerIndices(l)
           n == Cardinality(W)
           r == RemainderWinner(l)
           share == Share(l, f)
           rest == Remainder(l, f)
<1>1. /\ Len(l.players) \in Nat /\ Len(l.players) > 0 /\ Seats(l) = 1 .. Len(l.players)
  BY EntryTyped DEF Lobby, MIN_LOBBY_SIZE, MAX_LOBBY_SIZE
<1>2. share \in Nat /\ share > 0
  BY <1>1, SplitIsExact, ShareWorth
<1>3. rest \in Nat /\ rest < Len(l.players)
  <2>1. Pool(l, f) \in Nat
    BY <1>1, SplitIsExact DEF Pool
  <2>2. n \in Nat /\ n > 0
    BY <1>1, WinnersExist
  <2>3. rest \in 0 .. n - 1
    <3> HIDE DEF n
    <3>1. Pool(l, f) % n \in 0 .. n - 1
      BY <2>1, <2>2, DivisionWithRest
    <3> QED BY <3>1 DEF Remainder, n
  <2>4. n =< Len(l.players)
    <3>1. IsFiniteSet(Seats(l)) /\ Cardinality(Seats(l)) = Len(l.players)
      BY <1>1, FS_Interval
    <3>2. W \in SUBSET Seats(l)
      BY DEF WinnerIndices
    <3> HIDE DEF W
    <3> QED BY <3>1, <3>2, FS_Subset
  <2> HIDE DEF n, rest
  <2> QED BY <1>1, <2>2, <2>3, <2>4
<1>4. \A i \in Seats(l) :
        gain[i] = IF i \in W THEN share + (IF i = r THEN rest ELSE 0) ELSE 0
  BY SeatPaid
<1>5. \A i \in Seats(l) :
        i \in W <=> \A j \in Seats(l) : NoWorse(Closeness(l, i), Closeness(l, j))
  BY ScoreIsCloseness DEF WinnerIndices
<1>6. \A j \in W : j # r => l.players[r].submission_index < l.players[j].submission_index
  BY <1>1, RemainderToFirst
<1> HIDE DEF W, n, r, share, rest
<1>7. \A i \in Seats(l) : gain[i] > 0 <=> i \in W
  BY <1>2, <1>3, <1>4
<1>8. \A i, j \in W \cap Seats(l) : gain[i] - gain[j] < Len(l.players)
  BY <1>1, <1>2, <1>3, <1>4
<1>9. \A i, j \in W \cap Seats(l) : gain[i] > gain[j] => i = r /\ j # r
  BY <1>2, <1>3, <1>4
<1> QED BY <1>5, <1>6, <1>7, <1>8, <1>9 DEF RewardsBest

-----------------------------------------------------------------------------
(* Stakes can be released *)

\* join_lobby checks that the pot still fits a u64 with the new stake in it, and
\* a lobby is created under a configuration that no instruction takes away.
PotFits(l) == l.entry_fee * Len(l.players) =< U64_MAX

ReleaseInv ==
  /\ IInv
  /\ \A id \in DOMAIN lobbies : PotFits(lobbies[id])
  /\ lobbies # [ id \in {} |-> {} ] => config # NotInitialized

\* No step on a lobby lets its pot outgrow a u64.
LEMMA EvolvedPotFits ==
  ASSUME NEW l \in Lobby, NEW m, Evolves(l, m), RosterConsistent(l), PotFits(l)
  PROVE  PotFits(m)
<1>1. ASSUME NEW key \in Accounts, CanJoin(l, key), m = Joined(l, key)
      PROVE  PotFits(m)
  <2>1. Len(m.players) = Len(l.players) + 1 /\ m.entry_fee = l.entry_fee
    BY <1>1, JoinedTyped, FieldsKept, Zenon
  <2>2. l.entry_fee * (Len(l.players) + 1) =< U64_MAX
    BY <1>1 DEF CanJoin, RosterConsistent
  <2>3. m.entry_fee * Len(m.players) = l.entry_fee * (Len(l.players) + 1)
    BY <2>1, Zenon
  <2> QED BY <2>2, <2>3 DEF PotFits
<1>2. ASSUME NEW key \in Accounts, NEW ml \in 0 .. OVERFLOW_SENTINEL, m = Submitted(l, key, ml)
      PROVE  PotFits(m)
  <2>1. Len(m.players) = Len(l.players)
    BY <1>2, SubmittedTyped, Zenon
  <2>2. m.entry_fee = l.entry_fee
    BY <1>2, FieldsKept
  <2> QED BY <2>1, <2>2, Zenon DEF PotFits
<1>3. ASSUME NEW bytes \in RandomBytes, m = Fulfilled(l, bytes)
      PROVE  PotFits(m)
  BY <1>3, FieldsKept DEF PotFits
<1>4. PotFits(Settled(l)) /\ PotFits(Cancelled(l))
  BY FieldsKept DEF PotFits, Settled, Cancelled
<1> QED BY <1>1, <1>2, <1>3, <1>4 DEF Evolves

\* No instruction takes the configuration away.
LEMMA ConfigKept ==
  ASSUME TypeOK, [Next]_vars, config # NotInitialized
  PROVE  config' # NotInitialized
<1>1. ASSUME NEW a \in Accounts, NEW f \in FeeBpsChoices, SetFee(a, f)
      PROVE  config' # NotInitialized
  <2>1. config \in Deployment /\ f \in Nat
    BY <1>1, ProgramInputs DEF TypeOK
  <2>2. config' \in Deployment
    BY <1>1, <2>1 DEF SetFee, Deployment
  <2> QED BY <2>2, ProgramInputs
<1> QED
  BY <1>1
  DEF Next, vars, Initialize, CreateLobby, FulfillRound, JoinLobby, SubmitResult, SettleLobby,
      CancelLobby, Tick

\* Neither a pot that fits nor the configuration is ever lost again.
LEMMA ReleaseStep == ReleaseInv /\ [Next]_vars => ReleaseInv'
<1> SUFFICES ASSUME ReleaseInv, [Next]_vars PROVE ReleaseInv'
  OBVIOUS
<1>1. IInv /\ IInv' /\ TypeOK /\ TypeOK'
  BY StepIInv DEF ReleaseInv, IInv
<1>2. ASSUME NEW id \in DOMAIN lobbies'
      PROVE  PotFits(lobbies'[id])
  <2>1. CASE id \in DOMAIN lobbies
    <3>1. /\ Evolves(lobbies[id], lobbies'[id]) /\ lobbies[id] \in Lobby
          /\ RosterConsistent(lobbies[id]) /\ PotFits(lobbies[id])
      BY <1>1, <2>1, LobbiesEvolve DEF ReleaseInv, IInv, TypeOK, RostersConsistent
    <3> QED BY <3>1, EvolvedPotFits
  <2>2. CASE id \notin DOMAIN lobbies
    <3>1. PICK s \in MIN_LOBBY_SIZE .. MAX_LOBBY_SIZE, f \in 0 .. U64_MAX :
            lobbies'[id] = NewLobby(s, f, clock)
      BY <1>1, <1>2, <2>2, LobbiesEvolve
    <3>2. f \in Nat /\ NewLobby(s, f, clock).entry_fee = f /\ NewLobby(s, f, clock).players = << >>
      BY LobbyNumbers DEF NewLobby
    <3>3. f * Len(<< >>) =< U64_MAX
      BY <3>2, LobbyNumbers
    <3> QED BY <3>1, <3>2, <3>3 DEF PotFits
  <2> QED BY <2>1, <2>2
\* A lobby is there afterwards: it was there before, or it has just been created.
<1>3. ASSUME lobbies' # [ id \in {} |-> {} ]
      PROVE  config' # NotInitialized
  <2>1. config # NotInitialized => config' # NotInitialized
    BY <1>1, ConfigKept
  <2>2. CASE lobbies' = lobbies
    BY <1>3, <2>1, <2>2 DEF ReleaseInv
  <2>3. ASSUME NEW id \in DOMAIN lobbies
        PROVE  config # NotInitialized
    <3>1. lobbies # [ i \in {} |-> {} ]
      BY <2>3
    <3> QED BY <3>1 DEF ReleaseInv
  <2>4. \/ lobbies' = lobbies
        \/ DOMAIN lobbies # {}
        \/ config # NotInitialized
    BY DEF Next, vars, Initialize, SetFee, CreateLobby, IsResultAuthority, FulfillRound, JoinLobby,
           SubmitResult, SettleLobby, MaySettle, CancelLobby, MayCancel, Tick, Exists
  <2> QED BY <2>1, <2>2, <2>3, <2>4
<1> QED BY <1>1, <1>2, <1>3 DEF ReleaseInv

\* A roster all of whose seats have been reported has no empty seat: with these
\* terms the program accepts the winners' accounts and the vault has the money.
LEMMA CompleteIsFull ==
  ASSUME NEW l \in Lobby, RosterConsistent(l), l.played_count = l.size
  PROVE  l.joined_count = l.size /\ Len(l.players) = l.size
<1>1. /\ Len(l.players) \in Nat /\ Seats(l) = 1 .. Len(l.players) /\ l.size \in Nat
      /\ l.joined_count = Len(l.players) /\ l.joined_count =< l.size
      /\ Cardinality(Played(l)) = l.size
  BY EntryTyped DEF RosterConsistent, Lobby, MIN_LOBBY_SIZE, MAX_LOBBY_SIZE
<1>2. IsFiniteSet(Seats(l)) /\ Cardinality(Seats(l)) = Len(l.players)
  <2>1. ASSUME NEW n \in Nat
        PROVE  IsFiniteSet(1 .. n) /\ Cardinality(1 .. n) = n
    <3>1. 1 \in Int /\ n \in Int
      OBVIOUS
    <3>2. /\ IsFiniteSet(1 .. n)
          /\ Cardinality(1 .. n) = IF 1 > n THEN 0 ELSE n - 1 + 1
      BY <3>1, FS_Interval, Zenon
    <3>3. (IF 1 > n THEN 0 ELSE n - 1 + 1) = n
      OBVIOUS
    <3> QED BY <3>2, <3>3
  <2> QED BY <1>1, <2>1
<1>3. Cardinality(Played(l)) =< Cardinality(Seats(l))
  <2>1. Played(l) \in SUBSET Seats(l)
    BY DEF Played
  <2> QED BY <1>2, <2>1, FS_Subset
<1> QED BY <1>1, <1>2, <1>3

\* The invariant opens the way to the settlement and to the cancellation.
LEMMA ReleaseOpens == ReleaseInv => StakesReleasable
<1> SUFFICES ASSUME ReleaseInv, NEW id \in DOMAIN lobbies, NEW l, l = lobbies[id],
                    NEW f, f = config.fee_bps
             PROVE  /\ Complete(l) /\ StatsFit(id) =>
                         MaySettle(config.result_authority, id, WinnerKeys(l))
                    /\ Live(l) /\ Expired(l, clock) => MayCancel(id, PlayerKeys(l))
  BY DEF StakesReleasable
<1>1. TypeOK /\ FeeBounded /\ VaultHoldsStakes /\ RostersConsistent
  BY DEF ReleaseInv, IInv
<1>2. /\ l \in Lobby /\ RosterConsistent(l) /\ PotFits(l) /\ id \in LobbyIds
      /\ l.entry_fee \in Nat /\ Len(l.players) \in Nat
  BY <1>1, EntryTyped, LobbyNumbers DEF TypeOK, RostersConsistent, ReleaseInv, Lobby
<1>3. Live(l) => vault[id] = l.entry_fee * Len(l.players)
  BY <1>1, <1>2 DEF VaultHoldsStakes, Exists
<1>4. ASSUME Complete(l), StatsFit(id)
      PROVE  MaySettle(config.result_authority, id, WinnerKeys(l))
  <2>1. l.joined_count = l.size /\ Len(l.players) = l.size /\ l.played_count = l.size
    BY <1>2, <1>4, CompleteIsFull DEF Complete
  <2>2. Pot(l) =< U64_MAX
    BY <1>2, <2>1 DEF Pot, PotFits
  <2>3. CanSettle(l, WinnerKeys(l))
    BY <1>4, <2>1, <2>2 DEF CanSettle, Complete
  <2>4. config # NotInitialized /\ f \in 0 .. MAX_FEE_BPS
    <3>1. config # NotInitialized
      BY DEF ReleaseInv
    <3>2. f \in Nat /\ f =< MAX_FEE_BPS
      BY <1>1, <3>1 DEF TypeOK, FeeBounded, Deployment
    <3> QED BY <3>1, <3>2 DEF MAX_FEE_BPS
  <2>5. vault[id] = TotalPaid(l, f) /\ TotalPaid(l, f) \in Nat
    BY <1>2, <1>3, <1>4, <2>3, <2>4, SettlementPaysStakes DEF Complete, Live
  <2> QED BY <1>4, <2>3, <2>4, <2>5 DEF MaySettle, IsResultAuthority, Exists
<1>5. ASSUME Live(l), Expired(l, clock)
      PROVE  MayCancel(id, PlayerKeys(l))
  <2>1. vault[id] = TotalRefunded(l) /\ TotalRefunded(l) \in Nat
    BY <1>2, <1>3, <1>5, ProductIsNat DEF TotalRefunded
  <2> QED BY <1>5, <2>1 DEF MayCancel, CanCancel, Exists
<1> QED BY <1>4, <1>5

-----------------------------------------------------------------------------
(* Theorems *)

\* Every account always holds a value of its type.
THEOREM TypeCorrect == Spec => []TypeOK
<1>1. IInv => TypeOK
  BY DEF IInv
<1> QED BY <1>1, InitIInv, StepIInv, PTL DEF Spec

\* Every vault holds exactly the stakes of its live lobby and is empty before
\* and after, for any number of players, lobbies, fees and instructions.
THEOREM VaultsSolvent == Spec => []VaultHoldsStakes
<1>1. IInv => VaultHoldsStakes
  BY DEF IInv
<1> QED BY <1>1, InitIInv, StepIInv, PTL DEF Spec

\* Stakes never get stuck: a lobby whose players have all been reported can be
\* settled, while the statistics have room, and a live lobby past its 24 hours
\* can be cancelled by anybody, whatever instructions came before.
THEOREM StakesNeverStuck == Spec => []StakesReleasable
<1>1. Init => ReleaseInv
  BY InitIInv DEF Init, ReleaseInv
<1> QED BY <1>1, ReleaseStep, ReleaseOpens, PTL DEF Spec

\* The counters and submission indices of every roster agree with its seats.
THEOREM RostersStayConsistent == Spec => []RostersConsistent
<1>1. IInv => RostersConsistent
  BY DEF IInv
<1> QED BY <1>1, InitIInv, StepIInv, PTL DEF Spec

\* Once someone has a stake in a lobby no instruction changes its terms, a
\* reported result or a closed lobby.
THEOREM TermsNeverChange == Spec => StakedTermsFixed
<1>1. ASSUME IInv, [Next]_vars
      PROVE  [ \A id \in DOMAIN lobbies :
                 id \in DOMAIN lobbies' /\ TermsKept(lobbies[id], lobbies'[id]) ]_vars
  <2>1. ASSUME NEW id \in DOMAIN lobbies
        PROVE  id \in DOMAIN lobbies' /\ TermsKept(lobbies[id], lobbies'[id])
    <3>1. id \in DOMAIN lobbies' /\ Evolves(lobbies[id], lobbies'[id])
      BY <1>1, LobbiesEvolve DEF IInv
    <3>2. lobbies[id] \in Lobby /\ RosterConsistent(lobbies[id])
      BY <1>1 DEF IInv, TypeOK, RostersConsistent
    <3> QED BY <3>1, <3>2, EvolvedKeepsTerms
  <2> QED BY <2>1
<1> QED BY <1>1, InitIInv, StepIInv, PTL DEF Spec, StakedTermsFixed

\* No lamport is created or lost, whatever instructions run in whatever order,
\* whoever signs them and wherever the treasury's account is.
THEOREM LamportsNeverLost == Spec => []LamportsConserved
<1>1. Init => IInv /\ LamportsConserved
  <2> SUFFICES ASSUME Init PROVE LamportsConserved
    BY InitIInv
  <2>1. IsFiniteSet(LobbyIds) /\ balance = InitialBalance
    BY FiniteLedger DEF Init
  <2>2. DOMAIN vault = LobbyIds /\ \A id \in LobbyIds : vault[id] = 0
    BY DEF Init
  <2>3. SumFunction(vault) = 0
    <3>1. \A id \in LobbyIds : vault[id] = IF id \in {} THEN 0 ELSE 0
      BY <2>2
    <3>2. SumFunctionOnSet(vault, LobbyIds) = 0 * Cardinality({})
      <4>1. {} \in SUBSET LobbyIds /\ 0 \in Int
        OBVIOUS
      <4> QED BY <2>1, <3>1, <4>1, SumShared
    <3>3. Cardinality({}) = 0
      BY FS_EmptySet
    <3>4. SumFunctionOnSet(vault, LobbyIds) = 0
      BY <3>2, <3>3
    <3> QED BY <2>2, <3>4, Zenon DEF SumFunction
  <2>4. SumFunction(InitialBalance) \in Int
    <3>1. DOMAIN InitialBalance = Accounts /\ \A a \in Accounts : InitialBalance[a] \in Int
      BY ProgramInputs
    <3>2. SumFunctionOnSet(InitialBalance, Accounts) \in Int
      BY <3>1, FiniteLedger, SumTyped
    <3> QED BY <3>1, <3>2, Zenon DEF SumFunction
  <2>5. SumFunction(InitialBalance) + 0 = SumFunction(InitialBalance)
    BY <2>4
  <2> QED BY <2>1, <2>3, <2>5, Zenon DEF LamportsConserved
<1>2. IInv /\ LamportsConserved /\ [Next]_vars => LamportsConserved'
  BY LamportsStep
<1> QED BY <1>1, <1>2, StepIInv, PTL DEF Spec

\* As long as no treasury plays, GlobalStats counts the settled lobbies, adds up
\* their pots, and reports as fees what the treasuries have received.
THEOREM StatsTellTheLedger == Spec /\ Apart => []StatsMatchLedger
<1>1. Init /\ Apart => MoneyInv /\ Apart /\ StatsMatchLedger
  BY InitMoney, InitStats
<1>2. MoneyInv /\ Apart /\ StatsMatchLedger /\ [Next]_vars
        => MoneyInv' /\ Apart' /\ StatsMatchLedger'
  BY MoneyStep, StatsStep DEF Apart, Treasuries
<1> QED BY <1>1, <1>2, PTL DEF Spec

\* As long as no treasury plays, the program is an escrow of games: a stake goes
\* in once per player and game, all stakes of a game are equal, and each game is
\* closed once, by giving every stake back or by awarding the whole pot to its
\* depositors less a tenth at most.
THEOREM ProgramIsEscrow == Spec /\ Apart => ImplementsEscrow
<1>1. Init /\ Apart => MoneyInv /\ Apart /\ Escrow!EscrowInit
  BY InitMoney, EscrowStarts
<1>2. MoneyInv /\ Apart /\ [Next]_vars
        => MoneyInv' /\ Apart' /\ [Escrow!EscrowNext]_(Escrow!escrowVars)
  BY MoneyStep, EscrowStep DEF Apart, Treasuries
<1> QED BY <1>1, <1>2, PTL DEF Spec, ImplementsEscrow, Escrow!EscrowSpec

\* As long as no treasury plays and no stake is a single lamport, settlement
\* rewards exactly the best pours, equally but for the indivisible rest, and
\* that goes to the winner who was reported first.
THEOREM SettlementIsFair == Spec /\ Apart /\ StakesDivisible => SettlementRewardsBest
<1>1. ASSUME MoneyInv, Apart, StakesDivisible, [Next]_vars,
             NEW id \in DOMAIN lobbies,
             lobbies[id].status = "Open", lobbies'[id].status = "Settled"
      PROVE  RewardsBest(lobbies[id],
                         [ i \in Seats(lobbies[id]) |->
                             balance'[lobbies[id].players[i].player]
                               - balance[lobbies[id].players[i].player] ])
  <2>1. IInv /\ TypeOK /\ GamesSound /\ ConfigSound
    BY <1>1 DEF MoneyInv, IInv
  <2>2. PICK s \in Accounts, w \in AccountLists : SettleLobby(s, id, w)
    <3>1. ~ Quiet
      BY <1>1 DEF Quiet, SameGame
    <3>2. ASSUME NEW p \in Players, NEW x \in LobbyIds, JoinLobby(p, x)
          PROVE  FALSE
      <4>1. \A y \in DOMAIN lobbies \ {x} : lobbies'[y] = lobbies[y]
        BY <2>1, <3>2, JoinMoves
      <4>2. lobbies'[x].status = "Open"
        BY <2>1, <3>2, JoinMoves
      <4> QED BY <1>1, <4>1, <4>2
    <3>3. ASSUME NEW x \in LobbyIds, NEW w, CancelLobby(x, w)
          PROVE  FALSE
      <4>1. \A y \in DOMAIN lobbies \ {x} : lobbies'[y] = lobbies[y]
        BY <2>1, <3>3, CancelMoves
      <4>2. lobbies'[x].status = "Cancelled"
        BY <2>1, <3>3, CancelMoves
      <4> QED BY <1>1, <4>1, <4>2
    <3>4. ASSUME NEW s \in Accounts, NEW x \in LobbyIds, NEW w, SettleLobby(s, x, w)
          PROVE  x = id
      <4>1. lobbies' = [ lobbies EXCEPT ![x] = Settled(@) ]
        BY <3>4 DEF SettleLobby
      <4>2. \A y \in DOMAIN lobbies \ {x} : lobbies'[y] = lobbies[y]
        BY <4>1
      <4> QED BY <1>1, <4>2
    <3> QED BY <1>1, <2>1, <3>1, <3>2, <3>3, <3>4, OnlyThreeMoveMoney
  <2> PICK l, f : l = lobbies[id] /\ f = config.fee_bps
    OBVIOUS
  <2> DEFINE gain == [ i \in Seats(l) |-> balance'[l.players[i].player] - balance[l.players[i].player] ]
  <2>3. /\ l \in Lobby /\ RosterConsistent(l) /\ f \in 0 .. MAX_FEE_BPS
        /\ Len(l.players) = l.size /\ config # NotInitialized
        /\ \A key : Payout(l, f, key) \in Nat
    BY <2>1, <2>2, SettleMoves DEF TypeOK
  <2>4. l.played_count = Len(l.players)
    BY <2>2, <2>3 DEF SettleLobby, MaySettle, CanSettle
  <2>5. l.entry_fee > 1
    BY <1>1, <2>1 DEF GamesSound, IsFee, StakesDivisible
  <2>6. \A a \in Accounts : balance'[a] = balance[a] + Payout(l, f, a)
                              + (IF a = config.treasury THEN FeeOf(l, f) ELSE 0)
    BY <2>1, <2>2 DEF SettleLobby, TypeOK
  <2>7. ASSUME NEW i \in Seats(l)
        PROVE  gain[i] = Payout(l, f, l.players[i].player)
    <3>1. l.players[i].player \in Accounts /\ contains_player(l, l.players[i].player)
      BY <2>3, EntryTyped DEF PlayerEntry, contains_player
    <3>2. l.players[i].player # config.treasury
      BY <1>1, <2>1, <2>3, <3>1 DEF GamesSound, ConfigSound, Apart
    <3>3. balance[l.players[i].player] \in Nat
      BY <2>1, <3>1 DEF TypeOK
    <3> QED BY <2>3, <2>6, <3>1, <3>2, <3>3
  <2>8. RewardsBest(l, gain)
    <3> HIDE DEF gain
    <3> QED BY <2>3, <2>4, <2>5, <2>7, PayoutsReward
  <2> QED BY <2>8
<1>2. MoneyInv /\ Apart /\ StakesDivisible /\ [Next]_vars
        => [ \A id \in DOMAIN lobbies :
               lobbies[id].status = "Open" /\ lobbies'[id].status = "Settled" =>
                 RewardsBest(lobbies[id],
                             [ i \in Seats(lobbies[id]) |->
                                 balance'[lobbies[id].players[i].player]
                                   - balance[lobbies[id].players[i].player] ]) ]_vars
  BY <1>1
<1>3. MoneyInv /\ Apart /\ StakesDivisible /\ [Next]_vars
        => MoneyInv' /\ Apart' /\ StakesDivisible'
  BY MoneyStep DEF Apart, Treasuries, StakesDivisible, FeeLists
<1> QED BY <1>2, <1>3, InitMoney, PTL DEF Spec, SettlementRewardsBest
=============================================================================
