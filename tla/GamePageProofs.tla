---------------------------- MODULE GamePageProofs ---------------------------
(***************************************************************************)
(* Proofs about GamePage for any number of wallets and of lost connections *)
(* and failures.                                                           *)
(***************************************************************************)
EXTENDS GamePage, SequenceTheorems, TLAPS

-----------------------------------------------------------------------------
(* The invariant *)

\* The server and the ledger have w as a player.
Entitled(w) == w \in paid /\ lobby.players[w] # "none"

SeatsPaid == \A w \in Wallets : lobby.players[w] # "none" => w \in paid

\* m takes back nothing that l has shown as final.
Follows(m, l) ==
  /\ l.status = "settled" => m.status = "settled"
  /\ l.status # "awaiting_randomness" => m.status # "awaiting_randomness"
  /\ \A w \in Wallets : l.players[w] = "done" => m.players[w] = "done"

\* Nor, as long as the lobby is cancelled, that it is.
After(m, l) ==
  /\ Follows(m, l)
  /\ lobby.status = "cancelled" /\ l.status = "cancelled" => m.status = "cancelled"

\* An end is shown once the ledger has it and the call has come back.
Truthful(l) ==
  /\ l.status = "settled" => ended = "settled"
  /\ l.status = "cancelled" => ended = "cancelled" /\ "cancel" \notin tasks

\* One handler settles, and what else has ended the lobby it finds cancelled.
Ending ==
  /\ Truthful(lobby)
  /\ "cancel" \in tasks => ended = "cancelled"
  /\ ~ {"settling", "settle"} \subseteq tasks
  /\ "settling" \in tasks \/ "settle" \in tasks => lobby.status \in {"settling", "cancelled"}

\* hello carries the wallet of the token.
Requests == { m \in ClientMessage : m.type = "hello" => m.wallet \in Wallets }

\* Until the gateway has read hello it reads nothing else.
Greeted == conn # NoConn => conn.wallet \in Wallets \/ (up # << >> /\ Head(up).type = "hello")

\* A handler that is to answer has a connection to answer on, one that is to
\* send the round has seated a player.
Handlers ==
  { h \in Handler : /\ h.connected => conn # NoConn
                    /\ h.step = "join saved" => Entitled(h.wallet) }

PageMessage ==
  [ type : {"lobby_state"}, lobby : LobbyState ]
    \cup [ type : {"round_config", "pour_result"}, wallet : Wallets ]
    \cup [ type : {"settled"} ]

\* States on their way were the server's, rounds are for those entitled.
Messages ==
  { m \in PageMessage : /\ m.type = "lobby_state" => Follows(lobby, m.lobby) /\ Truthful(m.lobby)
                        /\ m.type = "round_config" => Entitled(m.wallet) }

States(q) == { k \in DOMAIN q : q[k].type = "lobby_state" }

\* States arrive in the order in which they were sent.
Ordered(q) == \A j, k \in States(q) : j =< k => After(q[k].lobby, q[j].lobby)

\* What the page shows is behind the server and all that is on its way.
ViewBehind ==
  page.view # NoView =>
    /\ Follows(lobby, page.view) /\ Truthful(page.view)
    /\ \A k \in States(down) : After(down[k].lobby, page.view)

Values ==
  /\ page \in Page /\ conn \in ConnState \cup {NoConn} /\ lobby \in LobbyState
  /\ pours \subseteq Wallets /\ tasks \subseteq Tasks
  /\ paid \subseteq Wallets /\ ended \in {"no", "settled", "cancelled"}
  /\ unsaid \in BOOLEAN /\ troubles \in 0 .. MaxTroubles

IInv ==
  /\ Values
  /\ up \in Seq(Requests) /\ Greeted
  /\ handlers \in Seq(Handlers)
  /\ down \in Seq(Messages) /\ Ordered(down) /\ ViewBehind
  /\ SeatsPaid /\ Ending
  /\ page.config # NoWallet => Entitled(page.config)

-----------------------------------------------------------------------------
(* Sequences *)

LEMMA SeqOfOne ==
  ASSUME NEW S, NEW a \in S
  PROVE  << a >> \in Seq(S) /\ Len(<< a >>) = 1 /\ << a >>[1] = a
OBVIOUS

LEMMA SeqOfTwo ==
  ASSUME NEW S, NEW a \in S, NEW b \in S
  PROVE  << a, b >> \in Seq(S)
OBVIOUS

\* What comes first stays first when something is added.
LEMMA ConcatHead ==
  ASSUME NEW S, NEW s \in Seq(S), NEW t \in Seq(S), s # << >>
  PROVE  s \o t \in Seq(S) /\ s \o t # << >> /\ Head(s \o t) = Head(s)
<1>1. /\ s \o t \in Seq(S) /\ Len(s \o t) = Len(s) + Len(t)
      /\ \A i \in 1 .. Len(s) + Len(t) : (s \o t)[i] = IF i =< Len(s) THEN s[i] ELSE t[i - Len(s)]
  BY ConcatProperties
<1>2. Len(s) \in Nat \ {0} /\ Len(t) \in Nat
  BY EmptySeq, LenProperties
<1>3. (s \o t)[1] = s[1] /\ Len(s \o t) # 0
  BY <1>1, <1>2
<1>4. s \o t # << >>
  BY <1>3, EmptySeq
<1> QED BY <1>1, <1>3, <1>4

LEMMA ConcatKeeps ==
  ASSUME NEW S, NEW s \in Seq(S), NEW t \in Seq(S), NEW i \in DOMAIN s
  PROVE  s \o t \in Seq(S) /\ i \in DOMAIN (s \o t) /\ (s \o t)[i] = s[i]
<1>1. /\ s \o t \in Seq(S) /\ Len(s \o t) = Len(s) + Len(t)
      /\ \A k \in 1 .. Len(s) + Len(t) : (s \o t)[k] = IF k =< Len(s) THEN s[k] ELSE t[k - Len(s)]
  BY ConcatProperties
<1>2. /\ Len(s) \in Nat /\ Len(t) \in Nat /\ i \in 1 .. Len(s)
      /\ DOMAIN (s \o t) = 1 .. Len(s) + Len(t)
  BY <1>1, LenProperties
<1> QED BY <1>1, <1>2

\* What is in a sequence with one element less was there before.
LEMMA RemoveAtTyped ==
  ASSUME NEW S, NEW s \in Seq(S), NEW k \in DOMAIN s
  PROVE  RemoveAt(s, k) \in Seq(S)
<1>1. Len(s) \in Nat /\ DOMAIN s = 1 .. Len(s) /\ k \in 1 .. Len(s)
  BY LenProperties
<1>2. SubSeq(s, 1, k - 1) \in Seq(S)
  <2>1. \A i \in 1 .. k - 1 : s[i] \in S
    BY <1>1, ElementOfSeq
  <2> QED BY <1>1, <2>1, SubSeqProperties
<1>3. SubSeq(s, k + 1, Len(s)) \in Seq(S)
  <2>1. \A i \in k + 1 .. Len(s) : s[i] \in S
    BY <1>1, ElementOfSeq
  <2> QED BY <1>1, <2>1, SubSeqProperties
<1> QED BY <1>2, <1>3, ConcatProperties DEF RemoveAt

\* An element taken from a sequence for another.
LEMMA ExceptTyped ==
  ASSUME NEW S, NEW s \in Seq(S), NEW k \in DOMAIN s, NEW e \in S
  PROVE  [ s EXCEPT ![k] = e ] \in Seq(S)
<1>1. k \in 1 .. Len(s)
  BY LenProperties
<1> QED BY <1>1, ExceptSeq

-----------------------------------------------------------------------------
(* The server and the ledger only move on *)

\* What messages and handlers rely on.
Moves ==
  /\ lobby' \in LobbyState
  /\ Follows(lobby', lobby)
  /\ lobby'.status = "cancelled" => lobby.status = "cancelled" \/ "cancel" \in tasks
  /\ ended # "no" => ended' = ended
  /\ "cancel" \in tasks' => "cancel" \in tasks \/ ended = "no"
  /\ Ending'
  /\ paid \subseteq paid'
  /\ \A w \in Wallets : lobby.players[w] # "none" => lobby'.players[w] # "none"

\* Nothing of the lobby's end moves.
Quiet == tasks' = tasks /\ ended' = ended

LEMMA FollowsItself == ASSUME NEW l PROVE Follows(l, l) /\ After(l, l)
BY DEF Follows, After

LEMMA FollowsOn ==
  ASSUME NEW l, NEW m, NEW n, Follows(m, l), Follows(n, m)
  PROVE  Follows(n, l)
BY DEF Follows

LEMMA Rests ==
  ASSUME IInv, lobby' = lobby, Quiet, paid \subseteq paid'
  PROVE  Moves
BY FollowsItself DEF Moves, IInv, Values, Quiet, Ending, Truthful

\* A player is seated or is done.
LEMMA PlayerMoves ==
  ASSUME IInv, NEW w \in Wallets, NEW st \in {"playing", "done"},
         lobby.players[w] # "done",
         lobby' = [ lobby EXCEPT !.players[w] = st ], Quiet, paid' = paid
  PROVE  Moves
<1>1. /\ lobby' \in LobbyState /\ lobby'.status = lobby.status
      /\ \A v \in Wallets \ {w} : lobby'.players[v] = lobby.players[v]
      /\ lobby'.players[w] = st
  BY DEF IInv, Values, LobbyState
<1>2. Follows(lobby', lobby)
  BY <1>1 DEF Follows
<1>3. Ending'
  BY <1>1 DEF IInv, Quiet, Ending, Truthful
<1> QED BY <1>1, <1>2, <1>3 DEF Moves, Quiet, IInv, Ending

\* A truth stays one.
LEMMA TruthStays ==
  ASSUME Moves, NEW l, Truthful(l)
  PROVE  Truthful(l)'
BY DEF Moves, Truthful

\* What the lobby is now comes after all it was.
LEMMA LobbyLast ==
  ASSUME NEW l, Follows(lobby', l)
  PROVE  After(lobby, l)'
BY DEF After

\* What was said before the lobby was cancelled did not say so.
LEMMA AfterStays ==
  ASSUME Moves, NEW l, NEW m, Truthful(l), After(m, l)
  PROVE  lobby'.status = "cancelled" /\ l.status = "cancelled" => m.status = "cancelled"
BY DEF Moves, Truthful, After, Follows

LEMMA EntitledStays ==
  ASSUME Moves, NEW w \in Wallets, Entitled(w)
  PROVE  Entitled(w)'
BY DEF Moves, Entitled

LEMMA MessagesStay == ASSUME Moves PROVE Messages \subseteq Messages'
<1> SUFFICES ASSUME NEW m \in Messages PROVE m \in Messages'
  OBVIOUS
<1>1. m \in PageMessage
  BY DEF Messages
<1>2. m.type = "lobby_state" => Follows(lobby', m.lobby) /\ Truthful(m.lobby)'
  BY FollowsOn, TruthStays DEF Messages, Moves
<1>3. m.type = "round_config" => m.wallet \in Wallets
  BY <1>1 DEF PageMessage
<1>4. m.type = "round_config" => Entitled(m.wallet)'
  BY <1>3, EntitledStays DEF Messages
<1> QED BY <1>1, <1>2, <1>4 DEF Messages

LEMMA HandlersStay ==
  ASSUME Moves, conn # NoConn => conn' # NoConn
  PROVE  Handlers \subseteq Handlers'
<1> SUFFICES ASSUME NEW h \in Handlers PROVE h \in Handlers'
  OBVIOUS
<1>1. h \in Handler /\ h.wallet \in Wallets
  BY DEF Handlers, Handler
<1>2. h.step = "join saved" => Entitled(h.wallet)'
  BY <1>1, EntitledStays DEF Handlers
<1> QED BY <1>1, <1>2 DEF Handlers

-----------------------------------------------------------------------------
(* The parts of the invariant, one by one *)

Requested == up' \in Seq(Requests) /\ Greeted'
Handled == handlers' \in Seq(Handlers')
Informed == down' \in Seq(Messages') /\ Ordered(down)' /\ ViewBehind'
Owned == SeatsPaid' /\ (page.config # NoWallet => Entitled(page.config))'

LEMMA Parts ==
  ASSUME Values', Moves, Requested, Handled, Informed, Owned
  PROVE  IInv'
BY DEF IInv, Moves, Requested, Handled, Informed, Owned

LEMMA Known ==
  ASSUME IInv
  PROVE  /\ page \in Page /\ lobby \in LobbyState /\ conn \in ConnState \cup {NoConn}
         /\ down \in Seq(Messages) /\ handlers \in Seq(Handlers) /\ up \in Seq(Requests)
         /\ \A k \in DOMAIN handlers : handlers[k] \in Handlers
         /\ Len(down) \in Nat /\ DOMAIN down = 1 .. Len(down)
         /\ \A k \in DOMAIN down : down[k] \in Messages
<1>1. Values /\ handlers \in Seq(Handlers) /\ down \in Seq(Messages) /\ up \in Seq(Requests)
  BY DEF IInv
<1>2. \A k \in DOMAIN handlers : handlers[k] \in Handlers
  BY <1>1, LenProperties, ElementOfSeq
<1>3. Len(down) \in Nat /\ DOMAIN down = 1 .. Len(down)
  BY <1>1, LenProperties
<1>4. \A k \in DOMAIN down : down[k] \in Messages
  BY <1>1, <1>3, ElementOfSeq
<1> QED BY <1>1, <1>2, <1>3, <1>4 DEF Values

\* Rounds stay with those entitled to them; a new player has paid.
LEMMA OwnedStays ==
  ASSUME IInv, Moves, page'.config = page.config,
         \A w \in Wallets : lobby'.players[w] # "none" => lobby.players[w] # "none" \/ w \in paid
  PROVE  Owned
<1>1. SeatsPaid'
  BY DEF SeatsPaid, IInv, Moves
<1>2. page.config \in Wallets \cup {NoWallet}
  BY Known DEF Page, MaybeWallet
<1>3. page.config # NoWallet => Entitled(page.config)
  BY DEF IInv
<1>4. page'.config # NoWallet => page'.config \in paid' /\ lobby'.players[page'.config] # "none"
  BY <1>2, <1>3, EntitledStays DEF Entitled
<1> QED BY <1>1, <1>4 DEF Owned, Entitled

\* What is sent is what the lobby is by now, and rounds for those entitled.
News == { m \in Messages : m.type = "lobby_state" => m.lobby = lobby }

LEMMA NewsSent ==
  ASSUME IInv, Moves, page'.view = page.view, NEW msgs \in Seq(News'), down' = down \o msgs
  PROVE  Informed
<1> DEFINE n == Len(down)
<1>1. News' \subseteq Messages' /\ Messages \subseteq Messages'
  BY MessagesStay DEF News
<1>2. down \in Seq(Messages') /\ msgs \in Seq(Messages')
  BY <1>1, Known, SeqMonotonic
<1>3. /\ down' \in Seq(Messages') /\ Len(down') = n + Len(msgs)
      /\ \A k \in 1 .. n + Len(msgs) : down'[k] = IF k =< n THEN down[k] ELSE msgs[k - n]
  BY <1>2, ConcatProperties
<1>4. n \in Nat /\ Len(msgs) \in Nat /\ DOMAIN down = 1 .. n
      /\ DOMAIN down' = 1 .. n + Len(msgs)
  BY <1>2, <1>3, LenProperties
<1>5. ASSUME NEW k \in States(down')
      PROVE  /\ k =< n => k \in States(down) /\ down'[k] = down[k]
             /\ ~ (k =< n) => down'[k].lobby = lobby'
  <2>1. k \in 1 .. n + Len(msgs) /\ down'[k].type = "lobby_state"
    BY <1>4 DEF States
  <2>2. CASE k =< n
    BY <1>3, <1>4, <2>1, <2>2 DEF States
  <2>3. CASE ~ (k =< n)
    <3>1. k - n \in 1 .. Len(msgs) /\ down'[k] = msgs[k - n]
      BY <1>3, <1>4, <2>1, <2>3
    <3>2. msgs[k - n] \in News'
      BY <3>1, ElementOfSeq
    <3> QED BY <2>1, <2>3, <3>1, <3>2 DEF News
  <2> QED BY <2>2, <2>3
<1> HIDE DEF n
<1>6. \A k \in States(down) : Follows(lobby', down[k].lobby) /\ Truthful(down[k].lobby)
  <2> SUFFICES ASSUME NEW k \in States(down)
               PROVE  Follows(lobby', down[k].lobby) /\ Truthful(down[k].lobby)
    OBVIOUS
  <2>1. down[k] \in Messages /\ down[k].type = "lobby_state"
    BY Known DEF States
  <2>2. Follows(lobby, down[k].lobby) /\ Truthful(down[k].lobby)
    BY <2>1 DEF Messages
  <2> QED BY <2>2, FollowsOn DEF Moves
<1>7. Ordered(down)'
  <2> SUFFICES ASSUME NEW j \in States(down'), NEW k \in States(down'), j =< k
               PROVE  After(down[k].lobby, down[j].lobby)'
    BY DEF Ordered, States
  <2>1. j \in Nat /\ k \in Nat
    BY <1>4 DEF States
  <2>2. k =< n => j =< n
    BY <1>4, <2>1
  <2>3. CASE k =< n
    <3>1. k \in States(down) /\ down'[k] = down[k] /\ j \in States(down) /\ down'[j] = down[j]
      BY <1>5, <2>2, <2>3, Zenon
    <3>2. After(down[k].lobby, down[j].lobby)
      BY <3>1, Zenon DEF IInv, Ordered
    <3>3. Truthful(down[j].lobby)
      BY <1>6, <3>1
    <3>4. LET l == down[j].lobby
              m == down[k].lobby
          IN lobby'.status = "cancelled" /\ l.status = "cancelled" => m.status = "cancelled"
      BY <3>2, <3>3, AfterStays
    <3> QED BY <3>1, <3>2, <3>4 DEF After, Follows
  <2>4. CASE ~ (k =< n)
    <3>1. down'[k].lobby = lobby'
      BY <1>5, <2>4, Zenon
    <3>2. Follows(lobby', down'[j].lobby)
      <4>1. CASE j =< n
        <5>1. j \in States(down) /\ down'[j] = down[j]
          BY <1>5, <4>1, Zenon
        <5> QED BY <1>6, <5>1, Zenon
      <4>2. CASE ~ (j =< n)
        <5>1. down'[j].lobby = lobby'
          BY <1>5, <4>2, Zenon
        <5> QED BY <5>1, FollowsItself, Zenon
      <4> QED BY <4>1, <4>2
    <3> QED BY <3>1, <3>2 DEF After
  <2> QED BY <2>3, <2>4
<1>8. ViewBehind'
  <2> SUFFICES ASSUME page.view # NoView
               PROVE  /\ Follows(lobby', page.view) /\ Truthful(page.view)'
                      /\ \A k \in States(down') : After(down[k].lobby, page.view)'
    BY DEF ViewBehind, States
  <2>1. Follows(lobby', page.view) /\ Truthful(page.view) /\ Truthful(page.view)'
    BY FollowsOn, TruthStays DEF IInv, ViewBehind, Moves, Truthful
  <2>2. ASSUME NEW k \in States(down')
        PROVE  After(down[k].lobby, page.view)'
    <3>1. CASE k =< n
      <4>1. k \in States(down) /\ down'[k] = down[k]
        BY <1>5, <3>1, Zenon
      <4>2. After(down[k].lobby, page.view)
        BY <4>1 DEF IInv, ViewBehind
      <4>3. LET l == page.view
                m == down[k].lobby
            IN lobby'.status = "cancelled" /\ l.status = "cancelled" => m.status = "cancelled"
        BY <2>1, <4>2, AfterStays
      <4> QED BY <4>1, <4>2, <4>3 DEF After, Follows
    <3>2. CASE ~ (k =< n)
      <4>1. down'[k].lobby = lobby'
        BY <1>5, <3>2, Zenon
      <4> QED BY <2>1, <4>1 DEF After
    <3> QED BY <3>1, <3>2
  <2> QED BY <2>1, <2>2
<1> QED BY <1>3, <1>7, <1>8 DEF Informed

LEMMA NothingSent ==
  ASSUME IInv, Moves, page'.view = page.view, down' = down
  PROVE  Informed
<1>1. << >> \in Seq(News') /\ down = down \o << >>
  BY Known, EmptySeq, ConcatEmptySeq
<1> QED BY <1>1, NewsSent

\* A new connection has nothing on its way.
LEMMA AllLost ==
  ASSUME IInv, Moves, page'.view = page.view, down' = << >>
  PROVE  Informed
<1>1. down' \in Seq(Messages') /\ States(down') = {}
  BY EmptySeq DEF States
<1>2. page.view # NoView => Follows(lobby', page.view) /\ Truthful(page.view)'
  BY FollowsOn, TruthStays DEF IInv, ViewBehind, Moves
<1> QED BY <1>1, <1>2 DEF Informed, Ordered, ViewBehind, States, Truthful

\* The page shows what came first, which all that is left follows.
LEMMA FirstRead ==
  ASSUME IInv, lobby' = lobby, Quiet, paid' = paid, down # << >>, down' = Tail(down),
         page'.view = IF Head(down).type = "lobby_state" THEN Head(down).lobby ELSE page.view
  PROVE  Informed
<1> DEFINE n == Len(down)
<1>0. /\ Messages' = Messages
      /\ \A l, m : (After(m, l)' <=> After(m, l)) /\ (Truthful(l)' <=> Truthful(l))
  BY DEF Messages, Entitled, Quiet, Truthful, After, Follows
<1>1. /\ Tail(down) \in Seq(Messages) /\ Len(Tail(down)) = n - 1
      /\ \A i \in 1 .. Len(Tail(down)) : Tail(down)[i] = down[i + 1]
  BY Known, HeadTailProperties
<1>2. n \in Nat \ {0} /\ DOMAIN down = 1 .. n /\ Head(down) = down[1]
      /\ DOMAIN Tail(down) = 1 .. n - 1
  BY <1>1, Known, EmptySeq, LenProperties
<1>3. ASSUME NEW k \in States(down')
      PROVE  k \in 1 .. n - 1 /\ k + 1 \in States(down) /\ down'[k] = down[k + 1]
  BY <1>1, <1>2 DEF States
<1>4. Ordered(down)'
  <2> SUFFICES ASSUME NEW j \in States(down'), NEW k \in States(down'), j =< k
               PROVE  After(down'[k].lobby, down'[j].lobby)
    BY <1>0 DEF Ordered, States
  <2>1. j + 1 =< k + 1
    BY <1>2, <1>3
  <2> QED BY <1>3, <2>1 DEF IInv, Ordered
<1>5. ViewBehind'
  <2>1. CASE Head(down).type = "lobby_state"
    <3>1. 1 \in States(down) /\ page'.view = down[1].lobby
      BY <1>2, <2>1 DEF States
    <3>2. Follows(lobby, down[1].lobby) /\ Truthful(down[1].lobby)
      BY <1>2, <2>1, Known DEF Messages
    <3>3. \A k \in States(down') : After(down'[k].lobby, down[1].lobby)
      BY <1>2, <1>3, <3>1 DEF IInv, Ordered
    <3> QED BY <1>0, <3>1, <3>2, <3>3 DEF ViewBehind, States
  <2>2. CASE Head(down).type # "lobby_state"
    BY <1>0, <1>3, <2>2 DEF IInv, ViewBehind, States
  <2> QED BY <2>1, <2>2
<1> QED BY <1>0, <1>1, <1>4, <1>5 DEF Informed

-----------------------------------------------------------------------------
(* Messages to the gateway *)

LEMMA RequestsStay ==
  ASSUME IInv, up' = up, conn' # NoConn => conn # NoConn /\ conn'.wallet = conn.wallet
  PROVE  Requested
BY DEF IInv, Requested, Greeted

LEMMA NoRequests == ASSUME up' = << >>, conn' = NoConn PROVE Requested
BY EmptySeq DEF Requested, Greeted

\* What is sent comes after what is on its way.
LEMMA RequestsSent ==
  ASSUME IInv, conn' = conn, NEW msgs \in Seq(Requests), up' = Sent(msgs)
  PROVE  Requested
<1>1. CASE conn = NoConn
  BY <1>1, RequestsStay DEF Sent
<1>2. CASE conn # NoConn
  <2>1. up \in Seq(Requests) /\ up' = up \o msgs
    BY <1>2, Known DEF Sent
  <2>2. up' \in Seq(Requests)
    BY <2>1, ConcatProperties
  <2>3. up # << >> => up' # << >> /\ Head(up') = Head(up)
    BY <2>1, ConcatHead
  <2> QED BY <2>2, <2>3 DEF IInv, Requested, Greeted
<1> QED BY <1>1, <1>2

LEMMA FirstRequest ==
  ASSUME IInv, NEW type, Handles(type)
  PROVE  /\ conn \in ConnState /\ conn # NoConn
         /\ Head(up) \in Requests /\ Head(up).type = type
         /\ up' \in Seq(Requests)
         /\ type # "hello" => conn.wallet \in Wallets
<1>1. Head(up) \in Requests /\ Tail(up) \in Seq(Requests)
  BY Known, HeadTailProperties DEF Handles
<1> QED BY <1>1, Known DEF Handles, IInv, Greeted

LEMMA RequestRead ==
  ASSUME IInv, NEW type, Handles(type), type # "hello",
         conn' = conn \/ conn' = [ conn EXCEPT !.joined = TRUE, !.watching = TRUE ]
                      \/ conn' = [ conn EXCEPT !.watching = TRUE ]
  PROVE  Requested
<1>1. conn \in ConnState /\ conn.wallet \in Wallets /\ up' \in Seq(Requests)
  BY FirstRequest
<1>2. conn'.wallet = conn.wallet
  BY <1>1 DEF ConnState
<1> QED BY <1>1, <1>2 DEF Requested, Greeted

-----------------------------------------------------------------------------
(* Handlers *)

LEMMA HandlersGo ==
  ASSUME IInv, Moves, conn # NoConn => conn' # NoConn,
         \/ handlers' = handlers
         \/ \E k \in DOMAIN handlers : handlers' = RemoveAt(handlers, k)
  PROVE  Handled
<1>1. handlers \in Seq(Handlers')
  BY Known, HandlersStay, SeqMonotonic
<1> QED BY <1>1, RemoveAtTyped DEF Handled

LEMMA HandlerStarts ==
  ASSUME IInv, Moves, conn' = conn, NEW h \in Handlers', handlers' = Append(handlers, h)
  PROVE  Handled
<1>1. handlers \in Seq(Handlers')
  BY Known, HandlersStay, SeqMonotonic
<1> QED BY <1>1, AppendProperties DEF Handled

\* step is never one that promises a seat the wallet does not have.
LEMMA HandlerMovesOn ==
  ASSUME IInv, Moves, conn' = conn, NEW k \in DOMAIN handlers,
         NEW s \in {"confirm", "join saved", "report", "result"},
         s = "join saved" => /\ handlers[k].wallet \in paid'
                             /\ lobby'.players[handlers[k].wallet] # "none",
         handlers' = [ handlers EXCEPT ![k].step = s ]
  PROVE  Handled
<1> DEFINE h == [ handlers[k] EXCEPT !.step = s ]
<1>1. handlers \in Seq(Handlers') /\ handlers[k] \in Handlers'
  BY Known, HandlersStay, SeqMonotonic
<1>2. h \in Handlers'
  <2>1. handlers[k] \in Handler
    BY Known DEF Handlers
  <2>2. h \in Handler /\ h.step = s /\ h.connected = handlers[k].connected
        /\ h.wallet = handlers[k].wallet
    BY <2>1 DEF Handler
  <2>3. h.connected => conn' # NoConn
    BY <2>2, Known DEF Handlers
  <2> HIDE DEF h
  <2>4. h.step = "join saved" => h.wallet \in paid' /\ lobby'.players[h.wallet] # "none"
    BY <2>2
  <2> QED BY <2>2, <2>3, <2>4 DEF Handlers, Entitled
<1>3. handlers' = [ handlers EXCEPT ![k] = h ]
  OBVIOUS
<1> HIDE DEF h
<1>4. [ handlers EXCEPT ![k] = h ] \in Seq(Handlers')
  BY <1>1, <1>2, ExceptTyped
<1> QED BY <1>3, <1>4 DEF Handled

LEMMA HandlersOrphaned ==
  ASSUME IInv, Moves, handlers' = Orphaned(handlers)
  PROVE  Handled
<1> DEFINE n == Len(handlers)
<1>1. n \in Nat /\ DOMAIN handlers = 1 .. n
  BY Known, LenProperties
<1>2. ASSUME NEW k \in 1 .. n
      PROVE  [ handlers[k] EXCEPT !.connected = FALSE ] \in Handlers'
  <2>1. handlers[k] \in Handlers /\ handlers[k] \in Handler
    BY <1>1, Known DEF Handlers
  <2> DEFINE h == [ handlers[k] EXCEPT !.connected = FALSE ]
  <2>2. /\ h \in Handler /\ ~ h.connected /\ h.wallet = handlers[k].wallet
        /\ h.wallet \in Wallets /\ h.step = handlers[k].step
    BY <2>1 DEF Handler
  <2>3. h.step = "join saved" => Entitled(h.wallet)
    BY <2>1, <2>2 DEF Handlers
  <2>4. h.step = "join saved" => h.wallet \in paid' /\ lobby'.players[h.wallet] # "none"
    BY <2>2, <2>3, EntitledStays DEF Entitled
  <2> QED BY <2>2, <2>4 DEF Handlers, Entitled
<1>3. Orphaned(handlers) \in [ 1 .. n -> Handlers' ]
  BY <1>1, <1>2 DEF Orphaned
<1> QED BY <1>1, <1>3, SeqDef DEF Handled

-----------------------------------------------------------------------------
(* What is sent to the page *)

LEMMA StateIsNews ==
  ASSUME IInv, lobby' = lobby, Quiet, paid' = paid
  PROVE  StateMessage(lobby) \in News'
<1>1. StateMessage(lobby) \in PageMessage
  BY Known DEF StateMessage, PageMessage
<1>2. Follows(lobby', lobby) /\ Truthful(lobby)'
  BY FollowsItself DEF IInv, Quiet, Ending, Truthful
<1> QED BY <1>1, <1>2 DEF StateMessage, News, Messages, Truthful

LEMMA RoundIsNews ==
  ASSUME NEW w \in Wallets, w \in paid', lobby'.players[w] # "none"
  PROVE  RoundConfig(w) \in Seq(News')
<1> DEFINE m == [ type |-> "round_config", wallet |-> w ]
<1>1. m \in PageMessage /\ m.type = "round_config" /\ m.wallet = w
  BY DEF PageMessage
<1> HIDE DEF m
<1>2. m \in News'
  BY <1>1 DEF News, Messages, Entitled
<1>3. << m >> \in Seq(News')
  BY <1>2, SeqOfOne
<1> QED BY <1>3 DEF RoundConfig, m

LEMMA ResultIsNews ==
  ASSUME NEW w \in Wallets
  PROVE  << [ type |-> "pour_result", wallet |-> w ] >> \in Seq(News')
<1> DEFINE m == [ type |-> "pour_result", wallet |-> w ]
<1>1. m \in PageMessage /\ m.type = "pour_result"
  BY DEF PageMessage
<1> HIDE DEF m
<1>2. m \in News'
  BY <1>1 DEF News, Messages
<1>3. << m >> \in Seq(News')
  BY <1>2, SeqOfOne
<1> QED BY <1>3 DEF m

LEMMA SettledIsNews == [ type |-> "settled" ] \in News'
<1> DEFINE m == [ type |-> "settled" ]
<1>1. m \in PageMessage /\ m.type = "settled"
  BY DEF PageMessage
<1> HIDE DEF m
<1>2. m \in News'
  BY <1>1 DEF News, Messages
<1> QED BY <1>2 DEF m

LEMMA NewsBroadcast ==
  ASSUME IInv, Moves, page'.view = page.view, NEW msgs \in Seq(News'), down' = Broadcast(msgs)
  PROVE  Informed
BY NewsSent, NothingSent DEF Broadcast

-----------------------------------------------------------------------------
(* The visitor *)

\* A step of the page that the server does not notice.
LEMMA PageStep ==
  ASSUME IInv, page' \in Page, page'.view = page.view, page'.config = page.config,
         down' = down, conn' = conn, UNCHANGED server,
         paid \subseteq paid', paid' \subseteq Wallets, troubles' \in 0 .. MaxTroubles,
         Requested
  PROVE  IInv'
<1>1. Moves
  BY Rests DEF server, ending, Quiet
<1>2. Values'
  BY DEF Values, IInv, server, ending
<1>3. Handled
  BY <1>1, HandlersGo DEF server
<1>4. Informed
  BY <1>1, NothingSent
<1>5. Owned
  BY <1>1, OwnedStays DEF server
<1> QED BY <1>1, <1>2, <1>3, <1>4, <1>5, Parts

LEMMA TroubleTyped ==
  ASSUME IInv, Trouble \/ troubles' = troubles
  PROVE  troubles' \in 0 .. MaxTroubles
BY PageBounds DEF IInv, Values, Trouble

LEMMA LoginSteps ==
  ASSUME IInv, LoginStarts \/ LoginReturns \/ LoginFails
  PROVE  IInv'
<1>1. page' \in Page /\ page'.view = page.view /\ page'.config = page.config
  BY Known DEF LoginStarts, LoginReturns, LoginFails, Page, MaybeWallet
<1>2. /\ up' = up /\ down' = down /\ conn' = conn /\ UNCHANGED server /\ paid' = paid
      /\ Trouble \/ troubles' = troubles
  BY DEF LoginStarts, LoginReturns, LoginFails
<1>3. troubles' \in 0 .. MaxTroubles
  BY <1>2, TroubleTyped
<1>4. Requested
  BY <1>2, RequestsStay
<1>5. paid' \subseteq Wallets
  BY <1>2 DEF IInv, Values
<1> QED BY <1>1, <1>2, <1>3, <1>4, <1>5, PageStep

\* The join message the page sends, or none.
LEMMA HandshakeTyped ==
  ASSUME NEW p \in Page
  PROVE  /\ Handshake(p) \in Seq(Requests)
         /\ AfterHandshake(p) \in Page
         /\ AfterHandshake(p).view = p.view /\ AfterHandshake(p).config = p.config
<1>1. ASSUME NEW sig \in MaybeSig
      PROVE  JoinMessage(sig) \in Requests
  BY <1>1 DEF JoinMessage, Plain, Requests, ClientMessage, MaybeWallet
<1>2. JoinMessage(p.joinSig) \in Requests
  BY <1>1 DEF Page
<1>3. Handshake(p) \in Seq(Requests)
  BY <1>2, SeqOfOne, EmptySeq DEF Handshake
<1>4. AfterHandshake(p) \in Page /\ AfterHandshake(p).view = p.view
      /\ AfterHandshake(p).config = p.config
  BY DEF AfterHandshake, Page
<1> QED BY <1>3, <1>4

LEMMA PlainTyped ==
  ASSUME NEW type \in {"watch_lobby", "pour_start", "pour_stop"}
  PROVE  Plain(type) \in Requests
BY DEF Plain, Requests, ClientMessage, MaybeWallet, MaybeSig

LEMMA PaySteps ==
  ASSUME IInv,
         \/ PayStarts
         \/ \E succeeded \in BOOLEAN : PayReturns(succeeded)
         \/ \E landed \in BOOLEAN : PayFails(landed)
  PROVE  IInv'
<1>0. paid \subseteq Wallets
  BY DEF IInv, Values
<1>1. CASE PayStarts
  <2>1. page' \in Page /\ page'.view = page.view /\ page'.config = page.config
    BY <1>1, Known DEF PayStarts, Page, MaybeWallet
  <2>2. Requested /\ troubles' \in 0 .. MaxTroubles
    BY <1>1, RequestsStay, TroubleTyped DEF PayStarts
  <2> QED BY <1>0, <1>1, <2>1, <2>2, PageStep DEF PayStarts
<1>2. ASSUME NEW succeeded \in BOOLEAN, PayReturns(succeeded)
      PROVE  IInv'
  <2> DEFINE sig == [ payer |-> page.payingFor, succeeded |-> succeeded ]
             p == [ page EXCEPT !.joinSig = sig, !.payingFor = NoWallet ]
  <2>1. page.payingFor \in Wallets
    BY <1>2, Known DEF PayReturns, Page, MaybeWallet
  <2>2. sig \in MaybeSig
    BY <2>1 DEF MaybeSig, Signature
  <2>3. p \in Page /\ p.view = page.view /\ p.config = page.config
    BY <2>2, Known DEF Page, MaybeWallet
  <2>4. page' = AfterHandshake(p) /\ up' = Sent(Handshake(p))
    BY <1>2 DEF PayReturns
  <2> HIDE DEF p
  <2>5. page' \in Page /\ page'.view = page.view /\ page'.config = page.config
    BY <2>3, <2>4, HandshakeTyped
  <2>6. Requested
    BY <1>2, <2>3, <2>4, HandshakeTyped, RequestsSent DEF PayReturns
  <2>7. troubles' \in 0 .. MaxTroubles
    BY <1>2, TroubleTyped DEF PayReturns
  <2>8. paid \subseteq paid' /\ paid' \subseteq Wallets
    BY <1>0, <1>2, <2>1 DEF PayReturns
  <2> QED BY <1>2, <2>5, <2>6, <2>7, <2>8, PageStep DEF PayReturns
<1>3. ASSUME NEW landed \in BOOLEAN, PayFails(landed)
      PROVE  IInv'
  <2>1. page.payingFor \in Wallets
    BY <1>3, Known DEF PayFails, Page, MaybeWallet
  <2>2. page' \in Page /\ page'.view = page.view /\ page'.config = page.config
    BY <1>3, Known DEF PayFails, Page, MaybeWallet
  <2>3. Requested /\ troubles' \in 0 .. MaxTroubles
    BY <1>3, RequestsStay, TroubleTyped DEF PayFails
  <2>4. paid \subseteq paid' /\ paid' \subseteq Wallets
    BY <1>0, <1>3, <2>1 DEF PayFails
  <2> QED BY <1>3, <2>2, <2>3, <2>4, PageStep DEF PayFails
<1> QED BY <1>1, <1>2, <1>3

LEMMA PourSteps ==
  ASSUME IInv, StartPour \/ EndPour \/ Expires
  PROVE  IInv'
<1>1. page' \in Page /\ page'.view = page.view /\ page'.config = page.config
  BY Known DEF StartPour, EndPour, Expires, Released, Page
<1>2. /\ down' = down /\ conn' = conn /\ UNCHANGED server /\ paid' = paid
      /\ troubles' = troubles
  BY DEF StartPour, EndPour, Expires
<1>3. \/ up' = up
      \/ up' = Sent(<< Plain("pour_start") >>)
      \/ up' = Sent(<< Plain("pour_stop") >>)
  BY DEF StartPour, EndPour, Expires
<1>4. << Plain("pour_start") >> \in Seq(Requests) /\ << Plain("pour_stop") >> \in Seq(Requests)
  BY PlainTyped, SeqOfOne
<1>5. Requested
  BY <1>2, <1>3, <1>4, RequestsStay, RequestsSent
<1>6. paid' \subseteq Wallets /\ troubles' \in 0 .. MaxTroubles
  BY <1>2, TroubleTyped DEF IInv, Values
<1> QED BY <1>1, <1>2, <1>5, <1>6, PageStep

-----------------------------------------------------------------------------
(* The connection *)

LEMMA ConnectionEnds ==
  ASSUME IInv, \/ Closes
               \/ \E w \in Wallets : SwitchWallet(w)
  PROVE  IInv'
<1>1. page' \in Page /\ page'.view = page.view /\ page'.config = page.config
  BY Known DEF Closes, SwitchWallet, Page, MaybeWallet, MaybeSig
<1>2. Disconnected /\ Trouble /\ UNCHANGED << lobby, pours, ending, paid >>
  BY DEF Closes, SwitchWallet
<1>3. Moves
  BY <1>2, Rests DEF ending, Quiet
<1>4. Values'
  BY <1>1, <1>2, TroubleTyped DEF Values, IInv, Disconnected, ending
<1>5. Requested
  BY <1>2, NoRequests DEF Disconnected
<1>6. Handled
  BY <1>2, <1>3, HandlersOrphaned DEF Disconnected
<1>7. Informed
  BY <1>1, <1>2, <1>3, AllLost DEF Disconnected
<1>8. Owned
  BY <1>1, <1>2, <1>3, OwnedStays
<1> QED BY <1>3, <1>4, <1>5, <1>6, <1>7, <1>8, Parts

\* hello comes first on a new connection.
LEMMA ConnectionOpens == ASSUME IInv, Opens PROVE IInv'
<1> DEFINE p == [ page EXCEPT !.status = "open" ]
           hello == HelloMessage(page.token)
           rest == IF page.joinTx = NoSig THEN << >> ELSE << JoinMessage(page.joinTx) >>
<1>1. page.token \in Wallets /\ page.joinTx \in MaybeSig
  BY Known DEF Opens, Page, MaybeWallet
<1>2. p \in Page /\ p.view = page.view /\ p.config = page.config
  BY Known DEF Page
<1>3. page' = AfterHandshake(p) /\ up' = << hello, Plain("watch_lobby") >> \o rest \o Handshake(p)
  BY DEF Opens
<1>4. hello \in Requests /\ hello.type = "hello"
  BY <1>1 DEF HelloMessage, Plain, Requests, ClientMessage, MaybeWallet, MaybeSig
<1>5. JoinMessage(page.joinTx) \in Requests
  BY <1>1 DEF JoinMessage, Plain, Requests, ClientMessage, MaybeWallet
<1>6. rest \in Seq(Requests)
  BY <1>5, SeqOfOne, EmptySeq
<1>7. page' \in Page /\ page'.view = page.view /\ page'.config = page.config
      /\ Handshake(p) \in Seq(Requests)
  <2> HIDE DEF p
  <2> QED BY <1>2, <1>3, HandshakeTyped
<1>8. Requested
  <2> HIDE DEF p, hello, rest
  <2> DEFINE first == << hello, Plain("watch_lobby") >>
  <2>1. first \in Seq(Requests) /\ first # << >> /\ Head(first) = hello
    BY <1>4, PlainTyped, SeqOfTwo
  <2> HIDE DEF first
  <2>2. first \o rest \in Seq(Requests) /\ first \o rest # << >> /\ Head(first \o rest) = hello
    BY <1>6, <2>1, ConcatHead
  <2>3. up' = (first \o rest) \o Handshake(p)
    BY <1>3 DEF first
  <2>4. up' \in Seq(Requests) /\ up' # << >> /\ Head(up') = hello
    BY <1>7, <2>2, <2>3, ConcatHead
  <2> QED BY <1>4, <2>4 DEF Requested, Greeted
<1>9. conn' \in ConnState /\ conn' # NoConn
  <2>1. conn' \in ConnState
    BY DEF Opens, ConnState, MaybeWallet
  <2> QED BY <2>1, Nulls
<1>10. lobby' = lobby /\ paid' = paid /\ handlers' = handlers /\ down' = down
       /\ pours' = pours /\ Quiet /\ unsaid' = unsaid /\ troubles' = troubles
  BY DEF Opens, server, ending, Quiet
<1>11. Moves
  BY <1>10, Rests
<1>12. Values'
  BY <1>7, <1>9, <1>10 DEF Values, IInv, Quiet
<1>13. Handled
  BY <1>9, <1>10, <1>11, HandlersGo
<1>14. Informed
  BY <1>7, <1>10, <1>11, NothingSent
<1>15. Owned
  BY <1>7, <1>10, <1>11, OwnedStays
<1> QED BY <1>8, <1>11, <1>12, <1>13, <1>14, <1>15, Parts

LEMMA ReconnectStep == ASSUME IInv, Reconnects PROVE IInv'
<1>1. page' \in Page /\ page'.view = page.view /\ page'.config = page.config
  BY Known DEF Reconnects, Page
<1>2. Requested /\ paid' \subseteq Wallets /\ troubles' \in 0 .. MaxTroubles
  BY RequestsStay, TroubleTyped DEF Reconnects, IInv, Values
<1> QED BY <1>1, <1>2, PageStep DEF Reconnects

\* What the page makes of a message.
LEMMA AppliedTyped ==
  ASSUME NEW p \in Page, NEW m \in Messages
  PROVE  /\ Applied(p, m) \in Page
         /\ Applied(p, m).view = IF m.type = "lobby_state" THEN m.lobby ELSE p.view
         /\ Applied(p, m).config = IF m.type = "round_config" THEN m.wallet ELSE p.config
         /\ m.type = "round_config" => m.wallet \in Wallets /\ Entitled(m.wallet)
         /\ m.type = "lobby_state" => m.lobby \in LobbyState
<1>1. m \in PageMessage /\ (m.type = "round_config" => Entitled(m.wallet))
  BY DEF Messages
<1>2. CASE m.type = "lobby_state"
  <2>1. m.lobby \in LobbyState
    BY <1>1, <1>2 DEF PageMessage
  <2>2. Applied(p, m) = [ p EXCEPT !.view = m.lobby ]
    BY <1>2 DEF Applied
  <2> QED BY <1>2, <2>1, <2>2 DEF Page
<1>3. CASE m.type = "round_config"
  <2>1. m.wallet \in Wallets
    BY <1>1, <1>3 DEF PageMessage
  <2>2. Applied(p, m) = [ p EXCEPT !.config = m.wallet ]
    BY <1>3 DEF Applied
  <2> QED BY <1>1, <1>3, <2>1, <2>2 DEF Page, MaybeWallet
<1>4. CASE m.type = "pour_result"
  <2>1. m.wallet \in Wallets
    BY <1>1, <1>4 DEF PageMessage
  <2>2. Applied(p, m) = [ p EXCEPT !.result = m.wallet ]
    BY <1>4 DEF Applied
  <2> QED BY <1>4, <2>1, <2>2 DEF Page, MaybeWallet
<1>5. CASE m.type = "settled"
  <2>1. Applied(p, m) = [ p EXCEPT !.settled = TRUE ]
    BY <1>5 DEF Applied
  <2> QED BY <1>5, <2>1 DEF Page
<1> QED BY <1>1, <1>2, <1>3, <1>4, <1>5 DEF PageMessage

LEMMA ReceiveStep == ASSUME IInv, Receives PROVE IInv'
<1>1. down # << >> /\ page' = Applied(page, Head(down)) /\ down' = Tail(down)
  BY DEF Receives
<1>2. Head(down) \in Messages
  BY <1>1, Known, HeadTailProperties
<1>3. /\ page' \in Page
      /\ page'.view = IF Head(down).type = "lobby_state" THEN Head(down).lobby ELSE page.view
      /\ page'.config = page.config \/ (page'.config \in Wallets /\ Entitled(page'.config))
  BY <1>1, <1>2, Known, AppliedTyped
<1>4. up' = up /\ conn' = conn /\ lobby' = lobby /\ pours' = pours /\ handlers' = handlers
      /\ Quiet /\ unsaid' = unsaid /\ paid' = paid /\ troubles' = troubles
  BY DEF Receives, server, ending, Quiet
<1>5. Moves
  BY <1>4, Rests
<1>6. Values'
  BY <1>3, <1>4 DEF Values, IInv, Quiet
<1>7. Informed
  BY <1>1, <1>3, <1>4, FirstRead
<1>8. Requested /\ Handled
  BY <1>4, <1>5, RequestsStay, HandlersGo
<1>9. SeatsPaid'
  BY <1>4 DEF IInv, SeatsPaid
<1>10. page'.config # NoWallet => page'.config \in paid' /\ lobby'.players[page'.config] # "none"
  BY <1>3, <1>4 DEF IInv, Entitled
<1> QED BY <1>5, <1>6, <1>7, <1>8, <1>9, <1>10, Parts DEF Owned, Entitled

-----------------------------------------------------------------------------
(* The gateway *)

\* A connection that has joined or watches is still the same.
LEMMA ConnTyped ==
  ASSUME NEW c \in ConnState
  PROVE  /\ [ c EXCEPT !.joined = TRUE, !.watching = TRUE ] \in ConnState
         /\ [ c EXCEPT !.joined = TRUE, !.watching = TRUE ].wallet = c.wallet
         /\ [ c EXCEPT !.watching = TRUE ] \in ConnState
         /\ [ c EXCEPT !.watching = TRUE ].wallet = c.wallet
BY DEF ConnState

LEMMA ConnThere == ASSUME NEW c \in ConnState PROVE c # NoConn
BY Nulls

LEMMA HelloStep == ASSUME IInv, Hello PROVE IInv'
<1>1. /\ conn \in ConnState /\ conn # NoConn
      /\ Head(up) \in Requests /\ Head(up).type = "hello" /\ up' \in Seq(Requests)
  BY FirstRequest DEF Hello
<1>2. Head(up).wallet \in Wallets
  BY <1>1 DEF Requests
<1>3. conn' \in ConnState /\ conn'.wallet \in Wallets
  BY <1>1, <1>2 DEF Hello, ConnState, MaybeWallet
<1>4. page' = page /\ down' = down /\ UNCHANGED server /\ paid' = paid /\ troubles' = troubles
  BY DEF Hello
<1>5. Moves
  BY <1>4, Rests DEF server, ending, Quiet
<1>6. Values'
  BY <1>3, <1>4 DEF Values, IInv, server, ending
<1>7. Requested
  BY <1>1, <1>3 DEF Requested, Greeted
<1>8. Handled
  BY <1>3, <1>4, <1>5, ConnThere, HandlersGo DEF server
<1>9. Informed /\ Owned
  BY <1>4, <1>5, NothingSent, OwnedStays DEF server
<1> QED BY <1>5, <1>6, <1>7, <1>8, <1>9, Parts

LEMMA WatchStep == ASSUME IInv, WatchLobby PROVE IInv'
<1>1. conn \in ConnState /\ conn # NoConn
  BY FirstRequest DEF WatchLobby
<1>2. Requested
  BY RequestRead DEF WatchLobby
<1>3. conn' \in ConnState
  BY <1>1, ConnTyped DEF WatchLobby
<1>4. /\ page' = page /\ lobby' = lobby /\ pours' = pours /\ handlers' = handlers
      /\ Quiet /\ unsaid' = FALSE /\ paid' = paid /\ troubles' = troubles
  BY DEF WatchLobby, Quiet
<1>5. Moves
  BY <1>4, Rests
<1>6. Values'
  BY <1>3, <1>4 DEF Values, IInv, Quiet
<1>7. Handled
  BY <1>3, <1>4, <1>5, ConnThere, HandlersGo
<1>8. << StateMessage(lobby) >> \in Seq(News')
  BY <1>4, StateIsNews, SeqOfOne
<1>9. down' = down \o << StateMessage(lobby) >>
  BY DEF WatchLobby, Greeting
<1>10. Informed
  BY <1>4, <1>5, <1>8, <1>9, NewsSent
<1>11. Owned
  BY <1>4, <1>5, OwnedStays
<1> QED BY <1>2, <1>5, <1>6, <1>7, <1>10, <1>11, Parts

\* A handler that has no seat to promise.
LEMMA HandlerTyped ==
  ASSUME NEW step \in {"confirm", "report", "result"}, NEW w \in Wallets, NEW sig \in MaybeSig,
         NEW connected \in BOOLEAN, connected => conn' # NoConn
  PROVE  [ step |-> step, wallet |-> w, sig |-> sig, connected |-> connected ] \in Handlers'
BY DEF Handlers, Handler

\* A seat is held by one who has paid.
LEMMA SeatedEntitled ==
  ASSUME IInv, NEW w \in Wallets, lobby.players[w] # "none"
  PROVE  w \in paid
BY DEF IInv, SeatsPaid

LEMMA JoinStep == ASSUME IInv, JoinLobby PROVE IInv'
<1>1. /\ conn \in ConnState /\ conn # NoConn /\ conn.wallet \in Wallets
      /\ Head(up) \in Requests
  BY FirstRequest DEF JoinLobby
<1>2. Head(up).sig \in MaybeSig
  BY <1>1 DEF Requests, ClientMessage
<1>3. /\ page' = page /\ lobby' = lobby /\ pours' = pours /\ UNCHANGED ending
      /\ paid' = paid /\ troubles' = troubles
  BY DEF JoinLobby
<1>4. Moves
  BY <1>3, Rests DEF ending, Quiet
<1>5. \/ /\ lobby.players[conn.wallet] # "none"
         /\ conn' = [ conn EXCEPT !.joined = TRUE, !.watching = TRUE ]
         /\ down' = down \o RoundConfig(conn.wallet)
         /\ handlers' = handlers
      \/ /\ Await("confirm", conn.wallet, Head(up).sig, TRUE)
         /\ conn' = conn /\ down' = down
      \/ conn' = conn /\ down' = down /\ handlers' = handlers
  BY DEF JoinLobby
<1>6. Requested
  BY <1>5, RequestRead DEF JoinLobby
<1>7. conn' \in ConnState
  BY <1>1, <1>5, ConnTyped
<1>8. Values'
  BY <1>3, <1>7 DEF Values, IInv, ending
<1>9. Handled
  <2>1. CASE handlers' = handlers
    BY <1>4, <1>7, <2>1, ConnThere, HandlersGo
  <2>2. CASE Await("confirm", conn.wallet, Head(up).sig, TRUE) /\ conn' = conn
    <3>1. [ step |-> "confirm", wallet |-> conn.wallet, sig |-> Head(up).sig,
            connected |-> TRUE ] \in Handlers'
      BY <1>1, <1>2, <2>2, HandlerTyped
    <3> QED BY <1>4, <2>2, <3>1, HandlerStarts DEF Await
  <2> QED BY <1>5, <2>1, <2>2
<1>10. Informed
  <2>1. CASE down' = down
    BY <1>3, <1>4, <2>1, NothingSent
  <2>2. CASE lobby.players[conn.wallet] # "none" /\ down' = down \o RoundConfig(conn.wallet)
    <3>1. RoundConfig(conn.wallet) \in Seq(News')
      BY <1>1, <1>3, <2>2, SeatedEntitled, RoundIsNews
    <3> QED BY <1>3, <1>4, <2>2, <3>1, NewsSent
  <2> QED BY <1>5, <2>1, <2>2
<1>11. Owned
  BY <1>3, <1>4, OwnedStays
<1> QED BY <1>4, <1>6, <1>8, <1>9, <1>10, <1>11, Parts

LEMMA PourStartStep == ASSUME IInv, PourStarts PROVE IInv'
<1>1. conn.wallet \in Wallets
  BY FirstRequest DEF PourStarts
<1>2. /\ page' = page /\ down' = down /\ conn' = conn /\ lobby' = lobby /\ handlers' = handlers
      /\ UNCHANGED ending /\ paid' = paid /\ troubles' = troubles
  BY DEF PourStarts
<1>3. Moves
  BY <1>2, Rests DEF ending, Quiet
<1>4. Values'
  BY <1>1, <1>2 DEF Values, IInv, ending, PourStarts
<1>5. Requested
  BY <1>2, RequestRead DEF PourStarts
<1>6. Handled /\ Informed /\ Owned
  BY <1>2, <1>3, HandlersGo, NothingSent, OwnedStays
<1> QED BY <1>3, <1>4, <1>5, <1>6, Parts

\* A player's result is recorded, by the gateway or the timer.
LEMMA Recording ==
  ASSUME IInv, NEW w \in Wallets, MayRecord(w), NEW connected \in BOOLEAN,
         connected => conn # NoConn,
         lobby' = [ lobby EXCEPT !.players[w] = "done" ], Await("report", w, NoSig, connected),
         conn' = conn, Quiet, paid' = paid, page' = page, down' = down
  PROVE  /\ Moves /\ Handled /\ Informed /\ Owned
<1>1. lobby.players[w] = "playing"
  BY DEF MayRecord
<1>2. Moves
  BY <1>1, PlayerMoves
<1>3. [ step |-> "report", wallet |-> w, sig |-> NoSig, connected |-> connected ] \in Handlers'
  BY HandlerTyped DEF MaybeSig
<1>4. Handled
  BY <1>2, <1>3, HandlerStarts DEF Await
<1>5. w \in paid
  BY <1>1, SeatedEntitled
<1>6. \A v \in Wallets : lobby'.players[v] # "none" => lobby.players[v] # "none" \/ v \in paid
  BY <1>5, Known DEF LobbyState
<1> QED BY <1>2, <1>4, <1>6, NothingSent, OwnedStays

LEMMA PourStopStep == ASSUME IInv, PourStops PROVE IInv'
<1>1. conn \in ConnState /\ conn # NoConn /\ conn.wallet \in Wallets
  BY FirstRequest DEF PourStops
<1>2. /\ page' = page /\ down' = down /\ conn' = conn /\ UNCHANGED ending /\ paid' = paid
      /\ troubles' = troubles /\ pours' \subseteq pours
  BY DEF PourStops
<1>3. Requested
  BY <1>2, RequestRead DEF PourStops
<1>4. \/ /\ MayRecord(conn.wallet)
         /\ lobby' = [ lobby EXCEPT !.players[conn.wallet] = "done" ]
         /\ Await("report", conn.wallet, NoSig, TRUE)
      \/ lobby' = lobby /\ handlers' = handlers
  BY DEF PourStops
<1>5. Moves /\ Handled /\ Informed /\ Owned
  <2>1. CASE lobby' = lobby /\ handlers' = handlers
    BY <1>2, <2>1, Rests, HandlersGo, NothingSent, OwnedStays DEF ending, Quiet
  <2>2. CASE lobby' # lobby \/ handlers' # handlers
    BY <1>1, <1>2, <1>4, <2>2, Recording DEF ending, Quiet
  <2> QED BY <2>1, <2>2
<1>6. Values'
  BY <1>2, <1>5 DEF Values, IInv, Moves, ending
<1> QED BY <1>3, <1>5, <1>6, Parts

-----------------------------------------------------------------------------
(* The manager *)

LEMMA TimerStep == ASSUME IInv, NEW w \in Wallets, TimerFires(w) PROVE IInv'
<1>1. /\ MayRecord(w) /\ lobby' = [ lobby EXCEPT !.players[w] = "done" ]
      /\ pours' \subseteq pours /\ Await("report", w, NoSig, FALSE)
      /\ page' = page /\ up' = up /\ down' = down /\ conn' = conn /\ UNCHANGED ending
      /\ paid' = paid /\ troubles' = troubles
  BY DEF TimerFires
<1>2. Moves /\ Handled /\ Informed /\ Owned
  BY <1>1, Recording DEF ending, Quiet
<1>3. Requested
  BY <1>1, RequestsStay
<1>4. Values'
  BY <1>1, <1>2 DEF Values, IInv, Moves, ending
<1> QED BY <1>2, <1>3, <1>4, Parts

\* What is known of a handler that goes on.
LEMMA HandlerKnown ==
  ASSUME IInv, NEW k \in DOMAIN handlers
  PROVE  /\ handlers[k].wallet \in Wallets
         /\ handlers[k].connected => conn \in ConnState /\ conn # NoConn
         /\ handlers[k].step = "join saved" =>
              handlers[k].wallet \in paid /\ lobby.players[handlers[k].wallet] # "none"
<1>1. handlers[k] \in Handlers
  BY Known
<1>2. handlers[k].connected => conn # NoConn
  BY <1>1 DEF Handlers
<1>3. handlers[k].connected => conn \in ConnState
  BY <1>2, Known
<1> QED BY <1>1, <1>2, <1>3 DEF Handlers, Handler, Entitled

\* The answer to a join: the connection has joined, the round goes out.
LEMMA RoundAnswered ==
  ASSUME IInv, NEW k \in DOMAIN handlers,
         lobby' = lobby, paid' = paid, page' = page, pours' = pours, Quiet, unsaid' \in BOOLEAN,
         troubles' = troubles, up' = up,
         handlers' = RemoveAt(handlers, k),
         conn' = IF handlers[k].connected
                 THEN [ conn EXCEPT !.joined = TRUE, !.watching = TRUE ] ELSE conn,
         Informed
  PROVE  IInv'
<1>1. Moves
  BY Rests
<1>2. handlers[k].connected => /\ conn \in ConnState /\ conn # NoConn
                               /\ conn' \in ConnState /\ conn'.wallet = conn.wallet
  BY HandlerKnown, ConnTyped
<1>3. ~ handlers[k].connected => conn' = conn
  OBVIOUS
<1>4. Requested
  BY <1>2, <1>3, RequestsStay
<1>5. Handled
  BY <1>1, <1>2, <1>3, ConnThere, HandlersGo
<1>6. Owned
  BY <1>1, OwnedStays
<1>7. Values'
  BY <1>2, <1>3 DEF Values, IInv, Quiet
<1> QED BY <1>1, <1>4, <1>5, <1>6, <1>7, Parts

\* What is sent if there is a connection to send it on.
LEMMA AnswersTyped ==
  ASSUME NEW S, NEW h, NEW msgs \in Seq(S)
  PROVE  Answers(h, msgs) \in Seq(S)
BY EmptySeq DEF Answers

LEMMA JoinConfirmedStep ==
  ASSUME IInv, NEW k \in DOMAIN handlers, JoinConfirmed(k)
  PROVE  IInv'
<1> DEFINE w == handlers[k].wallet
<1>1. w \in Wallets /\ w \in paid
  BY HandlerKnown DEF JoinConfirmed, Confirmed
<1>2. /\ page' = page /\ up' = up /\ pours' = pours /\ Quiet /\ unsaid' = unsaid
      /\ paid' = paid /\ troubles' = troubles /\ unsaid \in BOOLEAN
  BY DEF JoinConfirmed, ending, Quiet, IInv, Values
<1>3. CASE lobby.players[w] = "none"
  <2>1. /\ lobby' = [ lobby EXCEPT !.players[w] = "playing" ]
        /\ handlers' = [ handlers EXCEPT ![k].step = "join saved" ]
        /\ conn' = conn /\ down' = down
    BY <1>3 DEF JoinConfirmed
  <2>2. Moves
    BY <1>1, <1>2, <1>3, <2>1, PlayerMoves
  <2>3. lobby'.players[w] = "playing"
        /\ \A v \in Wallets : lobby'.players[v] # "none" => lobby.players[v] # "none" \/ v \in paid
    BY <1>1, <2>1, Known DEF LobbyState
  <2>4. Handled
    BY <1>1, <1>2, <2>1, <2>2, <2>3, HandlerMovesOn
  <2>5. Informed /\ Owned /\ Requested
    BY <1>2, <2>1, <2>2, <2>3, NothingSent, OwnedStays, RequestsStay
  <2>6. Values'
    BY <1>2, <2>1, <2>2 DEF Values, IInv, Moves, Quiet
  <2> QED BY <2>2, <2>4, <2>5, <2>6, Parts
<1>4. CASE lobby.players[w] # "none"
  <2>1. /\ handlers' = RemoveAt(handlers, k)
        /\ conn' = IF handlers[k].connected
                   THEN [ conn EXCEPT !.joined = TRUE, !.watching = TRUE ] ELSE conn
        /\ down' = down \o Answers(handlers[k], RoundConfig(w))
        /\ lobby' = lobby
    BY <1>4 DEF JoinConfirmed
  <2>2. Answers(handlers[k], RoundConfig(w)) \in Seq(News')
    BY <1>1, <1>2, <1>4, <2>1, RoundIsNews, AnswersTyped
  <2>3. Informed
    BY <1>2, <2>1, <2>2, Rests, NewsSent
  <2> QED BY <1>2, <2>1, <2>3, RoundAnswered
<1> QED BY <1>3, <1>4

LEMMA JoinRefusedStep ==
  ASSUME IInv, NEW k \in DOMAIN handlers, JoinRefused(k)
  PROVE  IInv'
<1>1. /\ handlers' = RemoveAt(handlers, k)
      /\ page' = page /\ up' = up /\ down' = down /\ conn' = conn /\ lobby' = lobby
      /\ pours' = pours /\ UNCHANGED ending /\ paid' = paid /\ troubles' = troubles
  BY DEF JoinRefused
<1>2. Moves
  BY <1>1, Rests DEF ending, Quiet
<1>3. Requested /\ Handled /\ Informed /\ Owned
  BY <1>1, <1>2, RequestsStay, HandlersGo, NothingSent, OwnedStays
<1>4. Values'
  BY <1>1 DEF Values, IInv, ending
<1> QED BY <1>2, <1>3, <1>4, Parts

LEMMA JoinSavedStep ==
  ASSUME IInv, NEW k \in DOMAIN handlers, JoinSaved(k)
  PROVE  IInv'
<1> DEFINE w == handlers[k].wallet
           state == IF Subscribed THEN << StateMessage(lobby) >> ELSE << >>
           answer == Answers(handlers[k], RoundConfig(w))
<1>1. w \in Wallets /\ w \in paid /\ lobby.players[w] # "none"
  BY HandlerKnown DEF JoinSaved
<1>2. /\ handlers' = RemoveAt(handlers, k)
      /\ conn' = IF handlers[k].connected
                 THEN [ conn EXCEPT !.joined = TRUE, !.watching = TRUE ] ELSE conn
      /\ down' = Broadcast(<< StateMessage(lobby) >>) \o answer
      /\ page' = page /\ up' = up /\ lobby' = lobby /\ pours' = pours /\ Quiet /\ unsaid' = FALSE
      /\ paid' = paid /\ troubles' = troubles
  BY DEF JoinSaved, Quiet
<1>3. state \in Seq(News') /\ answer \in Seq(News')
  BY <1>1, <1>2, StateIsNews, SeqOfOne, EmptySeq, RoundIsNews, AnswersTyped
<1>4. Moves
  BY <1>2, Rests
<1>5. down \in Seq(Messages') /\ state \in Seq(Messages') /\ answer \in Seq(Messages')
  <2>1. Messages \subseteq Messages' /\ News' \subseteq Messages'
    BY <1>4, MessagesStay DEF News
  <2> QED BY <1>3, <2>1, Known, SeqMonotonic
<1> HIDE DEF answer
<1>6. Broadcast(<< StateMessage(lobby) >>) = down \o state
  BY Known, ConcatEmptySeq DEF Broadcast
<1> HIDE DEF state
<1>7. down' = down \o (state \o answer)
  <2>1. down' = (down \o state) \o answer
    BY <1>2, <1>6
  <2>2. (down \o state) \o answer = down \o (state \o answer)
    BY <1>5, ConcatAssociative
  <2> QED BY <2>1, <2>2
<1>8. state \o answer \in Seq(News')
  BY <1>3, ConcatProperties
<1>9. Informed
  BY <1>2, <1>4, <1>7, <1>8, NewsSent
<1> QED BY <1>2, <1>9, RoundAnswered

LEMMA ReportedStep ==
  ASSUME IInv, NEW k \in DOMAIN handlers, Reported(k)
  PROVE  IInv'
<1>1. /\ handlers' = [ handlers EXCEPT ![k].step = "result" ]
      /\ down' = Broadcast(<< StateMessage(lobby) >>)
      /\ page' = page /\ up' = up /\ conn' = conn /\ lobby' = lobby
      /\ pours' = pours /\ Quiet /\ unsaid' = FALSE /\ paid' = paid /\ troubles' = troubles
  BY DEF Reported, Quiet
<1>2. Moves
  BY <1>1, Rests
<1>3. Requested /\ Handled /\ Owned
  BY <1>1, <1>2, RequestsStay, HandlerMovesOn, OwnedStays
<1>4. Informed
  BY <1>1, <1>2, StateIsNews, SeqOfOne, NewsBroadcast
<1>5. Values'
  BY <1>1 DEF Values, IInv, Quiet
<1> QED BY <1>2, <1>3, <1>4, <1>5, Parts

LEMMA ResultSentStep ==
  ASSUME IInv, NEW k \in DOMAIN handlers, ResultSent(k)
  PROVE  IInv'
<1> DEFINE msgs == << [ type |-> "pour_result", wallet |-> handlers[k].wallet ] >>
<1>1. /\ handlers' = RemoveAt(handlers, k)
      /\ down' = down \o Answers(handlers[k], msgs)
      /\ page' = page /\ up' = up /\ conn' = conn /\ lobby' = lobby
      /\ pours' = pours /\ UNCHANGED ending /\ paid' = paid /\ troubles' = troubles
  BY DEF ResultSent
<1>2. Moves
  BY <1>1, Rests DEF ending, Quiet
<1>3. Requested /\ Handled /\ Owned
  BY <1>1, <1>2, RequestsStay, HandlersGo, OwnedStays
<1>4. Answers(handlers[k], msgs) \in Seq(News')
  BY HandlerKnown, ResultIsNews, AnswersTyped
<1>5. Informed
  BY <1>1, <1>2, <1>4, NewsSent
<1>6. Values'
  BY <1>1 DEF Values, IInv, ending
<1> QED BY <1>2, <1>3, <1>5, <1>6, Parts

-----------------------------------------------------------------------------
(* The rest of the server *)

\* A rejected save ends its handler.
LEMMA HandlerFailsStep ==
  ASSUME IInv, NEW k \in DOMAIN handlers, HandlerFails(k)
  PROVE  IInv'
<1>1. /\ handlers' = RemoveAt(handlers, k) /\ Trouble /\ unsaid' \in BOOLEAN
      /\ page' = page /\ up' = up /\ down' = down /\ conn' = conn /\ lobby' = lobby
      /\ pours' = pours /\ Quiet /\ paid' = paid
  BY DEF HandlerFails, Quiet, IInv, Values
<1>2. Moves
  BY <1>1, Rests
<1>3. Requested /\ Handled /\ Informed /\ Owned
  BY <1>1, <1>2, RequestsStay, HandlersGo, NothingSent, OwnedStays
<1>4. Values'
  BY <1>1, TroubleTyped DEF Values, IInv, Quiet
<1> QED BY <1>2, <1>3, <1>4, Parts

\* What the lobby's own steps leave alone.
LEMMA TurningAlone ==
  ASSUME IInv, Turning
  PROVE  /\ page' = page /\ up' = up /\ down' = down /\ conn' = conn /\ pours' = pours
         /\ handlers' = handlers /\ paid' = paid
         /\ lobby' \in LobbyState /\ lobby'.players = lobby.players
         /\ tasks' \subseteq Tasks /\ ended' \in {"no", "settled", "cancelled"}
         /\ unsaid' \in BOOLEAN /\ troubles' \in 0 .. MaxTroubles
<1>1. /\ lobby \in LobbyState /\ tasks \subseteq Tasks /\ unsaid \in BOOLEAN
      /\ ended \in {"no", "settled", "cancelled"}
  BY DEF IInv, Values
<1>2. Trouble \/ troubles' = troubles
  BY DEF Turning, RoundOpens, SettleStarts, SettleReturns, SettleFails, CancelLands,
         CancelUnnoticed, CancelReturns, SaveFails
<1>3. troubles' \in 0 .. MaxTroubles
  BY <1>2, TroubleTyped
<1>4. CASE RoundOpens \/ SettleStarts
  BY <1>1, <1>3, <1>4 DEF RoundOpens, SettleStarts, Turns, LobbyState, Tasks, Saves
<1>5. CASE SettleReturns \/ SettleFails
  BY <1>1, <1>3, <1>5 DEF SettleReturns, SettleFails, Turns, LobbyState, Tasks, Saves
<1>6. CASE CancelLands \/ CancelUnnoticed
  BY <1>1, <1>3, <1>6 DEF CancelLands, CancelUnnoticed, Tasks
<1>7. CASE CancelReturns
  BY <1>1, <1>3, <1>7 DEF CancelReturns, Turns, LobbyState, Tasks, Saves
<1>8. CASE \E task \in Saves : SaveFails(task)
  BY <1>1, <1>3, <1>8 DEF SaveFails
<1> QED BY <1>4, <1>5, <1>6, <1>7, <1>8 DEF Turning

\* The lobby moves only forwards, or from cancelled to open.
LEMMA TurningMoves == ASSUME IInv, Turning PROVE Moves
<1>1. lobby \in LobbyState /\ Ending
  BY DEF IInv, Values
<1>2. lobby' \in LobbyState /\ lobby'.players = lobby.players /\ paid' = paid
  BY TurningAlone
<1> DEFINE Rest == /\ lobby'.status = "cancelled" => lobby.status = "cancelled" \/ "cancel" \in tasks
                   /\ lobby.status = "settled" => lobby'.status = "settled"
                   /\ lobby.status # "awaiting_randomness" => lobby'.status # "awaiting_randomness"
                   /\ ended # "no" => ended' = ended
                   /\ "cancel" \in tasks' => "cancel" \in tasks \/ ended = "no"
<1>3. ASSUME Ending', Rest PROVE Moves
  BY <1>2, <1>3 DEF Moves, Follows
<1>4. CASE RoundOpens
  <2>1. lobby.status = "awaiting_randomness" /\ lobby'.status = "open"
        /\ tasks' = tasks \cup {"opened"} /\ ended' = ended
    BY <1>1, <1>4 DEF RoundOpens, Turns, LobbyState
  <2> QED BY <1>1, <1>3, <2>1 DEF Ending, Truthful
<1>5. CASE SettleStarts
  <2>1. lobby.status = "open" /\ lobby'.status = "settling"
        /\ tasks' = tasks \cup {"settling"} /\ ended' = ended
    BY <1>1, <1>5 DEF SettleStarts, Turns, LobbyState
  <2> QED BY <1>1, <1>3, <2>1 DEF Ending, Truthful
<1>6. CASE SettleReturns
  <2>1. lobby'.status = "settled" /\ "settle" \in tasks
        /\ tasks' = (tasks \ {"settle"}) \cup {"settled"} /\ ended = "no" /\ ended' = "settled"
    BY <1>1, <1>6 DEF SettleReturns, Turns, LobbyState
  <2> QED BY <1>1, <1>3, <2>1 DEF Ending, Truthful
<1>7. CASE SettleFails
  <2>1. lobby'.status = "open" /\ "settle" \in tasks /\ tasks' = tasks \ {"settle"}
        /\ (ended # "no" => ended' = ended)
    BY <1>1, <1>7 DEF SettleFails, Tried, Turns, LobbyState
  <2> QED BY <1>1, <1>3, <2>1 DEF Ending, Truthful
<1>8. CASE CancelLands
  <2>1. lobby' = lobby /\ tasks' = tasks \cup {"cancel"} /\ ended = "no" /\ ended' = "cancelled"
    BY <1>8 DEF CancelLands
  <2> QED BY <1>1, <1>3, <2>1 DEF Ending, Truthful
<1>9. CASE CancelUnnoticed
  <2>1. lobby' = lobby /\ tasks' = tasks /\ ended = "no" /\ ended' = "cancelled"
    BY <1>9 DEF CancelUnnoticed
  <2> QED BY <1>1, <1>3, <2>1 DEF Ending, Truthful
<1>10. CASE CancelReturns
  <2>1. lobby'.status = "cancelled" /\ "cancel" \in tasks
        /\ tasks' = (tasks \ {"cancel"}) \cup {"cancelled"} /\ ended' = ended
    BY <1>1, <1>10 DEF CancelReturns, Turns, LobbyState
  <2> QED BY <1>1, <1>3, <2>1 DEF Ending, Truthful
<1>11. CASE \E task \in Saves : SaveFails(task)
  <2>1. lobby' = lobby /\ tasks' \subseteq tasks /\ ended' = ended
    BY <1>11 DEF SaveFails
  <2> QED BY <1>1, <1>3, <2>1 DEF Ending, Truthful
<1> QED BY <1>4, <1>5, <1>6, <1>7, <1>8, <1>9, <1>10, <1>11 DEF Turning

LEMMA TurningSteps == ASSUME IInv, Turning PROVE IInv'
<1>1. Moves
  BY TurningMoves
<1>2. Requested /\ Handled /\ Informed /\ Owned
  BY <1>1, TurningAlone, RequestsStay, HandlersGo, NothingSent, OwnedStays
<1>3. Values'
  BY TurningAlone DEF Values, IInv
<1> QED BY <1>1, <1>2, <1>3, Parts

LEMMA AnnounceSteps == ASSUME IInv, Announces PROVE IInv'
<1>1. /\ page' = page /\ up' = up /\ conn' = conn /\ lobby' = lobby /\ pours' = pours
      /\ handlers' = handlers /\ paid' = paid /\ troubles' = troubles
      /\ ended' = ended /\ unsaid' = FALSE
  BY DEF Announces, EmitUpdate, EmitSettled
<1>2. /\ tasks' \subseteq tasks \cup {"settle"}
      /\ "settle" \in tasks' => \/ "settle" \in tasks /\ ("settling" \in tasks' => "settling" \in tasks)
                                \/ "settling" \in tasks /\ "settling" \notin tasks'
  BY DEF Announces, EmitUpdate, EmitSettled
<1>3. Moves
  <2>1. Ending'
    BY <1>1, <1>2 DEF IInv, Ending, Truthful
  <2>2. "cancel" \in tasks' => "cancel" \in tasks
    BY <1>2
  <2> QED BY <1>1, <2>1, <2>2, FollowsItself, Known DEF Moves
<1>4. \/ down' = Broadcast(<< StateMessage(lobby) >>)
      \/ down' = Broadcast(<< StateMessage(lobby), [ type |-> "settled" ] >>)
  BY DEF Announces, EmitUpdate, EmitSettled
<1>5. StateMessage(lobby) \in News'
  <2>1. StateMessage(lobby) \in PageMessage
    BY Known DEF StateMessage, PageMessage
  <2>2. Follows(lobby', lobby) /\ Truthful(lobby)'
    BY <1>3 DEF Moves, Ending
  <2> QED BY <1>1, <2>1, <2>2 DEF StateMessage, News, Messages, Truthful
<1>6. /\ << StateMessage(lobby) >> \in Seq(News')
      /\ << StateMessage(lobby), [ type |-> "settled" ] >> \in Seq(News')
  BY <1>5, SettledIsNews, SeqOfOne, SeqOfTwo
<1>7. Informed
  BY <1>1, <1>3, <1>4, <1>6, NewsBroadcast
<1>8. Requested /\ Handled /\ Owned
  BY <1>1, <1>3, RequestsStay, HandlersGo, OwnedStays
<1>9. Values'
  <2>1. tasks' \subseteq Tasks
    BY <1>2 DEF IInv, Values, Tasks
  <2> QED BY <1>1, <2>1 DEF Values, IInv
<1> QED BY <1>3, <1>7, <1>8, <1>9, Parts

-----------------------------------------------------------------------------
(* The theorems *)

LEMMA PageStarts == Init => IInv
<1> SUFFICES ASSUME Init PROVE IInv
  OBVIOUS
<1>1. page \in Page
  <2>1. PICK w \in Wallets :
          page = [ wallet |-> w, token |-> NoWallet, loginFor |-> NoWallet,
                   joinSig |-> NoSig, payingFor |-> NoWallet, joinTx |-> NoSig,
                   status |-> "idle", view |-> NoView, config |-> NoWallet, result |-> NoWallet,
                   settled |-> FALSE, pouring |-> FALSE, localLocked |-> FALSE,
                   expired |-> FALSE ]
    BY DEF Init
  <2> QED BY <2>1 DEF Page, MaybeWallet, MaybeSig
<1>2. lobby \in LobbyState /\ \A w \in Wallets : lobby.players[w] = "none"
  BY DEF Init, LobbyState
<1>3. Values
  <2>1. 0 \in 0 .. MaxTroubles
    BY PageBounds
  <2> QED BY <1>1, <1>2, <2>1 DEF Init, Values
<1>4. /\ up \in Seq(Requests) /\ handlers \in Seq(Handlers) /\ down \in Seq(Messages)
      /\ States(down) = {}
  BY EmptySeq DEF Init, States
<1>5. Greeted /\ ViewBehind /\ Ending /\ page.config = NoWallet
  BY DEF Init, Greeted, ViewBehind, Ending, Truthful
<1> QED BY <1>2, <1>3, <1>4, <1>5 DEF IInv, Ordered, SeatsPaid

LEMMA PageKeeps == ASSUME IInv, [Next]_vars PROVE IInv'
<1>1. CASE Free
  <2>1. ASSUME NEW k \in DOMAIN handlers, JoinRefused(k)
        PROVE  IInv'
    BY <2>1, JoinRefusedStep
  <2>2. ASSUME NEW k \in DOMAIN handlers, HandlerFails(k)
        PROVE  IInv'
    BY <2>2, HandlerFailsStep
  <2> QED BY <1>1, <2>1, <2>2, LoginSteps, PaySteps, PourSteps, ConnectionEnds, TurningSteps
          DEF Free
<1>2. CASE Hook
  BY <1>2, ConnectionOpens, ReconnectStep, ReceiveStep DEF Hook
<1>3. CASE Gateway
  BY <1>3, HelloStep, WatchStep, JoinStep, PourStartStep, PourStopStep DEF Gateway
<1>4. CASE Manager
  BY <1>4, TimerStep, JoinConfirmedStep, JoinSavedStep, ReportedStep, ResultSentStep, AnnounceSteps
     DEF Manager
<1>5. CASE UNCHANGED vars
  <2>1. /\ page' = page /\ up' = up /\ down' = down /\ conn' = conn /\ UNCHANGED server
        /\ paid' = paid /\ troubles' = troubles
    BY <1>5 DEF vars, server, ending
  <2>2. Requested /\ page \in Page /\ paid \subseteq Wallets /\ troubles \in 0 .. MaxTroubles
    BY <2>1, RequestsStay DEF IInv, Values
  <2> QED BY <2>1, <2>2, PageStep
<1> QED BY <1>1, <1>2, <1>3, <1>4, <1>5 DEF Next

LEMMA Invariance == Spec => []IInv
BY PageStarts, PageKeeps, PTL DEF Spec

\* Page, connection, gateway and lobby hold what their types allow, over any
\* number of lost connections, wallet changes and failed calls.
THEOREM TypeCorrect == Spec => []TypeOK
<1>1. ASSUME IInv PROVE TypeOK
  <2>1. up \in Seq(ClientMessage)
    <3>1. Requests \subseteq ClientMessage
      BY DEF Requests
    <3> QED BY <1>1, <3>1, Known, SeqMonotonic
  <2>2. handlers \in Seq(Handler)
    <3>1. Handlers \subseteq Handler
      BY DEF Handlers
    <3> QED BY <1>1, <3>1, Known, SeqMonotonic
  <2> QED BY <1>1, <2>1, <2>2 DEF IInv, Values, TypeOK
<1>2. IInv => TypeOK
  BY <1>1
<1> QED BY <1>2, Invariance, PTL

\* Nobody sees target and pressure, or is about to, who has not paid on the
\* ledger and been seated: a stale connection, a repeated join or a wallet
\* change do not leak the round.
THEOREM RoundsForThosePaid == Spec => []RoundForPaid
<1>1. ASSUME IInv PROVE RoundForPaid
  <2>1. page.config # NoWallet => Entitled(page.config)
    BY <1>1 DEF IInv
  <2>2. ASSUME NEW k \in DOMAIN down, down[k].type = "round_config"
        PROVE  Entitled(down[k].wallet)
    BY <1>1, <2>2, Known DEF Messages
  <2> QED BY <2>1, <2>2 DEF RoundForPaid, Entitled
<1>2. IInv => RoundForPaid
  BY <1>1
<1> QED BY <1>2, Invariance, PTL

\* Only a message that came changes the state that is shown.
LEMMA ViewStep ==
  ASSUME IInv, [Next]_vars
  PROVE  \/ page'.view = page.view
         \/ /\ page'.view # NoView
            /\ page.view # NoView => Follows(page'.view, page.view)
<1>1. CASE Receives
  <2> DEFINE m == Head(down)
  <2>1. down # << >> /\ page' = Applied(page, m)
    BY <1>1 DEF Receives
  <2>2. m \in Messages /\ 1 \in DOMAIN down /\ m = down[1]
    BY <2>1, Known, HeadTailProperties, EmptySeq
  <2>3. CASE m.type = "lobby_state"
    <3>1. page'.view = m.lobby /\ m.lobby \in LobbyState
      BY <2>1, <2>2, <2>3, Known, AppliedTyped
    <3>2. page.view # NoView => Follows(m.lobby, page.view)
      BY <2>2, <2>3 DEF IInv, ViewBehind, States, After
    <3> QED BY <3>1, <3>2, Nulls
  <2>4. CASE m.type # "lobby_state"
    BY <2>1, <2>2, <2>4, Known, AppliedTyped
  <2> QED BY <2>3, <2>4
<1>2. CASE LoginStarts \/ LoginReturns \/ LoginFails
  BY <1>2, Known DEF LoginStarts, LoginReturns, LoginFails, Page
<1>3. CASE PayStarts \/ \E landed \in BOOLEAN : PayFails(landed)
  BY <1>3, Known DEF PayStarts, PayFails, Page
<1>4. ASSUME NEW succeeded \in BOOLEAN, PayReturns(succeeded)
      PROVE  page'.view = page.view
  BY <1>4, Known DEF PayReturns, AfterHandshake, Page
<1>5. CASE StartPour \/ EndPour \/ Expires
  BY <1>5, Known DEF StartPour, EndPour, Expires, Released, Page
<1>6. CASE Closes \/ Reconnects \/ \E w \in Wallets : SwitchWallet(w)
  BY <1>6, Known DEF Closes, Reconnects, SwitchWallet, Page
<1>7. CASE Opens
  BY <1>7, Known DEF Opens, AfterHandshake, Page
<1>8. ASSUME NEW k \in DOMAIN handlers, JoinRefused(k)
      PROVE  page' = page
  BY <1>8 DEF JoinRefused
<1>9. ASSUME NEW k \in DOMAIN handlers, HandlerFails(k)
      PROVE  page' = page
  BY <1>9 DEF HandlerFails
<1>10. CASE Turning
  BY <1>10, TurningAlone
<1>11. CASE Gateway
  BY <1>11 DEF Gateway, Hello, WatchLobby, JoinLobby, PourStarts, PourStops
<1>12. CASE Manager
  BY <1>12 DEF Manager, TimerFires, JoinConfirmed, JoinSaved, Reported, ResultSent,
               Announces, EmitUpdate, EmitSettled
<1>13. CASE UNCHANGED vars
  BY <1>13 DEF vars
<1> QED
  BY <1>1, <1>2, <1>3, <1>4, <1>5, <1>6, <1>7, <1>8, <1>9, <1>10, <1>11, <1>12, <1>13
     DEF Next, Free, Hook

\* An end is shown only as the ledger has it, a settled lobby, a result and a round
\* that were shown stay so, whatever is lost and however late a message comes; what
\* a page may see taken back is a cancellation the server itself takes back.
THEOREM NothingTakenBack == Spec => NeverBack
<1>1. ASSUME IInv, [Next]_vars
      PROVE  [ page.view # NoView =>
                 /\ page'.view # NoView
                 /\ page'.view.status \in {"settled", "cancelled"} => ended' = page'.view.status
                 /\ page.view.status = "settled" => page'.view.status = "settled"
                 /\ page.view.status # "awaiting_randomness" =>
                      page'.view.status # "awaiting_randomness"
                 /\ \A w \in Wallets :
                      page.view.players[w] = "done" => page'.view.players[w] = "done" ]_vars
  <2> SUFFICES ASSUME page.view # NoView
               PROVE  /\ page'.view # NoView /\ Follows(page'.view, page.view)
                      /\ page'.view.status \in {"settled", "cancelled"} => ended' = page'.view.status
    BY DEF Follows
  <2>1. page'.view # NoView /\ Follows(page'.view, page.view)
    BY <1>1, ViewStep, FollowsItself
  <2>2. Truthful(page.view)'
    BY <1>1, <2>1, PageKeeps DEF IInv, ViewBehind
  <2> QED BY <2>1, <2>2 DEF Truthful
<1> QED BY <1>1, Invariance, PTL DEF Spec, NeverBack

-----------------------------------------------------------------------------
(* News on its way *)

\* The page will show all it was about to show, or what has come of it.
SightsKept == \A v \in Sights \ {NoView} : \E u \in Sights' \ {NoView} : After(u, v)'

\* The end is still to be announced, or has been and is the one it was.
EndsKept ==
  lobby'.status \in {"settled", "cancelled"} =>
    lobby'.status \in tasks' \/ (lobby'.status = lobby.status /\ lobby.status \notin tasks)

\* The current state is on its way, or shown.
Told == lobby' \in Sights'

\* Reports under way go on.
ReportsKept == \A w \in Wallets : Reporting(w) => Reporting(w)'

\* A page that has been told everything misses nothing.
LEMMA NewsComplete ==
  ASSUME lobby' \in LobbyState, Asked' => conn'.watching /\ Told
  PROVE  NewsOnItsWay'
<1> SUFFICES ASSUME Asked' PROVE NewsOnItsWay'
  BY DEF NewsOnItsWay
<1>1. conn'.watching /\ lobby' \in Sights' \ {NoView}
  BY Nulls DEF Told
<1> QED BY <1>1 DEF NewsOnItsWay

\* The page is where it was, or is told, or whoever ended the lobby or recorded
\* a result is still to tell it.
LEMMA NewsKept ==
  ASSUME IInv, NewsOnItsWay, lobby' \in LobbyState,
         Asked' => Asked /\ conn'.watching,
         Asked' => SightsKept,
         Asked' => \/ unsaid' \/ Told
                   \/ /\ ~ unsaid /\ EndsKept /\ ReportsKept
                      /\ \A w \in Wallets :
                           lobby'.players[w] = "done" => lobby.players[w] = "done" \/ Reporting(w)'
  PROVE  NewsOnItsWay'
<1> SUFFICES ASSUME Asked', ~ unsaid' PROVE NewsOnItsWay'
  BY DEF NewsOnItsWay
<1>1. Told => lobby' \in Sights' \ {NoView}
  BY Nulls DEF Told
<1>2. ASSUME lobby'.status \in {"settled", "cancelled"}
      PROVE  lobby'.status \in tasks' \/ \E v \in Sights' \ {NoView} : v.status = lobby'.status
  <2>1. CASE Told
    BY <1>1, <2>1
  <2>2. CASE ~ unsaid /\ lobby'.status = lobby.status /\ lobby.status \notin tasks
    <3>1. PICK v \in Sights \ {NoView} : v.status = lobby.status
      BY <1>2, <2>2 DEF NewsOnItsWay
    <3>2. PICK u \in Sights' \ {NoView} : After(u, v)'
      BY <3>1 DEF SightsKept
    <3>3. u.status = lobby'.status
      BY <1>2, <2>2, <3>1, <3>2 DEF After, Follows
    <3> QED BY <3>2, <3>3
  <2> QED BY <1>2, <2>1, <2>2 DEF EndsKept
<1>3. ASSUME NEW w \in Wallets, lobby'.players[w] = "done"
      PROVE  Reporting(w)' \/ \E v \in Sights' \ {NoView} : v.players[w] = "done"
  <2>1. CASE Told
    BY <1>1, <1>3, <2>1
  <2>2. CASE ~ unsaid /\ lobby.players[w] = "done" /\ ~ Reporting(w)
    <3>1. PICK v \in Sights \ {NoView} : v.players[w] = "done"
      BY <2>2 DEF NewsOnItsWay
    <3>2. PICK u \in Sights' \ {NoView} : After(u, v)'
      BY <3>1 DEF SightsKept
    <3>3. u.players[w] = "done"
      BY <3>1, <3>2 DEF After, Follows
    <3> QED BY <3>2, <3>3
  <2>3. CASE ReportsKept /\ Reporting(w)
    BY <2>3 DEF ReportsKept
  <2> QED BY <1>3, <2>1, <2>2, <2>3
<1> QED BY <1>2, <1>3 DEF NewsOnItsWay

\* As long as the lobby's end rests.
LEMMA NewsRest ==
  ASSUME IInv, NewsOnItsWay, lobby' \in LobbyState, lobby'.status = lobby.status,
         UNCHANGED ending, Asked' => Asked /\ conn'.watching, SightsKept, ReportsKept,
         \A w \in Wallets :
           lobby'.players[w] = "done" => lobby.players[w] = "done" \/ Reporting(w)'
  PROVE  NewsOnItsWay'
<1>1. tasks' = tasks /\ unsaid' = unsaid
  BY DEF ending
<1>2. EndsKept
  BY <1>1 DEF EndsKept
<1> QED BY <1>1, <1>2, NewsKept

\* What is sent is added to what was on its way.
LEMMA SightsGrow ==
  ASSUME IInv, page'.view = page.view, NEW S, NEW msgs \in Seq(S), down' = down \o msgs
  PROVE  /\ SightsKept
         /\ \A i \in DOMAIN msgs : msgs[i].type = "lobby_state" => msgs[i].lobby \in Sights'
<1> DEFINE n == Len(down)
           T == Messages \cup S
<1>1. down \in Seq(T) /\ msgs \in Seq(T)
  BY Known, SeqMonotonic
<1>2. /\ down' \in Seq(T) /\ Len(down') = n + Len(msgs)
      /\ \A k \in 1 .. n + Len(msgs) : down'[k] = IF k =< n THEN down[k] ELSE msgs[k - n]
  BY <1>1, ConcatProperties
<1>3. n \in Nat /\ Len(msgs) \in Nat /\ DOMAIN down = 1 .. n /\ DOMAIN msgs = 1 .. Len(msgs)
      /\ DOMAIN down' = 1 .. n + Len(msgs)
  BY <1>1, <1>2, LenProperties
<1> HIDE DEF n, T
<1>4. ASSUME NEW k \in DOMAIN down
      PROVE  k \in DOMAIN down' /\ down'[k] = down[k]
  BY <1>2, <1>3
<1>5. ASSUME NEW i \in DOMAIN msgs
      PROVE  i + n \in DOMAIN down' /\ down'[i + n] = msgs[i]
  BY <1>2, <1>3
<1>6. Sights \subseteq Sights'
  BY <1>4 DEF Sights
<1>7. \A i \in DOMAIN msgs : msgs[i].type = "lobby_state" => msgs[i].lobby \in Sights'
  <2> SUFFICES ASSUME NEW i \in DOMAIN msgs, msgs[i].type = "lobby_state"
               PROVE  msgs[i].lobby \in Sights'
    OBVIOUS
  <2>1. i + n \in DOMAIN down' /\ down'[i + n] = msgs[i]
    BY <1>5
  <2> QED BY <2>1 DEF Sights
<1>8. ASSUME NEW v PROVE After(v, v)'
  BY DEF After, Follows
<1> QED BY <1>6, <1>7, <1>8 DEF SightsKept

LEMMA SightsRest ==
  ASSUME IInv, page'.view = page.view, down' = down
  PROVE  SightsKept
<1>1. ASSUME NEW v PROVE After(v, v)'
  BY DEF After, Follows
<1> QED BY <1>1 DEF Sights, SightsKept

\* A broadcast reaches a connection that watches.
LEMMA Broadcasts ==
  ASSUME IInv, page'.view = page.view, NEW S, NEW msgs \in Seq(S), down' = Broadcast(msgs)
  PROVE  /\ SightsKept
         /\ conn # NoConn /\ conn.watching =>
              \A i \in DOMAIN msgs : msgs[i].type = "lobby_state" => msgs[i].lobby \in Sights'
<1>1. CASE Subscribed
  <2>1. down' = down \o msgs
    BY <1>1 DEF Broadcast
  <2> QED BY <2>1, SightsGrow
<1>2. CASE ~ Subscribed
  BY <1>2, SightsRest DEF Broadcast, Subscribed
<1> QED BY <1>1, <1>2

\* What comes first is shown instead of what it follows.
LEMMA SightsRead ==
  ASSUME IInv, lobby' = lobby, down # << >>, down' = Tail(down),
         page'.view = IF Head(down).type = "lobby_state" THEN Head(down).lobby ELSE page.view
  PROVE  SightsKept
<1> DEFINE n == Len(down)
<1>1. /\ Tail(down) \in Seq(Messages) /\ Len(Tail(down)) = n - 1
      /\ \A i \in 1 .. Len(Tail(down)) : Tail(down)[i] = down[i + 1]
  BY Known, HeadTailProperties
<1>2. n \in Nat \ {0} /\ DOMAIN down = 1 .. n /\ Head(down) = down[1]
      /\ DOMAIN Tail(down) = 1 .. n - 1
  BY <1>1, Known, EmptySeq, LenProperties
<1> HIDE DEF n
<1>3. ASSUME NEW k \in States(down), k # 1
      PROVE  down[k].lobby \in Sights'
  <2>1. k - 1 \in DOMAIN down' /\ down'[k - 1] = down[k]
    BY <1>1, <1>2, <1>3 DEF States
  <2> QED BY <1>3, <2>1 DEF Sights, States
<1>4. page'.view \in Sights'
  BY DEF Sights
<1>5. ASSUME NEW k \in States(down)
      PROVE  down[k].lobby \in Sights'
  <2>1. k = 1 => down[k].lobby = page'.view
    BY <1>2, <1>5 DEF States
  <2> QED BY <1>3, <1>4, <1>5, <2>1
<1>6. ASSUME page.view # NoView
      PROVE  page'.view # NoView /\ After(page'.view, page.view)
  <2>1. CASE Head(down).type = "lobby_state"
    <3>1. 1 \in States(down) /\ page'.view = down[1].lobby
      BY <1>2, <2>1 DEF States
    <3>2. After(page'.view, page.view)
      BY <1>6, <3>1 DEF IInv, ViewBehind
    <3>3. down[1] \in Messages /\ down[1].type = "lobby_state"
      BY <1>2, <2>1, Known
    <3>4. down[1].lobby \in LobbyState
      BY <3>3 DEF Messages, PageMessage
    <3> QED BY <3>1, <3>2, <3>4, Nulls
  <2>2. CASE Head(down).type # "lobby_state"
    BY <1>6, <2>2, FollowsItself
  <2> QED BY <2>1, <2>2
<1>7. ASSUME NEW v \in Sights \ {NoView}
      PROVE  \E u \in Sights' \ {NoView} : After(u, v)
  <2>1. CASE v = page.view
    BY <1>4, <1>6, <1>7, <2>1
  <2>2. CASE v # page.view
    <3>1. PICK k \in States(down) : v = down[k].lobby
      BY <1>7, <2>2 DEF Sights, States
    <3> QED BY <1>5, <1>7, <3>1, FollowsItself
  <2> QED BY <2>1, <2>2
<1>8. \A u, v : After(u, v) => After(u, v)'
  BY DEF After, Follows
<1> QED BY <1>7, <1>8 DEF SightsKept

\* What the page sends later does not unask; without a request for the state the
\* connection was asked before.
LEMMA StillAsked ==
  ASSUME IInv, conn' = conn, NEW msgs \in Seq(Requests), up' = up \/ up' = Sent(msgs)
  PROVE  Asked' => Asked
<1>1. CASE up' = up
  BY <1>1 DEF Asked
<1>2. CASE up' = up \o msgs
  <2>1. /\ Len(up') = Len(up) + Len(msgs)
        /\ \A k \in 1 .. Len(up) + Len(msgs) : up'[k] = IF k =< Len(up) THEN up[k] ELSE msgs[k - Len(up)]
        /\ up' \in Seq(Requests)
    BY <1>2, Known, ConcatProperties
  <2>2. /\ Len(up) \in Nat /\ Len(msgs) \in Nat /\ DOMAIN up = 1 .. Len(up)
        /\ DOMAIN up' = 1 .. Len(up) + Len(msgs)
    BY <2>1, Known, LenProperties
  <2>3. \A k \in DOMAIN up : k \in DOMAIN up' /\ up'[k] = up[k]
    BY <2>1, <2>2
  <2> QED BY <2>3 DEF Asked
<1> QED BY <1>1, <1>2 DEF Sent

LEMMA ReadAsked ==
  ASSUME IInv, NEW type, Handles(type), type # "watch_lobby"
  PROVE  Asked' => Asked
<1>1. up # << >> /\ up' = Tail(up) /\ Head(up).type = type /\ conn # NoConn
  BY DEF Handles
<1>2. /\ Tail(up) \in Seq(Requests) /\ Len(Tail(up)) = Len(up) - 1
      /\ \A i \in 1 .. Len(Tail(up)) : Tail(up)[i] = up[i + 1]
  BY <1>1, Known, HeadTailProperties
<1>3. /\ Len(up) \in Nat \ {0} /\ DOMAIN up = 1 .. Len(up) /\ Head(up) = up[1]
      /\ DOMAIN Tail(up) = 1 .. Len(up) - 1
  BY <1>1, <1>2, Known, EmptySeq, LenProperties
<1>4. ASSUME Asked', NEW k \in DOMAIN up
      PROVE  up[k].type # "watch_lobby"
  <2>1. CASE k = 1
    BY <1>1, <1>3, <2>1
  <2>2. CASE k # 1
    <3>1. k - 1 \in DOMAIN up' /\ up'[k - 1] = up[k]
      BY <1>1, <1>2, <1>3, <2>2
    <3> QED BY <1>4, <3>1 DEF Asked
  <2> QED BY <2>1, <2>2
<1> QED BY <1>1, <1>4 DEF Asked

\* A connection that asked watches.
LEMMA AskedWatches ==
  ASSUME NewsOnItsWay, Asked
  PROVE  conn # NoConn /\ conn.watching
BY DEF NewsOnItsWay, Asked

\* A step of the page that leaves server and connection alone.
LEMMA PageNews ==
  ASSUME IInv, NewsOnItsWay, page'.view = page.view, down' = down, conn' = conn,
         UNCHANGED server, NEW msgs \in Seq(Requests), up' = up \/ up' = Sent(msgs)
  PROVE  NewsOnItsWay'
<1>1. Asked' => Asked /\ conn'.watching
  BY StillAsked, AskedWatches
<1>2. SightsKept
  BY SightsRest
<1>3. lobby' = lobby /\ UNCHANGED ending /\ handlers' = handlers /\ lobby \in LobbyState
  BY Known DEF server
<1>4. ReportsKept
  BY <1>3 DEF ReportsKept, Reporting
<1> QED BY <1>1, <1>2, <1>3, <1>4, NewsRest

LEMMA VisitorNews ==
  ASSUME IInv, NewsOnItsWay,
         \/ LoginStarts \/ LoginReturns \/ LoginFails \/ PayStarts
         \/ \E succeeded \in BOOLEAN : PayReturns(succeeded)
         \/ \E landed \in BOOLEAN : PayFails(landed)
         \/ StartPour \/ EndPour \/ Expires \/ Reconnects
  PROVE  NewsOnItsWay'
<1>0. << >> \in Seq(Requests)
  BY EmptySeq
<1>1. CASE LoginStarts \/ LoginReturns \/ LoginFails \/ Reconnects
  <2>1. page'.view = page.view
    BY <1>1, Known DEF LoginStarts, LoginReturns, LoginFails, Reconnects, Page
  <2>2. down' = down /\ conn' = conn /\ UNCHANGED server /\ up' = up
    BY <1>1 DEF LoginStarts, LoginReturns, LoginFails, Reconnects
  <2> QED BY <1>0, <2>1, <2>2, PageNews
<1>2. CASE PayStarts \/ \E landed \in BOOLEAN : PayFails(landed)
  <2>1. page'.view = page.view
    BY <1>2, Known DEF PayStarts, PayFails, Page
  <2>2. down' = down /\ conn' = conn /\ UNCHANGED server /\ up' = up
    BY <1>2 DEF PayStarts, PayFails
  <2> QED BY <1>0, <2>1, <2>2, PageNews
<1>3. ASSUME NEW succeeded \in BOOLEAN, PayReturns(succeeded)
      PROVE  NewsOnItsWay'
  <2> DEFINE sig == [ payer |-> page.payingFor, succeeded |-> succeeded ]
             p == [ page EXCEPT !.joinSig = sig, !.payingFor = NoWallet ]
  <2>1. page.payingFor \in Wallets
    BY <1>3, Known DEF PayReturns, Page, MaybeWallet
  <2>2. p \in Page /\ p.view = page.view
    BY <2>1, Known DEF Page, MaybeWallet, MaybeSig, Signature
  <2>3. page' = AfterHandshake(p) /\ up' = Sent(Handshake(p))
        /\ down' = down /\ conn' = conn /\ UNCHANGED server
    BY <1>3 DEF PayReturns
  <2> HIDE DEF p
  <2>4. page'.view = page.view /\ Handshake(p) \in Seq(Requests)
    BY <2>2, <2>3, HandshakeTyped
  <2> QED BY <2>3, <2>4, PageNews
<1>4. CASE StartPour \/ EndPour \/ Expires
  <2>1. page'.view = page.view
    BY <1>4, Known DEF StartPour, EndPour, Expires, Released, Page
  <2>2. /\ down' = down /\ conn' = conn /\ UNCHANGED server
        /\ \/ up' = up
           \/ up' = Sent(<< Plain("pour_start") >>)
           \/ up' = Sent(<< Plain("pour_stop") >>)
    BY <1>4 DEF StartPour, EndPour, Expires
  <2>3. << Plain("pour_start") >> \in Seq(Requests) /\ << Plain("pour_stop") >> \in Seq(Requests)
    BY PlainTyped, SeqOfOne
  <2> QED BY <1>0, <2>1, <2>2, <2>3, PageNews
<1> QED BY <1>1, <1>2, <1>3, <1>4

\* A lost connection owes nothing, a new one asks at once.
LEMMA ConnectionNews ==
  ASSUME IInv, Closes \/ Opens \/ \E w \in Wallets : SwitchWallet(w)
  PROVE  NewsOnItsWay'
<1>1. CASE Closes \/ \E w \in Wallets : SwitchWallet(w)
  BY <1>1 DEF Closes, SwitchWallet, Disconnected, NewsOnItsWay, Asked
<1>2. CASE Opens
  <2> DEFINE p == [ page EXCEPT !.status = "open" ]
             first == << HelloMessage(page.token), Plain("watch_lobby") >>
             rest == IF page.joinTx = NoSig THEN << >> ELSE << JoinMessage(page.joinTx) >>
  <2>1. page.token \in Wallets /\ page.joinTx \in MaybeSig /\ p \in Page
    BY <1>2, Known DEF Opens, Page, MaybeWallet
  <2>2. first \in Seq(Requests)
    <3>1. HelloMessage(page.token) \in Requests
      BY <2>1 DEF HelloMessage, Plain, Requests, ClientMessage, MaybeWallet, MaybeSig
    <3> QED BY <3>1, PlainTyped, SeqOfTwo
  <2>3. rest \in Seq(Requests)
    <3>1. JoinMessage(page.joinTx) \in Requests
      BY <2>1 DEF JoinMessage, Plain, Requests, ClientMessage, MaybeWallet
    <3> QED BY <3>1, SeqOfOne, EmptySeq
  <2>4. up' = first \o rest \o Handshake(p)
    BY <1>2 DEF Opens
  <2>5. Len(first) = 2 /\ first[2].type = "watch_lobby"
    BY DEF Plain
  <2> HIDE DEF p, first, rest
  <2>6. Handshake(p) \in Seq(Requests)
    BY <2>1, HandshakeTyped
  <2>7. first \o rest \in Seq(Requests) /\ 2 \in DOMAIN (first \o rest) /\ (first \o rest)[2] = first[2]
    <3>1. 2 \in DOMAIN first
      BY <2>2, <2>5, LenProperties
    <3> QED BY <2>2, <2>3, <3>1, ConcatKeeps
  <2>8. 2 \in DOMAIN up' /\ up'[2] = first[2]
    BY <2>4, <2>6, <2>7, ConcatKeeps
  <2> QED BY <2>5, <2>8 DEF NewsOnItsWay, Asked
<1> QED BY <1>1, <1>2

LEMMA ReceiveNews == ASSUME IInv, NewsOnItsWay, Receives PROVE NewsOnItsWay'
<1>1. down # << >> /\ page' = Applied(page, Head(down)) /\ down' = Tail(down)
      /\ up' = up /\ conn' = conn /\ UNCHANGED server
  BY DEF Receives
<1>2. Head(down) \in Messages
  BY <1>1, Known, HeadTailProperties
<1>3. page'.view = IF Head(down).type = "lobby_state" THEN Head(down).lobby ELSE page.view
  BY <1>1, <1>2, Known, AppliedTyped
<1>4. SightsKept
  BY <1>1, <1>3, SightsRead DEF server
<1>5. Asked' => Asked /\ conn'.watching
  BY <1>1, AskedWatches DEF Asked
<1>6. lobby' = lobby /\ UNCHANGED ending /\ lobby \in LobbyState /\ ReportsKept
  BY <1>1, Known DEF server, ReportsKept, Reporting
<1> QED BY <1>4, <1>5, <1>6, NewsRest

-----------------------------------------------------------------------------
(* News of the gateway and of handlers *)

\* A handler more leaves the reports under way.
LEMMA ReportsAwaited ==
  ASSUME IInv, NEW step, NEW w, NEW sig, NEW connected, Await(step, w, sig, connected)
  PROVE  ReportsKept /\ (step = "report" => Reporting(w)')
<1> DEFINE h == [ step |-> step, wallet |-> w, sig |-> sig, connected |-> connected ]
           n == Len(handlers)
           T == Handlers \cup {h}
<1>1. handlers \in Seq(T) /\ h \in T /\ handlers' = Append(handlers, h)
  BY Known, SeqMonotonic DEF Await
<1>2. h.step = step /\ h.wallet = w
  OBVIOUS
<1> HIDE DEF h, T
<1>3. /\ handlers' \in Seq(T) /\ Len(handlers') = n + 1
      /\ \A i \in 1 .. n : handlers'[i] = handlers[i]
      /\ handlers'[n + 1] = h
  BY <1>1, AppendProperties
<1>4. n \in Nat /\ DOMAIN handlers = 1 .. n /\ DOMAIN handlers' = 1 .. n + 1
  BY <1>3, Known, LenProperties
<1>5. \A k \in DOMAIN handlers : k \in DOMAIN handlers' /\ handlers'[k] = handlers[k]
  BY <1>3, <1>4
<1>6. n + 1 \in DOMAIN handlers' /\ handlers'[n + 1] = h
  BY <1>3, <1>4
<1>7. ReportsKept
  BY <1>5 DEF ReportsKept, Reporting
<1>8. step = "report" => Reporting(w)'
  BY <1>2, <1>6 DEF Reporting
<1> QED BY <1>7, <1>8

\* So does a handler less, if it is no report.
LEMMA ReportsRemain ==
  ASSUME IInv, NEW k \in DOMAIN handlers, handlers[k].step # "report",
         handlers' = RemoveAt(handlers, k)
  PROVE  ReportsKept
<1> DEFINE n == Len(handlers)
           a == SubSeq(handlers, 1, k - 1)
           b == SubSeq(handlers, k + 1, n)
<1>1. n \in Nat /\ DOMAIN handlers = 1 .. n /\ k \in 1 .. n
  BY Known, LenProperties
<1>2. a \in Seq(Handlers) /\ Len(a) = k - 1 /\ \A i \in 1 .. k - 1 : a[i] = handlers[i]
  <2>1. \A i \in 1 .. k - 1 : handlers[i] \in Handlers
    BY <1>1, Known
  <2> QED BY <1>1, <2>1, SubSeqProperties
<1>3. b \in Seq(Handlers) /\ Len(b) = n - k /\ \A i \in 1 .. n - k : b[i] = handlers[k + i]
  <2>1. \A i \in k + 1 .. n : handlers[i] \in Handlers
    BY <1>1, Known
  <2> QED BY <1>1, <2>1, SubSeqProperties
<1> HIDE DEF a, b
<1>4. /\ handlers' = a \o b /\ handlers' \in Seq(Handlers) /\ Len(handlers') = (k - 1) + (n - k)
      /\ \A i \in 1 .. (k - 1) + (n - k) :
           handlers'[i] = IF i =< k - 1 THEN a[i] ELSE b[i - (k - 1)]
  <2>1. handlers' = a \o b
    BY DEF RemoveAt, a, b
  <2> QED BY <1>2, <1>3, <2>1, ConcatProperties
<1>5. DOMAIN handlers' = 1 .. (k - 1) + (n - k)
  BY <1>4, LenProperties
<1>6. ASSUME NEW i \in DOMAIN handlers, i # k
      PROVE  \E j \in DOMAIN handlers' : handlers'[j] = handlers[i]
  <2>1. CASE i < k
    <3>1. i \in DOMAIN handlers' /\ i \in 1 .. k - 1
      BY <1>1, <1>5, <2>1
    <3> QED BY <1>1, <1>2, <1>4, <1>5, <3>1
  <2>2. CASE i > k
    <3>1. i - 1 \in DOMAIN handlers' /\ ~ (i - 1 =< k - 1) /\ i - k \in 1 .. n - k
          /\ (i - 1) - (k - 1) = i - k /\ k + (i - k) = i
      BY <1>1, <1>5, <2>2
    <3>2. handlers'[i - 1] = b[i - k]
      BY <1>4, <1>5, <3>1
    <3>3. b[i - k] = handlers[i]
      BY <1>3, <3>1
    <3> QED BY <3>1, <3>2, <3>3
  <2> QED BY <1>1, <1>6, <2>1, <2>2
<1> QED BY <1>6 DEF ReportsKept, Reporting

\* And a join that goes on.
LEMMA ReportsUntouched ==
  ASSUME IInv, NEW k \in DOMAIN handlers, handlers[k].step # "report", NEW s,
         handlers' = [ handlers EXCEPT ![k].step = s ]
  PROVE  ReportsKept
<1>1. \A i \in DOMAIN handlers : i # k => i \in DOMAIN handlers' /\ handlers'[i] = handlers[i]
  OBVIOUS
<1> QED BY <1>1 DEF ReportsKept, Reporting

\* A result is recorded and its report under way.
LEMMA RecordedNews ==
  ASSUME IInv, NewsOnItsWay, lobby' \in LobbyState, NEW w \in Wallets, NEW connected \in BOOLEAN,
         lobby' = [ lobby EXCEPT !.players[w] = "done" ], Await("report", w, NoSig, connected),
         UNCHANGED ending, SightsKept, Asked' => Asked /\ conn'.watching
  PROVE  NewsOnItsWay'
<1>1. ReportsKept /\ Reporting(w)'
  BY ReportsAwaited
<1>2. /\ lobby'.status = lobby.status
      /\ \A v \in Wallets : lobby'.players[v] = "done" => lobby.players[v] = "done" \/ v = w
  BY Known DEF LobbyState
<1> QED BY <1>1, <1>2, NewsRest

\* The state goes to all who watch.
LEMMA StateBroadcast ==
  ASSUME IInv, IInv', NewsOnItsWay, page' = page, up' = up, conn' = conn, lobby' = lobby,
         \/ down' = Broadcast(<< StateMessage(lobby) >>)
         \/ down' = Broadcast(<< StateMessage(lobby), [ type |-> "settled" ] >>)
  PROVE  NewsOnItsWay'
<1> DEFINE one == << StateMessage(lobby) >>
           two == << StateMessage(lobby), [ type |-> "settled" ] >>
           S == { StateMessage(lobby), [ type |-> "settled" ] }
<1>1. one \in Seq(S) /\ 1 \in DOMAIN one /\ one[1] = StateMessage(lobby)
  OBVIOUS
<1>2. two \in Seq(S) /\ 1 \in DOMAIN two /\ two[1] = StateMessage(lobby)
  OBVIOUS
<1>3. PICK msgs \in Seq(S) : /\ down' = Broadcast(msgs)
                             /\ 1 \in DOMAIN msgs /\ msgs[1] = StateMessage(lobby)
  BY <1>1, <1>2
<1>4. StateMessage(lobby).type = "lobby_state" /\ StateMessage(lobby).lobby = lobby
  BY DEF StateMessage
<1>5. conn # NoConn /\ conn.watching => Told
  BY <1>3, <1>4, Broadcasts DEF Told
<1>6. Asked' => conn'.watching /\ Told
  BY <1>5, AskedWatches DEF Asked
<1> QED BY <1>6, Known, NewsComplete

\* The connection that is answered watches.
LEMMA AnsweredAsked ==
  ASSUME IInv, NewsOnItsWay, up' = up, NEW k \in DOMAIN handlers,
         conn' = IF handlers[k].connected
                 THEN [ conn EXCEPT !.joined = TRUE, !.watching = TRUE ] ELSE conn
  PROVE  Asked' => Asked /\ conn'.watching
<1>1. handlers[k].connected => conn \in ConnState /\ conn # NoConn /\ conn'.watching
  BY HandlerKnown DEF ConnState
<1>2. Asked' => Asked
  BY <1>1 DEF Asked
<1> QED BY <1>1, <1>2, AskedWatches

LEMMA AnswerIsSeq ==
  ASSUME NEW h, NEW w
  PROVE  Answers(h, RoundConfig(w)) \in Seq({ RoundConfig(w)[1] })
<1>1. RoundConfig(w) \in Seq({ RoundConfig(w)[1] })
  BY DEF RoundConfig
<1> QED BY <1>1, EmptySeq DEF Answers

LEMMA GatewayNews == ASSUME IInv, IInv', NewsOnItsWay, Gateway PROVE NewsOnItsWay'
<1>0. lobby' \in LobbyState
  BY DEF IInv, Values
<1>1. CASE Hello
  <2>1. Asked' => Asked /\ conn'.watching
    <3>1. conn \in ConnState /\ conn'.watching = conn.watching
      BY <1>1, FirstRequest DEF Hello, ConnState
    <3> QED BY <1>1, <3>1, ReadAsked, AskedWatches DEF Hello
  <2>2. page' = page /\ down' = down /\ UNCHANGED server
    BY <1>1 DEF Hello
  <2>3. SightsKept /\ ReportsKept
    BY <2>2, SightsRest DEF server, ReportsKept, Reporting
  <2> QED BY <1>0, <2>1, <2>2, <2>3, NewsRest DEF server
<1>2. CASE WatchLobby
  <2>1. conn \in ConnState /\ conn'.watching
    BY <1>2, FirstRequest DEF WatchLobby, ConnState
  <2>2. /\ page' = page /\ lobby' = lobby /\ paid' = paid /\ Quiet
        /\ down' = down \o << StateMessage(lobby) >>
    BY <1>2 DEF WatchLobby, Greeting, Quiet
  <2>3. << StateMessage(lobby) >> \in Seq(News')
    BY <2>2, StateIsNews, SeqOfOne
  <2> DEFINE msgs == << StateMessage(lobby) >>
  <2>4. 1 \in DOMAIN msgs /\ msgs[1].type = "lobby_state" /\ msgs[1].lobby = lobby
    BY DEF StateMessage
  <2>5. Told
    <3> HIDE DEF msgs
    <3>1. msgs \in Seq(News') /\ down' = down \o msgs
      BY <2>2, <2>3 DEF msgs
    <3>2. \A i \in DOMAIN msgs : msgs[i].type = "lobby_state" => msgs[i].lobby \in Sights'
      BY <2>2, <3>1, SightsGrow
    <3> QED BY <2>2, <2>4, <3>2 DEF Told
  <2> QED BY <1>0, <2>1, <2>5, NewsComplete
<1>3. CASE JoinLobby
  <2>1. conn \in ConnState /\ conn.wallet \in Wallets
    BY <1>3, FirstRequest DEF JoinLobby
  <2>2. \/ /\ lobby.players[conn.wallet] # "none"
           /\ conn' = [ conn EXCEPT !.joined = TRUE, !.watching = TRUE ]
           /\ down' = down \o RoundConfig(conn.wallet)
           /\ handlers' = handlers
        \/ /\ Await("confirm", conn.wallet, Head(up).sig, TRUE)
           /\ conn' = conn /\ down' = down
        \/ conn' = conn /\ down' = down /\ handlers' = handlers
    BY <1>3 DEF JoinLobby
  <2>3. page' = page /\ lobby' = lobby /\ UNCHANGED ending
    BY <1>3 DEF JoinLobby
  <2>4. Asked' => Asked /\ conn'.watching
    BY <1>3, <2>1, <2>2, ReadAsked, AskedWatches DEF JoinLobby, ConnState
  <2>5. SightsKept
    <3>1. RoundConfig(conn.wallet) \in Seq({ RoundConfig(conn.wallet)[1] })
      BY DEF RoundConfig
    <3> QED BY <2>2, <2>3, <3>1, SightsGrow, SightsRest
  <2>6. ReportsKept
    <3>1. CASE handlers' = handlers
      BY <3>1 DEF ReportsKept, Reporting
    <3> QED BY <2>2, <3>1, ReportsAwaited
  <2> QED BY <1>0, <2>3, <2>4, <2>5, <2>6, NewsRest
<1>4. CASE PourStarts
  <2>1. page' = page /\ down' = down /\ conn' = conn /\ lobby' = lobby /\ handlers' = handlers
        /\ UNCHANGED ending
    BY <1>4 DEF PourStarts
  <2>2. Asked' => Asked /\ conn'.watching
    BY <1>4, <2>1, ReadAsked, AskedWatches DEF PourStarts
  <2>3. SightsKept /\ ReportsKept
    BY <2>1, SightsRest DEF ReportsKept, Reporting
  <2> QED BY <1>0, <2>1, <2>2, <2>3, NewsRest
<1>5. CASE PourStops
  <2>1. page' = page /\ down' = down /\ conn' = conn /\ UNCHANGED ending /\ conn.wallet \in Wallets
    BY <1>5, FirstRequest DEF PourStops
  <2>2. Asked' => Asked /\ conn'.watching
    BY <1>5, <2>1, ReadAsked, AskedWatches DEF PourStops
  <2>3. SightsKept
    BY <2>1, SightsRest
  <2>4. \/ /\ lobby' = [ lobby EXCEPT !.players[conn.wallet] = "done" ]
           /\ Await("report", conn.wallet, NoSig, TRUE)
        \/ lobby' = lobby /\ handlers' = handlers
    BY <1>5 DEF PourStops
  <2>5. CASE lobby' = lobby /\ handlers' = handlers
    <3>1. ReportsKept
      BY <2>5 DEF ReportsKept, Reporting
    <3> QED BY <1>0, <2>1, <2>2, <2>3, <2>5, <3>1, NewsRest
  <2>6. CASE lobby' = [ lobby EXCEPT !.players[conn.wallet] = "done" ]
             /\ Await("report", conn.wallet, NoSig, TRUE)
    BY <1>0, <2>1, <2>2, <2>3, <2>6, RecordedNews
  <2> QED BY <2>4, <2>5, <2>6
<1> QED BY <1>1, <1>2, <1>3, <1>4, <1>5 DEF Gateway

LEMMA ManagerNews == ASSUME IInv, IInv', NewsOnItsWay, Manager PROVE NewsOnItsWay'
<1>0. lobby' \in LobbyState
  BY DEF IInv, Values
<1>1. ASSUME NEW w \in Wallets, TimerFires(w)
      PROVE  NewsOnItsWay'
  <2>1. /\ lobby' = [ lobby EXCEPT !.players[w] = "done" ] /\ Await("report", w, NoSig, FALSE)
        /\ page' = page /\ up' = up /\ down' = down /\ conn' = conn /\ UNCHANGED ending
    BY <1>1 DEF TimerFires
  <2>2. Asked' => Asked /\ conn'.watching
    BY <2>1, AskedWatches DEF Asked
  <2>3. SightsKept
    BY <2>1, SightsRest
  <2> QED BY <1>0, <2>1, <2>2, <2>3, RecordedNews
<1>2. ASSUME NEW k \in DOMAIN handlers, JoinConfirmed(k)
      PROVE  NewsOnItsWay'
  <2> DEFINE w == handlers[k].wallet
  <2>1. page' = page /\ up' = up /\ UNCHANGED ending /\ w \in Wallets /\ handlers[k].step = "confirm"
    BY <1>2, HandlerKnown DEF JoinConfirmed
  <2>2. CASE lobby.players[w] = "none"
    <3>1. /\ lobby' = [ lobby EXCEPT !.players[w] = "playing" ]
          /\ handlers' = [ handlers EXCEPT ![k].step = "join saved" ]
          /\ conn' = conn /\ down' = down
      BY <1>2, <2>2 DEF JoinConfirmed
    <3>2. Asked' => Asked /\ conn'.watching
      BY <2>1, <3>1, AskedWatches DEF Asked
    <3>3. SightsKept /\ ReportsKept
      BY <2>1, <3>1, SightsRest, ReportsUntouched
    <3>4. /\ lobby'.status = lobby.status
          /\ \A v \in Wallets : lobby'.players[v] = "done" => lobby.players[v] = "done"
      BY <2>1, <3>1, Known DEF LobbyState
    <3> QED BY <1>0, <2>1, <3>2, <3>3, <3>4, NewsRest
  <2>3. CASE lobby.players[w] # "none"
    <3>1. /\ handlers' = RemoveAt(handlers, k) /\ lobby' = lobby
          /\ conn' = IF handlers[k].connected
                     THEN [ conn EXCEPT !.joined = TRUE, !.watching = TRUE ] ELSE conn
          /\ down' = down \o Answers(handlers[k], RoundConfig(w))
      BY <1>2, <2>3 DEF JoinConfirmed
    <3>2. Asked' => Asked /\ conn'.watching
      BY <1>2, <2>1, <3>1, AnsweredAsked
    <3>3. SightsKept
      BY <2>1, <3>1, AnswerIsSeq, SightsGrow
    <3>4. ReportsKept
      BY <2>1, <3>1, ReportsRemain
    <3> QED BY <1>0, <2>1, <3>1, <3>2, <3>3, <3>4, NewsRest
  <2> QED BY <2>2, <2>3
<1>3. ASSUME NEW k \in DOMAIN handlers, JoinSaved(k)
      PROVE  NewsOnItsWay'
  <2> DEFINE answer == Answers(handlers[k], RoundConfig(handlers[k].wallet))
  <2>1. /\ handlers' = RemoveAt(handlers, k)
        /\ conn' = IF handlers[k].connected
                   THEN [ conn EXCEPT !.joined = TRUE, !.watching = TRUE ] ELSE conn
        /\ down' = Broadcast(<< StateMessage(lobby) >>) \o answer
        /\ page' = page /\ up' = up /\ lobby' = lobby
    BY <1>3 DEF JoinSaved
  <2>2. Asked' => Asked /\ conn'.watching
    BY <2>1, AnsweredAsked
  <2>3. conn # NoConn /\ conn.watching => Told
    <3> SUFFICES ASSUME Subscribed PROVE Told
      BY DEF Subscribed
    <3> DEFINE state == << StateMessage(lobby) >>
               S == Messages \cup { StateMessage(lobby), RoundConfig(handlers[k].wallet)[1] }
    <3>1. down \in Seq(S) /\ state \in Seq(S) /\ answer \in Seq(S)
      <4>1. answer \in Seq({ RoundConfig(handlers[k].wallet)[1] })
        BY AnswerIsSeq
      <4> QED BY <4>1, Known, SeqMonotonic, SeqOfOne
    <3>2. 1 \in DOMAIN state /\ state[1].type = "lobby_state" /\ state[1].lobby = lobby
      BY DEF StateMessage
    <3>3. Broadcast(state) = down \o state
      BY DEF Broadcast
    <3> HIDE DEF state, answer, S
    <3>4. /\ state \o answer \in Seq(S) /\ 1 \in DOMAIN (state \o answer)
          /\ (state \o answer)[1] = state[1]
      BY <3>1, <3>2, ConcatKeeps
    <3>5. down' = down \o (state \o answer)
      <4>1. down' = (down \o state) \o answer
        BY <2>1, <3>3 DEF answer, state
      <4> QED BY <3>1, <4>1, ConcatAssociative
    <3> QED BY <2>1, <3>2, <3>4, <3>5, SightsGrow DEF Told
  <2> QED BY <1>0, <2>2, <2>3, AskedWatches, NewsComplete
<1>4. ASSUME NEW k \in DOMAIN handlers, Reported(k)
      PROVE  NewsOnItsWay'
  <2>1. /\ down' = Broadcast(<< StateMessage(lobby) >>)
        /\ page' = page /\ up' = up /\ conn' = conn /\ lobby' = lobby
    BY <1>4 DEF Reported
  <2> QED BY <2>1, StateBroadcast, SeqOfOne
<1>5. ASSUME NEW k \in DOMAIN handlers, ResultSent(k)
      PROVE  NewsOnItsWay'
  <2> DEFINE msgs == << [ type |-> "pour_result", wallet |-> handlers[k].wallet ] >>
  <2>1. /\ handlers' = RemoveAt(handlers, k) /\ handlers[k].step = "result"
        /\ down' = down \o Answers(handlers[k], msgs)
        /\ page' = page /\ up' = up /\ conn' = conn /\ lobby' = lobby /\ UNCHANGED ending
    BY <1>5 DEF ResultSent
  <2>2. Answers(handlers[k], msgs) \in Seq(News')
    BY HandlerKnown, ResultIsNews, AnswersTyped
  <2>3. SightsKept /\ ReportsKept
    BY <2>1, <2>2, SightsGrow, ReportsRemain
  <2>4. Asked' => Asked /\ conn'.watching
    BY <2>1, AskedWatches DEF Asked
  <2> QED BY <1>0, <2>1, <2>3, <2>4, NewsRest
<1>6. CASE Announces
  <2>1. /\ \/ down' = Broadcast(<< StateMessage(lobby) >>)
           \/ down' = Broadcast(<< StateMessage(lobby), [ type |-> "settled" ] >>)
        /\ page' = page /\ up' = up /\ conn' = conn /\ lobby' = lobby
    BY <1>6 DEF Announces, EmitUpdate, EmitSettled
  <2> QED BY <2>1, StateBroadcast, SeqOfOne, SeqOfTwo
<1> QED BY <1>1, <1>2, <1>3, <1>4, <1>5, <1>6 DEF Manager

\* A lobby that ends has the announcement before it, which only a rejected save
\* takes away.
LEMMA TurningNews == ASSUME IInv, NewsOnItsWay, Turning PROVE NewsOnItsWay'
<1>1. /\ page' = page /\ up' = up /\ down' = down /\ conn' = conn /\ handlers' = handlers
      /\ lobby' \in LobbyState /\ lobby'.players = lobby.players
  BY TurningAlone
<1>2. Asked' => Asked /\ conn'.watching
  BY <1>1, AskedWatches DEF Asked
<1>3. SightsKept /\ ReportsKept
  BY <1>1, SightsRest DEF ReportsKept, Reporting
<1>4. CASE RoundOpens \/ SettleStarts \/ SettleReturns \/ SettleFails \/ CancelReturns
  <2>1. unsaid' = unsaid /\ EndsKept
    BY <1>4, Known DEF RoundOpens, SettleStarts, SettleReturns, SettleFails, CancelReturns,
       Turns, LobbyState, EndsKept
  <2> QED BY <1>1, <1>2, <1>3, <2>1, NewsKept
<1>5. CASE CancelLands \/ CancelUnnoticed
  <2>1. unsaid' = unsaid /\ EndsKept
    BY <1>5 DEF CancelLands, CancelUnnoticed, EndsKept
  <2> QED BY <1>1, <1>2, <1>3, <2>1, NewsKept
<1>6. CASE \E task \in Saves : SaveFails(task)
  <2>1. unsaid' \/ (~ unsaid /\ EndsKept)
    BY <1>6, Known DEF SaveFails, EndsKept, Values, IInv
  <2> QED BY <1>1, <1>2, <1>3, <2>1, NewsKept
<1> QED BY <1>4, <1>5, <1>6 DEF Turning

LEMMA NewsStep == ASSUME IInv, NewsOnItsWay, [Next]_vars PROVE NewsOnItsWay'
<1>0. IInv'
  BY PageKeeps
<1>1. CASE Free
  <2>1. ASSUME NEW k \in DOMAIN handlers, JoinRefused(k)
        PROVE  NewsOnItsWay'
    <3>1. /\ handlers' = RemoveAt(handlers, k) /\ handlers[k].step = "confirm"
          /\ page' = page /\ up' = up /\ down' = down /\ conn' = conn /\ lobby' = lobby
          /\ UNCHANGED ending
      BY <2>1 DEF JoinRefused
    <3>2. SightsKept /\ ReportsKept /\ (Asked' => Asked /\ conn'.watching)
      BY <3>1, SightsRest, ReportsRemain, AskedWatches DEF Asked
    <3> QED BY <3>1, <3>2, Known, NewsRest
  <2>2. ASSUME NEW k \in DOMAIN handlers, HandlerFails(k)
        PROVE  NewsOnItsWay'
    <3>1. /\ handlers' = RemoveAt(handlers, k) /\ unsaid' = (unsaid \/ handlers[k].step = "report")
          /\ page' = page /\ up' = up /\ down' = down /\ conn' = conn /\ lobby' = lobby
          /\ tasks' = tasks
      BY <2>2 DEF HandlerFails
    <3>2. SightsKept /\ (Asked' => Asked /\ conn'.watching)
      BY <3>1, SightsRest, AskedWatches DEF Asked
    <3>3. handlers[k].step # "report" => ReportsKept
      BY <3>1, ReportsRemain
    <3>4. EndsKept
      BY <3>1 DEF EndsKept
    <3> QED BY <3>1, <3>2, <3>3, <3>4, Known, NewsKept
  <2> QED BY <1>1, <2>1, <2>2, VisitorNews, ConnectionNews, TurningNews DEF Free
<1>2. CASE Hook
  BY <1>2, ConnectionNews, VisitorNews, ReceiveNews DEF Hook
<1>3. CASE Gateway
  BY <1>0, <1>3, GatewayNews
<1>4. CASE Manager
  BY <1>0, <1>4, ManagerNews
<1>5. CASE UNCHANGED vars
  BY <1>5 DEF vars, ending, NewsOnItsWay, Asked, Sights, Reporting
<1> QED BY <1>1, <1>2, <1>3, <1>4, <1>5 DEF Next

\* An end or a result that a watching page does not show is on its way to it, over
\* any number of lost connections, wallet changes and failed calls.
THEOREM NewsAlwaysOnItsWay == Spec => []NewsOnItsWay
<1>1. Init => NewsOnItsWay
  BY DEF Init, NewsOnItsWay, Asked
<1>2. IInv /\ NewsOnItsWay /\ [Next]_vars => NewsOnItsWay'
  BY NewsStep
<1> QED BY <1>1, <1>2, Invariance, PTL DEF Spec

=============================================================================
