------------------------------ MODULE GamePage -------------------------------
(***************************************************************************)
(* One browser page of a lobby (game/[lobbyId]/page.tsx and its hook       *)
(* useGameSocket), the WebSocket connection, and the gateway (ws.ts) with  *)
(* what it shows of the LobbyManager.  The connection delivers in order    *)
(* and may be lost with everything on its way; the page connects again.    *)
(*                                                                         *)
(* The lobby is what concerns this page: its status, the seats of the      *)
(* wallets the visitor owns, and what the manager's handlers await before  *)
(* they change or announce it; the other players, the clock and the ledger *)
(* decide the rest.  Process death is the subject of LobbyServer.          *)
(***************************************************************************)
EXTENDS Naturals, Sequences, SequencesExt

CONSTANTS
  Wallets,      \* wallets the visitor may connect
  Funded,       \* those that can pay the entry fee
  NoWallet,
  NoSig,        \* no signature of a join transaction
  NoView,       \* lobbyState === null
  NoConn,       \* the gateway has no connection of this page
  MaxTroubles   \* how often the connection is lost, the visitor connects another
                \* wallet, a login, a payment, settle_lobby or a save of the
                \* server fails, together

ASSUME PageBounds ==
  /\ MaxTroubles \in Nat
  /\ Funded \subseteq Wallets /\ NoWallet \notin Wallets

VARIABLES
  page,       \* the state of the page and of the hook
  up, down,   \* messages on their way to the gateway, to the page
  conn,       \* the gateway's ConnState of this page
  lobby,      \* status, and the seat of each wallet, in LobbyManager
  pours,      \* PourSessionManager.active
  handlers,   \* messages of this page, and timeouts, the server is awaiting
  tasks,      \* what the manager awaits for the lobby, see Tasks
  paid,       \* wallets listed in the lobby account
  ended,      \* how the lobby has ended on the ledger, or "no"
  unsaid,     \* a rejected save has kept an end or a result from being
              \* announced, and no state has been sent since
  troubles

vars == << page, up, down, conn, lobby, pours, handlers, tasks, paid, ended, unsaid, troubles >>
ending == << tasks, ended, unsaid >>
server == << lobby, pours, handlers, ending >>

MaybeWallet == Wallets \cup {NoWallet}

LobbyState == [ status : {"awaiting_randomness", "open", "settling", "settled", "cancelled"},
                players : [ Wallets -> {"none", "playing", "done"} ] ]

\* The persist() before a lobby is announced as opened, settling, settled or
\* cancelled; a settle_lobby call; a cancel_lobby call that has landed.  None is
\* awaited twice: the round opens once, one handler at a time settles the lobby, the
\* ledger cancels it once.
Saves == {"opened", "settling", "settled", "cancelled"}
Tasks == Saves \cup {"settle", "cancel"}

\* The signature of a join transaction, which may have failed on the ledger.
Signature == [ payer : Wallets, succeeded : BOOLEAN ]
MaybeSig == Signature \cup {NoSig}

\* joinTx is joinTxRef; token, config and result hold the wallet they were got
\* for, loginFor and payingFor the wallet doLogin and doJoin wait for.
Page == [ wallet : Wallets, token : MaybeWallet, loginFor : MaybeWallet,
          joinSig : MaybeSig, payingFor : MaybeWallet, joinTx : MaybeSig,
          status : {"idle", "connecting", "open", "closed"},
          view : LobbyState \cup {NoView},
          config : MaybeWallet, result : MaybeWallet, settled : BOOLEAN,
          pouring : BOOLEAN, localLocked : BOOLEAN, expired : BOOLEAN ]

ConnState == [ wallet : MaybeWallet, watching : BOOLEAN, joined : BOOLEAN ]

\* null is no state of a lobby and no connection.
ASSUME Nulls == NoView \notin LobbyState /\ NoConn \notin ConnState

\* connected: the connection the answer goes to is still there.
Handler == [ step : {"confirm", "join saved", "report", "result"}, wallet : Wallets,
             sig : MaybeSig, connected : BOOLEAN ]

ClientMessage == [ type : {"hello", "watch_lobby", "join_lobby", "pour_start", "pour_stop"},
                   wallet : MaybeWallet, sig : MaybeSig ]

Init ==
  /\ page \in { [ wallet |-> w, token |-> NoWallet, loginFor |-> NoWallet,
                  joinSig |-> NoSig, payingFor |-> NoWallet, joinTx |-> NoSig,
                  status |-> "idle", view |-> NoView, config |-> NoWallet, result |-> NoWallet,
                  settled |-> FALSE, pouring |-> FALSE, localLocked |-> FALSE,
                  expired |-> FALSE ] : w \in Wallets }
  /\ up = << >> /\ down = << >> /\ conn = NoConn
  /\ lobby = [ status |-> "awaiting_randomness", players |-> [ w \in Wallets |-> "none" ] ]
  /\ pours = {} /\ handlers = << >> /\ tasks = {} /\ paid = {}
  /\ ended = "no" /\ unsaid = FALSE /\ troubles = 0

-----------------------------------------------------------------------------
(* What the page shows *)

Seat(p) == IF p.view = NoView THEN "none" ELSE p.view.players[p.wallet]
Joined(p) == Seat(p) # "none" \/ p.joinSig # NoSig
Played(p) == p.result # NoWallet \/ Seat(p) = "done"
Locked(p) == p.localLocked \/ Played(p) \/ p.expired

CanPour(p) ==
  Joined(p) /\ p.token # NoWallet /\ p.config # NoWallet /\ ~ Locked(p) /\ p.status = "open"

Plain(type) == [ type |-> type, wallet |-> NoWallet, sig |-> NoSig ]
HelloMessage(token) == [ Plain("hello") EXCEPT !.wallet = token ]
JoinMessage(sig) == [ Plain("join_lobby") EXCEPT !.sig = sig ]

\* useGameSocket.send: without an open socket the message is dropped.
Sent(msgs) == IF conn = NoConn THEN up ELSE up \o msgs

\* The join handshake of the page, whenever joinSig or the status changes.
HandshakeDue(p) == p.joinSig # NoSig /\ p.status = "open" /\ p.config = NoWallet
AfterHandshake(p) == IF HandshakeDue(p) THEN [ p EXCEPT !.joinTx = p.joinSig ] ELSE p
Handshake(p) == IF HandshakeDue(p) THEN << JoinMessage(p.joinSig) >> ELSE << >>

-----------------------------------------------------------------------------
(* The visitor *)

Trouble == troubles < MaxTroubles /\ troubles' = troubles + 1

LoginStarts ==
  /\ page.token = NoWallet /\ page.loginFor = NoWallet
  /\ page' = [ page EXCEPT !.loginFor = page.wallet ]
  /\ UNCHANGED << up, down, conn, server, paid, troubles >>

\* setToken, whatever wallet is connected by now; the hook connects.
LoginReturns ==
  /\ page.loginFor # NoWallet
  /\ page' = [ page EXCEPT !.token = page.loginFor, !.loginFor = NoWallet, !.status = "connecting" ]
  /\ UNCHANGED << up, down, conn, server, paid, troubles >>

LoginFails ==
  /\ page.loginFor # NoWallet
  /\ Trouble
  /\ page' = [ page EXCEPT !.loginFor = NoWallet ]
  /\ UNCHANGED << up, down, conn, server, paid >>

\* Handlers of a closed connection go on, their answers go nowhere.
Orphaned(hs) == [ k \in DOMAIN hs |-> [ hs[k] EXCEPT !.connected = FALSE ] ]

Disconnected ==
  /\ conn' = NoConn /\ up' = << >> /\ down' = << >>
  /\ handlers' = Orphaned(handlers)

\* A wallet change discards the page's state, and with the token the hook
\* closes its socket; what the hook has received stays.
SwitchWallet(w) ==
  /\ w # page.wallet
  /\ Trouble
  /\ page' = [ page EXCEPT !.wallet = w, !.token = NoWallet, !.joinSig = NoSig,
                           !.pouring = FALSE, !.localLocked = FALSE, !.expired = FALSE ]
  /\ Disconnected
  /\ UNCHANGED << lobby, pours, ending, paid >>

\* doJoin: offered to a logged-in visitor without a seat once there is a round.
PayStarts ==
  /\ page.token # NoWallet /\ page.payingFor = NoWallet /\ ~ Joined(page)
  /\ page.view # NoView => page.view.status # "awaiting_randomness"
  /\ page' = [ page EXCEPT !.payingFor = page.wallet ]
  /\ UNCHANGED << up, down, conn, server, paid, troubles >>

\* The ledger takes a first join of a wallet while the lobby is open there,
\* perhaps before the server knows it.
CanLand(w) ==
  w \in Funded \ paid /\ ended = "no" /\ lobby.status \in {"awaiting_randomness", "open"}

\* confirmTransaction also returns when the transaction failed on the ledger.
PayReturns(succeeded) ==
  /\ page.payingFor # NoWallet
  /\ succeeded => CanLand(page.payingFor)
  /\ paid' = IF succeeded THEN paid \cup { page.payingFor } ELSE paid
  /\ LET sig == [ payer |-> page.payingFor, succeeded |-> succeeded ]
         p == [ page EXCEPT !.joinSig = sig, !.payingFor = NoWallet ]
     IN /\ page' = AfterHandshake(p)
        /\ up' = Sent(Handshake(p))
  /\ UNCHANGED << down, conn, server, troubles >>

\* Rejected by the visitor or the node, or landed and not confirmed in time.
PayFails(landed) ==
  /\ page.payingFor # NoWallet
  /\ Trouble
  /\ landed => CanLand(page.payingFor)
  /\ paid' = IF landed THEN paid \cup { page.payingFor } ELSE paid
  /\ page' = [ page EXCEPT !.payingFor = NoWallet ]
  /\ UNCHANGED << up, down, conn, server >>

StartPour ==
  /\ CanPour(page) /\ ~ page.pouring
  /\ page' = [ page EXCEPT !.pouring = TRUE ]
  /\ up' = Sent(<< Plain("pour_start") >>)
  /\ UNCHANGED << down, conn, server, paid, troubles >>

Released(p) == [ p EXCEPT !.pouring = FALSE, !.localLocked = TRUE ]

EndPour ==
  /\ page.pouring
  /\ page' = Released(page)
  /\ up' = Sent(<< Plain("pour_stop") >>)
  /\ UNCHANGED << down, conn, server, paid, troubles >>

\* onExpire of the countdown, which runs while the round is shown.
Expires ==
  /\ page.config # NoWallet /\ ~ Played(page) /\ ~ page.expired
  /\ page' = [ (IF page.pouring THEN Released(page) ELSE page) EXCEPT !.expired = TRUE ]
  /\ up' = IF page.pouring THEN Sent(<< Plain("pour_stop") >>) ELSE up
  /\ UNCHANGED << down, conn, server, paid, troubles >>

-----------------------------------------------------------------------------
(* The connection *)

\* onopen, and the handshake of the page that sees the new status.
Opens ==
  /\ page.token # NoWallet /\ page.status = "connecting"
  /\ conn' = [ wallet |-> NoWallet, watching |-> FALSE, joined |-> FALSE ]
  /\ LET p == [ page EXCEPT !.status = "open" ]
     IN /\ page' = AfterHandshake(p)
        /\ up' = << HelloMessage(page.token), Plain("watch_lobby") >>
                 \o (IF page.joinTx = NoSig THEN << >> ELSE << JoinMessage(page.joinTx) >>)
                 \o Handshake(p)
  /\ UNCHANGED << down, server, paid, troubles >>

\* The connection is lost, or does not come about.
Closes ==
  /\ page.token # NoWallet /\ page.status \in {"connecting", "open"}
  /\ Trouble
  /\ page' = [ page EXCEPT !.status = "closed" ]
  /\ Disconnected
  /\ UNCHANGED << lobby, pours, ending, paid >>

Reconnects ==
  /\ page.token # NoWallet /\ page.status = "closed"
  /\ page' = [ page EXCEPT !.status = "connecting" ]
  /\ UNCHANGED << up, down, conn, server, paid, troubles >>

\* handleMessage of the hook.
Applied(p, m) ==
  CASE m.type = "lobby_state" -> [ p EXCEPT !.view = m.lobby ]
    [] m.type = "round_config" -> [ p EXCEPT !.config = m.wallet ]
    [] m.type = "pour_result" -> [ p EXCEPT !.result = m.wallet ]
    [] m.type = "settled" -> [ p EXCEPT !.settled = TRUE ]

Receives ==
  /\ down # << >>
  /\ page' = Applied(page, Head(down))
  /\ down' = Tail(down)
  /\ UNCHANGED << up, conn, server, paid, troubles >>

-----------------------------------------------------------------------------
(* The gateway *)

StateMessage(l) == [ type |-> "lobby_state", lobby |-> l ]

\* Mutant: only players are told.
SubscribedByJoin == conn # NoConn /\ conn.joined

Subscribed == conn # NoConn /\ (conn.watching \/ conn.joined)
Broadcast(msgs) == IF Subscribed THEN down \o msgs ELSE down

Handles(type) == conn # NoConn /\ up # << >> /\ Head(up).type = type /\ up' = Tail(up)
Await(step, wallet, sig, connected) ==
  handlers' = Append(handlers,
    [ step |-> step, wallet |-> wallet, sig |-> sig, connected |-> connected ])

Hello ==
  /\ Handles("hello")
  /\ conn' = [ conn EXCEPT !.wallet = Head(up).wallet ]
  /\ UNCHANGED << page, down, server, paid, troubles >>

\* Mutant: a new watcher waits for the next change.
NothingYet(l) == << >>

\* The first thing a watcher gets is the current state.
Greeting(l) == << StateMessage(l) >>

WatchLobby ==
  /\ Handles("watch_lobby")
  /\ conn' = [ conn EXCEPT !.watching = TRUE ]
  /\ down' = down \o Greeting(lobby)
  /\ unsaid' = FALSE
  /\ UNCHANGED << page, lobby, pours, handlers, tasks, ended, paid, troubles >>

RoundConfig(wallet) == << [ type |-> "round_config", wallet |-> wallet ] >>

\* confirmJoin: a repeated join gets its round back at once, a new one asks
\* the ledger, and only an open lobby is joined.
JoinLobby ==
  /\ Handles("join_lobby")
  /\ CASE lobby.status = "open" /\ lobby.players[conn.wallet] # "none" ->
            /\ conn' = [ conn EXCEPT !.joined = TRUE, !.watching = TRUE ]
            /\ down' = down \o RoundConfig(conn.wallet)
            /\ UNCHANGED handlers
       [] lobby.status = "open" /\ lobby.players[conn.wallet] = "none" ->
            /\ Await("confirm", conn.wallet, Head(up).sig, TRUE)
            /\ UNCHANGED << conn, down >>
       [] lobby.status # "open" -> UNCHANGED << conn, down, handlers >>
  /\ UNCHANGED << page, lobby, pours, ending, paid, troubles >>

\* A pour needs a join on this connection and a seat without a result.
PourStarts ==
  /\ Handles("pour_start")
  /\ pours' = IF conn.joined /\ lobby.players[conn.wallet] = "playing"
              THEN pours \cup { conn.wallet }
              ELSE pours
  /\ UNCHANGED << page, down, conn, lobby, handlers, ending, paid, troubles >>

MayRecord(w) == lobby.status = "open" /\ lobby.players[w] = "playing"

PourStops ==
  /\ Handles("pour_stop")
  /\ IF conn.joined /\ conn.wallet \in pours
     THEN /\ pours' = pours \ { conn.wallet }
          /\ IF MayRecord(conn.wallet)
             THEN /\ lobby' = [ lobby EXCEPT !.players[conn.wallet] = "done" ]
                  /\ Await("report", conn.wallet, NoSig, TRUE)
             ELSE UNCHANGED << lobby, handlers >>
     ELSE UNCHANGED << pours, lobby, handlers >>
  /\ UNCHANGED << page, down, conn, ending, paid, troubles >>

\* handleTimeout: nobody is sent a pour_result.
TimerFires(w) ==
  /\ MayRecord(w)
  /\ lobby' = [ lobby EXCEPT !.players[w] = "done" ]
  /\ pours' = pours \ {w}
  /\ Await("report", w, NoSig, FALSE)
  /\ UNCHANGED << page, up, down, conn, ending, paid, troubles >>

-----------------------------------------------------------------------------
(* Handlers after their await *)

Answers(h, msgs) == IF h.connected THEN msgs ELSE << >>

\* Mutant: a join transaction that succeeded is proof enough.
SignatureGiven(h) == h.sig.succeeded

\* The transaction succeeded, and the lobby account lists the wallet.
Confirmed(h) == h.sig.succeeded /\ h.wallet \in paid

JoinConfirmed(k) ==
  LET h == handlers[k] IN
  /\ h.step = "confirm" /\ Confirmed(h)
  /\ lobby.status = "open"
  /\ IF lobby.players[h.wallet] = "none"
     THEN /\ lobby' = [ lobby EXCEPT !.players[h.wallet] = "playing" ]
          /\ handlers' = [ handlers EXCEPT ![k].step = "join saved" ]
          /\ UNCHANGED << conn, down >>
     ELSE /\ handlers' = RemoveAt(handlers, k)
          /\ conn' = IF h.connected THEN [ conn EXCEPT !.joined = TRUE, !.watching = TRUE ] ELSE conn
          /\ down' = down \o Answers(h, RoundConfig(h.wallet))
          /\ UNCHANGED lobby
  /\ UNCHANGED << page, up, pours, ending, paid, troubles >>

\* Not on the ledger yet, no node to ask, or the lobby filled or closed
\* meanwhile.
JoinRefused(k) ==
  /\ handlers[k].step = "confirm"
  /\ handlers' = RemoveAt(handlers, k)
  /\ UNCHANGED << page, up, down, conn, lobby, pours, ending, paid, troubles >>

\* confirmJoin after persist(): the update, then the round to this player.
JoinSaved(k) ==
  LET h == handlers[k] IN
  /\ h.step = "join saved"
  /\ handlers' = RemoveAt(handlers, k)
  /\ conn' = IF h.connected THEN [ conn EXCEPT !.joined = TRUE, !.watching = TRUE ] ELSE conn
  /\ down' = Broadcast(<< StateMessage(lobby) >>) \o Answers(h, RoundConfig(h.wallet))
  /\ unsaid' = FALSE
  /\ UNCHANGED << page, up, lobby, pours, tasks, ended, paid, troubles >>

\* recordResult after submitResult and persist(); maybeSettle follows.
Reported(k) ==
  /\ handlers[k].step = "report"
  /\ handlers' = [ handlers EXCEPT ![k].step = "result" ]
  /\ down' = Broadcast(<< StateMessage(lobby) >>)
  /\ unsaid' = FALSE
  /\ UNCHANGED << page, up, conn, lobby, pours, tasks, ended, paid, troubles >>

\* maybeSettle is through: the player gets the result.
ResultSent(k) ==
  LET h == handlers[k] IN
  /\ h.step = "result"
  /\ handlers' = RemoveAt(handlers, k)
  /\ down' = down \o Answers(h, << [ type |-> "pour_result", wallet |-> h.wallet ] >>)
  /\ UNCHANGED << page, up, conn, lobby, pours, ending, paid, troubles >>

\* persist() of confirmJoin or recordResult is rejected, or one of maybeSettle,
\* which its caller awaits: the handler ends there, the seat and the result stay.
HandlerFails(k) ==
  /\ handlers[k].step # "confirm"
  /\ Trouble
  /\ handlers' = RemoveAt(handlers, k)
  /\ unsaid' = (unsaid \/ handlers[k].step = "report")
  /\ UNCHANGED << page, up, down, conn, lobby, pours, tasks, ended, paid >>

-----------------------------------------------------------------------------
(* The rest of the server *)

\* Common to every change of status: a handler returns from what it awaited, over,
\* sets the status whatever it is by now, and awaits next.
Turns(status, over, next) ==
  /\ over \subseteq tasks
  /\ lobby' = [ lobby EXCEPT !.status = status ]
  /\ tasks' = (tasks \ over) \cup next
  /\ UNCHANGED << page, up, down, conn, pours, handlers, paid, unsaid >>

\* awaitFulfillment; a lobby cancelled meanwhile stays so.
RoundOpens ==
  /\ lobby.status = "awaiting_randomness"
  /\ Turns("open", {}, {"opened"})
  /\ UNCHANGED << ended, troubles >>

SettleStarts ==
  /\ lobby.status = "open"
  /\ \A w \in Wallets : lobby.players[w] # "playing"
  /\ Turns("settling", {}, {"settling"})
  /\ UNCHANGED << ended, troubles >>

\* The ledger settles what has not ended there.
SettleReturns ==
  /\ ended = "no" /\ ended' = "settled"
  /\ Turns("settled", {"settle"}, {"settled"})
  /\ UNCHANGED troubles

\* Mutant: the save of the settlement is within the try.
TriedWithSave == {"settle", "settled"}

\* The call of which a failure is caught.
Tried == {"settle"}

\* The catch of maybeSettle, which announces nothing: settle_lobby is refused, as
\* always when the lobby has ended there, or it lands and its answer is lost.
SettleFails ==
  /\ \E task \in Tried : Turns("open", {task}, {})
  /\ Trouble
  /\ ended' \in (IF ended = "no" THEN {"no", "settled"} ELSE {ended})

\* cancelIfExpired up to its call.  A call that is refused changes nothing; one that
\* lands names all players, so that none has joined meanwhile: both are one step.
CancelLands ==
  /\ lobby.status \in {"awaiting_randomness", "open"}
  /\ ended = "no" /\ ended' = "cancelled"
  /\ tasks' = tasks \cup {"cancel"}
  /\ UNCHANGED << page, up, down, conn, lobby, pours, handlers, paid, unsaid, troubles >>

\* The answer to such a call is lost, or someone else cancels the lobby.
CancelUnnoticed ==
  /\ ended = "no" /\ ended' = "cancelled"
  /\ Trouble
  /\ UNCHANGED << page, up, down, conn, lobby, pours, handlers, tasks, paid, unsaid >>

\* The rest of cancelIfExpired, which does not look at the status again.
CancelReturns == Turns("cancelled", {"cancel"}, {"cancelled"}) /\ UNCHANGED << ended, troubles >>

\* persist() is rejected: nothing is announced, and settle_lobby not called.
SaveFails(task) ==
  /\ task \in tasks /\ Trouble
  /\ tasks' = tasks \ {task}
  /\ unsaid' = (unsaid \/ task \in {"settled", "cancelled"})
  /\ UNCHANGED << page, up, down, conn, lobby, pours, handlers, paid, ended >>

\* emitUpdate: the state of the moment, not of the change.  The call of settle_lobby
\* follows that of "settling".
EmitUpdate(task) ==
  /\ task \in tasks
  /\ tasks' = (tasks \ {task}) \cup (IF task = "settling" THEN {"settle"} ELSE {})
  /\ down' = Broadcast(<< StateMessage(lobby) >>)
  /\ unsaid' = FALSE
  /\ UNCHANGED << page, up, conn, lobby, pours, handlers, paid, ended, troubles >>

\* The end of maybeSettle: the update, then the announcement.
EmitSettled ==
  /\ "settled" \in tasks
  /\ tasks' = tasks \ {"settled"}
  /\ down' = Broadcast(<< StateMessage(lobby), [ type |-> "settled" ] >>)
  /\ unsaid' = FALSE
  /\ UNCHANGED << page, up, conn, lobby, pours, handlers, paid, ended, troubles >>

-----------------------------------------------------------------------------
\* The steps that bring the lobby to its end, or fail to ...
Turning ==
  \/ RoundOpens \/ SettleStarts \/ SettleReturns \/ SettleFails
  \/ CancelLands \/ CancelUnnoticed \/ CancelReturns
  \/ \E task \in Saves : SaveFails(task)

\* ... and say so.
Announces == EmitSettled \/ \E task \in Saves \ {"settled"} : EmitUpdate(task)

\* By whom the actions are taken: the visitor's and the network's choices ...
Free ==
  \/ LoginStarts \/ LoginReturns \/ LoginFails \/ PayStarts
  \/ \E succeeded \in BOOLEAN : PayReturns(succeeded)
  \/ \E landed \in BOOLEAN : PayFails(landed)
  \/ StartPour \/ EndPour \/ Expires
  \/ \E w \in Wallets : SwitchWallet(w)
  \/ Closes
  \/ \E k \in DOMAIN handlers : JoinRefused(k) \/ HandlerFails(k)
  \/ Turning

\* ... and what happens of itself.
Hook == Opens \/ Reconnects \/ Receives
Gateway == Hello \/ WatchLobby \/ JoinLobby \/ PourStarts \/ PourStops
Manager ==
  \/ \E w \in Wallets : TimerFires(w)
  \/ \E k \in DOMAIN handlers :
       JoinConfirmed(k) \/ JoinSaved(k) \/ Reported(k) \/ ResultSent(k)
  \/ Announces

Next == Free \/ Hook \/ Gateway \/ Manager

Spec == Init /\ [][Next]_vars

\* Fairness: the page opens, reopens and reads its socket (the losses are finite),
\* the gateway reads its messages, reports and saves that are awaited come back.
FairSpec ==
  /\ Spec
  /\ WF_vars(Hook) /\ WF_vars(Gateway)
  /\ WF_vars(\E k \in DOMAIN handlers : Reported(k)) /\ WF_vars(Announces)

-----------------------------------------------------------------------------
(* Properties *)

\* Every variable holds what its TypeScript type can hold.
TypeOK ==
  /\ page \in Page
  /\ up \in Seq(ClientMessage)
  /\ conn \in ConnState \cup {NoConn}
  /\ lobby \in LobbyState
  /\ pours \subseteq Wallets
  /\ handlers \in Seq(Handler)
  /\ tasks \subseteq Tasks
  /\ paid \subseteq Wallets
  /\ ended \in {"no", "settled", "cancelled"} /\ unsaid \in BOOLEAN
  /\ troubles \in 0 .. MaxTroubles

\* The round (target and pressure) reaches a page only for a wallet that has
\* paid on the ledger and has its seat, over reconnects, repeated joins and
\* wallet changes, from the moment the message is sent (ws.ts:111, lobby.ts:248).
RoundForPaid ==
  LET shown == { page.config } \cup
               { down[k].wallet : k \in { j \in DOMAIN down : down[j].type = "round_config" } }
  IN \A w \in shown \ {NoWallet} : w \in paid /\ lobby.players[w] # "none"

\* What a page shows it takes back only where the server does, whatever connection
\* the next message comes by (ws.ts:47-54).  An end that is shown is how the lobby
\* has ended on the ledger, so that a lobby shown as cancelled never becomes a
\* settled one; a settled lobby, a recorded result and a round that has begun stay
\* shown.  A cancelled lobby may be shown open or settling again: a settlement that
\* was under way is then refused, and its catch opens the lobby (lobby.ts:458, 502).
NeverBack ==
  [][ page.view # NoView =>
        /\ page'.view # NoView
        /\ page'.view.status \in {"settled", "cancelled"} => ended' = page'.view.status
        /\ page.view.status = "settled" => page'.view.status = "settled"
        /\ page.view.status # "awaiting_randomness" =>
             page'.view.status # "awaiting_randomness"
        /\ \A w \in Wallets : page.view.players[w] = "done" => page'.view.players[w] = "done" ]_vars

\* The states of the lobby the page shows or has on its way.
Sights ==
  { page.view } \cup
  { down[k].lobby : k \in { j \in DOMAIN down : down[j].type = "lobby_state" } }

\* What the page has not asked for yet it asks for in watch_lobby, and a
\* connection that asked is watching.
Asked == conn # NoConn /\ \A k \in DOMAIN up : up[k].type # "watch_lobby"

\* A report of w's result is under way; the update follows it.
Reporting(w) ==
  \E k \in DOMAIN handlers : handlers[k].step = "report" /\ handlers[k].wallet = w

\* Nothing final gets lost between the gateway's snapshots and broadcasts: an end
\* or a result that a watching page does not show is on its way to it, or whoever
\* brought it about is still to broadcast it, whatever was sent over connections
\* that are gone and however handlers and messages follow each other (ws.ts:47-75,
\* useGameSocket.ts:219-232).  A rejected persist() keeps its announcement back
\* (lobby.ts:422, 475, 504); from the next state that is sent on, all is told again.
NewsOnItsWay ==
  Asked =>
    /\ conn.watching
    /\ unsaid \/ ( /\ lobby.status \in {"settled", "cancelled"} =>
                        lobby.status \in tasks \/ \E v \in Sights \ {NoView} : v.status = lobby.status
                   /\ \A w \in Wallets : lobby.players[w] = "done" =>
                        Reporting(w) \/ \E v \in Sights \ {NoView} : v.players[w] = "done" )

\* The page shows the lobby, with its end and with every recorded result.
UpToDate ==
  /\ page.view # NoView
  /\ lobby.status \in {"settled", "cancelled"} => page.view.status = lobby.status
  /\ \A w \in Wallets : lobby.players[w] = "done" => page.view.players[w] = "done"

\* At whatever time a page is logged in, it comes to show all that is final about
\* the lobby, unless it logs out or a rejected persist() keeps something back: what
\* was announced while the connection was down it gets on the next one, as
\* watch_lobby is sent after each connect and answered with the current state
\* (useGameSocket.ts:15).
CatchesUp ==
  page.token # NoWallet ~> page.token = NoWallet \/ unsaid \/ UpToDate

\* page.tsx:85-87: as soon as there is a join signature and the socket is open
\* the page has told the server of that join.
JoinAnnounced ==
  page.joinSig # NoSig /\ page.status = "open" => page.joinTx = page.joinSig
=============================================================================
