-------------------------------- MODULE Login --------------------------------
(***************************************************************************)
(* The wallet login: AuthService of auth.ts over its JsonStore, and the    *)
(* pages that ask for a nonce, have it signed and send the signature       *)
(* (doLogin, doGuestLogin, api.ts).  The server never waits for the store  *)
(* here: persist() is fire and forget.  A request may reach the server     *)
(* twice, the process may die, a write may fail.                           *)
(***************************************************************************)
EXTENDS Naturals, FiniteSets, JsonStore

CONSTANTS
  Wallets,
  NONCE_TTL, TOKEN_TTL,
  MaxNow,       \* the clock runs from 0 to MaxNow
  MaxNonces,    \* nonces asked for
  MaxTroubles,  \* process deaths, failed writes and repeated requests together
  NoWallet

ASSUME LoginBounds ==
  /\ NONCE_TTL \in Nat /\ TOKEN_TTL \in Nat
  /\ MaxNow \in Nat /\ MaxNonces \in Nat /\ MaxTroubles \in Nat
  /\ NoWallet \notin Wallets

VARIABLES
  up,          \* the server process runs
  nonces,      \* AuthService.nonces
  now,
  configured,  \* AUTH_SECRET is set
  secret,      \* the HMAC secret: which boot drew it, 0 if configured
  boots,
  issued,      \* the k-th nonce ever drawn: for whom, when
  prompts,     \* nonces the pages have got and not signed
  requests,    \* signatures on their way to /auth/verify
  tokens,      \* tokens handed out, in order
  troubles,
  unsaved      \* the last write failed

service == << nonces, secret, boots, up >>
clients == << issued, prompts, requests, tokens >>
vars == << storeVars, service, clients, now, configured, troubles, unsaved >>

Entry == [ nonce : 1 .. MaxNonces, expiresAt : 0 .. MaxNow + NONCE_TTL ]
NonceMaps == UNION { [ S -> Entry ] : S \in SUBSET Wallets }

Signature == [ wallet : Wallets, nonce : 1 .. MaxNonces, signer : Wallets ]
Token == [ wallet : Wallets, iat : Nat, exp : Nat, secret : Nat, boot : Nat,
           by : Signature ]

\* What this store is given to save.
ASSUME NoncesAreStored == Snapshots = NonceMaps

NoNonces == [ w \in {} |-> 0 ]

Init ==
  /\ StoreInit
  /\ up = TRUE /\ nonces = NoNonces /\ boots = 1
  /\ configured \in BOOLEAN
  /\ secret = IF configured THEN 0 ELSE 1
  /\ now = 0
  /\ issued = << >> /\ prompts = {} /\ requests = {} /\ tokens = << >>
  /\ troubles = 0 /\ unsaved = FALSE

-----------------------------------------------------------------------------
(* AuthService *)

\* Mutant: an expired nonce is as good as another.
NeverExpired(entry) == FALSE

Expired(entry) == entry.expiresAt < now

Only(map, S) == [ w \in S |-> map[w] ]
Fresh(map) == Only(map, { w \in DOMAIN map : ~ (map[w].expiresAt < now) })

Trouble == troubles < MaxTroubles /\ troubles' = troubles + 1

\* persist: what is in memory now.
BecomeAndPersist(map) == nonces' = map /\ Save(map)

\* Mutant: a used nonce is only forgotten in memory.
ConsumeInMemory(wallet) ==
  nonces' = Only(nonces, DOMAIN nonces \ {wallet}) /\ UNCHANGED storeVars

\* Mutant: a used nonce stays good until it expires.
ConsumeLater(wallet) == UNCHANGED << nonces, storeVars >>

Consume(wallet) == BecomeAndPersist(Only(nonces, DOMAIN nonces \ {wallet}))

\* A new nonce overwrites the wallet's previous one.
CreateNonce(wallet) ==
  /\ up /\ Len(issued) < MaxNonces
  /\ issued' = Append(issued, [ wallet |-> wallet, at |-> now ])
  /\ BecomeAndPersist([ w \in DOMAIN nonces \cup {wallet} |->
                          IF w = wallet
                          THEN [ nonce |-> Len(issued'), expiresAt |-> now + NONCE_TTL ]
                          ELSE nonces[w] ])
  /\ prompts' = prompts \cup { [ wallet |-> wallet, nonce |-> Len(issued') ] }
  /\ UNCHANGED << up, secret, boots, requests, tokens, now, configured, troubles, unsaved >>

\* The page has the nonce signed by the account connected then.
Sign(prompt, signer) ==
  /\ prompts' = prompts \ {prompt}
  /\ requests' = requests \cup
       { [ wallet |-> prompt.wallet, nonce |-> prompt.nonce, signer |-> signer ] }
  /\ UNCHANGED << storeVars, service, issued, tokens, now, configured, troubles, unsaved >>

issueToken(sig) ==
  tokens' = Append(tokens,
    [ wallet |-> sig.wallet, iat |-> now, exp |-> now + TOKEN_TTL, secret |-> secret,
      boot |-> boots, by |-> sig ])

HasNonce(wallet) == wallet \in DOMAIN nonces /\ ~ Expired(nonces[wallet])

\* The signature is the wallet's, over the message with the nonce on record.
Verifies(sig) == sig.signer = sig.wallet /\ sig.nonce = nonces[sig.wallet].nonce

\* A wrong signature leaves the nonce in place, an expired one is dropped.
VerifyLogin(sig) ==
  /\ up
  /\ CASE HasNonce(sig.wallet) /\ Verifies(sig) -> Consume(sig.wallet) /\ issueToken(sig)
       [] HasNonce(sig.wallet) /\ ~ Verifies(sig) -> UNCHANGED << nonces, tokens, storeVars >>
       [] ~ HasNonce(sig.wallet) ->
            /\ IF sig.wallet \in DOMAIN nonces
               THEN BecomeAndPersist(Only(nonces, DOMAIN nonces \ {sig.wallet}))
               ELSE UNCHANGED << nonces, storeVars >>
            /\ UNCHANGED tokens
  /\ UNCHANGED << up, secret, boots, issued, prompts, now, configured, unsaved >>

Arrives(sig) == VerifyLogin(sig) /\ requests' = requests \ {sig} /\ UNCHANGED troubles

\* The request will arrive once more.
ArrivesTwice(sig) == VerifyLogin(sig) /\ Trouble /\ UNCHANGED requests

verifyToken(token) ==
  IF token.secret = secret /\ now =< token.exp THEN token.wallet ELSE NoWallet

PruneNonces ==
  /\ up /\ \E w \in DOMAIN nonces : Expired(nonces[w])
  /\ BecomeAndPersist(Fresh(nonces))
  /\ UNCHANGED << up, secret, boots, clients, now, configured, troubles, unsaved >>

-----------------------------------------------------------------------------
(* The store, the process and the clock *)

StoreWorks ==
  /\ up
  /\ \/ (WriteFile \/ Written) /\ UNCHANGED << troubles, unsaved >>
     \/ Rename /\ unsaved' = FALSE /\ UNCHANGED troubles
     \/ WriteFails /\ Trouble /\ unsaved' = TRUE
  /\ UNCHANGED << service, clients, now, configured >>

Crash ==
  /\ up /\ Trouble
  /\ up' = FALSE /\ nonces' = NoNonces
  /\ StoreDies
  /\ unsaved' = FALSE
  /\ UNCHANGED << secret, boots, clients, now, configured >>

\* Mutant: every boot draws its own secret.
DrawnSecret == boots'

SecretOfBoot == IF configured THEN 0 ELSE boots'

\* init: the saved nonces that have not expired.
Boot ==
  /\ ~ up /\ file # Torn
  /\ up' = TRUE /\ boots' = boots + 1
  /\ nonces' = IF file = NoFile THEN NoNonces ELSE Fresh(file)
  /\ secret' = SecretOfBoot
  /\ UNCHANGED << storeVars, clients, now, configured, troubles, unsaved >>

Tick ==
  /\ now < MaxNow /\ now' = now + 1
  /\ UNCHANGED << storeVars, service, clients, configured, troubles, unsaved >>

Next ==
  \/ \E w \in Wallets : CreateNonce(w)
  \/ \E p \in prompts, w \in Wallets : Sign(p, w)
  \/ \E sig \in requests : Arrives(sig) \/ ArrivesTwice(sig)
  \/ PruneNonces
  \/ StoreWorks
  \/ Crash \/ Boot
  \/ Tick

Spec == Init /\ [][Next]_vars

-----------------------------------------------------------------------------
(* Properties *)

\* Every variable holds what its TypeScript type can hold.
TypeOK ==
  /\ StoreTypeOK
  /\ up \in BOOLEAN /\ configured \in BOOLEAN /\ unsaved \in BOOLEAN
  /\ nonces \in NonceMaps
  /\ now \in 0 .. MaxNow /\ troubles \in 0 .. MaxTroubles
  /\ secret \in 0 .. boots
  /\ issued \in Seq([ wallet : Wallets, at : 0 .. MaxNow ])
  /\ prompts \subseteq [ wallet : Wallets, nonce : 1 .. MaxNonces ]
  /\ requests \subseteq Signature
  /\ tokens \in Seq(Token)

\* A nonce buys one token in the life of a process, however often and in which
\* order the signatures arrive (auth.ts:72, 95: single use).  Across a crash it
\* does not hold: the save of the used nonce may be lost.
SingleUse ==
  \A j, k \in DOMAIN tokens :
    tokens[j].by.nonce = tokens[k].by.nonce /\ tokens[j].boot = tokens[k].boot => j = k

\* Every token goes to the wallet whose key signed a nonce drawn for that
\* wallet no longer ago than its lifetime, although nonces are overwritten,
\* saved, loaded again and pruned in between (auth.ts:78-79, 97-119).
TokensEarned ==
  \A k \in DOMAIN tokens :
    LET token == tokens[k] IN
    /\ token.by.signer = token.wallet
    /\ issued[token.by.nonce].wallet = token.wallet
    /\ token.iat =< issued[token.by.nonce].at + NONCE_TTL

\* Nobody waits for the saves, yet once the queue has run empty and its last
\* write did not fail, the file holds the nonces in memory, those expired apart:
\* a restart then neither revives a used nonce nor loses one (auth.ts:58-67, 79).
FileCatchesUp ==
  up /\ queue = << >> /\ ~ unsaved =>
    Fresh(nonces) = IF file = NoFile THEN NoNonces ELSE Fresh(file)

\* With AUTH_SECRET set a token is good until it expires, over restarts;
\* without, until the restart (README.md:220, server/.env.example:6-7).
TokensSurvive ==
  \A k \in DOMAIN tokens :
    up /\ now =< tokens[k].exp =>
      (verifyToken(tokens[k]) = tokens[k].wallet <=> configured \/ tokens[k].boot = boots)

\* server/README.md:84: a nonce is single-use.
NonceSingleUse ==
  \A j, k \in DOMAIN tokens : tokens[j].by.nonce = tokens[k].by.nonce => j = k
=============================================================================
