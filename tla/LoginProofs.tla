----------------------------- MODULE LoginProofs -----------------------------
(***************************************************************************)
(* Proofs about Login for any number of wallets, nonces, restarts and      *)
(* repeated requests, and any lifetimes.                                   *)
(***************************************************************************)
EXTENDS Login, JsonStoreProofs

-----------------------------------------------------------------------------
(* Maps of nonces *)

\* What it takes for a map to be one AuthService can hold.
LEMMA MapTyped ==
  \A map : map \in NonceMaps <=>
    DOMAIN map \subseteq Wallets /\ map \in [ DOMAIN map -> Entry ]
<1>1. ASSUME NEW map, map \in NonceMaps
      PROVE  DOMAIN map \subseteq Wallets /\ map \in [ DOMAIN map -> Entry ]
  <2>1. PICK S \in SUBSET Wallets : map \in [ S -> Entry ]
    BY <1>1 DEF NonceMaps
  <2> QED BY <2>1
<1>2. ASSUME NEW map, DOMAIN map \subseteq Wallets, map \in [ DOMAIN map -> Entry ]
      PROVE  map \in NonceMaps
  BY <1>2 DEF NonceMaps
<1> QED BY <1>1, <1>2

LEMMA NoNoncesTyped == NoNonces \in NonceMaps /\ DOMAIN NoNonces = {}
<1>1. DOMAIN NoNonces = {} /\ NoNonces \in [ {} -> Entry ]
  BY DEF NoNonces
<1> QED BY <1>1, MapTyped

\* Taking wallets out of a map changes nothing for the others.
LEMMA OnlyTyped ==
  ASSUME NEW map \in NonceMaps, NEW S, S \subseteq DOMAIN map
  PROVE  /\ Only(map, S) \in NonceMaps
         /\ DOMAIN Only(map, S) = S
         /\ \A w \in S : Only(map, S)[w] = map[w]
<1>1. DOMAIN map \subseteq Wallets /\ map \in [ DOMAIN map -> Entry ]
  BY MapTyped
<1>2. DOMAIN Only(map, S) = S /\ \A w \in S : Only(map, S)[w] = map[w]
  BY DEF Only
<1>3. Only(map, S) \in [ S -> Entry ]
  BY <1>1 DEF Only
<1> QED BY <1>1, <1>2, <1>3, MapTyped

\* Every entry of the map is a nonce drawn for its wallet, with its lifetime.
Vouched(map, log) ==
  \A w \in DOMAIN map :
    /\ map[w].nonce \in DOMAIN log
    /\ log[map[w].nonce].wallet = w
    /\ map[w].expiresAt = log[map[w].nonce].at + NONCE_TTL

LEMMA NoNoncesVouched == \A log : Vouched(NoNonces, log)
BY NoNoncesTyped DEF Vouched

LEMMA OnlyVouched ==
  ASSUME NEW map \in NonceMaps, NEW S, S \subseteq DOMAIN map,
         NEW log, Vouched(map, log)
  PROVE  Vouched(Only(map, S), log)
BY OnlyTyped DEF Vouched

LEMMA FreshIsOnly ==
  ASSUME NEW map
  PROVE  \E S \in SUBSET DOMAIN map : Fresh(map) = Only(map, S)
BY DEF Fresh

-----------------------------------------------------------------------------
(* The inductive invariant *)

LogOK == boots \in Nat \ {0}

\* Whatever is in memory, in the chain or in the file was drawn by createNonce:
\* a restart loads nothing else.
NoncesVouched ==
  /\ Vouched(nonces, issued)
  /\ file # NoFile => Vouched(file, issued)
  /\ \A k \in DOMAIN queue : Vouched(queue[k], issued)

\* The process that handed out a token no longer has its nonce.
Spent ==
  \A k \in DOMAIN tokens :
    /\ tokens[k].boot =< boots
    /\ tokens[k].boot = boots =>
         \A w \in DOMAIN nonces : nonces[w].nonce # tokens[k].by.nonce

\* Which wallet a token names, and which secret it was made with.
TokensMade ==
  \A k \in DOMAIN tokens :
    /\ tokens[k].by.nonce \in DOMAIN issued
    /\ tokens[k].boot \in 1 .. boots
    /\ tokens[k].secret = IF configured THEN 0 ELSE tokens[k].boot

SecretKnown == secret = IF configured THEN 0 ELSE boots

IInv ==
  /\ TypeOK /\ StoreInv /\ LogOK
  /\ NoncesVouched
  /\ TokensMade /\ SecretKnown
  /\ Spent
  /\ SingleUse /\ TokensEarned

LEMMA InitIInv == Init => IInv
<1> SUFFICES ASSUME Init PROVE IInv
  OBVIOUS
<1>1. StoreInv
  BY StoreStarts DEF Init
<1>2. nonces = NoNonces /\ queue = << >> /\ file = NoFile /\ tokens = << >> /\ issued = << >>
  BY DEF Init, StoreInit
<1>3. TypeOK
  <2>1. StoreTypeOK /\ nonces \in NonceMaps
    BY <1>1, <1>2, NoNoncesTyped DEF StoreInv
  <2>2. issued \in Seq([ wallet : Wallets, at : 0 .. MaxNow ]) /\ tokens \in Seq(Token)
    BY <1>2, EmptySeq
  <2>3. secret \in 0 .. boots /\ now \in 0 .. MaxNow /\ troubles \in 0 .. MaxTroubles
    BY LoginBounds DEF Init
  <2> QED BY <2>1, <2>2, <2>3 DEF TypeOK, Init
<1>4. NoncesVouched
  BY <1>2, NoNoncesVouched DEF NoncesVouched
<1>5. TokensMade /\ Spent /\ SingleUse /\ TokensEarned
  BY <1>2 DEF TokensMade, Spent, SingleUse, TokensEarned
<1>6. LogOK /\ SecretKnown
  BY DEF Init, LogOK, SecretKnown
<1> QED BY <1>1, <1>3, <1>4, <1>5, <1>6 DEF IInv

-----------------------------------------------------------------------------
(* What steps of several actions have in common *)

Record == [ wallet : Wallets, at : 0 .. MaxNow ]

LEMMA TypesKnown ==
  ASSUME IInv
  PROVE  /\ issued \in Seq(Record) /\ tokens \in Seq(Token)
         /\ Len(issued) \in Nat /\ DOMAIN issued = 1 .. Len(issued)
         /\ Len(tokens) \in Nat /\ DOMAIN tokens = 1 .. Len(tokens)
         /\ nonces \in NonceMaps /\ queue \in Seq(Snapshots)
         /\ now \in Nat /\ boots \in Nat
BY LoginBounds DEF IInv, TypeOK, StoreTypeOK, LogOK, Record

\* The log only grows: what was vouched for stays so.
LEMMA LogGrows ==
  ASSUME NEW log \in Seq(Record), NEW r \in Record, NEW map, Vouched(map, log)
  PROVE  Vouched(map, Append(log, r))
<1>1. \A i \in DOMAIN log : i \in DOMAIN Append(log, r) /\ Append(log, r)[i] = log[i]
  BY AppendProperties, LenProperties
<1> QED BY <1>1 DEF Vouched

\* A map that goes into memory and into the chain.
LEMMA PersistKeeps ==
  ASSUME IInv, NEW map \in NonceMaps, BecomeAndPersist(map),
         NEW log, Vouched(map, log),
         file # NoFile => Vouched(file, log),
         \A k \in DOMAIN queue : Vouched(queue[k], log)
  PROVE  /\ StoreInv' /\ nonces' \in NonceMaps
         /\ Vouched(nonces', log)
         /\ file' # NoFile => Vouched(file', log)
         /\ \A k \in DOMAIN queue' : Vouched(queue'[k], log)
<1>1. map \in Snapshots /\ nonces' = map /\ Save(map)
  BY NoncesAreStored DEF BecomeAndPersist
<1>2. StoreInv'
  BY <1>1, SaveAsks DEF IInv
<1>3. queue \in Seq(Snapshots) /\ queue' = Append(queue, map) /\ file' = file
  BY <1>1, TypesKnown DEF Save
<1>4. \A k \in DOMAIN queue' : Vouched(queue'[k], log)
  BY <1>1, <1>3, AppendProperties, LenProperties
<1> QED BY <1>1, <1>2, <1>3, <1>4

\* The store moves snapshots along the chain and into the file, it makes none.
LEMMA StoreKeeps ==
  ASSUME IInv, WriteFile \/ Written \/ Rename \/ WriteFails \/ StoreDies \/ UNCHANGED storeVars
  PROVE  /\ StoreInv'
         /\ file' # NoFile => Vouched(file', issued)
         /\ \A k \in DOMAIN queue' : Vouched(queue'[k], issued)
<1>1. StoreInv'
  BY StoreStep DEF IInv, StoreNext
<1>2. file # NoFile => Vouched(file, issued)
  BY DEF IInv, NoncesVouched
<1>3. \A k \in DOMAIN queue : Vouched(queue[k], issued)
  BY DEF IInv, NoncesVouched
<1>4. queue \in Seq(Snapshots)
  BY TypesKnown
<1>5. queue # << >> => \A k \in DOMAIN Tail(queue) : Vouched(Tail(queue)[k], issued)
  BY <1>3, <1>4, HeadTailProperties, LenProperties
<1>6. queue # << >> => Vouched(Head(queue), issued)
  <2>1. ASSUME queue # << >> PROVE 1 \in DOMAIN queue /\ Head(queue) = queue[1]
    BY <1>4, <2>1, EmptySeq, LenProperties
  <2> QED BY <1>3, <2>1
<1>7. CASE WriteFile \/ Written \/ UNCHANGED storeVars
  BY <1>1, <1>2, <1>3, <1>7 DEF WriteFile, Written, storeVars
<1>8. CASE Rename
  <2>1. queue # << >> /\ file' = Head(queue) /\ queue' = Tail(queue)
    BY <1>8 DEF Rename, MayRename, IInv, StoreInv
  <2> QED BY <1>1, <1>5, <1>6, <2>1
<1>9. CASE WriteFails
  BY <1>1, <1>2, <1>5, <1>9 DEF WriteFails
<1>10. CASE StoreDies
  BY <1>1, <1>2, <1>10 DEF StoreDies
<1> QED BY <1>7, <1>8, <1>9, <1>10

\* Steps that hand out neither nonce nor token leave the tokens good.
LEMMA TokensKept ==
  ASSUME IInv, UNCHANGED << tokens, issued, configured, boots, secret >>,
         \A w \in DOMAIN nonces' :
           \E v \in DOMAIN nonces : nonces'[w].nonce = nonces[v].nonce
  PROVE  TokensMade' /\ SecretKnown' /\ Spent' /\ SingleUse' /\ TokensEarned'
<1>1. TokensMade' /\ SecretKnown' /\ SingleUse' /\ TokensEarned'
  BY DEF IInv, TokensMade, SecretKnown, SingleUse, TokensEarned
<1>2. Spent'
  BY DEF IInv, Spent
<1> QED BY <1>1, <1>2

\* Forgetting nonces, in memory and for the file.
LEMMA Forgets ==
  ASSUME IInv, NEW S, S \subseteq DOMAIN nonces, BecomeAndPersist(Only(nonces, S)),
         UNCHANGED << issued, tokens, configured, boots, secret >>
  PROVE  /\ StoreInv' /\ nonces' \in NonceMaps /\ NoncesVouched'
         /\ TokensMade' /\ SecretKnown' /\ Spent' /\ SingleUse' /\ TokensEarned'
<1> DEFINE map == Only(nonces, S)
<1>1. /\ map \in NonceMaps /\ DOMAIN map = S /\ \A w \in S : map[w] = nonces[w]
      /\ Vouched(map, issued)
  BY TypesKnown, OnlyTyped, OnlyVouched DEF IInv, NoncesVouched
<1>2. nonces' = map
  BY DEF BecomeAndPersist
<1> HIDE DEF map
<1>3. StoreInv' /\ nonces' \in NonceMaps /\ NoncesVouched'
  <2>1. BecomeAndPersist(map)
    BY DEF map
  <2> QED BY <1>1, <2>1, PersistKeeps DEF IInv, NoncesVouched
<1>4. \A w \in DOMAIN nonces' : \E v \in DOMAIN nonces : nonces'[w].nonce = nonces[v].nonce
  BY <1>1, <1>2
<1> QED BY <1>3, <1>4, TokensKept

-----------------------------------------------------------------------------
(* The steps *)

\* A nonce that has just been drawn is nobody else's and was never spent.
LEMMA CreateNonceStep ==
  ASSUME IInv, NEW wallet \in Wallets, CreateNonce(wallet)
  PROVE  IInv'
<1> DEFINE entry == [ nonce |-> Len(issued'), expiresAt |-> now + NONCE_TTL ]
           map == [ w \in DOMAIN nonces \cup {wallet} |->
                      IF w = wallet THEN entry ELSE nonces[w] ]
           r == [ wallet |-> wallet, at |-> now ]
<1>1. /\ issued' = Append(issued, r) /\ r \in Record
      /\ Len(issued) < MaxNonces /\ BecomeAndPersist(map)
  BY DEF CreateNonce, IInv, TypeOK, Record
<1>2. /\ issued' \in Seq(Record) /\ Len(issued') = Len(issued) + 1
      /\ issued'[Len(issued) + 1] = r /\ DOMAIN issued' = 1 .. Len(issued) + 1
      /\ \A i \in DOMAIN issued : issued'[i] = issued[i]
  BY <1>1, TypesKnown, AppendProperties, LenProperties
<1>3. entry \in Entry
  BY <1>1, <1>2, TypesKnown, LoginBounds DEF Entry, IInv, TypeOK
<1>4. map \in NonceMaps /\ DOMAIN map = DOMAIN nonces \cup {wallet}
  <2>1. DOMAIN nonces \subseteq Wallets /\ nonces \in [ DOMAIN nonces -> Entry ]
    BY TypesKnown, MapTyped
  <2>2. map \in [ DOMAIN nonces \cup {wallet} -> Entry ]
    BY <1>3, <2>1
  <2> QED BY <2>1, <2>2, MapTyped
<1>5. Vouched(map, issued')
  <2>1. Vouched(nonces, issued')
    BY <1>1, TypesKnown, LogGrows DEF IInv, NoncesVouched
  <2>2. \A w \in DOMAIN map : w # wallet => w \in DOMAIN nonces /\ map[w] = nonces[w]
    BY <1>4
  <2>3. map[wallet].nonce = Len(issued) + 1 /\ map[wallet].expiresAt = now + NONCE_TTL
    BY <1>2
  <2>4. Len(issued) + 1 \in DOMAIN issued'
    BY <1>2, TypesKnown
  <2> HIDE DEF map
  <2> QED BY <1>2, <2>1, <2>2, <2>3, <2>4 DEF Vouched
<1>6. nonces' = map
  BY <1>1 DEF BecomeAndPersist
<1>7. \A w \in DOMAIN map : map[w].nonce = Len(issued) + 1 \/
        (w \in DOMAIN nonces /\ map[w].nonce = nonces[w].nonce)
  BY <1>2, <1>4
<1> HIDE DEF map
<1>8. StoreInv' /\ NoncesVouched' /\ nonces' \in NonceMaps
  <2>1. file # NoFile => Vouched(file, issued')
    BY <1>1, TypesKnown, LogGrows DEF IInv, NoncesVouched
  <2>2. \A k \in DOMAIN queue : Vouched(queue[k], issued')
    BY <1>1, TypesKnown, LogGrows DEF IInv, NoncesVouched
  <2>3. /\ StoreInv' /\ nonces' \in NonceMaps
        /\ Vouched(nonces', issued')
        /\ file' # NoFile => Vouched(file', issued')
        /\ \A k \in DOMAIN queue' : Vouched(queue'[k], issued')
    BY <1>1, <1>4, <1>5, <2>1, <2>2, PersistKeeps
  <2> QED BY <2>3 DEF NoncesVouched
<1>9. TypeOK'
  <2>1. StoreTypeOK' /\ issued' \in Seq([ wallet : Wallets, at : 0 .. MaxNow ])
    BY <1>2, <1>8 DEF StoreInv, Record
  <2>2. prompts' \subseteq [ wallet : Wallets, nonce : 1 .. MaxNonces ]
    <3>1. Len(issued') \in 1 .. MaxNonces
      BY <1>1, <1>2, TypesKnown, LoginBounds
    <3> QED BY <3>1 DEF CreateNonce, IInv, TypeOK
  <2> QED BY <1>8, <2>1, <2>2 DEF CreateNonce, IInv, TypeOK
<1>10. tokens' = tokens /\ boots' = boots /\ configured' = configured /\ secret' = secret
  BY DEF CreateNonce
<1>11. TokensMade' /\ SecretKnown' /\ LogOK'
  BY <1>2, <1>10, TypesKnown DEF IInv, TokensMade, SecretKnown, LogOK
<1>12. Spent'
  <2>1. \A k \in DOMAIN tokens : tokens[k].by.nonce # Len(issued) + 1
    BY TypesKnown DEF IInv, TokensMade
  <2>2. ASSUME NEW k \in DOMAIN tokens, tokens[k].boot = boots, NEW w \in DOMAIN map
        PROVE  map[w].nonce # tokens[k].by.nonce
    BY <1>7, <2>1, <2>2 DEF IInv, Spent
  <2> QED BY <1>6, <1>10, <2>2 DEF IInv, Spent
<1>13. SingleUse'
  BY <1>10 DEF IInv, SingleUse
<1>14. TokensEarned'
  BY <1>2, <1>10, TypesKnown DEF IInv, TokensEarned, TokensMade
<1> QED BY <1>8, <1>9, <1>11, <1>12, <1>13, <1>14 DEF IInv

\* A signature that is accepted: its nonce is spent with the token it buys.
LEMMA Accepted ==
  ASSUME IInv, NEW sig \in Signature, HasNonce(sig.wallet), Verifies(sig),
         Consume(sig.wallet), issueToken(sig),
         UNCHANGED << issued, configured, boots, secret, now >>
  PROVE  /\ StoreInv' /\ nonces' \in NonceMaps /\ NoncesVouched'
         /\ tokens' \in Seq(Token)
         /\ TokensMade' /\ SecretKnown' /\ Spent' /\ SingleUse' /\ TokensEarned'
<1> DEFINE wallet == sig.wallet
           S == DOMAIN nonces \ {wallet}
           map == Only(nonces, S)
           token == [ wallet |-> wallet, iat |-> now, exp |-> now + TOKEN_TTL,
                      secret |-> secret, boot |-> boots, by |-> sig ]
<1>1. /\ wallet \in DOMAIN nonces /\ ~ (nonces[wallet].expiresAt < now)
      /\ sig.signer = wallet /\ sig.nonce = nonces[wallet].nonce
  BY DEF HasNonce, Expired, Verifies
<1>2. BecomeAndPersist(map) /\ tokens' = Append(tokens, token)
  BY DEF Consume, issueToken
<1>3. /\ map \in NonceMaps /\ DOMAIN map = S /\ \A w \in S : map[w] = nonces[w]
      /\ Vouched(map, issued)
  BY TypesKnown, OnlyTyped, OnlyVouched DEF IInv, NoncesVouched
<1>4. nonces' = map
  BY <1>2 DEF BecomeAndPersist
<1> HIDE DEF map
<1>5. StoreInv' /\ nonces' \in NonceMaps /\ NoncesVouched'
  BY <1>2, <1>3, PersistKeeps DEF IInv, NoncesVouched
<1>6. /\ sig.nonce \in DOMAIN issued /\ issued[sig.nonce].wallet = wallet
      /\ nonces[wallet].expiresAt = issued[sig.nonce].at + NONCE_TTL
  BY <1>1 DEF IInv, NoncesVouched, Vouched
<1>7. token \in Token
  BY TypesKnown, LoginBounds DEF Token, Signature, IInv, TypeOK
<1>8. /\ tokens' \in Seq(Token) /\ Len(tokens') = Len(tokens) + 1
      /\ tokens'[Len(tokens) + 1] = token
      /\ DOMAIN tokens' = 1 .. Len(tokens) + 1
      /\ \A k \in DOMAIN tokens : tokens'[k] = tokens[k]
  BY <1>2, <1>7, TypesKnown, AppendProperties, LenProperties
<1>9. /\ token.by = sig /\ token.boot = boots /\ token.wallet = wallet
      /\ token.iat = now /\ token.secret = secret
  OBVIOUS
<1> HIDE DEF token
<1>10. \A k \in DOMAIN tokens' : k \in DOMAIN tokens \/ k = Len(tokens) + 1
  BY <1>8, TypesKnown
<1>11. TokensMade' /\ SecretKnown'
  BY <1>6, <1>8, <1>9, <1>10, TypesKnown DEF IInv, TokensMade, SecretKnown, LogOK
<1>12. \A w \in S : nonces[w].nonce # sig.nonce
  BY <1>6 DEF IInv, NoncesVouched, Vouched
<1>13. Spent'
  BY <1>3, <1>4, <1>8, <1>9, <1>10, <1>12, TypesKnown DEF IInv, Spent
<1>14. \A k \in DOMAIN tokens : tokens[k].boot = boots => tokens[k].by.nonce # sig.nonce
  BY <1>1 DEF IInv, Spent
<1>15. SingleUse'
  BY <1>8, <1>9, <1>10, <1>14 DEF IInv, SingleUse
<1>16. TokensEarned'
  <2>1. now =< issued[sig.nonce].at + NONCE_TTL
    <3>1. nonces[wallet].expiresAt \in Nat
      <4>1. nonces[wallet] \in Entry
        BY <1>1, TypesKnown, MapTyped
      <4> QED BY <4>1, LoginBounds DEF Entry
    <3> QED BY <1>1, <1>6, <3>1, TypesKnown
  <2> QED BY <1>1, <1>6, <1>8, <1>9, <1>10, <2>1 DEF IInv, TokensEarned
<1> QED BY <1>5, <1>8, <1>11, <1>13, <1>15, <1>16

LEMMA VerifyLoginStep ==
  ASSUME IInv, NEW sig \in requests, VerifyLogin(sig),
         requests' \subseteq requests, troubles' \in 0 .. MaxTroubles
  PROVE  IInv'
<1> DEFINE wallet == sig.wallet
<1>1. /\ sig \in Signature
      /\ UNCHANGED << up, secret, boots, issued, prompts, now, configured, unsaved >>
  BY DEF VerifyLogin, IInv, TypeOK
<1>2. /\ StoreInv' /\ nonces' \in NonceMaps /\ NoncesVouched'
      /\ tokens' \in Seq(Token)
      /\ TokensMade' /\ SecretKnown' /\ Spent' /\ SingleUse' /\ TokensEarned'
  <2>1. CASE HasNonce(wallet) /\ Verifies(sig)
    <3>1. Consume(wallet) /\ issueToken(sig)
      BY <2>1 DEF VerifyLogin
    <3> QED BY <1>1, <2>1, <3>1, Accepted
  <2>2. CASE UNCHANGED << nonces, tokens, storeVars >>
    <3>1. TokensMade' /\ SecretKnown' /\ Spent' /\ SingleUse' /\ TokensEarned'
      BY <1>1, <2>2, TokensKept
    <3>2. StoreInv' /\ NoncesVouched'
      BY <1>1, <2>2, StoreKeeps DEF NoncesVouched, IInv
    <3> QED BY <2>2, <3>1, <3>2, TypesKnown
  <2>3. CASE /\ BecomeAndPersist(Only(nonces, DOMAIN nonces \ {wallet}))
             /\ UNCHANGED tokens
    <3>1. DOMAIN nonces \ {wallet} \subseteq DOMAIN nonces
      OBVIOUS
    <3> QED BY <1>1, <2>3, <3>1, Forgets, TypesKnown
  <2>4. CASE HasNonce(wallet) /\ ~ Verifies(sig)
    BY <2>2, <2>4 DEF VerifyLogin
  <2>5. CASE ~ HasNonce(wallet)
    BY <2>2, <2>3, <2>5 DEF VerifyLogin
  <2> QED BY <2>1, <2>4, <2>5
<1>3. TypeOK' /\ LogOK'
  BY <1>1, <1>2 DEF IInv, TypeOK, StoreInv, LogOK
<1> QED BY <1>2, <1>3 DEF IInv

LEMMA TroubleCounted ==
  ASSUME IInv, Trouble
  PROVE  troubles' \in 0 .. MaxTroubles
<1>1. troubles \in 0 .. MaxTroubles
  BY DEF IInv, TypeOK
<1> QED BY <1>1, LoginBounds DEF Trouble

LEMMA StoreWorksStep ==
  ASSUME IInv, StoreWorks
  PROVE  IInv'
<1>1. UNCHANGED << service, clients, now, configured >>
  BY DEF StoreWorks
<1>2. WriteFile \/ Written \/ Rename \/ WriteFails
  BY DEF StoreWorks
<1>3. StoreInv' /\ NoncesVouched'
  BY <1>1, <1>2, StoreKeeps DEF IInv, NoncesVouched, service, clients
<1>4. TokensMade' /\ SecretKnown' /\ Spent' /\ SingleUse' /\ TokensEarned'
  BY <1>1, TokensKept DEF service, clients
<1>5. troubles' \in 0 .. MaxTroubles /\ unsaved' \in BOOLEAN
  <2>1. troubles' \in 0 .. MaxTroubles
    BY TroubleCounted DEF StoreWorks, IInv, TypeOK
  <2>2. unsaved' \in BOOLEAN
    BY DEF StoreWorks, IInv, TypeOK
  <2> QED BY <2>1, <2>2
<1>6. TypeOK' /\ LogOK'
  BY <1>1, <1>3, <1>5 DEF IInv, TypeOK, StoreInv, LogOK, service, clients
<1> QED BY <1>3, <1>4, <1>6 DEF IInv

\* The nonces of the dead process are gone, what was in the chain with them.
LEMMA CrashStep ==
  ASSUME IInv, Crash
  PROVE  IInv'
<1>1. /\ UNCHANGED << secret, boots, clients, now, configured >>
      /\ nonces' = NoNonces /\ StoreDies /\ troubles' \in 0 .. MaxTroubles
      /\ up' \in BOOLEAN /\ unsaved' \in BOOLEAN
  BY TroubleCounted DEF Crash
<1>2. StoreInv' /\ NoncesVouched'
  <2>1. /\ StoreInv'
        /\ file' # NoFile => Vouched(file', issued)
        /\ \A k \in DOMAIN queue' : Vouched(queue'[k], issued)
    BY <1>1, StoreKeeps
  <2> QED BY <1>1, <2>1, NoNoncesVouched DEF NoncesVouched, clients
<1>3. TokensMade' /\ SecretKnown' /\ Spent' /\ SingleUse' /\ TokensEarned'
  BY <1>1, TokensKept, NoNoncesTyped DEF clients
<1>4. TypeOK' /\ LogOK'
  BY <1>1, <1>2, NoNoncesTyped DEF IInv, TypeOK, StoreInv, LogOK, clients
<1> QED BY <1>2, <1>3, <1>4 DEF IInv

\* A new process has handed out nothing yet, so any nonce of the file will do.
LEMMA BootStep ==
  ASSUME IInv, Boot
  PROVE  IInv'
<1>1. /\ UNCHANGED << storeVars, clients, now, configured, troubles, unsaved >>
      /\ up' = TRUE /\ boots' = boots + 1
      /\ secret' = IF configured THEN 0 ELSE boots + 1
      /\ nonces' = IF file = NoFile THEN NoNonces ELSE Fresh(file)
  BY DEF Boot, SecretOfBoot
<1>2. nonces' \in NonceMaps /\ Vouched(nonces', issued)
  <2>1. CASE file = NoFile
    BY <1>1, <2>1, NoNoncesTyped, NoNoncesVouched
  <2>2. CASE file # NoFile
    <3>1. file \in NonceMaps /\ Vouched(file, issued)
      BY <2>2, NoncesAreStored DEF IInv, TypeOK, StoreTypeOK, NoncesVouched
    <3>2. PICK S \in SUBSET DOMAIN file : Fresh(file) = Only(file, S)
      BY FreshIsOnly
    <3> QED BY <1>1, <2>2, <3>1, <3>2, OnlyTyped, OnlyVouched
  <2> QED BY <2>1, <2>2
<1>3. StoreInv' /\ NoncesVouched'
  <2>1. /\ StoreInv'
        /\ file' # NoFile => Vouched(file', issued)
        /\ \A k \in DOMAIN queue' : Vouched(queue'[k], issued)
    BY <1>1, StoreKeeps
  <2> QED BY <1>1, <1>2, <2>1 DEF NoncesVouched, clients
<1>4. tokens' = tokens /\ issued' = issued
  BY <1>1 DEF clients
<1>5. TokensMade' /\ SecretKnown' /\ LogOK'
  BY <1>1, <1>4, TypesKnown DEF IInv, TokensMade, SecretKnown, LogOK
<1>6. Spent'
  BY <1>1, <1>4, TypesKnown DEF IInv, TokensMade, Spent
<1>7. SingleUse' /\ TokensEarned'
  BY <1>4 DEF IInv, SingleUse, TokensEarned
<1>8. TypeOK'
  <2>1. secret' \in 0 .. boots'
    BY <1>1, TypesKnown
  <2> QED BY <1>1, <1>2, <1>3, <2>1 DEF IInv, TypeOK, StoreInv, clients
<1> QED BY <1>3, <1>5, <1>6, <1>7, <1>8 DEF IInv

\* Signing, the clock and stuttering touch neither nonces nor tokens.
LEMMA QuietStep ==
  ASSUME IInv, UNCHANGED << storeVars, service, issued, tokens, configured, troubles, unsaved >>,
         prompts' \subseteq prompts, requests' \subseteq Signature, now' \in 0 .. MaxNow
  PROVE  IInv'
<1>1. StoreInv' /\ NoncesVouched'
  BY StoreKeeps DEF IInv, NoncesVouched, service
<1>2. TokensMade' /\ SecretKnown' /\ Spent' /\ SingleUse' /\ TokensEarned'
  BY TokensKept DEF service
<1>3. TypeOK' /\ LogOK'
  BY <1>1 DEF IInv, TypeOK, StoreInv, LogOK, service
<1> QED BY <1>1, <1>2, <1>3 DEF IInv

LEMMA StepIInv == IInv /\ [Next]_vars => IInv'
<1> SUFFICES ASSUME IInv, [Next]_vars
             PROVE  IInv'
  OBVIOUS
<1>1. ASSUME NEW w \in Wallets, CreateNonce(w) PROVE IInv'
  BY <1>1, CreateNonceStep
<1>2. ASSUME NEW p \in prompts, NEW w \in Wallets, Sign(p, w) PROVE IInv'
  <2>1. p \in [ wallet : Wallets, nonce : 1 .. MaxNonces ] /\ requests \subseteq Signature
    BY DEF IInv, TypeOK
  <2>2. requests' \subseteq Signature
    BY <1>2, <2>1 DEF Sign, Signature
  <2> QED BY <1>2, <2>2, QuietStep DEF Sign, IInv, TypeOK
<1>3. ASSUME NEW sig \in requests, Arrives(sig) PROVE IInv'
  BY <1>3, VerifyLoginStep DEF Arrives, IInv, TypeOK
<1>4. ASSUME NEW sig \in requests, ArrivesTwice(sig) PROVE IInv'
  <2>1. troubles' \in 0 .. MaxTroubles
    BY <1>4, TroubleCounted DEF ArrivesTwice
  <2> QED BY <1>4, <2>1, VerifyLoginStep DEF ArrivesTwice
<1>5. CASE PruneNonces
  <2>1. PICK S \in SUBSET DOMAIN nonces : Fresh(nonces) = Only(nonces, S)
    BY FreshIsOnly
  <2>2. /\ BecomeAndPersist(Only(nonces, S))
        /\ UNCHANGED << up, secret, boots, clients, now, configured, troubles, unsaved >>
    BY <1>5, <2>1 DEF PruneNonces
  <2>3. /\ StoreInv' /\ nonces' \in NonceMaps /\ NoncesVouched'
        /\ TokensMade' /\ SecretKnown' /\ Spent' /\ SingleUse' /\ TokensEarned'
    BY <2>2, Forgets DEF clients
  <2>4. TypeOK' /\ LogOK'
    BY <2>2, <2>3 DEF IInv, TypeOK, StoreInv, LogOK, clients
  <2> QED BY <2>3, <2>4 DEF IInv
<1>6. CASE StoreWorks
  BY <1>6, StoreWorksStep
<1>7. CASE Crash
  BY <1>7, CrashStep
<1>8. CASE Boot
  BY <1>8, BootStep
<1>9. CASE Tick
  <2>1. now' \in 0 .. MaxNow
    BY <1>9, LoginBounds DEF Tick, IInv, TypeOK
  <2> QED BY <1>9, <2>1, QuietStep DEF Tick, clients, IInv, TypeOK
<1>10. CASE UNCHANGED vars
  BY <1>10, QuietStep DEF vars, clients, IInv, TypeOK
<1> QED BY <1>1, <1>2, <1>3, <1>4, <1>5, <1>6, <1>7, <1>8, <1>9, <1>10 DEF Next

-----------------------------------------------------------------------------
(* Theorems *)

\* Memory, chain, file and tokens always hold what AuthService can put there.
THEOREM LoginTypeCorrect == Spec => []TypeOK
<1>1. IInv => TypeOK
  BY DEF IInv
<1> QED BY <1>1, InitIInv, StepIInv, PTL DEF Spec

\* A process never takes a nonce twice, for any number of wallets, requests in
\* any order, failed writes and restarts (auth.ts:72, 91-113).
THEOREM NonceSingleUsePerProcess == Spec => []SingleUse
<1>1. IInv => SingleUse
  BY DEF IInv
<1> QED BY <1>1, InitIInv, StepIInv, PTL DEF Spec

\* Every token was earned with a signature of its wallet over a nonce drawn for
\* it and still alive, restarts or not (auth.ts:73-119).
THEOREM TokensAreEarned == Spec => []TokensEarned
<1>1. IInv => TokensEarned
  BY DEF IInv
<1> QED BY <1>1, InitIInv, StepIInv, PTL DEF Spec

\* A token is good as long as it lives if AUTH_SECRET is set, otherwise as long
\* as its process lives (config.ts:89-92, auth.ts:125-147).
THEOREM TokensOutliveProcesses == Spec => []TokensSurvive
<1>1. IInv => TokensSurvive
  <2> SUFFICES ASSUME IInv, NEW k \in DOMAIN tokens, up, now =< tokens[k].exp
               PROVE  verifyToken(tokens[k]) = tokens[k].wallet <=>
                        configured \/ tokens[k].boot = boots
    BY DEF TokensSurvive
  <2>1. tokens[k].wallet # NoWallet
    <3>1. tokens[k] \in Token
      BY TypesKnown, ElementOfSeq
    <3> QED BY <3>1, LoginBounds DEF Token
  <2>2. tokens[k].secret = secret <=> configured \/ tokens[k].boot = boots
    BY DEF IInv, TokensMade, SecretKnown, LogOK
  <2> QED BY <2>1, <2>2 DEF verifyToken
<1> QED BY <1>1, InitIInv, StepIInv, PTL DEF Spec

\* Every step of the login service is one of its store, or leaves it alone.
LEMMA StepIsStoreStep == IInv /\ [Next]_vars => [StoreNext]_storeVars
<1> SUFFICES ASSUME IInv, [Next]_vars
             PROVE  [StoreNext]_storeVars
  OBVIOUS
<1>1. nonces' \in NonceMaps
  BY StepIInv DEF IInv, TypeOK
<1>2. ASSUME NEW map, BecomeAndPersist(map) PROVE StoreNext
  BY <1>1, <1>2, NoncesAreStored DEF BecomeAndPersist, StoreNext
<1>3. ASSUME NEW w \in Wallets, CreateNonce(w) PROVE StoreNext
  BY <1>2, <1>3 DEF CreateNonce
<1>4. ASSUME NEW sig \in requests, VerifyLogin(sig) PROVE [StoreNext]_storeVars
  <2>1. CASE HasNonce(sig.wallet) /\ Verifies(sig)
    BY <1>2, <1>4, <2>1 DEF VerifyLogin, Consume
  <2>2. CASE HasNonce(sig.wallet) /\ ~ Verifies(sig)
    BY <1>4, <2>2 DEF VerifyLogin
  <2>3. CASE ~ HasNonce(sig.wallet)
    BY <1>2, <1>4, <2>3 DEF VerifyLogin
  <2> QED BY <2>1, <2>2, <2>3
<1>5. CASE PruneNonces
  BY <1>2, <1>5 DEF PruneNonces
<1>6. CASE StoreWorks
  BY <1>6 DEF StoreWorks, StoreNext
<1>7. CASE Crash
  BY <1>7 DEF Crash, StoreNext
<1>8. CASE Boot \/ Tick \/ UNCHANGED vars \/ (\E p \in prompts, w \in Wallets : Sign(p, w))
  BY <1>8 DEF Boot, Tick, Sign, vars
<1> QED BY <1>3, <1>4, <1>5, <1>6, <1>7, <1>8 DEF Next, Arrives, ArrivesTwice

\* The nonces on disk and those still to be written are the register of
\* SnapshotStore: what a restart loads is the last snapshot that was completed.
THEOREM LoginStoreImplementsRegister == Spec => ImplementsRegister
<1>1. Init => Store!Init
  BY StoreStarts DEF Init
<1>2. IInv /\ [Next]_vars => [Store!Next]_(Store!vars)
  BY StepIsStoreStep, StoreStep DEF IInv
<1> QED BY <1>1, <1>2, InitIInv, StepIInv, PTL DEF Spec, ImplementsRegister, Store!Spec

-----------------------------------------------------------------------------
(* The file catches up with the memory *)

Alive(map, t) == { w \in DOMAIN map : ~ (map[w].expiresAt < t) }

\* The same nonces have not expired in both.
Agree(m, n, t) == Only(m, Alive(m, t)) = Only(n, Alive(n, t))

LEMMA FreshIsAlive == \A map : Fresh(map) = Only(map, Alive(map, now))
BY DEF Fresh, Alive

LEMMA AgreeMeans ==
  ASSUME NEW m \in NonceMaps, NEW n \in NonceMaps, NEW t
  PROVE  Agree(m, n, t) <=>
           Alive(m, t) = Alive(n, t) /\ \A w \in Alive(m, t) : m[w] = n[w]
<1>1. Alive(m, t) \subseteq DOMAIN m /\ Alive(n, t) \subseteq DOMAIN n
  BY DEF Alive
<1>2. ASSUME Agree(m, n, t)
      PROVE  Alive(m, t) = Alive(n, t) /\ \A w \in Alive(m, t) : m[w] = n[w]
  BY <1>1, <1>2, OnlyTyped DEF Agree
<1>3. ASSUME Alive(m, t) = Alive(n, t), \A w \in Alive(m, t) : m[w] = n[w]
      PROVE  Agree(m, n, t)
  BY <1>3 DEF Agree, Only
<1> QED BY <1>2, <1>3

\* Maps that agree now agree later: nothing expired comes back to life.
LEMMA AgreeLater ==
  ASSUME NEW m \in NonceMaps, NEW n \in NonceMaps, NEW t \in Nat, Agree(m, n, t)
  PROVE  Agree(m, n, t + 1)
<1>1. \A map \in NonceMaps : \A w \in DOMAIN map : map[w].expiresAt \in Nat
  <2> SUFFICES ASSUME NEW map \in NonceMaps, NEW w \in DOMAIN map
               PROVE  map[w].expiresAt \in Nat
    OBVIOUS
  <2>1. map[w] \in Entry
    BY MapTyped
  <2> QED BY <2>1, LoginBounds DEF Entry
<1>2. Alive(m, t) = Alive(n, t) /\ \A w \in Alive(m, t) : m[w] = n[w]
  BY AgreeMeans
<1>3. \A w \in Alive(m, t + 1) : w \in Alive(m, t)
  BY <1>1 DEF Alive
<1>4. \A w \in Alive(n, t + 1) : w \in Alive(n, t)
  BY <1>1 DEF Alive
<1>5. Alive(m, t + 1) = Alive(n, t + 1) /\ \A w \in Alive(m, t + 1) : m[w] = n[w]
  BY <1>2, <1>3, <1>4 DEF Alive
<1> QED BY <1>5, AgreeMeans

\* Loading drops what has expired, and that once and for all.
LEMMA FreshAgrees ==
  ASSUME NEW map \in NonceMaps
  PROVE  Fresh(map) \in NonceMaps /\ Agree(Fresh(map), map, now)
<1>1. Alive(map, now) \subseteq DOMAIN map
  BY DEF Alive
<1>2. /\ Fresh(map) \in NonceMaps /\ DOMAIN Fresh(map) = Alive(map, now)
      /\ \A w \in Alive(map, now) : Fresh(map)[w] = map[w]
  BY <1>1, FreshIsAlive, OnlyTyped
<1>3. Alive(Fresh(map), now) = Alive(map, now)
  BY <1>2 DEF Alive
<1> QED BY <1>2, <1>3, AgreeMeans

\* What a restart would load from.
OnDisk == IF file = NoFile THEN NoNonces ELSE file

\* The last save of the chain, or the file if the chain is empty and the last
\* write went well, holds what is in memory.
Pending ==
  /\ ~ up => queue = << >> /\ ~ unsaved
  /\ up /\ queue # << >> => Agree(queue[Len(queue)], nonces, now)
  /\ up /\ queue = << >> /\ ~ unsaved => Agree(OnDisk, nonces, now)

LEMMA InitPending == Init => Pending
BY DEF Init, StoreInit, Pending, OnDisk, Agree

LEMMA StoredTyped ==
  ASSUME IInv
  PROVE  /\ OnDisk \in NonceMaps
         /\ \A k \in DOMAIN queue : queue[k] \in NonceMaps
         /\ DOMAIN queue = 1 .. Len(queue) /\ Len(queue) \in Nat
         /\ queue # << >> => Len(queue) > 0
<1>1. queue \in Seq(Snapshots) /\ (file # NoFile => file \in NonceMaps)
  BY NoncesAreStored DEF IInv, TypeOK, StoreTypeOK
<1>2. OnDisk \in NonceMaps
  BY <1>1, NoNoncesTyped DEF OnDisk
<1> QED BY <1>1, <1>2, NoncesAreStored, LenProperties, EmptySeq

LEMMA PersistedIsPending ==
  ASSUME IInv, Pending, NEW map \in NonceMaps, BecomeAndPersist(map),
         UNCHANGED << up, now, unsaved >>, up
  PROVE  Pending'
<1>1. queue \in Seq(Snapshots) /\ queue' = Append(queue, map) /\ nonces' = map
  BY TypesKnown DEF BecomeAndPersist, Save
<1>2. queue' # << >> /\ queue'[Len(queue')] = map
  BY <1>1, NoncesAreStored, AppendProperties
<1> QED BY <1>1, <1>2 DEF Pending, Agree

\* The chain gets shorter at its head, its last save stays the last.
LEMMA LastStays ==
  ASSUME IInv, queue # << >>
  PROVE  /\ Tail(queue) # << >> => Tail(queue)[Len(Tail(queue))] = queue[Len(queue)]
         /\ Tail(queue) = << >> => Head(queue) = queue[Len(queue)]
<1>1. queue \in Seq(Snapshots) /\ Len(queue) \in Nat \ {0}
  BY TypesKnown, EmptySeq
<1>2. /\ Tail(queue) \in Seq(Snapshots) /\ Len(Tail(queue)) = Len(queue) - 1
      /\ \A i \in 1 .. Len(Tail(queue)) : Tail(queue)[i] = queue[i + 1]
  BY <1>1, HeadTailProperties
<1>3. Tail(queue) # << >> => Len(Tail(queue)) \in Nat \ {0}
  BY <1>2, EmptySeq
<1>4. Tail(queue) # << >> => Tail(queue)[Len(Tail(queue))] = queue[Len(queue)]
  BY <1>1, <1>2, <1>3
<1>5. Tail(queue) = << >> => Len(queue) = 1
  <2>1. Len(<< >>) = 0
    BY EmptySeq
  <2>2. ASSUME Tail(queue) = << >> PROVE Len(queue) - 1 = 0
    BY <1>2, <2>1, <2>2
  <2> QED BY <1>1, <2>2
<1>6. Tail(queue) = << >> => Head(queue) = queue[Len(queue)]
  <2>1. Head(queue) = queue[1]
    BY <1>1
  <2> QED BY <1>5, <2>1
<1> QED BY <1>4, <1>6

LEMMA StepPending == IInv /\ Pending /\ [Next]_vars => Pending'
<1> SUFFICES ASSUME IInv, Pending, [Next]_vars
             PROVE  Pending'
  OBVIOUS
<1> DEFINE Same == UNCHANGED << file, queue, nonces, up, now, unsaved >>
<1>1. CASE Same
  BY <1>1 DEF Pending, OnDisk
<1>2. nonces' \in NonceMaps
  BY StepIInv DEF IInv, TypeOK
<1>3. ASSUME NEW map, BecomeAndPersist(map), up, UNCHANGED << up, now, unsaved >>
      PROVE  Pending'
  BY <1>2, <1>3, PersistedIsPending DEF BecomeAndPersist
<1>4. ASSUME NEW w \in Wallets, CreateNonce(w) PROVE Pending'
  BY <1>3, <1>4 DEF CreateNonce
<1>5. ASSUME NEW sig \in requests, VerifyLogin(sig) PROVE Pending'
  <2>1. CASE HasNonce(sig.wallet) /\ Verifies(sig)
    BY <1>3, <1>5, <2>1 DEF VerifyLogin, Consume
  <2>2. CASE HasNonce(sig.wallet) /\ ~ Verifies(sig)
    BY <1>1, <1>5, <2>2 DEF VerifyLogin, storeVars
  <2>3. CASE ~ HasNonce(sig.wallet)
    BY <1>1, <1>3, <1>5, <2>3 DEF VerifyLogin, storeVars
  <2> QED BY <2>1, <2>2, <2>3
<1>6. CASE PruneNonces
  BY <1>3, <1>6 DEF PruneNonces
<1>7. CASE StoreWorks
  <2>1. up /\ UNCHANGED << up, nonces, now >>
    BY <1>7 DEF StoreWorks, service
  <2>2. CASE (WriteFile \/ Written) /\ UNCHANGED unsaved
    BY <1>1, <2>1, <2>2 DEF WriteFile, Written
  <2>3. CASE Rename /\ unsaved' = FALSE
    <3>1. queue # << >> /\ file' = Head(queue) /\ queue' = Tail(queue)
      BY <2>3 DEF Rename, MayRename, IInv, StoreInv
    <3>2. file' # NoFile
      BY <3>1, TypesKnown, HeadTailProperties, FilesDiffer
    <3> QED BY <2>1, <2>3, <3>1, <3>2, LastStays DEF Pending, OnDisk
  <2>4. CASE WriteFails /\ unsaved' = TRUE
    BY <2>1, <2>4, LastStays DEF WriteFails, Pending
  <2> QED BY <1>7, <2>2, <2>3, <2>4 DEF StoreWorks
<1>8. CASE Crash
  BY <1>8 DEF Crash, StoreDies, Pending
<1>9. CASE Boot
  <2>1. /\ queue = << >> /\ ~ unsaved /\ UNCHANGED << queue, file, now, unsaved >>
        /\ nonces' = IF file = NoFile THEN NoNonces ELSE Fresh(file)
    BY <1>9 DEF Boot, Pending, storeVars
  <2>2. Agree(OnDisk, nonces', now)
    <3>1. CASE file = NoFile
      BY <2>1, <3>1 DEF OnDisk, Agree
    <3>2. CASE file # NoFile
      BY <2>1, <3>2, StoredTyped, FreshAgrees DEF OnDisk, Agree
    <3> QED BY <3>1, <3>2
  <2> QED BY <1>9, <2>1, <2>2 DEF Boot, Pending, OnDisk
<1>10. CASE Tick
  <2>1. now' = now + 1 /\ UNCHANGED << file, queue, nonces, up, unsaved >>
    BY <1>10 DEF Tick, storeVars, service
  <2>2. queue # << >> => Len(queue) \in DOMAIN queue
    BY StoredTyped
  <2> QED BY <2>1, <2>2, AgreeLater, StoredTyped, TypesKnown DEF Pending, OnDisk
<1>11. CASE UNCHANGED vars \/ (\E p \in prompts, w \in Wallets : Sign(p, w))
  <2>1. UNCHANGED << storeVars, service, now, unsaved >>
    BY <1>11 DEF Sign, vars
  <2> QED BY <1>1, <2>1 DEF storeVars, service
<1> QED BY <1>4, <1>5, <1>6, <1>7, <1>8, <1>9, <1>10, <1>11 DEF Next, Arrives, ArrivesTwice

\* Once the chain has run empty and its last write went well, a restart would
\* load what is in memory, although nobody ever waits for a save (auth.ts:58-71).
THEOREM FileHoldsNonces == Spec => []FileCatchesUp
<1>1. IInv /\ Pending => FileCatchesUp
  <2> SUFFICES ASSUME IInv, Pending, up, queue = << >>, ~ unsaved
               PROVE  Fresh(nonces) = IF file = NoFile THEN NoNonces ELSE Fresh(file)
    BY DEF FileCatchesUp
  <2>1. Fresh(nonces) = Fresh(OnDisk)
    BY FreshIsAlive DEF Pending, Agree
  <2>2. Fresh(NoNonces) = NoNonces
    BY NoNoncesTyped DEF Fresh, Only, NoNonces
  <2> QED BY <2>1, <2>2 DEF OnDisk
<1>2. Init => IInv /\ Pending
  BY InitIInv, InitPending
<1>3. IInv /\ Pending /\ [Next]_vars => IInv' /\ Pending'
  BY StepIInv, StepPending
<1> QED BY <1>1, <1>2, <1>3, PTL DEF Spec
=============================================================================
