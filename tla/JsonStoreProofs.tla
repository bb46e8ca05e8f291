--------------------------- MODULE JsonStoreProofs ---------------------------
(***************************************************************************)
(* JsonStore is the register its callers take it for, whatever they save,  *)
(* however many saves are asked for and however often the process dies.    *)
(***************************************************************************)
EXTENDS JsonStore, SequenceTheorems, TLAPS

\* Between writeFile and rename the temporary file holds the snapshot of the
\* first save of the chain: what is renamed is what is taken off the chain.
StoreInv ==
  /\ StoreTypeOK
  /\ writing # "no" => queue # << >>
  /\ writing = "rename" => tmp = Head(queue)

LEMMA StoreStarts == StoreInit => StoreInv /\ Store!Init
BY DEF StoreInit, StoreInv, StoreTypeOK, Store!Init

\* A save joins the chain at its end and leaves the write in progress alone.
LEMMA SaveAsks ==
  ASSUME StoreInv, NEW snapshot \in Snapshots, Save(snapshot)
  PROVE  StoreInv' /\ Store!Ask(snapshot)
<1>1. queue \in Seq(Snapshots)
  BY DEF StoreInv, StoreTypeOK
<1>2. queue' \in Seq(Snapshots) /\ queue' # << >>
  BY <1>1, AppendProperties DEF Save
<1>3. queue # << >> => Head(queue') = Head(queue)
  BY <1>1, HeadTailAppend DEF Save
<1> QED BY <1>2, <1>3 DEF StoreInv, StoreTypeOK, Save, Store!Ask

\* The first save leaves the chain, done or not.
LEMMA ChainMovesOn ==
  ASSUME StoreInv, queue # << >>
  PROVE  Head(queue) \in Snapshots /\ Tail(queue) \in Seq(Snapshots)
BY HeadTailProperties DEF StoreInv, StoreTypeOK

\* Every step of the store is a step of the register, or none.
LEMMA StoreStep ==
  ASSUME StoreInv, [StoreNext]_storeVars
  PROVE  StoreInv' /\ [Store!Next]_(Store!vars)
<1>1. ASSUME NEW snapshot \in Snapshots, Save(snapshot)
      PROVE  StoreInv' /\ [Store!Next]_(Store!vars)
  BY <1>1, SaveAsks DEF Store!Next
<1>2. CASE WriteFile
  BY <1>2 DEF WriteFile, StoreInv, StoreTypeOK, Store!vars
<1>3. CASE Written
  <2>1. queue # << >> /\ Head(queue) \in Snapshots
    BY <1>3, ChainMovesOn DEF StoreInv, Written
  <2> QED BY <1>3, <2>1 DEF Written, StoreInv, StoreTypeOK, Store!vars
<1>4. CASE Rename
  <2>1. queue # << >> /\ tmp = Head(queue)
    BY <1>4 DEF Rename, MayRename, StoreInv
  <2>2. Head(queue) \in Snapshots /\ Tail(queue) \in Seq(Snapshots)
    BY <2>1, ChainMovesOn
  <2>3. StoreInv'
    BY <1>4, <2>1, <2>2 DEF Rename, StoreInv, StoreTypeOK
  <2> QED BY <1>4, <2>1, <2>3 DEF Rename, Store!Next, Store!Done
<1>5. CASE WriteFails
  <2>1. Tail(queue) \in Seq(Snapshots)
    BY <1>5, ChainMovesOn DEF WriteFails
  <2>2. StoreInv'
    BY <1>5, <2>1 DEF WriteFails, StoreInv, StoreTypeOK
  <2> QED BY <1>5, <2>2 DEF WriteFails, Store!Next, Store!Fails
<1>6. CASE StoreDies
  BY <1>6 DEF StoreDies, StoreInv, StoreTypeOK, Store!Next, Store!Dies
<1>7. CASE UNCHANGED storeVars
  BY <1>7 DEF storeVars, StoreInv, StoreTypeOK, Store!vars
<1> QED BY <1>1, <1>2, <1>3, <1>4, <1>5, <1>6, <1>7 DEF StoreNext

\* The store on its own implements the register.
THEOREM StoreImplementsRegister == StoreSpec => ImplementsRegister
BY StoreStarts, StoreStep, PTL DEF StoreSpec, ImplementsRegister, Store!Spec
=============================================================================
