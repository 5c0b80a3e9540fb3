------------------------ MODULE AndroidWallet_proofs ------------------------
(***************************************************************************)
(* Proofs about AndroidWallet: the type invariant, the custody of the      *)
(* wallets the application is given, and that each call is answered once,  *)
(* over the threads that retrieve a mnemonic in their own order.           *)
(***************************************************************************)
EXTENDS AndroidWallet, AccountsUtil_proofs

-----------------------------------------------------------------------------
(* The type invariant.                                                     *)

\* The bag of tasks never gains an element but the one added to it.
LEMMA BagAddDomain ==
  ASSUME NEW B, NEW x, IsABag(B)
  PROVE  IsABag(BagAdd(B, x)) /\ BagToSet(BagAdd(B, x)) = BagToSet(B) \cup {x}
  BY DEF IsABag, BagToSet, BagAdd

LEMMA BagRemoveDomain ==
  ASSUME NEW B, NEW x, IsABag(B)
  PROVE  IsABag(BagRemove(B, x)) /\ BagToSet(BagRemove(B, x)) \subseteq BagToSet(B)
  BY DEF IsABag, BagToSet, BagRemove

\* A device starts well typed.
LEMMA TypeInit == Init => TypeOK
  BY EmptySeq DEF Init, ChannelInit, DartInit, AndroidInit, TypeOK,
     ChannelTypeOK, DartTypeOK, AndroidTypeOK, IdleFrame, Started, Frame, Ops,
     Settled, MaybeText, Text, EmptyBag, IsABag, BagToSet, SetToBag

\* Each handler, listener, task, resumption and call keeps the types.
LEMMA TypeStep ==
  ASSUME TypeOK, [Next]_vars
  PROVE  TypeOK'
<1> USE DEF TypeOK
<1>1. ASSUME App
      PROVE  TypeOK'
  BY <1>1, AppTypes DEF App, AndroidTypeOK, androidVars, storeVars, answerVars
<1>2. ASSUME Dart
      PROVE  TypeOK'
  BY <1>2, DartTypes DEF Dart, AndroidTypeOK, androidVars, storeVars, answerVars
<1>3. ASSUME NEW p \in Phrases, GenerateNewMnemonic(p), UNCHANGED dartVars
      PROVE  TypeOK'
  <2>1. requests' \in Seq(Request) /\ Head(requests) \in Request
    BY <1>3, ReceiveTyped DEF GenerateNewMnemonic
  <2>2. Head(requests).caller \in Frames
        /\ Head(requests).method = "generateNewMnemonic"
    BY <1>3, <2>1 DEF GenerateNewMnemonic, Receive, Request
  <2>3. replies' \in Seq(Reply)
    BY <1>3, <2>2 DEF GenerateNewMnemonic, Answer, Reply, Text, ChannelTypeOK
  <2>4. minted' \subseteq Phrases
    BY <1>3 DEF GenerateNewMnemonic, Draw, ChannelTypeOK
  <2> QED
    BY <1>3, <2>1, <2>3, <2>4
       DEF GenerateNewMnemonic, ChannelTypeOK, DartTypeOK, AndroidTypeOK,
           historyVars, androidVars, storeVars, answerVars, dartVars, channelVars
<1>4. ASSUME HandleSaveMnemonic, UNCHANGED dartVars
      PROVE  TypeOK'
  <2>1. requests' \in Seq(Request) /\ Head(requests) \in Request
    BY <1>4, ReceiveTyped DEF HandleSaveMnemonic, Save
  <2>2. Head(requests).phrase \in Text
    BY <1>4, <2>1 DEF HandleSaveMnemonic, Save, Receive, Request
  <2>3. Store(Head(requests).phrase) \in Write
    BY <2>2 DEF Store, Write
  <2>4. IsABag(writes') /\ BagToSet(writes') \subseteq Write
    BY <1>4, <2>3, BagAddDomain DEF HandleSaveMnemonic, Save, AndroidTypeOK
  <2> QED
    BY <1>4, <2>1, <2>2, <2>4
       DEF HandleSaveMnemonic, Save, ChannelTypeOK, DartTypeOK, AndroidTypeOK,
           historyVars, androidVars, storeVars, answerVars, dartVars, channelVars
<1>5. ASSUME HandleDeleteMnemonic, UNCHANGED dartVars
      PROVE  TypeOK'
  <2>1. requests' \in Seq(Request)
    BY <1>5, ReceiveTyped DEF HandleDeleteMnemonic
  <2>2. Delete \in Write
    BY DEF Delete, Write
  <2>3. IsABag(writes') /\ BagToSet(writes') \subseteq Write
    BY <1>5, <2>2, BagAddDomain DEF HandleDeleteMnemonic, AndroidTypeOK
  <2> QED
    BY <1>5, <2>1, <2>3
       DEF HandleDeleteMnemonic, MaybeText, ChannelTypeOK, DartTypeOK, AndroidTypeOK,
           historyVars, androidVars, storeVars, answerVars, dartVars, channelVars
<1>6. ASSUME HandleGetMnemonic, UNCHANGED dartVars
      PROVE  TypeOK'
  <2>1. requests' \in Seq(Request) /\ Head(requests) \in Request
    BY <1>6, ReceiveTyped DEF HandleGetMnemonic
  <2>2. Head(requests).caller \in Frames
    BY <1>6, <2>1 DEF HandleGetMnemonic, Receive, Request
  <2> QED
    BY <1>6, <2>1, <2>2
       DEF HandleGetMnemonic, ChannelTypeOK, DartTypeOK, AndroidTypeOK,
           historyVars, androidVars, storeVars, answerVars, dartVars, channelVars
<1>7. ASSUME HandleGetPrivateKey, UNCHANGED dartVars
      PROVE  TypeOK'
  <2>1. requests' \in Seq(Request) /\ Head(requests) \in Request
    BY <1>7, ReceiveTyped DEF HandleGetPrivateKey
  <2>2. /\ Head(requests).caller \in Frames
        /\ Head(requests).phrase \in Text
        /\ Head(requests).method = "getPrivateKeyFromMnemonic"
    BY <1>7, <2>1 DEF HandleGetPrivateKey, Receive, Request
  <2>3. replies' \in Seq(Reply)
    <3>1. PICK ok \in BOOLEAN : Answer(Head(requests), ok, Head(requests).phrase)
      BY <1>7 DEF HandleGetPrivateKey
    <3> DEFINE e == [method |-> Head(requests).method, caller |-> Head(requests).caller,
                     ok |-> ok, value |-> Head(requests).phrase]
    <3>2. e \in Reply
      BY <2>2, <3>1 DEF Reply
    <3>3. replies' = Append(replies, e) /\ replies \in Seq(Reply)
      BY <3>1 DEF Answer, ChannelTypeOK
    <3> HIDE DEF e
    <3> QED
      BY <3>2, <3>3
  <2> QED
    BY <1>7, <2>1, <2>3
       DEF HandleGetPrivateKey, ChannelTypeOK, DartTypeOK, AndroidTypeOK,
           historyVars, androidVars, storeVars, answerVars, dartVars, channelVars
<1>8. ASSUME NEW w \in BagToSet(writes), RunWrite(w), UNCHANGED dartVars
      PROVE  TypeOK'
  <2>1. w \in Write
    BY DEF AndroidTypeOK
  <2>2. block' \in MaybeText
    BY <1>8, <2>1 DEF RunWrite, Write, AndroidTypeOK, MaybeText
  <2>3. IsABag(writes') /\ BagToSet(writes') \subseteq Write
    BY <1>8, BagRemoveDomain DEF RunWrite, AndroidTypeOK
  <2>4. kept' \subseteq Text /\ refused' \in {"none", "storing", "stored"}
    <3>1. w.phrase \in Text \cup {None}
      BY <2>1 DEF Write
    <3> QED
      BY <1>8, <3>1 DEF RunWrite, AndroidTypeOK
  <2> QED
    BY <1>8, <2>2, <2>3, <2>4
       DEF RunWrite, ChannelTypeOK, DartTypeOK, AndroidTypeOK,
           historyVars, androidVars, storeVars, answerVars, dartVars, channelVars
<1>9. ASSUME NEW f \in Frames, RunRetrieve(f), UNCHANGED dartVars
      PROVE  TypeOK'
  <2>1. retrieved' \subseteq Retrieved
    BY <1>9 DEF RunRetrieve, AndroidTypeOK, Retrieved, MaybeText
  <2> QED
    BY <1>9, <2>1
       DEF RunRetrieve, ChannelTypeOK, DartTypeOK, AndroidTypeOK,
           historyVars, androidVars, storeVars, answerVars, dartVars, channelVars
<1>10. ASSUME NEW f \in Frames, AnswerRetrieved(f), UNCHANGED dartVars
      PROVE  TypeOK'
  <2>1. replies' \in Seq(Reply)
    BY <1>10 DEF AnswerRetrieved, Answer, Call, Reply, ChannelTypeOK,
                 AndroidTypeOK, Retrieved
  <2> QED
    BY <1>10, <2>1
       DEF AnswerRetrieved, ChannelTypeOK, DartTypeOK, AndroidTypeOK,
           historyVars, androidVars, storeVars, answerVars, dartVars, channelVars
<1>11. ASSUME Restart \/ AnswerRefused
       PROVE  TypeOK'
  <2>1. /\ DartRestart /\ AndroidRestart
        /\ answeredTwice' \in {answeredTwice, answeredTwice \cup {"saveMnemonic"}}
    BY <1>11 DEF Restart, AnswerRefused
  <2> QED
    BY <2>1, RestartTypes DEF AndroidRestart, AndroidTypeOK, historyVars
<1>12. CASE UNCHANGED vars
  BY <1>12 DEF vars, channelVars, historyVars, dartVars, androidVars, storeVars, answerVars,
               ChannelTypeOK, DartTypeOK, AndroidTypeOK
<1> QED
  BY <1>1, <1>2, <1>3, <1>4, <1>5, <1>6, <1>7, <1>8, <1>9, <1>10, <1>11, <1>12
     DEF Next, Native, AndroidStep, Handle

\* Every variable keeps its type, for any number of phrases and frames and any
\* interleaving of calls, failures and restarts.
THEOREM TypeCorrect == Spec => []TypeOK
<1>1. TypeOK /\ [Next]_vars => TypeOK'
  BY TypeStep
<1> QED
  BY TypeInit, <1>1, PTL DEF Spec

-----------------------------------------------------------------------------
(* Custody.                                                                *)

\* A key is only asked for of an entrusted text.
LEMMA KeyOfEntrusted ==
  ASSUME ChannelTypeOK, KeysAfterSaves, HandleGetPrivateKey
  PROVE  Head(requests).phrase \in entrusted
<1>1. Head(requests) = requests[1] /\ 1 \in 1..Len(requests)
  BY TailOf DEF HandleGetPrivateKey, Receive, ChannelTypeOK
<1>2. Head(requests).method = "getPrivateKeyFromMnemonic"
  BY DEF HandleGetPrivateKey, Receive
<1> QED
  BY <1>1, <1>2 DEF KeysAfterSaves, KeysCovered

\* A listener's or a handler's step that sends Dart a mnemonic or a key.
LEMMA NativeCustody ==
  ASSUME TypeOK, DartCustody, AndroidCustody, AndroidStep, UNCHANGED dartVars
  PROVE  /\ DartCustody' /\ AndroidCustody'
         /\ entrusted \subseteq entrusted'
<1> USE DEF TypeOK
<1>1. ASSUME NEW p \in Phrases, GenerateNewMnemonic(p)
      PROVE  DartCustody' /\ AndroidCustody' /\ entrusted' = entrusted
  <2>1. entrusted' = entrusted /\ Head(requests) \in Request
        /\ Head(requests).method = "generateNewMnemonic"
    BY <1>1, ReceiveTyped DEF GenerateNewMnemonic
  <2>2. KeysAfterSaves'
    BY <1>1, <2>1, ReceiveKeys
       DEF GenerateNewMnemonic, ChannelTypeOK, DartCustody
  <2>3. AnswersEntrusted'
    BY <1>1, <2>1, AnswerKeeps
       DEF GenerateNewMnemonic, ChannelTypeOK, DartCustody
  <2> QED
    BY <1>1, <2>1, <2>2, <2>3, HandedOutGrows
       DEF GenerateNewMnemonic, DartCustody, AndroidCustody, androidVars, storeVars, answerVars
<1>2. ASSUME HandleSaveMnemonic
      PROVE  DartCustody' /\ AndroidCustody' /\ entrusted \subseteq entrusted'
  <2> DEFINE p == Head(requests).phrase
  <2>1. entrusted' = entrusted \cup {p}
    BY <1>2 DEF HandleSaveMnemonic, Save
  <2>2. KeysAfterSaves'
    BY <1>2, <2>1, ReceiveKeys
       DEF HandleSaveMnemonic, Save, ChannelTypeOK, DartCustody
  <2>3. AnswersEntrusted'
    BY <1>2, <2>1 DEF HandleSaveMnemonic, Save, DartCustody, AnswersEntrusted
  <2>4. BagToSet(writes') = BagToSet(writes) \cup {Store(p)}
    BY <1>2, BagAddDomain DEF HandleSaveMnemonic, Save, AndroidTypeOK
  <2>5. AndroidCustody'
    BY <1>2, <2>1, <2>4 DEF HandleSaveMnemonic, Save, AndroidCustody, Store
  <2> QED
    BY <2>1, <2>2, <2>3, <2>5, HandedOutGrows DEF DartCustody
<1>3. ASSUME HandleDeleteMnemonic
      PROVE  DartCustody' /\ AndroidCustody' /\ entrusted' = entrusted
  <2>1. entrusted' = entrusted /\ replies' = replies
    BY <1>3 DEF HandleDeleteMnemonic, historyVars
  <2>2. KeysAfterSaves'
    BY <1>3, <2>1, ReceiveKeys
       DEF HandleDeleteMnemonic, ChannelTypeOK, DartCustody
  <2>3. AnswersEntrusted'
    BY <2>1 DEF DartCustody, AnswersEntrusted
  <2>4. BagToSet(writes') = BagToSet(writes) \cup {Delete}
    BY <1>3, BagAddDomain DEF HandleDeleteMnemonic, AndroidTypeOK
  <2>5. AndroidCustody'
    BY <1>3, <2>1, <2>4 DEF HandleDeleteMnemonic, AndroidCustody, Delete
  <2> QED
    BY <2>1, <2>2, <2>3, <2>5, HandedOutGrows DEF DartCustody
<1>4. ASSUME HandleGetMnemonic
      PROVE  DartCustody' /\ AndroidCustody' /\ entrusted' = entrusted
  <2>1. entrusted' = entrusted /\ replies' = replies
    BY <1>4 DEF HandleGetMnemonic, historyVars
  <2>2. KeysAfterSaves'
    BY <1>4, <2>1, ReceiveKeys
       DEF HandleGetMnemonic, ChannelTypeOK, DartCustody
  <2>3. AnswersEntrusted'
    BY <2>1 DEF DartCustody, AnswersEntrusted
  <2>4. AndroidCustody'
    BY <1>4, <2>1 DEF HandleGetMnemonic, AndroidCustody
  <2> QED
    BY <2>1, <2>2, <2>3, <2>4, HandedOutGrows DEF DartCustody
<1>5. ASSUME HandleGetPrivateKey
      PROVE  DartCustody' /\ AndroidCustody' /\ entrusted' = entrusted
  <2>1. entrusted' = entrusted /\ UNCHANGED storeVars
        /\ Head(requests) \in Request
        /\ Head(requests).method = "getPrivateKeyFromMnemonic"
    BY <1>5, ReceiveTyped DEF HandleGetPrivateKey, historyVars
  <2>2. Head(requests).phrase \in entrusted
    BY <1>5, KeyOfEntrusted DEF DartCustody
  <2>3. KeysAfterSaves'
    BY <1>5, <2>1, ReceiveKeys
       DEF HandleGetPrivateKey, ChannelTypeOK, DartCustody
  <2>4. AnswersEntrusted'
    BY <1>5, <2>1, <2>2, AnswerKeeps
       DEF HandleGetPrivateKey, ChannelTypeOK, DartCustody
  <2> QED
    BY <2>1, <2>3, <2>4, HandedOutGrows
       DEF DartCustody, AndroidCustody, androidVars, storeVars, answerVars
<1>6. ASSUME NEW w \in BagToSet(writes), RunWrite(w)
      PROVE  DartCustody' /\ AndroidCustody' /\ entrusted' = entrusted
  <2>1. entrusted' = entrusted /\ UNCHANGED channelVars
    BY <1>6 DEF RunWrite, historyVars
  <2>2. DartCustody'
    BY <2>1, CustodyGrows
  <2>3. BagToSet(writes') \subseteq BagToSet(writes)
    BY <1>6, BagRemoveDomain DEF RunWrite, AndroidTypeOK
  <2>4. block' \in entrusted \cup {None}
    BY <1>6 DEF RunWrite, AndroidCustody
  <2> QED
    BY <1>6, <2>1, <2>2, <2>3, <2>4 DEF RunWrite, AndroidCustody
<1>7. ASSUME NEW f \in Frames, RunRetrieve(f)
      PROVE  DartCustody' /\ AndroidCustody' /\ entrusted' = entrusted
  <2>1. entrusted' = entrusted /\ UNCHANGED channelVars
    BY <1>7 DEF RunRetrieve, historyVars
  <2>2. DartCustody'
    BY <2>1, CustodyGrows
  <2> QED
    BY <1>7, <2>1, <2>2 DEF RunRetrieve, AndroidCustody
<1>8. ASSUME NEW f \in Frames, AnswerRetrieved(f)
      PROVE  DartCustody' /\ AndroidCustody' /\ entrusted' = entrusted
  <2> DEFINE req == Call("getMnemonic", f, None)
  <2>1. entrusted' = entrusted /\ UNCHANGED <<requests, block, prefs, writes>>
    BY <1>8 DEF AnswerRetrieved, historyVars
  <2>2. PICK v \in entrusted \cup {None} : Answer(req, TRUE, v)
    BY <1>8 DEF AnswerRetrieved, AndroidCustody
  <2>3. req \in Request
    BY CallTypes
  <2>4. AnswersEntrusted'
    BY <2>1, <2>2, <2>3, AnswerKeeps DEF ChannelTypeOK, DartCustody
  <2>5. KeysAfterSaves'
    BY <2>1 DEF DartCustody, KeysAfterSaves, KeysCovered, SaveMnemonic, Call
  <2>6. AndroidCustody'
    BY <1>8, <2>1 DEF AnswerRetrieved, AndroidCustody
  <2> QED
    BY <2>1, <2>4, <2>5, <2>6, HandedOutGrows DEF DartCustody
<1> QED
  BY <1>1, <1>2, <1>3, <1>4, <1>5, <1>6, <1>7, <1>8 DEF AndroidStep, Handle

\* Custody holds at the start, and every step keeps it and only adds to what
\* is entrusted.
LEMMA CustodyInit == Init => CustodyInv
<1> SUFFICES ASSUME Init  PROVE CustodyInv
  OBVIOUS
<1>1. TypeOK
  BY TypeInit
<1>2. DartCustody
  BY EmptySeq DEF Init, ChannelInit, DartInit, DartCustody,
     HandedOutIsEntrusted, KeysAfterSaves, KeysCovered, AnswersEntrusted,
     IdleFrame, Started
<1>3. AndroidCustody
  BY DEF Init, AndroidInit, AndroidCustody, EmptyBag, BagToSet, SetToBag
<1> QED
  BY <1>1, <1>2, <1>3 DEF CustodyInv

\* The induction step of custody: one case per party that can move.
LEMMA CustodyStep ==
  ASSUME CustodyInv, [Next]_vars
  PROVE  CustodyInv' /\ entrusted \subseteq entrusted'
<1>0. TypeOK /\ DartCustody /\ AndroidCustody /\ TypeOK'
  BY TypeStep DEF CustodyInv
<1>1. CASE App
  <2>1. DartCustody' /\ entrusted' = entrusted
    BY <1>0, <1>1, AppCustody DEF App, TypeOK
  <2> QED
    BY <1>0, <1>1, <2>1 DEF App, CustodyInv, AndroidCustody, androidVars, storeVars, answerVars
<1>2. CASE Dart
  <2>1. DartCustody' /\ entrusted' = entrusted
    BY <1>0, <1>2, DartStepCustody DEF Dart, TypeOK
  <2> QED
    BY <1>0, <1>2, <2>1 DEF Dart, CustodyInv, AndroidCustody, androidVars, storeVars, answerVars
<1>3. CASE Native
  BY <1>0, <1>3, NativeCustody DEF Native, CustodyInv
<1>4. CASE Restart \/ AnswerRefused
  <2>0. DartRestart /\ AndroidRestart
    BY <1>4 DEF Restart, AnswerRefused
  <2>1. DartCustody' /\ entrusted' = entrusted
    BY <2>0, RestartCustody DEF AndroidRestart, historyVars
  <2> QED
    BY <1>0, <2>0, <2>1 DEF AndroidRestart, CustodyInv, AndroidCustody
<1>5. CASE UNCHANGED vars
  <2>1. DartCustody' /\ entrusted' = entrusted
    BY <1>0, <1>5, CustodyGrows DEF vars, historyVars
  <2> QED
    BY <1>0, <1>5, <2>1 DEF vars, CustodyInv, AndroidCustody, androidVars, storeVars, answerVars
<1> QED
  BY <1>1, <1>2, <1>3, <1>4, <1>5 DEF Next

\* At all times every mnemonic on its way to becoming a wallet is entrusted, or
\* its save is ahead of it in the queue.
THEOREM CustodyCorrect == Spec => []CustodyInv
<1>1. CustodyInv /\ [Next]_vars => CustodyInv'
  BY CustodyStep
<1> QED
  BY CustodyInit, <1>1, PTL DEF Spec

\* The application never holds a wallet whose mnemonic has not been handed to
\* the storage, although generateMnemonic does not await its save.
THEOREM HandedOutCorrect == Spec => []HandedOutIsEntrusted
<1>1. CustodyInv => HandedOutIsEntrusted
  BY DEF CustodyInv, DartCustody
<1> QED
  BY CustodyCorrect, <1>1, PTL
-----------------------------------------------------------------------------
(* Refinement.                                                             *)

\* A step of the detailed system is a step of Custody or leaves it alone.
LEMMA CustodyMapping ==
  ASSUME CustodyInv, [Next]_vars, CustodyInv'
  PROVE  CustodySpec!Next \/ UNCHANGED <<entrusted, cached>>
<1> USE DEF CustodySpec!Next, CustodySpec!Entrust, CustodySpec!Adopt,
            CustodySpec!Forget
<1>1. CASE App
  <2>1. entrusted' = entrusted
    BY <1>1, AppCustody DEF App, CustodyInv, TypeOK
  <2>2. cached' \in {cached, None}
    BY <1>1 DEF App, AppStep, GetWallet, GetAccountPhrase, Sign, CreateAccount,
                OverwriteAccount, PermanentlyDeleteAccount, SaveText
  <2> QED
    BY <2>1, <2>2
<1>2. CASE Dart
  <2>1. entrusted' = entrusted
    BY <1>2, DartStepCustody DEF Dart, CustodyInv, TypeOK
  <2>2. cached' = None \/ cached' \in entrusted
    BY <2>1 DEF CustodyInv, DartCustody, HandedOutIsEntrusted
  <2>3. entrusted \subseteq Text
    BY DEF CustodyInv, TypeOK, ChannelTypeOK
  <2> QED
    BY <2>1, <2>2, <2>3
<1>3. CASE Native
  <2>1. cached' = cached
    BY <1>3 DEF Native, dartVars
  <2>2. CASE HandleSaveMnemonic
    <3>1. Head(requests).phrase \in Text
      <4>1. Head(requests) \in Request /\ Head(requests).method = "saveMnemonic"
        BY <2>2, ReceiveTyped DEF HandleSaveMnemonic, Save, CustodyInv, TypeOK
      <4> QED
        BY <4>1 DEF Request
    <3> QED
      BY <2>1, <2>2, <3>1 DEF HandleSaveMnemonic, Save
  <2>3. CASE ~HandleSaveMnemonic
    BY <1>3, <2>1, <2>3
       DEF Native, AndroidStep, Handle, GenerateNewMnemonic,
           HandleDeleteMnemonic, HandleGetMnemonic, HandleGetPrivateKey,
           RunWrite, RunRetrieve, AnswerRetrieved, historyVars
  <2> QED
    BY <2>2, <2>3
<1>4. CASE Restart \/ AnswerRefused
  BY <1>4 DEF Restart, AnswerRefused, DartRestart, AndroidRestart, historyVars
<1>5. CASE UNCHANGED vars
  BY <1>5 DEF vars, historyVars, dartVars
<1> QED
  BY <1>1, <1>2, <1>3, <1>4, <1>5 DEF Next

\* The detailed system implements Custody: the application adopts entrusted
\* mnemonics only, and entrusting is never taken back.
THEOREM CustodyRefined == Spec => ImplementsCustody
<1>1. Init => CustodySpec!Init
  BY TypeInit DEF Init, DartInit, TypeOK, ChannelTypeOK, CustodySpec!Init
<1>2. CustodyInv /\ CustodyInv' /\ [Next]_vars =>
          [CustodySpec!Next]_(CustodySpec!vars)
  BY CustodyMapping DEF CustodySpec!vars
<1> QED
  BY CustodyCorrect, <1>1, <1>2, PTL
     DEF Spec, ImplementsCustody, CustodySpec!Spec

-----------------------------------------------------------------------------
(* The places of the awaited calls.                                        *)

\* A step that leaves Blockstore's retrieve tasks and their listeners alone
\* owes the same frames as before.
LEMMA RetrievesKept ==
  ASSUME UNCHANGED <<retrieving, retrieved>>, NEW h, RetrievesOnce(h)
  PROVE  Retrieves(h)' = Retrieves(h) /\ RetrievesOnce(h)'
  BY DEF Retrieves, RetrievesOnce

\* What getMnemonic's handler takes, Blockstore owes.
LEMMA GetMnemonicPlaced ==
  ASSUME ChannelTypeOK, HandleGetMnemonic, UNCHANGED dartVars,
         NEW h \in Frames, Placed(h, Retrieves(h)), RetrievesOnce(h)
  PROVE  Placed(h, Retrieves(h))' /\ RetrievesOnce(h)'
<1> DEFINE req == Head(requests)
<1>1. /\ requests # <<>> /\ requests' = Tail(requests)
      /\ req.method = "getMnemonic"
      /\ retrieving' = retrieving \cup {req.caller}
      /\ UNCHANGED <<replies, retrieved, frames>>
  BY DEF HandleGetMnemonic, Receive, dartVars
<1>2. /\ Absent(requests, h) => Absent(requests', h) /\ req.caller # h
      /\ \A n : Alone(requests, h, n) /\ req.caller # h => Alone(requests', h, n)
      /\ \A n : Alone(requests, h, n) /\ req.caller = h =>
                    Absent(requests', h) /\ n = "getMnemonic"
  BY <1>1, TailPlaces DEF ChannelTypeOK
<1>3. CASE req.caller = h
  <2>1. /\ ~Retrieves(h) /\ Absent(replies, h) /\ Absent(requests', h)
        /\ frames[h].pc = "getMnemonic"
    BY <1>2, <1>3 DEF Placed
  <2>2. Retrieves(h)' /\ RetrievesOnce(h)'
    BY <1>1, <1>3, <2>1 DEF Retrieves, RetrievesOnce
  <2> QED
    BY <1>1, <2>1, <2>2 DEF Placed
<1>4. CASE req.caller # h
  <2>1. Retrieves(h)' = Retrieves(h) /\ RetrievesOnce(h)'
    BY <1>1, <1>4 DEF Retrieves, RetrievesOnce
  <2> QED
    BY <1>1, <1>2, <1>4, <2>1 DEF Placed
<1> QED
  BY <1>3, <1>4

\* A finished retrieve task leaves the debt to its listener.
LEMMA RunRetrievePlaced ==
  ASSUME NEW f \in Frames, RunRetrieve(f), UNCHANGED dartVars,
         NEW h \in Frames, Placed(h, Retrieves(h)), RetrievesOnce(h)
  PROVE  Placed(h, Retrieves(h))' /\ RetrievesOnce(h)'
<1>1. /\ f \in retrieving /\ retrieving' = retrieving \ {f}
      /\ UNCHANGED <<frames, requests, replies>>
  BY DEF RunRetrieve, dartVars, channelVars
<1>2. PICK r : r.caller = f /\ retrieved' = retrieved \cup {r}
  BY DEF RunRetrieve
<1>3. Retrieves(h)' = Retrieves(h) /\ RetrievesOnce(h)'
  BY <1>1, <1>2 DEF Retrieves, RetrievesOnce
<1> QED
  BY <1>1, <1>3 DEF Placed, Absent, Alone

\* The listener pays the debt.
LEMMA AnswerRetrievedPlaced ==
  ASSUME ChannelTypeOK, ChannelTypeOK',
         NEW f \in Frames, AnswerRetrieved(f), UNCHANGED dartVars,
         NEW h \in Frames, Placed(h, Retrieves(h)), RetrievesOnce(h)
  PROVE  Placed(h, Retrieves(h))' /\ RetrievesOnce(h)'
<1>1. PICK r \in retrieved :
        /\ r.caller = f
        /\ retrieved' = retrieved \ {r}
        /\ \E v : Answer(Call("getMnemonic", f, None), TRUE, v)
  BY DEF AnswerRetrieved
<1>2. UNCHANGED <<frames, requests, retrieving>>
  BY DEF AnswerRetrieved, dartVars
<1>3. PICK e \in Reply : /\ replies' = Append(replies, e)
                         /\ e.caller = f /\ e.method = "getMnemonic"
  <2>1. PICK v : Answer(Call("getMnemonic", f, None), TRUE, v)
    BY <1>1
  <2> DEFINE e == [method |-> "getMnemonic", caller |-> f, ok |-> TRUE,
                   value |-> v]
  <2>2. replies' = Append(replies, e)
    BY <2>1 DEF Answer, Call
  <2>3. e \in Reply
    <3>1. /\ Len(replies') = Len(replies) + 1 /\ Len(replies) \in Nat
          /\ replies'[Len(replies) + 1] = e
      BY <2>2, LenProperties DEF ChannelTypeOK
    <3> HIDE DEF e
    <3> QED
      BY <3>1 DEF ChannelTypeOK
  <2> QED
    BY <2>2, <2>3
<1>4. /\ Absent(replies, h) /\ f # h => Absent(replies', h)
      /\ \A n : Alone(replies, h, n) /\ f # h => Alone(replies', h, n)
      /\ Absent(replies, h) /\ f = h => Alone(replies', h, "getMnemonic")
  BY <1>3, AppendPlaces DEF ChannelTypeOK
<1>5. CASE f = h
  <2>1. Retrieves(h) /\ ~Retrieves(h)' /\ RetrievesOnce(h)'
    BY <1>1, <1>2, <1>5 DEF Retrieves, RetrievesOnce
  <2>2. frames[h].pc = "getMnemonic" /\ Absent(requests, h) /\ Absent(replies, h)
    BY <2>1 DEF Placed
  <2> QED
    BY <1>2, <1>4, <1>5, <2>1, <2>2 DEF Placed, Settled
<1>6. CASE f # h
  <2>1. Retrieves(h)' = Retrieves(h) /\ RetrievesOnce(h)'
    BY <1>1, <1>2, <1>6 DEF Retrieves, RetrievesOnce
  <2> QED
    BY <1>2, <1>4, <1>6, <2>1 DEF Placed
<1> QED
  BY <1>5, <1>6

\* The induction step of the places: one case per handler, task, listener and
\* party that can move.
LEMMA PlacedStep ==
  ASSUME PlacedInv, [Next]_vars
  PROVE  PlacedInv'
<1>0. TypeOK /\ TypeOK' /\ ChannelTypeOK /\ ChannelTypeOK' /\ DartTypeOK
  BY TypeStep DEF PlacedInv, TypeOK
<1> SUFFICES ASSUME NEW h \in Frames
             PROVE  Placed(h, Retrieves(h))' /\ RetrievesOnce(h)'
  BY <1>0 DEF PlacedInv
<1>a. Placed(h, Retrieves(h)) /\ RetrievesOnce(h)
  BY DEF PlacedInv
<1>b. PICK owed \in BOOLEAN : owed = Retrieves(h)
  BY DEF Retrieves
<1>c. ASSUME UNCHANGED <<retrieving, retrieved>>, Placed(h, owed)'
      PROVE  Placed(h, Retrieves(h))' /\ RetrievesOnce(h)'
  <2>1. owed = Retrieves(h)' /\ RetrievesOnce(h)'
    BY <1>a, <1>b, <1>c, RetrievesKept
  <2> QED
    BY <1>c, <2>1 DEF Placed
<1>d. Placed(h, owed)
  BY <1>a, <1>b DEF Placed
<1>1. CASE App
  BY <1>0, <1>c, <1>d, <1>1, AppPlaced DEF App, androidVars, storeVars, answerVars
<1>2. CASE Dart
  BY <1>0, <1>c, <1>d, <1>2, DartPlaced DEF Dart, androidVars, storeVars, answerVars
<1>3. ASSUME NEW m, Receive(m), NEW ok, NEW v, Answer(Head(requests), ok, v),
             UNCHANGED <<dartVars, storeVars>>
      PROVE  Placed(h, Retrieves(h))' /\ RetrievesOnce(h)'
  <2>1. Placed(h, owed)'
    BY <1>0, <1>d, <1>3, AnsweredPlaced DEF dartVars
  <2> QED
    BY <1>c, <1>3, <2>1 DEF androidVars, storeVars, answerVars
<1>4. ASSUME NEW p \in Phrases, GenerateNewMnemonic(p), UNCHANGED dartVars
      PROVE  Placed(h, Retrieves(h))' /\ RetrievesOnce(h)'
  BY <1>3, <1>4 DEF GenerateNewMnemonic, androidVars
<1>5. ASSUME HandleGetPrivateKey, UNCHANGED dartVars
      PROVE  Placed(h, Retrieves(h))' /\ RetrievesOnce(h)'
  <2>1. /\ Receive("getPrivateKeyFromMnemonic")
        /\ \E ok, v : Answer(Head(requests), ok, v)
        /\ UNCHANGED <<dartVars, storeVars>>
    BY <1>5 DEF HandleGetPrivateKey
  <2> QED
    BY <1>3, <2>1
<1>6. ASSUME HandleSaveMnemonic \/ HandleDeleteMnemonic, UNCHANGED dartVars
      PROVE  Placed(h, Retrieves(h))' /\ RetrievesOnce(h)'
  <2>1. Placed(h, owed)'
    BY <1>0, <1>d, <1>6, UnawaitedPlaced
       DEF HandleSaveMnemonic, Save, HandleDeleteMnemonic, dartVars
  <2> QED
    BY <1>c, <1>6, <2>1 DEF HandleSaveMnemonic, Save, HandleDeleteMnemonic
<1>7. ASSUME HandleGetMnemonic, UNCHANGED dartVars
      PROVE  Placed(h, Retrieves(h))' /\ RetrievesOnce(h)'
  BY <1>0, <1>a, <1>7, GetMnemonicPlaced
<1>8. ASSUME NEW w, RunWrite(w), UNCHANGED dartVars
      PROVE  Placed(h, Retrieves(h))' /\ RetrievesOnce(h)'
  BY <1>c, <1>d, <1>8, PlacedKept DEF RunWrite, dartVars
<1>9. ASSUME NEW f \in Frames, RunRetrieve(f), UNCHANGED dartVars
      PROVE  Placed(h, Retrieves(h))' /\ RetrievesOnce(h)'
  BY <1>a, <1>9, RunRetrievePlaced
<1>10. ASSUME NEW f \in Frames, AnswerRetrieved(f), UNCHANGED dartVars
       PROVE  Placed(h, Retrieves(h))' /\ RetrievesOnce(h)'
  BY <1>0, <1>a, <1>10, AnswerRetrievedPlaced
<1>11. CASE Restart \/ AnswerRefused
  <2>0. DartRestart /\ AndroidRestart
    BY <1>11 DEF Restart, AnswerRefused
  <2>1. Retrieves(h)' = FALSE /\ RetrievesOnce(h)'
    BY <2>0 DEF AndroidRestart, Retrieves, RetrievesOnce
  <2>2. Placed(h, FALSE)'
    BY <2>0, RestartPlaced
  <2> QED
    BY <2>1, <2>2 DEF Placed
<1>12. CASE UNCHANGED vars
  BY <1>c, <1>d, <1>12, PlacedKept DEF vars, dartVars, androidVars, storeVars, answerVars
<1> QED
  BY <1>1, <1>2, <1>4, <1>5, <1>6, <1>7, <1>8, <1>9, <1>10, <1>11, <1>12
     DEF Next, Native, AndroidStep, Handle

\* What Blockstore owes a frame is one answer or none.
LEMMA OwedOnce ==
  ASSUME NEW f \in Frames, RetrievesOnce(f)
  PROVE  OwedByBlockstore(f) = IF Retrieves(f) THEN 1 ELSE 0
<1> DEFINE R == {r \in retrieved : r.caller = f}
<1>1. CASE R = {}
  <2>1. Cardinality(R) = 0
    BY <1>1, SmallSets
  <2> QED
    BY <1>1, <2>1 DEF OwedByBlockstore, Retrieves
<1>2. CASE R # {}
  <2>1. PICK r : R = {r}
    BY <1>2 DEF RetrievesOnce
  <2>2. Cardinality(R) = 1
    BY <2>1, SmallSets
  <2>3. f \notin retrieving
    BY <2>1 DEF RetrievesOnce
  <2> QED
    BY <2>1, <2>2, <2>3 DEF OwedByBlockstore, Retrieves
<1> QED
  BY <1>1, <1>2

\* A call is answered twice, or a refused save awaits its listener, only where
\* a text that is no mnemonic was entrusted.
LEMMA TwiceStep ==
  ASSUME CustodyInv, TwiceOfFailure, [Next]_vars
  PROVE  TwiceOfFailure'
<1>0. entrusted \subseteq entrusted'
  BY CustodyStep
<1>1. ASSUME UNCHANGED <<refused, answeredTwice>>
      PROVE  TwiceOfFailure'
  BY <1>0, <1>1 DEF TwiceOfFailure
<1>2. CASE HandleSaveMnemonic
  <2>1. UNCHANGED answeredTwice /\ refused' # "none" =>
            refused # "none" \/ Failure \in entrusted'
    BY <1>2 DEF HandleSaveMnemonic, Save
  <2> QED
    BY <1>0, <1>2, <2>1 DEF TwiceOfFailure, HandleSaveMnemonic, Save
<1>3. CASE HandleGetPrivateKey
  <2>1. Head(requests).phrase \in entrusted
    BY <1>3, KeyOfEntrusted DEF CustodyInv, TypeOK, DartCustody
  <2> QED
    BY <1>0, <1>3, <2>1 DEF TwiceOfFailure, HandleGetPrivateKey
<1>4. ASSUME NEW w, RunWrite(w)
      PROVE  TwiceOfFailure'
  BY <1>0, <1>4 DEF TwiceOfFailure, RunWrite
<1>5. CASE Restart \/ AnswerRefused
  <2>1. refused' = "none" /\ (answeredTwice' = answeredTwice \/ refused = "stored")
    BY <1>5 DEF Restart, AnswerRefused, AndroidRestart
  <2> QED
    BY <1>0, <2>1 DEF TwiceOfFailure
<1>6. ASSUME App \/ Dart \/ UNCHANGED vars
      PROVE  TwiceOfFailure'
  BY <1>1, <1>6 DEF App, Dart, vars, androidVars, answerVars
<1>7. CASE Native
  <2>1. \/ HandleSaveMnemonic \/ HandleGetPrivateKey
        \/ \E w : RunWrite(w)
        \/ UNCHANGED <<refused, answeredTwice>>
    BY <1>7 DEF Native, AndroidStep, Handle, GenerateNewMnemonic,
                HandleDeleteMnemonic, HandleGetMnemonic, RunRetrieve,
                AnswerRetrieved, androidVars, answerVars
  <2> QED
    BY <1>1, <1>2, <1>3, <1>4, <2>1
<1> QED
  BY <1>5, <1>6, <1>7 DEF Next

\* Every awaited call is in exactly one place from its sending to the
\* resumption of its frame: the queue of calls, a Blockstore task, the listener
\* of one, or the queue of results.  So no handler or listener
\* (MnemonicStorageHelper.kt, read) forgets to answer or answers another frame,
\* whatever tasks fail and however often the process dies; and none answers a
\* call twice before a text that is no mnemonic has been handed to the storage.
THEOREM OneAnswerCorrect == Spec => []OneAnswerEach
<1>1. Init => PlacedInv
  <2> SUFFICES ASSUME Init, NEW f \in Frames
               PROVE  Placed(f, Retrieves(f)) /\ RetrievesOnce(f)
    BY TypeInit DEF PlacedInv
  <2>1. Retrieves(f) = FALSE /\ RetrievesOnce(f)
    BY DEF Init, AndroidInit, Retrieves, RetrievesOnce
  <2>2. Placed(f, FALSE)
    BY InitPlaced DEF Init
  <2> QED
    BY <2>1, <2>2 DEF Placed
<1>2. PlacedInv /\ [Next]_vars => PlacedInv'
  BY PlacedStep
<1>3. Init => TwiceOfFailure
  BY DEF Init, AndroidInit, TwiceOfFailure
<1>4. CustodyInv /\ TwiceOfFailure /\ [Next]_vars => TwiceOfFailure'
  BY TwiceStep
<1>5. PlacedInv /\ TwiceOfFailure => OneAnswerEach
  <2> SUFFICES ASSUME PlacedInv, TwiceOfFailure, NEW f \in Frames
               PROVE  LET n == OwedByBlockstore(f) IN
                      /\ Cardinality(Queued(f)) + Cardinality(Answered(f)) + n
                           = (IF frames[f].pc \in Settled THEN 0 ELSE 1)
                      /\ \A i \in Queued(f) : requests[i].method = frames[f].pc
                      /\ \A i \in Answered(f) : replies[i].method = frames[f].pc
                      /\ n # 0 => frames[f].pc = "getMnemonic"
    BY DEF OneAnswerEach, OneAnswer, TwiceOfFailure
  <2>1. Placed(f, Retrieves(f)) /\ RetrievesOnce(f)
    BY DEF PlacedInv
  <2>2. PICK owed \in BOOLEAN : owed = Retrieves(f)
    BY DEF Retrieves
  <2>3. Placed(f, owed) /\ OwedByBlockstore(f) = IF owed THEN 1 ELSE 0
    BY <2>1, <2>2, OwedOnce DEF Placed
  <2> QED
    BY <2>3, PlacedCounted
<1> QED
  BY CustodyCorrect, <1>1, <1>2, <1>3, <1>4, <1>5, PTL DEF Spec

-----------------------------------------------------------------------------
(* A stored account is found.                                              *)

\* A step that answers a read with a mnemonic, or answers none, and starts no
\* deletion finds, with the bytes that Blockstore is left with.
LEMMA KeepsFound ==
  ASSUME FoundInv, TypeOK', requests' \in Seq(KeepingRequest),
         replies' \in Seq(FindingReply), UNCHANGED dartVars,
         UNCHANGED <<block, writes, retrieved>>
  PROVE  FoundInv'
<1>1. NoReadDraws'
  BY DEF FoundInv, DartFinds, NoReadDraws, dartVars
<1> QED
  BY <1>1 DEF FoundInv, DartFinds

\* A handler of the plugin finds what is stored.
LEMMA HandleFinds ==
  ASSUME FoundInv, TypeOK', Handle, UNCHANGED dartVars
  PROVE  FoundInv'
<1> DEFINE req == Head(requests)
<1>1. /\ replies \in Seq(Reply) /\ replies' \in Seq(Reply) /\ DartFinds
      /\ ChannelTypeOK /\ TypeOK /\ IsABag(writes)
  BY DEF FoundInv, TypeOK, ChannelTypeOK, AndroidTypeOK
<1>2. /\ requests' \in Seq(KeepingRequest)
      /\ ~Receive("deleteMnemonic")
  BY <1>1, ReceiveFinds
     DEF Handle, GenerateNewMnemonic, HandleSaveMnemonic, Save,
         HandleDeleteMnemonic, HandleGetMnemonic, HandleGetPrivateKey
<1>3. ASSUME NEW p \in Phrases, GenerateNewMnemonic(p)
      PROVE  FoundInv'
  <2>1. req.method # "getMnemonic" /\ Answer(req, TRUE, p)
    BY <1>3 DEF GenerateNewMnemonic, Receive
  <2>2. replies' \in Seq(FindingReply)
    BY <1>1, <2>1, AnswerFinds
  <2> QED
    BY <1>2, <1>3, <2>2, KeepsFound DEF GenerateNewMnemonic, androidVars, storeVars, answerVars
<1>4. CASE HandleSaveMnemonic
  <2>1. Delete \notin BagToSet(writes')
    <3>1. BagToSet(writes') \subseteq BagToSet(writes) \cup {Store(req.phrase)}
      BY <1>1, <1>4, BagAddDomain DEF HandleSaveMnemonic, Save
    <3>2. Store(req.phrase) # Delete
      BY DEF Store, Delete
    <3> QED
      BY <3>1, <3>2 DEF FoundInv
  <2>2. NoReadDraws'
    BY <1>1 DEF DartFinds, NoReadDraws, dartVars
  <2> QED
    BY <1>2, <1>4, <2>1, <2>2 DEF HandleSaveMnemonic, Save, FoundInv, DartFinds
<1>5. CASE HandleGetMnemonic
  <2>1. replies' \in Seq(FindingReply)
    BY <1>1, <1>5 DEF HandleGetMnemonic, DartFinds
  <2> QED
    BY <1>2, <1>5, <2>1, KeepsFound DEF HandleGetMnemonic
<1>6. CASE HandleGetPrivateKey
  <2>1. req.method # "getMnemonic"
    BY <1>6 DEF HandleGetPrivateKey, Receive
  <2>2. PICK ok, v : Answer(req, ok, v)
    BY <1>6 DEF HandleGetPrivateKey
  <2>3. replies' \in Seq(FindingReply)
    BY <1>1, <2>1, <2>2, AnswerFinds
  <2> QED
    BY <1>2, <1>6, <2>3, KeepsFound DEF HandleGetPrivateKey, androidVars, storeVars, answerVars
<1> QED
  BY <1>2, <1>3, <1>4, <1>5, <1>6 DEF Handle, HandleDeleteMnemonic

\* So does Blockstore: its writes are stores, its reads find the bytes.
LEMMA TaskFinds ==
  ASSUME NothingLost, FoundInv, TypeOK', UNCHANGED dartVars,
         \/ \E w \in BagToSet(writes) : RunWrite(w)
         \/ \E f \in Frames : RunRetrieve(f) \/ AnswerRetrieved(f)
  PROVE  FoundInv'
<1>1. /\ replies \in Seq(Reply) /\ replies' \in Seq(Reply) /\ DartFinds
      /\ block # None /\ IsABag(writes) /\ BagToSet(writes) \subseteq Write
      /\ Delete \notin BagToSet(writes) /\ \A r \in retrieved : r.found # None
  BY DEF FoundInv, TypeOK, ChannelTypeOK, AndroidTypeOK
<1>2. NoReadDraws'
  BY <1>1 DEF DartFinds, NoReadDraws, dartVars
<1>3. ASSUME NEW w \in BagToSet(writes), RunWrite(w)
      PROVE  FoundInv'
  <2>1. w.kind = "store" /\ w.phrase # None
    <3>1. w \in Write /\ w # Delete
      BY <1>1
    <3> QED
      BY <3>1, ConstantsDistinct DEF Write, Delete, Text
  <2>2. block' # None /\ Delete \notin BagToSet(writes')
    BY <1>1, <1>3, <2>1, BagRemoveDomain DEF RunWrite
  <2> QED
    BY <1>1, <1>2, <1>3, <2>2 DEF RunWrite, channelVars, FoundInv, DartFinds
<1>4. ASSUME NEW f \in Frames, RunRetrieve(f)
      PROVE  FoundInv'
  <2>1. /\ \A r \in retrieved' : r.found # None
        /\ UNCHANGED <<requests, replies, block, writes>>
    BY <1>1, <1>4 DEF RunRetrieve, NothingLost, channelVars
  <2> QED
    BY <1>1, <1>2, <2>1 DEF FoundInv, DartFinds
<1>5. ASSUME NEW f \in Frames, AnswerRetrieved(f)
      PROVE  FoundInv'
  <2>1. PICK r \in retrieved :
          /\ retrieved' = retrieved \ {r}
          /\ Answer(Call("getMnemonic", f, None), TRUE, r.found)
    BY <1>1, <1>5 DEF AnswerRetrieved
  <2>2. replies' \in Seq(FindingReply)
    BY <1>1, <2>1, AnswerFinds
  <2> QED
    BY <1>1, <1>2, <1>5, <2>1, <2>2 DEF AnswerRetrieved, FoundInv, DartFinds
<1> QED
  BY <1>3, <1>4, <1>5

\* The induction step: one case per party that can move.
LEMMA FoundStep ==
  ASSUME NothingLost, FoundInv, [Next]_vars
  PROVE  FoundInv'
<1>1. TypeOK' /\ ChannelTypeOK /\ DartTypeOK /\ DartFinds
  BY TypeStep DEF FoundInv, TypeOK
<1>2. CASE App
  <2>1. AppStep /\ UNCHANGED androidVars
    BY <1>2 DEF App, PermanentlyDeleteAccount, Ready, NothingLost
  <2> QED
    BY <1>1, <2>1, AppFinds DEF FoundInv, androidVars, storeVars, answerVars
<1>3. CASE Dart
  BY <1>1, <1>3, DartStepFinds DEF Dart, FoundInv, androidVars, storeVars, answerVars
<1>4. CASE Native
  BY <1>1, <1>4, HandleFinds, TaskFinds DEF Native, AndroidStep
<1>5. CASE Restart \/ AnswerRefused
  <2>1. DartFinds' /\ retrieved' = {} /\ UNCHANGED <<block, writes>>
    BY <1>5, RestartFinds DEF Restart, AnswerRefused, AndroidRestart
  <2> QED
    BY <1>1, <2>1 DEF FoundInv
<1>6. CASE UNCHANGED vars
  BY <1>1, <1>6 DEF vars, channelVars, dartVars, androidVars, storeVars, answerVars, FoundInv,
                    DartFinds, NoReadDraws
<1> QED
  BY <1>2, <1>3, <1>4, <1>5, <1>6 DEF Next

\* A device that starts with a mnemonic in Blockstore never draws another one
\* on behalf of a read (keyManager.dart:59-61), whatever calls, tasks and
\* listeners overlap, whichever stores fail and whenever the process dies:
\* only a deletion or a failed retrieve loses the account.
THEOREM StoredIsFound == NothingLost /\ Spec => StoredAccountIsFound
<1>1. Init /\ block # None => FoundInv
  <2> SUFFICES ASSUME Init, block # None  PROVE FoundInv
    OBVIOUS
  <2>1. DartFinds
    BY EmptySeq DEF Init, ChannelInit, DartInit, DartFinds, NoReadDraws,
                    IdleFrame, Started
  <2>2. Delete \notin BagToSet(writes) /\ retrieved = {}
    BY DEF Init, AndroidInit, EmptyBag, BagToSet, SetToBag
  <2> QED
    BY <2>1, <2>2, TypeInit DEF FoundInv
<1>2. NothingLost /\ FoundInv /\ [Next]_vars => (NothingLost /\ FoundInv)'
  BY FoundStep DEF NothingLost
<1>3. FoundInv => NoReadDraws
  BY DEF FoundInv, DartFinds
<1> QED
  BY <1>1, <1>2, <1>3, PTL DEF Spec, StoredAccountIsFound

==============================================================================
