-------------------------- MODULE IosWallet_proofs ---------------------------
(***************************************************************************)
(* Proofs about IosWallet: the type invariant, the custody of the wallets  *)
(* the application is given, that "failure" never becomes one of them,     *)
(* that each call is answered once, and that the wallet in use is the one  *)
(* in the keychain once nothing is under way.                              *)
(***************************************************************************)
EXTENDS IosWallet, AccountsUtil_proofs

-----------------------------------------------------------------------------
(* The type invariant.                                                     *)

\* A device starts well typed.
LEMMA TypeInit == Init => TypeOK
  BY EmptySeq DEF Init, ChannelInit, DartInit, IosInit, TypeOK,
     ChannelTypeOK, DartTypeOK, IosTypeOK, IdleFrame, Started, Frame, Ops,
     Settled, MaybeText, Text

\* A handler of the plugin keeps the types.
LEMMA NativeTypes ==
  ASSUME TypeOK, IosStep, UNCHANGED dartVars
  PROVE  TypeOK'
<1> USE DEF TypeOK
<1> DEFINE req == Head(requests)
<1>1. /\ requests' \in Seq(Request) /\ req \in Request
      /\ req.method = "getMnemonic" => req.caller \in Frames
      /\ req.method = "generateNewMnemonic" => req.caller \in Frames
      /\ req.method = "getPrivateKeyFromMnemonic" =>
            req.caller \in Frames /\ req.phrase \in Text
      /\ req.method = "saveMnemonic" => req.phrase \in Text
  <2>1. requests' \in Seq(Request) /\ req \in Request
    BY ReceiveTyped
       DEF IosStep, HandleGenerateMnemonic, HandleSaveMnemonic,
           HandleDeleteMnemonic, HandleGetMnemonic, HandleGetPrivateKey
  <2> QED
    BY <2>1 DEF Request
<1>2. DartTypeOK'
  BY DEF DartTypeOK, dartVars
<1>3. CASE HandleGenerateMnemonic
  <2>1. req.method = "generateNewMnemonic"
    BY <1>3 DEF HandleGenerateMnemonic, Receive
  <2>2. replies' \in Seq(Reply)
    <3>1. PICK v \in Text : Answer(req, TRUE, v)
      BY <1>3 DEF HandleGenerateMnemonic, Draw, Text
    <3>2. req.caller \in Frames
      BY <1>1, <2>1
    <3> QED
      BY <2>1, <3>1, <3>2, AnswerTyped DEF ChannelTypeOK, MaybeText
  <2>3. minted' \subseteq Phrases
    BY <1>3 DEF HandleGenerateMnemonic, Draw, ChannelTypeOK
  <2> QED
    BY <1>1, <1>2, <1>3, <2>2, <2>3
       DEF HandleGenerateMnemonic, ChannelTypeOK, IosTypeOK
<1>4. CASE HandleSaveMnemonic
  <2>1. req.phrase \in Text
    BY <1>1, <1>4 DEF HandleSaveMnemonic, Receive
  <2> QED
    BY <1>1, <1>2, <1>4, <2>1
       DEF HandleSaveMnemonic, ChannelTypeOK, IosTypeOK, MaybeText
<1>5. CASE HandleDeleteMnemonic
  BY <1>1, <1>2, <1>5
     DEF HandleDeleteMnemonic, ChannelTypeOK, IosTypeOK, MaybeText, historyVars
<1>6. CASE HandleGetMnemonic
  <2>1. req.method = "getMnemonic" /\ req.caller \in Frames
    BY <1>1, <1>6 DEF HandleGetMnemonic, Receive
  <2>2. replies' \in Seq(Reply)
    <3>1. PICK v \in MaybeText : Answer(req, TRUE, v)
      BY <1>6 DEF HandleGetMnemonic, IosTypeOK, MaybeText
    <3> QED
      BY <2>1, <3>1, AnswerTyped DEF ChannelTypeOK
  <2> QED
    BY <1>1, <1>2, <1>6, <2>2
       DEF HandleGetMnemonic, ChannelTypeOK, IosTypeOK, historyVars
<1>7. CASE HandleGetPrivateKey
  <2>1. /\ req.method = "getPrivateKeyFromMnemonic"
        /\ req.caller \in Frames /\ req.phrase \in Text
    BY <1>1, <1>7 DEF HandleGetPrivateKey, Receive
  <2>2. replies' \in Seq(Reply)
    <3> DEFINE ok == req.phrase \in Phrases
    <3>1. ok \in BOOLEAN /\ Answer(req, ok, req.phrase)
      BY <1>7 DEF HandleGetPrivateKey
    <3> HIDE DEF ok
    <3> QED
      BY <2>1, <3>1, AnswerTyped DEF ChannelTypeOK, MaybeText
  <2> QED
    BY <1>1, <1>2, <1>7, <2>2
       DEF HandleGetPrivateKey, ChannelTypeOK, IosTypeOK, historyVars
<1> QED
  BY <1>3, <1>4, <1>5, <1>6, <1>7 DEF IosStep

\* Each handler, resumption and call keeps the types.
LEMMA TypeStep ==
  ASSUME TypeOK, [Next]_vars
  PROVE  TypeOK'
<1> USE DEF TypeOK
<1>1. CASE App
  BY <1>1, AppTypes DEF App, IosTypeOK
<1>2. CASE Dart
  BY <1>2, DartTypes DEF Dart, IosTypeOK
<1>3. CASE Native
  BY <1>3, NativeTypes DEF Native
<1>4. CASE Restart
  BY <1>4, RestartTypes DEF Restart, IosRestart, IosTypeOK
<1>5. CASE UNCHANGED vars
  BY <1>5 DEF vars, channelVars, historyVars, dartVars, ChannelTypeOK,
              DartTypeOK, IosTypeOK
<1> QED
  BY <1>1, <1>2, <1>3, <1>4, <1>5 DEF Next

\* Every variable keeps its type, for any number of phrases and frames and any
\* interleaving of calls, failures and restarts.
THEOREM TypeCorrect == Spec => []TypeOK
<1>1. TypeOK /\ [Next]_vars => TypeOK'
  BY TypeStep
<1> QED
  BY TypeInit, <1>1, PTL DEF Spec

-----------------------------------------------------------------------------
(* Custody.                                                                *)

\* Custody holds at the start.
LEMMA CustodyInit == Init => CustodyInv
<1> SUFFICES ASSUME Init  PROVE CustodyInv
  OBVIOUS
<1>1. DartCustody
  BY EmptySeq DEF Init, ChannelInit, DartInit, DartCustody,
     HandedOutIsEntrusted, KeysAfterSaves, KeysCovered, AnswersEntrusted,
     IdleFrame, Started
<1>2. IosCustody
  BY DEF Init, IosInit, IosCustody
<1> QED
  BY <1>1, <1>2, TypeInit DEF CustodyInv

\* A handler of the plugin keeps custody: it answers what the keychain holds,
\* a mnemonic just drawn, or the key of a mnemonic that was saved before.
LEMMA NativeCustody ==
  ASSUME TypeOK, DartCustody, IosCustody, IosStep, UNCHANGED dartVars
  PROVE  DartCustody' /\ IosCustody' /\ entrusted \subseteq entrusted'
<1> DEFINE req == Head(requests)
<1> USE DEF TypeOK
<1>1. req \in Request /\ entrusted \subseteq entrusted'
  BY ReceiveTyped
     DEF IosStep, HandleGenerateMnemonic, HandleSaveMnemonic, historyVars,
         HandleDeleteMnemonic, HandleGetMnemonic, HandleGetPrivateKey
<1>2. HandedOutIsEntrusted'
  BY <1>1, HandedOutGrows DEF DartCustody
<1>3. KeysAfterSaves'
  BY <1>1, ReceiveKeys
     DEF IosStep, HandleGenerateMnemonic, HandleSaveMnemonic,
         HandleDeleteMnemonic, HandleGetMnemonic, HandleGetPrivateKey,
         DartCustody, ChannelTypeOK
<1>4. AnswersEntrusted'
  <2>1. CASE HandleGenerateMnemonic
    BY <1>1, <2>1, AnswerKeeps
       DEF HandleGenerateMnemonic, Receive, DartCustody, ChannelTypeOK
  <2>2. CASE HandleSaveMnemonic \/ HandleDeleteMnemonic
    BY <1>1, <2>2 DEF HandleSaveMnemonic, HandleDeleteMnemonic, DartCustody,
                      AnswersEntrusted
  <2>3. CASE HandleGetMnemonic
    BY <1>1, <2>3, AnswerKeeps
       DEF HandleGetMnemonic, IosCustody, DartCustody, ChannelTypeOK
  <2>4. CASE HandleGetPrivateKey
    <3>1. req.phrase \in entrusted
      <4>1. req = requests[1] /\ 1 \in 1..Len(requests)
        BY <2>4, TailOf DEF HandleGetPrivateKey, Receive, ChannelTypeOK
      <4>2. req.method = "getPrivateKeyFromMnemonic"
        BY <2>4 DEF HandleGetPrivateKey, Receive
      <4> QED
        BY <4>1, <4>2 DEF DartCustody, KeysAfterSaves, KeysCovered
    <3> QED
      BY <1>1, <2>4, <3>1, AnswerKeeps
         DEF HandleGetPrivateKey, DartCustody, ChannelTypeOK
  <2> QED
    BY <2>1, <2>2, <2>3, <2>4 DEF IosStep
<1>5. IosCustody'
  BY <1>1 DEF IosStep, HandleGenerateMnemonic, HandleSaveMnemonic,
              HandleDeleteMnemonic, HandleGetMnemonic, HandleGetPrivateKey,
              IosCustody
<1> QED
  BY <1>1, <1>2, <1>3, <1>4, <1>5 DEF DartCustody

\* The induction step of custody: one case per party that can move.
LEMMA CustodyStep ==
  ASSUME CustodyInv, [Next]_vars
  PROVE  CustodyInv' /\ entrusted \subseteq entrusted'
<1>0. TypeOK /\ DartCustody /\ IosCustody /\ TypeOK'
  BY TypeStep DEF CustodyInv
<1>1. CASE App
  BY <1>0, <1>1, AppCustody DEF App, TypeOK, CustodyInv, IosCustody
<1>2. CASE Dart
  BY <1>0, <1>2, DartStepCustody DEF Dart, TypeOK, CustodyInv, IosCustody
<1>3. CASE Native
  BY <1>0, <1>3, NativeCustody DEF Native, CustodyInv
<1>4. CASE Restart
  BY <1>0, <1>4, RestartCustody
     DEF Restart, IosRestart, historyVars, CustodyInv, IosCustody
<1>5. CASE UNCHANGED vars
  BY <1>0, <1>5, CustodyGrows DEF vars, historyVars, CustodyInv, IosCustody
<1> QED
  BY <1>1, <1>2, <1>3, <1>4, <1>5 DEF Next

\* At all times every mnemonic on its way to becoming a wallet is entrusted, or
\* its save is ahead of it in the queue.
THEOREM CustodyCorrect == Spec => []CustodyInv
<1>1. CustodyInv /\ [Next]_vars => CustodyInv'
  BY CustodyStep
<1> QED
  BY CustodyInit, <1>1, PTL DEF Spec

\* The application never holds a wallet whose mnemonic has not been handed to
\* the keychain, although generateMnemonic does not await its save.
THEOREM HandedOutCorrect == Spec => []HandedOutIsEntrusted
<1>1. CustodyInv => HandedOutIsEntrusted
  BY DEF CustodyInv, DartCustody
<1> QED
  BY CustodyCorrect, <1>1, PTL

-----------------------------------------------------------------------------
(* Refinement.                                                             *)

\* A step of the detailed system is a step of Custody or leaves it alone.
LEMMA CustodyMapping ==
  ASSUME CustodyInv, [Next]_vars, CustodyInv'
  PROVE  CustodySpec!Next \/ UNCHANGED <<entrusted, cached>>
<1> USE DEF CustodySpec!Next, CustodySpec!Entrust, CustodySpec!Adopt,
            CustodySpec!Forget
<1>1. CASE App
  <2>1. entrusted' = entrusted
    BY <1>1, AppCustody DEF App, CustodyInv, TypeOK
  <2>2. cached' \in {cached, None}
    BY <1>1 DEF App, AppStep, GetWallet, GetAccountPhrase, Sign, CreateAccount,
                OverwriteAccount, PermanentlyDeleteAccount, SaveText
  <2> QED
    BY <2>1, <2>2
<1>2. CASE Dart
  <2>1. entrusted' = entrusted
    BY <1>2, DartStepCustody DEF Dart, CustodyInv, TypeOK
  <2>2. cached' = None \/ cached' \in entrusted
    BY <2>1 DEF CustodyInv, DartCustody, HandedOutIsEntrusted
  <2>3. entrusted \subseteq Text
    BY DEF CustodyInv, TypeOK, ChannelTypeOK
  <2> QED
    BY <2>1, <2>2, <2>3
<1>3. CASE Native
  <2>1. cached' = cached
    BY <1>3 DEF Native, dartVars
  <2>2. CASE HandleSaveMnemonic
    <3>1. Head(requests).phrase \in Text
      <4>1. Head(requests) \in Request /\ Head(requests).method = "saveMnemonic"
        BY <2>2, ReceiveTyped DEF HandleSaveMnemonic, CustodyInv, TypeOK
      <4> QED
        BY <4>1 DEF Request
    <3> QED
      BY <2>1, <2>2, <3>1 DEF HandleSaveMnemonic
  <2>3. CASE ~HandleSaveMnemonic
    BY <1>3, <2>1, <2>3
       DEF Native, IosStep, HandleGenerateMnemonic, HandleDeleteMnemonic,
           HandleGetMnemonic, HandleGetPrivateKey, historyVars
  <2> QED
    BY <2>2, <2>3
<1>4. CASE Restart
  BY <1>4 DEF Restart, DartRestart, IosRestart, historyVars
<1>5. CASE UNCHANGED vars
  BY <1>5 DEF vars, historyVars, dartVars
<1> QED
  BY <1>1, <1>2, <1>3, <1>4, <1>5 DEF Next

\* The detailed system implements Custody: the application adopts entrusted
\* mnemonics only, and entrusting is never taken back.
THEOREM CustodyRefined == Spec => ImplementsCustody
<1>1. Init => CustodySpec!Init
  BY TypeInit DEF Init, DartInit, TypeOK, ChannelTypeOK, CustodySpec!Init
<1>2. CustodyInv /\ CustodyInv' /\ [Next]_vars =>
          [CustodySpec!Next]_(CustodySpec!vars)
  BY CustodyMapping DEF CustodySpec!vars
<1> QED
  BY CustodyCorrect, <1>1, <1>2, PTL
     DEF Spec, ImplementsCustody, CustodySpec!Spec

-----------------------------------------------------------------------------
(* The string "failure".                                                   *)

\* The induction step: only a valid mnemonic is answered with a key, and only
\* a key becomes a wallet.
LEMMA FailureStep ==
  ASSUME TypeOK, FailureIsNoWallet, AnsweredKeysValid, [Next]_vars
  PROVE  FailureIsNoWallet' /\ AnsweredKeysValid'
<1> USE DEF FailureIsNoWallet, AnsweredKeysValid
<1>1. CASE App
  <2>1. replies' = replies /\ cached' \in {cached, None}
    BY <1>1 DEF App, AppStep, GetWallet, GetAccountPhrase, Sign, CreateAccount,
                OverwriteAccount, PermanentlyDeleteAccount, SaveText
  <2>2. \A h \in Frames : frames'[h] # frames[h] =>
            \/ frames'[h].pc # "returned"
            \/ frames'[h].text = cached /\ cached # None
    BY <1>1, AppWallets DEF App, TypeOK
  <2>3. None # Failure
    BY ConstantsDistinct
  <2> QED
    BY <2>1, <2>2, <2>3
<1>2. CASE Dart
  <2>1. PICK f \in Frames : \/ OnGetMnemonic(f) \/ OnGenerateMnemonic(f)
                            \/ OnPrivateKey(f) \/ OnKeyError(f)
    BY <1>2 DEF Dart, DartStep
  <2>2. /\ replies # <<>> /\ replies' = Tail(replies)
        /\ Head(replies) = replies[1] /\ Len(replies) \in Nat \ {0}
        /\ Len(replies') = Len(replies) - 1
        /\ \A i \in 1..Len(replies') : replies'[i] = replies[i + 1]
    BY <2>1, TailOf DEF OnGetMnemonic, OnGenerateMnemonic, OnPrivateKey,
                        OnKeyError, Resume, TypeOK, ChannelTypeOK
  <2>3. AnsweredKeysValid'
    BY <2>2
  <2>4. CASE OnGetMnemonic(f) \/ OnGenerateMnemonic(f) \/ OnKeyError(f)
    <3>1. cached' = cached
      BY <2>4 DEF OnGetMnemonic, OnGenerateMnemonic, OnKeyError
    <3>2. \A h \in Frames : frames'[h] # frames[h] =>
              frames'[h].pc # "returned" \/ frames'[h].op = "getAccountPhrase"
      BY <2>4 DEF OnGetMnemonic, OnGenerateMnemonic, OnKeyError, Goes, TypeOK,
                  DartTypeOK, Frame
    <3> QED
      BY <2>3, <3>1, <3>2
  <2>5. CASE OnPrivateKey(f)
    <3>1. Head(replies).value # Failure
      BY <2>2, <2>5 DEF OnPrivateKey, Resume
    <3>2. cached' = Head(replies).value
      BY <2>5 DEF OnPrivateKey
    <3>3. \A h \in Frames : frames'[h] = frames[h]
                              \/ frames'[h].text = Head(replies).value
      BY <2>5 DEF OnPrivateKey, Goes, TypeOK, DartTypeOK, Frame
    <3> QED
      BY <2>3, <3>1, <3>2, <3>3
  <2> QED
    BY <2>1, <2>4, <2>5
<1>3. CASE Native
  <2>1. FailureIsNoWallet'
    BY <1>3 DEF Native, dartVars
  <2>2. CASE UNCHANGED replies
    BY <2>1, <2>2
  <2>3. ASSUME NEW r \in Request, NEW ok, NEW v, Answer(r, ok, v),
               r.method # "getPrivateKeyFromMnemonic" \/ ~ok \/ v # Failure
        PROVE  AnsweredKeysValid'
    <3> DEFINE e == [method |-> r.method, caller |-> r.caller, ok |-> ok,
                     value |-> v]
    <3>1. replies' = Append(replies, e)
      BY <2>3 DEF Answer
    <3>2. /\ Len(replies) \in Nat /\ Len(Append(replies, e)) = Len(replies) + 1
          /\ \A i \in 1..Len(replies) : Append(replies, e)[i] = replies[i]
          /\ Append(replies, e)[Len(replies) + 1] = e
      BY LenProperties DEF TypeOK, ChannelTypeOK
    <3> QED
      BY <2>3, <3>1, <3>2
  <2>4. Head(requests) \in Request
    BY <1>3, ReceiveTyped
       DEF Native, IosStep, HandleGenerateMnemonic, HandleSaveMnemonic, TypeOK,
           HandleDeleteMnemonic, HandleGetMnemonic, HandleGetPrivateKey
  <2>5. Failure \notin Phrases
    BY ConstantsDistinct
  <2> QED
    BY <1>3, <2>1, <2>2, <2>3, <2>4, <2>5
       DEF Native, IosStep, HandleGenerateMnemonic, HandleSaveMnemonic,
           HandleDeleteMnemonic, HandleGetMnemonic, HandleGetPrivateKey, Receive
<1>4. CASE Restart
  BY <1>4, EmptySeq, ConstantsDistinct
     DEF Restart, DartRestart, IdleFrame, Started
<1>5. CASE UNCHANGED vars
  BY <1>5 DEF vars, channelVars, dartVars
<1> QED
  BY <1>1, <1>2, <1>3, <1>4, <1>5 DEF Next

\* However often the generation of a mnemonic fails, the application is never
\* given a wallet made from the string "failure".
THEOREM FailureCorrect == Spec => []FailureIsNoWallet
<1>1. Init => FailureIsNoWallet /\ AnsweredKeysValid
  BY EmptySeq, ConstantsDistinct
     DEF Init, ChannelInit, DartInit, IdleFrame, Started, FailureIsNoWallet,
         AnsweredKeysValid
<1>2. TypeOK /\ FailureIsNoWallet /\ AnsweredKeysValid /\ [Next]_vars =>
          FailureIsNoWallet' /\ AnsweredKeysValid'
  BY FailureStep
<1> QED
  BY TypeCorrect, <1>1, <1>2, PTL DEF Spec

-----------------------------------------------------------------------------
(* The places of the awaited calls.                                        *)

\* A handler of the plugin answers the call it takes, unless nobody awaits it.
LEMMA NativePlaced ==
  ASSUME ChannelTypeOK, ChannelTypeOK', IosStep, UNCHANGED dartVars,
         NEW h \in Frames, Placed(h, FALSE)
  PROVE  Placed(h, FALSE)'
<1> DEFINE req == Head(requests)
<1>1. UNCHANGED frames
  BY DEF dartVars
<1>2. ASSUME NEW m, Receive(m), NEW ok, NEW v, Answer(req, ok, v)
      PROVE  Placed(h, FALSE)'
  BY <1>1, <1>2, AnsweredPlaced
<1>3. CASE HandleGenerateMnemonic
  <2>1. Receive("generateNewMnemonic") /\ \E v : Answer(req, TRUE, v)
    BY <1>3 DEF HandleGenerateMnemonic
  <2> QED
    BY <1>2, <2>1
<1>4. CASE HandleSaveMnemonic \/ HandleDeleteMnemonic
  BY <1>1, <1>4, UnawaitedPlaced DEF HandleSaveMnemonic, HandleDeleteMnemonic
<1>5. CASE HandleGetMnemonic
  <2>1. Receive("getMnemonic") /\ \E v : Answer(req, TRUE, v)
    BY <1>5 DEF HandleGetMnemonic
  <2> QED
    BY <1>2, <2>1
<1>6. CASE HandleGetPrivateKey
  <2>1. Receive("getPrivateKeyFromMnemonic") /\ \E ok, v : Answer(req, ok, v)
    BY <1>6 DEF HandleGetPrivateKey
  <2> QED
    BY <1>2, <2>1
<1> QED
  BY <1>3, <1>4, <1>5, <1>6 DEF IosStep

\* The induction step of the places: one case per party that can move.
LEMMA PlacedStep ==
  ASSUME PlacedInv, [Next]_vars
  PROVE  PlacedInv'
<1>0. /\ TypeOK /\ TypeOK' /\ ChannelTypeOK /\ ChannelTypeOK' /\ DartTypeOK
      /\ \A f \in Frames : Placed(f, FALSE)
  BY TypeStep DEF PlacedInv, TypeOK
<1>1. ASSUME NEW h \in Frames
      PROVE  Placed(h, FALSE)'
  <2>0. Placed(h, FALSE)
    BY <1>0
  <2>1. CASE App
    BY <1>0, <2>0, <2>1, AppPlaced DEF App
  <2>2. CASE Dart
    BY <1>0, <2>0, <2>2, DartPlaced DEF Dart
  <2>3. CASE Native
    BY <1>0, <2>0, <2>3, NativePlaced DEF Native
  <2>4. CASE Restart
    BY <2>4, RestartPlaced DEF Restart
  <2>5. CASE UNCHANGED vars
    BY <2>0, <2>5, PlacedKept DEF vars, dartVars
  <2> QED
    BY <2>1, <2>2, <2>3, <2>4, <2>5 DEF Next
<1> QED
  BY <1>0, <1>1 DEF PlacedInv

\* Every awaited call is in exactly one place from its sending to the
\* resumption of its frame, in whatever order the calls of the application,
\* the handlers of the plugin (FlutterSdkPlugin.swift, handle) and the deaths
\* of the process come, and whatever of Security.framework fails: no handler
\* forgets to answer, answers twice or answers another frame.
THEOREM OneAnswerCorrect == Spec => []OneAnswerEach
<1>1. Init => PlacedInv
  BY TypeInit, InitPlaced DEF Init, PlacedInv
<1>2. PlacedInv /\ [Next]_vars => PlacedInv'
  BY PlacedStep
<1>3. PlacedInv => OneAnswerEach
  <2> SUFFICES ASSUME PlacedInv, NEW f \in Frames
               PROVE  /\ Cardinality(Queued(f)) + Cardinality(Answered(f)) + 0
                           = (IF frames[f].pc \in Settled THEN 0 ELSE 1)
                      /\ \A i \in Queued(f) : requests[i].method = frames[f].pc
                      /\ \A i \in Answered(f) : replies[i].method = frames[f].pc
    BY DEF OneAnswerEach, OneAnswer
  <2>1. Placed(f, FALSE)
    BY DEF PlacedInv
  <2> QED
    BY <2>1, PlacedCounted
<1> QED
  BY <1>1, <1>2, <1>3, PTL DEF Spec

-----------------------------------------------------------------------------
(* The agreement of the wallet in use and the keychain.                    *)

\* The last entry of a kind, when the queue is served.
LEMMA TailLast ==
  ASSUME NEW S, NEW q \in Seq(S), q # <<>>
  PROVE  /\ Head(q) \in S
         /\ \A m : Lacks(q, m) => Lacks(Tail(q), m) /\ Head(q).method # m
         /\ \A e : LastOfKind(q, e) =>
               \/ LastOfKind(Tail(q), e)
               \/ Head(q) = e /\ Lacks(Tail(q), e.method)
         /\ \A e : LastOfKind(Tail(q), e) => LastOfKind(q, e)
         /\ \A m : Lacks(Tail(q), m) =>
               \/ Lacks(q, m)
               \/ Head(q).method = m /\ LastOfKind(q, Head(q))
<1> DEFINE t == Tail(q)
<1>1. /\ Head(q) = q[1] /\ Len(q) \in Nat \ {0} /\ Len(t) = Len(q) - 1
      /\ \A i \in 1..Len(t) : t[i] = q[i + 1] /\ i + 1 \in 1..Len(q)
      /\ 1 \in 1..Len(q) /\ Head(q) \in S
      /\ \A i \in 1..Len(q) : i # 1 => i - 1 \in 1..Len(t) /\ t[i - 1] = q[i]
  BY TailOf
<1> HIDE DEF t
<1>2. \A m : Lacks(q, m) => Lacks(t, m) /\ Head(q).method # m
  BY <1>1 DEF Lacks
<1>3. ASSUME NEW e, LastOfKind(q, e)
      PROVE  LastOfKind(t, e) \/ (Head(q) = e /\ Lacks(t, e.method))
  <2>1. PICK i \in 1..Len(q) :
          /\ q[i] = e
          /\ \A k \in 1..Len(q) : k > i => q[k].method # e.method
    BY <1>3 DEF LastOfKind
  <2>2. CASE i = 1
    BY <1>1, <2>1, <2>2 DEF Lacks
  <2>3. CASE i # 1
    <3>1. i - 1 \in 1..Len(t) /\ t[i - 1] = e
      BY <1>1, <2>1, <2>3
    <3>2. ASSUME NEW k \in 1..Len(t), k > i - 1  PROVE t[k].method # e.method
      <4>1. k + 1 \in 1..Len(q) /\ k + 1 > i /\ t[k] = q[k + 1]
        BY <1>1, <2>1, <3>2
      <4> QED
        BY <2>1, <4>1
    <3> QED
      BY <3>1, <3>2 DEF LastOfKind
  <2> QED
    BY <2>2, <2>3
<1>4. ASSUME NEW e, LastOfKind(t, e)
      PROVE  LastOfKind(q, e)
  <2>1. PICK i \in 1..Len(t) :
          /\ t[i] = e
          /\ \A k \in 1..Len(t) : k > i => t[k].method # e.method
    BY <1>4 DEF LastOfKind
  <2>2. i + 1 \in 1..Len(q) /\ q[i + 1] = e
    BY <1>1, <2>1
  <2>3. ASSUME NEW k \in 1..Len(q), k > i + 1  PROVE q[k].method # e.method
    <3>1. k - 1 \in 1..Len(t) /\ k - 1 > i /\ t[k - 1] = q[k]
      BY <1>1, <2>1, <2>3
    <3> QED
      BY <2>1, <3>1
  <2> QED
    BY <2>2, <2>3 DEF LastOfKind
<1>5. ASSUME NEW m, Lacks(t, m)
      PROVE  Lacks(q, m) \/ (Head(q).method = m /\ LastOfKind(q, Head(q)))
  <2>1. \A k \in 1..Len(q) : k # 1 => q[k].method # m
    BY <1>1, <1>5 DEF Lacks
  <2>2. CASE Head(q).method = m
    BY <1>1, <2>1, <2>2 DEF LastOfKind
  <2>3. CASE Head(q).method # m
    BY <1>1, <2>1, <2>3 DEF Lacks
  <2> QED
    BY <2>2, <2>3
<1> QED
  BY <1>1, <1>2, <1>3, <1>4, <1>5 DEF t

\* The last entry of a kind, when calls are sent.
LEMMA ConcatLast ==
  ASSUME NEW S, NEW q \in Seq(S), NEW c \in Seq(S)
  PROVE  /\ \A m : Lacks(q \o c, m) <=> Lacks(q, m) /\ Lacks(c, m)
         /\ \A e : Lacks(c, e.method) =>
               (LastOfKind(q \o c, e) <=> LastOfKind(q, e))
         /\ \A e : LastOfKind(c, e) => LastOfKind(q \o c, e)
<1> DEFINE n == Len(q)
           s == q \o c
<1>1. /\ n \in Nat /\ Len(c) \in Nat /\ Len(s) = n + Len(c)
      /\ \A i \in 1..n : s[i] = q[i]
      /\ \A i \in 1..Len(c) : s[n + i] = c[i]
      /\ \A i \in 1..Len(s) : i \notin 1..n =>
            i - n \in 1..Len(c) /\ s[i] = c[i - n] /\ i > n
      /\ \A i \in 1..n : i \in 1..Len(s)
      /\ \A i \in 1..Len(c) : n + i \in 1..Len(s) /\ n + i > n
  BY LenProperties, ConcatProperties
<1> HIDE DEF s, n
<1>2. ASSUME NEW m
      PROVE  Lacks(s, m) <=> Lacks(q, m) /\ Lacks(c, m)
  <2>1. Lacks(s, m) => Lacks(q, m) /\ Lacks(c, m)
    BY <1>1 DEF Lacks, n
  <2>2. Lacks(q, m) /\ Lacks(c, m) => Lacks(s, m)
    BY <1>1 DEF Lacks, n
  <2> QED
    BY <2>1, <2>2
<1>3. ASSUME NEW e, Lacks(c, e.method)
      PROVE  LastOfKind(s, e) <=> LastOfKind(q, e)
  <2>1. \A k \in 1..Len(s) : s[k].method = e.method =>
            k \in 1..n /\ s[k] = q[k]
    BY <1>1, <1>3 DEF Lacks
  <2>2. ASSUME LastOfKind(s, e)  PROVE LastOfKind(q, e)
    <3>1. PICK i \in 1..Len(s) :
            /\ s[i] = e
            /\ \A k \in 1..Len(s) : k > i => s[k].method # e.method
      BY <2>2 DEF LastOfKind
    <3>2. i \in 1..n /\ q[i] = e
      BY <2>1, <3>1
    <3>3. ASSUME NEW k \in 1..n, k > i  PROVE q[k].method # e.method
      BY <1>1, <3>1, <3>3
    <3> QED
      BY <3>2, <3>3 DEF LastOfKind, n
  <2>3. ASSUME LastOfKind(q, e)  PROVE LastOfKind(s, e)
    <3>1. PICK i \in 1..n :
            /\ q[i] = e
            /\ \A k \in 1..n : k > i => q[k].method # e.method
      BY <2>3 DEF LastOfKind, n
    <3>2. i \in 1..Len(s) /\ s[i] = e
      BY <1>1, <3>1
    <3>3. ASSUME NEW k \in 1..Len(s), k > i  PROVE s[k].method # e.method
      BY <1>1, <2>1, <3>1, <3>3
    <3> QED
      BY <3>2, <3>3 DEF LastOfKind
  <2> QED
    BY <2>2, <2>3
<1>4. ASSUME NEW e, LastOfKind(c, e)
      PROVE  LastOfKind(s, e)
  <2>1. PICK i \in 1..Len(c) :
          /\ c[i] = e
          /\ \A k \in 1..Len(c) : k > i => c[k].method # e.method
    BY <1>4 DEF LastOfKind
  <2>2. n + i \in 1..Len(s) /\ s[n + i] = e
    BY <1>1, <2>1
  <2>3. ASSUME NEW k \in 1..Len(s), k > n + i  PROVE s[k].method # e.method
    <3>1. k - n \in 1..Len(c) /\ k - n > i /\ s[k] = c[k - n]
      BY <1>1, <2>1, <2>3
    <3> QED
      BY <2>1, <3>1
  <2> QED
    BY <2>2, <2>3 DEF LastOfKind
<1> QED
  BY <1>2, <1>3, <1>4 DEF s

\* There is one last entry of a kind.
LEMMA LastUnique ==
  ASSUME NEW S, NEW q \in Seq(S), NEW e, LastOfKind(q, e)
  PROVE  /\ e \in S
         /\ ~Lacks(q, e.method)
         /\ \A d : LastOfKind(q, d) /\ d.method = e.method => d = e
<1>1. PICK i \in 1..Len(q) :
        /\ q[i] = e
        /\ \A k \in 1..Len(q) : k > i => q[k].method # e.method
  BY DEF LastOfKind
<1>2. e \in S /\ ~Lacks(q, e.method)
  BY <1>1 DEF Lacks
<1>3. ASSUME NEW d, LastOfKind(q, d), d.method = e.method
      PROVE  d = e
  <2>1. PICK k \in 1..Len(q) :
          /\ q[k] = d
          /\ \A j \in 1..Len(q) : j > k => q[j].method # d.method
    BY <1>3 DEF LastOfKind
  <2>2. i = k
    BY <1>1, <1>3, <2>1, LenProperties
  <2> QED
    BY <1>1, <2>1, <2>2
<1> QED
  BY <1>2, <1>3

\* The kinds of the calls that matter here.
LEMMA Kinds ==
  ASSUME NEW p
  PROVE  /\ SaveMnemonic(p).method = "saveMnemonic"
         /\ SaveMnemonic(p).phrase = p
         /\ \A f : DeriveKey(f, p).method = KeyMethod
         /\ \A f : DeriveKey(f, p).phrase = p
         /\ \A r \in Request : r.method = "saveMnemonic" =>
               r = SaveMnemonic(r.phrase)
         /\ \A r \in Request : r.method = KeyMethod =>
               r.caller \in Frames /\ r = DeriveKey(r.caller, r.phrase)
  BY DEF SaveMnemonic, DeriveKey, Call, KeyMethod, Request

\* Sending calls that save nothing leaves what the keychain will hold.
LEMMA KeepSend ==
  ASSUME requests \in Seq(Request), NEW c \in Seq(Request), Send(c),
         Lacks(c, "saveMnemonic"), keychain' = keychain,
         NEW p, WillKeep(p)
  PROVE  WillKeep(p)'
<1>1. /\ Lacks(requests, "saveMnemonic") => Lacks(requests \o c, "saveMnemonic")
      /\ LastOfKind(requests, SaveMnemonic(p)) =>
             LastOfKind(requests \o c, SaveMnemonic(p))
  BY ConcatLast, Kinds
<1>2. requests' = requests \o c
  BY DEF Send
<1> QED
  BY <1>1, <1>2 DEF WillKeep, SaveMnemonic, Call

\* So does handling a call, when the keychain follows the saves.
LEMMA KeepReceive ==
  ASSUME requests \in Seq(Request), NEW m, Receive(m),
         IF m = "saveMnemonic" THEN keychain' = Head(requests).phrase
                               ELSE keychain' = keychain,
         NEW p, WillKeep(p)
  PROVE  WillKeep(p)'
<1>1. /\ requests # <<>> /\ requests' = Tail(requests)
      /\ Head(requests).method = m
  BY DEF Receive
<1>2. CASE Lacks(requests, "saveMnemonic") /\ keychain = p
  BY <1>1, <1>2, TailLast DEF WillKeep
<1>3. CASE LastOfKind(requests, SaveMnemonic(p))
  <2>1. \/ LastOfKind(Tail(requests), SaveMnemonic(p))
        \/ /\ Head(requests) = SaveMnemonic(p)
           /\ Lacks(Tail(requests), "saveMnemonic")
    BY <1>1, <1>3, TailLast, Kinds
  <2>2. CASE LastOfKind(Tail(requests), SaveMnemonic(p))
    BY <1>1, <2>2 DEF WillKeep, SaveMnemonic, Call
  <2>3. CASE /\ Head(requests) = SaveMnemonic(p)
             /\ Lacks(Tail(requests), "saveMnemonic")
    BY <1>1, <2>3, Kinds DEF WillKeep
  <2> QED
    BY <2>1, <2>2, <2>3
<1> QED
  BY <1>2, <1>3 DEF WillKeep

\* Sending calls that ask for no key, and taking a reply that is none, leaves
\* what will be cached.
LEMMA UseSend ==
  ASSUME requests \in Seq(Request), NEW c \in Seq(Request), Send(c),
         Lacks(c, KeyMethod), cached' = cached,
         replies \in Seq(Reply),
         \/ replies' = replies
         \/ /\ replies # <<>> /\ replies' = Tail(replies)
            /\ Head(replies).method # KeyMethod,
         NEW p, WillUse(p)'
  PROVE  WillUse(p)
<1>1. /\ Lacks(requests \o c, KeyMethod) => Lacks(requests, KeyMethod)
      /\ \A f : LastOfKind(requests \o c, DeriveKey(f, p)) =>
             LastOfKind(requests, DeriveKey(f, p))
  BY ConcatLast, Kinds
<1>2. requests' = requests \o c
  BY DEF Send
<1>3. /\ Lacks(replies', KeyMethod) => Lacks(replies, KeyMethod)
      /\ \A r : LastOfKind(replies', r) => LastOfKind(replies, r)
  <2>1. CASE replies' = replies
    BY <2>1
  <2>2. CASE /\ replies # <<>> /\ replies' = Tail(replies)
             /\ Head(replies).method # KeyMethod
    BY <2>2, TailLast
  <2> QED
    BY <2>1, <2>2
<1> QED
  BY <1>1, <1>2, <1>3 DEF WillUse, KeyMethod, DeriveKey, Call

\* So does handling a call: the key that it asks for is put behind the others.
LEMMA UseReceive ==
  ASSUME requests \in Seq(Request), NEW m, Receive(m), cached' = cached,
         replies \in Seq(Reply), replies' \in Seq(Reply),
         \/ m # KeyMethod /\ replies' = replies
         \/ \E ok, v : /\ Answer(Head(requests), ok, v)
                       /\ m = KeyMethod => v = Head(requests).phrase,
         NEW p, WillUse(p)'
  PROVE  WillUse(p)
<1> DEFINE req == Head(requests)
<1>1. /\ requests # <<>> /\ requests' = Tail(requests)
      /\ req.method = m /\ req \in Request
  BY TailOf DEF Receive
<1>2. /\ Lacks(requests', KeyMethod) =>
             \/ m # KeyMethod /\ Lacks(requests, KeyMethod)
             \/ m = KeyMethod /\ LastOfKind(requests, req)
      /\ \A e : LastOfKind(requests', e) => LastOfKind(requests, e)
  BY <1>1, TailLast
<1>3. CASE \E f \in Frames : LastOfKind(requests', DeriveKey(f, p))
  BY <1>2, <1>3 DEF WillUse
<1>4. CASE m # KeyMethod /\ Lacks(requests', KeyMethod)
  <2>1. /\ Lacks(replies', KeyMethod) => Lacks(replies, KeyMethod)
        /\ \A r : r.method = KeyMethod /\ LastOfKind(replies', r) =>
               LastOfKind(replies, r)
    <3>1. CASE replies' = replies
      BY <3>1
    <3>2. ASSUME NEW ok, NEW v, Answer(req, ok, v)
          PROVE  /\ Lacks(replies', KeyMethod) => Lacks(replies, KeyMethod)
                 /\ \A r : r.method = KeyMethod /\ LastOfKind(replies', r) =>
                        LastOfKind(replies, r)
      <4> DEFINE e == [method |-> req.method, caller |-> req.caller,
                       ok |-> ok, value |-> v]
      <4>1. <<e>> \in Seq(Reply) /\ replies' = replies \o <<e>>
        BY <3>2, AnswerAppends
      <4>2. Lacks(<<e>>, KeyMethod)
        BY <1>1, <1>4 DEF Lacks
      <4> HIDE DEF e
      <4> QED
        BY <4>1, <4>2, ConcatLast
    <3> QED
      BY <1>4, <3>1, <3>2
  <2> QED
    BY <1>2, <1>4, <2>1 DEF WillUse, KeyMethod, DeriveKey, Call
<1>5. CASE m = KeyMethod /\ Lacks(requests', KeyMethod)
  <2>1. PICK ok : Answer(req, ok, req.phrase)
    BY <1>5
  <2> DEFINE e == [method |-> req.method, caller |-> req.caller,
                   ok |-> ok, value |-> req.phrase]
  <2>2. /\ <<e>> \in Seq(Reply) /\ replies' = replies \o <<e>>
        /\ e.method = m /\ e.value = req.phrase
    BY <1>1, <2>1, AnswerAppends
  <2> HIDE DEF e
  <2>3. LastOfKind(<<e>>, e)
    BY DEF LastOfKind
  <2>4. LastOfKind(replies', e)
    BY <2>2, <2>3, ConcatLast
  <2>5. ~Lacks(replies', KeyMethod)
        /\ \A r : LastOfKind(replies', r) /\ r.method = KeyMethod => r = e
    BY <1>5, <2>2, <2>4, LastUnique
  <2>6. CASE \E f \in Frames : LastOfKind(requests', DeriveKey(f, p))
    BY <1>3, <2>6
  <2>7. CASE p = req.phrase
    <3>1. req.caller \in Frames /\ req = DeriveKey(req.caller, p)
      BY <1>1, <1>5, <2>7, Kinds
    <3>2. LastOfKind(requests, req)
      BY <1>2, <1>5
    <3> QED
      BY <3>1, <3>2 DEF WillUse
  <2> QED
    BY <2>1, <2>2, <2>5, <2>6, <2>7 DEF WillUse, KeyMethod
<1> QED
  BY <1>3, <1>4, <1>5 DEF WillUse, KeyMethod

\* The reply that is cached was going to be, or another was.
LEMMA UseCached ==
  ASSUME UNCHANGED requests, replies \in Seq(Reply), replies # <<>>,
         replies' = Tail(replies), Head(replies).method = KeyMethod,
         cached' = Head(replies).value,
         NEW p, WillUse(p)'
  PROVE  WillUse(p)
<1>1. /\ Lacks(replies', KeyMethod) => LastOfKind(replies, Head(replies))
      /\ \A e : LastOfKind(replies', e) => LastOfKind(replies, e)
      /\ Head(replies) \in Reply
  BY TailLast
<1>2. CASE Lacks(replies', KeyMethod) /\ cached' = p /\ Lacks(requests, KeyMethod)
  BY <1>1, <1>2 DEF WillUse
<1>3. CASE \E f \in Frames : LastOfKind(requests, DeriveKey(f, p))
  BY <1>3 DEF WillUse
<1>4. ASSUME Lacks(requests, KeyMethod),
             NEW r \in Reply, LastOfKind(replies', r), r.method = KeyMethod,
             r.value = p
      PROVE  WillUse(p)
  BY <1>1, <1>4 DEF WillUse
<1> QED
  BY <1>2, <1>3, <1>4 DEF WillUse, KeyMethod, DeriveKey, Call

\* A mnemonic whose key is asked for as it is saved, or as the keychain holds
\* it, will be cached and kept.
LEMMA AgreeSend ==
  ASSUME requests \in Seq(Request), NEW c \in Seq(Request), Send(c),
         NEW f, NEW p, LastOfKind(c, DeriveKey(f, p)),
         \/ LastOfKind(c, SaveMnemonic(p))
         \/ /\ Lacks(requests, "saveMnemonic") /\ Lacks(c, "saveMnemonic")
            /\ keychain' = p
  PROVE  WillAgree'
<1>1. requests' = requests \o c /\ requests' \in Seq(Request)
  BY DEF Send
<1>2. LastOfKind(requests', DeriveKey(f, p))
  BY <1>1, ConcatLast
<1>3. ASSUME NEW u, WillUse(u)'  PROVE u = p
  <2>1. ~Lacks(requests', KeyMethod)
    <3>1. ~Lacks(requests', DeriveKey(f, p).method)
      BY <1>1, <1>2, LastUnique
    <3> QED
      BY <3>1, Kinds
  <2>2. PICK g \in Frames : LastOfKind(requests', DeriveKey(g, u))
    BY <1>3, <2>1 DEF WillUse, KeyMethod, DeriveKey, Call
  <2>3. DeriveKey(g, u) = DeriveKey(f, p)
    <3>1. DeriveKey(g, u).method = DeriveKey(f, p).method
      BY Kinds
    <3> QED
      BY <1>1, <1>2, <2>2, <3>1, LastUnique
  <2> QED
    BY <2>3, Kinds, SMTT(30)
<1>4. WillKeep(p)'
  <2>1. CASE LastOfKind(c, SaveMnemonic(p))
    <3>1. LastOfKind(requests', SaveMnemonic(p))
      BY <1>1, <2>1, ConcatLast
    <3> QED
      BY <3>1 DEF WillKeep, SaveMnemonic, Call
  <2>2. CASE /\ Lacks(requests, "saveMnemonic") /\ Lacks(c, "saveMnemonic")
             /\ keychain' = p
    <3>1. Lacks(requests', "saveMnemonic")
      BY <1>1, <2>2, ConcatLast
    <3> QED
      BY <2>2, <3>1 DEF WillKeep
  <2> QED
    BY <2>1, <2>2
<1> QED
  BY <1>3, <1>4 DEF WillAgree

\* What each stretch of Dart code sends, by kinds.
LEMMA CallShapes ==
  ASSUME NEW f \in Frames, NEW p \in Text
  PROVE  LET s == SaveMnemonic(p)
             d == DeriveKey(f, p)
             gen == <<Call("generateNewMnemonic", f, None)>>
             get == <<Call("getMnemonic", f, None)>>
         IN  /\ \A m \in {"getMnemonic", "saveMnemonic", KeyMethod} : Lacks(gen, m)
             /\ Lacks(get, "saveMnemonic") /\ Lacks(get, KeyMethod)
             /\ \A m : Lacks(<<>>, m)
             /\ Lacks(<<d>>, "saveMnemonic") /\ Lacks(<<d>>, "getMnemonic")
             /\ LastOfKind(<<d>>, d)
             /\ Lacks(<<s, d>>, "getMnemonic") /\ Lacks(<<s, s, d>>, "getMnemonic")
             /\ LastOfKind(<<s, d>>, d) /\ LastOfKind(<<s, d>>, s)
             /\ LastOfKind(<<s, s, d>>, d) /\ LastOfKind(<<s, s, d>>, s)
<1> DEFINE s == SaveMnemonic(p)
           d == DeriveKey(f, p)
           gen == <<Call("generateNewMnemonic", f, None)>>
           get == <<Call("getMnemonic", f, None)>>
<1>1. s.method = "saveMnemonic" /\ d.method = KeyMethod /\ s # d
      /\ KeyMethod # "saveMnemonic" /\ KeyMethod # "getMnemonic"
  BY Kinds DEF KeyMethod
<1>2. /\ \A m \in {"getMnemonic", "saveMnemonic", KeyMethod} : Lacks(gen, m)
      /\ Lacks(get, "saveMnemonic") /\ Lacks(get, KeyMethod)
      /\ \A m : Lacks(<<>>, m)
  BY DEF Lacks, Call, KeyMethod
<1> HIDE DEF s, d
<1>3. /\ Lacks(<<d>>, "saveMnemonic") /\ Lacks(<<d>>, "getMnemonic")
      /\ Lacks(<<s, d>>, "getMnemonic") /\ Lacks(<<s, s, d>>, "getMnemonic")
  BY <1>1 DEF Lacks
<1>4. LastOfKind(<<d>>, d)
  <2>1. 1 \in 1..Len(<<d>>) /\ \A k \in 1..Len(<<d>>) : ~(k > 1)
    OBVIOUS
  <2> QED
    BY <2>1 DEF LastOfKind
<1>5. LastOfKind(<<s, d>>, d) /\ LastOfKind(<<s, d>>, s)
  <2> DEFINE q == <<s, d>>
  <2>1. /\ 1 \in 1..Len(q) /\ 2 \in 1..Len(q) /\ q[1] = s /\ q[2] = d
        /\ \A k \in 1..Len(q) : k > 1 => k = 2
        /\ \A k \in 1..Len(q) : ~(k > 2)
    OBVIOUS
  <2> HIDE DEF q
  <2>2. LastOfKind(q, d) /\ LastOfKind(q, s)
    BY <1>1, <2>1 DEF LastOfKind
  <2> QED
    BY <2>2 DEF q
<1>6. LastOfKind(<<s, s, d>>, d) /\ LastOfKind(<<s, s, d>>, s)
  <2> DEFINE q == <<s, s, d>>
  <2>1. /\ 2 \in 1..Len(q) /\ 3 \in 1..Len(q) /\ q[2] = s /\ q[3] = d
        /\ \A k \in 1..Len(q) : k > 2 => k = 3
        /\ \A k \in 1..Len(q) : ~(k > 3)
    OBVIOUS
  <2> HIDE DEF q
  <2>2. LastOfKind(q, d) /\ LastOfKind(q, s)
    BY <1>1, <2>1 DEF LastOfKind
  <2> QED
    BY <2>2 DEF q
<1> QED
  BY <1>2, <1>3, <1>4, <1>5, <1>6 DEF s, d

\* As long as there is no wallet, an application that waits for nothing has
\* nothing under way.
LEMMA Quiet ==
  ASSUME AgreementInv, cached = None,
         \A f \in Frames : frames[f].awaited => f \in Free
  PROVE  requests = <<>> /\ replies = <<>>
<1>1. ASSUME NEW f \in Frames  PROVE Absent(requests, f) /\ Absent(replies, f)
  <2>1. frames[f].pc \in Settled
    BY DEF AgreementInv, FirstCallWaits, Free
  <2> QED
    BY <2>1 DEF AgreementInv, PlacedInv, Placed, Settled
<1>2. requests \in Seq(Request) /\ replies \in Seq(Reply)
      /\ Len(requests) \in Nat /\ Len(replies) \in Nat
  BY LenProperties DEF AgreementInv, PlacedInv, TypeOK, ChannelTypeOK
<1>3. ASSUME NEW i \in 1..Len(replies)  PROVE FALSE
  <2>1. replies[i] \in Reply
    BY <1>2
  <2>2. replies[i].caller \in Frames
    BY <2>1 DEF Reply
  <2> QED
    BY <1>1, <2>2 DEF Absent
<1>4. ASSUME NEW i \in 1..Len(requests), requests[i].caller \in Frames
      PROVE  FALSE
  BY <1>1, <1>4 DEF Absent
<1>5. ASSUME NEW i \in 1..Len(requests)  PROVE FALSE
  <2>1. requests[i] \in GenuineRequest
    BY DEF AgreementInv, Genuine
  <2>2. requests[i].caller \in Frames \/ requests[i].method = "saveMnemonic"
    BY <2>1 DEF GenuineRequest, Request
  <2>3. CASE requests[i].method = "saveMnemonic"
    <3>1. PICK j \in 1..Len(requests) : requests[j].method = KeyMethod
      BY <2>3 DEF AgreementInv, SavesAwaited
    <3>2. requests[j] \in Request
      BY <1>2
    <3>3. requests[j].caller \in Frames
      BY <3>1, <3>2, Kinds
    <3> QED
      BY <1>4, <3>3
  <2> QED
    BY <1>4, <2>2, <2>3
<1> QED
  BY <1>2, <1>3, <1>5, EmptySeq

\* What a call of the application does here.
LEMMA AppSends ==
  ASSUME WellBehaved, AgreementInv, AppStep \/ PermanentlyDeleteAccount
  PROVE  /\ \E c \in Seq(GenuineRequest) :
              /\ Send(c)
              /\ Lacks(c, "saveMnemonic") /\ Lacks(c, KeyMethod)
              /\ cached # None => Lacks(c, "getMnemonic")
              /\ \A i \in 1..Len(c) : c[i].method = "getMnemonic" => i = 1
         /\ UNCHANGED <<cached, replies>>
         /\ \A f \in Frames : frames[f].awaited => f \in Free
         /\ \A f \in Frames : frames'[f].op # "getAccountPhrase"
         /\ cached = None =>
              \E f \in Frames : frames'[f].awaited /\ frames'[f].pc \notin Settled
<1> USE DEF Ready, WellBehaved
<1>0. /\ frames \in [Frames -> Frame] /\ Failure \in Text
      /\ \A f \in Frames : frames[f].op # "getAccountPhrase"
  BY DEF AgreementInv, PlacedInv, TypeOK, DartTypeOK, Genuine, Text
<1>1. /\ \A f \in Frames : Call("getMnemonic", f, None) \in GenuineRequest
      /\ \A f \in Frames : Call("generateNewMnemonic", f, None) \in GenuineRequest
  BY CallTypes, ConstantsDistinct DEF GenuineRequest, Call
<1>2. ASSUME NEW g \in Frames
      PROVE  LET c == WalletCalls(g) IN
             /\ c \in Seq(GenuineRequest)
             /\ Lacks(c, "saveMnemonic") /\ Lacks(c, KeyMethod)
             /\ cached # None => Lacks(c, "getMnemonic")
             /\ \A i \in 1..Len(c) : i = 1
  <2>1. CASE cached # None
    <3>1. WalletCalls(g) = <<>> /\ \A i \in 1..Len(<<>>) : i = 1
      BY <2>1 DEF WalletCalls
    <3>2. <<>> \in Seq(GenuineRequest) /\ \A m : Lacks(<<>>, m)
      BY <1>0, EmptySeq, CallShapes
    <3> QED
      BY <3>1, <3>2
  <2>2. CASE cached = None
    <3> DEFINE e == Call("getMnemonic", g, None)
    <3>1. WalletCalls(g) = <<e>> /\ e \in GenuineRequest
      BY <1>1, <2>2 DEF WalletCalls
    <3>2. Lacks(<<e>>, "saveMnemonic") /\ Lacks(<<e>>, KeyMethod)
      BY <1>0, CallShapes
    <3> HIDE DEF e
    <3>3. <<e>> \in Seq(GenuineRequest) /\ \A i \in 1..Len(<<e>>) : i = 1
      BY <3>1
    <3> QED
      BY <2>2, <3>1, <3>2, <3>3
  <2> QED
    BY <2>1, <2>2
<1>3. ASSUME NEW f \in Frames, GetWallet(f)
      PROVE  /\ \E c \in Seq(GenuineRequest) :
                  /\ Send(c)
                  /\ Lacks(c, "saveMnemonic") /\ Lacks(c, KeyMethod)
                  /\ cached # None => Lacks(c, "getMnemonic")
                  /\ \A i \in 1..Len(c) : c[i].method = "getMnemonic" => i = 1
             /\ UNCHANGED <<cached, replies>>
             /\ \A h \in Frames : frames[h].awaited => h \in Free
             /\ \A h \in Frames : frames'[h].op # "getAccountPhrase"
             /\ cached = None => \E h \in Frames :
                    frames'[h].awaited /\ frames'[h].pc \notin Settled
  <2>1. Send(WalletCalls(f)) /\ UNCHANGED <<cached, replies>>
        /\ \A h \in Frames : frames[h].awaited => h \in Free
    BY <1>3 DEF GetWallet
  <2>2. \A h \in Frames : frames'[h].op # "getAccountPhrase"
    BY <1>0, <1>3 DEF GetWallet, WalletFrame, Started
  <2>3. cached = None => frames'[f].awaited /\ frames'[f].pc \notin Settled
    BY <1>0, <1>3 DEF GetWallet, WalletFrame, Started, Settled
  <2> QED
    BY <1>2, <2>1, <2>2, <2>3
<1>4. ASSUME NEW f \in Frames, NEW g \in Frames, OverwriteAccount(f, g)
      PROVE  /\ \E c \in Seq(GenuineRequest) :
                  /\ Send(c)
                  /\ Lacks(c, "saveMnemonic") /\ Lacks(c, KeyMethod)
                  /\ cached # None => Lacks(c, "getMnemonic")
                  /\ \A i \in 1..Len(c) : c[i].method = "getMnemonic" => i = 1
             /\ UNCHANGED <<cached, replies>>
             /\ \A h \in Frames : frames[h].awaited => h \in Free
             /\ \A h \in Frames : frames'[h].op # "getAccountPhrase"
             /\ cached = None => \E h \in Frames :
                    frames'[h].awaited /\ frames'[h].pc \notin Settled
  <2> DEFINE a == WalletCalls(g)
             b == <<Call("generateNewMnemonic", f, None)>>
  <2>1. Send(a \o b) /\ UNCHANGED <<cached, replies>> /\ f # g
        /\ \A h \in Frames : frames[h].awaited => h \in Free
    BY <1>4 DEF OverwriteAccount
  <2>2. \A h \in Frames : frames'[h].op # "getAccountPhrase"
    BY <1>0, <1>4 DEF OverwriteAccount, WalletFrame, Started
  <2>3. frames'[f].awaited /\ frames'[f].pc \notin Settled
    BY <1>0, <1>4, <2>1 DEF OverwriteAccount, Started, Settled
  <2>4. /\ a \in Seq(GenuineRequest) /\ b \in Seq(GenuineRequest)
        /\ \A m \in {"getMnemonic", "saveMnemonic", KeyMethod} : Lacks(b, m)
        /\ Lacks(a, "saveMnemonic") /\ Lacks(a, KeyMethod)
        /\ cached # None => Lacks(a, "getMnemonic")
        /\ \A i \in 1..Len(a) : i = 1
    <3>1. \A m \in {"getMnemonic", "saveMnemonic", KeyMethod} : Lacks(b, m)
      BY <1>0, CallShapes
    <3>2. b \in Seq(GenuineRequest)
      BY <1>1
    <3> QED
      BY <1>2, <3>1, <3>2
  <2> HIDE DEF a, b
  <2>5. /\ a \o b \in Seq(GenuineRequest)
        /\ Lacks(a \o b, "saveMnemonic") /\ Lacks(a \o b, KeyMethod)
        /\ cached # None => Lacks(a \o b, "getMnemonic")
    BY <2>4, ConcatLast
  <2>6. ASSUME NEW i \in 1..Len(a \o b), (a \o b)[i].method = "getMnemonic"
        PROVE  i = 1
    <3>1. /\ Len(a \o b) = Len(a) + Len(b) /\ Len(a) \in Nat /\ Len(b) \in Nat
          /\ \A k \in 1..Len(b) : (a \o b)[Len(a) + k] = b[k]
      BY <2>4, LenProperties, ConcatProperties
    <3>2. CASE i \in 1..Len(a)
      BY <2>4, <3>2
    <3>3. CASE i \notin 1..Len(a)
      <4>1. i - Len(a) \in 1..Len(b) /\ Len(a) + (i - Len(a)) = i
        BY <3>1, <3>3
      <4>2. (a \o b)[i] = b[i - Len(a)]
        BY <3>1, <4>1
      <4> QED
        BY <2>4, <2>6, <4>1, <4>2 DEF Lacks
    <3> QED
      BY <3>2, <3>3
  <2> QED
    BY <2>1, <2>2, <2>3, <2>5, <2>6
<1>5. \/ \E f \in Frames : GetWallet(f)
      \/ \E f, g \in Frames : OverwriteAccount(f, g)
  BY DEF AppStep, GetWallet, GetAccountPhrase, Sign, CreateAccount,
         OverwriteAccount, PermanentlyDeleteAccount, SaveText
<1> QED
  BY <1>3, <1>4, <1>5

\* The calls of the application keep the agreement.
LEMMA AppAgrees ==
  ASSUME WellBehaved, AgreementInv, App
  PROVE  Genuine' /\ ReadsComeFirst' /\ SavesAwaited' /\ FirstCallWaits'
         /\ WillAgree'
<1>0. /\ requests \in Seq(Request) /\ replies \in Seq(Reply)
      /\ requests \in Seq(GenuineRequest)
      /\ UNCHANGED keychain
  BY DEF AgreementInv, PlacedInv, TypeOK, ChannelTypeOK, Genuine, App
<1>1. AppStep \/ PermanentlyDeleteAccount
  BY DEF App
<1>2. /\ UNCHANGED <<cached, replies>>
      /\ \A f \in Frames : frames[f].awaited => f \in Free
      /\ \A f \in Frames : frames'[f].op # "getAccountPhrase"
      /\ cached = None =>
           \E f \in Frames : frames'[f].awaited /\ frames'[f].pc \notin Settled
  BY <1>1, AppSends
<1>3. PICK c \in Seq(GenuineRequest) :
        /\ Send(c)
        /\ Lacks(c, "saveMnemonic") /\ Lacks(c, KeyMethod)
        /\ cached # None => Lacks(c, "getMnemonic")
        /\ \A i \in 1..Len(c) : c[i].method = "getMnemonic" => i = 1
  BY <1>1, AppSends
<1>4. c \in Seq(Request) /\ requests' = requests \o c
      /\ requests' \in Seq(GenuineRequest)
  <2>1. GenuineRequest \subseteq Request
    BY DEF GenuineRequest
  <2>2. c \in Seq(Request)
    BY <2>1, LenProperties, SeqDef
  <2> QED
    BY <1>0, <1>3, <2>2 DEF Send
<1>5. Genuine'
  BY <1>0, <1>2, <1>4 DEF AgreementInv, Genuine
<1>6. /\ Len(requests) \in Nat /\ Len(c) \in Nat
      /\ Len(requests') = Len(requests) + Len(c)
      /\ \A i \in 1..Len(requests) : requests'[i] = requests[i]
      /\ \A i \in 1..Len(requests') : i \notin 1..Len(requests) =>
            /\ i - Len(requests) \in 1..Len(c)
            /\ requests'[i] = c[i - Len(requests)]
  BY <1>0, <1>4, LenProperties, ConcatProperties
<1>7. Lacks(requests, "saveMnemonic") => Lacks(requests', "saveMnemonic")
  BY <1>0, <1>3, <1>4, ConcatLast
<1>8. ReadsComeFirst'
  <2>1. CASE Lacks(c, "getMnemonic")
    <3>1. \A i \in 1..Len(requests') : requests'[i].method = "getMnemonic" =>
             i \in 1..Len(requests) /\ requests'[i] = requests[i]
      BY <1>6, <2>1 DEF Lacks
    <3> QED
      BY <1>0, <1>2, <1>7, <3>1 DEF AgreementInv, ReadsComeFirst
  <2>2. CASE ~Lacks(c, "getMnemonic")
    <3>1. requests = <<>> /\ replies = <<>>
      BY <1>2, <1>3, <2>2, Quiet
    <3>2. requests' = c /\ replies' = <<>>
      BY <1>2, <1>4, <3>1
    <3>3. \A i : i \notin 1..Len(<<>>)
      OBVIOUS
    <3> QED
      BY <1>3, <3>2, <3>3 DEF ReadsComeFirst
  <2> QED
    BY <2>1, <2>2
<1>9. SavesAwaited'
  <2>1. \A i \in 1..Len(requests') : requests'[i].method = "saveMnemonic" =>
            i \in 1..Len(requests) /\ requests'[i] = requests[i]
    BY <1>3, <1>6 DEF Lacks
  <2>2. \A j \in 1..Len(requests) :
            j \in 1..Len(requests') /\ requests'[j] = requests[j]
    BY <1>6
  <2> QED
    BY <2>1, <2>2 DEF AgreementInv, SavesAwaited, KeyMethod
<1>10. FirstCallWaits'
  BY <1>2 DEF FirstCallWaits, Settled
<1>11. WillAgree'
  <2>1. ASSUME NEW p \in Text, WillUse(p)'  PROVE WillKeep(p)'
    <3>1. WillUse(p)
      BY <1>0, <1>2, <1>3, <1>4, <2>1, UseSend
    <3>2. WillKeep(p)
      BY <3>1 DEF AgreementInv, WillAgree
    <3> QED
      BY <1>0, <1>3, <1>4, <3>2, KeepSend
  <2> QED
    BY <2>1 DEF WillAgree, Text
<1> QED
  BY <1>5, <1>8, <1>9, <1>10, <1>11

\* The calls that a reply sets off keep the queues as the agreement wants
\* them: the read that may have been answered is over.
LEMMA DartSends ==
  ASSUME AgreementInv, NEW c \in Seq(GenuineRequest), Send(c),
         replies # <<>>, replies' = Tail(replies), keychain' = keychain,
         Lacks(c, "getMnemonic"),
         \A i \in 1..Len(c) : c[i].method = "saveMnemonic" =>
             \E j \in 1..Len(c) : j > i /\ c[j].method = KeyMethod,
         \A f \in Frames : frames'[f].op # "getAccountPhrase"
  PROVE  Genuine' /\ ReadsComeFirst' /\ SavesAwaited'
<1>0. /\ requests \in Seq(GenuineRequest) /\ replies \in Seq(GenuineReply)
      /\ keychain # Failure
  BY DEF AgreementInv, Genuine
<1> DEFINE n == Len(requests)
<1>1. /\ n \in Nat /\ Len(c) \in Nat
      /\ requests' = requests \o c /\ requests' \in Seq(GenuineRequest)
      /\ Len(requests') = n + Len(c)
      /\ \A i \in 1..n : i \in 1..Len(requests') /\ requests'[i] = requests[i]
      /\ \A i \in 1..Len(c) : n + i \in 1..Len(requests') /\ requests'[n + i] = c[i]
      /\ \A i \in 1..Len(requests') : i \notin 1..n =>
            i - n \in 1..Len(c) /\ requests'[i] = c[i - n]
  BY <1>0, LenProperties, ConcatProperties DEF Send
<1>2. /\ replies' \in Seq(GenuineReply)
      /\ Len(replies) \in Nat \ {0} /\ Len(replies') = Len(replies) - 1
      /\ \A i \in 1..Len(replies') : replies'[i] = replies[i + 1]
  BY <1>0, TailOf
<1>3. Genuine'
  BY <1>0, <1>1, <1>2 DEF Genuine
<1>4. ReadsComeFirst'
  <2>1. \A i \in 1..n : requests[i].method # "getMnemonic"
    BY DEF AgreementInv, ReadsComeFirst
  <2>2. \A i \in 1..Len(requests') : requests'[i].method # "getMnemonic"
    BY <1>1, <2>1 DEF Lacks
  <2>3. ASSUME NEW i \in 1..Len(replies')  PROVE replies'[i].method # "getMnemonic"
    <3>1. i + 1 \in 1..Len(replies) /\ i + 1 # 1 /\ replies'[i] = replies[i + 1]
      BY <1>2
    <3> QED
      BY <3>1 DEF AgreementInv, ReadsComeFirst
  <2> QED
    BY <2>2, <2>3 DEF ReadsComeFirst
<1>5. SavesAwaited'
  <2> SUFFICES ASSUME NEW i \in 1..Len(requests'),
                      requests'[i].method = "saveMnemonic"
               PROVE  \E j \in 1..Len(requests') :
                          j > i /\ requests'[j].method = KeyMethod
    BY DEF SavesAwaited, KeyMethod
  <2>1. CASE i \in 1..n
    <3>1. PICK j \in 1..n : j > i /\ requests[j].method = KeyMethod
      BY <1>1, <2>1 DEF AgreementInv, SavesAwaited
    <3> QED
      BY <1>1, <3>1
  <2>2. CASE i \notin 1..n
    <3>1. i - n \in 1..Len(c) /\ c[i - n].method = "saveMnemonic"
      BY <1>1, <2>2
    <3>2. PICK j \in 1..Len(c) : j > i - n /\ c[j].method = KeyMethod
      BY <3>1
    <3>3. n + j \in 1..Len(requests') /\ n + j > i
          /\ requests'[n + j].method = KeyMethod
      BY <1>1, <3>2
    <3> QED
      BY <3>3
  <2> QED
    BY <2>1, <2>2
<1> QED
  BY <1>3, <1>4, <1>5

\* A frame that goes on to await another method still waits.
LEMMA StillWaits ==
  ASSUME DartTypeOK, FirstCallWaits, NEW f \in Frames, NEW pc, NEW text,
         Goes(f, pc, text), frames[f].pc \notin Settled, pc \notin Settled,
         cached' = cached
  PROVE  FirstCallWaits'
<1>1. \A h \in Frames : /\ frames'[h].awaited = frames[h].awaited
                        /\ frames'[h].pc \in Settled <=> frames[h].pc \in Settled
  BY DEF Goes, DartTypeOK, Frame
<1> QED
  BY <1>1 DEF FirstCallWaits, Settled

\* The replies that the isolate takes keep the agreement.
LEMMA DartAgrees ==
  ASSUME AgreementInv, Dart
  PROVE  Genuine' /\ ReadsComeFirst' /\ SavesAwaited' /\ FirstCallWaits'
         /\ WillAgree'
<1> DEFINE r == Head(replies)
           p == r.value
<1>0. /\ requests \in Seq(Request) /\ replies \in Seq(Reply)
      /\ replies \in Seq(GenuineReply)
      /\ DartTypeOK /\ FirstCallWaits /\ WillAgree
      /\ UNCHANGED keychain
      /\ \A f \in Frames : frames[f].op # "getAccountPhrase"
      /\ frames \in [Frames -> Frame]
  BY DEF AgreementInv, PlacedInv, TypeOK, ChannelTypeOK, DartTypeOK, Genuine, Dart
<1>1. ASSUME replies # <<>>
      PROVE  /\ r \in Reply /\ r.ok /\ p # Failure
             /\ Len(replies) \in Nat \ {0} /\ replies[1] = r
  BY <1>0, <1>1, TailOf DEF GenuineReply
<1>2. \A f \in Frames : \A m : Resume(f, m) =>
        /\ replies # <<>> /\ replies' = Tail(replies) /\ r.method = m
        /\ frames[f].pc = m
  BY DEF Resume
<1>3. \A f \in Frames : \A q, text : Goes(f, q, text) =>
        \A h \in Frames : frames'[h].op # "getAccountPhrase"
  BY <1>0 DEF Goes, Frame
<1> HIDE DEF r
<1>4. ASSUME NEW f \in Frames, OnGetMnemonic(f), p = None
      PROVE  Genuine' /\ ReadsComeFirst' /\ SavesAwaited' /\ FirstCallWaits'
             /\ WillAgree'
  <2> DEFINE c == <<Call("generateNewMnemonic", f, None)>>
  <2>1. /\ Resume(f, "getMnemonic") /\ Send(c) /\ cached' = cached
        /\ Goes(f, "generateNewMnemonic", None)
    BY <1>4 DEF OnGetMnemonic, r
  <2>2. /\ c \in Seq(GenuineRequest) /\ c \in Seq(Request)
        /\ \A m \in {"getMnemonic", "saveMnemonic", KeyMethod} : Lacks(c, m)
    <3>1. Call("generateNewMnemonic", f, None) \in GenuineRequest
      BY CallTypes, ConstantsDistinct DEF GenuineRequest, Call, Text
    <3>2. Failure \in Text
      BY DEF Text
    <3>3. \A m \in {"getMnemonic", "saveMnemonic", KeyMethod} : Lacks(c, m)
      BY <3>2, CallShapes
    <3> QED
      BY <3>1, <3>3 DEF GenuineRequest
  <2> HIDE DEF c
  <2>3. /\ replies # <<>> /\ replies' = Tail(replies) /\ r.method = "getMnemonic"
        /\ frames[f].pc = "getMnemonic"
    BY <1>2, <2>1
  <2>4. Genuine' /\ ReadsComeFirst' /\ SavesAwaited'
    BY <1>0, <1>3, <2>1, <2>2, <2>3, DartSends DEF Lacks
  <2>5. FirstCallWaits'
    BY <1>0, <2>1, <2>3, StillWaits DEF Settled
  <2>6. ASSUME NEW u \in Text, WillUse(u)'  PROVE WillKeep(u)'
    <3>1. WillUse(u)
      BY <1>0, <2>1, <2>2, <2>3, <2>6, UseSend DEF KeyMethod, r
    <3>2. WillKeep(u)
      BY <1>0, <3>1 DEF WillAgree
    <3> QED
      BY <1>0, <2>1, <2>2, <3>2, KeepSend
  <2> QED
    BY <2>4, <2>5, <2>6 DEF WillAgree, Text
<1>5. ASSUME NEW f \in Frames, OnGetMnemonic(f), p # None
      PROVE  Genuine' /\ ReadsComeFirst' /\ SavesAwaited' /\ FirstCallWaits'
             /\ WillAgree'
  <2> DEFINE d == DeriveKey(f, p)
             c == <<d>>
  <2>1. /\ Resume(f, "getMnemonic") /\ Send(c) /\ cached' = cached
        /\ Goes(f, KeyMethod, p)
    BY <1>0, <1>5 DEF OnGetMnemonic, r, KeyMethod
  <2>2. /\ replies # <<>> /\ replies' = Tail(replies) /\ r.method = "getMnemonic"
        /\ frames[f].pc = "getMnemonic"
    BY <1>2, <2>1
  <2>3. p \in Text /\ p # Failure
    BY <1>1, <1>5, <2>2 DEF Reply, MaybeText
  <2>4. /\ c \in Seq(GenuineRequest) /\ c \in Seq(Request)
        /\ Lacks(c, "saveMnemonic") /\ Lacks(c, "getMnemonic")
        /\ LastOfKind(c, d)
    <3>1. d \in GenuineRequest
      BY <2>3, CallTypes, Kinds DEF GenuineRequest, KeyMethod
    <3>2. /\ Lacks(c, "saveMnemonic") /\ Lacks(c, "getMnemonic")
          /\ LastOfKind(c, d)
      BY <2>3, CallShapes
    <3> QED
      BY <3>1, <3>2 DEF GenuineRequest
  <2> HIDE DEF c
  <2>5. Genuine' /\ ReadsComeFirst' /\ SavesAwaited'
    BY <1>0, <1>3, <2>1, <2>2, <2>4, DartSends DEF Lacks
  <2>6. FirstCallWaits'
    BY <1>0, <2>1, <2>2, StillWaits DEF Settled, KeyMethod
  <2>7. p = keychain /\ Lacks(requests, "saveMnemonic")
    BY <1>1, <2>2 DEF AgreementInv, ReadsComeFirst
  <2>8. WillAgree'
    BY <1>0, <2>1, <2>4, <2>7, AgreeSend
  <2> QED
    BY <2>5, <2>6, <2>8
<1>6. ASSUME NEW f \in Frames, OnGenerateMnemonic(f)
      PROVE  Genuine' /\ ReadsComeFirst' /\ SavesAwaited' /\ FirstCallWaits'
             /\ WillAgree'
  <2> DEFINE s == SaveMnemonic(p)
             d == DeriveKey(f, p)
  <2>1. PICK c \in {<<s, d>>, <<s, s, d>>} :
          /\ Resume(f, "generateNewMnemonic") /\ Send(c) /\ cached' = cached
          /\ Goes(f, KeyMethod, p)
    BY <1>0, <1>6 DEF OnGenerateMnemonic, r, KeyMethod
  <2>2. /\ replies # <<>> /\ replies' = Tail(replies)
        /\ r.method = "generateNewMnemonic"
        /\ frames[f].pc = "generateNewMnemonic"
    BY <1>2, <2>1
  <2>3. p \in Text /\ p # Failure
    BY <1>1, <2>2 DEF Reply
  <2>4. s \in GenuineRequest /\ d \in GenuineRequest
    BY <2>3, CallTypes, Kinds DEF GenuineRequest, KeyMethod
  <2>5. s.method = "saveMnemonic" /\ d.method = KeyMethod
    BY Kinds
  <2>6. /\ Lacks(c, "getMnemonic") /\ LastOfKind(c, d) /\ LastOfKind(c, s)
    BY <2>1, <2>3, CallShapes
  <2> HIDE DEF s, d
  <2>7. /\ c \in Seq(GenuineRequest)
        /\ \A i \in 1..Len(c) : c[i].method = "saveMnemonic" =>
              \E j \in 1..Len(c) : j > i /\ c[j].method = KeyMethod
    <3>1. CASE c = <<s, d>>
      <4>1. \A i \in 1..Len(c) : i = 1 \/ i = 2
        BY <3>1
      <4>2. c[2].method = KeyMethod /\ 2 \in 1..Len(c)
        BY <2>5, <3>1
      <4> QED
        BY <2>4, <3>1, <4>1, <4>2 DEF KeyMethod
    <3>2. CASE c = <<s, s, d>>
      <4>1. \A i \in 1..Len(c) : i = 1 \/ i = 2 \/ i = 3
        BY <3>2
      <4>2. c[3].method = KeyMethod /\ 3 \in 1..Len(c)
        BY <2>5, <3>2
      <4> QED
        BY <2>4, <3>2, <4>1, <4>2 DEF KeyMethod
    <3> QED
      BY <2>1, <3>1, <3>2
  <2>8. c \in Seq(Request)
    <3>1. s \in Request /\ d \in Request
      BY <2>4 DEF GenuineRequest
    <3>2. <<s, d>> \in Seq(Request) /\ <<s, s, d>> \in Seq(Request)
      BY <3>1
    <3> QED
      BY <2>1, <3>2
  <2>9. Genuine' /\ ReadsComeFirst' /\ SavesAwaited'
    BY <1>0, <1>3, <2>1, <2>2, <2>6, <2>7, DartSends
  <2>10. FirstCallWaits'
    BY <1>0, <2>1, <2>2, StillWaits DEF Settled, KeyMethod
  <2>11. WillAgree'
    BY <1>0, <2>1, <2>6, <2>8, AgreeSend DEF s, d
  <2> QED
    BY <2>9, <2>10, <2>11
<1>7. ASSUME NEW f \in Frames, OnPrivateKey(f)
      PROVE  Genuine' /\ ReadsComeFirst' /\ SavesAwaited' /\ FirstCallWaits'
             /\ WillAgree'
  <2>1. /\ Resume(f, KeyMethod) /\ UNCHANGED requests /\ cached' = p
        /\ Goes(f, "returned", p)
    BY <1>7 DEF OnPrivateKey, r, KeyMethod
  <2>2. /\ replies # <<>> /\ replies' = Tail(replies) /\ r.method = KeyMethod
    BY <1>2, <2>1
  <2>3. p \in Text
    BY <1>1, <2>2 DEF Reply, KeyMethod
  <2>4. Genuine' /\ ReadsComeFirst' /\ SavesAwaited'
    <3> DEFINE c == <<>>
    <3>1. /\ c \in Seq(GenuineRequest) /\ Lacks(c, "getMnemonic")
          /\ \A i \in 1..Len(c) : FALSE
      BY DEF Lacks
    <3>2. Send(c)
      BY <1>0, <2>1 DEF Send
    <3> HIDE DEF c
    <3> QED
      BY <1>0, <1>3, <2>1, <2>2, <3>1, <3>2, DartSends
  <2>5. FirstCallWaits'
    BY <2>1, <2>3, ConstantsDistinct DEF FirstCallWaits, Text
  <2>6. ASSUME NEW u \in Text, WillUse(u)'  PROVE WillKeep(u)'
    <3>1. WillUse(u)
      BY <1>0, <2>1, <2>2, <2>6, UseCached DEF r
    <3> QED
      BY <1>0, <2>1, <3>1 DEF WillAgree, WillKeep, SaveMnemonic, Call
  <2> QED
    BY <2>4, <2>5, <2>6 DEF WillAgree, Text
<1>8. ASSUME NEW f \in Frames, OnKeyError(f)  PROVE FALSE
  BY <1>1, <1>2, <1>8 DEF OnKeyError, r
<1> QED
  BY <1>4, <1>5, <1>6, <1>7, <1>8 DEF Dart, DartStep

\* A call that the platform takes keeps the queue of calls as the agreement
\* wants it.
LEMMA ReceiveAgrees ==
  ASSUME AgreementInv, NEW m, Receive(m)
  PROVE  /\ requests' \in Seq(GenuineRequest)
         /\ Head(requests) \in GenuineRequest /\ Head(requests).method = m
         /\ Lacks(requests', "getMnemonic")
         /\ m = "getMnemonic" => replies = <<>> /\ Lacks(requests', "saveMnemonic")
         /\ Lacks(requests, "saveMnemonic") => Lacks(requests', "saveMnemonic")
         /\ m = "saveMnemonic" => Lacks(replies, "getMnemonic")
         /\ SavesAwaited'
<1>0. /\ requests \in Seq(GenuineRequest)
      /\ requests # <<>> /\ requests' = Tail(requests)
      /\ Head(requests).method = m
  BY DEF AgreementInv, Genuine, Receive
<1>1. /\ Head(requests) \in GenuineRequest /\ Head(requests) = requests[1]
      /\ requests' \in Seq(GenuineRequest)
      /\ Len(requests') = Len(requests) - 1 /\ Len(requests) \in Nat \ {0}
      /\ \A i \in 1..Len(requests') : requests'[i] = requests[i + 1]
  BY <1>0, TailOf
<1>2. Lacks(requests', "getMnemonic")
  <2>1. ASSUME NEW i \in 1..Len(requests')
        PROVE  requests'[i].method # "getMnemonic"
    <3>1. i + 1 \in 1..Len(requests) /\ i + 1 # 1
          /\ requests'[i] = requests[i + 1]
      BY <1>1
    <3> QED
      BY <3>1 DEF AgreementInv, ReadsComeFirst
  <2> QED
    BY <2>1 DEF Lacks
<1>3. Lacks(requests, "saveMnemonic") => Lacks(requests', "saveMnemonic")
  BY <1>0, TailLast
<1>4. 1 \in 1..Len(requests) /\ requests[1].method = m
  BY <1>0, <1>1
<1>5. m = "getMnemonic" => replies = <<>> /\ Lacks(requests, "saveMnemonic")
  BY <1>4 DEF AgreementInv, ReadsComeFirst
<1>6. m = "saveMnemonic" => Lacks(replies, "getMnemonic")
  BY <1>4 DEF AgreementInv, ReadsComeFirst, Lacks
<1>7. SavesAwaited'
  <2> SUFFICES ASSUME NEW i \in 1..Len(requests'),
                      requests'[i].method = "saveMnemonic"
               PROVE  \E j \in 1..Len(requests') :
                          j > i /\ requests'[j].method = KeyMethod
    BY DEF SavesAwaited, KeyMethod
  <2>1. i + 1 \in 1..Len(requests) /\ requests[i + 1].method = "saveMnemonic"
    BY <1>1
  <2>2. PICK j \in 1..Len(requests) :
          j > i + 1 /\ requests[j].method = KeyMethod
    BY <2>1 DEF AgreementInv, SavesAwaited
  <2>3. j - 1 \in 1..Len(requests') /\ j - 1 > i
        /\ requests'[j - 1] = requests[j]
    BY <1>1, <2>2
  <2> QED
    BY <2>2, <2>3
<1> QED
  BY <1>0, <1>1, <1>2, <1>3, <1>5, <1>6, <1>7

\* A call that is answered keeps the agreement, when a read is told what the
\* keychain holds and the key is that of the mnemonic asked about.
LEMMA AnswerAgrees ==
  ASSUME AgreementInv, TypeOK', NEW m, Receive(m), NEW v,
         Answer(Head(requests), TRUE, v), v # Failure,
         m = "getMnemonic" => v = keychain,
         m = KeyMethod => v = Head(requests).phrase,
         m # "saveMnemonic", UNCHANGED <<cached, frames, keychain>>
  PROVE  Genuine' /\ ReadsComeFirst' /\ SavesAwaited' /\ FirstCallWaits'
         /\ WillAgree'
<1> DEFINE req == Head(requests)
           e == [method |-> req.method, caller |-> req.caller,
                 ok |-> TRUE, value |-> v]
<1>0. /\ requests \in Seq(Request) /\ replies \in Seq(Reply)
      /\ replies' \in Seq(Reply) /\ replies \in Seq(GenuineReply)
      /\ frames' = frames /\ cached' = cached /\ keychain' = keychain
      /\ keychain # Failure
      /\ \A f \in Frames : frames[f].op # "getAccountPhrase"
  BY DEF AgreementInv, PlacedInv, TypeOK, ChannelTypeOK, Genuine
<1>1. /\ requests' \in Seq(GenuineRequest)
      /\ req \in GenuineRequest /\ req.method = m
      /\ Lacks(requests', "getMnemonic")
      /\ m = "getMnemonic" => replies = <<>> /\ Lacks(requests', "saveMnemonic")
      /\ Lacks(requests, "saveMnemonic") => Lacks(requests', "saveMnemonic")
      /\ SavesAwaited'
  BY ReceiveAgrees
<1>2. /\ e \in Reply /\ replies' = replies \o <<e>>
      /\ e.method = m /\ e.value = v /\ e.ok
  BY <1>0, <1>1, AnswerAppends
<1> HIDE DEF e
<1>3. /\ Len(replies) \in Nat /\ Len(replies') = Len(replies) + 1
      /\ \A i \in 1..Len(replies) : replies'[i] = replies[i]
      /\ replies'[Len(replies) + 1] = e
  BY <1>0, <1>2, LenProperties
<1>4. Genuine'
  <2>1. e \in GenuineReply
    BY <1>2 DEF GenuineReply
  <2>2. replies' \in Seq(GenuineReply)
    BY <1>0, <1>2, <2>1
  <2> QED
    BY <1>0, <1>1, <2>2 DEF Genuine
<1>5. ReadsComeFirst'
  <2>1. ASSUME NEW i \in 1..Len(replies'), replies'[i].method = "getMnemonic"
        PROVE  /\ i = 1 /\ replies'[i].value = keychain
               /\ Lacks(requests', "saveMnemonic")
    <3>1. CASE i \in 1..Len(replies)
      <4>1. replies[i].method = "getMnemonic"
        BY <1>3, <2>1, <3>1
      <4> QED
        BY <1>1, <1>3, <3>1, <4>1 DEF AgreementInv, ReadsComeFirst
    <3>2. CASE i \notin 1..Len(replies)
      <4>1. i = Len(replies) + 1
        BY <1>3, <3>2
      <4>2. m = "getMnemonic"
        BY <1>2, <1>3, <2>1, <4>1
      <4>3. Len(replies) = 0 /\ Lacks(requests', "saveMnemonic")
        BY <1>1, <4>2
      <4> QED
        BY <1>2, <1>3, <4>1, <4>2, <4>3
    <3> QED
      BY <3>1, <3>2
  <2> QED
    BY <1>0, <1>1, <2>1 DEF ReadsComeFirst, Lacks
<1>6. FirstCallWaits'
  BY <1>0 DEF AgreementInv, FirstCallWaits, Settled
<1>7. ASSUME NEW u \in Text, WillUse(u)'  PROVE WillKeep(u)'
  <2>1. \E ok, w : Answer(req, ok, w) /\ (m = KeyMethod => w = req.phrase)
    OBVIOUS
  <2>2. WillUse(u)
    BY <1>0, <1>7, <2>1, UseReceive
  <2>3. WillKeep(u)
    BY <2>2 DEF AgreementInv, WillAgree
  <2> QED
    BY <1>0, <2>3, KeepReceive
<1> QED
  BY <1>1, <1>4, <1>5, <1>6, <1>7 DEF WillAgree, Text

\* A save that the keychain follows keeps the agreement.
LEMMA SaveAgrees ==
  ASSUME AgreementInv, Receive("saveMnemonic"),
         keychain' = Head(requests).phrase, UNCHANGED <<replies, cached, frames>>
  PROVE  Genuine' /\ ReadsComeFirst' /\ SavesAwaited' /\ FirstCallWaits'
         /\ WillAgree'
<1>0. /\ requests \in Seq(Request) /\ replies \in Seq(Reply)
      /\ replies \in Seq(GenuineReply)
      /\ replies' = replies /\ frames' = frames /\ cached' = cached
      /\ \A f \in Frames : frames[f].op # "getAccountPhrase"
  BY DEF AgreementInv, PlacedInv, TypeOK, ChannelTypeOK, Genuine
<1>1. /\ requests' \in Seq(GenuineRequest)
      /\ Head(requests) \in GenuineRequest
      /\ Lacks(requests', "getMnemonic") /\ Lacks(replies, "getMnemonic")
      /\ SavesAwaited'
  BY ReceiveAgrees
<1>2. keychain' # Failure
  BY <1>1 DEF GenuineRequest
<1>3. Genuine'
  BY <1>0, <1>1, <1>2 DEF Genuine
<1>4. ReadsComeFirst'
  BY <1>0, <1>1 DEF ReadsComeFirst, Lacks
<1>5. FirstCallWaits'
  BY <1>0 DEF AgreementInv, FirstCallWaits, Settled
<1>6. ASSUME NEW u \in Text, WillUse(u)'  PROVE WillKeep(u)'
  <2>1. WillUse(u)
    BY <1>0, <1>6, UseReceive DEF KeyMethod
  <2>2. WillKeep(u)
    BY <2>1 DEF AgreementInv, WillAgree
  <2> QED
    BY <1>0, <2>2, KeepReceive
<1> QED
  BY <1>1, <1>3, <1>4, <1>5, <1>6 DEF WillAgree, Text

\* The calls that the plugin handles keep the agreement when the keychain
\* works.
LEMMA NativeAgrees ==
  ASSUME WellBehaved, AgreementInv, TypeOK', Native
  PROVE  Genuine' /\ ReadsComeFirst' /\ SavesAwaited' /\ FirstCallWaits'
         /\ WillAgree'
<1> DEFINE req == Head(requests)
<1>1. UNCHANGED <<cached, frames>> /\ IosStep /\ \A call : ~Fails(call)
  BY DEF Native, dartVars, WellBehaved, Fails
<1>2. CASE HandleGenerateMnemonic
  <2> DEFINE m == "generateNewMnemonic"
  <2>1. /\ Receive(m) /\ UNCHANGED <<cached, frames, keychain>>
        /\ \E p \in Phrases : Answer(req, TRUE, p)
    BY <1>1, <1>2 DEF HandleGenerateMnemonic
  <2>2. PICK p \in Phrases : Answer(req, TRUE, p)
    BY <2>1
  <2>3. p # Failure /\ m # "getMnemonic" /\ m # KeyMethod /\ m # "saveMnemonic"
    BY ConstantsDistinct DEF KeyMethod
  <2> HIDE DEF m
  <2> QED
    BY <2>1, <2>2, <2>3, AnswerAgrees
<1>3. CASE HandleSaveMnemonic
  BY <1>1, <1>3, SaveAgrees DEF HandleSaveMnemonic
<1>4. CASE HandleDeleteMnemonic
  <2>1. Receive("deleteMnemonic")
    BY <1>4 DEF HandleDeleteMnemonic
  <2>2. req \in GenuineRequest /\ req.method = "deleteMnemonic"
    BY <2>1, ReceiveAgrees
  <2> QED
    BY <2>2 DEF GenuineRequest
<1>5. CASE HandleGetMnemonic
  <2> DEFINE m == "getMnemonic"
  <2>1. /\ Receive(m) /\ UNCHANGED <<cached, frames, keychain>>
        /\ Answer(req, TRUE, keychain)
    BY <1>1, <1>5 DEF HandleGetMnemonic
  <2>2. PICK v : v = keychain /\ Answer(req, TRUE, v)
    BY <2>1
  <2>3. v # Failure /\ m # KeyMethod /\ m # "saveMnemonic"
    BY <2>2 DEF KeyMethod, AgreementInv, Genuine
  <2> HIDE DEF m
  <2> QED
    BY <2>1, <2>2, <2>3, AnswerAgrees
<1>6. CASE HandleGetPrivateKey
  <2>1. /\ Receive(KeyMethod) /\ UNCHANGED <<cached, frames, keychain>>
        /\ Answer(req, req.phrase \in Phrases, req.phrase)
    BY <1>1, <1>6 DEF HandleGetPrivateKey, KeyMethod
  <2>2. req \in GenuineRequest /\ req.method = KeyMethod
    BY <2>1, ReceiveAgrees
  <2>3. req.phrase \in Phrases /\ req.phrase # Failure
    BY <2>2 DEF GenuineRequest, Request, KeyMethod, Text
  <2>4. PICK v : v = req.phrase /\ Answer(req, TRUE, v)
    BY <2>1, <2>3
  <2>5. v # Failure /\ KeyMethod # "getMnemonic" /\ KeyMethod # "saveMnemonic"
    BY <2>3, <2>4 DEF KeyMethod
  <2> QED
    BY <2>1, <2>4, <2>5, AnswerAgrees
<1> QED
  BY <1>1, <1>2, <1>3, <1>4, <1>5, <1>6 DEF IosStep

\* Where a device is when the process starts: nothing is under way and there
\* is no wallet yet.  It agrees then, whatever the keychain holds.
Fresh ==
  /\ requests = <<>> /\ replies = <<>> /\ cached = None /\ keychain # Failure
  /\ frames = [f \in Frames |-> IdleFrame]

LEMMA FreshAgrees ==
  Fresh => Genuine /\ ReadsComeFirst /\ SavesAwaited /\ FirstCallWaits /\ WillAgree
<1> SUFFICES ASSUME Fresh
             PROVE  Genuine /\ ReadsComeFirst /\ SavesAwaited /\ FirstCallWaits
                    /\ WillAgree
  OBVIOUS
<1> USE DEF Fresh
<1>1. \A m : Lacks(<<>>, m)
  BY DEF Lacks
<1>2. \A e : ~LastOfKind(<<>>, e)
  BY DEF LastOfKind
<1>3. \A f \in Frames : frames[f].op = "getWallet" /\ frames[f].pc \in Settled
  BY DEF IdleFrame, Started, Settled
<1>4. requests \in Seq(GenuineRequest) /\ replies \in Seq(GenuineReply)
  BY EmptySeq
<1>5. Genuine /\ FirstCallWaits
  BY <1>3, <1>4 DEF Genuine, FirstCallWaits
<1>6. ReadsComeFirst /\ SavesAwaited
  BY DEF ReadsComeFirst, SavesAwaited
<1>7. WillAgree
  <2>1. ASSUME NEW p \in Text  PROVE ~WillUse(p)
    BY <1>2, ConstantsDistinct DEF WillUse, Text
  <2> QED
    BY <2>1 DEF WillAgree
<1> QED
  BY <1>5, <1>6, <1>7

\* The induction step of the agreement: one case per party that can move.
LEMMA AgreementStep ==
  ASSUME WellBehaved, AgreementInv, [Next]_vars
  PROVE  AgreementInv'
<1>1. PlacedInv' /\ TypeOK'
  <2>1. PlacedInv
    BY DEF AgreementInv
  <2> QED
    BY <2>1, PlacedStep DEF PlacedInv
<1>2. Genuine' /\ ReadsComeFirst' /\ SavesAwaited' /\ FirstCallWaits'
      /\ WillAgree'
  <2>1. CASE App
    BY <2>1, AppAgrees
  <2>2. CASE Dart
    BY <2>2, DartAgrees
  <2>3. CASE Native
    BY <1>1, <2>3, NativeAgrees
  <2>4. CASE Restart
    <3>1. /\ requests' = <<>> /\ replies' = <<>> /\ cached' = None
          /\ keychain' = keychain /\ frames' = [f \in Frames |-> IdleFrame]
      BY <2>4 DEF Restart, DartRestart, IosRestart
    <3>2. keychain # Failure
      BY DEF AgreementInv, Genuine
    <3>3. Fresh'
      BY <3>1, <3>2 DEF Fresh
    <3> QED
      BY <3>3, FreshAgrees, PTL
  <2>5. CASE UNCHANGED vars
    BY <2>5 DEF vars, channelVars, dartVars, AgreementInv, Genuine,
                ReadsComeFirst, SavesAwaited, FirstCallWaits, WillAgree,
                WillUse, WillKeep
  <2> QED
    BY <2>1, <2>2, <2>3, <2>4, <2>5 DEF Next
<1> QED
  BY <1>1, <1>2 DEF AgreementInv

\* Once nothing is under way, the wallet in use is the one in the keychain:
\* for every number of activations and of mnemonics, and however the
\* getWallet that createAccount forgets to await (account.dart:26) and the
\* saves that generateMnemonic does not await (keyManager.dart:47) come to
\* lie.  WellBehaved names the application and the keychain this holds for.
THEOREM AgreementCorrect == WellBehaved /\ Spec => []AgreementWhenIdle
<1>1. Init => AgreementInv
  <2> SUFFICES ASSUME Init  PROVE AgreementInv
    OBVIOUS
  <2>1. PlacedInv
    BY TypeInit, InitPlaced DEF Init, PlacedInv
  <2>2. keychain # Failure
    BY ConstantsDistinct DEF Init, IosInit
  <2> QED
    BY <2>1, <2>2, FreshAgrees
       DEF Fresh, Init, ChannelInit, DartInit, AgreementInv
<1>2. WellBehaved /\ AgreementInv /\ [Next]_vars =>
          (WellBehaved /\ AgreementInv)'
  BY AgreementStep
<1>3. AgreementInv => AgreementWhenIdle
  <2> SUFFICES ASSUME AgreementInv, Idle, cached # None
               PROVE  keychain = cached
    BY DEF AgreementWhenIdle
  <2>1. cached \in Text /\ requests = <<>> /\ replies = <<>>
    BY DEF AgreementInv, PlacedInv, TypeOK, DartTypeOK, MaybeText, Idle
  <2>2. \A m : Lacks(<<>>, m)
    BY DEF Lacks
  <2>3. WillUse(cached)
    BY <2>1, <2>2 DEF WillUse
  <2>4. WillKeep(cached)
    BY <2>1, <2>3 DEF AgreementInv, WillAgree
  <2>5. \A e : ~LastOfKind(<<>>, e)
    BY DEF LastOfKind
  <2> QED
    BY <2>1, <2>4, <2>5 DEF WillKeep
<1> QED
  BY <1>1, <1>2, <1>3, PTL DEF Spec

-----------------------------------------------------------------------------
(* A stored account is found.                                              *)

\* A handler of the plugin answers a read with the stored mnemonic and leaves
\* one in the keychain.
LEMMA NativeFinds ==
  ASSUME NothingLost, FoundInv, TypeOK', IosStep, UNCHANGED dartVars
  PROVE  FoundInv'
<1> DEFINE req == Head(requests)
<1>1. /\ replies \in Seq(Reply) /\ replies' \in Seq(Reply) /\ DartFinds
      /\ ChannelTypeOK /\ keychain # None
  BY DEF FoundInv, TypeOK, ChannelTypeOK
<1>2. /\ requests' \in Seq(KeepingRequest)
      /\ ~Receive("deleteMnemonic")
  BY <1>1, ReceiveFinds
     DEF IosStep, HandleGenerateMnemonic, HandleSaveMnemonic,
         HandleDeleteMnemonic, HandleGetMnemonic, HandleGetPrivateKey
<1>3. replies' \in Seq(FindingReply) /\ keychain' # None
  <2>1. CASE HandleGenerateMnemonic
    <3>1. req.method # "getMnemonic" /\ keychain' = keychain
      BY <2>1 DEF HandleGenerateMnemonic, Receive
    <3>2. PICK v : Answer(req, TRUE, v)
      BY <2>1 DEF HandleGenerateMnemonic
    <3> QED
      BY <1>1, <3>1, <3>2, AnswerFinds
  <2>2. CASE HandleSaveMnemonic
    <3>1. req \in Request /\ req.method = "saveMnemonic" /\ replies' = replies
      BY <1>1, <2>2, ReceiveTyped DEF HandleSaveMnemonic
    <3>2. req.phrase # None
      BY <3>1, ConstantsDistinct DEF Request, Text
    <3> QED
      BY <1>1, <2>2, <3>1, <3>2 DEF HandleSaveMnemonic, DartFinds
  <2>3. CASE HandleGetMnemonic
    <3>1. PICK v : v = keychain /\ Answer(req, TRUE, v)
      BY <2>3 DEF HandleGetMnemonic, Fails, NothingLost
    <3> QED
      BY <1>1, <2>3, <3>1, AnswerFinds DEF HandleGetMnemonic
  <2>4. CASE HandleGetPrivateKey
    <3>1. req.method # "getMnemonic" /\ keychain' = keychain
      BY <2>4 DEF HandleGetPrivateKey, Receive
    <3>2. PICK ok, v : Answer(req, ok, v)
      BY <2>4 DEF HandleGetPrivateKey
    <3> QED
      BY <1>1, <3>1, <3>2, AnswerFinds
  <2> QED
    BY <1>2, <2>1, <2>2, <2>3, <2>4 DEF IosStep, HandleDeleteMnemonic
<1>4. NoReadDraws'
  BY <1>1 DEF DartFinds, NoReadDraws, dartVars
<1> QED
  BY <1>2, <1>3, <1>4 DEF FoundInv, DartFinds

\* The induction step: one case per party that can move.
LEMMA FoundStep ==
  ASSUME NothingLost, FoundInv, [Next]_vars
  PROVE  FoundInv'
<1>1. TypeOK' /\ ChannelTypeOK /\ DartTypeOK /\ DartFinds /\ keychain # None
  BY TypeStep DEF FoundInv, TypeOK
<1>2. CASE App
  <2>1. AppStep /\ keychain' = keychain
    BY <1>2 DEF App, PermanentlyDeleteAccount, Ready, NothingLost
  <2> QED
    BY <1>1, <2>1, AppFinds DEF FoundInv
<1>3. CASE Dart
  BY <1>1, <1>3, DartStepFinds DEF Dart, FoundInv
<1>4. CASE Native
  BY <1>1, <1>4, NativeFinds DEF Native
<1>5. CASE Restart
  BY <1>1, <1>5, RestartFinds DEF Restart, IosRestart, FoundInv
<1>6. CASE UNCHANGED vars
  BY <1>1, <1>6
     DEF vars, channelVars, dartVars, FoundInv, DartFinds, NoReadDraws
<1> QED
  BY <1>2, <1>3, <1>4, <1>5, <1>6 DEF Next

\* A device that starts with a mnemonic in the keychain never draws another
\* one on behalf of a read (keyManager.dart:59-61), whatever calls overlap and
\* whenever the process dies, also while additions to the keychain and the
\* generator fail: only a deletion or a failed read loses the account.
THEOREM StoredIsFound == NothingLost /\ Spec => StoredAccountIsFound
<1>1. Init /\ keychain # None => FoundInv
  <2> SUFFICES ASSUME Init, keychain # None  PROVE DartFinds
    BY TypeInit DEF FoundInv
  <2> QED
    BY EmptySeq DEF Init, ChannelInit, DartInit, DartFinds, NoReadDraws,
                    IdleFrame, Started
<1>2. NothingLost /\ FoundInv /\ [Next]_vars => (NothingLost /\ FoundInv)'
  BY FoundStep DEF NothingLost
<1>3. FoundInv => NoReadDraws
  BY DEF FoundInv, DartFinds
<1> QED
  BY <1>1, <1>2, <1>3, PTL DEF Spec, StoredAccountIsFound

==============================================================================
