--------------------------- MODULE GsnClient_proofs ---------------------------
(***************************************************************************)
(* Proofs about GsnClient: the type invariant; that one                    *)
(* GsnTransactionDetails object is posted at most once; that a request     *)
(* carries the counters of its worker and its signer and no dusted account *)
(* claims; and that an application that awaits gets one server's answer.   *)
(***************************************************************************)
EXTENDS GsnClient, TLAPS

-----------------------------------------------------------------------------
(* The type invariant.                                                     *)

\* A first epoch exists, and every epoch has a worker.
LEMMA EpochsTyped == 1 \in Epochs /\ \A e \in Epochs : WorkerAt[e] \in Workers
  BY WorkerAtAssumption DEF Epochs

\* The system starts well typed.
LEMMA TypeInit == Init => TypeOK
<1> SUFFICES ASSUME Init  PROVE TypeOK
  OBVIOUS
<1>1. ServicesTypeOK
  BY EpochsTyped DEF Init, ServicesInit, ServicesTypeOK
<1>2. ClientTypeOK
  BY DEF AnsweredEpochs, Answered, Init, ClientInit, ClientTypeOK, Txs, Tx, Activation, Settled
<1> QED
  BY <1>1, <1>2 DEF TypeOK

\* The answer that the other side computes is a number.
LEMMA ReadingTyped ==
  ASSUME TypeOK, NEW c \in Relays
  PROVE  Reading(c) \in Nat
<1>1. relays[c] \in Activation
  BY DEF TypeOK, ClientTypeOK
<1>2. /\ spent[relays[c].signer] \in Nat
      /\ workerNonce[relays[c].worker] \in Nat
      /\ epoch \in Nat
  BY <1>1 DEF TypeOK, ServicesTypeOK, Activation, Epochs
<1> QED
  BY <1>2 DEF Reading

\* An answer of the other side is well typed.
LEMMA AnswersTyped ==
  ASSUME ClientTypeOK, NEW c \in Relays, NEW ok \in BOOLEAN, NEW v \in Nat,
         Answers(c, ok, v)
  PROVE  relays' \in [Relays -> Activation]
  BY DEF Answers, ClientTypeOK, Activation, Answer

\* An activation that goes on or ends stays an activation.
LEMMA GoesTyped ==
  ASSUME ClientTypeOK, NEW c \in Relays, NEW pc \in Awaits \cup Settled,
         Goes(c, pc) \/ Ends(c, pc)
  PROVE  relays' \in [Relays -> Activation]
<1>1. CASE Goes(c, pc)
  <2>1. [relays[c] EXCEPT !.pc = pc, !.answer = None] \in Activation
    BY DEF ClientTypeOK, Activation
  <2> QED
    BY <1>1, <2>1 DEF Goes, ClientTypeOK
<1>2. CASE Ends(c, pc)
  <2>1. [relays[c] EXCEPT !.pc = pc, !.id = 0, !.fees = 0, !.nonce = 0,
                          !.lastKnown = 0, !.late = FALSE,
                          !.holder = relays[c].account,
                          !.signer = relays[c].account, !.answer = None]
          \in Activation
    BY ZenonT(60) DEF ClientTypeOK, Activation
  <2> QED
    BY <1>2, <2>1 DEF Ends, ClientTypeOK
<1> QED
  BY <1>1, <1>2

\* What an activation was answered is a number.
LEMMA ValueTyped ==
  ASSUME ClientTypeOK, NEW c \in Relays, NEW pc, Answered(c, pc)
  PROVE  Value(c) \in Nat
  BY DEF Answered, Value, ClientTypeOK, Activation, Answer

\* An answer to GET /getaddr names an epoch of the server.
LEMMA EpochsStep ==
  ASSUME TypeOK, [Next]_vars
  PROVE  AnsweredEpochs'
<1> USE DEF TypeOK, ClientTypeOK
<1>1. ASSUME NEW c \in Relays, NEW a, relays' = [relays EXCEPT ![c] = a],
             a.pc = "getaddr" =>
               a.answer = None \/ ~a.answer.ok \/ a.answer.value \in Epochs
      PROVE  AnsweredEpochs'
  BY <1>1 DEF AnsweredEpochs, Answered, Value
<1>2. CASE UNCHANGED relays
  BY <1>2 DEF AnsweredEpochs, Answered, Value
<1>3. ASSUME NEW c \in Relays, NEW op, NEW pc, NEW t, Start(c, op, pc, t)
      PROVE  AnsweredEpochs'
  <2> DEFINE a == [relays[c] EXCEPT !.op = op, !.pc = pc, !.id = calls + 1,
                                    !.tx = t, !.account = wallet,
                                    !.holder = wallet, !.signer = wallet,
                                    !.late = wallet \in dusted, !.answer = None]
  <2>1. relays' = [relays EXCEPT ![c] = a] /\ a.answer = None
    BY <1>3 DEF Start, Activation
  <2> QED
    BY <1>1, <2>1
<1>4. ASSUME NEW c \in Relays, NEW ok \in BOOLEAN, NEW v, Answers(c, ok, v),
             ok /\ relays[c].pc = "getaddr" => v \in Epochs
      PROVE  AnsweredEpochs'
  <2> DEFINE a == [relays[c] EXCEPT !.answer = [ok |-> ok, value |-> v]]
  <2>1. relays' = [relays EXCEPT ![c] = a] /\ a.pc = relays[c].pc
        /\ a.answer.ok = ok /\ a.answer.value = v
    BY <1>4 DEF Answers, Activation
  <2> QED
    BY <1>1, <1>4, <2>1
<1>5. ASSUME NEW c \in Relays, NEW pc, Goes(c, pc) \/ Ends(c, pc)
      PROVE  AnsweredEpochs'
  <2>1. \A d \in Relays : d # c => relays'[d] = relays[d]
    BY <1>5 DEF Goes, Ends
  <2>2. relays'[c].answer = None
    <3>1. relays[c] \in Activation
      OBVIOUS
    <3>2. CASE Goes(c, pc)
      BY <3>1, <3>2 DEF Goes, Activation
    <3>3. CASE Ends(c, pc)
      BY <3>1, <3>3 DEF Ends, Activation
    <3> QED
      BY <1>5, <3>2, <3>3
  <2> QED
    BY <2>1, <2>2 DEF AnsweredEpochs, Answered, Value
<1>6. CASE App
  BY <1>2, <1>3, <1>6 DEF App, ClaimRly, Transfer, Relay, SwitchWallet
<1>7. CASE Services
  BY <1>2, <1>7 DEF Services, clientVars
<1>8. ASSUME NEW c \in Relays, Network(c)
      PROVE  AnsweredEpochs'
  <2>1. CASE Serve(c)
    <3>1. relays[c].pc = "getaddr" => Reading(c) \in Epochs
      BY DEF Reading, ServicesTypeOK
    <3> QED
      BY <1>4, <2>1, <3>1 DEF Serve
  <2>2. CASE ServePost(c)
    BY <1>4, <2>2 DEF ServePost
  <2>3. CASE Fail(c)
    BY <1>4, <2>3 DEF Fail
  <2> QED
    BY <1>8, <2>1, <2>2, <2>3 DEF Network
<1>9. ASSUME NEW c \in Relays, Resume(c)
      PROVE  AnsweredEpochs'
  <2>1. CASE OnWallet(c) \/ OnEstimate(c)
    <3>1. \A d \in Relays : d # c => relays'[d] = relays[d]
      BY <2>1 DEF OnWallet, OnEstimate
    <3>2. relays'[c].answer = None
      <4>1. relays[c] \in Activation
        OBVIOUS
      <4>2. CASE OnWallet(c)
        BY <4>1, <4>2 DEF OnWallet, Activation
      <4>3. CASE OnEstimate(c)
        BY <4>1, <4>3 DEF OnEstimate, Activation
      <4> QED
        BY <2>1, <4>2, <4>3
    <3> QED
      BY <3>1, <3>2 DEF AnsweredEpochs, Answered, Value
  <2>2. CASE OnNonce(c) \/ OnCount(c)
    <3>1. \A d \in Relays : d # c => relays'[d] = relays[d]
      BY <2>2 DEF OnNonce, OnCount
    <3>2. relays'[c].answer = None
      <4>1. relays[c] \in Activation
        OBVIOUS
      <4>2. CASE OnNonce(c)
        BY <4>1, <4>2 DEF OnNonce, Activation
      <4>3. CASE OnCount(c)
        BY <4>1, <4>3 DEF OnCount, Activation
      <4> QED
        BY <2>2, <4>2, <4>3
    <3> QED
      BY <3>1, <3>2 DEF AnsweredEpochs, Answered, Value
  <2>3. CASE \/ OnBalance(c) \/ OnTransferBalance(c) \/ OnPrepared(c)
             \/ OnGetAddr(c) \/ OnPosted(c) \/ OnFailure(c)
    BY <1>5, <2>3 DEF OnBalance, OnTransferBalance, OnPrepared, OnGetAddr,
                      OnPosted, OnFailure, Throws
  <2> QED
    BY <1>9, <2>1, <2>2, <2>3 DEF Resume
<1> QED
  BY <1>2, <1>6, <1>7, <1>8, <1>9 DEF Next, vars, clientVars

\* The calls of the application keep the types.
LEMMA AppTypes ==
  ASSUME TypeOK, App, AnsweredEpochs'
  PROVE  TypeOK'
<1> USE DEF TypeOK
<1>1. ASSUME NEW c \in Relays, NEW t \in Txs, NEW op \in {"claim", "relay", "transfer"},
             NEW pc \in Awaits, Start(c, op, pc, t),
             UNCHANGED <<wallet, configWorker, txs, posts, serviceVars>>
      PROVE  TypeOK'
  <2> DEFINE late == wallet \in dusted
  <2>1. late \in BOOLEAN
    OBVIOUS
  <2>2. calls + 1 \in Nat /\ wallet \in Accounts
    BY DEF ClientTypeOK
  <2>3. relays' = [relays EXCEPT
            ![c] = [@ EXCEPT !.op = op, !.pc = pc, !.id = calls + 1, !.tx = t,
                             !.account = wallet, !.holder = wallet,
                             !.signer = wallet, !.late = late,
                             !.answer = None]]
    BY <1>1 DEF Start
  <2> HIDE DEF late
  <2>4. [relays[c] EXCEPT !.op = op, !.pc = pc, !.id = calls + 1, !.tx = t,
                          !.account = wallet, !.holder = wallet,
                          !.signer = wallet, !.late = late, !.answer = None]
          \in Activation
    BY <2>1, <2>2, ZenonT(60) DEF ClientTypeOK, Activation
  <2>5. relays' \in [Relays -> Activation] /\ calls' \in Nat
    BY <1>1, <2>2, <2>3, <2>4 DEF Start, ClientTypeOK
  <2> QED
    BY <1>1, <2>5 DEF ClientTypeOK, ServicesTypeOK, serviceVars
<1>2. ASSUME NEW c \in Relays, ClaimRly(c)
      PROVE  TypeOK'
  BY <1>1, <1>2 DEF ClaimRly, Txs, Awaits
<1>3. ASSUME NEW c \in Relays, NEW t \in AppTxs, Relay(c, t)
      PROVE  TypeOK'
  BY <1>1, <1>3 DEF Relay, Txs, Awaits, NetworkAwaits
<1>4. ASSUME NEW a \in Accounts, SwitchWallet(a)
      PROVE  TypeOK'
  BY <1>4 DEF SwitchWallet, ClientTypeOK, ServicesTypeOK, serviceVars
<1>5. ASSUME NEW c \in Relays, Transfer(c)
      PROVE  TypeOK'
  BY <1>1, <1>5 DEF Transfer, Txs, Awaits
<1> QED
  BY <1>2, <1>3, <1>4, <1>5 DEF App

\* The server and the chain keep the types.
LEMMA ServicesTypes ==
  ASSUME TypeOK, Services, AnsweredEpochs'
  PROVE  TypeOK'
<1>1. ClientTypeOK'
  BY DEF TypeOK, Services, clientVars, ClientTypeOK
<1>2. ServicesTypeOK'
  <2> USE DEF TypeOK, ServicesTypeOK
  <2>1. CASE MoveServer
    BY <2>1 DEF MoveServer
  <2>2. ASSUME NEW r \in pool, Mine(r)
        PROVE  ServicesTypeOK'
    <3>1. r \in Request
      OBVIOUS
    <3>2. workerNonce' \in [Workers -> Nat]
      BY <2>2, <3>1 DEF Mine, Request
    <3>3. spent' \in [Accounts -> Nat] /\ dusted' \subseteq Accounts
      BY <2>2, <3>1 DEF Mine, Request
    <3>4. pool' \subseteq Request /\ mined' \subseteq Nat /\ epoch' = epoch
      BY <2>2, <3>1 DEF Mine, Request
    <3> QED
      BY <3>2, <3>3, <3>4
  <2>3. ASSUME NEW r \in pool, Drop(r)
        PROVE  ServicesTypeOK'
    BY <2>3 DEF Drop
  <2> QED
    BY <2>1, <2>2, <2>3 DEF Services
<1> QED
  BY <1>1, <1>2 DEF TypeOK

\* The answers keep the types.
LEMMA NetworkTypes ==
  ASSUME TypeOK, NEW c \in Relays, Network(c), AnsweredEpochs'
  PROVE  TypeOK'
<1> USE DEF TypeOK
<1>1. CASE Serve(c)
  BY <1>1, ReadingTyped, AnswersTyped
     DEF Serve, ClientTypeOK, ServicesTypeOK, serviceVars
<1>2. CASE ServePost(c)
  <2>1. RequestOf(c) \in Request
    <3>1. relays[c] \in Activation /\ txs[relays[c].tx] \in Tx
      BY DEF ClientTypeOK, Activation
    <3>2. (relays[c].op = "claim") \in BOOLEAN
      OBVIOUS
    <3> QED
      BY <3>1, <3>2 DEF RequestOf, Request, Activation, Tx
  <2>2. relays' \in [Relays -> Activation]
    BY <1>2, AnswersTyped DEF ServePost
  <2> QED
    BY <1>2, <2>1, <2>2 DEF ServePost, ClientTypeOK, ServicesTypeOK
<1>3. CASE Fail(c)
  BY <1>3, AnswersTyped DEF Fail, ClientTypeOK, ServicesTypeOK, serviceVars
<1> QED
  BY <1>1, <1>2, <1>3 DEF Network

\* The resumptions keep the types.
LEMMA ResumeTypes ==
  ASSUME TypeOK, NEW c \in Relays, Resume(c), AnsweredEpochs'
  PROVE  TypeOK'
<1> USE DEF TypeOK
<1>0. ServicesTypeOK' /\ wallet' \in Accounts /\ calls' \in Nat
  BY DEF Resume, OnWallet, OnBalance, OnTransferBalance, OnPrepared, OnEstimate,
         OnGetAddr, OnNonce, OnCount, OnPosted, OnFailure, ServicesTypeOK, ClientTypeOK, serviceVars
<1>1. CASE OnBalance(c) \/ OnTransferBalance(c) \/ OnPrepared(c)
  BY <1>0, <1>1, GoesTyped
     DEF OnBalance, OnTransferBalance, OnPrepared, Throws, Awaits,
         NetworkAwaits, Settled, ClientTypeOK
<1>2. CASE OnEstimate(c)
  <2>1. txs' \in [Txs -> Tx] /\ posts' \in [Txs -> Nat]
    BY <1>2 DEF OnEstimate, ClientTypeOK, Tx, Txs, Activation
  <2>2. relays' \in [Relays -> Activation]
    <3>1. [relays[c] EXCEPT !.pc = "getaddr", !.signer = wallet,
                            !.answer = None] \in Activation
      BY ZenonT(60) DEF ClientTypeOK, Activation, Awaits, NetworkAwaits
    <3> QED
      BY <1>2, <3>1 DEF OnEstimate, ClientTypeOK
  <2> QED
    BY <1>0, <1>2, <2>1, <2>2 DEF OnEstimate, ClientTypeOK
<1>3. CASE OnGetAddr(c)
  <2>1. Value(c) \in Nat /\ WorkerAt[Value(c)] \in Workers
    BY <1>3, ValueTyped, EpochsTyped
       DEF OnGetAddr, ClientTypeOK, AnsweredEpochs
  <2>2. relays' \in [Relays -> Activation]
    BY <1>3, GoesTyped
       DEF OnGetAddr, Throws, Awaits, NetworkAwaits, Settled
  <2>3. txs' \in [Txs -> Tx]
    BY <1>3, <2>1 DEF OnGetAddr, ClientTypeOK, Tx
  <2> QED
    BY <1>0, <1>3, <2>1, <2>2, <2>3 DEF OnGetAddr, ClientTypeOK
<1>4. CASE OnNonce(c)
  <2>1. Value(c) \in Nat /\ txs[relays[c].tx].fees \in Nat
    BY <1>4, ValueTyped DEF OnNonce, ClientTypeOK, Activation, Tx
  <2>2. relays' \in [Relays -> Activation]
    <3>1. [relays[c] EXCEPT !.pc = "count", !.nonce = Value(c),
                            !.worker = configWorker,
                            !.fees = txs[relays[c].tx].fees, !.answer = None]
            \in Activation
      BY <2>1, ZenonT(60) DEF ClientTypeOK, Activation, Awaits, NetworkAwaits
    <3> QED
      BY <1>4, <3>1 DEF OnNonce, ClientTypeOK
  <2> QED
    BY <1>0, <1>4, <2>2 DEF OnNonce, ClientTypeOK
<1>5. CASE OnCount(c)
  <2>1. Value(c) \in Nat
    BY <1>5, ValueTyped DEF OnCount
  <2>2. relays' \in [Relays -> Activation] /\ posts' \in [Txs -> Nat]
    <3>1. [relays[c] EXCEPT !.pc = "post", !.lastKnown = Value(c),
                            !.answer = None] \in Activation
      BY <2>1, ZenonT(60) DEF ClientTypeOK, Activation, Awaits, NetworkAwaits
    <3>2. posts[relays[c].tx] + 1 \in Nat
      BY DEF ClientTypeOK, Activation
    <3> QED
      BY <1>5, <3>1, <3>2 DEF OnCount, ClientTypeOK
  <2> QED
    BY <1>0, <1>5, <2>2 DEF OnCount, ClientTypeOK
<1>6. CASE OnPosted(c) \/ OnFailure(c)
  BY <1>0, <1>6, GoesTyped DEF OnPosted, OnFailure, Throws, Settled, ClientTypeOK
<1>7. CASE OnWallet(c)
  <2>1. [relays[c] EXCEPT !.pc = "balance", !.holder = wallet, !.answer = None]
          \in Activation
    BY ZenonT(60) DEF ClientTypeOK, Activation, Awaits, NetworkAwaits
  <2> QED
    BY <1>0, <1>7, <2>1 DEF OnWallet, ClientTypeOK
<1> QED
  BY <1>1, <1>2, <1>3, <1>4, <1>5, <1>6, <1>7 DEF Resume

\* Every step keeps the types.
LEMMA TypeStep ==
  ASSUME TypeOK, [Next]_vars
  PROVE  TypeOK'
<1>1. CASE UNCHANGED vars
  BY <1>1, EpochsStep DEF vars, clientVars, serviceVars, TypeOK, ClientTypeOK,
                          ServicesTypeOK
<1> QED
  BY <1>1, EpochsStep, AppTypes, ServicesTypes, NetworkTypes, ResumeTypes DEF Next

\* Every variable keeps its type, for any number of activations, objects,
\* accounts and epochs.
THEOREM TypeCorrect == Spec => []TypeOK
<1>1. TypeOK /\ [Next]_vars => TypeOK'
  BY TypeStep
<1> QED
  BY TypeInit, <1>1, PTL DEF Spec
-----------------------------------------------------------------------------
(* One post per object.                                                    *)

\* What a step of one activation must show: the others keep their place, and
\* the mover either owns nothing or owns what it may.
LEMMA PostedKept ==
  ASSUME PostedInv, TypeOK', NEW c \in Relays,
         \A d \in Relays : d # c => relays'[d].pc = relays[d].pc
                                    /\ relays'[d].tx = relays[d].tx,
         relays'[c].tx \in {c} \cup AppTxs,
         relays'[c].pc \in {"wallet", "balance", "estimate"} => relays'[c].tx = c,
         ~(relays'[c].pc \in {"nonce", "count"}) \/ Owns(c),
         relays'[c].pc \in {"nonce", "count"} => relays'[c].tx = relays[c].tx,
         UNCHANGED <<txs, posts>>
  PROVE  PostedInv'
  BY DEF PostedInv, OwnTx, OwnersUnposted, OneOwner, Owns, PostedWasEstimated,
         PostedOnce

\* What an activation that goes on or ends keeps.
LEMMA GoesKeeps ==
  ASSUME ClientTypeOK, NEW c \in Relays, NEW pc, Goes(c, pc) \/ Ends(c, pc)
  PROVE  /\ relays'[c].pc = pc /\ relays'[c].tx = relays[c].tx
         /\ \A d \in Relays : d # c => relays'[d] = relays[d]
<1>1. relays[c] \in Activation
  BY DEF ClientTypeOK
<1>2. CASE Goes(c, pc)
  BY <1>1, <1>2 DEF Goes, Activation, ClientTypeOK
<1>3. CASE Ends(c, pc)
  BY <1>1, <1>3 DEF Ends, Activation, ClientTypeOK
<1> QED
  BY <1>2, <1>3

\* An answer moves nobody.
LEMMA AnswersKeep ==
  ASSUME ClientTypeOK, NEW c \in Relays, NEW ok, NEW v, Answers(c, ok, v)
  PROVE  \A d \in Relays : relays'[d].pc = relays[d].pc
                           /\ relays'[d].tx = relays[d].tx
<1>1. \A d \in Relays : relays[d] \in Activation
  BY DEF ClientTypeOK
<1> QED
  BY <1>1 DEF Answers, Activation, ClientTypeOK

\* The induction step: only OnGetAddr makes an owner, of an object that nobody
\* owns and nobody posted; only OnCount posts, and gives the object up.
LEMMA PostedStep ==
  ASSUME PostedInv, [Next]_vars
  PROVE  PostedInv'
<1>0. TypeOK /\ TypeOK' /\ ClientTypeOK
  BY TypeStep DEF PostedInv, TypeOK
<1>1. ASSUME UNCHANGED <<relays, txs, posts>>
      PROVE  PostedInv'
  BY <1>0, <1>1 DEF PostedInv, OwnTx, OwnersUnposted, OneOwner, Owns,
                    PostedWasEstimated, PostedOnce
<1>3. CASE App
  <2>1. ASSUME NEW c \in Relays, ClaimRly(c)
        PROVE  PostedInv'
    <3>1. relays[c] \in Activation
      BY <1>0 DEF ClientTypeOK
    <3>2. relays'[c].pc = "wallet" /\ relays'[c].tx = c
          /\ \A d \in Relays : d # c => relays'[d] = relays[d]
      BY <1>0, <2>1, <3>1 DEF ClaimRly, Start, Activation, ClientTypeOK
    <3> QED
      BY <1>0, <2>1, <3>2, PostedKept DEF ClaimRly
  <2>2. ASSUME NEW c \in Relays, NEW t \in AppTxs, Relay(c, t)
        PROVE  PostedInv'
    <3>1. relays[c] \in Activation
      BY <1>0 DEF ClientTypeOK
    <3>2. relays'[c].pc = "getaddr" /\ relays'[c].tx = t
          /\ \A d \in Relays : d # c => relays'[d] = relays[d]
      BY <1>0, <2>2, <3>1 DEF Relay, Start, Activation, ClientTypeOK
    <3> QED
      BY <1>0, <2>2, <3>2, PostedKept DEF Relay
  <2>3. ASSUME NEW a \in Accounts, SwitchWallet(a)
        PROVE  PostedInv'
    BY <1>1, <2>3 DEF SwitchWallet
  <2>4. ASSUME NEW c \in Relays, Transfer(c)
        PROVE  PostedInv'
    <3>1. relays[c] \in Activation
      BY <1>0 DEF ClientTypeOK
    <3>2. relays'[c].pc = "wallet" /\ relays'[c].tx = c
          /\ \A d \in Relays : d # c => relays'[d] = relays[d]
      BY <1>0, <2>4, <3>1 DEF Transfer, Start, Activation, ClientTypeOK
    <3> QED
      BY <1>0, <2>4, <3>2, PostedKept DEF Transfer
  <2> QED
    BY <1>3, <2>1, <2>2, <2>3, <2>4 DEF App
<1>4. CASE Services
  BY <1>1, <1>4 DEF Services, clientVars
<1>5. ASSUME NEW c \in Relays, Network(c)
      PROVE  PostedInv'
  <2>1. UNCHANGED <<txs, posts>>
    BY <1>5 DEF Network, Serve, ServePost, Fail
  <2>2. \A d \in Relays : relays'[d].pc = relays[d].pc
                          /\ relays'[d].tx = relays[d].tx
    BY <1>0, <1>5, AnswersKeep DEF Network, Serve, ServePost, Fail
  <2> QED
    BY <1>0, <2>1, <2>2 DEF PostedInv, OwnTx, OwnersUnposted, OneOwner, Owns,
                            PostedWasEstimated, PostedOnce
<1>6. ASSUME NEW c \in Relays, Resume(c)
      PROVE  PostedInv'
  <2> DEFINE t == relays[c].tx
  <2>0. /\ relays[c] \in Activation /\ t \in Txs /\ t \in {c} \cup AppTxs
        /\ txs \in [Txs -> Tx] /\ posts \in [Txs -> Nat]
    BY <1>0 DEF ClientTypeOK, Activation, PostedInv, OwnTx
  <2>1. CASE OnBalance(c)
    <3>1. t = c
      BY <2>1 DEF OnBalance, Answered, PostedInv, OwnTx
    <3> QED
      BY <1>0, <2>0, <2>1, <3>1, GoesKeeps, PostedKept
         DEF OnBalance, Throws
  <2>2. CASE OnEstimate(c)
    <3>1. t = c
      BY <2>2 DEF OnEstimate, Answered, PostedInv, OwnTx
    <3>2. /\ relays'[c].pc = "getaddr" /\ relays'[c].tx = c
          /\ \A d \in Relays : d # c => relays'[d] = relays[d]
      BY <1>0, <2>0, <2>2, <3>1 DEF OnEstimate, Activation, ClientTypeOK
    <3>3. /\ posts'[c] = 0
          /\ \A u \in Txs : u # c => txs'[u] = txs[u] /\ posts'[u] = posts[u]
      BY <2>0, <2>2 DEF OnEstimate, Txs
    <3>4. \A d \in Relays : d # c => relays[d].tx # c
      BY GsnAssumption DEF PostedInv, OwnTx
    <3>5. OwnTx' /\ OneOwner'
      BY <3>2 DEF PostedInv, OwnTx, OneOwner, Owns
    <3>6. OwnersUnposted'
      BY <1>0, <3>2, <3>3, <3>4
         DEF PostedInv, OwnersUnposted, Owns, ClientTypeOK, Activation
    <3>7. PostedWasEstimated' /\ PostedOnce'
      BY <3>3 DEF PostedInv, PostedWasEstimated, PostedOnce
    <3> QED
      BY <1>0, <3>5, <3>6, <3>7 DEF PostedInv
  <2>3. CASE OnGetAddr(c)
    <3>1. posts' = posts
      BY <2>3 DEF OnGetAddr
    <3>2. CASE txs[t].gas = "estimated"
      <4>1. /\ relays'[c].pc = "threw" /\ relays'[c].tx = t
            /\ \A d \in Relays : d # c => relays'[d] = relays[d]
        BY <1>0, <2>0, <2>3, <3>2, GoesKeeps DEF OnGetAddr, Throws
      <4>2. \A u \in Txs : txs'[u].gas = txs[u].gas
        BY <2>0, <2>3, <3>2 DEF OnGetAddr, Tx
      <4>3. \A d \in Relays : relays[d].tx \in Txs
        BY <1>0 DEF ClientTypeOK, Activation
      <4> QED
        BY <1>0, <2>0, <3>1, <4>1, <4>2, <4>3
           DEF PostedInv, OwnTx, OwnersUnposted, OneOwner, Owns,
               PostedWasEstimated, PostedOnce
    <3>3. CASE txs[t].gas = "plain"
      <4>1. /\ relays'[c].pc = "nonce" /\ relays'[c].tx = t
            /\ \A d \in Relays : d # c => relays'[d] = relays[d]
        BY <1>0, <2>0, <2>3, <3>3, GoesKeeps DEF OnGetAddr, Throws
      <4>2. /\ txs'[t].gas = "estimated"
            /\ \A u \in Txs : u # t => txs'[u] = txs[u]
        BY <2>0, <2>3, <3>3 DEF OnGetAddr, Tx
      <4>3. posts[t] = 0
        BY <2>0, <3>3 DEF PostedInv, PostedWasEstimated
      <4>4. \A d \in Relays : Owns(d) => relays[d].tx # t
        BY <3>3 DEF PostedInv, OwnersUnposted
      <4>5. \A d \in Relays : relays[d].tx \in Txs
        BY <1>0 DEF ClientTypeOK, Activation
      <4>6. OwnTx' /\ OneOwner'
        BY <2>0, <4>1, <4>4 DEF PostedInv, OwnTx, OneOwner, Owns
      <4>7. OwnersUnposted'
        BY <3>1, <4>1, <4>2, <4>3, <4>5
           DEF PostedInv, OwnersUnposted, Owns
      <4>8. PostedWasEstimated' /\ PostedOnce'
        BY <3>1, <4>2 DEF PostedInv, PostedWasEstimated, PostedOnce
      <4> QED
        BY <1>0, <4>6, <4>7, <4>8 DEF PostedInv
    <3> QED
      BY <2>3, <3>2, <3>3 DEF OnGetAddr
  <2>4. CASE OnNonce(c)
    <3>1. /\ relays'[c].pc = "count" /\ relays'[c].tx = t
          /\ \A d \in Relays : d # c => relays'[d] = relays[d]
      BY <1>0, <2>0, <2>4 DEF OnNonce, Activation, ClientTypeOK
    <3>2. Owns(c) /\ UNCHANGED <<txs, posts>>
      BY <2>4 DEF OnNonce, Answered, Owns
    <3> QED
      BY <1>0, <2>0, <3>1, <3>2, PostedKept
  <2>5. CASE OnCount(c)
    <3>1. /\ relays'[c].pc = "post" /\ relays'[c].tx = t
          /\ \A d \in Relays : d # c => relays'[d] = relays[d]
      BY <1>0, <2>0, <2>5 DEF OnCount, Activation, ClientTypeOK
    <3>2. txs' = txs /\ posts' = [posts EXCEPT ![t] = @ + 1]
      BY <2>5 DEF OnCount
    <3>3. Owns(c) /\ posts[t] = 0 /\ txs[t].gas = "estimated"
      BY <2>5 DEF OnCount, Answered, Owns, PostedInv, OwnersUnposted
    <3>4. \A d \in Relays : d # c /\ Owns(d) => relays[d].tx # t
      BY <3>3 DEF PostedInv, OneOwner
    <3>5. posts'[t] = 1 /\ \A u \in Txs : u # t => posts'[u] = posts[u]
      BY <2>0, <3>2, <3>3
    <3>6. OwnTx' /\ OneOwner'
      BY <2>0, <3>1 DEF PostedInv, OwnTx, OneOwner, Owns
    <3>7. OwnersUnposted'
      <4>1. \A d \in Relays : relays[d].tx \in Txs
        BY <1>0 DEF ClientTypeOK, Activation
      <4> QED
        BY <3>1, <3>2, <3>4, <3>5, <4>1 DEF PostedInv, OwnersUnposted, Owns
    <3>8. PostedWasEstimated' /\ PostedOnce'
      BY <3>2, <3>3, <3>5 DEF PostedInv, PostedWasEstimated, PostedOnce
    <3> QED
      BY <1>0, <3>6, <3>7, <3>8 DEF PostedInv
  <2>6. CASE OnPosted(c) \/ OnFailure(c)
    <3>1. /\ relays'[c].pc = "threw" /\ relays'[c].tx = t
          /\ \A d \in Relays : d # c => relays'[d] = relays[d]
      BY <1>0, <2>6, GoesKeeps DEF OnPosted, OnFailure, Throws
    <3>2. UNCHANGED <<txs, posts>>
      BY <2>6 DEF OnPosted, OnFailure
    <3> QED
      BY <1>0, <2>0, <3>1, <3>2, PostedKept
  <2>7. CASE OnTransferBalance(c) \/ OnPrepared(c)
    BY <1>0, <2>0, <2>7, GoesKeeps, PostedKept
       DEF OnTransferBalance, OnPrepared, Throws
  <2>8. CASE OnWallet(c)
    <3>1. t = c
      BY <2>8 DEF OnWallet, PostedInv, OwnTx
    <3>2. /\ relays'[c].pc = "balance" /\ relays'[c].tx = c
          /\ \A d \in Relays : d # c => relays'[d] = relays[d]
      BY <1>0, <2>0, <2>8, <3>1 DEF OnWallet, Activation, ClientTypeOK
    <3> QED
      BY <1>0, <2>8, <3>2, PostedKept DEF OnWallet
  <2> QED
    BY <1>6, <2>1, <2>2, <2>3, <2>4, <2>5, <2>6, <2>7, <2>8 DEF Resume
<1> QED
  BY <1>1, <1>3, <1>4, <1>5, <1>6 DEF Next, vars, clientVars

\* However many relays of one GsnTransactionDetails object overlap, fail or are
\* retried, the object is posted at most once.
THEOREM PostedOnceCorrect == Spec => []PostedOnce
<1>1. Init => PostedInv
  <2> SUFFICES ASSUME Init  PROVE PostedInv
    OBVIOUS
  <2>1. /\ \A c \in Relays : relays[c].pc = "idle" /\ relays[c].tx = c
        /\ \A t \in Txs : posts[t] = 0
    BY DEF Init, ClientInit
  <2> QED
    BY <2>1, TypeInit DEF PostedInv, OwnTx, OwnersUnposted, OneOwner, Owns,
                          PostedWasEstimated, PostedOnce
<1>2. PostedInv /\ [Next]_vars => PostedInv'
  BY PostedStep
<1>3. PostedInv => PostedOnce
  BY DEF PostedInv
<1> QED
  BY <1>1, <1>2, <1>3, PTL DEF Spec

-----------------------------------------------------------------------------
(* What an activation has read stays within what the chain has counted.    *)

\* The chain only counts up: no step lowers a nonce or a transaction count or
\* takes an account out of the dusted ones.
LEMMA ChainGrows ==
  ASSUME TypeOK, [Next]_vars
  PROVE  /\ \A a \in Accounts : spent[a] <= spent'[a]
         /\ \A w \in Workers : workerNonce[w] <= workerNonce'[w]
         /\ dusted \subseteq dusted'
<1> USE DEF TypeOK, ServicesTypeOK
<1>1. ASSUME UNCHANGED <<spent, workerNonce, dusted>>
      PROVE  /\ \A a \in Accounts : spent[a] <= spent'[a]
             /\ \A w \in Workers : workerNonce[w] <= workerNonce'[w]
             /\ dusted \subseteq dusted'
  BY <1>1
<1>2. CASE Services
  <2>1. CASE MoveServer
    BY <1>1, <2>1 DEF MoveServer
  <2>2. ASSUME NEW r \in pool, Mine(r)
        PROVE  /\ \A a \in Accounts : spent[a] <= spent'[a]
               /\ \A w \in Workers : workerNonce[w] <= workerNonce'[w]
               /\ dusted \subseteq dusted'
    <3>1. r \in Request
      OBVIOUS
    <3>2. \A w \in Workers : workerNonce[w] <= workerNonce'[w]
      BY <2>2, <3>1 DEF Mine, Request
    <3>3. (\A a \in Accounts : spent[a] <= spent'[a]) /\ dusted \subseteq dusted'
      BY <2>2, <3>1 DEF Mine, Request
    <3> QED
      BY <3>2, <3>3
  <2>3. ASSUME NEW r \in pool, Drop(r)
        PROVE  UNCHANGED <<spent, workerNonce, dusted>>
    BY <2>3 DEF Drop
  <2> QED
    BY <1>1, <1>2, <2>1, <2>2, <2>3 DEF Services
<1>3. CASE ~Services
  BY <1>1, <1>3
     DEF Next, App, ClaimRly, Transfer, Relay, SwitchWallet, Network, Serve, ServePost,
         Fail, Resume, OnWallet, OnBalance, OnTransferBalance, OnPrepared, OnEstimate, OnGetAddr,
         OnNonce, OnCount, OnPosted, OnFailure, vars, serviceVars
<1> QED
  BY <1>2, <1>3

\* An activation that does not move keeps its bounds.
LEMMA ReadsKept ==
  ASSUME TypeOK, [Next]_vars, NEW r \in Activation, Reads(r)
  PROVE  Reads(r)'
<1>1. /\ r.account \in Accounts /\ r.signer \in Accounts /\ r.worker \in Workers
      /\ r.nonce \in Nat /\ r.lastKnown \in Nat
      /\ r.answer # None => r.answer.value \in Nat
  BY DEF Activation, Answer
<1>2. /\ spent[r.signer] \in Nat /\ spent'[r.signer] \in Nat
      /\ workerNonce[r.worker] \in Nat /\ workerNonce'[r.worker] \in Nat
  BY <1>1, TypeStep DEF TypeOK, ServicesTypeOK
<1>3. /\ spent[r.signer] <= spent'[r.signer]
      /\ workerNonce[r.worker] <= workerNonce'[r.worker]
      /\ dusted \subseteq dusted'
  BY <1>1, ChainGrows
<1> QED
  BY <1>1, <1>2, <1>3 DEF Reads, Checked, AwaitedChecked

\* An application that awaits its calls changes its account between them only.
LEMMA AwaitedWalletStep ==
  ASSUME TypeOK, AwaitedWallet, [Next]_vars
  PROVE  AwaitedWallet'
<1> SUFFICES ASSUME AppAwaits, NEW d \in Relays, relays'[d].pc = "wallet"
             PROVE  relays'[d].account = wallet'
  BY DEF AwaitedWallet
<1>0. /\ ClientTypeOK /\ relays \in [Relays -> Activation]
      /\ relays[d] \in Activation
  BY DEF TypeOK, ClientTypeOK
<1>1. ASSUME wallet' = wallet,
             relays[d].pc = "wallet", relays'[d].account = relays[d].account
      PROVE  relays'[d].account = wallet'
  BY <1>1 DEF AwaitedWallet
<1>2. ASSUME UNCHANGED <<wallet, relays>>
      PROVE  relays'[d].account = wallet'
  BY <1>1, <1>2
<1>3. ASSUME NEW c \in Relays, NEW a, relays' = [relays EXCEPT ![c] = a],
             wallet' = wallet, a.pc # "wallet"
      PROVE  relays'[d].account = wallet'
  <2>1. relays'[d] = relays[d]
    BY <1>0, <1>3
  <2> QED
    BY <1>1, <1>3, <2>1
<1>4. ASSUME NEW c \in Relays, NEW pc, pc # "wallet", wallet' = wallet,
             Goes(c, pc) \/ Ends(c, pc)
      PROVE  relays'[d].account = wallet'
  <2>1. relays'[c].pc = pc /\ \A e \in Relays : e # c => relays'[e] = relays[e]
    BY <1>0, <1>4, GoesKeeps
  <2>2. relays'[d] = relays[d]
    BY <1>4, <2>1
  <2> QED
    BY <1>1, <1>4, <2>2
<1>5. ASSUME NEW c \in Relays, NEW op, NEW pc, NEW t, Start(c, op, pc, t),
             wallet' = wallet
      PROVE  relays'[d].account = wallet'
  <2>1. CASE c = d
    BY <1>0, <1>5, <2>1 DEF Start, Activation
  <2>2. CASE c # d
    <3>1. relays'[d] = relays[d]
      BY <1>0, <1>5, <2>2 DEF Start
    <3> QED
      BY <1>1, <1>5, <3>1
  <2> QED
    BY <2>1, <2>2
<1>6. CASE App
  <2>1. ASSUME NEW a \in Accounts, SwitchWallet(a)
        PROVE  FALSE
    <3>1. d \in Free /\ relays'[d] = relays[d]
      BY <2>1 DEF SwitchWallet
    <3> QED
      BY <3>1 DEF Free, Settled
  <2> QED
    BY <1>5, <1>6, <2>1 DEF App, ClaimRly, Transfer, Relay
<1>7. CASE Services
  BY <1>2, <1>7 DEF Services, clientVars
<1>8. ASSUME NEW c \in Relays, Network(c)
      PROVE  relays'[d].account = wallet'
  <2>1. wallet' = wallet
    BY <1>8 DEF Network, Serve, ServePost, Fail
  <2>2. PICK ok, v : Answers(c, ok, v)
    BY <1>8 DEF Network, Serve, ServePost, Fail
  <2>3. /\ relays'[d].pc = relays[d].pc
        /\ relays'[d].account = relays[d].account
    BY <1>0, <2>2 DEF Answers, Activation
  <2> QED
    BY <1>1, <2>1, <2>3
<1>9. ASSUME NEW c \in Relays, Resume(c)
      PROVE  relays'[d].account = wallet'
  <2>0. wallet' = wallet /\ relays[c] \in Activation
    BY <1>0, <1>9
       DEF Resume, OnWallet, OnBalance, OnTransferBalance, OnPrepared, OnEstimate,
           OnGetAddr, OnNonce, OnCount, OnPosted, OnFailure
  <2>1. CASE \/ OnBalance(c) \/ OnTransferBalance(c) \/ OnPrepared(c)
             \/ OnGetAddr(c) \/ OnPosted(c) \/ OnFailure(c)
    BY <1>4, <2>0, <2>1 DEF OnBalance, OnTransferBalance, OnPrepared, OnGetAddr,
                            OnPosted, OnFailure, Throws
  <2>2. ASSUME NEW a, relays' = [relays EXCEPT ![c] = a], a.pc # "wallet"
        PROVE  relays'[d].account = wallet'
    BY <1>3, <2>0, <2>2
  <2>3. CASE OnWallet(c)
    <3> DEFINE a == [relays[c] EXCEPT !.pc = "balance", !.holder = wallet,
                                      !.answer = None]
    <3>1. relays' = [relays EXCEPT ![c] = a] /\ a.pc = "balance"
      BY <2>0, <2>3 DEF OnWallet, Activation
    <3> HIDE DEF a
    <3> QED
      BY <2>2, <3>1
  <2>4. CASE OnEstimate(c)
    <3> DEFINE a == [relays[c] EXCEPT !.pc = "getaddr", !.signer = wallet,
                                      !.answer = None]
    <3>1. relays' = [relays EXCEPT ![c] = a] /\ a.pc = "getaddr"
      BY <2>0, <2>4 DEF OnEstimate, Activation
    <3> HIDE DEF a
    <3> QED
      BY <2>2, <3>1
  <2>5. CASE OnNonce(c)
    <3> DEFINE a == [relays[c] EXCEPT !.pc = "count", !.nonce = Value(c),
                                      !.worker = configWorker,
                                      !.fees = txs[relays[c].tx].fees, !.answer = None]
    <3>1. relays' = [relays EXCEPT ![c] = a] /\ a.pc = "count"
      BY <2>0, <2>5 DEF OnNonce, Activation
    <3> HIDE DEF a
    <3> QED
      BY <2>2, <3>1
  <2>6. CASE OnCount(c)
    <3> DEFINE a == [relays[c] EXCEPT !.pc = "post", !.lastKnown = Value(c),
                                      !.answer = None]
    <3>1. relays' = [relays EXCEPT ![c] = a] /\ a.pc = "post"
      BY <2>0, <2>6 DEF OnCount, Activation
    <3> HIDE DEF a
    <3> QED
      BY <2>2, <3>1
  <2> QED
    BY <1>9, <2>1, <2>3, <2>4, <2>5, <2>6 DEF Resume
<1> QED
  BY <1>2, <1>6, <1>7, <1>8, <1>9 DEF Next, vars, clientVars

\* It is enough to look at the activation that moves.
LEMMA ReadsMoved ==
  ASSUME ReadsInv, [Next]_vars, NEW c \in Relays, NEW a,
         relays' = [relays EXCEPT ![c] = a], Reads(relays[c])'
  PROVE  ReadsInv'
<1>1. /\ TypeOK /\ TypeOK' /\ relays \in [Relays -> Activation]
      /\ AwaitedWallet'
  BY TypeStep, AwaitedWalletStep DEF ReadsInv, TypeOK, ClientTypeOK
<1>2. ASSUME NEW d \in Relays, d # c
      PROVE  Reads(relays[d])'
  <2>1. relays'[d] = relays[d] /\ relays[d] \in Activation /\ Reads(relays[d])
    BY <1>1, <1>2 DEF ReadsInv
  <2>2. \A r \in Activation : Reads(r) => Reads(r)'
    BY <1>1, ReadsKept
  <2> QED
    BY <2>1, <2>2 DEF Reads, Checked, AwaitedChecked
<1> QED
  BY <1>1, <1>2 DEF ReadsInv

\* The induction step: an answer is what the chain counts now, and what is taken
\* over from an answer was counted then.
LEMMA ReadsStep ==
  ASSUME ReadsInv, [Next]_vars
  PROVE  ReadsInv'
<1>0. /\ TypeOK /\ TypeOK' /\ ClientTypeOK /\ relays' \in [Relays -> Activation]
      /\ AwaitedWallet /\ AwaitedWallet'
  BY TypeStep, AwaitedWalletStep DEF ReadsInv, TypeOK, ClientTypeOK
<1>1. CASE UNCHANGED relays
  <2>1. \A r \in Activation : Reads(r) => Reads(r)'
    BY <1>0, ReadsKept
  <2> QED
    BY <1>0, <1>1, <2>1 DEF ReadsInv, Reads, Checked, AwaitedChecked, ClientTypeOK
<1>2. ASSUME NEW c \in Relays, NEW op, NEW pc, NEW t, Start(c, op, pc, t),
             op # "claim" \/ pc = "wallet", pc \in {"wallet", "getaddr"},
             UNCHANGED dusted
      PROVE  ReadsInv'
  <2> DEFINE late == wallet \in dusted
             a == [relays[c] EXCEPT !.op = op, !.pc = pc, !.id = calls + 1, !.tx = t,
                                    !.account = wallet, !.holder = wallet,
                                    !.signer = wallet, !.late = late, !.answer = None]
  <2>1. relays' = [relays EXCEPT ![c] = a]
    BY <1>2 DEF Start
  <2>2. relays'[c] \in Activation /\ relays'[c] = a
    BY <1>0, <2>1 DEF ClientTypeOK
  <2>3. a.op = op /\ a.pc = pc /\ a.account = wallet /\ a.late = late /\ a.answer = None
    BY <1>0 DEF ClientTypeOK, Activation
  <2> HIDE DEF a
  <2>4. Reads(relays[c])'
    BY <2>2, <1>2, <2>3 DEF Reads, NetworkAwaits
  <2> QED
    BY <2>1, <2>2, <2>4, ReadsMoved
<1>3. ASSUME NEW c \in Relays, NEW ok \in BOOLEAN, NEW v \in Nat, Answers(c, ok, v),
             ok => v = Reading(c) \/ relays[c].pc = "post",
             UNCHANGED <<spent, workerNonce, dusted>>
      PROVE  ReadsInv'
  <2> DEFINE a == [relays[c] EXCEPT !.answer = [ok |-> ok, value |-> v]]
  <2>1. relays' = [relays EXCEPT ![c] = a]
    BY <1>3 DEF Answers
  <2>2. relays'[c] \in Activation /\ relays'[c] = a
    BY <1>0, <2>1 DEF ClientTypeOK
  <2>3. /\ a.op = relays[c].op /\ a.pc = relays[c].pc /\ a.account = relays[c].account
        /\ a.holder = relays[c].holder /\ a.signer = relays[c].signer
        /\ a.late = relays[c].late /\ a.nonce = relays[c].nonce
        /\ a.worker = relays[c].worker /\ a.lastKnown = relays[c].lastKnown
        /\ a.answer = [ok |-> ok, value |-> v]
    BY <1>0 DEF ClientTypeOK, Activation
  <2>4. Reads(relays[c]) /\ relays[c] \in Activation
    BY <1>0 DEF ReadsInv, ClientTypeOK
  <2>5. /\ spent[relays[c].signer] \in Nat
        /\ workerNonce[relays[c].worker] \in Nat
    BY <1>0, <2>4 DEF TypeOK, ServicesTypeOK, Activation
  <2> HIDE DEF a
  <2>6. Reads(relays[c])'
    BY <2>2, <1>3, <2>3, <2>4, <2>5
       DEF Reads, Reading, Checked, AwaitedChecked, NetworkAwaits
  <2> QED
    BY <2>1, <2>2, <2>6, ReadsMoved
<1>4. ASSUME NEW c \in Relays, NEW pc \in Settled, Ends(c, pc)
      PROVE  ReadsInv'
  <2> DEFINE a == [relays[c] EXCEPT !.pc = pc, !.id = 0, !.fees = 0, !.nonce = 0,
                                    !.lastKnown = 0, !.late = FALSE,
                                    !.holder = relays[c].account,
                                    !.signer = relays[c].account, !.answer = None]
  <2>1. relays' = [relays EXCEPT ![c] = a]
    BY <1>4 DEF Ends
  <2>2. relays'[c] \in Activation /\ relays'[c] = a
    BY <1>0, <2>1 DEF ClientTypeOK
  <2>3. a.pc = pc
    BY <1>0 DEF ClientTypeOK, Activation
  <2> HIDE DEF a
  <2>4. Reads(relays[c])'
    BY <2>2, <2>3 DEF Reads, Settled, NetworkAwaits
  <2> QED
    BY <2>1, <2>2, <2>4, ReadsMoved
<1>5. ASSUME NEW c \in Relays, NEW pc \in {"estimate", "prepare", "nonce"}, Goes(c, pc),
             relays[c].op = "claim" =>
                 Checked(relays[c]) /\ AwaitedChecked(relays[c])
      PROVE  ReadsInv'
  <2> DEFINE a == [relays[c] EXCEPT !.pc = pc, !.answer = None]
  <2>1. relays' = [relays EXCEPT ![c] = a]
    BY <1>5 DEF Goes
  <2>2. relays'[c] \in Activation /\ relays'[c] = a
    BY <1>0, <2>1 DEF ClientTypeOK
  <2>3. /\ a.op = relays[c].op /\ a.pc = pc /\ a.late = relays[c].late
        /\ a.account = relays[c].account /\ a.holder = relays[c].holder
        /\ a.answer = None
    BY <1>0 DEF ClientTypeOK, Activation
  <2> HIDE DEF a
  <2>4. Reads(relays[c])'
    BY <2>2, <1>5, <2>3 DEF Reads, Checked, AwaitedChecked
  <2> QED
    BY <2>1, <2>2, <2>4, ReadsMoved
<1>6. CASE App
  BY <1>1, <1>2, <1>6
     DEF App, ClaimRly, Transfer, Relay, SwitchWallet, serviceVars
<1>7. CASE Services
  BY <1>1, <1>7 DEF Services, clientVars
<1>8. ASSUME NEW c \in Relays, Network(c)
      PROVE  ReadsInv'
  <2>1. CASE Serve(c)
    BY <1>0, <1>3, <2>1, ReadingTyped DEF Serve, serviceVars
  <2>2. CASE ServePost(c)
    BY <1>3, <2>2 DEF ServePost
  <2>3. CASE Fail(c)
    BY <1>3, <2>3 DEF Fail, serviceVars
  <2> QED
    BY <1>8, <2>1, <2>2, <2>3 DEF Network
<1>9. ASSUME NEW c \in Relays, Resume(c)
      PROVE  ReadsInv'
  <2> DEFINE r == relays[c]
  <2>0. /\ r \in Activation /\ Reads(r)
        /\ r.op = "claim" /\ r.pc \in NetworkAwaits => AwaitedChecked(r)
        /\ r.op = "claim" /\ r.pc \in NetworkAwaits \ {"balance"} => Checked(r)
    BY <1>0 DEF ReadsInv, ClientTypeOK, Reads
  <2>1. CASE OnBalance(c)
    <3>1. CASE Throws(c)
      BY <1>4, <3>1 DEF Throws, Settled
    <3>2. CASE Value(c) = 0 /\ Goes(c, "estimate")
      <4>1. Checked(r) /\ AwaitedChecked(r)
        BY <2>0, <2>1, <3>2
           DEF OnBalance, Answered, Value, Reads, Activation, NetworkAwaits
      <4> QED
        BY <1>5, <3>2, <4>1
    <3> QED
      BY <2>1, <3>1, <3>2 DEF OnBalance
  <2>2. CASE OnTransferBalance(c) \/ OnPrepared(c)
    BY <1>4, <1>5, <2>2 DEF OnTransferBalance, OnPrepared, Throws, Settled
  <2>3. CASE OnEstimate(c)
    <3> DEFINE a == [relays[c] EXCEPT !.pc = "getaddr", !.signer = wallet, !.answer = None]
    <3>1. relays' = [relays EXCEPT ![c] = a]
      BY <2>3 DEF OnEstimate
    <3>2. relays'[c] \in Activation /\ relays'[c] = a
      BY <1>0, <3>1 DEF ClientTypeOK
    <3>3. /\ a.op = r.op /\ a.pc = "getaddr" /\ a.late = r.late /\ a.answer = None
          /\ a.account = r.account /\ a.holder = r.holder
      BY <2>0 DEF Activation
    <3>4. r.op = "claim" => Checked(r) /\ AwaitedChecked(r)
      BY <2>0, <2>3 DEF OnEstimate, Answered, NetworkAwaits
    <3> HIDE DEF a
    <3>5. Reads(relays[c])'
      BY <3>2, <3>3, <3>4 DEF Reads, Checked, AwaitedChecked
    <3> QED
      BY <3>1, <3>2, <3>5, ReadsMoved
  <2>4. CASE OnGetAddr(c)
    <3>1. r.op = "claim" => Checked(r) /\ AwaitedChecked(r)
      BY <2>0, <2>4 DEF OnGetAddr, Answered, NetworkAwaits
    <3> QED
      BY <1>4, <1>5, <2>4, <3>1 DEF OnGetAddr, Throws, Settled
  <2>5. CASE OnNonce(c)
    <3> DEFINE a == [relays[c] EXCEPT !.pc = "count", !.nonce = Value(c),
                                      !.worker = configWorker,
                                      !.fees = txs[relays[c].tx].fees, !.answer = None]
    <3>1. relays' = [relays EXCEPT ![c] = a] /\ UNCHANGED spent
      BY <2>5 DEF OnNonce, serviceVars
    <3>2. relays'[c] \in Activation /\ relays'[c] = a
      BY <1>0, <3>1 DEF ClientTypeOK
    <3>3. /\ a.op = r.op /\ a.pc = "count" /\ a.late = r.late /\ a.answer = None
          /\ a.nonce = Value(c) /\ a.signer = r.signer
          /\ a.account = r.account /\ a.holder = r.holder
      BY <2>0 DEF Activation
    <3>4. /\ r.op = "claim" => Checked(r) /\ AwaitedChecked(r)
          /\ Value(c) <= spent[r.signer]
      BY <2>0, <2>5 DEF OnNonce, Answered, Value, NetworkAwaits, Reads
    <3> HIDE DEF a
    <3>5. Reads(relays[c])'
      BY <3>2, <3>1, <3>3, <3>4 DEF Reads, Checked, AwaitedChecked
    <3> QED
      BY <3>1, <3>2, <3>5, ReadsMoved
  <2>6. CASE OnCount(c)
    <3> DEFINE a == [relays[c] EXCEPT !.pc = "post", !.lastKnown = Value(c), !.answer = None]
    <3>1. relays' = [relays EXCEPT ![c] = a] /\ UNCHANGED <<spent, workerNonce>>
      BY <2>6 DEF OnCount, serviceVars
    <3>2. relays'[c] \in Activation /\ relays'[c] = a
      BY <1>0, <3>1 DEF ClientTypeOK
    <3>3. /\ a.op = r.op /\ a.pc = "post" /\ a.late = r.late /\ a.answer = None
          /\ a.nonce = r.nonce /\ a.signer = r.signer
          /\ a.account = r.account /\ a.holder = r.holder
          /\ a.lastKnown = Value(c) /\ a.worker = r.worker
      BY <2>0 DEF Activation
    <3>4. /\ r.op = "claim" => Checked(r) /\ AwaitedChecked(r)
          /\ r.nonce <= spent[r.signer] /\ Value(c) <= workerNonce[r.worker]
      BY <2>0, <2>6 DEF OnCount, Answered, Value, NetworkAwaits, Reads
    <3> HIDE DEF a
    <3>5. Reads(relays[c])'
      BY <3>2, <3>1, <3>3, <3>4 DEF Reads, Checked, AwaitedChecked
    <3> QED
      BY <3>1, <3>2, <3>5, ReadsMoved
  <2>7. CASE OnPosted(c) \/ OnFailure(c)
    BY <1>4, <2>7 DEF OnPosted, OnFailure, Throws, Settled
  <2>8. CASE OnWallet(c)
    <3> DEFINE a == [relays[c] EXCEPT !.pc = "balance", !.holder = wallet, !.answer = None]
    <3>1. relays' = [relays EXCEPT ![c] = a] /\ UNCHANGED dusted
      BY <2>8 DEF OnWallet, serviceVars
    <3>2. relays'[c] \in Activation /\ relays'[c] = a
      BY <1>0, <3>1 DEF ClientTypeOK
    <3>3. /\ a.op = r.op /\ a.pc = "balance" /\ a.late = r.late /\ a.answer = None
          /\ a.account = r.account /\ a.holder = wallet
      BY <2>0 DEF Activation
    <3>4. (r.late => r.account \in dusted) /\ (AppAwaits => r.account = wallet)
      BY <1>0, <2>0, <2>8 DEF OnWallet, Reads, AwaitedWallet
    <3> HIDE DEF a
    <3>5. Reads(relays[c])'
      BY <3>2, <3>1, <3>3, <3>4 DEF Reads, Checked, AwaitedChecked
    <3> QED
      BY <3>1, <3>2, <3>5, ReadsMoved
  <2> QED
    BY <1>9, <2>1, <2>2, <2>3, <2>4, <2>5, <2>6, <2>7, <2>8 DEF Resume
<1> QED
  BY <1>1, <1>6, <1>7, <1>8, <1>9 DEF Next, vars, clientVars

\* Everything an activation has read is within what the chain has counted, and
\* no claim for an account that was dusted gets past the balance of that
\* account, whichever wallet each of the three getWallet of a claim answers.
THEOREM ReadsCorrect == Spec => []ReadsInv
<1>1. Init => ReadsInv
  <2> SUFFICES ASSUME Init  PROVE ReadsInv
    OBVIOUS
  <2>1. \A c \in Relays : relays[c].pc = "idle"
    BY DEF Init, ClientInit
  <2> QED
    BY <2>1, TypeInit DEF ReadsInv, AwaitedWallet, Reads, NetworkAwaits
<1>2. ReadsInv /\ [Next]_vars => ReadsInv'
  BY ReadsStep
<1> QED
  BY <1>1, <1>2, PTL DEF Spec

\* The transaction count in a request is one that its worker has had, however
\* often another relay changes the worker of the configuration meanwhile.
THEOREM CountCorrect == Spec => []CountIsOfWorker
<1>1. ReadsInv => CountIsOfWorker
  BY DEF ReadsInv, Reads, CountIsOfWorker
<1> QED
  BY ReadsCorrect, <1>1, PTL

\* The nonce in a request is one that its signer has had, also when the
\* application changes its account between the getWallet of claimRly and of
\* relay.
THEOREM NonceCorrect == Spec => []NonceIsOfSigner
<1>1. ReadsInv => NonceIsOfSigner
  BY DEF ReadsInv, Reads, NonceIsOfSigner
<1> QED
  BY ReadsCorrect, <1>1, PTL

\* No claim is posted for an account that was dusted when claimRly was called,
\* but where getBalance, which asks for the wallet itself
\* (evm_networks.dart:44), looked at another account.
THEOREM DustedCorrect == Spec => []DustedIsRefused
<1>1. ReadsInv => DustedIsRefused
  BY DEF ReadsInv, Reads, Checked, DustedIsRefused, NetworkAwaits
<1> QED
  BY ReadsCorrect, <1>1, PTL

\* An application that awaits its calls, the change of its account among them,
\* posts no claim for an account that was dusted when claimRly was called.
THEOREM AwaitedDustedCorrect ==
  ASSUME AppAwaits
  PROVE  Spec => []NoLateClaim
<1>1. ReadsInv => NoLateClaim
  BY DEF ReadsInv, Reads, Checked, AwaitedChecked, NoLateClaim, NetworkAwaits
<1> QED
  BY ReadsCorrect, <1>1, PTL

-----------------------------------------------------------------------------
(* An application that awaits its calls.                                   *)

\* What a step of one activation does to the others and to its own place.
LEMMA AnswersPlace ==
  ASSUME ClientTypeOK, NEW c \in Relays, NEW ok, NEW v, Answers(c, ok, v)
  PROVE  \A d \in Relays :
            /\ relays'[d].pc = relays[d].pc /\ relays'[d].tx = relays[d].tx
            /\ relays'[d].fees = relays[d].fees
            /\ relays'[d].worker = relays[d].worker
<1>1. \A d \in Relays : relays[d] \in Activation
  BY DEF ClientTypeOK
<1> QED
  BY <1>1 DEF Answers, Activation, ClientTypeOK

\* Nobody else is under way while one activation is, so it is enough that its
\* request and what it put into its object agree with the configuration.
LEMMA AwaitedKept ==
  ASSUME AwaitedInv, TypeOK', NEW c \in Relays, relays[c].pc \in Awaits,
         \A d \in Relays : d # c => relays'[d].pc = relays[d].pc,
         relays'[c].pc = "nonce" =>
             /\ txs'[relays'[c].tx].fees \in Epochs
             /\ configWorker' = WorkerAt[txs'[relays'[c].tx].fees],
         relays'[c].pc \in {"count", "post"} =>
             /\ relays'[c].fees \in Epochs
             /\ relays'[c].worker = WorkerAt[relays'[c].fees]
  PROVE  AwaitedInv'
<1>1. \A d \in Relays : d # c => relays'[d].pc \notin Awaits
  BY DEF AwaitedInv, OneUnderWay
<1>2. OneUnderWay'
  BY <1>1 DEF OneUnderWay
<1>3. ConfigOfObject'
  BY <1>1 DEF ConfigOfObject, Awaits, NetworkAwaits
<1>4. OneServerAnswer'
  BY <1>1 DEF OneServerAnswer, Awaits, NetworkAwaits
<1> QED
  BY <1>2, <1>3, <1>4 DEF AwaitedInv

\* The induction step: a call is made when nobody is under way; OnGetAddr puts
\* one answer into the object and the configuration, OnNonce takes both over.
LEMMA AwaitedStep ==
  ASSUME AwaitedInv, [Next]_vars
  PROVE  AwaitedInv'
<1>0. TypeOK /\ TypeOK' /\ ClientTypeOK
  BY TypeStep DEF AwaitedInv, TypeOK
<1>1. ASSUME UNCHANGED <<configWorker, txs, relays>>
      PROVE  AwaitedInv'
  BY <1>0, <1>1 DEF AwaitedInv, OneUnderWay, ConfigOfObject, OneServerAnswer
<1>2. ASSUME NEW c \in Relays, NEW op, NEW pc \in {"wallet", "getaddr"}, NEW t,
             Ready, Start(c, op, pc, t)
      PROVE  AwaitedInv'
  <2>1. \A d \in Relays : relays[d].pc \in Settled
    BY <1>2 DEF Ready, AwaitedInv, Free
  <2>2. \A d \in Relays : d # c => relays'[d].pc \in Settled
    BY <1>0, <1>2, <2>1 DEF Start, ClientTypeOK
  <2>3. relays'[c].pc = pc
    <3>1. relays[c] \in Activation
      BY <1>0 DEF ClientTypeOK
    <3> QED
      BY <1>0, <1>2, <3>1 DEF Start, ClientTypeOK, Activation
  <2> QED
    BY <1>0, <2>2, <2>3
       DEF AwaitedInv, OneUnderWay, ConfigOfObject, OneServerAnswer, Settled, Awaits,
           NetworkAwaits
<1>3. CASE App
  <2>1. ASSUME NEW a \in Accounts, SwitchWallet(a)
        PROVE  AwaitedInv'
    BY <1>1, <2>1 DEF SwitchWallet
  <2> QED
    BY <1>2, <1>3, <2>1 DEF App, ClaimRly, Transfer, Relay
<1>4. CASE Services
  BY <1>1, <1>4 DEF Services, clientVars
<1>5. ASSUME NEW c \in Relays, Network(c)
      PROVE  AwaitedInv'
  <2>1. UNCHANGED <<configWorker, txs>>
    BY <1>5 DEF Network, Serve, ServePost, Fail
  <2>2. \A d \in Relays :
            /\ relays'[d].pc = relays[d].pc /\ relays'[d].tx = relays[d].tx
            /\ relays'[d].fees = relays[d].fees
            /\ relays'[d].worker = relays[d].worker
    BY <1>0, <1>5, AnswersPlace DEF Network, Serve, ServePost, Fail
  <2> QED
    BY <1>0, <2>1, <2>2
       DEF AwaitedInv, OneUnderWay, ConfigOfObject, OneServerAnswer
<1>6. ASSUME NEW c \in Relays, Resume(c)
      PROVE  AwaitedInv'
  <2>0. relays[c].pc \in Awaits /\ relays[c] \in Activation
    BY <1>0, <1>6
       DEF ClientTypeOK, Resume, OnWallet, OnBalance, OnTransferBalance, OnPrepared, OnEstimate,
           OnGetAddr, OnNonce, OnCount, OnPosted, OnFailure, Answered, Awaits,
           NetworkAwaits
  <2>1. ASSUME NEW pc, pc \notin {"nonce", "count", "post"}, Goes(c, pc) \/ Ends(c, pc)
        PROVE  AwaitedInv'
    BY <1>0, <2>0, <2>1, GoesKeeps, AwaitedKept
  <2>2. CASE \/ OnBalance(c) \/ OnTransferBalance(c) \/ OnPrepared(c)
             \/ OnPosted(c) \/ OnFailure(c)
    BY <2>1, <2>2 DEF OnBalance, OnTransferBalance, OnPrepared, OnPosted, OnFailure, Throws
  <2>3. CASE OnWallet(c) \/ OnEstimate(c)
    <3>1. /\ relays'[c].pc \in {"balance", "getaddr"}
          /\ \A d \in Relays : d # c => relays'[d] = relays[d]
      <4>1. CASE OnWallet(c)
        BY <1>0, <2>0, <4>1 DEF OnWallet, Activation, ClientTypeOK
      <4>2. CASE OnEstimate(c)
        BY <1>0, <2>0, <4>2 DEF OnEstimate, Activation, ClientTypeOK
      <4> QED
        BY <2>3, <4>1, <4>2
    <3> QED
      BY <1>0, <2>0, <3>1, AwaitedKept
  <2>4. CASE OnGetAddr(c)
    <3> DEFINE t == relays[c].tx
    <3>1. CASE Throws(c)
      BY <2>1, <3>1 DEF Throws
    <3>2. CASE Goes(c, "nonce") /\ txs' = [txs EXCEPT ![t].fees = Value(c),
                                                      ![t].gas = "estimated"]
      <4>1. /\ relays'[c].pc = "nonce" /\ relays'[c].tx = t
            /\ \A d \in Relays : d # c => relays'[d] = relays[d]
        BY <1>0, <3>2, GoesKeeps
      <4>2. txs'[t].fees = Value(c) /\ configWorker' = WorkerAt[Value(c)]
        BY <1>0, <2>0, <2>4, <3>2 DEF OnGetAddr, ClientTypeOK, Activation, Tx
      <4>3. Value(c) \in Epochs
        BY <1>0, <2>4 DEF OnGetAddr, ClientTypeOK, AnsweredEpochs
      <4> QED
        BY <1>0, <2>0, <4>1, <4>2, <4>3, AwaitedKept
    <3> QED
      BY <2>4, <3>1, <3>2 DEF OnGetAddr
  <2>5. CASE OnNonce(c)
    <3>1. /\ relays'[c].pc = "count" /\ relays'[c].worker = configWorker
          /\ relays'[c].fees = txs[relays[c].tx].fees
          /\ \A d \in Relays : d # c => relays'[d] = relays[d]
      BY <1>0, <2>0, <2>5 DEF OnNonce, Activation, ClientTypeOK
    <3>2. /\ txs[relays[c].tx].fees \in Epochs
          /\ configWorker = WorkerAt[txs[relays[c].tx].fees]
      BY <2>5 DEF OnNonce, Answered, AwaitedInv, ConfigOfObject
    <3> QED
      BY <1>0, <2>0, <3>1, <3>2, AwaitedKept
  <2>6. CASE OnCount(c)
    <3>1. /\ relays'[c].pc = "post" /\ relays'[c].worker = relays[c].worker
          /\ relays'[c].fees = relays[c].fees
          /\ \A d \in Relays : d # c => relays'[d] = relays[d]
      BY <1>0, <2>0, <2>6 DEF OnCount, Activation, ClientTypeOK
    <3>2. relays[c].fees \in Epochs /\ relays[c].worker = WorkerAt[relays[c].fees]
      BY <2>6 DEF OnCount, Answered, AwaitedInv, OneServerAnswer
    <3> QED
      BY <1>0, <2>0, <3>1, <3>2, AwaitedKept
  <2> QED
    BY <1>6, <2>2, <2>3, <2>4, <2>5, <2>6 DEF Resume
<1> QED
  BY <1>1, <1>3, <1>4, <1>5, <1>6 DEF Next, vars, clientVars

\* An application that awaits each of its calls never sends a request whose
\* worker and fees come from two answers of the server.
THEOREM OneAnswerCorrect == AppAwaits /\ Spec => []OneServerAnswer
<1>1. AppAwaits /\ Init => AwaitedInv
  <2> SUFFICES ASSUME AppAwaits, Init  PROVE AwaitedInv
    OBVIOUS
  <2>1. \A c \in Relays : relays[c].pc = "idle"
    BY DEF Init, ClientInit
  <2> QED
    BY <2>1, TypeInit
       DEF AwaitedInv, OneUnderWay, ConfigOfObject, OneServerAnswer, Awaits,
           NetworkAwaits
<1>2. AwaitedInv /\ [Next]_vars => AwaitedInv'
  BY AwaitedStep
<1>3. AwaitedInv => OneServerAnswer
  BY DEF AwaitedInv
<1> QED
  BY <1>1, <1>2, <1>3, PTL DEF Spec

==============================================================================
