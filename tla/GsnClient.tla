------------------------------ MODULE GsnClient ------------------------------
(***************************************************************************)
(* claimRly, relay and transfer of lib/networks/evm_networks.dart over     *)
(* relayTransaction of lib/gsnClient/gsnClient.dart.                       *)
(*                                                                         *)
(* A relay is one asynchronous activation.  Its steps are the stretches    *)
(* between two awaits; the answer to an await is computed by the other     *)
(* side at one moment (Serve) and delivered at a later one (On...), and    *)
(* other relays, the server, the chain and the application move between.   *)
(* Two objects are shared and changed in place: the network's              *)
(* configuration, and the GsnTransactionDetails of a caller who relays the *)
(* same object again.                                                      *)
(***************************************************************************)
EXTENDS GsnServices

CONSTANTS
    Relays,          \* identities of the activations
    AppTxs,          \* GsnTransactionDetails objects the application makes
    None,            \* no answer yet
    AppAwaits,       \* whether the application awaits each of its calls
    NetworkFailures, \* whether an HTTP or RPC call can fail in a run
    MaxCalls         \* bound: API calls in a behaviour

VARIABLES
    wallet,        \* the wallet AccountsUtil.getWallet returns
    configWorker,  \* network.gsn.relayWorkerAddress
    txs,           \* the GsnTransactionDetails objects
    relays,        \* the activations
    calls,         \* number of API calls so far
    posts          \* history: how often each object was posted

clientVars == <<wallet, configWorker, txs, relays, calls, posts>>
vars == <<clientVars, serviceVars>>

ASSUME GsnAssumption == /\ Relays \cap AppTxs = {}
                        /\ AppAwaits \in BOOLEAN
                        /\ NetworkFailures \in BOOLEAN
                        /\ MaxCalls \in Nat
                        /\ None \notin [ok : BOOLEAN, value : Nat]

\* What an activation can await: the wallet, or an answer of the network.
NetworkAwaits == {"balance", "prepare", "estimate", "getaddr", "nonce", "count", "post"}
Awaits == NetworkAwaits \cup {"wallet"}
Settled == {"idle", "returned", "threw"}

\* claimRly makes an object of its own; it is named by its activation.
Txs == Relays \cup AppTxs

\* gas: "estimated" once estimateGasWithoutCallData has replaced the caller's
\* digits by a 0x-prefixed string.  fees: the epoch whose fees it carries, 0
\* for the caller's own.
Tx == [from : Accounts, gas : {"plain", "estimated"}, fees : Nat]

Answer == [ok : BOOLEAN, value : Nat]

\* account: the wallet that claimRly, transfer or relay got.  holder: the one
\* that getBalance got.  signer: the one that relay got.  worker, fees, nonce
\* and lastKnown: what it put into its request.  late: history, whether the
\* account was already dusted when the call was made.
Activation == [op : {"claim", "relay", "transfer"}, pc : Awaits \cup Settled, id : Nat,
               tx : Txs, account : Accounts, holder : Accounts,
               signer : Accounts, worker : Workers, fees : Nat, nonce : Nat,
               lastKnown : Nat, late : BOOLEAN,
               answer : Answer \cup {None}]

\* The answer to the await that the activation is at has arrived.
Answered(c, pc) == relays[c].pc = pc /\ relays[c].answer # None
                   /\ relays[c].answer.ok
Value(c) == relays[c].answer.value

AnsweredEpochs ==
    \A c \in Relays : Answered(c, "getaddr") => Value(c) \in Epochs

ClientTypeOK ==
    /\ wallet \in Accounts
    /\ configWorker \in Workers
    /\ txs \in [Txs -> Tx]
    /\ relays \in [Relays -> Activation]
    /\ calls \in Nat
    /\ posts \in [Txs -> Nat]
    /\ AnsweredEpochs

Free == {c \in Relays : relays[c].pc \in Settled}

Ready == calls < MaxCalls /\ (AppAwaits => Free = Relays)

Start(c, op, pc, t) ==
    /\ relays' = [relays EXCEPT
          ![c] = [@ EXCEPT !.op = op, !.pc = pc, !.id = calls + 1, !.tx = t,
                           !.account = wallet, !.holder = wallet,
                           !.signer = wallet, !.late = wallet \in dusted,
                           !.answer = None]]
    /\ calls' = calls + 1

ClientInit ==
    /\ wallet \in Accounts
    /\ configWorker \in Workers
    /\ \E a \in Accounts :
          txs = [t \in Txs |-> [from |-> a, gas |-> "plain", fees |-> 0]]
    /\ relays = [c \in Relays |->
          [op |-> "claim", pc |-> "idle", id |-> 0, tx |-> c,
           account |-> wallet, holder |-> wallet, signer |-> wallet,
           worker |-> configWorker, fees |-> 0, nonce |-> 0, lastKnown |-> 0,
           late |-> FALSE, answer |-> None]]
    /\ calls = 0
    /\ posts = [t \in Txs |-> 0]

\* claimRly: the wallet, then getBalance, which asks for the wallet again.
ClaimRly(c) ==
    /\ Ready /\ c \in Free
    /\ Start(c, "claim", "wallet", c)
    /\ UNCHANGED <<wallet, configWorker, txs, posts, serviceVars>>

\* transfer: the wallet, then getBalance of the token.
Transfer(c) ==
    /\ Ready /\ c \in Free
    /\ Start(c, "transfer", "wallet", c)
    /\ UNCHANGED <<wallet, configWorker, txs, posts, serviceVars>>

\* relay: the wallet, then relayTransaction up to the GET.
Relay(c, t) ==
    /\ Ready /\ c \in Free
    /\ Start(c, "relay", "getaddr", t)
    /\ UNCHANGED <<wallet, configWorker, txs, posts, serviceVars>>

\* The application changes its account (AccountsUtil.createAccount).
SwitchWallet(a) ==
    /\ AppAwaits => Free = Relays
    /\ a # wallet
    /\ wallet' = a
    /\ UNCHANGED <<configWorker, txs, relays, calls, posts, serviceVars>>

\* Mutant: the transaction count is asked for the configuration's worker.
ReadingOfConfigWorker(c) ==
    LET r == relays[c] IN
    CASE r.pc = "balance"  -> IF r.holder \in dusted THEN 1 ELSE 0
      [] r.pc = "estimate" -> 0
      [] r.pc = "getaddr"  -> epoch
      [] r.pc = "nonce"    -> spent[r.signer]
      [] r.pc = "count"    -> workerNonce[configWorker]
      [] OTHER             -> 0

\* Mutant: the nonce is asked for the transaction's sender.
ReadingOfSender(c) ==
    LET r == relays[c] IN
    CASE r.pc = "balance"  -> IF r.holder \in dusted THEN 1 ELSE 0
      [] r.pc = "estimate" -> 0
      [] r.pc = "getaddr"  -> epoch
      [] r.pc = "nonce"    -> spent[txs[r.tx].from]
      [] r.pc = "count"    -> workerNonce[r.worker]
      [] OTHER             -> 0

\* The value that the other side computes for the await of c: the RLY balance
\* of getBalance's wallet (decimals is read before it and is a constant), the gas estimate and base
\* fee (which only price the transaction), what a transfer reads, the server's configuration, the
\* forwarder's nonce of the signer, the count of the worker in the request.
Reading(c) ==
    LET r == relays[c] IN
    CASE r.pc = "balance"  -> IF r.holder \in dusted THEN 1 ELSE 0
      [] r.pc = "estimate" -> 0
      [] r.pc = "getaddr"  -> epoch
      [] r.pc = "nonce"    -> spent[r.signer]
      [] r.pc = "count"    -> workerNonce[r.worker]
      [] OTHER             -> 0

Answers(c, ok, value) ==
    relays' = [relays EXCEPT ![c].answer = [ok |-> ok, value |-> value]]

Waits(c) == relays[c].pc \in NetworkAwaits /\ relays[c].answer = None

RequestOf(c) ==
    LET r == relays[c] IN
    [id |-> r.id, claim |-> r.op = "claim", from |-> txs[r.tx].from,
     signer |-> r.signer, nonce |-> r.nonce, worker |-> r.worker]

\* A read is served.
Serve(c) ==
    /\ Waits(c) /\ relays[c].pc # "post"
    /\ Answers(c, TRUE, Reading(c))
    /\ UNCHANGED <<wallet, configWorker, txs, calls, posts, serviceVars>>

\* The server takes the request (value 1) or answers with an error (value 0);
\* its answer can be lost.
ServePost(c) ==
    /\ Waits(c) /\ relays[c].pc = "post"
    /\ \/ /\ pool' = pool \cup {RequestOf(c)}
          /\ \/ Answers(c, TRUE, 1)
             \/ NetworkFailures /\ Answers(c, FALSE, 0)
       \/ Answers(c, TRUE, 0) /\ UNCHANGED pool
    /\ UNCHANGED <<wallet, configWorker, txs, calls, posts, epoch, spent,
                   workerNonce, dusted, mined>>

\* A call does not get through.
Fail(c) ==
    /\ NetworkFailures /\ Waits(c)
    /\ Answers(c, FALSE, 0)
    /\ UNCHANGED <<wallet, configWorker, txs, calls, posts, serviceVars>>

-----------------------------------------------------------------------------
Goes(c, pc) ==
    relays' = [relays EXCEPT ![c] = [@ EXCEPT !.pc = pc, !.answer = None]]
\* The locals of an activation that ends are gone.
Ends(c, pc) ==
    relays' = [relays EXCEPT
                 ![c] = [@ EXCEPT !.pc = pc, !.id = 0, !.fees = 0, !.nonce = 0,
                                  !.lastKnown = 0, !.late = FALSE,
                                  !.holder = relays[c].account,
                                  !.signer = relays[c].account,
                                  !.answer = None]]
Throws(c) == Ends(c, "threw")

\* getBalance asks for the wallet itself, and then for the balance of what it
\* got: another account than the caller's if the application has changed its
\* account meanwhile.
OnWallet(c) ==
    /\ relays[c].pc = "wallet"
    /\ relays' = [relays EXCEPT
          ![c] = [@ EXCEPT !.pc = "balance", !.holder = wallet,
                           !.answer = None]]
    /\ UNCHANGED <<wallet, configWorker, txs, calls, posts, serviceVars>>

\* Mutant: the balance is not looked at.
OnBalanceUnchecked(c) ==
    /\ Answered(c, "balance") /\ relays[c].op = "claim"
    /\ Goes(c, "estimate")
    /\ UNCHANGED <<wallet, configWorker, txs, calls, posts, serviceVars>>

\* claimRly after getBalance: a positive balance is refused.
OnBalance(c) ==
    /\ Answered(c, "balance") /\ relays[c].op = "claim"
    /\ \/ Value(c) > 0 /\ Throws(c)
       \/ Value(c) = 0 /\ Goes(c, "estimate")
    /\ UNCHANGED <<wallet, configWorker, txs, calls, posts, serviceVars>>

\* transfer after getBalance: the balance does not reach the caller's amount,
\* or the way of transferring is looked for.
OnTransferBalance(c) ==
    /\ Answered(c, "balance") /\ relays[c].op = "transfer"
    /\ Throws(c) \/ Goes(c, "prepare")
    /\ UNCHANGED <<wallet, configWorker, txs, calls, posts, serviceVars>>

\* The reads of getPermitTx or getExecuteMetatransactionTx, or of the two that
\* ask whether a token supports them.  None yields a transaction to relay: the
\* salt in eip712Domain is bytes and is cast to String, the result of the call
\* of `transfer' is a Boolean and is passed for bytes, and
\* executeMetaTransaction is called with six arguments where the ABI names
\* five; the last two exceptions make a token count as not supported.
OnPrepared(c) ==
    /\ Answered(c, "prepare")
    /\ Throws(c)
    /\ UNCHANGED <<wallet, configWorker, txs, calls, posts, serviceVars>>

\* getClaimTx returns a new object from claimRly's account; relay asks for the
\* wallet once more and signs with what it gets now.
OnEstimate(c) ==
    /\ Answered(c, "estimate")
    /\ txs' = [txs EXCEPT ![c] = [from |-> relays[c].account, gas |-> "plain",
                                  fees |-> 0]]
    /\ posts' = [posts EXCEPT ![c] = 0]
    /\ relays' = [relays EXCEPT
          ![c] = [@ EXCEPT !.pc = "getaddr", !.signer = wallet,
                           !.answer = None]]
    /\ UNCHANGED <<wallet, configWorker, calls, serviceVars>>

\* Mutant: the worker of the configuration is only set the first time.
OnGetAddrKeepsWorker(c) ==
    LET t == relays[c].tx IN
    /\ Answered(c, "getaddr")
    /\ configWorker' = IF calls = 1 THEN WorkerAt[Value(c)] ELSE configWorker
    /\ IF txs[t].gas = "plain"
          THEN /\ txs' = [txs EXCEPT ![t].fees = Value(c),
                                     ![t].gas = "estimated"]
               /\ Goes(c, "nonce")
          ELSE /\ txs' = [txs EXCEPT ![t].fees = Value(c)]
               /\ Throws(c)
    /\ UNCHANGED <<wallet, calls, posts, serviceVars>>

\* Mutant: a prefixed gas string is accepted.
OnGetAddrReparses(c) ==
    LET t == relays[c].tx IN
    /\ Answered(c, "getaddr")
    /\ configWorker' = WorkerAt[Value(c)]
    /\ txs' = [txs EXCEPT ![t].fees = Value(c), ![t].gas = "estimated"]
    /\ Goes(c, "nonce")
    /\ UNCHANGED <<wallet, calls, posts, serviceVars>>

\* updateConfig, then buildRelayRequest up to the nonce: the configuration and
\* the fees are overwritten; BigInt.parse with radix 16 refuses a gas that an
\* earlier relay of the object has replaced.
OnGetAddr(c) ==
    LET t == relays[c].tx IN
    /\ Answered(c, "getaddr")
    /\ configWorker' = WorkerAt[Value(c)]
    /\ \/ /\ txs[t].gas = "plain"
          /\ txs' = [txs EXCEPT ![t].fees = Value(c), ![t].gas = "estimated"]
          /\ Goes(c, "nonce")
       \/ /\ txs[t].gas = "estimated"
          /\ txs' = [txs EXCEPT ![t].fees = Value(c)]
          /\ Throws(c)
    /\ UNCHANGED <<wallet, calls, posts, serviceVars>>

\* Builds and signs: the request takes the fees of the object and the worker
\* of the configuration as they are now.
OnNonce(c) ==
    /\ Answered(c, "nonce")
    /\ relays' = [relays EXCEPT
          ![c] = [@ EXCEPT !.pc = "count", !.nonce = Value(c),
                           !.worker = configWorker,
                           !.fees = txs[relays[c].tx].fees, !.answer = None]]
    /\ UNCHANGED <<wallet, configWorker, txs, calls, posts, serviceVars>>

\* The metadata is complete and the request is posted.
OnCount(c) ==
    /\ Answered(c, "count")
    /\ relays' = [relays EXCEPT
          ![c] = [@ EXCEPT !.pc = "post", !.lastKnown = Value(c),
                           !.answer = None]]
    /\ posts' = [posts EXCEPT ![relays[c].tx] = @ + 1]
    /\ UNCHANGED <<wallet, configWorker, txs, calls, serviceVars>>

\* Mutant: the transaction is read from the answer and its receipt is polled.
OnPostedPolls(c) ==
    /\ Answered(c, "post")
    /\ \/ Value(c) = 0 /\ Throws(c)
       \/ /\ Value(c) = 1 /\ relays[c].id \in mined
          /\ Ends(c, "returned")
    /\ UNCHANGED <<wallet, configWorker, txs, calls, posts, serviceVars>>

\* handleGsnResponse: an http.Response has no `data', so the first line throws
\* whatever the server answered.
OnPosted(c) ==
    /\ Answered(c, "post")
    /\ Throws(c)
    /\ UNCHANGED <<wallet, configWorker, txs, calls, posts, serviceVars>>

\* An await completed with an exception, which nobody catches.
OnFailure(c) ==
    /\ relays[c].pc \in Awaits
    /\ relays[c].answer # None /\ ~relays[c].answer.ok
    /\ Throws(c)
    /\ UNCHANGED <<wallet, configWorker, txs, calls, posts, serviceVars>>

Resume(c) ==
    \/ OnWallet(c) \/ OnBalance(c) \/ OnTransferBalance(c) \/ OnPrepared(c)
    \/ OnEstimate(c) \/ OnGetAddr(c) \/ OnNonce(c) \/ OnCount(c)
    \/ OnPosted(c) \/ OnFailure(c)

Network(c) == Serve(c) \/ ServePost(c) \/ Fail(c)

App == \/ \E c \in Relays : ClaimRly(c) \/ Transfer(c) \/ \E t \in AppTxs : Relay(c, t)
       \/ \E a \in Accounts : SwitchWallet(a)

Services == /\ MoveServer \/ \E r \in pool : Mine(r) \/ Drop(r)
            /\ UNCHANGED clientVars

Init == ServicesInit /\ ClientInit
Next == App \/ Services \/ \E c \in Relays : Network(c) \/ Resume(c)

\* The isolate runs, and every HTTP or RPC call is answered or fails (the code
\* sets no timeout of its own).  Nothing is assumed of the chain.
Fairness == \A c \in Relays : WF_vars(Network(c)) /\ WF_vars(Resume(c))

Spec == Init /\ [][Next]_vars
FairSpec == Spec /\ Fairness

-----------------------------------------------------------------------------
(* Properties.                                                             *)

\* Variables have their types.
TypeOK == ServicesTypeOK /\ ClientTypeOK

\* One GsnTransactionDetails object is posted at most once, however many
\* relays of it overlap, fail or are retried: the first one replaces its gas
\* (gsnClient.dart:31), and the next cannot parse it.
PostedOnce == \A t \in Txs : posts[t] <= 1

\* The count sent as relayLastKnownNonce is one that the worker named in the
\* signed request has had, also when another relay changes the worker of the
\* configuration meanwhile (gsnClient.dart:83-84).
CountIsOfWorker ==
    \A c \in Relays : relays[c].pc = "post" =>
        relays[c].lastKnown <= workerNonce[relays[c].worker]

\* The nonce in a request is one that the signing account has had, also when
\* the application changes its account between the getWallet calls of claimRly
\* and of relay (evm_networks.dart:22 and :65).
NonceIsOfSigner ==
    \A c \in Relays : relays[c].pc \in {"count", "post"} =>
        relays[c].nonce <= spent[relays[c].signer]

\* No claim is posted for an account that was dusted when claimRly was called,
\* unless getBalance looked at another account: it asks for the wallet itself
\* (evm_networks.dart:44), and the application may have changed its account
\* since line 22.
DustedIsRefused ==
    \A c \in Relays : relays[c].op = "claim" /\ relays[c].pc = "post" =>
        (relays[c].late => relays[c].holder # relays[c].account)

\* An application that awaits its calls posts no such claim at all.
NoLateClaim ==
    \A c \in Relays : relays[c].op = "claim" /\ relays[c].pc = "post" =>
        ~relays[c].late

\* If the application awaits its calls, the worker and the fees of a request
\* come from the same answer of the server, though one is kept in the shared
\* configuration and the other in the transaction.
OneServerAnswer ==
    \A c \in Relays : relays[c].pc \in {"count", "post"} =>
        /\ relays[c].fees \in Epochs
        /\ relays[c].worker = WorkerAt[relays[c].fees]

\* Every relay settles, whatever becomes of its transaction.
RelaysSettle ==
    \A c \in Relays : relays[c].pc \in Awaits ~> relays[c].pc \in Settled

\* error.dart:5, 'Account already dusted, will not dust again': a claim is not
\* posted for an account that has been dusted.
WillNotDustAgain ==
    [][\A c \in Relays :
          relays[c].op = "claim" /\ relays[c].pc = "count"
          /\ relays'[c].pc = "post" => txs[relays[c].tx].from \notin dusted]_vars

\* gsnTxHelpers.dart:350, "Poll for the transaction receipt until it's
\* confirmed": a request that the server took does not end in an exception.
TakenIsAwaited ==
    [][\A c \in Relays :
          Answered(c, "post") /\ Value(c) = 1 => relays'[c].pc # "threw"]_vars

-----------------------------------------------------------------------------
(* The strengthening of PostedOnce that is inductive.                      *)

\* Between its estimate and its post an activation owns its object.
Owns(c) == relays[c].pc \in {"nonce", "count"}

OwnTx ==
    \A c \in Relays :
        /\ relays[c].tx \in {c} \cup AppTxs
        /\ relays[c].pc \in {"wallet", "balance", "estimate"} => relays[c].tx = c

OwnersUnposted ==
    \A c \in Relays : Owns(c) => /\ txs[relays[c].tx].gas = "estimated"
                                 /\ posts[relays[c].tx] = 0

OneOwner ==
    \A c, d \in Relays :
        Owns(c) /\ Owns(d) /\ relays[c].tx = relays[d].tx => c = d

PostedWasEstimated ==
    \A t \in Txs : posts[t] # 0 => txs[t].gas = "estimated"

PostedInv ==
    TypeOK /\ OwnTx /\ OwnersUnposted /\ OneOwner /\ PostedWasEstimated
           /\ PostedOnce
-----------------------------------------------------------------------------
(* The strengthenings of the other invariants that are inductive.          *)

\* A dusted account does not get past its own balance, and an application that
\* awaits its calls has no other account looked at.
Checked(r) == r.late => r.holder # r.account
AwaitedChecked(r) == AppAwaits => r.holder = r.account

\* What one activation has read, and carries to its post, is within what the
\* chain has counted since.  An answer on its way is bounded as it will be when
\* it is taken.
Reads(r) ==
    LET got == r.answer # None /\ r.answer.ok
    IN  /\ r.pc \in {"wallet", "balance"} /\ r.late => r.account \in dusted
        /\ r.pc = "balance" /\ got /\ r.answer.value = 0 => Checked(r)
        /\ r.op = "claim" /\ r.pc \in NetworkAwaits => AwaitedChecked(r)
        /\ r.op = "claim" /\ r.pc \in NetworkAwaits \ {"balance"} => Checked(r)
        /\ r.pc = "nonce" /\ got => r.answer.value <= spent[r.signer]
        /\ r.pc \in {"count", "post"} => r.nonce <= spent[r.signer]
        /\ r.pc = "count" /\ got => r.answer.value <= workerNonce[r.worker]
        /\ r.pc = "post" => r.lastKnown <= workerNonce[r.worker]

\* The wallet stays what it was when such an application made its call.
AwaitedWallet ==
    AppAwaits => \A c \in Relays :
                     relays[c].pc = "wallet" => relays[c].account = wallet

ReadsInv == TypeOK /\ AwaitedWallet /\ \A c \in Relays : Reads(relays[c])

\* If the application awaits its calls, nobody comes between the answer of the
\* server and the request: of two activations at most one is under way, and
\* what it put into its object and into the configuration stays there.
OneUnderWay ==
    \A c, d \in Relays :
        relays[c].pc \in Awaits /\ relays[d].pc \in Awaits => c = d

ConfigOfObject ==
    \A c \in Relays : relays[c].pc = "nonce" =>
        /\ txs[relays[c].tx].fees \in Epochs
        /\ configWorker = WorkerAt[txs[relays[c].tx].fees]

AwaitedInv ==
    TypeOK /\ AppAwaits /\ OneUnderWay /\ ConfigOfObject /\ OneServerAnswer
==============================================================================
