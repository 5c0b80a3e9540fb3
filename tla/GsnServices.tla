----------------------------- MODULE GsnServices -----------------------------
(***************************************************************************)
(* What the GSN client talks to, as far as lib/gsnClient uses it: the      *)
(* relay server (GET /getaddr, POST /relay) and the chain behind the RPC   *)
(* endpoint (forwarder nonces, transaction counts, the RLY balance).       *)
(* Everything here is external to the plugin.                              *)
(***************************************************************************)
EXTENDS Naturals, Sequences

CONSTANTS
    Accounts,  \* wallets the device can have in turn
    Workers,   \* accounts the relay server sends transactions from
    WorkerAt   \* WorkerAt[e]: the worker the server announces in epoch e

VARIABLES
    epoch,        \* the server's worker and fees change with the epoch
    spent,        \* forwarder nonce of each account
    workerNonce,  \* transaction count of each worker
    dusted,       \* accounts with a positive RLY balance
    pool,         \* requests that the server took and that are not mined
    mined         \* ids of the requests that are mined

serviceVars == <<epoch, spent, workerNonce, dusted, pool, mined>>

ASSUME WorkerAtAssumption == WorkerAt \in Seq(Workers) /\ Len(WorkerAt) > 0

Epochs == 1..Len(WorkerAt)

Request == [id : Nat, claim : BOOLEAN, from : Accounts, signer : Accounts,
            nonce : Nat, worker : Workers]

ServicesTypeOK ==
    /\ epoch \in Epochs
    /\ spent \in [Accounts -> Nat]
    /\ workerNonce \in [Workers -> Nat]
    /\ dusted \subseteq Accounts
    /\ pool \subseteq Request
    /\ mined \subseteq Nat

\* A worker that served other clients before has a higher count.
ServicesInit ==
    /\ epoch = 1
    /\ spent = [a \in Accounts |-> 0]
    /\ workerNonce \in [Workers -> {0, 1}]
    /\ dusted \in SUBSET Accounts
    /\ pool = {}
    /\ mined = {}

\* The server announces another worker or other fees.
MoveServer ==
    /\ epoch + 1 \in Epochs
    /\ epoch' = epoch + 1
    /\ UNCHANGED <<spent, workerNonce, dusted, pool, mined>>

\* A transaction of the server is mined.  The forwarder executes it when the
\* sender signed it and the nonce is the next one.
Mine(r) ==
    /\ r \in pool
    /\ pool' = pool \ {r}
    /\ mined' = mined \cup {r.id}
    /\ workerNonce' = [workerNonce EXCEPT ![r.worker] = @ + 1]
    /\ IF r.signer = r.from /\ r.nonce = spent[r.from]
          THEN /\ spent' = [spent EXCEPT ![r.from] = @ + 1]
               /\ dusted' = IF r.claim THEN dusted \cup {r.from} ELSE dusted
          ELSE UNCHANGED <<spent, dusted>>
    /\ UNCHANGED epoch

\* A transaction of the server is lost or replaced.
Drop(r) ==
    /\ r \in pool
    /\ pool' = pool \ {r}
    /\ UNCHANGED <<epoch, spent, workerNonce, dusted, mined>>
==============================================================================
