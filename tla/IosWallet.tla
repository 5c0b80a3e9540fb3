------------------------------ MODULE IosWallet ------------------------------
(***************************************************************************)
(* The key management of the plugin on iOS: AccountsUtil and               *)
(* KeyManagerImpl over the method channel and the keychain.                *)
(***************************************************************************)
EXTENDS AccountsUtil, IosKeychain

CONSTANT Restarts  \* whether the application process may die in a run

ASSUME RestartsAssumption == Restarts \in BOOLEAN

vars == <<channelVars, historyVars, dartVars, keychain>>

Init == ChannelInit /\ DartInit /\ IosInit

\* Bound: the application deletes when no deletion is queued.
App == /\ AppStep \/ (~DeleteQueued /\ PermanentlyDeleteAccount)
       /\ UNCHANGED keychain

Dart == DartStep /\ UNCHANGED keychain

Native == IosStep /\ UNCHANGED dartVars

Restart == Restarts /\ DartRestart /\ IosRestart

Next == App \/ Dart \/ Native \/ Restart

\* The isolate and the main thread serve their queues.
Fairness == WF_vars(Dart) /\ WF_vars(Native)

Spec == Init /\ [][Next]_vars
FairSpec == Spec /\ Fairness

-----------------------------------------------------------------------------
(* Properties.                                                             *)

\* Variables have their types.
TypeOK == ChannelTypeOK /\ DartTypeOK /\ IosTypeOK

\* The answer to every awaited call is owed exactly once (see OneAnswer).
OneAnswerEach == OneAnswer(LAMBDA f : 0)

\* Its strengthening that is inductive: the keychain is never asked to answer
\* later.
PlacedInv == TypeOK /\ \A f \in Frames : Placed(f, FALSE)

Idle ==
    /\ requests = <<>> /\ replies = <<>>
    /\ \A f \in Frames : frames[f].pc \in Settled

\* Once nothing is under way, the wallet in use is the one in the keychain, so
\* a restart brings the same account back.  createAccount races with the
\* getWallet it forgot to await (account.dart:26) and saves are not awaited,
\* yet the order of the channel sorts the two out for an application that uses
\* getWallet and an overwriting createAccount, awaits each of its calls, and
\* has a working keychain.
AgreementWhenIdle == Idle /\ cached # None => keychain = cached

\* A device that starts with a mnemonic in the keychain never draws another
\* one on behalf of a read, as long as reads do not fail and nobody deletes.
StoredAccountIsFound == keychain # None => []NoReadDraws

\* The hypothesis of that, and the strengthening that is inductive.
NothingLost == /\ "permanentlyDeleteAccount" \notin AppCalls
               /\ "SecItemCopyMatching" \notin SystemFailures
FoundInv == TypeOK /\ DartFinds /\ keychain # None

\* The string "failure" never becomes a wallet.
FailureIsNoWallet ==
    /\ cached # Failure
    /\ \A f \in Frames :
         frames[f].op # "getAccountPhrase" /\ frames[f].pc = "returned" =>
             frames[f].text # Failure

\* A key that the platform answers was made from a valid mnemonic; with this
\* FailureIsNoWallet is inductive.
AnsweredKeysValid ==
    \A i \in 1..Len(replies) :
        replies[i].method = "getPrivateKeyFromMnemonic" /\ replies[i].ok =>
            replies[i].value # Failure

\* What the keychain holds is entrusted; with DartCustody this is inductive.
IosCustody == keychain \in entrusted \cup {None}

CustodyInv == TypeOK /\ DartCustody /\ IosCustody

\* The detailed system implements the abstract promise on custody.
CustodySpec == INSTANCE Custody WITH entrusted <- entrusted, cached <- cached
ImplementsCustody == CustodySpec!Spec

\* The intent of generateMnemonic (RlyNetworkMobileSdk.swift:43, "reject(
\* "mnemonic_generation_failure", "failed to generate secure bytes", nil)"):
\* a failed generation is an error of the call, and nothing is stored for it.
FailedGenerationNotStored == keychain # Failure

-----------------------------------------------------------------------------
(* The strengthening of AgreementWhenIdle that is inductive, for the       *)
(* application and the keychain that it speaks of.                         *)

WellBehaved ==
    /\ AppAwaits
    /\ AppCalls \subseteq {"getWallet", "createAccountOverwrite"}
    /\ SystemFailures = {}

\* No entry of a queue is of a method; e is the last one of its method.
Lacks(queue, method) == \A i \in 1..Len(queue) : queue[i].method # method
LastOfKind(queue, e) ==
    \E i \in 1..Len(queue) :
        /\ queue[i] = e
        /\ \A k \in 1..Len(queue) : k > i => queue[k].method # e.method

\* What the keychain holds and what is cached once the queues, as they are,
\* have been served.
WillKeep(p) ==
    \/ LastOfKind(requests, SaveMnemonic(p))
    \/ Lacks(requests, "saveMnemonic") /\ keychain = p

KeyMethod == "getPrivateKeyFromMnemonic"
WillUse(p) ==
    \/ \E f \in Frames : LastOfKind(requests, DeriveKey(f, p))
    \/ /\ Lacks(requests, KeyMethod)
       /\ \/ \E r \in Reply : /\ LastOfKind(replies, r)
                              /\ r.method = KeyMethod /\ r.value = p
          \/ Lacks(replies, KeyMethod) /\ cached = p

WillAgree == \A p \in Text : WillUse(p) => WillKeep(p)

\* A read of the stored mnemonic is the first of the calls under way, and no
\* save is under way with it: so its answer stays true until it is taken.
ReadsComeFirst ==
    /\ \A i \in 1..Len(requests) : requests[i].method = "getMnemonic" =>
          i = 1 /\ replies = <<>> /\ Lacks(requests, "saveMnemonic")
    /\ \A i \in 1..Len(replies) : replies[i].method = "getMnemonic" =>
          /\ i = 1 /\ replies[i].value = keychain
          /\ Lacks(requests, "saveMnemonic")

\* The key of a mnemonic is asked for behind its save.
SavesAwaited ==
    \A i \in 1..Len(requests) : requests[i].method = "saveMnemonic" =>
        \E j \in 1..Len(requests) : j > i /\ requests[j].method = KeyMethod

\* Until there is a wallet, whatever goes on has the application waiting.
FirstCallWaits ==
    cached = None => \A f \in Frames : frames[f].pc \notin Settled =>
        \E g \in Frames : frames[g].awaited /\ frames[g].pc \notin Settled

\* Nothing fails, nothing is deleted, and nobody asks for the phrase.
GenuineRequest ==
    {r \in Request : r.phrase # Failure /\ r.method # "deleteMnemonic"}
GenuineReply == {r \in Reply : r.ok /\ r.value # Failure}
Genuine ==
    /\ keychain # Failure
    /\ requests \in Seq(GenuineRequest)
    /\ replies \in Seq(GenuineReply)
    /\ \A f \in Frames : frames[f].op # "getAccountPhrase"

AgreementInv ==
    /\ PlacedInv /\ Genuine
    /\ ReadsComeFirst /\ SavesAwaited /\ FirstCallWaits /\ WillAgree
==============================================================================
