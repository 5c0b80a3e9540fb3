---------------------------- MODULE AndroidWallet ----------------------------
(***************************************************************************)
(* The key management of the plugin on Android: AccountsUtil and           *)
(* KeyManagerImpl over the method channel and MnemonicStorageHelper.       *)
(***************************************************************************)
EXTENDS AndroidStorage, AccountsUtil

CONSTANT Restarts  \* whether the application process may die in a run

ASSUME RestartsAssumption == Restarts \in BOOLEAN

vars == <<channelVars, historyVars, dartVars, androidVars>>

Init == ChannelInit /\ DartInit /\ AndroidInit

\* Bound: the application deletes when no deletion is under way.
App == /\ \/ AppStep
          \/ /\ ~DeleteQueued /\ ~BagIn(Delete, writes)
             /\ PermanentlyDeleteAccount
       /\ UNCHANGED androidVars

Dart == DartStep /\ UNCHANGED androidVars

Native == AndroidStep /\ UNCHANGED dartVars

\* The listener of a save that was answered with an error answers again.  On the
\* main thread nobody catches the exception, and the process dies.
AnswerRefused ==
    /\ refused = "stored"
    /\ answeredTwice' = answeredTwice \cup {"saveMnemonic"}
    /\ DartRestart /\ AndroidRestart

Restart == /\ Restarts /\ DartRestart /\ AndroidRestart
           /\ UNCHANGED answeredTwice

Next == App \/ Dart \/ Native \/ AnswerRefused \/ Restart

\* The isolate and the main thread serve their queues, and Blockstore ends
\* every task it has taken.  The application need not call anything.
Fairness ==
    /\ WF_vars(Dart)
    /\ WF_vars(Handle /\ UNCHANGED dartVars)
    /\ \A f \in Frames : WF_vars(RunRetrieve(f) /\ UNCHANGED dartVars)
    /\ \A f \in Frames : WF_vars(AnswerRetrieved(f) /\ UNCHANGED dartVars)
    /\ \A w \in Write : WF_vars(RunWrite(w) /\ UNCHANGED dartVars)
    /\ WF_vars(AnswerRefused)

Spec == Init /\ [][Next]_vars
FairSpec == Spec /\ Fairness

-----------------------------------------------------------------------------
(* Properties.                                                             *)

\* Variables have their types.
TypeOK == ChannelTypeOK /\ DartTypeOK /\ AndroidTypeOK

\* The answer to every awaited call is owed exactly once, also while a
\* retrieveBytes task or its listener has it (see OneAnswer); and no handler
\* answers a call twice (FlutterSdkPlugin.kt:83-90 and 99-114) on a device that
\* was never handed a text that is no mnemonic.
OwedByBlockstore(f) ==
    (IF f \in retrieving THEN 1 ELSE 0)
      + Cardinality({r \in retrieved : r.caller = f})
OneAnswerEach == /\ OneAnswer(OwedByBlockstore)
                 /\ answeredTwice # {} => Failure \in entrusted

\* Its strengthening that is inductive: Blockstore owes a frame one task or
\* one listener, never both.
Retrieves(f) == f \in retrieving \/ \E r \in retrieved : r.caller = f
RetrievesOnce(f) ==
    /\ f \in retrieving => \A r \in retrieved : r.caller # f
    /\ \A r, s \in retrieved : r.caller = f /\ s.caller = f => r = s
PlacedInv ==
    TypeOK /\ \A f \in Frames : Placed(f, Retrieves(f)) /\ RetrievesOnce(f)
TwiceOfFailure ==
    answeredTwice # {} \/ refused # "none" => Failure \in entrusted

\* A device that starts with a mnemonic in Blockstore never draws another one
\* on behalf of a read: whatever calls overlap and however often the
\* application restarts, getMnemonic finds one, as long as no retrieve fails
\* and nobody deletes (keyManager.dart:59-61).
StoredAccountIsFound == block # None => []NoReadDraws

\* The hypothesis of that, and the strengthening that is inductive: no delete
\* task is under way, and no listener was left without a mnemonic.
NothingLost == /\ "permanentlyDeleteAccount" \notin AppCalls
               /\ "retrieve" \notin TaskFailures
FoundInv ==
    /\ TypeOK /\ DartFinds /\ block # None
    /\ Delete \notin BagToSet(writes)
    /\ \A r \in retrieved : r.found # None

\* The mnemonic of every wallet in use is in a store at some time, whatever
\* calls overlap and even if the application dies right after the wallet was
\* handed out: its save was posted and not awaited (keyManager.dart:47), but it
\* is already with Blockstore.  (While no store fails; the save of an overlapping
\* call may replace it before or after.)
BackedEventually == \A p \in Phrases : cached = p ~> p \in kept

\* What Blockstore and the preferences hold, are asked to hold or have handed
\* to a listener is entrusted; with DartCustody this is inductive.
AndroidCustody ==
    /\ block \in entrusted \cup {None}
    /\ prefs \in entrusted \cup {None}
    /\ \A w \in BagToSet(writes) : w.phrase \in entrusted \cup {None}
    /\ \A r \in retrieved : r.found \in entrusted \cup {None}

CustodyInv == TypeOK /\ DartCustody /\ AndroidCustody

\* The detailed system implements the abstract promise on custody.
CustodySpec == INSTANCE Custody WITH entrusted <- entrusted, cached <- cached
ImplementsCustody == CustodySpec!Spec

\* What the exception of createAccount says (account.dart:29, 'Account already
\* exists'): it refuses to create only where there is an account.
RefusesOnlyExisting ==
    [][\A f, g \in Frames : CreateAccount(f, g) =>
          cached # None \/ block # None \/ prefs # None \/ writes # EmptyBag]_vars
==============================================================================
