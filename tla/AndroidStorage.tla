--------------------------- MODULE AndroidStorage ----------------------------
(***************************************************************************)
(* The Android side of the channel: FlutterSdkPlugin.kt and                *)
(* MnemonicStorageHelper.kt over Google's Blockstore and the encrypted     *)
(* shared preferences.  Handlers and listeners run on the main thread, one *)
(* at a time; a Blockstore task runs in another process, in no promised    *)
(* order with the other tasks, and survives the death of the application.  *)
(***************************************************************************)
EXTENDS MethodChannel, Bags, BagsExt

CONSTANT TaskFailures  \* kinds of Blockstore task that can fail in a run

VARIABLES
    block,       \* the bytes Blockstore keeps under BIP39_MNEMONIC
    prefs,       \* the copy in EncryptedSharedPreferences
    writes,      \* bag of storeBytes and deleteBytes tasks not finished
    retrieving,  \* frames whose retrieveBytes task is not finished
    retrieved,   \* finished retrieveBytes tasks whose listener has not run
    refused,     \* a save that was answered with an error is stored all the same:
                 \* "storing" while its task runs, "stored" until its listener has
    answeredTwice, \* history: methods whose handler answered one call twice
    kept         \* history: the texts that the two stores have held

storeVars == <<block, prefs, writes, retrieving, retrieved>>
answerVars == <<refused, answeredTwice, kept>>
androidVars == <<storeVars, answerVars>>

TaskKinds == {"store", "delete", "retrieve"}

ASSUME TaskFailuresAssumption == TaskFailures \subseteq TaskKinds

Write == [kind : {"store"}, phrase : Text]
           \cup [kind : {"delete"}, phrase : {None}]
Store(p) == [kind |-> "store", phrase |-> p]
Delete == [kind |-> "delete", phrase |-> None]

Retrieved == [caller : Frames, found : MaybeText]

AndroidTypeOK ==
    /\ block \in MaybeText
    /\ prefs \in MaybeText
    /\ IsABag(writes) /\ BagToSet(writes) \subseteq Write
    /\ retrieving \subseteq Frames
    /\ retrieved \subseteq Retrieved
    /\ refused \in {"none", "storing", "stored"}
    /\ answeredTwice \subseteq {"saveMnemonic", "getPrivateKeyFromMnemonic"}
    /\ kept \subseteq Text

\* A device may hold a text in either place: saved by this application,
\* restored from a cloud backup, or left by a release that used the
\* preferences.
AndroidInit ==
    /\ block \in MaybeText
    /\ prefs \in MaybeText
    /\ writes = EmptyBag
    /\ retrieving = {}
    /\ retrieved = {}
    /\ minted = {block, prefs} \cap Phrases
    /\ entrusted = {block, prefs} \ {None}
    /\ refused = "none"
    /\ answeredTwice = {}
    /\ kept = entrusted

\* generateMnemonic(192, WORDLIST_ENGLISH), answered at once.
GenerateNewMnemonic(p) ==
    /\ Receive("generateNewMnemonic")
    /\ Draw(p)
    /\ Answer(Head(requests), TRUE, p)
    /\ UNCHANGED <<entrusted, androidVars>>

\* save.  KeyManagerImpl always sends useBlockStore = true and save overwrites
\* isEndToEndEncryptionAvailable with true, so storeBytes is the only branch
\* that Dart can reach.
Save(p) ==
    /\ writes' = BagAdd(writes, Store(p))
    /\ entrusted' = entrusted \cup {p}

\* saveMnemonic.  The listener of the task answers the call.  A text that fails
\* validation is answered with an error at once, and the handler goes on and
\* saves it all the same.
HandleSaveMnemonic ==
    /\ Receive("saveMnemonic")
    /\ LET p == Head(requests).phrase IN
       /\ Save(p)
       /\ refused' = IF p = Failure THEN "storing" ELSE refused
    /\ UNCHANGED <<replies, minted, block, prefs, retrieving, retrieved,
                   answeredTwice, kept>>

\* deleteMnemonic: the deleteBytes task is started and not awaited, the
\* preference is removed and committed at once.
HandleDeleteMnemonic ==
    /\ Receive("deleteMnemonic")
    /\ writes' = BagAdd(writes, Delete)
    /\ prefs' = None
    /\ UNCHANGED <<replies, historyVars, block, retrieving, retrieved, answerVars>>

\* getMnemonic starts a retrieveBytes task; its listener answers.
HandleGetMnemonic ==
    /\ Receive("getMnemonic")
    /\ retrieving' = retrieving \cup {Head(requests).caller}
    /\ UNCHANGED <<replies, historyVars, block, prefs, writes, retrieved, answerVars>>

\* getPrivateKeyFromMnemonic: validation, seed and derivation, in one call.
\* A text that fails validation is answered with an error; the handler goes on
\* and answers the key derived from it as well.  Flutter refuses the second
\* answer of a call with an exception, and catches it around a handler, so
\* Dart sees the first one.
HandleGetPrivateKey ==
    /\ Receive("getPrivateKeyFromMnemonic")
    /\ LET p == Head(requests).phrase IN
       /\ Answer(Head(requests), p # Failure, p)
       /\ answeredTwice' = answeredTwice \cup
             (IF p = Failure THEN {"getPrivateKeyFromMnemonic"} ELSE {})
    /\ UNCHANGED <<historyVars, storeVars, refused, kept>>

\* Blockstore runs one write task; a failed one leaves the bytes as they were.
\* The listener of a save answers its call, which nobody awaits; for a save that
\* was answered before see AnswerRefused.
RunWrite(w) ==
    /\ BagIn(w, writes)
    /\ writes' = BagRemove(writes, w)
    /\ \/ /\ block' = w.phrase
          /\ kept' = kept \cup ({w.phrase} \ {None})
       \/ w.kind \in TaskFailures /\ UNCHANGED <<block, kept>>
    /\ refused' = IF w = Store(Failure) /\ refused = "storing" THEN "stored"
                                                               ELSE refused
    /\ UNCHANGED <<channelVars, historyVars, prefs, retrieving, retrieved,
                   answeredTwice>>

\* Blockstore runs one retrieve task.  The listeners of a failure and of an
\* empty answer do the same, so both find None.
RunRetrieve(f) ==
    /\ f \in retrieving
    /\ retrieving' = retrieving \ {f}
    /\ \/ retrieved' = retrieved \cup {[caller |-> f, found |-> block]}
       \/ /\ "retrieve" \in TaskFailures
          /\ retrieved' = retrieved \cup {[caller |-> f, found |-> None]}
    /\ UNCHANGED <<channelVars, historyVars, block, prefs, writes, answerVars>>

\* Mutant: the listener answers only when it has a mnemonic.
AnswerRetrievedIfAny(f) ==
    \E r \in retrieved :
        /\ r.caller = f
        /\ retrieved' = retrieved \ {r}
        /\ IF r.found # None
              THEN Answer(Call("getMnemonic", f, None), TRUE, r.found)
              ELSE UNCHANGED replies
        /\ UNCHANGED <<requests, historyVars, block, prefs, writes, retrieving,
                       answerVars>>

\* Mutant: the listener looks at the preferences only.
AnswerRetrievedFromPrefs(f) ==
    \E r \in retrieved :
        /\ r.caller = f
        /\ retrieved' = retrieved \ {r}
        /\ Answer(Call("getMnemonic", f, None), TRUE, prefs)
        /\ UNCHANGED <<requests, historyVars, block, prefs, writes, retrieving,
                       answerVars>>

\* The listener of retrieveBytes: what Blockstore had, else the preference.
AnswerRetrieved(f) ==
    \E r \in retrieved :
        /\ r.caller = f
        /\ retrieved' = retrieved \ {r}
        /\ Answer(Call("getMnemonic", f, None), TRUE,
                  IF r.found # None THEN r.found ELSE prefs)
        /\ UNCHANGED <<requests, historyVars, block, prefs, writes, retrieving,
                       answerVars>>

Handle ==
    \/ \E p \in Phrases : GenerateNewMnemonic(p)
    \/ HandleSaveMnemonic \/ HandleDeleteMnemonic
    \/ HandleGetMnemonic \/ HandleGetPrivateKey

AndroidStep ==
    \/ Handle
    \/ \E w \in BagToSet(writes) : RunWrite(w)
    \/ \E f \in Frames : RunRetrieve(f) \/ AnswerRetrieved(f)

\* The application process dies: its listeners go, the preferences and the
\* tasks that Blockstore already has stay.
AndroidRestart ==
    /\ retrieving' = {}
    /\ retrieved' = {}
    /\ refused' = "none"
    /\ UNCHANGED <<historyVars, block, prefs, writes, kept>>
==============================================================================
