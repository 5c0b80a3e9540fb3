---------------------------- MODULE AccountsUtil -----------------------------
(***************************************************************************)
(* The Dart side of the key management: lib/account.dart (AccountsUtil)    *)
(* over lib/keyManager.dart (KeyManagerImpl).  One isolate runs it, so the *)
(* code between two awaits is one step; every await is a call on the       *)
(* method channel, and other activations run while it is out.              *)
(*                                                                         *)
(* A frame is one asynchronous activation.  createAccount starts a second  *)
(* one: it calls getWallet without awaiting it (account.dart:26).          *)
(***************************************************************************)
EXTENDS MethodChannel, FiniteSets

CONSTANTS
    AppCalls,  \* the API calls the application makes, a subset of ApiCalls
    AppTexts,  \* the texts of its own that it may save
    AppAwaits, \* whether it awaits each call before it makes the next
    MaxDraws   \* bound: mnemonics drawn by one device in a behaviour

VARIABLES
    cached,  \* AccountsUtil._cachedWallet
    frames   \* the asynchronous activations

dartVars == <<cached, frames>>

ApiCalls == {"getWallet", "getAccountPhrase", "createAccount",
             "createAccountOverwrite", "sign", "permanentlyDeleteAccount",
             "saveMnemonic"}

ASSUME AppCallsAssumption == /\ AppCalls \subseteq ApiCalls
                             /\ AppTexts \subseteq Text
                             /\ AppAwaits \in BOOLEAN
                             /\ MaxDraws \in Nat

Ops == {"getWallet", "createAccount", "getAccountPhrase"}
Settled == {"idle", "returned", "threw"}

\* pc: the method whose reply the frame awaits, or how it ended.
\* text: the mnemonic in its local variable, or what it returned.
\* awaited: the application holds its future; nobody holds the future of the
\* getWallet that createAccount or a sign call starts.
Frame == [op : Ops, pc : AwaitedMethods \cup Settled, text : MaybeText,
          awaited : BOOLEAN]

Free == {f \in Frames : frames[f].pc \in Settled}

\* Frames that may still draw a mnemonic; the bound counts them as draws.
MayDraw == {f \in Frames :
                frames[f].pc \in {"getMnemonic", "generateNewMnemonic"}}
DrawsLeft(n) == Cardinality(minted) + Cardinality(MayDraw) + n <= MaxDraws

\* An application that awaits its calls makes one when the last has settled.
Ready(call) ==
    /\ call \in AppCalls
    /\ AppAwaits => \A f \in Frames : frames[f].awaited => f \in Free

DartTypeOK ==
    /\ cached \in MaybeText
    /\ frames \in [Frames -> Frame]

Started(op, pc, text, awaited) ==
    [op |-> op, pc |-> pc, text |-> text, awaited |-> awaited]

IdleFrame == Started("getWallet", "idle", None, FALSE)

DartInit ==
    /\ cached = None
    /\ frames = [f \in Frames |-> IdleFrame]

\* What calling getWallet does before its first await: the cached wallet is
\* returned, or the stored mnemonic is asked for.
WalletFrame(awaited) ==
    IF cached # None THEN Started("getWallet", "returned", cached, awaited)
                     ELSE Started("getWallet", "getMnemonic", None, awaited)
\* Mutant: getMnemonic is called without await.
WalletCallsUnawaited(f) ==
    IF cached # None THEN <<>> ELSE <<Call("getMnemonic", NoFrame, None)>>

WalletCalls(f) == IF cached # None THEN <<>>
                                   ELSE <<Call("getMnemonic", f, None)>>

\* getWallet, and getAccountAddress, getPrivateKeyHex and getBalance, which
\* await it and change nothing else.
GetWallet(f) ==
    /\ Ready("getWallet") /\ DrawsLeft(1)
    /\ f \in Free
    /\ frames' = [frames EXCEPT ![f] = WalletFrame(TRUE)]
    /\ Send(WalletCalls(f))
    /\ UNCHANGED <<cached, replies, historyVars>>

GetAccountPhrase(f) ==
    /\ Ready("getAccountPhrase") /\ DrawsLeft(1)
    /\ f \in Free
    /\ frames' = [frames EXCEPT
                    ![f] = Started("getAccountPhrase", "getMnemonic", None, TRUE)]
    /\ Send(<<Call("getMnemonic", f, None)>>)
    /\ UNCHANGED <<cached, replies, historyVars>>

\* createAccount: `existingWallet' is a Future and never null, so without
\* overwrite the call throws whatever is stored.  The getWallet it started,
\* in frame g, goes on in both cases.
CreateAccount(f, g) ==
    /\ Ready("createAccount") /\ DrawsLeft(1)
    /\ f \in Free /\ g \in Free \ {f}
    /\ frames' = [frames EXCEPT
                    ![f] = Started("createAccount", "threw", None, TRUE),
                    ![g] = WalletFrame(FALSE)]
    /\ Send(WalletCalls(g))
    /\ UNCHANGED <<cached, replies, historyVars>>

OverwriteAccount(f, g) ==
    /\ Ready("createAccountOverwrite") /\ DrawsLeft(2)
    /\ f \in Free /\ g \in Free \ {f}
    /\ frames' = [frames EXCEPT
                    ![f] = Started("createAccount", "generateNewMnemonic", None,
                                   TRUE),
                    ![g] = WalletFrame(FALSE)]
    /\ Send(WalletCalls(g) \o <<Call("generateNewMnemonic", f, None)>>)
    /\ UNCHANGED <<cached, replies, historyVars>>

\* signMessage, signTransaction, signHash: start getWallet, then throw
\* UnimplementedError to the synchronous caller.
Sign(g) ==
    /\ Ready("sign") /\ DrawsLeft(1)
    /\ g \in Free
    /\ frames' = [frames EXCEPT ![g] = WalletFrame(FALSE)]
    /\ Send(WalletCalls(g))
    /\ UNCHANGED <<cached, replies, historyVars>>

PermanentlyDeleteAccount ==
    /\ Ready("permanentlyDeleteAccount")
    /\ Send(<<Call("deleteMnemonic", NoFrame, None)>>)
    /\ cached' = None
    /\ UNCHANGED <<frames, replies, historyVars>>

\* The isolate takes the oldest reply; it resumes the frame that awaits it.
Resume(f, method) ==
    /\ replies # <<>>
    /\ Head(replies).caller = f /\ Head(replies).method = method
    /\ frames[f].pc = method
    /\ replies' = Tail(replies)

DeriveKey(f, p) == Call("getPrivateKeyFromMnemonic", f, p)
SaveMnemonic(p) == Call("saveMnemonic", NoFrame, p)

\* KeyManagerImpl.saveMnemonic, called by the application with a text of its
\* own: a mnemonic that nobody has drawn here, or a text that is none.
\* Bound: each text once.
SaveText(p) ==
    /\ Ready("saveMnemonic")
    /\ p \in Phrases => DrawsLeft(1)
    /\ p \notin minted \cup entrusted
    /\ \A i \in 1..Len(requests) : requests[i] # SaveMnemonic(p)
    /\ Send(<<SaveMnemonic(p)>>)
    /\ minted' = minted \cup ({p} \cap Phrases)
    /\ UNCHANGED <<cached, frames, replies, entrusted>>

\* The frame goes on to await another method, or ends.
Goes(f, pc, text) ==
    frames' = [frames EXCEPT ![f].pc = pc, ![f].text = text]

\* KeyManagerImpl.getMnemonic, after the platform answered: nothing stored
\* means a new mnemonic; otherwise the caller goes on with the stored one.
OnGetMnemonic(f) ==
    /\ Resume(f, "getMnemonic")
    /\ LET found == Head(replies).value IN
       \/ /\ found = None
          /\ Goes(f, "generateNewMnemonic", None)
          /\ Send(<<Call("generateNewMnemonic", f, None)>>)
       \/ /\ found # None /\ frames[f].op = "getAccountPhrase"
          /\ Goes(f, "returned", found)
          /\ Send(<<>>)
       \/ /\ found # None /\ frames[f].op = "getWallet"
          /\ Goes(f, "getPrivateKeyFromMnemonic", found)
          /\ Send(<<DeriveKey(f, found)>>)
    /\ UNCHANGED <<cached, historyVars>>

\* Mutant: the key is asked for before the save is posted.
OnGenerateMnemonicKeyFirst(f) ==
    /\ Resume(f, "generateNewMnemonic")
    /\ LET p == Head(replies).value IN
       /\ Goes(f, "getPrivateKeyFromMnemonic", p)
       /\ Send(<<DeriveKey(f, p), SaveMnemonic(p)>>)
    /\ UNCHANGED <<cached, historyVars>>

\* Mutant: nothing is saved.
OnGenerateMnemonicUnsaved(f) ==
    /\ Resume(f, "generateNewMnemonic")
    /\ LET p == Head(replies).value IN
       /\ Goes(f, "getPrivateKeyFromMnemonic", p)
       /\ Send(<<DeriveKey(f, p)>>)
    /\ UNCHANGED <<cached, historyVars>>

\* KeyManagerImpl.generateMnemonic, after the platform answered: the save is
\* posted and not awaited.  createAccount posts it a second time.
OnGenerateMnemonic(f) ==
    /\ Resume(f, "generateNewMnemonic")
    /\ LET p == Head(replies).value IN
       \/ /\ frames[f].op = "getAccountPhrase"
          /\ Goes(f, "returned", p)
          /\ Send(<<SaveMnemonic(p)>>)
       \/ /\ frames[f].op = "getWallet"
          /\ Goes(f, "getPrivateKeyFromMnemonic", p)
          /\ Send(<<SaveMnemonic(p), DeriveKey(f, p)>>)
       \/ /\ frames[f].op = "createAccount"
          /\ Goes(f, "getPrivateKeyFromMnemonic", p)
          /\ Send(<<SaveMnemonic(p), SaveMnemonic(p), DeriveKey(f, p)>>)
    /\ UNCHANGED <<cached, historyVars>>

\* makePrivateKeyFromMnemonic returned a key: the wallet made from it is
\* cached, over whatever another activation cached meanwhile.
OnPrivateKey(f) ==
    /\ Resume(f, "getPrivateKeyFromMnemonic")
    /\ Head(replies).ok
    /\ cached' = Head(replies).value
    /\ Goes(f, "returned", Head(replies).value)
    /\ UNCHANGED <<requests, historyVars>>

\* invokeMethod completed with an exception: getWallet and createAccount
\* rethrow it.  (getAccountPhrase never asks for a key.)
OnKeyError(f) ==
    /\ Resume(f, "getPrivateKeyFromMnemonic")
    /\ ~Head(replies).ok
    /\ Goes(f, "threw", None)
    /\ UNCHANGED <<cached, requests, historyVars>>

\* Bound: one deleteMnemonic call at a time in the queue.
DeleteQueued ==
    \E i \in 1..Len(requests) : requests[i].method = "deleteMnemonic"

AppStep ==
    \/ \E f \in Frames : GetWallet(f) \/ GetAccountPhrase(f) \/ Sign(f)
    \/ \E f, g \in Frames : CreateAccount(f, g) \/ OverwriteAccount(f, g)
    \/ \E p \in AppTexts : SaveText(p)

DartStep ==
    \E f \in Frames : \/ OnGetMnemonic(f) \/ OnGenerateMnemonic(f)
                      \/ OnPrivateKey(f) \/ OnKeyError(f)

\* The application process dies and is started again.
DartRestart ==
    /\ cached' = None
    /\ frames' = [f \in Frames |-> IdleFrame]
    /\ requests' = <<>>
    /\ replies' = <<>>

-----------------------------------------------------------------------------
(* Properties of the Dart side, on either platform.                        *)

\* The wallet in use, and every wallet a finished call returned, belongs to a
\* mnemonic that has been handed to the device's storage: generateMnemonic
\* does not await the save (keyManager.dart:47), so only the order of the
\* channel puts it before the key.
HandedOutIsEntrusted ==
    /\ cached # None => cached \in entrusted
    /\ \A f \in Frames :
         (frames[f].pc = "returned" /\ frames[f].op # "getAccountPhrase")
            => frames[f].text \in entrusted

\* Only an overwriting createAccount draws a mnemonic; a read found one.
NoReadDraws ==
    \A f \in Frames : frames[f].pc = "generateNewMnemonic" =>
                          frames[f].op = "createAccount"

\* Every asynchronous call settles: each await is answered.
CallsSettle ==
    \A f \in Frames : frames[f].pc \notin Settled ~> frames[f].pc \in Settled

\* Where the call that a frame awaits can be on the channel.
Queued(f) == {i \in 1..Len(requests) : requests[i].caller = f}
Answered(f) == {i \in 1..Len(replies) : replies[i].caller = f}

\* Every awaited call is in exactly one place between its sending and the
\* resumption of its frame, under the method the frame awaits: no handler or
\* listener forgets to answer, answers twice or answers somebody else, and a
\* frame that is not waiting has nothing under way.  elsewhere(f) counts the
\* answers that the platform still owes f.
OneAnswer(elsewhere(_)) ==
    \A f \in Frames :
        /\ Cardinality(Queued(f)) + Cardinality(Answered(f)) + elsewhere(f)
             = (IF frames[f].pc \in Settled THEN 0 ELSE 1)
        /\ \A i \in Queued(f) : requests[i].method = frames[f].pc
        /\ \A i \in Answered(f) : replies[i].method = frames[f].pc
        /\ elsewhere(f) # 0 => frames[f].pc = "getMnemonic"

-----------------------------------------------------------------------------
(* The strengthening of OneAnswer that is inductive: without counting.     *)

\* Nothing on the queue is for f, or one thing is, of a method.
Absent(queue, f) == \A i \in 1..Len(queue) : queue[i].caller # f
Alone(queue, f, method) ==
    \E i \in 1..Len(queue) :
        /\ queue[i].caller = f /\ queue[i].method = method
        /\ \A j \in 1..Len(queue) : queue[j].caller = f => j = i

\* A frame that awaits a method is owed its answer by one place; owed says
\* whether that is the platform, outside the two queues.
Placed(f, owed) ==
    LET pc == frames[f].pc IN
    \/ pc \in Settled /\ ~owed /\ Absent(requests, f) /\ Absent(replies, f)
    \/ pc \notin Settled /\ ~owed /\ Alone(requests, f, pc) /\ Absent(replies, f)
    \/ pc \notin Settled /\ ~owed /\ Absent(requests, f) /\ Alone(replies, f, pc)
    \/ pc = "getMnemonic" /\ owed /\ Absent(requests, f) /\ Absent(replies, f)

-----------------------------------------------------------------------------
(* The strengthening of HandedOutIsEntrusted that is inductive.            *)

\* Behind every request for a key there is a mnemonic that the storage has
\* been handed, or a save of it further ahead in the queue.
KeysCovered(calls) ==
    \A j \in 1..Len(calls) :
        calls[j].method = "getPrivateKeyFromMnemonic" =>
            \/ calls[j].phrase \in entrusted
            \/ \E i \in 1..(j - 1) : calls[i] = SaveMnemonic(calls[j].phrase)
KeysAfterSaves == KeysCovered(requests)

\* A mnemonic or a key that the platform answers is entrusted, unless it is
\* the mnemonic just drawn.
AnswersEntrusted ==
    \A i \in 1..Len(replies) :
        replies[i].method # "generateNewMnemonic" =>
            replies[i].value \in entrusted \cup {None}

DartCustody == HandedOutIsEntrusted /\ KeysAfterSaves /\ AnswersEntrusted

-----------------------------------------------------------------------------
(* The strengthening of NoReadDraws that is inductive, on a device that    *)
(* holds a mnemonic and keeps it: no deletion is under way, and every read *)
(* that was answered found one.                                            *)

KeepingRequest == {r \in Request : r.method # "deleteMnemonic"}
FindingReply == {r \in Reply : r.method = "getMnemonic" => r.value # None}
DartFinds ==
    /\ requests \in Seq(KeepingRequest)
    /\ replies \in Seq(FindingReply)
    /\ NoReadDraws
==============================================================================
