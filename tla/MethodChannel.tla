---------------------------- MODULE MethodChannel ----------------------------
(***************************************************************************)
(* The Flutter method channel "flutter_sdk" between the Dart isolate and   *)
(* the platform thread (lib/keyManager.dart:36).  Both directions are      *)
(* FIFO: a call is encoded and posted to the platform thread, which runs   *)
(* the handler of one call at a time; result(...) posts the reply to the   *)
(* Dart event queue.  Replies to calls whose future nobody awaits are      *)
(* discarded by the isolate, so they are not queued here.                  *)
(***************************************************************************)
EXTENDS Naturals, Sequences

CONSTANTS
    Phrases,  \* the BIP-39 mnemonics the generators can draw
    Frames,   \* identities of the asynchronous activations on the Dart side
    None,     \* Dart's null: no mnemonic, no wallet
    NoFrame,  \* the caller field of a call whose future is not awaited
    Failure   \* a text that is no mnemonic, as the string "failure" of
              \* RlyNetworkMobileSdk.swift

ASSUME ConstantsDistinct ==
    /\ None \notin Phrases
    /\ Failure \notin Phrases
    /\ None # Failure
    /\ NoFrame \notin Frames

VARIABLES
    requests,  \* calls posted to the platform thread, oldest first
    replies,   \* results posted to the isolate, oldest first
    minted,    \* phrases drawn so far, or brought along by the application
    entrusted  \* history: phrases the storage has held or been asked to keep

channelVars == <<requests, replies>>
historyVars == <<minted, entrusted>>

\* A private key is a function of its mnemonic and no two mnemonics share
\* one, so the model names a key, and the wallet made from it, by its phrase.
Text == Phrases \cup {Failure}
MaybeText == Text \cup {None}

AwaitedMethods == {"getMnemonic", "generateNewMnemonic",
                   "getPrivateKeyFromMnemonic"}

\* A call is awaited by a frame or, for a save or a deletion, by nobody.
Request ==
    [method : {"getMnemonic", "generateNewMnemonic"}, caller : Frames,
     phrase : {None}]
    \cup [method : {"getPrivateKeyFromMnemonic"}, caller : Frames,
          phrase : Text]
    \cup [method : {"saveMnemonic"}, caller : {NoFrame}, phrase : Text]
    \cup [method : {"deleteMnemonic"}, caller : {NoFrame}, phrase : {None}]

\* ok is FALSE for a value of a type that invokeMethod<T> refuses: the
\* awaiting future completes with an exception.
Reply ==
    [method : {"getMnemonic"}, caller : Frames, ok : {TRUE},
     value : MaybeText]
    \cup [method : {"generateNewMnemonic"}, caller : Frames, ok : {TRUE},
          value : Text]
    \cup [method : {"getPrivateKeyFromMnemonic"}, caller : Frames,
          ok : BOOLEAN, value : Text]

ChannelTypeOK ==
    /\ requests \in Seq(Request)
    /\ replies \in Seq(Reply)
    /\ minted \subseteq Phrases
    /\ entrusted \subseteq Text

ChannelInit ==
    /\ requests = <<>>
    /\ replies = <<>>

Call(method, caller, phrase) ==
    [method |-> method, caller |-> caller, phrase |-> phrase]

\* invokeMethod: the calls one synchronous stretch of Dart code makes, in
\* program order.
Send(calls) == requests' = requests \o calls

\* The platform thread takes the oldest call.
Receive(method) ==
    /\ requests # <<>>
    /\ Head(requests).method = method
    /\ requests' = Tail(requests)

\* result.success, result(...) or result.error of the call `req'.
Answer(req, ok, value) ==
    replies' = Append(replies, [method |-> req.method, caller |-> req.caller,
                                ok |-> ok, value |-> value])

\* The random bytes of a new mnemonic never repeat an earlier draw.
Draw(p) ==
    /\ p \in Phrases \ minted
    /\ minted' = minted \cup {p}
==============================================================================
