----------------------------- MODULE IosKeychain -----------------------------
(***************************************************************************)
(* The iOS side of the channel: FlutterSdkPlugin.swift,                    *)
(* RlyNetworkMobileSdk.swift and KeyChainHelper.swift.  Every handler runs *)
(* to its result(...) on the main thread and no keychain call is           *)
(* asynchronous.  The helper drops every OSStatus, so a keychain call that *)
(* fails looks like one that succeeded, or like an empty keychain.         *)
(***************************************************************************)
EXTENDS MethodChannel

CONSTANT SystemFailures  \* calls of Security.framework that can fail in a run

VARIABLE keychain  \* kSecValueData under WALLET_STORAGE / BIP39_MNEMONIC

SystemCalls == {"SecRandomCopyBytes", "SecItemAdd", "SecItemCopyMatching",
                "SecItemDelete"}

ASSUME SystemFailuresAssumption == SystemFailures \subseteq SystemCalls

Fails(call) == call \in SystemFailures

IosTypeOK == keychain \in MaybeText

\* An item written before survives, even an earlier installation's.
IosInit ==
    /\ keychain \in Phrases \cup {None}
    /\ minted = {keychain} \ {None}
    /\ entrusted = minted

\* generateMnemonic: 24 random bytes and their mnemonic, or the string
\* "failure" as an ordinary result.
HandleGenerateMnemonic ==
    /\ Receive("generateNewMnemonic")
    /\ \/ \E p \in Phrases : Draw(p) /\ Answer(Head(requests), TRUE, p)
       \/ /\ Fails("SecRandomCopyBytes")
          /\ Answer(Head(requests), TRUE, Failure)
          /\ UNCHANGED minted
    /\ UNCHANGED <<entrusted, keychain>>

\* Mutant: an existing item is not updated.
HandleSaveMnemonicAddOnly ==
    /\ Receive("saveMnemonic")
    /\ keychain' = IF keychain = None THEN Head(requests).phrase ELSE keychain
    /\ entrusted' = entrusted \cup {Head(requests).phrase}
    /\ UNCHANGED <<replies, minted>>

\* saveMnemonic: SecItemAdd, and SecItemUpdate when the item exists; what is
\* saved is not validated.
HandleSaveMnemonic ==
    /\ Receive("saveMnemonic")
    /\ \/ keychain' = Head(requests).phrase
       \/ Fails("SecItemAdd") /\ UNCHANGED keychain
    /\ entrusted' = entrusted \cup {Head(requests).phrase}
    /\ UNCHANGED <<replies, minted>>

HandleDeleteMnemonic ==
    /\ Receive("deleteMnemonic")
    /\ \/ keychain' = None
       \/ Fails("SecItemDelete") /\ UNCHANGED keychain
    /\ UNCHANGED <<replies, historyVars>>

\* Mutant: the item is looked up under another service name.
HandleGetMnemonicMissing ==
    /\ Receive("getMnemonic")
    /\ Answer(Head(requests), TRUE, None)
    /\ UNCHANGED <<historyVars, keychain>>

\* getMnemonic: an unreadable item reads like a missing one.
HandleGetMnemonic ==
    /\ Receive("getMnemonic")
    /\ \/ Answer(Head(requests), TRUE, keychain)
       \/ /\ Fails("SecItemCopyMatching")
          /\ Answer(Head(requests), TRUE, None)
    /\ UNCHANGED <<historyVars, keychain>>

\* Mutant: an invalid mnemonic is not answered.
HandleGetPrivateKeySilent ==
    /\ Receive("getPrivateKeyFromMnemonic")
    /\ LET p == Head(requests).phrase IN
       IF p \in Phrases THEN Answer(Head(requests), TRUE, p)
                        ELSE UNCHANGED replies
    /\ UNCHANGED <<historyVars, keychain>>

\* Mutant: the mnemonic is not checked.
HandleGetPrivateKeyUnchecked ==
    /\ Receive("getPrivateKeyFromMnemonic")
    /\ LET p == Head(requests).phrase IN Answer(Head(requests), TRUE, p)
    /\ UNCHANGED <<historyVars, keychain>>

\* getPrivateKeyFromMnemonic: 32 bytes; for an invalid mnemonic the string
\* "failure", which invokeMethod<List<Object?>> refuses on the Dart side.
HandleGetPrivateKey ==
    /\ Receive("getPrivateKeyFromMnemonic")
    /\ LET p == Head(requests).phrase IN Answer(Head(requests), p \in Phrases, p)
    /\ UNCHANGED <<historyVars, keychain>>

IosStep ==
    \/ HandleGenerateMnemonic \/ HandleSaveMnemonic \/ HandleDeleteMnemonic
    \/ HandleGetMnemonic \/ HandleGetPrivateKey

\* The application process dies; the keychain stays.
IosRestart == UNCHANGED <<historyVars, keychain>>
==============================================================================
