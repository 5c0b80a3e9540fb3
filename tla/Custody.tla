------------------------------- MODULE Custody -------------------------------
(***************************************************************************)
(* What the key management promises about custody, whatever the platform:  *)
(* the application only ever works with a wallet whose mnemonic has been   *)
(* handed to the device's storage.  Entrusting, adopting and forgetting    *)
(* are separate steps and come in any order.                               *)
(***************************************************************************)
CONSTANTS Text, None

VARIABLES
    entrusted,  \* mnemonics the storage has held or been asked to keep
    cached      \* the mnemonic of the wallet in use, or None

vars == <<entrusted, cached>>

Init == entrusted \subseteq Text /\ cached = None

Entrust(p) == entrusted' = entrusted \cup {p} /\ UNCHANGED cached
Adopt(p) == p \in entrusted /\ cached' = p /\ UNCHANGED entrusted
Forget == cached' = None /\ UNCHANGED entrusted

Next == (\E p \in Text : Entrust(p) \/ Adopt(p)) \/ Forget

Spec == Init /\ [][Next]_vars
==============================================================================
