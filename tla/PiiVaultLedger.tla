---------------------------- MODULE PiiVaultLedger ----------------------------
(* The tokens for personal data keep the promise of TokenLedger.           *)
EXTENDS PiiVault

Pair(e) == <<e.tok, e.val>>

(* Both sides issue; only what is live on the request side is put back.     *)
IssuedPairs  == {Pair(m.entry) : m \in ToSet(minted)}
LivePairs    == {Pair(e) : e \in ToSet(table["pii"])}
HeldPairs(q) == {Pair(e) : e \in sent[q]}

Ledger == INSTANCE TokenLedger WITH
    Holder <- Request,
    issued <- IssuedPairs,
    live   <- LivePairs,
    held   <- [q \in Request |-> HeldPairs(q)]

(* A token is issued once and for one value although its index is given     *)
(* again, a response-side token is never put back, an evicted token never   *)
(* comes back, and a body carries only tokens that were live when it was    *)
(* redacted (register, _pii_restore, the redaction of a body).              *)
ImplementsLedger == Ledger!Spec
==============================================================================
