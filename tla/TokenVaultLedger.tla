--------------------------- MODULE TokenVaultLedger ---------------------------
(* The credential tokens keep the promise of TokenLedger.                  *)
EXTENDS TokenVault

(* A dict of tokens as the set of its items.                                *)
Items(t2p) == {p \in Token \X Secret : t2p[p[1]] = p[2]}

(* What a request can put back: the copy it took, then what is left of it.  *)
HeldBy(q) == IF phase[q] = "stream" THEN Items(activeT2P[q]) ELSE Items(snapT2P[q])

Ledger == INSTANCE TokenLedger WITH
    Value  <- Secret,
    Holder <- Request,
    live   <- Items(tokenToPwd),
    held   <- [q \in Request |-> HeldBy(q)]

(* Through evictions, `forget secrets`, snapshots and redactions, a token   *)
(* is issued once and for one secret, one that was dropped never comes back *)
(* to the vault, and a request holds only what was live when it took its    *)
(* copy (_register_secret, on_text, the snapshot of the LLM handler).       *)
ImplementsLedger == Ledger!Spec
==============================================================================
