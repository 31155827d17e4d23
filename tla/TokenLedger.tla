----------------------------- MODULE TokenLedger -----------------------------
(***************************************************************************)
(* What a vault of tokens promises (_token.py), for passwords and personal *)
(* data alike: a token is issued once, for one value; the vault may lose   *)
(* what it can put back at any time, but never puts back anything else; a  *)
(* request keeps what it has taken.                                        *)
(***************************************************************************)

CONSTANTS
    Token,
    Value,
    Holder          \* whoever takes tokens along: requests

VARIABLES
    issued,         \* the pairs <<token, value>> issued so far
    live,           \* those the vault can put back
    held            \* per holder, those it has taken along

Init ==
    /\ issued = {}
    /\ live = {}
    /\ held = [h \in Holder |-> {}]

(* A holder takes what is live, and gives up what it likes.                 *)
Take ==
    /\ held' \in [Holder -> SUBSET (Token \X Value)]
    /\ \A h \in Holder : held'[h] \subseteq held[h] \cup live'

(* A fresh token is issued for v; the vault may put it back, and may lose   *)
(* others for it.                                                           *)
Issue(t, v) ==
    /\ \A p \in issued : p[1] # t
    /\ issued' = issued \cup {<<t, v>>}
    /\ live' \subseteq live \cup {<<t, v>>}
    /\ Take

(* Without a new token, nothing that was lost comes back.                   *)
Lose ==
    /\ UNCHANGED issued
    /\ live' \subseteq live
    /\ Take

Next == Lose \/ \E t \in Token, v \in Value : Issue(t, v)

Spec == Init /\ [][Next]_<<issued, live, held>>
==============================================================================
