------------------------------ MODULE PiiVault ------------------------------
(***************************************************************************)
(* The tokens for personal data: GlobalPiiTokens (_token.py), the redaction *)
(* of a request body leaf by leaf (_pii.py), and the treatment of each line *)
(* of the answer (_llm.py), which first puts request-side values back and   *)
(* then masks what the provider wrote itself, with a one-entry cache.       *)
(*                                                                         *)
(* A leaf of the body holds one value.  A line of the answer is a sequence  *)
(* of values and tokens.  The two dicts of a side hold the same entries in  *)
(* the same order, so a side is one sequence of entries, oldest first.      *)
(* What the detector recognises, the audit of unknown tokens and the case-  *)
(* insensitive matching are left out.                                       *)
(***************************************************************************)
EXTENDS Naturals, Sequences, SequencesExt, FiniteSetsExt

CONSTANTS
    Value,          \* strings the detector recognises
    Request,        \* LLM requests in flight
    MaxEntries,     \* PII_MAX_ENTRIES
    MaxMints,       \* bound on the tokens ever issued
    MaxLeaves,      \* bound on the values of a body
    MaxPieces,      \* bound on the pieces of a line
    MaxLines        \* bound on the lines of all answers

ASSUME PiiAssumption ==
    /\ MaxEntries \in Nat \ {0}
    /\ MaxMints \in Nat
    /\ MaxLeaves \in Nat /\ MaxPieces \in Nat /\ MaxLines \in Nat

Side  == {"pii", "resp"}
(* A token carries an index and eight random digits, taken to be the number *)
(* of the registration that drew them.                                      *)
Token == [idx : 1..MaxMints, rand8 : 1..MaxMints]
Plain(v) == [kind |-> "value", val |-> v]
Tok(t)   == [kind |-> "token", tok |-> t]
Piece == {Plain(v) : v \in Value} \cup {Tok(t) : t \in Token}
Entry == [val : Value, tok : Token]

VARIABLES
    table,      \* per side, the entries of its p2t and t2p, oldest first
    seq,        \* self._seq
    cache,      \* _pii_response_scan_cache: {} or one record
    phase,      \* where each request is
    leaves,     \* the values of the body still to be replaced
    sent,       \* the tokens of the redacted body
    line,       \* the line of the answer being treated, as it arrived
    key,        \* the key under which its result will be cached
    todo,       \* the detected values of that line still to be registered
    found,      \* entries registered for that line
    received,   \* how many lines arrived, for MaxLines
    written,    \* the line this step wrote to a client, with what arrived
    minted,     \* history: the entries of all registrations, in order
    since       \* history: per registration, the values used on the request side
                \* after the last use of its entry

vaultVars   == <<table, seq, minted, since>>
scanVars    == <<line, key, todo, found>>
vars == <<vaultVars, cache, phase, leaves, sent, scanVars, received, written>>

Nothing == [in |-> <<>>, out |-> <<>>]
NoKey   == [seq |-> 0, text |-> <<>>, spans |-> {}]

Init ==
    /\ table = [s \in Side |-> <<>>]
    /\ seq = 0
    /\ cache = {}
    /\ phase = [q \in Request |-> "idle"]
    /\ leaves = [q \in Request |-> <<>>]
    /\ sent = [q \in Request |-> {}]
    /\ line = [q \in Request |-> <<>>]
    /\ key = [q \in Request |-> NoKey]
    /\ todo = [q \in Request |-> {}]
    /\ found = [q \in Request |-> {}]
    /\ received = 0
    /\ written = Nothing
    /\ minted = <<>>
    /\ since = [n \in 1..MaxMints |-> {}]

----------------------------------------------------------------------------
(* GlobalPiiTokens                                                          *)

(* move_to_end of an entry of es                                            *)
ToEnd(es, e) ==
    LET i == CHOOSE i \in DOMAIN es : es[i] = e
    IN Append(RemoveAt(es, i), e)

(* Variant: only the indices of the request side count as used.             *)
UsedOnRequestSide == {e.tok.idx : e \in ToSet(table["pii"])}

(* The indices of the live tokens of both sides.                            *)
Used == UNION {{e.tok.idx : e \in ToSet(table[s])} : s \in Side}

(* The lowest index that is not used; a hole left by an eviction is filled. *)
NextAvailableIndex == Min((1..Cardinality(Used) + 1) \ Used)

(* Variant: one entry too many is kept.                                     *)
EvictedLate(es) == IF Len(es) > MaxEntries + 1 THEN Tail(es) ELSE es

(* popitem(last=False) when the side is over its bound                      *)
Evicted(es) == IF Len(es) > MaxEntries THEN Tail(es) ELSE es

(* The entry register(v) answers with: the live one, or one made from the   *)
(* free index and fresh digits.                                             *)
EntryFor(v, s) ==
    IF \E e \in ToSet(table[s]) : e.val = v
    THEN CHOOSE e \in ToSet(table[s]) : e.val = v
    ELSE [val |-> v, tok |-> [idx |-> NextAvailableIndex, rand8 |-> Len(minted) + 1]]

(* register(v): a known value becomes the newest of its side.               *)
Register(v, s) ==
    LET e == EntryFor(v, s)
        known == e \in ToSet(table[s])
    IN /\ known \/ Len(minted) < MaxMints
       /\ table' = [table EXCEPT ![s] = IF known THEN ToEnd(@, e) ELSE Evicted(Append(@, e))]
       /\ seq' = IF known \/ seq >= e.tok.idx THEN seq ELSE e.tok.idx
       /\ minted' = IF known THEN minted ELSE Append(minted, [entry |-> e, side |-> s])
       /\ since' = IF s = "pii" THEN [n \in 1..MaxMints |-> IF n = e.tok.rand8 THEN {}
                                                            ELSE since[n] \cup {v}]
                               ELSE since

----------------------------------------------------------------------------
(* The request                                                              *)

Arrive(q, body) ==
    /\ phase[q] = "idle"
    /\ phase' = [phase EXCEPT ![q] = "redact"]
    /\ leaves' = [leaves EXCEPT ![q] = body]
    /\ written' = Nothing
    /\ UNCHANGED <<vaultVars, cache, sent, scanVars, received>>

(* One leaf: scan, register, substitute.  Other requests run between leaves;*)
(* after the last one the body is sent.                                     *)
RedactLeaf(q) ==
    /\ phase[q] = "redact"
    /\ LET v == Head(leaves[q])
       IN /\ Register(v, "pii")
          /\ sent' = [sent EXCEPT ![q] = @ \cup {EntryFor(v, "pii")}]
    /\ leaves' = [leaves EXCEPT ![q] = Tail(@)]
    /\ phase' = [phase EXCEPT ![q] = IF leaves'[q] = <<>> THEN "stream" ELSE @]
    /\ written' = Nothing
    /\ UNCHANGED <<cache, scanVars, received>>

----------------------------------------------------------------------------
(* A line of the answer                                                     *)

(* Variant: a token is looked up on both sides.                             *)
PlainOfEither(t) ==
    {e.val : e \in {x \in ToSet(table["pii"]) \cup ToSet(table["resp"]) : x.tok = t}}

(* pii_t2p[t], as a set of at most one value                                *)
PlainOf(t) == {e.val : e \in {x \in ToSet(table["pii"]) : x.tok = t}}

(* The positions of l whose token is put back, restored_spans.              *)
Spans(l) == {i \in DOMAIN l : l[i].kind = "token" /\ PlainOf(l[i].tok) # {}}

(* l after _pii_restore                                                     *)
Restored(l) ==
    [i \in DOMAIN l |-> IF i \in Spans(l)
                        THEN Plain(CHOOSE v \in PlainOf(l[i].tok) : TRUE)
                        ELSE l[i]]

Named(l, t) == \E i \in DOMAIN l : l[i] = Tok(t)

(* l names t after it names u for the last time, if ever.                   *)
NamedAfter(l, t, u) ==
    \E i \in DOMAIN l : l[i] = Tok(t) /\ \A j \in DOMAIN l : j >= i => l[j] # Tok(u)

(* Variant: restoring does not count as use.                                *)
RenewedNot(es, l) == es

(* move_to_end for each token of l in turn: first the entries l does not    *)
(* name, as they stood, then those it names, by their last occurrence.      *)
Renewed(es, l) ==
    CHOOSE new \in [DOMAIN es -> ToSet(es)] : \A i, j \in DOMAIN es : i < j =>
        \/ NamedAfter(l, new[j].tok, new[i].tok)
        \/ /\ ~Named(l, new[i].tok) /\ ~Named(l, new[j].tok)
           /\ \E a, b \in DOMAIN es : a < b /\ new[i] = es[a] /\ new[j] = es[b]

(* The history of use: only what is live on the request side is used.       *)
UsedSince(n, l) ==
    LET live == ToSet(table["pii"])
        uses == {e \in live : \A x \in live : x.tok.rand8 = n => NamedAfter(l, e.tok, x.tok)}
    IN {e.val : e \in {x \in uses : Named(l, x.tok)}}
       \cup (IF \E x \in live : x.tok.rand8 = n /\ Named(l, x.tok) THEN {} ELSE since[n])

(* The values of a text that occur outside the restored spans.              *)
Detected(text, spans) ==
    {v \in Value : \E i \in DOMAIN text \ spans : text[i] = Plain(v)}

(* Variant: the cache is keyed by scope and text alone.                     *)
SameTextAndScope(a, b) == a.seq = b.seq /\ a.text = b.text

(* The comparison of a cached key with the one at hand.                     *)
SameKey(a, b) == a = b

(* _pii_response_process up to its first await.  The key is made before     *)
(* anything is registered.                                                  *)
ReceiveLine(q, l) ==
    /\ phase[q] = "stream"
    /\ received < MaxLines
    /\ received' = received + 1
    /\ table' = [s \in Side |-> Renewed(table[s], l)]
    /\ since' = [n \in 1..MaxMints |-> UsedSince(n, l)]
    /\ LET k == [seq |-> seq, text |-> Restored(l), spans |-> Spans(l)]
           hits == {c \in cache : SameKey(c.key, k)}
       IN \/ /\ hits # {}
             /\ written' = [in |-> l, out |-> (CHOOSE c \in hits : TRUE).result]
             /\ UNCHANGED <<phase, scanVars>>
          \/ /\ hits = {}
             /\ phase' = [phase EXCEPT ![q] = "scan"]
             /\ line' = [line EXCEPT ![q] = l]
             /\ key' = [key EXCEPT ![q] = k]
             /\ todo' = [todo EXCEPT ![q] = Detected(k.text, k.spans)]
             /\ written' = Nothing
             /\ UNCHANGED found
    /\ UNCHANGED <<seq, minted, cache, leaves, sent>>

RegisterFound(q, v) ==
    /\ phase[q] = "scan"
    /\ v \in todo[q]
    /\ Register(v, "resp")
    /\ todo' = [todo EXCEPT ![q] = @ \ {v}]
    /\ found' = [found EXCEPT ![q] = @ \cup {EntryFor(v, "resp")}]
    /\ written' = Nothing
    /\ UNCHANGED <<cache, phase, leaves, sent, line, key, received>>

(* Occurrences outside the restored spans become response-side tokens.      *)
Masked(text, spans, entries) ==
    [i \in DOMAIN text |->
        LET es == {e \in entries : i \notin spans /\ text[i] = Plain(e.val)}
        IN IF es = {} THEN text[i] ELSE Tok((CHOOSE e \in es : TRUE).tok)]

WriteLine(q) ==
    /\ phase[q] = "scan"
    /\ todo[q] = {}
    /\ LET result == Masked(key[q].text, key[q].spans, found[q])
       IN /\ cache' = {[key |-> key[q], result |-> result]}
          /\ written' = [in |-> line[q], out |-> result]
    /\ phase' = [phase EXCEPT ![q] = "stream"]
    /\ line' = [line EXCEPT ![q] = <<>>]
    /\ key' = [key EXCEPT ![q] = NoKey]
    /\ found' = [found EXCEPT ![q] = {}]
    /\ UNCHANGED <<vaultVars, leaves, sent, todo, received>>

(* The handler returns or is cancelled at an await; _pii_cleanup keeps the  *)
(* vault.                                                                   *)
End(q) ==
    /\ phase[q] \notin {"idle", "done"}
    /\ phase' = [phase EXCEPT ![q] = "done"]
    /\ leaves' = [leaves EXCEPT ![q] = <<>>]
    /\ sent' = [sent EXCEPT ![q] = {}]
    /\ line' = [line EXCEPT ![q] = <<>>]
    /\ key' = [key EXCEPT ![q] = NoKey]
    /\ todo' = [todo EXCEPT ![q] = {}]
    /\ found' = [found EXCEPT ![q] = {}]
    /\ written' = Nothing
    /\ UNCHANGED <<vaultVars, cache, received>>

----------------------------------------------------------------------------
(* What the provider may write: any value and any token ever issued.        *)
Writable == {Plain(v) : v \in Value} \cup {Tok(m.entry.tok) : m \in ToSet(minted)}

Bodies == UNION {[1..n -> Value] : n \in 1..MaxLeaves}
Lines  == UNION {[1..n -> Writable] : n \in 1..MaxPieces}

Next ==
    \E q \in Request :
        \/ \E body \in Bodies : Arrive(q, body)
        \/ RedactLeaf(q) \/ WriteLine(q) \/ End(q)
        \/ phase[q] = "stream" /\ \E l \in Lines : ReceiveLine(q, l)
        \/ \E v \in Value : RegisterFound(q, v)

Spec == Init /\ [][Next]_vars

----------------------------------------------------------------------------
(* Properties                                                               *)

Key == [seq : Nat, text : Seq(Piece), spans : SUBSET (1..MaxPieces)]

(* Every variable has its type, and no side outgrows PII_MAX_ENTRIES.       *)
TypeOK ==
    /\ \A s \in Side : table[s] \in Seq(Entry) /\ Len(table[s]) <= MaxEntries
    /\ seq \in 0..MaxMints
    /\ \A c \in cache : c.key \in Key /\ c.result \in Seq(Piece)
    /\ phase \in [Request -> {"idle", "redact", "stream", "scan", "done"}]
    /\ leaves \in [Request -> Seq(Value)]
    /\ sent \in [Request -> SUBSET Entry]
    /\ line \in [Request -> Seq(Piece)]
    /\ key \in [Request -> Key]
    /\ todo \in [Request -> SUBSET Value]
    /\ found \in [Request -> SUBSET Entry]
    /\ received \in 0..MaxLines
    /\ written.in \in Seq(Piece) /\ written.out \in Seq(Piece)
    /\ \A i \in DOMAIN minted : minted[i].entry \in Entry /\ minted[i].side \in Side
    /\ since \in [1..MaxMints -> SUBSET Value]

(* The live tokens of both sides have different indices, although holes are *)
(* filled and the sides evict independently (register's lock covers the     *)
(* choice of the index and the insertion).                                  *)
LiveIndicesDistinct ==
    \A s, r \in Side : \A i \in DOMAIN table[s], j \in DOMAIN table[r] :
        table[s][i].tok.idx = table[r][j].tok.idx => s = r /\ i = j

(* A value in the clear reaches the client only where the provider echoed a *)
(* token: what the provider wrote itself is masked, even next to a restored *)
(* occurrence of the same value and even when the result comes from the     *)
(* cache another stream filled.                                             *)
MaskedUnlessRestored ==
    \A i \in DOMAIN written.out :
        written.out[i].kind = "value" => written.in[i].kind = "token"

(* What stands where a token stood is that token or the value it was issued *)
(* for, whether or not its index has been given to another value since, and *)
(* a response-side token is never put back.                                 *)
EchoIsFaithful ==
    \A i \in DOMAIN written.out : written.in[i].kind = "token" =>
        \/ written.out[i] = written.in[i]
        \/ \E m \in ToSet(minted) : /\ m.side = "pii"
                                    /\ m.entry.tok = written.in[i].tok
                                    /\ written.out[i] = Plain(m.entry.val)

(* A running request's token can be put back unless MaxEntries other values *)
(* were used after its last use: restoring it in a stream counts as use.    *)
StreamKeepsItsTokens ==
    \A q \in Request : \A e \in sent[q] :
        \/ e \in ToSet(table["pii"])
        \/ Cardinality(since[e.tok.rand8] \ {e.val}) >= MaxEntries
=============================================================================
