----------------------------- MODULE StreamBase -----------------------------
(***************************************************************************)
(* What the ways of answering one LLM request (_llm.py) have in common:    *)
(* the state of the request's handler, the line buffer that keeps a token  *)
(* whole, the connection to the upstream, and the end of the stream.       *)
(*                                                                         *)
(* The text of an answer is a sequence of atoms, numbered as the upstream  *)
(* sent them: "w" a word, "n" a newline, "a" and "b" the halves of a token *)
(* of this request, "d" text that looks like the beginning of a value      *)
(* (digits).  The arguments of tool calls are numbered fragments.  The     *)
(* client receives a sequence of items <<kind, number>>; "S" is a restored *)
(* token, "call" a fragment, "full" a fragment as part of the complete     *)
(* arguments that some lines of the Responses API repeat.                  *)
(***************************************************************************)
EXTENDS Naturals, Sequences, FiniteSets, SequencesExt

CONSTANTS
    MaxRetries,     \* MAX_UPSTREAM_RETRIES
    FlushAt,        \* LINE_BUF_FLUSH, in atoms
    MaxText,        \* bound: atoms the upstream sends
    MaxParts,       \* bound: argument fragments the upstream sends
    MaxOther,       \* bound: events without text
    MaxSent         \* bound: all of these together

ASSUME StreamAssumption ==
    /\ MaxRetries \in Nat \ {0}
    /\ {FlushAt, MaxText, MaxParts, MaxOther, MaxSent} \subseteq Nat

VARIABLES
    pc,             \* "connect", "stream", the stages of the end, or "closed"
    chain,          \* which code treats the answer
    ok,             \* upstream_resp.status == 200
    dialog,         \* is_dialog_tail: a chat endpoint
    audit,          \* audit_enabled()
    tries,          \* failed connection attempts
    text,           \* what the upstream has sent, atom by atom
    parts,          \* argument fragments the upstream has sent
    start,          \* of these, the ones before the current or last call
    others,         \* events without text the upstream has sent
    calling,        \* is the upstream inside a tool call
    ended,          \* the terminal the upstream has sent: "no", "finish" or "done"
    buf,            \* content_buf (fast_line_buf)
    args,           \* tool_calls_buf, or arg_buf: numbers of the fragments it holds
    holding,        \* _audit_hold_active
    hold,           \* _audit_hold_buf
    audited,        \* tool_calls_audited
    blocked,        \* tool_calls_blocked
    seenEnd,        \* seen_global_terminal
    doneSent,       \* _done_sent
    out,            \* what the client has received
    gone,           \* has the client left
    counted,        \* what incr_event recorded: "no", "status" or "exception"
    passed          \* history: fragments an audit has let through

upVars    == <<text, parts, start, others, calling, ended>>
callVars  == <<args, holding, hold, audited, blocked, passed>>
endVars   == <<seenEnd, doneSent>>
fixedVars == <<chain, ok, dialog, audit, tries>>
vars      == <<pc, fixedVars, upVars, buf, callVars, endVars, out, gone, counted>>

Slow   == {"chat", "anthropic", "responses"}
Events == {"anthropic", "responses"}
Chains == Slow \cup {"none", "fast", "whole"}

(* A refusal.  It ends the answer for the client (finish_reason "stop",     *)
(* end_turn, response.completed), although the stream may go on behind it.  *)
Block  == <<"block", 0>>
Other  == <<"other", 0>>
Finish == <<"finish", 0>>
Done   == <<"done", 0>>
Failed == <<"failed", 0>>
Stop   == <<"stop", 0>>
Call(k) == <<"call", k>>
Full(k) == <<"full", k>>

----------------------------------------------------------------------------
(* The line buffer                                                         *)

Opens(q, i)  == i \in DOMAIN q /\ i + 1 \in DOMAIN q
                    /\ q[i][1] = "a" /\ q[i + 1][1] = "b"
Closes(q, i) == Opens(q, i - 1)

(* Variant: nothing is stripped.                                            *)
KeptRaw(q) == {i \in DOMAIN q : ~Closes(q, i)}

(* _strip_partials drops a half that stayed alone.                          *)
Kept(q) == {i \in DOMAIN q : ~Closes(q, i) /\ (q[i][1] = "a" => Opens(q, i))}

(* A finite set of numbers as an increasing sequence.                       *)
Increasing(S) ==
    CHOOSE f \in [1..Cardinality(S) -> S] : \A i, j \in 1..Cardinality(S) : i < j => f[i] < f[j]

(* _pii_response_process, then _strip_partials: what is sent for q.         *)
Emit(q) ==
    LET kept == Increasing(Kept(q)) IN
    [k \in DOMAIN kept |->
        <<IF Opens(q, kept[k]) THEN "S" ELSE q[kept[k]][1], q[kept[k]][2]>>]

(* _has_partial_pii_candidate                                              *)
Candidate(q) == q # <<>> /\ Last(q)[1] \in {"a", "d"}

(* _split_safe_hold: where the part to hold back begins.  A value's head is *)
(* held only if asked for and if restoring changed nothing in the text.     *)
HoldFrom(q, valueTail) ==
    LET heads == {i \in DOMAIN q : \A j \in i..Len(q) : q[j][1] = "d"} IN
    IF q # <<>> /\ Last(q)[1] = "a" THEN Len(q)
    ELSE IF valueTail /\ heads # {} /\ ~\E i \in DOMAIN q : Opens(q, i)
    THEN Min(heads)
    ELSE Len(q) + 1

(* How much of the buffer is sent after text was added: whole lines always, *)
(* and of the rest, if it is long or may end inside a value, what lies      *)
(* before that value.                                                       *)
Ready(q) ==
    LET lines == Max({0} \cup {i \in DOMAIN q : q[i][1] = "n"})
        rest  == SubSeq(q, lines + 1, Len(q)) IN
    IF Len(rest) > FlushAt \/ Candidate(rest)
    THEN lines + HoldFrom(rest, TRUE) - 1
    ELSE lines

(* Emit line by line: a restored token never spans a line end.              *)
Sent(q) == Emit(SubSeq(q, 1, Ready(q)))
Left(q) == SubSeq(q, Ready(q) + 1, Len(q))

(* A write: nothing reaches a client that has left.                         *)
Write(items) == out' = IF gone THEN out ELSE out \o items

(* Variant: the events are counted, not what was written.                   *)
RefusalIfNoEvents(items) ==
    IF text = <<>> /\ parts + others = 0 THEN Append(items, Block) ELSE items

(* The guard against an empty answer: what is written at the very end, and   *)
(* a refusal if that leaves the client with nothing of a successful answer. *)
RefusalIfSilent(items) == IF out \o items = <<>> /\ ok THEN <<Block>> ELSE items

(* Nothing ended the answer: half a line is left, or something was written.  *)
Truncated(torn, written) == ~seenEnd /\ (torn \/ written # <<>>)

Items(q) == [k \in DOMAIN q |-> Call(q[k])]

(* The arguments a line repeats: all fragments after the first n.           *)
Arguments(n) == [k \in 1..(parts - n) |-> Full(n + k)]

----------------------------------------------------------------------------
(* What the upstream sends, in an order its protocol allows                 *)

Atoms   == {"w", "n", "d", "a"}
Symbols == Atoms \cup {"b"}

(* A "b" only comes right after its "a"; the fast chain has no tokens to    *)
(* restore.                                                                 *)
Follows(x) == IF x = "a" THEN {"b"} ELSE Atoms \ (IF chain = "fast" THEN {"a"} ELSE {})

(* The text of the next event of a stream: one or two atoms.                *)
Texts ==
    LET last  == IF text = <<>> THEN "n" ELSE Last(text)
        pairs == {p \in Symbols \X Symbols : p[1] \in Follows(last) /\ p[2] \in Follows(p[1])} IN
    IF pc = "stream" /\ ended = "no" THEN {<<x>> : x \in Follows(last)} \cup pairs ELSE {}

(* Room for n more of them.                                                 *)
Room(n) == Len(text) + parts + others + n <= MaxSent

UpText(t, fin) ==
    /\ ended = "no"
    /\ Len(text) + Len(t) <= MaxText /\ Room(Len(t))
    /\ text' = text \o t
    /\ ended' = IF fin THEN "finish" ELSE ended
    /\ calling' = (calling /\ ~fin)
    /\ UNCHANGED <<parts, start, others>>

(* The atoms of t as they enter the buffer.                                 *)
New(t) == [k \in DOMAIN t |-> <<t[k], Len(text) + k>>]

UpPart ==
    /\ ended = "no"
    /\ parts < MaxParts /\ Room(1)
    /\ parts' = parts + 1
    /\ start' = IF calling THEN start ELSE parts
    /\ calling' = TRUE
    /\ UNCHANGED <<text, others, ended>>

UpOther ==
    /\ ended # "done"
    /\ others < MaxOther /\ Room(1)
    /\ others' = others + 1
    /\ UNCHANGED <<text, parts, start, calling, ended>>

UpEnd(kind) ==
    /\ ended \in {"no", "finish"} \ {kind}
    /\ ended' = kind
    /\ calling' = FALSE
    /\ UNCHANGED <<text, parts, start, others>>

----------------------------------------------------------------------------
(* The request                                                             *)

Init ==
    /\ pc = "connect"
    /\ chain = "none" /\ ok = FALSE
    /\ dialog \in BOOLEAN
    /\ audit \in BOOLEAN
    /\ tries = 0
    /\ text = <<>> /\ parts = 0 /\ start = 0 /\ others = 0
    /\ calling = FALSE /\ ended = "no"
    /\ buf = <<>>
    /\ args = <<>> /\ holding = FALSE /\ hold = <<>>
    /\ audited = FALSE /\ blocked = FALSE
    /\ seenEnd = FALSE /\ doneSent = FALSE
    /\ out = <<>> /\ gone = FALSE /\ counted = "no"
    /\ passed = {}

(* The finally block: a chat request is counted, as an exception unless the *)
(* handler had noted a status.                                              *)
Close(status) ==
    /\ pc' = "closed"
    /\ counted' = IF dialog THEN status ELSE "no"

(* The connection fails before an answer began: it is tried again, and the  *)
(* last failure is the client's.                                            *)
ConnectFails ==
    /\ pc = "connect"
    /\ tries' = tries + 1
    /\ IF tries + 1 < MaxRetries THEN UNCHANGED <<pc, counted>> ELSE Close("exception")
    /\ UNCHANGED <<chain, ok, dialog, audit, upVars, buf, callVars, endVars, out, gone>>

(* Headers arrived.  An event stream takes the slow chain if there may be    *)
(* something to restore or to audit, and the fast chain otherwise.           *)
Connected ==
    /\ pc = "connect"
    /\ pc' = "stream"
    /\ \E c \in Chains \ {"none"} :
          /\ c \in Slow => dialog
          /\ c = "fast" => ~dialog \/ ~audit
          /\ chain' = c
    /\ ok' \in BOOLEAN
    /\ tries' = 0
    /\ UNCHANGED <<dialog, audit, upVars, buf, callVars, endVars, out, gone,
                   counted>>

(* An answer that is not a stream, checked, restored and audited as a whole. *)
WholeVars == <<fixedVars, text, start, others, calling, ended, buf, args, holding, hold,
               audited, blocked, endVars, gone>>

Whole == pc = "stream" /\ chain = "whole"

(* A dialog's body that is too large becomes an error, and so does that of a *)
(* successful answer that is empty, no JSON, or empty once what looks like a *)
(* token was taken out.                                                     *)
WholeRefused ==
    /\ Whole /\ dialog
    /\ Write(<<<<"error", 0>>>>)
    /\ Close("status")
    /\ UNCHANGED <<WholeVars, parts, passed>>

(* A body without calls, which may be empty if it is no dialog's or the      *)
(* upstream reported a failure.                                             *)
WholePassed ==
    /\ Whole
    /\ \/ Write(<<Other>>)
       \/ (~dialog \/ ~ok) /\ Write(<<>>)
    /\ Close("status")
    /\ UNCHANGED <<WholeVars, parts, passed>>

(* A body with a call.  A refused one is not offered for approval, and it is *)
(* counted as an exception because no status was noted.  An audit that       *)
(* raises is ignored: the call passes without a verdict.                    *)
WholeCall ==
    /\ Whole /\ dialog
    /\ parts' = 1
    /\ \/ /\ audit
          /\ Write(<<Block>>)
          /\ Close("exception")
          /\ UNCHANGED passed
       \/ /\ passed' = {1}
          /\ Write(<<Call(1)>>)
          /\ Close("status")
       \/ /\ audit
          /\ Write(<<Call(1)>>)
          /\ Close("status")
          /\ UNCHANGED passed
    /\ UNCHANGED WholeVars

(* A write finds the client gone: reading stops and the end is run through. *)
ClientLeaves ==
    /\ ~gone
    /\ pc \in {"stream", "eof", "tail"} /\ chain # "whole"
    /\ gone' = TRUE
    /\ pc' = IF pc = "stream" THEN "eof" ELSE pc
    /\ UNCHANGED <<fixedVars, upVars, buf, callVars, endVars, out, counted>>

(* The upstream closes the stream, or a timeout is taken for a client that   *)
(* left: the end is run through.                                             *)
UpstreamCloses ==
    /\ pc = "stream" /\ chain # "whole"
    /\ pc' = "eof"
    /\ UNCHANGED <<fixedVars, upVars, buf, callVars, endVars, out, gone, counted>>

(* The stream breaks: the handler raises and what it held is lost.           *)
UpstreamBreaks ==
    /\ pc = "stream"
    /\ Close("exception")
    /\ UNCHANGED <<fixedVars, upVars, buf, callVars, endVars, out, gone>>
============================================================================
