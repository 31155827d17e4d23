----------------------------- MODULE LlmStream -----------------------------
(***************************************************************************)
(* One LLM request from the connection to the upstream to the record of    *)
(* how it ended (_llm.py, _llm_proxy_handler): the attempts to connect,    *)
(* then a whole answer or one of the chains that stream it.                *)
(***************************************************************************)
EXTENDS ChatStream, EventStream, FastStream

Next ==
    \/ ConnectFails \/ Connected
    \/ WholeRefused \/ WholePassed \/ WholeCall
    \/ ChatNext \/ EventNext \/ FastNext
    \/ UpstreamCloses \/ UpstreamBreaks \/ ClientLeaves

Spec == Init /\ [][Next]_vars

----------------------------------------------------------------------------

TextKinds == {"w", "n", "d", "a", "b", "S"}

(* The positions of the text in what the client received; the number of an  *)
(* atom is the order the upstream sent it in.                               *)
TextAt(items) == {k \in DOMAIN items : items[k][1] \in TextKinds}

(* The client reads the text in the order the upstream sent it, no piece of *)
(* it twice, and never the first half of a token the proxy put into the     *)
(* request (_split_safe_hold, _strip_partials), whatever the line buffer    *)
(* held back and whenever it was flushed.                                   *)
TextInOrder ==
    \A k \in TextAt(out) :
        /\ out[k][1] # "a"
        /\ \A j \in TextAt(out) : j < k => out[j][2] < out[k][2]

(* A line with arguments no audit let through.                              *)
Unaudited(item) == item[1] \in {"call", "full"} /\ item[2] \notin passed

(* On a streamed answer of an audited endpoint, arguments of a tool call     *)
(* reach the client without a verdict, or against it, in three ways only.   *)
(* The [DONE] of a gateway on a stream of another protocol flushes what was *)
(* not audited (_llm.py:3894, 3924); the lines that repeat the arguments of  *)
(* a Responses call are written behind the refusal of a call (2766); and    *)
(* the event that ends a Responses answer repeats a call that never ended   *)
(* (4022).  No released hold, no flush of a broken stream and nothing on a  *)
(* chat stream is a fourth.  (A whole body passes if its audit raises.)     *)
OnlyAuditedCalls ==
    dialog /\ audit /\ chain # "whole" =>
        \A k \in DOMAIN out : Unaudited(out[k]) =>
            \/ /\ out[k][1] = "call" /\ chain \in Events
               /\ \E j \in DOMAIN out : k < j /\ out[j] = Done
            \/ /\ out[k][1] = "full"
               /\ \/ \E j \in DOMAIN out : j < k /\ out[j] = Block
                  \/ \E j \in DOMAIN out : k < j /\ out[j] = Finish

(* What ends the answer for the client: the upstream's terminals.  A refusal *)
(* and response.failed, which the proxy makes up, end it too.               *)
Terminals == {Finish, Done}

(* The upstream's terminals are never made up.                              *)
EndsWereSent == \A k \in DOMAIN out : out[k] \in Terminals => ended # "no"

(* On the slow chains all the text but token halves comes before them.      *)
EndsFollowText ==
    \A k \in DOMAIN out : out[k] \in Terminals /\ chain \in Slow =>
        \A i \in DOMAIN text : text[i] \in {"w", "n"} =>
            \E j \in TextAt(out) : j < k /\ out[j][2] = i

(* On the slow chains nothing follows [DONE] but, on a stream of another     *)
(* protocol, the refusal of a call that was held or not finished.           *)
DoneIsFinal ==
    \A j, k \in DOMAIN out : k < j /\ out[k] = Done /\ chain \in Slow =>
        chain \in Events /\ out[j] = Block

(* An answer is not reported as failed after the client saw it end.         *)
FailedIsUnended == \A j, k \in DOMAIN out : out[k] = Failed => out[j] \notin Terminals

(* A refusal is about a call, or is all there is of the answer.             *)
BlockHasCause == \A k \in DOMAIN out : out[k] = Block => parts > 0 \/ out = <<Block>>

(* The ends the client sees are not made up: the upstream's own terminals   *)
(* and [DONE] (_llm.py:3853-3946, 4022, 6226-6238), response.failed          *)
(* (6106-6200) and refusals (1889-1971), which are written as terminals in  *)
(* the middle of a stream and do not stop it.                               *)
EndIsHonest == EndsWereSent /\ EndsFollowText /\ DoneIsFinal /\ FailedIsUnended /\ BlockHasCause

(* A dialog the upstream answered with status 200, and which was ended      *)
(* properly for a client still there, has written something: an answer, a   *)
(* refusal or an error.                                                     *)
NeverSilent ==
    pc = "closed" /\ counted = "status" /\ ok /\ ~gone => out # <<>>

(* What the design says of a refused call (_llm.py:5045, "after a rejection *)
(* the tool call is not sent to the client"): a streamed line has no         *)
(* arguments of it.                                                         *)
RefusedStaysOut ==
    dialog /\ audit /\ chain # "whole" => \A k \in DOMAIN out : ~Unaudited(out[k])

(* Every chain, the fast one included, writes [DONE] last: the comment in   *)
(* the fast chain's treatment of CR lines says why ("the SDK ends the       *)
(* stream at the terminal, later content is all lost").                     *)
DoneIsLast ==
    \A k \in DOMAIN out : out[k] = Done => \A j \in DOMAIN out : out[j][1] \in TextKinds => j < k
============================================================================
