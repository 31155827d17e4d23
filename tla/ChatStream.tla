----------------------------- MODULE ChatStream -----------------------------
(***************************************************************************)
(* A streamed answer of the chat completions API (_llm.py, slow chain).    *)
(* Text waits in the line buffer; the fragments of tool calls wait until   *)
(* the call is complete and audited, and are then written as one event or  *)
(* replaced by a refusal.  A refusal may follow minutes of waiting for a   *)
(* person, during which nothing else of this request runs.                 *)
(***************************************************************************)
EXTENDS StreamBase

Chat == pc = "stream" /\ chain = "chat" /\ ~gone

(* _audit_openai_tool_calls on what was accumulated, and what is then       *)
(* written.                                                                *)
Audit(written) ==
    /\ audited' = TRUE
    /\ args' = <<>>
    /\ \/ /\ audit
          /\ blocked' = TRUE
          /\ written = <<Block>>
          /\ UNCHANGED passed
       \/ /\ passed' = passed \cup Range(args)
          /\ written = Items(args)
          /\ UNCHANGED blocked

(* Variant: without a finish_reason the calls are written as they are.      *)
AuditIfFinished(due, written) ==
    IF due /\ args # <<>> /\ ~audited /\ ended' # "done" THEN Audit(written)
    ELSE /\ written = (IF due /\ ~audited THEN Items(args) ELSE <<>>)
         /\ args' = (IF due /\ ~audited THEN <<>> ELSE args)
         /\ UNCHANGED <<audited, blocked, passed>>

(* Calls are audited once.                                                 *)
AuditIf(due, written) ==
    IF due /\ args # <<>> /\ ~audited THEN Audit(written)
    ELSE /\ written = <<>>
         /\ UNCHANGED <<args, audited, blocked, passed>>

Writings == {<<>>, <<Block>>, Items(args)}

(* A delta with text, perhaps also the finish_reason "stop": the rest of    *)
(* the buffer then goes out with it.                                        *)
ChatText(t, fin) ==
    /\ Chat /\ UpText(t, fin)
    /\ LET q == buf \o New(t) IN
       IF fin
       THEN /\ Write(Sent(q) \o Emit(Left(q)) \o <<Finish>>)
            /\ buf' = <<>>
            /\ seenEnd' = TRUE
       ELSE /\ Write(Sent(q))
            /\ buf' = Left(q)
            /\ UNCHANGED seenEnd
    /\ UNCHANGED <<pc, fixedVars, callVars, doneSent, gone, counted>>

(* A delta with a fragment of a tool call.  Too much of it (over:           *)
(* SSE_MAX_BUF): what was accumulated is dropped and refused, and so is the *)
(* rest of the call.                                                        *)
ChatPart(over) ==
    /\ Chat /\ UpPart
    /\ IF over
       THEN /\ args # <<>>
            /\ args' = <<>> /\ blocked' = TRUE /\ audited' = TRUE
            /\ Write(<<Block>> \o Emit(buf))
            /\ buf' = <<>>
       ELSE /\ args' = Append(args, parts')
            /\ UNCHANGED <<buf, blocked, audited, out>>
    /\ UNCHANGED <<pc, fixedVars, holding, hold, passed, endVars, gone, counted>>

(* An event without text (role, usage): the buffer goes out before it.      *)
ChatOther ==
    /\ Chat /\ UpOther
    /\ Write(Emit(buf) \o <<Other>>)
    /\ buf' = <<>>
    /\ UNCHANGED <<pc, fixedVars, callVars, endVars, gone, counted>>

(* A finish_reason without text.  "tool_calls" has the accumulated calls    *)
(* audited; once a call of this answer was refused the reason is dropped.   *)
ChatFinish(kind) ==
    /\ Chat /\ UpEnd("finish")
    /\ seenEnd' = TRUE
    /\ \E written \in Writings :
          /\ AuditIf(kind = "tool_calls", written)
          /\ IF blocked' /\ kind = "tool_calls"
             THEN /\ Write(written)
                  /\ UNCHANGED buf
             ELSE /\ Write(written \o Emit(buf) \o <<Finish>>)
                  /\ buf' = <<>>
    /\ UNCHANGED <<pc, fixedVars, holding, hold, doneSent, gone, counted>>

(* [DONE] on a chat stream (on the others it is EventGatewayDone): calls no   *)
(* finish_reason had audited are audited now.                               *)
ChatDone ==
    /\ Chat /\ UpEnd("done")
    /\ \E written \in Writings :
          /\ AuditIf(TRUE, written)
          /\ Write(written \o Emit(buf) \o <<Done>>)
    /\ buf' = <<>>
    /\ seenEnd' = TRUE /\ doneSent' = TRUE
    /\ UNCHANGED <<pc, fixedVars, holding, hold, gone, counted>>

----------------------------------------------------------------------------
(* The end of the stream: calls that were not audited are audited, which    *)
(* may take its time, then the rest of the buffer and the terminal follow.  *)

ChatEof ==
    /\ pc = "eof" /\ chain = "chat"
    /\ pc' = "tail"
    /\ \E written \in Writings : AuditIf(audit, written) /\ Write(written)
    /\ UNCHANGED <<fixedVars, upVars, buf, holding, hold, endVars, gone, counted>>

(* Variant: every answer is ended.                                          *)
LacksDoneAlways == ~doneSent

(* A finished answer gets the [DONE] its upstream left out, a truncated one  *)
(* gets no terminal.                                                        *)
LacksDone == seenEnd /\ ~doneSent

ChatTail ==
    /\ pc = "tail" /\ chain = "chat"
    /\ Write(RefusalIfSilent(Emit(buf) \o IF LacksDone THEN <<Done>> ELSE <<>>))
    /\ doneSent' = (doneSent \/ (LacksDone /\ ~gone))
    /\ Close(IF LacksDone /\ gone THEN "exception" ELSE "status")
    /\ buf' = <<>>
    /\ UNCHANGED <<fixedVars, upVars, callVars, seenEnd, gone>>

ChatNext ==
    \/ \E t \in Texts, fin \in BOOLEAN : ChatText(t, fin)
    \/ \E over \in BOOLEAN : ChatPart(over)
    \/ ChatOther
    \/ \E kind \in {"stop", "tool_calls"} : ChatFinish(kind)
    \/ ChatDone
    \/ ChatEof \/ ChatTail
============================================================================
