---------------------------- MODULE EventStream ----------------------------
(***************************************************************************)
(* A streamed answer of the Anthropic Messages or the OpenAI Responses API *)
(* (_llm.py, slow chain).  A tool call ends with an event of its own; the  *)
(* fragments wait for it.  When a quick look at an unfinished call finds   *)
(* something suspicious, every further event is held back as it came until *)
(* the call is complete, and then released or dropped as a whole.          *)
(*                                                                         *)
(* On the Responses API every event whose type ends in .done ends an item: *)
(* a call has two (function_call_arguments.done, output_item.done), and    *)
(* each repeats the complete arguments, as does the event that ends the    *)
(* answer.  The repetitions are written as they came.  (So are those of    *)
(* the text, which are no part of the model's text.)                       *)
(***************************************************************************)
EXTENDS StreamBase

Event == pc = "stream" /\ chain \in Events /\ ~gone

(* The text that goes out when another event passes: what cannot be the      *)
(* beginning of a token.                                                    *)
Before == Emit(SubSeq(buf, 1, HoldFrom(buf, FALSE) - 1))
Behind == SubSeq(buf, HoldFrom(buf, FALSE), Len(buf))

EventText(t) ==
    /\ Event /\ ~calling /\ UpText(t, FALSE)
    /\ Write(Sent(buf \o New(t)))
    /\ buf' = Left(buf \o New(t))
    /\ UNCHANGED <<pc, fixedVars, callVars, endVars, gone, counted>>

(* Another event of the protocol.  One that opens an Anthropic block or ends *)
(* a text item passes at once; before any other, the text that needs not     *)
(* wait goes out.                                                           *)
EventPass ==
    /\ Event /\ ~holding /\ UpOther
    /\ \/ /\ chain = "anthropic" \/ ~calling
          /\ Write(<<Other>>)
          /\ UNCHANGED buf
       \/ /\ Write(Before \o <<Other>>)
          /\ buf' = Behind
    /\ UNCHANGED <<pc, fixedVars, callVars, endVars, gone, counted>>

(* An event outside the blocks (message_delta, ping): everything is flushed *)
(* before it, and it passes even a hold.                                    *)
EventOther ==
    /\ Event /\ chain = "anthropic" /\ UpOther
    /\ Write(Emit(buf) \o <<Other>>)
    /\ buf' = <<>>
    /\ UNCHANGED <<pc, fixedVars, callVars, endVars, gone, counted>>

(* _reject_anthropic_hold, _reject_responses_hold                          *)
RejectHold ==
    /\ Write(<<Block>>)
    /\ holding' = FALSE /\ hold' = <<>>

(* A fragment of a call while nothing is held.  audit_precheck may find it  *)
(* suspicious; too long a call (over: SSE_MAX_BUF) is dropped and refused.  *)
EventPart(over) ==
    /\ Event /\ ~holding /\ UpPart
    /\ IF over
       THEN /\ args # <<>>
            /\ args' = <<>>
            /\ Write(<<Block>>)
            /\ UNCHANGED <<holding, hold>>
       ELSE /\ args' = Append(args, parts')
            /\ \/ UNCHANGED <<holding, hold>>
               \/ audit /\ holding' = TRUE /\ hold' = <<Call(parts')>>
            /\ UNCHANGED out
    /\ UNCHANGED <<pc, fixedVars, buf, audited, blocked, passed, endVars, gone, counted>>

(* An event while events are held: it joins them, or it makes them too many *)
(* (audit_hold_max_bytes) and they are all dropped and refused.             *)
Hold(items) ==
    \/ RejectHold
    \/ /\ hold' = hold \o items
       /\ UNCHANGED <<holding, out>>

HeldPart ==
    /\ Event /\ holding /\ UpPart
    /\ args' = Append(args, parts')
    /\ Hold(<<Call(parts')>>)
    /\ UNCHANGED <<pc, fixedVars, buf, audited, blocked, passed, endVars, gone, counted>>

HeldOther ==
    /\ Event /\ holding /\ UpOther
    /\ Hold(<<Other>>)
    /\ UNCHANGED <<pc, fixedVars, buf, args, audited, blocked, passed, endVars, gone,
                   counted>>

CallEnds ==
    /\ ended = "no" /\ calling
    /\ calling' = FALSE
    /\ UNCHANGED <<text, parts, start, others, ended>>

(* The second .done of a Responses call.                                    *)
CallEndsAgain == chain = "responses" /\ ended = "no" /\ ~calling /\ start < parts /\ UpOther

StopLine == (IF chain = "responses" THEN Arguments(start) ELSE <<>>) \o <<Stop>>

(* The audit of a finished call, after a person's answer where one is asked *)
(* for.                                                                    *)
Allowed == passed' = passed \cup Range(args)
Denied  == audit /\ UNCHANGED passed

(* The call is complete (content_block_stop, a .done of the Responses API). *)
(* What was accumulated is audited, if there is anything; the line itself is *)
(* written whatever the verdict.                                            *)
EventStop ==
    /\ Event /\ ~holding /\ (CallEnds \/ CallEndsAgain)
    /\ \/ Allowed /\ Write(Items(args) \o StopLine)
       \/ args # <<>> /\ Denied /\ Write(<<Block>> \o StopLine)
    /\ args' = <<>>
    /\ UNCHANGED <<pc, fixedVars, buf, holding, hold, audited, blocked, endVars, gone,
                   counted>>

(* _release_hold after the audit allowed the call.                          *)
Release == Allowed /\ Write(hold \o StopLine) /\ holding' = FALSE /\ hold' = <<>>

(* _resolve_anthropic_hold, _resolve_responses_hold                        *)
HeldStop ==
    /\ Event /\ holding /\ CallEnds
    /\ Release \/ (Denied /\ RejectHold)
    /\ args' = <<>>
    /\ UNCHANGED <<pc, fixedVars, buf, audited, blocked, endVars, gone, counted>>

(* message_stop: everything is flushed before it, and it passes even a hold; *)
(* response.completed and its like, which repeat all calls of the answer:    *)
(* they are held with the other events.  The answer counts as ended either   *)
(* way, and a call that is still open stays for the end of the stream.       *)
EventFinish ==
    /\ Event /\ UpEnd("finish")
    /\ \/ /\ chain = "anthropic"
          /\ Write(Emit(buf) \o <<Finish>>)
          /\ buf' = <<>>
          /\ UNCHANGED <<holding, hold>>
       \/ /\ chain = "responses" /\ ~holding
          /\ Write(Before \o Arguments(0) \o <<Finish>>)
          /\ buf' = Behind
          /\ UNCHANGED <<holding, hold>>
       \/ /\ chain = "responses" /\ holding
          /\ Hold(Arguments(0) \o <<Finish>>)
          /\ UNCHANGED buf
    /\ seenEnd' = TRUE
    /\ UNCHANGED <<pc, fixedVars, args, audited, blocked, passed, doneSent, gone, counted>>

(* The [DONE] some gateways send on these streams too: text and arguments    *)
(* are flushed, the arguments without an audit and whatever is held.  Of the *)
(* last fragment the head of a token may stay behind.                       *)
EventGatewayDone ==
    /\ Event /\ UpEnd("done")
    /\ Write(Before \o Items(args) \o <<Done>>)
    /\ buf' = Behind
    /\ args' \in {<<>>} \cup {<<k>> : k \in Range(args) \cap {parts}}
    /\ seenEnd' = TRUE /\ doneSent' = TRUE
    /\ UNCHANGED <<pc, fixedVars, holding, hold, audited, blocked, passed, gone, counted>>

(* LINE_BUF_MAX_AGE: before an event is handled, text that waited too long  *)
(* goes out.  Only events that are not of the Responses API look at it.     *)
EventAges ==
    /\ Event /\ chain = "anthropic" /\ buf # <<>>
    /\ Write(Emit(buf))
    /\ buf' = <<>>
    /\ UNCHANGED <<pc, fixedVars, upVars, callVars, endVars, gone, counted>>

----------------------------------------------------------------------------
(* The end of the stream: the audit of a call that was not finished (one    *)
(* that is flagged is refused even if a person approves it), the rest of    *)
(* the buffers, then the terminal and a hold that is still open.            *)

EventEof ==
    /\ pc = "eof" /\ chain \in Events
    /\ pc' = "tail"
    /\ \/ /\ Allowed
          /\ UNCHANGED <<args, out>>
       \/ /\ args # <<>> /\ Denied
          /\ args' = <<>>
          /\ Write(<<Block>>)
    /\ UNCHANGED <<fixedVars, upVars, buf, holding, hold, audited, blocked, endVars, gone,
                   counted>>

(* What the buffers still hold; an unfinished call that passed is among it.  *)
(* (After [DONE] it is the head of a token, and stripped.)                   *)
Residue == Emit(buf) \o (IF doneSent THEN <<>> ELSE Items(args))

(* A truncated Responses answer ends with response.failed, an Anthropic one *)
(* stays open.  torn: the last line was incomplete.                         *)
EventTail ==
    /\ pc = "tail" /\ chain \in Events
    /\ \E torn \in BOOLEAN :
          LET fails == chain = "responses" /\ Truncated(torn, out \o Residue) IN
          Write(RefusalIfSilent(
              Residue \o (IF fails THEN <<Failed>> ELSE <<>>)
                  \o (IF holding THEN <<Block>> ELSE <<>>)))
    /\ buf' = <<>> /\ args' = <<>> /\ holding' = FALSE /\ hold' = <<>>
    /\ Close("status")
    /\ UNCHANGED <<fixedVars, upVars, audited, blocked, passed, endVars, gone>>

EventNext ==
    \/ \E t \in Texts : EventText(t)
    \/ EventPass \/ EventOther \/ EventAges
    \/ \E over \in BOOLEAN : EventPart(over)
    \/ HeldPart \/ HeldOther
    \/ EventStop \/ HeldStop \/ EventFinish \/ EventGatewayDone
    \/ EventEof \/ EventTail
============================================================================
