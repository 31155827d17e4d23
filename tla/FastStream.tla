----------------------------- MODULE FastStream -----------------------------
(***************************************************************************)
(* A streamed answer in which there is nothing to restore and nothing to   *)
(* audit (_llm.py, fast chain; also every stream that is not a dialog's).  *)
(* Events pass one by one.  Text is still kept back when it is long or may *)
(* end inside a value; an event whose text is all kept back is dropped     *)
(* with whatever else it carried, and the text goes out with a later one.  *)
(***************************************************************************)
EXTENDS StreamBase

Fast == pc = "stream" /\ chain = "fast" /\ ~gone

(* An event passes as it is if the stream is no dialog, or if nothing waits, *)
(* it is short and it cannot be the beginning of a value.                   *)
Passes(t, short) == ~dialog \/ (short /\ buf = <<>> /\ ~Candidate(New(t)))

(* Text of a chat completion, perhaps with a finish_reason.  (Text of the    *)
(* other protocols passes as any other event does.)                         *)
FastText(t, fin, short) ==
    /\ Fast /\ UpText(t, fin)
    /\ LET q   == buf \o New(t)
           end == IF fin THEN <<Finish>> ELSE <<>> IN
       IF Passes(t, short)
       THEN /\ Write(New(t) \o end)
            /\ UNCHANGED buf
       ELSE /\ Write(IF Sent(q) = <<>> THEN <<>> ELSE Sent(q) \o end)
            /\ buf' = Left(q)
    /\ seenEnd' = (seenEnd \/ fin)
    /\ UNCHANGED <<pc, fixedVars, callVars, doneSent, gone, counted>>

FastPart ==
    /\ Fast /\ UpPart
    /\ Write(<<Call(parts')>>)
    /\ UNCHANGED <<pc, fixedVars, buf, callVars, endVars, gone, counted>>

FastOther ==
    /\ Fast /\ UpOther
    /\ Write(<<Other>>)
    /\ UNCHANGED <<pc, fixedVars, buf, callVars, endVars, gone, counted>>

(* A terminal carries no text: it passes at once.                           *)
FastEnd(item) ==
    /\ Fast /\ UpEnd(item[1])
    /\ Write(<<item>>)
    /\ seenEnd' = TRUE
    /\ UNCHANGED <<pc, fixedVars, buf, callVars, doneSent, gone, counted>>

(* The stream ended: the text that still waits goes out, whatever went      *)
(* before.  Nothing catches a client that left.                             *)
FastEof ==
    /\ pc = "eof" /\ chain = "fast"
    /\ Write(Emit(buf))
    /\ buf' = <<>>
    /\ IF gone /\ Emit(buf) # <<>> THEN Close("exception")
       ELSE pc' = "tail" /\ UNCHANGED counted
    /\ UNCHANGED <<fixedVars, upVars, callVars, endVars, gone>>

(* responses: is it the Responses endpoint, which ends a truncated answer    *)
(* with response.failed.                                                    *)
FastTail ==
    /\ pc = "tail" /\ chain = "fast"
    /\ \E torn, responses \in BOOLEAN :
          Write(RefusalIfSilent(
              IF responses /\ Truncated(torn, out) THEN <<Failed>> ELSE <<>>))
    /\ Close("status")
    /\ UNCHANGED <<fixedVars, upVars, buf, callVars, endVars, gone>>

FastNext ==
    \/ \E t \in Texts, fin, short \in BOOLEAN : FastText(t, fin, short)
    \/ FastPart \/ FastOther
    \/ \E item \in {Finish, Done} : FastEnd(item)
    \/ FastEof \/ FastTail
============================================================================
