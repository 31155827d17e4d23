---------------------------- MODULE MCLlmStream ----------------------------
(* LlmStream on a short answer: a few atoms of text, one tool call and one  *)
(* other event, with buffers small enough to overflow.                      *)
EXTENDS LlmStream
============================================================================
