------------------------------ MODULE MCAiCalls ------------------------------
(* AiCalls over a workflow of a language model and another node, with two  *)
(* requirements: answers of up to two suggestions, so that one can name a   *)
(* requirement twice, exceed the fuzz cases asked for, or make up an id.    *)
EXTENDS AiCalls
=============================================================================
