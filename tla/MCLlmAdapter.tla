---------------------------- MODULE MCLlmAdapter ----------------------------
(***************************************************************************)
(* Three sections; requests and gaps shorter and longer than the interval. *)
(***************************************************************************)
EXTENDS LlmAdapter

MCLatencies == {0, 1, 4}
MCGaps == {0, 2}
=============================================================================
