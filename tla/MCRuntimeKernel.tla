-------------------------- MODULE MCRuntimeKernel --------------------------
(***************************************************************************)
(* Two prompts and two client request ids: the prompts may be one request   *)
(* sent twice, or one run after the other, and meet at any await.           *)
(***************************************************************************)
EXTENDS RuntimeKernel

=============================================================================
