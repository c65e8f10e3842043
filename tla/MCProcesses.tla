----------------------------- MODULE MCProcesses -----------------------------
(***************************************************************************)
(* The processes on either side of a Runtime, in one run of which a         *)
(* behaviour takes one (part): plugins, two of them installed, the first    *)
(* running, with two requests in progress at a time; and the client, with   *)
(* two prompts, one read-only request and one connection that is lost.      *)
(***************************************************************************)
EXTENDS ExtensionActivation, ClientEvents

VARIABLE part

\* The plugin that is running at the start.
MCFirst == <<"p1">>

MCInit == part \in {"plugins", "client"} /\ ExtInit /\ ClientInit

MCNext ==
  /\ UNCHANGED part
  /\ \/ part = "plugins" /\ ExtNext /\ UNCHANGED clientVars
     \/ part = "client" /\ ClientNext /\ UNCHANGED extVars

MCSpec ==
  /\ MCInit /\ [][MCNext]_<<part, extVars, clientVars>>
  /\ \A c \in Caller : WF_extVars(part = "plugins" /\ CallerStep(c))
  /\ \A a \in Activation : WF_extVars(part = "plugins" /\ Reap(a))
  /\ \A p \in Prompt : WF_clientVars(part = "client" /\ PromptStep(p))
  /\ WF_clientVars(part = "client" /\ PumpStep)
  /\ WF_clientVars(part = "client" /\ LinkStep)
  /\ WF_clientVars(part = "client" /\ ReadStep)

-----------------------------------------------------------------------------
(* The properties of the instances *)

\* Requests on plugins end and every plugin process is published or stopped; prompts end
\* and a lost connection is replaced or given up.
ProcessesEnd == RequestsEnd /\ ProcessesReaped /\ PromptsEnd /\ LinkSettles
=============================================================================
