--------------------------- MODULE MCChildRuntime ---------------------------
(***************************************************************************)
(* Three instances in one run, of which a behaviour takes one (part): the   *)
(* host with two children of one parent, the channel on which a child makes *)
(* two requests of its parent, and the router through which the parent      *)
(* makes model calls.  The host opens the channel and closes it, which the  *)
(* second has as Revoke and Shut, at any time.                              *)
(***************************************************************************)
EXTENDS ChildHost, CredentialBroker, ProviderRouter

VARIABLE part

\* A pair of streams, which share a handle, or a tool call beside a compaction.
MCMix == {<<"stream", "stream">>, <<"mcp", "compact">>}

\* One call with a fallback beside one without, to the same provider.
MCCandidates == [s \in Stream |-> IF s = 1 THEN <<"p", "q">> ELSE <<"p">>]

MCInit ==
  /\ part \in {"host", "broker", "router"} /\ HostInit /\ BrokerInit /\ RouterInit
  /\ part # "broker" => kind = <<"stream", "stream">>

MCNext ==
  /\ UNCHANGED part
  /\ \/ part = "host" /\ HostNext /\ UNCHANGED <<brokerVars, routerVars>>
     \/ part = "broker" /\ BrokerNext /\ UNCHANGED <<hostVars, routerVars>>
     \/ part = "router" /\ RouterNext /\ UNCHANGED <<hostVars, brokerVars>>

MCSpec ==
  /\ MCInit /\ [][MCNext]_<<part, hostVars, brokerVars, routerVars>>
  /\ \A c \in Child :
       /\ WF_hostVars(part = "host" /\ HostStep(c))
       /\ WF_hostVars(part = "host" /\ (SteerUnconnected(c) \/ SteerAnswered(c)))
  /\ WF_brokerVars(part = "broker" /\ ChildReceive)
  /\ WF_brokerVars(part = "broker" /\ ParentReceive)
  /\ WF_brokerVars(part = "broker" /\ Expire)
  /\ \A r \in Request : WF_brokerVars(part = "broker" /\ ServerStep(r))
  /\ \A s \in Stream : WF_routerVars(part = "router" /\ StreamStep(s))

-----------------------------------------------------------------------------
(* The properties of the instances *)

\* A cancelled child ends, an instruction to a child and a model call of a child are
\* answered, and a routed call ends, under the provisos of the three modules.
ChildrenEnd == CancelledEnds /\ SteerEnds /\ CallEnds /\ RouterEnds
=============================================================================
