---------------------------- MODULE MCSessionStart ----------------------------
(***************************************************************************)
(* Two processes on one JSONL store, of which the second starts while the   *)
(* first is serving.                                                        *)
(***************************************************************************)
EXTENDS SessionJournal

CONSTANTS h1, h2, a1, a2, s1

TwoHostsOf == [a \in {a1, a2} |-> IF a = a1 THEN h1 ELSE h2]
OneSession == [a \in {a1, a2} |-> {s1}]
=============================================================================
