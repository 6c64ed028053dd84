---------------------------- MODULE MCAgentEvents ----------------------------
(* What may arrive in the runs on AgentEvents.                             *)
EXTENDS AgentEvents, TLC

CONSTANT p1

GoodAndBad == {<<"data", TRUE>>, <<"data", FALSE>>, <<"kcm", TRUE>>}
AllKinds == GoodAndBad \cup {<<"ruk", TRUE>>}
NoArrival == {}
=============================================================================
