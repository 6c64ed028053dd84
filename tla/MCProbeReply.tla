---------------------------- MODULE MCProbeReply ----------------------------
(* Signal strengths for the run on ProbeReply.                             *)
EXTENDS ProbeReply

\* A station that is far away, and one that is near.
Signals == {-85, -40}
=============================================================================
