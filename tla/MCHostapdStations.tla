------------------------- MODULE MCHostapdStations -------------------------
(* Instances of HostapdStations for TLC.                                   *)
EXTENDS HostapdStations

\* hostapd with two BSSs, and simple-hostapd with a VAP.  Either s1 and s2 use
\* the first BSS, or s3 uses both, or s2 and s3 use the second, which has room
\* for one station, or s2 and s3 are in range of the VAP.
HomePair == {<<"home", "s1">>, <<"home", "s2">>}
RoamPair == {<<"home", "s3">>, <<"guest", "s3">>}
FullPair == {<<"guest", "s2">>, <<"guest", "s3">>}
VapPair == {<<"vap", "s2">>, <<"vap", "s3">>}
HomeReach == HomePair \cup RoamPair \cup FullPair \cup VapPair
HomeRanges == {HomePair, RoamPair, FullPair, VapPair}
HomeProc == [b \in Bss |-> IF b = "vap" THEN "simple-hostapd" ELSE "hostapd"]
HomeMaxSta == [b \in Bss |-> IF b = "guest" THEN 1 ELSE 2]
HomeFrames == [s \in Sta |-> IF s = "s2" THEN 1 ELSE 3]
HomeTx == [p \in Reach |-> IF p[2] = "s1" THEN 2 ELSE 1]
=============================================================================
