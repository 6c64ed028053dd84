------------------------------ MODULE MCVapSetup -----------------------------
(* Neighbourhoods for the runs on VapSetup.                                 *)
EXTENDS VapSetup

CONSTANTS n1, n2

Pair == {<<n1, n2>>, <<n2, n1>>}
OneWay == {<<n1, n2>>}
Alone == {}
=============================================================================
