----------------------------- MODULE MCResponse -----------------------------
(* Instantiates Response for TLC.                                          *)
EXTENDS Response

\* A query goes to every node (a write in replication mode) or to a
\* single node (a load-balanced read, or the master in master/slave mode).
MCSendSets == {Backends} \cup {{n} : n \in Backends}
=============================================================================
