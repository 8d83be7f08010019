------------------------------ MODULE MCAtaDisk ------------------------------
(* Instances of AtaDisk for TLC.                                              *)
EXTENDS AtaDisk

MCConnected == {0, 1}
\* Two sectors up to the last with an address, the last alone, one without.
MCLbas      == {2, 3, 5}
MCCounts    == {2}
==============================================================================
