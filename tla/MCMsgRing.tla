----------------------------- MODULE MCMsgRing ------------------------------
(* Instances of MsgRing for TLC.                                             *)
EXTENDS MsgRing

\* Buffers that hold every message; messages that take one slot of 4 bytes, cut
\* or not.
MCPlans == {[send |-> {1, 4, 6}, recv |-> {6}], [send |-> {1, 2}, recv |-> {1, 2}]}

\* A length of zero; buffers shorter than messages of several sizes.
ZeroPlans == {[send |-> {0, 1}, recv |-> {6}]}
StalePlans == {[send |-> {1, 4}, recv |-> {1}]}

=============================================================================
