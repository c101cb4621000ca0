------------------------------ MODULE MsgChannel ------------------------------
(***************************************************************************)
(* What one direction of a connected MSG endpoint promises: a message the  *)
(* endpoint accepted is delivered once, after every message accepted       *)
(* before it and before every one accepted after it, and a receive         *)
(* completion holds the first bytes of exactly one message, with           *)
(* FI_ETOOSMALL when the buffer could not hold it all.                     *)
(***************************************************************************)
EXTENDS Naturals, Sequences

CONSTANTS Lens,       \* lengths of messages
          Buffers     \* lengths of receive buffers

VARIABLES accepted,   \* lengths of the messages accepted so far
          delivered   \* receive completions so far

chanVars == <<accepted, delivered>>

\* The first k bytes of message n, each byte known by its place
Bytes(n, k) == [i \in 1 .. k |-> [msg |-> n, idx |-> i]]

ChanInit == accepted = <<>> /\ delivered = <<>>

Accept(len) ==
  /\ accepted' = Append(accepted, len)
  /\ UNCHANGED delivered

Deliver(buffer) ==
  LET n == Len(delivered) + 1
      k == IF accepted[n] < buffer THEN accepted[n] ELSE buffer
  IN /\ n <= Len(accepted)
     /\ delivered' = Append(delivered, [data |-> Bytes(n, k),
                                        toosmall |-> k < accepted[n]])
     /\ UNCHANGED accepted

ChanNext ==
  \/ \E len \in Lens : Accept(len)
  \/ \E buffer \in Buffers : Deliver(buffer)

ChanSpec == ChanInit /\ [][ChanNext]_chanVars

=============================================================================
