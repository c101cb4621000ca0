---------------------------- MODULE AddressVector ----------------------------
(***************************************************************************)
(* The address vector of a domain (dpa_av.c): an array (array.h) of        *)
(* addresses, and the handles that stand for them.  dpa_av_open never      *)
(* stores the type it was asked for, so that a handle is always a pointer  *)
(* to a row: here the allocation and the row.  A vector of type FI_AV_MAP  *)
(* has no array and cannot be inserted into; only FI_AV_TABLE is opened.   *)
(***************************************************************************)
EXTENDS Naturals, Sequences

CONSTANTS
  Addrs,       \* addresses
  AvCounts,    \* attr->count of dpa_av_open
  RowBytes,    \* sizeof(dpa_addr_t)
  SizeBytes,   \* sizeof(size_t)
  MaxInserted  \* bound: addresses inserted

ASSUME AvAssumption == AvCounts \subseteq Nat /\ MaxInserted \in Nat

\* An address is two unsigned ints: of 64-bit targets a size_t is as large, of
\* 32-bit ones it is half as large, and the array that grows too small.
ASSUME LP64Assumption == RowBytes \in Nat /\ SizeBytes \in Nat /\ RowBytes <= SizeBytes

VARIABLES
  av,       \* the vector: its array and the rows in use
  handles   \* history: what the inserts gave for each address

avVars == <<av, handles>>

\* count is what array_create stored; size is the bytes allocated for rows.
NoAv == [open |-> FALSE, block |-> 0, count |-> 0, size |-> 0, rows |-> <<>>]

AvInit == av = NoAv /\ handles = <<>>

\* av_priv->last
Last == Len(av.rows)

AvOpen ==
  /\ ~av.open
  /\ \E n \in AvCounts :
       av' = [open |-> TRUE, block |-> 1, count |-> n, size |-> n * RowBytes, rows |-> <<>>]
  /\ UNCHANGED handles

\* Slip: room for the new addresses alone
RoomForNew(k) == k
RoomNeeded(k) == Last + k

\* array_request_size: twice the count it was created with, which it never
\* changes, and what is asked for, of which each takes the size of the field
\* that holds the size of a value; realloc may move the array.
Resized(k) ==
  IF RoomNeeded(k) <= av.count THEN {av}
  ELSE {[av EXCEPT !.block = b, !.size = (2 * av.count + RoomNeeded(k)) * SizeBytes] :
          b \in {av.block, av.block + 1}}

RowOf(i) == Last + i

\* dpa_av_insert: check_table_size, the copy, a handle for every address.
AvInsert ==
  /\ av.open
  /\ \E k \in 1 .. 2 : \E addrs \in [1 .. k -> Addrs], sized \in Resized(k) :
       /\ Last + k <= MaxInserted
       /\ av' = [sized EXCEPT !.rows = @ \o addrs]
       /\ handles' = handles \o [i \in 1 .. k |->
                       [block |-> sized.block, row |-> RowOf(i), addr |-> addrs[i]]]

\* dpa_av_close
AvClose ==
  /\ av.open
  /\ av' = NoAv
  /\ handles' = <<>>

AvNext == AvOpen \/ AvInsert \/ AvClose

-----------------------------------------------------------------------------
\* dpa_av_lookup: what the handle points to, when it is still in the array.
PointsInto(h) == h.block = av.block
Lookup(h) == av.rows[h.row]

AvTypeOK ==
  /\ av \in [open : BOOLEAN, block : Nat, count : Nat, size : Nat, rows : Seq(Addrs)]
  /\ handles \in Seq([block : Nat, row : Nat \ {0}, addr : Addrs])

\* The rows in use fit the allocation.
RowsFit == Last * RowBytes <= av.size

\* A lookup gives the address its handle was inserted with, in any vector that
\* holds no more addresses than it was created for; beyond that, as long as the
\* growth has not moved the array away from the handle.  However the vector
\* grew, its rows fit the array, which keeps its first count for ever.
HandlesResolve ==
  /\ RowsFit
  /\ \A i \in DOMAIN handles :
       LET h == handles[i] IN
       /\ Last <= av.count => PointsInto(h)
       /\ PointsInto(h) => h.row \in DOMAIN av.rows /\ Lookup(h) = h.addr

=============================================================================
