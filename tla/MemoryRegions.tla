---------------------------- MODULE MemoryRegions ----------------------------
(***************************************************************************)
(* Memory regions of a domain (dpa_mr.c): threads of the application       *)
(* register and close them.  A region is a segment of DPAlib, made and     *)
(* destroyed in several library calls (dpa_segments.h), and an entry of a  *)
(* hash map (hash.h), whose buckets are lists.  The map has a lock, so     *)
(* that what is done to it is a step; between the segment and the map      *)
(* nothing is locked.                                                      *)
(*                                                                         *)
(* The entry of a region is numbered as the region is, in the order in     *)
(* which they are put in the map.                                          *)
(***************************************************************************)
EXTENDS SList, FiniteSets

CONSTANTS
  Registrars,   \* threads of the application
  RequestedKeys,\* the keys they ask for, of 64 bits
  KeySpace,     \* numbers a dpa_segmid_t holds, of 32 bits
  MapSize,      \* MR_MAP_SIZE, buckets of the map
  MaxRegions    \* bound: regions ever registered

ASSUME RegistrarsAssumption == IsFiniteSet(Registrars)

ASSUME KeysAssumption ==
  /\ RequestedKeys \subseteq Nat /\ KeySpace \in Nat \ {0}
  /\ MapSize \in Nat \ {0} /\ MaxRegions \in Nat

VARIABLES
  segment,  \* per key: what DPAlib has of it
  regions,  \* per region registered: its key
  mrMap,    \* the lists of the map
  open,     \* regions the application has
  call,     \* per thread: its call, the key and the region
  left      \* history: keys whose segment a failure has left behind

mrVars == <<segment, regions, mrMap, open, call, left>>

SegmentKeys == 0 .. (KeySpace - 1)
Buckets == 0 .. (MapSize - 1)
Idle == [pc |-> "idle", key |-> 0, region |-> 0]
InCall(t, pc) == call[t].pc = pc

MrInit ==
  /\ segment = [k \in SegmentKeys |-> "none"]
  /\ regions = <<>>
  /\ mrMap = [next |-> [r \in 1 .. MaxRegions |-> Null], list |-> [b \in Buckets |-> NoEntries]]
  /\ open = {}
  /\ call = [t \in Registrars |-> Idle]
  /\ left = {}

-----------------------------------------------------------------------------
(* dpa_mr_reg.                                                             *)
\* -FI_EKEYREJECTED else
FitsSegmentId(k) == k \in SegmentKeys

\* uint_hash
BucketOf(k) == k % MapSize

\* Else DPACreateSegment gives DPA_ERR_SEGMENTID_USED, and the call -FI_ENOKEY
SegmentUnused(k) == segment[k] = "none"

CreateSegment(t, k) ==
  /\ InCall(t, "idle")
  /\ FitsSegmentId(k) /\ SegmentUnused(k)
  /\ Len(regions) + Cardinality({u \in Registrars : call[u].pc \in {"prepare", "put"}}) < MaxRegions
  /\ segment' = [segment EXCEPT ![k] = "created"]
  /\ call' = [call EXCEPT ![t] = [pc |-> "prepare", key |-> k, region |-> 0]]
  /\ UNCHANGED <<regions, mrMap, open, left>>

\* Prepared, mapped and made available to other nodes.
SegmentAvailable(t) ==
  /\ InCall(t, "prepare")
  /\ segment' = [segment EXCEPT ![call[t].key] = "available"]
  /\ call' = [call EXCEPT ![t].pc = "put"]
  /\ UNCHANGED <<regions, mrMap, open, left>>

\* hash_put, and the region is the application's.
PutRegion(t) ==
  LET r == Len(regions) + 1 IN
  /\ InCall(t, "put")
  /\ regions' = Append(regions, call[t].key)
  /\ mrMap' = LinkedTail(mrMap, BucketOf(call[t].key), r)
  /\ open' = open \cup {r}
  /\ call' = [call EXCEPT ![t] = Idle]
  /\ UNCHANGED <<segment, left>>

-----------------------------------------------------------------------------
(* dpa_mr_close, once for each region.                                      *)
CloseRegion(t, r) ==
  /\ InCall(t, "idle")
  /\ r \in open
  /\ open' = open \ {r}
  /\ call' = [call EXCEPT ![t] = [pc |-> "remove", key |-> regions[r], region |-> r]]
  /\ UNCHANGED <<segment, regions, mrMap, left>>

\* hash_remove takes the first entry of that key.
RemoveRegion(t) ==
  LET k == call[t].key
      matching == {r \in 1 .. Len(regions) : regions[r] = k}
  IN
  /\ InCall(t, "remove")
  /\ mrMap' = UnlinkedMatch(mrMap, BucketOf(k), Len(regions), matching)
  /\ call' = [call EXCEPT ![t].pc = "unavailable"]
  /\ UNCHANGED <<segment, regions, open, left>>

SegmentUnavailable(t) ==
  /\ InCall(t, "unavailable")
  /\ segment' = [segment EXCEPT ![call[t].key] = "created"]
  /\ call' = [call EXCEPT ![t].pc = "destroy"]
  /\ UNCHANGED <<regions, mrMap, open, left>>

RemoveSegment(t) ==
  /\ InCall(t, "destroy")
  /\ segment' = [segment EXCEPT ![call[t].key] = "none"]
  /\ call' = [call EXCEPT ![t] = Idle]
  /\ UNCHANGED <<regions, mrMap, open, left>>

\* A call after DPACreateSegment fails, or DPARemoveSegment does: the segment
\* stays and the key with it.
LeaveSegment(t) ==
  /\ call[t].pc \in {"prepare", "destroy"}
  /\ left' = left \cup {call[t].key}
  /\ call' = [call EXCEPT ![t] = Idle]
  /\ UNCHANGED <<segment, regions, mrMap, open>>

MrNext ==
  \E t \in Registrars :
    \/ \E k \in RequestedKeys : CreateSegment(t, k)
    \/ SegmentAvailable(t) \/ PutRegion(t)
    \/ \E r \in open : CloseRegion(t, r)
    \/ RemoveRegion(t) \/ SegmentUnavailable(t) \/ RemoveSegment(t)
    \/ LeaveSegment(t)

MrSpec == MrInit /\ [][MrNext]_mrVars

-----------------------------------------------------------------------------
(* Properties.                                                              *)
\* What the application has, or a close has not yet taken out of the map.
Mapped == open \cup {call[t].region : t \in {u \in Registrars : InCall(u, "remove")}}
Entries(b) == Walk(mrMap, b, Len(regions))

\* The application, the map and DPAlib agree, whatever calls are under way and
\* wherever one has failed: the map holds each region once, in its bucket, and
\* no key twice, so that hash_remove takes the region that is closed; an open
\* region can be reached by other nodes; and a key that is in use is that of
\* an open region, of a call under way, or of one that failed.
RegionsAgree ==
  /\ \A b \in Buckets :
       /\ WellFormed(mrMap, b, Len(regions))
       /\ {Entries(b)[i] : i \in DOMAIN Entries(b)} = {r \in Mapped : BucketOf(regions[r]) = b}
  /\ \A r, s \in Mapped : regions[r] = regions[s] => r = s
  /\ \A r \in open : segment[regions[r]] = "available"
  /\ \A k \in SegmentKeys : segment[k] # "none" =>
       \/ k \in left
       \/ \E r \in open : regions[r] = k
       \/ \E t \in Registrars : ~InCall(t, "idle") /\ call[t].key = k

=============================================================================
