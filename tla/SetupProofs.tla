------------------------------ MODULE SetupProofs ------------------------------
(***************************************************************************)
(* Theorems about what an application opens before it communicates: the    *)
(* address vector and the memory regions of a domain, and Setup.  The rows *)
(* of a vector fit its array and its handles resolve; regions, map and     *)
(* segments agree; what getinfo answers it accepts again, domains have the *)
(* modes it announced, whatever threads share without care locks.  For any *)
(* hints, requests, objects, counts and keys.                              *)
(***************************************************************************)
EXTENDS Setup, MemoryRegions, SListTheorems, FiniteSetTheorems, SequenceTheorems, TLAPS

-----------------------------------------------------------------------------
(* AddressVector.                                                            *)

\* A handle names a row in use, in this array or in one it grew out of; the
\* array moves only when it grows beyond the count it was created with.
HandleOK(h) ==
  /\ h.row \in 1 .. Last
  /\ h.block <= av.block
  /\ h.block = av.block => av.rows[h.row] = h.addr
  /\ Last <= av.count => h.block = av.block

AvInv ==
  /\ AvTypeOK
  /\ av.count * RowBytes <= av.size
  /\ RowsFit
  /\ ~av.open => handles = <<>>
  /\ \A i \in DOMAIN handles : HandleOK(handles[i])

Vectors == [open : BOOLEAN, block : Nat, count : Nat, size : Nat, rows : Seq(Addrs)]
Handles == [block : Nat, row : Nat \ {0}, addr : Addrs]

-----------------------------------------------------------------------------
\* A vector starts closed, with no row and no handle.
LEMMA AvInitInv == AvInit => AvInv
  BY LP64Assumption DEF AvInit, AvInv, AvTypeOK, NoAv, HandleOK, RowsFit, Last

\* An opened vector is as large as it was asked to be, and empty.
LEMMA AvOpenInv == AvInv /\ AvOpen => AvInv'
<1> SUFFICES ASSUME AvInv, AvOpen PROVE AvInv'
  OBVIOUS
<1>1. PICK n \in AvCounts :
        av' = [open |-> TRUE, block |-> 1, count |-> n, size |-> n * RowBytes, rows |-> <<>>]
  BY DEF AvOpen
<1>2. n \in Nat /\ n * RowBytes \in Nat
  BY AvAssumption, LP64Assumption
<1>3. RowsFit'
  BY <1>1, <1>2, LP64Assumption DEF RowsFit, Last
<1> QED
  BY <1>1, <1>2, <1>3 DEF AvOpen, AvInv, AvTypeOK, HandleOK, Last, Vectors

\* More rows take no fewer bytes, and no more than as many sizes.
LEMMA BytesGrow ==
  ASSUME NEW m \in Nat, NEW n \in Nat, m <= n
  PROVE  /\ m * RowBytes \in Nat /\ n * RowBytes \in Nat /\ n * SizeBytes \in Nat
         /\ m * RowBytes <= n * RowBytes /\ n * RowBytes <= n * SizeBytes
<1>1. RowBytes \in Nat /\ SizeBytes \in Nat /\ RowBytes <= SizeBytes
  BY LP64Assumption
<1>2. /\ m * RowBytes \in Nat /\ n * RowBytes \in Nat /\ n * SizeBytes \in Nat
      /\ (n - m) * RowBytes \in Nat /\ n * (SizeBytes - RowBytes) \in Nat
  BY <1>1
<1>3. n * RowBytes = m * RowBytes + (n - m) * RowBytes
  BY <1>1
<1>4. n * SizeBytes = n * RowBytes + n * (SizeBytes - RowBytes)
  BY <1>1
<1> QED
  BY <1>2, <1>3, <1>4

\* The array that holds what is inserted: as it was when there is room, larger
\* and perhaps elsewhere when there is not.
LEMMA ResizedHasRoom ==
  ASSUME AvTypeOK, av.count * RowBytes <= av.size, NEW k \in Nat, NEW sized \in Resized(k)
  PROVE  /\ sized \in Vectors
         /\ sized.rows = av.rows /\ sized.count = av.count /\ sized.open = av.open
         /\ sized.count * RowBytes <= sized.size /\ (Last + k) * RowBytes <= sized.size
         /\ sized.block >= av.block
         /\ Last + k <= av.count => sized.block = av.block
<1>1. Last \in Nat /\ av.count \in Nat /\ av.size \in Nat /\ av \in Vectors
  BY DEF AvTypeOK, Last, Vectors
<1>2. CASE RoomNeeded(k) <= av.count
  <2>1. (Last + k) * RowBytes \in Nat /\ av.count * RowBytes \in Nat
        /\ (Last + k) * RowBytes <= av.count * RowBytes
    BY <1>1, <1>2, BytesGrow DEF RoomNeeded
  <2>2. (Last + k) * RowBytes <= av.size
    BY <1>1, <2>1
  <2> QED
    BY <1>1, <1>2, <2>2 DEF Resized, RoomNeeded, Vectors
<1>3. CASE ~(RoomNeeded(k) <= av.count)
  <2> DEFINE room == 2 * av.count + RoomNeeded(k)
             size == room * SizeBytes
  <2>1. PICK b \in {av.block, av.block + 1} : sized = [av EXCEPT !.block = b, !.size = size]
    BY <1>3 DEF Resized
  <2>2. /\ room \in Nat /\ av.count <= room /\ Last + k <= room /\ Last + k \in Nat
        /\ b \in Nat /\ b >= av.block
    BY <1>1, <2>1 DEF RoomNeeded, Vectors
  <2> HIDE DEF room
  <2>3. /\ size \in Nat /\ av.count * RowBytes \in Nat /\ (Last + k) * RowBytes \in Nat
        /\ room * RowBytes \in Nat
        /\ av.count * RowBytes <= room * RowBytes /\ (Last + k) * RowBytes <= room * RowBytes
        /\ room * RowBytes <= size
    BY <1>1, <2>2, BytesGrow
  <2>4. av.count * RowBytes <= size /\ (Last + k) * RowBytes <= size
    BY <2>3
  <2> HIDE DEF size
  <2>5. /\ sized.block = b /\ sized.size = size /\ sized.rows = av.rows
        /\ sized.count = av.count /\ sized.open = av.open /\ sized \in Vectors
    BY <1>1, <2>1, <2>2, <2>3 DEF Vectors
  <2> QED
    BY <1>1, <1>3, <2>2, <2>4, <2>5 DEF RoomNeeded
<1> QED
  BY <1>2, <1>3

\* An insert appends its rows and their handles; the rows before it stay.
LEMMA AvInsertInv == AvInv /\ AvInsert => AvInv'
<1> SUFFICES ASSUME AvInv, AvInsert PROVE AvInv'
  OBVIOUS
<1>1. PICK k \in 1 .. 2 : \E addrs \in [1 .. k -> Addrs], sized \in Resized(k) :
        /\ av' = [sized EXCEPT !.rows = @ \o addrs]
        /\ handles' = handles \o [i \in 1 .. k |->
                        [block |-> sized.block, row |-> RowOf(i), addr |-> addrs[i]]]
  BY DEF AvInsert
<1>2. PICK addrs \in [1 .. k -> Addrs], sized \in Resized(k) :
        /\ av' = [sized EXCEPT !.rows = @ \o addrs]
        /\ handles' = handles \o [i \in 1 .. k |->
                        [block |-> sized.block, row |-> RowOf(i), addr |-> addrs[i]]]
  BY <1>1
<1> DEFINE new == [i \in 1 .. k |->
                    [block |-> sized.block, row |-> RowOf(i), addr |-> addrs[i]]]
<1>3. /\ sized \in Vectors
      /\ sized.rows = av.rows /\ sized.count = av.count /\ sized.open = av.open
      /\ sized.count * RowBytes <= sized.size /\ (Last + k) * RowBytes <= sized.size
      /\ sized.block >= av.block
      /\ Last + k <= av.count => sized.block = av.block
  BY ResizedHasRoom DEF AvInv, AvTypeOK
<1>4. addrs \in Seq(Addrs) /\ Len(addrs) = k
  OBVIOUS
<1>5. /\ av.rows \in Seq(Addrs) /\ Last = Len(av.rows) /\ Last \in Nat
      /\ av.block \in Nat /\ av.count \in Nat
  BY DEF AvInv, AvTypeOK, Last
<1>6. /\ av' \in Vectors
      /\ av'.rows = av.rows \o addrs /\ av'.count = av.count /\ av'.block = sized.block
      /\ av'.size = sized.size /\ av'.open = sized.open
  <2>1. av.rows \o addrs \in Seq(Addrs)
    BY <1>4, <1>5
  <2> DEFINE rows == av.rows \o addrs
  <2>2. av' = [sized EXCEPT !.rows = rows]
    BY <1>2, <1>3
  <2> HIDE DEF rows
  <2>3. av' \in Vectors /\ av'.rows = rows
    BY <2>1, <2>2, <1>3 DEF Vectors, rows
  <2>4. /\ av'.count = sized.count /\ av'.block = sized.block
        /\ av'.size = sized.size /\ av'.open = sized.open
    BY <2>2, <1>3 DEF Vectors
  <2> QED
    BY <2>3, <2>4, <1>3 DEF rows
<1>7. Last' = Last + k
  BY <1>4, <1>5, <1>6 DEF Last
<1>8. \A i \in 1 .. k :
        /\ new[i] \in Handles
        /\ new[i].block = sized.block /\ new[i].row = Last + i /\ new[i].addr = addrs[i]
  BY <1>3, <1>5 DEF RowOf, Vectors, Handles
<1>9. new \in Seq(Handles) /\ Len(new) = k
  BY <1>8
<1>10. handles \in Seq(Handles) /\ av.open
  BY DEF AvInv, AvTypeOK, Handles, AvInsert
<1>11. AvTypeOK'
  BY <1>2, <1>6, <1>9, <1>10 DEF AvTypeOK, Vectors, Handles
<1>12. ASSUME NEW i \in DOMAIN handles' PROVE HandleOK(handles[i])'
  <2>1. CASE i \in 1 .. Len(handles)
    <3>1. handles'[i] = handles[i] /\ HandleOK(handles[i])
      BY <1>2, <1>9, <1>10, <2>1 DEF AvInv
    <3>2. handles[i] \in Handles
      BY <1>10, <2>1
    <3>3. (av.rows \o addrs)[handles[i].row] = av.rows[handles[i].row]
      BY <3>1, <1>4, <1>5 DEF HandleOK
    <3> DEFINE h == handles[i]
    <3>4. h.row \in 1 .. Last'
      BY <3>1, <1>5, <1>7 DEF HandleOK
    <3>5. h.block <= av'.block
      BY <3>1, <3>2, <1>3, <1>5, <1>6 DEF HandleOK, Vectors, Handles
    <3>6. h.block = av'.block => av'.rows[h.row] = h.addr
      BY <3>1, <3>2, <3>3, <1>3, <1>5, <1>6 DEF HandleOK, Vectors, Handles
    <3>7. Last' <= av'.count => h.block = av'.block
      BY <3>1, <1>3, <1>5, <1>6, <1>7 DEF HandleOK
    <3> HIDE DEF h
    <3>8. handles'[i] = h
      BY <3>1 DEF h
    <3> QED
      BY <3>4, <3>5, <3>6, <3>7, <3>8 DEF HandleOK
  <2>2. CASE i \in Len(handles) + 1 .. Len(handles) + k
    <3> DEFINE j == i - Len(handles)
    <3>1. j \in 1 .. k /\ handles'[i] = new[j]
      BY <1>2, <1>9, <1>10, <2>2
    <3>2. (av.rows \o addrs)[Last + j] = addrs[j]
      BY <3>1, <1>4, <1>5, SMTT(30)
    <3> HIDE DEF new
    <3>3. /\ handles'[i].block = sized.block /\ handles'[i].row = Last + j
          /\ handles'[i].addr = addrs[j]
      BY <3>1, <1>8
    <3>4. Last + j \in 1 .. Last' /\ av'.rows[Last + j] = addrs[j]
      BY <3>1, <3>2, <1>5, <1>6, <1>7, SMTT(30)
    <3> HIDE DEF j
    <3> QED
      BY <3>3, <3>4, <1>3, <1>6 DEF HandleOK, Vectors
  <2> QED
    BY <2>1, <2>2, <1>2, <1>9, <1>10
<1>13. av'.count * RowBytes <= av'.size /\ RowsFit'
  BY <1>3, <1>6, <1>7 DEF RowsFit
<1> QED
  BY <1>3, <1>6, <1>10, <1>11, <1>12, <1>13 DEF AvInv

\* A closed vector has neither rows nor handles.
LEMMA AvCloseInv == AvInv /\ AvClose => AvInv'
  BY LP64Assumption DEF AvInv, AvClose, AvTypeOK, NoAv, HandleOK, RowsFit, Last

\* Every step of the vector keeps its invariant.
LEMMA AvNextInv == AvInv /\ [AvNext]_avVars => AvInv'
<1> SUFFICES ASSUME AvInv, [AvNext]_avVars PROVE AvInv'
  OBVIOUS
<1>1. CASE UNCHANGED avVars
  BY <1>1 DEF AvInv, AvTypeOK, HandleOK, RowsFit, Last, avVars
<1> QED
  BY <1>1, AvOpenInv, AvInsertInv, AvCloseInv DEF AvNext

\* The invariant gives what an application relies on.
LEMMA AvInvResolves == AvInv => RowsFit /\ HandlesResolve
  BY DEF AvInv, AvTypeOK, HandleOK, HandlesResolve, PointsInto, Lookup, Last

-----------------------------------------------------------------------------
(* MemoryRegions.                                                            *)

Phases == {"idle", "prepare", "put", "remove", "unavailable", "destroy"}
Preparing == {u \in Registrars : call[u].pc \in {"prepare", "put"}}
InACall(t) == call[t].pc # "idle"

\* What DPAlib has of the segment a call is about.
During(pc) == IF pc \in {"prepare", "destroy"} THEN "created" ELSE "available"

\* Regions that are registered, or may still be, fit the bound.
MrTyped ==
  /\ segment \in [SegmentKeys -> {"none", "created", "available"}]
  /\ regions \in Seq(SegmentKeys)
  /\ mrMap \in Heaps(1 .. MaxRegions, Buckets)
  /\ open \subseteq 1 .. Len(regions)
  /\ call \in [Registrars -> [pc : Phases, key : Nat, region : Nat]]
  /\ Len(regions) + Cardinality(Preparing) <= MaxRegions

\* A segment has one owner: an open region, a call, or nobody after a failure.
CallOwns(t) ==
  InACall(t) =>
    /\ call[t].key \in SegmentKeys /\ call[t].key \notin left
    /\ segment[call[t].key] = During(call[t].pc)
    /\ \A u \in Registrars : InACall(u) /\ call[u].key = call[t].key => u = t
    /\ call[t].pc = "remove" => /\ call[t].region \in 1 .. Len(regions)
                                /\ regions[call[t].region] = call[t].key

RegionOwns(r) ==
  /\ segment[regions[r]] = "available" /\ regions[r] \notin left
  /\ \A s \in open : regions[s] = regions[r] => s = r
  /\ \A t \in Registrars : InACall(t) => call[t].key # regions[r]

SegmentOwned(k) ==
  /\ segment[k] = "none" => k \notin left
  /\ segment[k] # "none" => \/ k \in left
                            \/ \E r \in open : regions[r] = k
                            \/ \E t \in Registrars : InACall(t) /\ call[t].key = k

OneOwner ==
  /\ \A t \in Registrars : CallOwns(t)
  /\ \A r \in open : RegionOwns(r)
  /\ \A k \in SegmentKeys : SegmentOwned(k)

\* The list of a bucket has the mapped regions of that bucket, each once.
InBucket(b) == {r \in Mapped : BucketOf(regions[r]) = b}
Members(p) == {p[i] : i \in 1 .. Len(p)}
BucketLists ==
  \A b \in Buckets : \E p \in Seq(1 .. Len(regions)) :
    Holds(mrMap, b, p) /\ Members(p) = InBucket(b)

RegionInv == MrTyped /\ OneOwner /\ BucketLists

\* The bucket of a key is one of the map.
LEMMA BucketIsOne == ASSUME NEW k \in SegmentKeys PROVE k \in Nat /\ BucketOf(k) \in Buckets
  BY KeysAssumption DEF SegmentKeys, BucketOf, Buckets

\* The call of a thread, field by field.
LEMMA CallParts ==
  ASSUME MrTyped, NEW t \in Registrars
  PROVE  /\ call[t] = [pc |-> call[t].pc, key |-> call[t].key, region |-> call[t].region]
         /\ call[t].pc \in Phases /\ call[t].key \in Nat /\ call[t].region \in Nat
  BY DEF MrTyped

\* A step of one thread changes its call and no other.
LEMMA OneCall ==
  ASSUME MrTyped, NEW t \in Registrars,
         NEW pc \in Phases, NEW k \in Nat, NEW r \in Nat,
         call' = [call EXCEPT ![t] = [pc |-> pc, key |-> k, region |-> r]]
  PROVE  /\ call' \in [Registrars -> [pc : Phases, key : Nat, region : Nat]]
         /\ call'[t].pc = pc /\ call'[t].key = k /\ call'[t].region = r
         /\ \A u \in Registrars \ {t} : call'[u] = call[u]
<1>1. [pc |-> pc, key |-> k, region |-> r] \in [pc : Phases, key : Nat, region : Nat]
  OBVIOUS
<1> QED
  BY <1>1 DEF MrTyped

\* What each step makes of the call of its thread.
LEMMA CallAfter ==
  ASSUME RegionInv, NEW t \in Registrars
  PROVE  /\ \A k \in RequestedKeys : CreateSegment(t, k) =>
              call' = [call EXCEPT ![t] = [pc |-> "prepare", key |-> k, region |-> 0]]
         /\ SegmentAvailable(t) =>
              call' = [call EXCEPT ![t] = [pc |-> "put", key |-> call[t].key, region |-> call[t].region]]
         /\ PutRegion(t) \/ RemoveSegment(t) \/ LeaveSegment(t) =>
              call' = [call EXCEPT ![t] = [pc |-> "idle", key |-> 0, region |-> 0]]
         /\ \A r \in open : CloseRegion(t, r) =>
              call' = [call EXCEPT ![t] = [pc |-> "remove", key |-> regions[r], region |-> r]]
         /\ RemoveRegion(t) =>
              call' = [call EXCEPT ![t] = [pc |-> "unavailable", key |-> call[t].key, region |-> call[t].region]]
         /\ SegmentUnavailable(t) =>
              call' = [call EXCEPT ![t] = [pc |-> "destroy", key |-> call[t].key, region |-> call[t].region]]
<1>1. /\ call[t] = [pc |-> call[t].pc, key |-> call[t].key, region |-> call[t].region]
      /\ DOMAIN call = Registrars
  BY CallParts DEF RegionInv, MrTyped
<1>2. ASSUME NEW pc
      PROVE  [call EXCEPT ![t].pc = pc] =
             [call EXCEPT ![t] = [pc |-> pc, key |-> call[t].key, region |-> call[t].region]]
  <2>1. [call[t] EXCEPT !.pc = pc] = [pc |-> pc, key |-> call[t].key, region |-> call[t].region]
    BY <1>1
  <2> QED BY <2>1
<1>3. SegmentAvailable(t) => call' = [call EXCEPT ![t].pc = "put"]
  BY DEF SegmentAvailable
<1>4. RemoveRegion(t) => call' = [call EXCEPT ![t].pc = "unavailable"]
  BY DEF RemoveRegion
<1>5. SegmentUnavailable(t) => call' = [call EXCEPT ![t].pc = "destroy"]
  BY DEF SegmentUnavailable
<1> QED
  BY <1>2, <1>3, <1>4, <1>5
     DEF CreateSegment, PutRegion, CloseRegion, RemoveSegment, LeaveSegment, Idle

\* No step but PutRegion has a thread less preparing and a region more.
LEMMA PreparingCounts ==
  ASSUME MrTyped
  PROVE  /\ IsFiniteSet(Preparing) /\ Cardinality(Preparing) \in Nat /\ Len(regions) \in Nat
         /\ \A t \in Registrars : InCall(t, "put") => Len(regions) + 1 <= MaxRegions
<1>1. Preparing \subseteq Registrars
  BY DEF Preparing
<1>2. IsFiniteSet(Preparing) /\ Cardinality(Preparing) \in Nat
  BY <1>1, RegistrarsAssumption, FS_Subset, FS_CardinalityType
<1>3. Len(regions) \in Nat
  BY DEF MrTyped
<1>4. ASSUME NEW t \in Registrars, InCall(t, "put") PROVE Len(regions) + 1 <= MaxRegions
  <2>1. Preparing # {}
    BY <1>4 DEF Preparing, InCall
  <2>2. Cardinality(Preparing) # 0
    BY <1>2, <2>1, FS_EmptySet
  <2> QED BY <1>2, <1>3, <2>2, KeysAssumption DEF MrTyped
<1> QED BY <1>2, <1>3, <1>4

\* A region is mapped that is open or that a close has not yet taken out.
LEMMA MappedIs ==
  ASSUME NEW r
  PROVE  r \in Mapped <=> \/ r \in open
                          \/ \E t \in Registrars : InCall(t, "remove") /\ call[t].region = r
  BY DEF Mapped

\* No two mapped regions have a key, and they are all registered.
LEMMA MappedKeys ==
  ASSUME MrTyped, OneOwner
  PROVE  /\ \A r \in Mapped : r \in 1 .. Len(regions) /\ regions[r] \in SegmentKeys
         /\ \A r, s \in Mapped : regions[r] = regions[s] => r = s
         /\ \A t \in Registrars : InCall(t, "remove") =>
              /\ call[t].region \in Mapped /\ call[t].region \notin open
              /\ regions[call[t].region] = call[t].key
<1>1. ASSUME NEW t \in Registrars, InCall(t, "remove")
      PROVE  /\ InACall(t) /\ call[t].region \in 1 .. Len(regions)
             /\ regions[call[t].region] = call[t].key
             /\ \A u \in Registrars : InACall(u) /\ call[u].key = call[t].key => u = t
  BY <1>1 DEF OneOwner, CallOwns, InACall, InCall
<1>2. \A r \in open : r \in 1 .. Len(regions) /\ RegionOwns(r)
  BY DEF OneOwner, MrTyped
<1>3. ASSUME NEW r \in 1 .. Len(regions) PROVE regions[r] \in SegmentKeys
  BY ElementOfSeq DEF MrTyped
<1>4. ASSUME NEW r \in Mapped PROVE r \in 1 .. Len(regions)
  BY <1>1, <1>2, <1>4, MappedIs
<1>5. ASSUME NEW r \in Mapped, NEW s \in Mapped, regions[r] = regions[s] PROVE r = s
  <2>1. CASE r \in open
    <3>1. CASE s \in open
      BY <1>2, <1>5, <2>1, <3>1 DEF RegionOwns
    <3>2. ASSUME NEW u \in Registrars, InCall(u, "remove"), call[u].region = s PROVE FALSE
      BY <1>1, <1>2, <1>5, <2>1, <3>2 DEF RegionOwns
    <3> QED BY <3>1, <3>2, MappedIs
  <2>2. ASSUME NEW t \in Registrars, InCall(t, "remove"), call[t].region = r PROVE r = s
    <3>1. CASE s \in open
      BY <1>1, <1>2, <1>5, <2>2, <3>1 DEF RegionOwns
    <3>2. ASSUME NEW u \in Registrars, InCall(u, "remove"), call[u].region = s PROVE r = s
      BY <1>1, <1>5, <2>2, <3>2
    <3> QED BY <3>1, <3>2, MappedIs
  <2> QED BY <2>1, <2>2, MappedIs
<1>6. ASSUME NEW t \in Registrars, InCall(t, "remove")
      PROVE  call[t].region \in Mapped /\ call[t].region \notin open
  <2>1. call[t].region \in Mapped
    BY <1>6, MappedIs
  <2>2. ASSUME call[t].region \in open PROVE FALSE
    BY <1>1, <1>2, <1>6, <2>2 DEF RegionOwns
  <2> QED BY <2>1, <2>2
<1> QED
  BY <1>1, <1>3, <1>4, <1>5, <1>6

\* hash_remove takes the entry of the region that is closed out of its list,
\* whatever the map has beside it.
LEMMA RemovedFromBucket ==
  ASSUME RegionInv, NEW t \in Registrars, RemoveRegion(t)
  PROVE  /\ mrMap' \in Heaps(1 .. MaxRegions, Buckets)
         /\ \A b \in Buckets : \E q \in Seq(1 .. Len(regions)) :
              Holds(mrMap', b, q) /\ Members(q) = InBucket(b) \ {call[t].region}
<1> DEFINE n == Len(regions)
           E == 1 .. MaxRegions
           k == call[t].key
           r == call[t].region
           B == BucketOf(k)
           matching == {x \in 1 .. n : regions[x] = k}
<1>1. /\ MrTyped /\ OneOwner /\ mrMap \in Heaps(E, Buckets) /\ InCall(t, "remove")
      /\ mrMap' = UnlinkedMatch(mrMap, B, n, matching)
  BY DEF RegionInv, MrTyped, RemoveRegion
<1>2. n \in Nat /\ n <= MaxRegions /\ MaxRegions \in Nat /\ Null \notin E /\ 1 .. n \subseteq E
  <2>1. n \in Nat /\ Cardinality(Preparing) \in Nat /\ n + Cardinality(Preparing) <= MaxRegions
    BY <1>1, PreparingCounts DEF MrTyped
  <2> QED BY <2>1, KeysAssumption DEF Null
<1>3. /\ r \in Mapped /\ r \in 1 .. n /\ regions[r] = k
      /\ k \in SegmentKeys /\ B \in Buckets
      /\ \A s \in Mapped : s \in matching <=> s = r
  BY <1>1, MappedKeys, BucketIsOne
<1>4. PICK p \in Seq(1 .. n) : Holds(mrMap, B, p) /\ Members(p) = InBucket(B)
  BY <1>3 DEF RegionInv, BucketLists
<1>5. p \in Seq(E) /\ Len(p) \in Nat /\ Len(p) <= n /\ NonRepeating(p)
  BY <1>2, <1>4, SeqMonotonic, NoLongerThanEntries, LenProperties DEF Holds
<1>6. PICK i \in 1 .. Len(p) : p[i] = r
  BY <1>3, <1>4 DEF Members, InBucket
<1>7. \A j \in 1 .. Len(p) : p[j] \in matching <=> j = i
  <2>1. \A j \in 1 .. Len(p) : p[j] \in Mapped
    BY <1>4 DEF Members, InBucket
  <2> QED BY <1>3, <1>5, <1>6, <2>1 DEF NonRepeating
<1>8. mrMap' = UnlinkedAt(mrMap, B, p, i)
  <2> HIDE DEF matching, E, n, k, r, B
  <2> QED BY <1>1, <1>2, <1>4, <1>5, <1>7, UnlinkedMatchFinds
<1>9. UnlinkedFields(E, Buckets, mrMap, B, p, i, mrMap.next[p[i]], mrMap')
  <2> HIDE DEF matching, E, n, k, r, B
  <2> QED BY <1>1, <1>2, <1>3, <1>5, <1>8, UnlinkedAtFields
<1>10. mrMap' \in Heaps(E, Buckets)
  BY <1>9 DEF UnlinkedFields
<1>11. \E q \in Seq(1 .. n) : Holds(mrMap', B, q) /\ Members(q) = InBucket(B) \ {r}
  <2>1. Holds(mrMap', B, Without(p, i))
    <3> HIDE DEF matching, E, n, k, r, B
    <3> QED BY <1>1, <1>2, <1>3, <1>4, <1>5, <1>8, UnlinkedAtRemoves
  <2>2. /\ Without(p, i) \in Seq(1 .. n)
        /\ \A x : x \in Members(Without(p, i)) <=> x # p[i] /\ x \in Members(p)
    <3>1. PICK q : q = Without(p, i)
      OBVIOUS
    <3>2. HasOthers(1 .. n, p, i, q)
      BY <1>4, <1>5, <1>6, <3>1, WithoutKeepsOthers
    <3>3. \A x : /\ x \in Members(q) <=> \E j \in 1 .. Len(q) : q[j] = x
                 /\ x \in Members(p) <=> \E j \in 1 .. Len(p) : p[j] = x
      BY DEF Members
    <3> QED
      BY <3>1, <3>2, <3>3 DEF HasOthers
  <2>3. Members(Without(p, i)) = InBucket(B) \ {r}
    BY <1>4, <1>6, <2>2
  <2> QED BY <2>1, <2>2, <2>3
<1>12. ASSUME NEW b \in Buckets \ {B}
       PROVE  \E q \in Seq(1 .. n) : Holds(mrMap', b, q) /\ Members(q) = InBucket(b) \ {r}
  <2>1. PICK q \in Seq(1 .. n) : Holds(mrMap, b, q) /\ Members(q) = InBucket(b)
    BY DEF RegionInv, BucketLists
  <2>2. mrMap'.list[b] = mrMap.list[b]
    BY <1>9 DEF UnlinkedFields
  <2>3. ASSUME NEW j \in 1 .. Len(q) PROVE mrMap'.next[q[j]] = mrMap.next[q[j]]
    <3>1. q[j] \in InBucket(b) /\ q[j] \in E
      BY <1>2, <2>1, <2>3, ElementOfSeq DEF Members
    <3>2. i # 1 => p[i - 1] \in InBucket(B)
      BY <1>4, <1>5, <1>6 DEF Members
    <3>3. i # 1 => q[j] # p[i - 1]
      BY <3>1, <3>2 DEF InBucket
    <3> QED BY <1>9, <3>1, <3>3 DEF UnlinkedFields
  <2>4. Holds(mrMap', b, q)
    BY <2>1, <2>2, <2>3, HoldsStill
  <2>5. r \notin InBucket(b)
    BY <1>3 DEF InBucket
  <2> QED BY <2>1, <2>4, <2>5
<1> QED
  BY <1>3, <1>10, <1>11, <1>12

\* Who prepares a segment after a step of t is who did before, but for t.
LEMMA PreparingAfter ==
  ASSUME MrTyped, NEW t \in Registrars, \A u \in Registrars \ {t} : call'[u] = call[u]
  PROVE  /\ InCall(t, "idle") /\ call'[t].pc = "prepare" =>
              Cardinality(Preparing') = Cardinality(Preparing) + 1
         /\ InCall(t, "put") /\ call'[t].pc = "idle" =>
              Cardinality(Preparing') = Cardinality(Preparing) - 1
         /\ call'[t].pc \in {"prepare", "put"} /\ call[t].pc \in {"prepare", "put"} =>
              Cardinality(Preparing') = Cardinality(Preparing)
         /\ call'[t].pc \notin {"prepare", "put"} => Cardinality(Preparing') <= Cardinality(Preparing)
<1>1. IsFiniteSet(Preparing) /\ Cardinality(Preparing) \in Nat
  BY PreparingCounts
<1>2. \A u \in Registrars \ {t} : u \in Preparing' <=> u \in Preparing
  BY DEF Preparing
<1>3. /\ Preparing \subseteq Registrars /\ Preparing' \subseteq Registrars
      /\ t \in Preparing <=> call[t].pc \in {"prepare", "put"}
      /\ t \in Preparing' <=> call'[t].pc \in {"prepare", "put"}
  BY DEF Preparing
<1>4. ASSUME InCall(t, "idle"), call'[t].pc = "prepare"
      PROVE  Cardinality(Preparing') = Cardinality(Preparing) + 1
  <2>1. Preparing' = Preparing \cup {t} /\ t \notin Preparing
    BY <1>2, <1>3, <1>4 DEF InCall
  <2> QED BY <1>1, <2>1, FS_AddElement
<1>5. ASSUME InCall(t, "put"), call'[t].pc = "idle"
      PROVE  Cardinality(Preparing') = Cardinality(Preparing) - 1
  <2>1. Preparing' = Preparing \ {t} /\ t \in Preparing
    BY <1>2, <1>3, <1>5 DEF InCall
  <2> QED BY <1>1, <2>1, FS_RemoveElement
<1>6. ASSUME call'[t].pc \in {"prepare", "put"}, call[t].pc \in {"prepare", "put"}
      PROVE  Cardinality(Preparing') = Cardinality(Preparing)
  <2>1. Preparing' = Preparing
    BY <1>2, <1>3, <1>6
  <2> QED BY <2>1
<1>7. ASSUME call'[t].pc \notin {"prepare", "put"}
      PROVE  Cardinality(Preparing') <= Cardinality(Preparing)
  <2>1. Preparing' \subseteq Preparing
    BY <1>2, <1>3, <1>7
  <2> QED BY <1>1, <2>1, FS_Subset
<1> QED BY <1>4, <1>5, <1>6, <1>7

\* The next region is a fresh entry, and the key of an open one is its own.
LEMMA NextRegion ==
  ASSUME RegionInv, NEW t \in Registrars, InCall(t, "put")
  PROVE  /\ Len(regions) \in Nat /\ Len(regions) + 1 \in 1 .. MaxRegions
         /\ call[t].key \in SegmentKeys
         /\ Append(regions, call[t].key) \in Seq(SegmentKeys)
         /\ Len(Append(regions, call[t].key)) = Len(regions) + 1
         /\ \A r \in 1 .. Len(regions) : Append(regions, call[t].key)[r] = regions[r]
         /\ Append(regions, call[t].key)[Len(regions) + 1] = call[t].key
<1>1. Len(regions) \in Nat /\ Len(regions) + 1 <= MaxRegions
  BY PreparingCounts DEF RegionInv
<1>2. call[t].key \in SegmentKeys /\ regions \in Seq(SegmentKeys)
  BY DEF RegionInv, OneOwner, CallOwns, InACall, InCall, MrTyped
<1> QED
  BY <1>1, <1>2, KeysAssumption, AppendProperties

\* MrTyped holds after every step.
LEMMA MrTypedStep == RegionInv /\ [MrNext]_mrVars => MrTyped'
<1> SUFFICES ASSUME RegionInv, [MrNext]_mrVars PROVE MrTyped'
  OBVIOUS
<1>1. MrTyped /\ OneOwner
  BY DEF RegionInv
<1>2. \A t \in Registrars : InACall(t) => call[t].key \in SegmentKeys
  BY <1>1 DEF OneOwner, CallOwns
<1>3. /\ regions \in Seq(SegmentKeys) /\ Len(regions) \in Nat /\ MaxRegions \in Nat
      /\ \A r \in 1 .. Len(regions) : regions[r] \in SegmentKeys
      /\ \A k \in SegmentKeys : k \in Nat
      /\ Cardinality(Preparing) \in Nat
  BY <1>1, PreparingCounts, KeysAssumption, ElementOfSeq DEF MrTyped, SegmentKeys
<1>4. CASE UNCHANGED mrVars
  <2>1. Preparing' = Preparing
    BY <1>4 DEF mrVars, Preparing
  <2> QED BY <1>1, <1>4, <2>1 DEF mrVars, MrTyped, Heaps
<1>5. ASSUME NEW t \in Registrars, NEW k \in RequestedKeys, CreateSegment(t, k) PROVE MrTyped'
  <2>1. k \in SegmentKeys /\ k \in Nat
    BY <1>3, <1>5 DEF CreateSegment, FitsSegmentId
  <2>2. /\ call' \in [Registrars -> [pc : Phases, key : Nat, region : Nat]]
        /\ call'[t].pc = "prepare" /\ \A u \in Registrars \ {t} : call'[u] = call[u]
    BY <1>1, <1>5, <2>1, CallAfter, OneCall DEF Phases
  <2>3. Cardinality(Preparing') = Cardinality(Preparing) + 1
    BY <1>1, <1>5, <2>2, PreparingAfter DEF CreateSegment
  <2>4. Len(regions) + Cardinality(Preparing) < MaxRegions
    BY <1>5 DEF CreateSegment, Preparing
  <2> QED BY <1>1, <1>3, <1>5, <2>1, <2>2, <2>3, <2>4 DEF CreateSegment, MrTyped, Heaps
<1>6. ASSUME NEW t \in Registrars, SegmentAvailable(t) PROVE MrTyped'
  <2>1. call[t].key \in SegmentKeys /\ call[t].key \in Nat /\ call[t].region \in Nat
    BY <1>1, <1>2, <1>3, <1>6, CallParts DEF SegmentAvailable, InCall, InACall
  <2>2. /\ call' \in [Registrars -> [pc : Phases, key : Nat, region : Nat]]
        /\ call'[t].pc = "put" /\ \A u \in Registrars \ {t} : call'[u] = call[u]
    BY <1>1, <1>6, <2>1, CallAfter, OneCall DEF Phases
  <2>3. Cardinality(Preparing') = Cardinality(Preparing)
    BY <1>1, <1>6, <2>2, PreparingAfter DEF SegmentAvailable, InCall
  <2> QED BY <1>1, <1>3, <1>6, <2>1, <2>2, <2>3 DEF SegmentAvailable, MrTyped, Heaps
<1>7. ASSUME NEW t \in Registrars, PutRegion(t) PROVE MrTyped'
  <2>1. InCall(t, "put")
    BY <1>7 DEF PutRegion
  <2>2. /\ call' \in [Registrars -> [pc : Phases, key : Nat, region : Nat]]
        /\ call'[t].pc = "idle" /\ \A u \in Registrars \ {t} : call'[u] = call[u]
    BY <1>1, <1>7, CallAfter, OneCall DEF Phases
  <2>3. Cardinality(Preparing') = Cardinality(Preparing) - 1
    BY <1>1, <2>1, <2>2, PreparingAfter
  <2>4. PICK r : r = Len(regions) + 1
    OBVIOUS
  <2>5. r \in 1 .. MaxRegions /\ BucketOf(call[t].key) \in Buckets
    BY <2>1, <2>4, NextRegion, BucketIsOne
  <2>6. mrMap' \in Heaps(1 .. MaxRegions, Buckets)
    BY <1>1, <1>7, <2>4, <2>5, LinkedTailInHeaps DEF PutRegion, MrTyped
  <2>7. /\ regions' \in Seq(SegmentKeys) /\ Len(regions') = r
        /\ segment' = segment /\ open' = open \cup {r}
    BY <1>7, <2>1, <2>4, NextRegion DEF PutRegion
  <2>8. open' \subseteq 1 .. Len(regions')
    <3>1. open \subseteq 1 .. Len(regions) /\ r \in Nat
      BY <1>1, <1>3, <2>4 DEF MrTyped
    <3>2. 1 .. Len(regions) \subseteq 1 .. r /\ r \in 1 .. r
      BY <1>3, <2>4
    <3> QED BY <2>7, <3>1, <3>2
  <2> QED BY <1>1, <1>3, <2>2, <2>3, <2>4, <2>6, <2>7, <2>8, SMTT(30) DEF MrTyped, Heaps
<1>8. ASSUME NEW t \in Registrars, NEW r \in open, CloseRegion(t, r) PROVE MrTyped'
  <2>1. r \in 1 .. Len(regions) /\ r \in Nat /\ regions[r] \in Nat
    BY <1>1, <1>3 DEF MrTyped
  <2>2. /\ call' \in [Registrars -> [pc : Phases, key : Nat, region : Nat]]
        /\ call'[t].pc = "remove" /\ \A u \in Registrars \ {t} : call'[u] = call[u]
    BY <1>1, <1>8, <2>1, CallAfter, OneCall DEF Phases
  <2>3. Cardinality(Preparing') <= Cardinality(Preparing) /\ Cardinality(Preparing') \in Nat
    <3>1. Preparing' = Preparing
      BY <1>8, <2>2 DEF CloseRegion, InCall, Preparing
    <3> QED BY <1>3, <3>1
  <2> QED BY <1>1, <1>3, <1>8, <2>2, <2>3, SMTT(30) DEF CloseRegion, MrTyped, Heaps
<1>9. ASSUME NEW t \in Registrars, RemoveRegion(t) PROVE MrTyped'
  <2>1. call[t].key \in SegmentKeys /\ call[t].key \in Nat /\ call[t].region \in Nat
    BY <1>1, <1>2, <1>3, <1>9, CallParts DEF RemoveRegion, InCall, InACall
  <2>2. /\ call' \in [Registrars -> [pc : Phases, key : Nat, region : Nat]]
        /\ call'[t].pc = "unavailable" /\ \A u \in Registrars \ {t} : call'[u] = call[u]
    BY <1>1, <1>9, <2>1, CallAfter, OneCall DEF Phases
  <2>3. Preparing' = Preparing
    BY <1>9, <2>2 DEF RemoveRegion, InCall, Preparing
  <2>4. mrMap' \in Heaps(1 .. MaxRegions, Buckets)
    BY <1>9, RemovedFromBucket
  <2> QED BY <1>1, <1>3, <1>9, <2>2, <2>3, <2>4 DEF RemoveRegion, MrTyped, Heaps
<1>10. ASSUME NEW t \in Registrars, SegmentUnavailable(t) PROVE MrTyped'
  <2>1. call[t].key \in SegmentKeys /\ call[t].key \in Nat /\ call[t].region \in Nat
    BY <1>1, <1>2, <1>3, <1>10, CallParts DEF SegmentUnavailable, InCall, InACall
  <2>2. /\ call' \in [Registrars -> [pc : Phases, key : Nat, region : Nat]]
        /\ call'[t].pc = "destroy" /\ \A u \in Registrars \ {t} : call'[u] = call[u]
    BY <1>1, <1>10, <2>1, CallAfter, OneCall DEF Phases
  <2>3. Preparing' = Preparing
    BY <1>10, <2>2 DEF SegmentUnavailable, InCall, Preparing
  <2> QED BY <1>1, <1>3, <1>10, <2>1, <2>2, <2>3 DEF SegmentUnavailable, MrTyped, Heaps
<1>11. ASSUME NEW t \in Registrars, RemoveSegment(t) PROVE MrTyped'
  <2>1. call[t].key \in SegmentKeys
    BY <1>2, <1>11 DEF RemoveSegment, InCall, InACall
  <2>2. /\ call' \in [Registrars -> [pc : Phases, key : Nat, region : Nat]]
        /\ call'[t].pc = "idle" /\ \A u \in Registrars \ {t} : call'[u] = call[u]
    BY <1>1, <1>11, CallAfter, OneCall DEF Phases
  <2>3. Preparing' = Preparing
    BY <1>11, <2>2 DEF RemoveSegment, InCall, Preparing
  <2> QED BY <1>1, <1>3, <1>11, <2>1, <2>2, <2>3 DEF RemoveSegment, MrTyped, Heaps
<1>12. ASSUME NEW t \in Registrars, LeaveSegment(t) PROVE MrTyped'
  <2>2. /\ call' \in [Registrars -> [pc : Phases, key : Nat, region : Nat]]
        /\ call'[t].pc = "idle" /\ \A u \in Registrars \ {t} : call'[u] = call[u]
    BY <1>1, <1>12, CallAfter, OneCall DEF Phases
  <2>3. Cardinality(Preparing') <= Cardinality(Preparing) /\ Cardinality(Preparing') \in Nat
    <3>1. Preparing' \subseteq Preparing
      BY <2>2 DEF Preparing
    <3> QED BY <1>1, <1>3, <3>1, PreparingCounts, FS_Subset, FS_CardinalityType
  <2> QED BY <1>1, <1>3, <1>12, <2>2, <2>3 DEF LeaveSegment, MrTyped, Heaps
<1> QED
  BY <1>4, <1>5, <1>6, <1>7, <1>8, <1>9, <1>10, <1>11, <1>12 DEF MrNext

\* What a step of the thread t makes of its call, and that it has no other.
LEMMA CallsAfter ==
  ASSUME RegionInv, NEW t \in Registrars
  PROVE  /\ \A k \in RequestedKeys : CreateSegment(t, k) =>
              /\ k \in SegmentKeys /\ call'[t].pc = "prepare" /\ call'[t].key = k
              /\ \A u \in Registrars \ {t} : call'[u] = call[u]
         /\ SegmentAvailable(t) =>
              /\ call'[t].pc = "put" /\ call'[t].key = call[t].key
              /\ \A u \in Registrars \ {t} : call'[u] = call[u]
         /\ PutRegion(t) \/ RemoveSegment(t) \/ LeaveSegment(t) =>
              call'[t].pc = "idle" /\ \A u \in Registrars \ {t} : call'[u] = call[u]
         /\ \A r \in open : CloseRegion(t, r) =>
              /\ call'[t].pc = "remove" /\ call'[t].key = regions[r] /\ call'[t].region = r
              /\ \A u \in Registrars \ {t} : call'[u] = call[u]
         /\ RemoveRegion(t) =>
              /\ call'[t].pc = "unavailable" /\ call'[t].key = call[t].key
              /\ \A u \in Registrars \ {t} : call'[u] = call[u]
         /\ SegmentUnavailable(t) =>
              /\ call'[t].pc = "destroy" /\ call'[t].key = call[t].key
              /\ \A u \in Registrars \ {t} : call'[u] = call[u]
<1>1. MrTyped /\ OneOwner /\ call[t].key \in Nat /\ call[t].region \in Nat
  BY CallParts DEF RegionInv
<1>2. ASSUME NEW k \in RequestedKeys, CreateSegment(t, k)
      PROVE  /\ k \in SegmentKeys /\ call'[t].pc = "prepare" /\ call'[t].key = k
             /\ \A u \in Registrars \ {t} : call'[u] = call[u]
  <2>1. k \in SegmentKeys /\ k \in Nat
    BY <1>2, KeysAssumption DEF CreateSegment, FitsSegmentId
  <2> QED BY <1>1, <1>2, <2>1, CallAfter, OneCall DEF Phases
<1>3. ASSUME NEW r \in open, CloseRegion(t, r)
      PROVE  /\ call'[t].pc = "remove" /\ call'[t].key = regions[r] /\ call'[t].region = r
             /\ \A u \in Registrars \ {t} : call'[u] = call[u]
  <2>1. r \in Mapped
    BY <1>3, MappedIs
  <2>2. r \in Nat /\ regions[r] \in Nat
    BY <1>1, <2>1, MappedKeys DEF SegmentKeys
  <2> QED BY <1>1, <1>3, <2>2, CallAfter, OneCall DEF Phases
<1>4. ASSUME SegmentAvailable(t)
      PROVE  /\ call'[t].pc = "put" /\ call'[t].key = call[t].key
             /\ \A u \in Registrars \ {t} : call'[u] = call[u]
  BY <1>1, <1>4, CallAfter, OneCall DEF Phases
<1>5. ASSUME PutRegion(t) \/ RemoveSegment(t) \/ LeaveSegment(t)
      PROVE  call'[t].pc = "idle" /\ \A u \in Registrars \ {t} : call'[u] = call[u]
  BY <1>1, <1>5, CallAfter, OneCall DEF Phases
<1>6. ASSUME RemoveRegion(t)
      PROVE  /\ call'[t].pc = "unavailable" /\ call'[t].key = call[t].key
             /\ \A u \in Registrars \ {t} : call'[u] = call[u]
  BY <1>1, <1>6, CallAfter, OneCall DEF Phases
<1>7. ASSUME SegmentUnavailable(t)
      PROVE  /\ call'[t].pc = "destroy" /\ call'[t].key = call[t].key
             /\ \A u \in Registrars \ {t} : call'[u] = call[u]
  BY <1>1, <1>7, CallAfter, OneCall DEF Phases
<1> QED
  BY <1>2, <1>3, <1>4, <1>5, <1>6, <1>7

\* OneOwner holds after every step: what a call owns it hands on to the region
\* it puts in the map, and has from the region it takes out.
LEMMA OwnerStep == RegionInv /\ [MrNext]_mrVars => OneOwner'
<1> SUFFICES ASSUME RegionInv, [MrNext]_mrVars PROVE OneOwner'
  OBVIOUS
<1>1. MrTyped /\ OneOwner
  BY DEF RegionInv
<1>2. /\ \A t \in Registrars : CallOwns(t)
      /\ \A r \in open : RegionOwns(r)
      /\ \A k \in SegmentKeys : SegmentOwned(k)
  BY <1>1 DEF OneOwner
<1>3. /\ segment \in [SegmentKeys -> {"none", "created", "available"}]
      /\ \A r \in open : r \in 1 .. Len(regions) /\ regions[r] \in SegmentKeys
  BY <1>1, MappedIs, MappedKeys DEF MrTyped
<1>4. CASE UNCHANGED mrVars
  BY <1>2, <1>4 DEF mrVars, OneOwner, CallOwns, RegionOwns, SegmentOwned, InACall, InCall
<1>5. ASSUME NEW t \in Registrars, NEW c \in RequestedKeys, CreateSegment(t, c) PROVE OneOwner'
  <2>1. /\ c \in SegmentKeys /\ call'[t].pc = "prepare" /\ call'[t].key = c
        /\ \A u \in Registrars \ {t} : call'[u] = call[u]
    BY <1>5, CallsAfter
  <2>2. ASSUME NEW u \in Registrars PROVE CallOwns(u)'
    <3>1. segment[c] = "none" /\ c \notin left /\ left' = left /\ regions' = regions
      BY <1>2, <1>5, <2>1 DEF CreateSegment, SegmentUnused, SegmentOwned
    <3>2. segment' = [segment EXCEPT ![c] = "created"]
      BY <1>5 DEF CreateSegment
    <3>3. \A w \in Registrars : InACall(w) => call[w].key # c
      BY <1>2, <3>1 DEF CallOwns, During
    <3>4. CASE u = t
      BY <1>3, <2>1, <3>1, <3>2, <3>3, <3>4 DEF CallOwns, InACall, During
    <3>5. CASE u # t
      BY <1>2, <1>3, <2>1, <3>1, <3>2, <3>3, <3>5 DEF CallOwns, InACall
    <3> QED BY <3>4, <3>5
  <2>3. ASSUME NEW r \in open' PROVE RegionOwns(r)'
    BY <1>2, <1>3, <1>5, <2>1 DEF CallOwns, RegionOwns, InACall, CreateSegment, SegmentUnused, InCall
  <2>4. ASSUME NEW k \in SegmentKeys PROVE SegmentOwned(k)'
    BY <1>2, <1>3, <1>5, <2>1 DEF CallOwns, RegionOwns, SegmentOwned, InACall, CreateSegment, SegmentUnused, InCall
  <2> QED BY <2>2, <2>3, <2>4 DEF OneOwner
<1>6. ASSUME NEW t \in Registrars, SegmentAvailable(t) PROVE OneOwner'
  <2>1. /\ call'[t].pc = "put" /\ call'[t].key = call[t].key
        /\ \A u \in Registrars \ {t} : call'[u] = call[u]
    BY <1>6, CallsAfter
  <2>2. ASSUME NEW u \in Registrars PROVE CallOwns(u)'
    BY <1>2, <1>3, <1>6, <2>1 DEF CallOwns, InACall, During, SegmentAvailable, InCall
  <2>3. ASSUME NEW r \in open' PROVE RegionOwns(r)'
    BY <1>2, <1>3, <1>6, <2>1 DEF CallOwns, RegionOwns, InACall, SegmentAvailable, InCall
  <2>4. ASSUME NEW k \in SegmentKeys PROVE SegmentOwned(k)'
    BY <1>2, <1>3, <1>6, <2>1 DEF CallOwns, RegionOwns, SegmentOwned, InACall, SegmentAvailable, InCall
  <2> QED BY <2>2, <2>3, <2>4 DEF OneOwner
<1>7. ASSUME NEW t \in Registrars, PutRegion(t) PROVE OneOwner'
  <2>0. call'[t].pc = "idle" /\ \A u \in Registrars \ {t} : call'[u] = call[u]
    BY <1>7, CallsAfter
  <2>00. PICK n \in Nat : n = Len(regions)
    BY <1>7, NextRegion DEF PutRegion
  <2>1. PICK c :
          /\ n = Len(regions) /\ c = call[t].key /\ c \in SegmentKeys
          /\ Len(regions') = n + 1 /\ open' = open \cup {n + 1}
          /\ \A r \in 1 .. n : regions'[r] = regions[r]
          /\ regions'[n + 1] = c
    BY <1>7, <2>00, NextRegion DEF PutRegion
  <2>2. /\ CallOwns(t) /\ call[t].pc = "put" /\ InACall(t)
        /\ segment' = segment /\ left' = left
    BY <1>2, <1>7 DEF PutRegion, InCall, InACall
  <2>3. \A r \in open : r # n + 1 /\ regions'[r] = regions[r] /\ regions[r] # c
    BY <1>2, <1>3, <2>1, <2>2 DEF RegionOwns
  <2>4. \A u \in Registrars \ {t} : InACall(u) => call[u].key # c
    BY <2>1, <2>2 DEF CallOwns
  <2>5. ASSUME NEW u \in Registrars PROVE CallOwns(u)'
    <3>1. CASE u = t
      BY <2>0, <3>1 DEF CallOwns, InACall
    <3>2. CASE u # t
      <4>1. CallOwns(u) /\ call'[u] = call[u]
        BY <1>2, <2>0, <3>2
      <4>2. ASSUME call[u].pc = "remove", InACall(u)
            PROVE  /\ call[u].region \in 1 .. Len(regions')
                   /\ regions'[call[u].region] = call[u].key
        BY <2>1, <4>1, <4>2 DEF CallOwns
      <4> QED BY <2>0, <2>2, <4>1, <4>2 DEF CallOwns, InACall
    <3> QED BY <3>1, <3>2
  <2>6. ASSUME NEW r \in open' PROVE RegionOwns(r)'
    <3>1. CASE r \in open
      BY <1>2, <2>0, <2>1, <2>2, <2>3, <3>1 DEF RegionOwns, InACall
    <3>2. CASE r = n + 1
      BY <2>0, <2>1, <2>2, <2>3, <2>4, <3>2 DEF RegionOwns, CallOwns, During, InACall
    <3> QED BY <2>1, <3>1, <3>2
  <2>7. ASSUME NEW k \in SegmentKeys PROVE SegmentOwned(k)'
    <3>1. CASE k = c
      BY <2>1, <2>2, <3>1 DEF SegmentOwned, CallOwns, During
    <3>2. CASE k # c
      BY <1>2, <2>0, <2>1, <2>2, <2>3, <3>2 DEF SegmentOwned, InACall
    <3> QED BY <3>1, <3>2
  <2> QED BY <2>5, <2>6, <2>7 DEF OneOwner
<1>8. ASSUME NEW t \in Registrars, NEW s \in open, CloseRegion(t, s) PROVE OneOwner'
  <2>1. /\ call'[t].pc = "remove" /\ call'[t].key = regions[s] /\ call'[t].region = s
        /\ \A u \in Registrars \ {t} : call'[u] = call[u]
    BY <1>8, CallsAfter
  <2>2. ASSUME NEW u \in Registrars PROVE CallOwns(u)'
    <3>1. segment' = segment /\ left' = left /\ regions' = regions
      BY <1>8 DEF CloseRegion
    <3>2. RegionOwns(s) /\ s \in 1 .. Len(regions) /\ regions[s] \in SegmentKeys
      BY <1>2, <1>3, <1>8
    <3>3. CASE u = t
      BY <2>1, <3>1, <3>2, <3>3 DEF CallOwns, RegionOwns, InACall, During
    <3>4. CASE u # t
      BY <1>2, <2>1, <3>1, <3>2, <3>4 DEF CallOwns, RegionOwns, InACall
    <3> QED BY <3>3, <3>4
  <2>3. ASSUME NEW r \in open' PROVE RegionOwns(r)'
    BY <1>2, <1>3, <1>8, <2>1 DEF CallOwns, RegionOwns, InACall, CloseRegion, InCall, During
  <2>4. ASSUME NEW k \in SegmentKeys PROVE SegmentOwned(k)'
    BY <1>2, <1>3, <1>8, <2>1 DEF CallOwns, RegionOwns, SegmentOwned, InACall, CloseRegion, InCall, During
  <2> QED BY <2>2, <2>3, <2>4 DEF OneOwner
<1>9. ASSUME NEW t \in Registrars, RemoveRegion(t) PROVE OneOwner'
  <2>1. /\ call'[t].pc = "unavailable" /\ call'[t].key = call[t].key
        /\ \A u \in Registrars \ {t} : call'[u] = call[u]
    BY <1>9, CallsAfter
  <2>2. ASSUME NEW u \in Registrars PROVE CallOwns(u)'
    BY <1>2, <1>3, <1>9, <2>1 DEF CallOwns, InACall, During, RemoveRegion, InCall
  <2>3. ASSUME NEW r \in open' PROVE RegionOwns(r)'
    BY <1>2, <1>3, <1>9, <2>1 DEF CallOwns, RegionOwns, InACall, RemoveRegion, InCall
  <2>4. ASSUME NEW k \in SegmentKeys PROVE SegmentOwned(k)'
    BY <1>2, <1>3, <1>9, <2>1 DEF CallOwns, RegionOwns, SegmentOwned, InACall, RemoveRegion, InCall
  <2> QED BY <2>2, <2>3, <2>4 DEF OneOwner
<1>10. ASSUME NEW t \in Registrars, SegmentUnavailable(t) PROVE OneOwner'
  <2>1. /\ call'[t].pc = "destroy" /\ call'[t].key = call[t].key
        /\ \A u \in Registrars \ {t} : call'[u] = call[u]
    BY <1>10, CallsAfter
  <2>2. ASSUME NEW u \in Registrars PROVE CallOwns(u)'
    BY <1>2, <1>3, <1>10, <2>1 DEF CallOwns, InACall, During, SegmentUnavailable, InCall
  <2>3. ASSUME NEW r \in open' PROVE RegionOwns(r)'
    BY <1>2, <1>3, <1>10, <2>1 DEF CallOwns, RegionOwns, InACall, SegmentUnavailable, InCall
  <2>4. ASSUME NEW k \in SegmentKeys PROVE SegmentOwned(k)'
    BY <1>2, <1>3, <1>10, <2>1 DEF CallOwns, RegionOwns, SegmentOwned, InACall, SegmentUnavailable, InCall
  <2> QED BY <2>2, <2>3, <2>4 DEF OneOwner
<1>11. ASSUME NEW t \in Registrars, RemoveSegment(t) PROVE OneOwner'
  <2>1. /\ call'[t].pc = "idle"
        /\ \A u \in Registrars \ {t} : call'[u] = call[u]
    BY <1>11, CallsAfter
  <2>2. ASSUME NEW u \in Registrars PROVE CallOwns(u)'
    BY <1>2, <1>3, <1>11, <2>1 DEF CallOwns, InACall, During, RemoveSegment, InCall
  <2>3. ASSUME NEW r \in open' PROVE RegionOwns(r)'
    BY <1>2, <1>3, <1>11, <2>1 DEF CallOwns, RegionOwns, InACall, RemoveSegment, InCall
  <2>4. ASSUME NEW k \in SegmentKeys PROVE SegmentOwned(k)'
    BY <1>2, <1>3, <1>11, <2>1 DEF CallOwns, RegionOwns, SegmentOwned, InACall, RemoveSegment, InCall
  <2> QED BY <2>2, <2>3, <2>4 DEF OneOwner
<1>12. ASSUME NEW t \in Registrars, LeaveSegment(t) PROVE OneOwner'
  <2>1. /\ call'[t].pc = "idle"
        /\ \A u \in Registrars \ {t} : call'[u] = call[u]
    BY <1>12, CallsAfter
  <2>2. ASSUME NEW u \in Registrars PROVE CallOwns(u)'
    BY <1>2, <1>3, <1>12, <2>1 DEF CallOwns, InACall, During, LeaveSegment, InCall
  <2>3. ASSUME NEW r \in open' PROVE RegionOwns(r)'
    BY <1>2, <1>3, <1>12, <2>1 DEF CallOwns, RegionOwns, InACall, LeaveSegment, InCall, During
  <2>4. ASSUME NEW k \in SegmentKeys PROVE SegmentOwned(k)'
    BY <1>2, <1>3, <1>12, <2>1 DEF CallOwns, RegionOwns, SegmentOwned, InACall, LeaveSegment, InCall, During
  <2> QED BY <2>2, <2>3, <2>4 DEF OneOwner
<1> QED
  BY <1>4, <1>5, <1>6, <1>7, <1>8, <1>9, <1>10, <1>11, <1>12 DEF MrNext

\* Only PutRegion and RemoveRegion change what is mapped: from an open region
\* to one a close has in hand is no change.
LEMMA MappedAfter ==
  ASSUME RegionInv, NEW t \in Registrars
  PROVE  /\ (\E k \in RequestedKeys : CreateSegment(t, k)) => Mapped' = Mapped
         /\ (\E r \in open : CloseRegion(t, r)) => Mapped' = Mapped
         /\ SegmentAvailable(t) \/ SegmentUnavailable(t) \/ RemoveSegment(t) \/ LeaveSegment(t)
              => Mapped' = Mapped
         /\ PutRegion(t) => Mapped' = Mapped \cup {Len(regions) + 1}
         /\ RemoveRegion(t) => Mapped' = Mapped \ {call[t].region}
<1>1. \A r : r \in Mapped' <=> \/ r \in open'
                               \/ \E u \in Registrars : call'[u].pc = "remove" /\ call'[u].region = r
  BY DEF Mapped, InCall
<1>2. \A r : r \in Mapped <=> \/ r \in open
                              \/ \E u \in Registrars : call[u].pc = "remove" /\ call[u].region = r
  BY DEF Mapped, InCall
<1>3. ASSUME open' = open, call[t].pc # "remove", call'[t].pc # "remove",
             \A u \in Registrars \ {t} : call'[u] = call[u]
      PROVE  Mapped' = Mapped
  <2>1. \A u \in Registrars : call'[u].pc = "remove" => call[u] = call'[u] /\ call[u].pc = "remove"
    BY <1>3
  <2>2. \A u \in Registrars : call[u].pc = "remove" => call[u] = call'[u] /\ call'[u].pc = "remove"
    BY <1>3
  <2>3. \A r : r \in Mapped => r \in Mapped'
    BY <1>1, <1>2, <1>3, <2>2
  <2>4. \A r : r \in Mapped' => r \in Mapped
    BY <1>1, <1>2, <1>3, <2>1
  <2> QED BY <2>3, <2>4
<1>4. ASSUME \E k \in RequestedKeys : CreateSegment(t, k) PROVE Mapped' = Mapped
  <2>1. PICK k \in RequestedKeys : CreateSegment(t, k)
    BY <1>4
  <2>2. call'[t].pc = "prepare" /\ \A u \in Registrars \ {t} : call'[u] = call[u]
    BY <2>1, CallsAfter
  <2>3. open' = open /\ call[t].pc = "idle"
    BY <2>1 DEF CreateSegment, InCall
  <2> QED BY <1>3, <2>2, <2>3
<1>5. ASSUME \E r \in open : CloseRegion(t, r) PROVE Mapped' = Mapped
  <2>1. PICK r \in open : CloseRegion(t, r)
    BY <1>5
  <2>2. /\ call'[t].pc = "remove" /\ call'[t].region = r
        /\ \A u \in Registrars \ {t} : call'[u] = call[u]
    BY <2>1, CallsAfter
  <2>3. open' = open \ {r} /\ call[t].pc = "idle"
    BY <2>1 DEF CloseRegion, InCall
  <2>4. ASSUME NEW s \in Mapped PROVE s \in Mapped'
    <3>1. CASE s \in open
      BY <1>1, <2>2, <2>3, <3>1
    <3>2. ASSUME NEW u \in Registrars, call[u].pc = "remove", call[u].region = s
          PROVE  s \in Mapped'
      BY <1>1, <2>2, <2>3, <3>2
    <3> QED BY <1>2, <3>1, <3>2
  <2>5. ASSUME NEW s \in Mapped' PROVE s \in Mapped
    <3>1. CASE s \in open'
      BY <1>2, <2>3, <3>1
    <3>2. ASSUME NEW u \in Registrars, call'[u].pc = "remove", call'[u].region = s
          PROVE  s \in Mapped
      BY <1>2, <2>1, <2>2, <3>2
    <3> QED BY <1>1, <3>1, <3>2
  <2> QED BY <2>4, <2>5
<1>6. ASSUME SegmentAvailable(t) \/ SegmentUnavailable(t) \/ RemoveSegment(t) \/ LeaveSegment(t)
      PROVE  Mapped' = Mapped
  <2>1. call'[t].pc # "remove" /\ \A u \in Registrars \ {t} : call'[u] = call[u]
    BY <1>6, CallsAfter
  <2>2. open' = open /\ call[t].pc # "remove"
    BY <1>6 DEF SegmentAvailable, SegmentUnavailable, RemoveSegment, LeaveSegment, InCall
  <2> QED BY <1>3, <2>1, <2>2
<1>7. ASSUME PutRegion(t) PROVE Mapped' = Mapped \cup {Len(regions) + 1}
  <2>1. call'[t].pc = "idle" /\ \A u \in Registrars \ {t} : call'[u] = call[u]
    BY <1>7, CallsAfter
  <2>2. open' = open \cup {Len(regions) + 1} /\ call[t].pc = "put"
    BY <1>7 DEF PutRegion, InCall
  <2>3. \A u \in Registrars : call'[u].pc = "remove" <=> call[u].pc = "remove" /\ u # t
    BY <2>1, <2>2
  <2> QED BY <1>1, <1>2, <2>1, <2>2, <2>3
<1>8. ASSUME RemoveRegion(t) PROVE Mapped' = Mapped \ {call[t].region}
  <2>1. call'[t].pc = "unavailable" /\ \A u \in Registrars \ {t} : call'[u] = call[u]
    BY <1>8, CallsAfter
  <2>2. open' = open /\ call[t].pc = "remove" /\ InCall(t, "remove")
    BY <1>8 DEF RemoveRegion, InCall
  <2>3. MrTyped /\ OneOwner
    BY DEF RegionInv
  <2>4. call[t].region \notin open
    BY <2>2, <2>3, MappedKeys
  <2>5. ASSUME NEW u \in Registrars \ {t}, call[u].pc = "remove"
        PROVE  call[u].region # call[t].region
    <3>1. InCall(u, "remove") /\ InACall(u) /\ InACall(t) /\ CallOwns(t)
      BY <2>2, <2>3, <2>5 DEF InCall, InACall, OneOwner
    <3>2. call[u].key # call[t].key
      BY <3>1, <2>5 DEF CallOwns
    <3> QED BY <2>2, <2>3, <3>1, <3>2, MappedKeys
  <2> QED BY <1>1, <1>2, <2>1, <2>2, <2>4, <2>5
<1> QED
  BY <1>4, <1>5, <1>6, <1>7, <1>8

\* hash_put adds the region at the end of its bucket's list, and to no other.
LEMMA PutInBucket ==
  ASSUME RegionInv, NEW t \in Registrars, PutRegion(t), NEW b \in Buckets
  PROVE  \E p \in Seq(1 .. Len(regions')) : Holds(mrMap', b, p) /\ Members(p) = InBucket(b)'
<1>1. MrTyped /\ OneOwner /\ InCall(t, "put") /\ mrMap \in Heaps(1 .. MaxRegions, Buckets)
  BY DEF RegionInv, PutRegion, MrTyped
<1>2. PICK n \in Nat : n = Len(regions)
  BY <1>1, NextRegion
<1>3. PICK r \in 1 .. MaxRegions : r = n + 1
  BY <1>1, <1>2, NextRegion
<1>4. PICK B \in Buckets : B = BucketOf(call[t].key)
  BY <1>1, NextRegion, BucketIsOne
<1>5. PICK E : E = 1 .. MaxRegions /\ 1 .. n \subseteq E /\ r \in E /\ Null \notin E
  BY <1>2, <1>3, KeysAssumption DEF Null
<1>6. /\ mrMap' = LinkedTail(mrMap, B, r) /\ mrMap \in Heaps(E, Buckets)
      /\ Len(regions') = r /\ regions'[r] = call[t].key
      /\ \A x \in 1 .. n : regions'[x] = regions[x]
      /\ Mapped' = Mapped \cup {r}
  BY <1>1, <1>2, <1>3, <1>4, <1>5, NextRegion, MappedAfter DEF PutRegion
<1>7. /\ \A x \in Mapped : x \in 1 .. n /\ x # r
      /\ \A c \in Buckets : InBucket(c)' = IF c = B THEN InBucket(c) \cup {r} ELSE InBucket(c)
  <2>1. \A x \in Mapped : x \in 1 .. n /\ x # r
    BY <1>1, <1>2, <1>3, MappedKeys
  <2>2. ASSUME NEW c \in Buckets
        PROVE  InBucket(c)' = IF c = B THEN InBucket(c) \cup {r} ELSE InBucket(c)
    <3>1. \A x \in Mapped : BucketOf(regions'[x]) = BucketOf(regions[x])
      BY <1>6, <2>1
    <3>2. BucketOf(regions'[r]) = B
      BY <1>4, <1>6
    <3>3. InBucket(c)' = {x \in Mapped' : BucketOf(regions'[x]) = c}
      BY DEF InBucket, BucketOf
    <3> QED BY <1>6, <3>1, <3>2, <3>3 DEF InBucket
  <2> QED BY <2>1, <2>2
<1>8. ASSUME NEW c \in Buckets
      PROVE  \E p \in Seq(E) : /\ Holds(mrMap, c, p) /\ p \in Seq(1 .. n)
                               /\ \A i \in 1 .. Len(p) : p[i] \in InBucket(c) /\ p[i] # r
                               /\ Members(p) = InBucket(c)
  <2>1. PICK p \in Seq(1 .. n) : Holds(mrMap, c, p) /\ Members(p) = InBucket(c)
    BY <1>2 DEF RegionInv, BucketLists
  <2>2. p \in Seq(E)
    BY <1>5, <2>1, SeqMonotonic
  <2>3. \A i \in 1 .. Len(p) : p[i] \in InBucket(c)
    BY <2>1 DEF Members
  <2>4. \A i \in 1 .. Len(p) : p[i] # r
    BY <1>7, <2>3 DEF InBucket
  <2> QED BY <2>1, <2>2, <2>3, <2>4
<1>9. 1 .. n \subseteq 1 .. r /\ r \in 1 .. r
  BY <1>2, <1>3
<1>10. PICK q \in Seq(E) : /\ Holds(mrMap, B, q) /\ q \in Seq(1 .. n)
                           /\ \A i \in 1 .. Len(q) : q[i] \in InBucket(B) /\ q[i] # r
                           /\ Members(q) = InBucket(B)
  BY <1>8
<1>11. CASE b = B
  <2>1. Holds(mrMap', B, Append(q, r))
    BY <1>5, <1>6, <1>10, LinkedTailAppends
  <2>2. q \in Seq(1 .. r)
    BY <1>9, <1>10, SeqMonotonic
  <2>3. PICK p : p = Append(q, r)
    OBVIOUS
  <2>4. /\ p \in Seq(1 .. r) /\ Len(q) \in Nat /\ Len(p) = Len(q) + 1
        /\ \A i \in 1 .. Len(q) : p[i] = q[i]
        /\ p[Len(q) + 1] = r
    BY <1>9, <2>2, <2>3, AppendProperties
  <2>5. Members(p) = Members(q) \cup {r}
    <3>1. 1 .. Len(p) = (1 .. Len(q)) \cup {Len(q) + 1}
      BY <2>4
    <3> QED BY <2>4, <3>1, SMTT(30) DEF Members
  <2> QED BY <1>6, <1>7, <1>10, <1>11, <2>1, <2>3, <2>4, <2>5
<1>12. CASE b # B
  <2>1. PICK p \in Seq(E) : /\ Holds(mrMap, b, p) /\ p \in Seq(1 .. n)
                            /\ \A i \in 1 .. Len(p) : p[i] \in InBucket(b) /\ p[i] # r
                            /\ Members(p) = InBucket(b)
    BY <1>8
  <2>2. ASSUME ~Empty(mrMap, B) PROVE mrMap.list[B].tail \in InBucket(B)
    <3>1. q # <<>>
      BY <1>10, <2>2 DEF Holds, Empty, NoEntries
    <3>2. Len(q) \in 1 .. Len(q)
      BY <1>10, <3>1
    <3> QED BY <1>10, <3>1, <3>2 DEF Holds
  <2>3. \A i \in 1 .. Len(p) : /\ p[i] = r => i = Len(p)
                               /\ Empty(mrMap, B) \/ p[i] # mrMap.list[B].tail \/ p[i] = r
    BY <1>12, <2>1, <2>2 DEF InBucket
  <2>4. Holds(mrMap', b, p)
    BY <1>5, <1>6, <1>12, <2>1, <2>3, LinkedTailElsewhere
  <2>5. p \in Seq(1 .. r)
    BY <1>9, <2>1, SeqMonotonic
  <2> QED BY <1>6, <1>7, <1>12, <2>1, <2>4, <2>5
<1> QED
  BY <1>11, <1>12

\* BucketLists holds after every step.
LEMMA BucketStep == RegionInv /\ [MrNext]_mrVars => BucketLists'
<1> SUFFICES ASSUME RegionInv, [MrNext]_mrVars PROVE BucketLists'
  OBVIOUS
<1>1. ASSUME mrMap' = mrMap, regions' = regions, Mapped' = Mapped PROVE BucketLists'
  BY <1>1 DEF RegionInv, BucketLists, InBucket, BucketOf, Holds
<1>2. CASE UNCHANGED mrVars
  <2>1. Mapped' = Mapped
    BY <1>2 DEF mrVars, Mapped, InCall
  <2> QED BY <1>1, <1>2, <2>1 DEF mrVars
<1>3. ASSUME NEW t \in Registrars, NEW k \in RequestedKeys, CreateSegment(t, k) PROVE BucketLists'
  BY <1>1, <1>3, MappedAfter DEF CreateSegment
<1>4. ASSUME NEW t \in Registrars,
             SegmentAvailable(t) \/ SegmentUnavailable(t) \/ RemoveSegment(t) \/ LeaveSegment(t)
      PROVE  BucketLists'
  <2>1. mrMap' = mrMap /\ regions' = regions
    BY <1>4 DEF SegmentAvailable, SegmentUnavailable, RemoveSegment, LeaveSegment
  <2> QED BY <1>1, <1>4, <2>1, MappedAfter
<1>5. ASSUME NEW t \in Registrars, NEW r \in open, CloseRegion(t, r) PROVE BucketLists'
  BY <1>1, <1>5, MappedAfter DEF CloseRegion
<1>6. ASSUME NEW t \in Registrars, PutRegion(t) PROVE BucketLists'
  <2>1. \A b \in Buckets : \E p \in Seq(1 .. Len(regions')) :
          Holds(mrMap', b, p) /\ Members(p) = InBucket(b)'
    BY <1>6, PutInBucket
  <2> QED BY <2>1 DEF BucketLists, Buckets, Holds
<1>7. ASSUME NEW t \in Registrars, RemoveRegion(t) PROVE BucketLists'
  <2>1. regions' = regions /\ Mapped' = Mapped \ {call[t].region}
    BY <1>7, MappedAfter DEF RemoveRegion
  <2>2. \A b \in Buckets : InBucket(b)' = InBucket(b) \ {call[t].region}
    BY <2>1 DEF InBucket, BucketOf
  <2>3. \A b \in Buckets : \E q \in Seq(1 .. Len(regions)) :
          Holds(mrMap', b, q) /\ Members(q) = InBucket(b) \ {call[t].region}
    BY <1>7, RemovedFromBucket
  <2> QED BY <2>1, <2>2, <2>3 DEF BucketLists, Buckets, Holds
<1> QED
  BY <1>2, <1>3, <1>4, <1>5, <1>6, <1>7 DEF MrNext

\* At first nothing is registered.
LEMMA RegionInit == MrInit => RegionInv
<1> SUFFICES ASSUME MrInit PROVE RegionInv
  OBVIOUS
<1>1. /\ segment = [k \in SegmentKeys |-> "none"] /\ regions = <<>> /\ open = {} /\ left = {}
      /\ mrMap = [next |-> [r \in 1 .. MaxRegions |-> Null], list |-> [b \in Buckets |-> NoEntries]]
      /\ call = [t \in Registrars |-> [pc |-> "idle", key |-> 0, region |-> 0]]
  BY DEF MrInit, Idle
<1>2. Preparing = {} /\ Mapped = {} /\ \A t \in Registrars : ~InACall(t)
  BY <1>1 DEF Preparing, Mapped, InCall, InACall
<1>3. MrTyped
  <2>1. Cardinality(Preparing) = 0 /\ Len(regions) = 0
    BY <1>1, <1>2, FS_EmptySet
  <2>2. mrMap \in Heaps(1 .. MaxRegions, Buckets)
    BY <1>1 DEF Heaps, NoEntries
  <2>3. call \in [Registrars -> [pc : Phases, key : Nat, region : Nat]]
    BY <1>1 DEF Phases
  <2> QED BY <1>1, <2>1, <2>2, <2>3, KeysAssumption DEF MrTyped
<1>4. OneOwner
  BY <1>1, <1>2 DEF OneOwner, CallOwns, SegmentOwned
<1>5. ASSUME NEW b \in Buckets
      PROVE  \E p \in Seq(1 .. Len(regions)) : Holds(mrMap, b, p) /\ Members(p) = InBucket(b)
  <2>1. <<>> \in Seq(1 .. Len(regions)) /\ Len(<<>>) = 0
    BY EmptySeq
  <2>2. mrMap.list[b] = NoEntries /\ InBucket(b) = {}
    BY <1>1, <1>2, <1>5 DEF InBucket
  <2>3. Holds(mrMap, b, <<>>)
    BY <2>1, <2>2 DEF Holds, NonRepeating
  <2>4. Members(<<>>) = {}
    BY <2>1 DEF Members
  <2> QED BY <2>1, <2>2, <2>3, <2>4
<1> QED
  BY <1>3, <1>4, <1>5 DEF RegionInv, BucketLists

\* The invariant is what the application, the map and DPAlib agree on.
LEMMA RegionInvAgrees == RegionInv => RegionsAgree
<1> SUFFICES ASSUME RegionInv PROVE RegionsAgree
  OBVIOUS
<1>1. MrTyped /\ OneOwner /\ BucketLists
  BY DEF RegionInv
<1>2. ASSUME NEW b \in Buckets
      PROVE  /\ WellFormed(mrMap, b, Len(regions))
             /\ {Entries(b)[i] : i \in DOMAIN Entries(b)} = {r \in Mapped : BucketOf(regions[r]) = b}
  <2>1. PICK p \in Seq(1 .. Len(regions)) : Holds(mrMap, b, p) /\ Members(p) = InBucket(b)
    BY <1>1 DEF BucketLists
  <2>2. PICK n \in Nat : n = Len(regions)
    BY <1>1, PreparingCounts
  <2>3. PICK E : E = 1 .. n /\ Null \notin E
    BY <2>2 DEF Null
  <2>4. p \in Seq(E) /\ Len(p) <= n /\ Holds(mrMap, b, p)
    BY <2>1, <2>2, <2>3, NoLongerThanEntries DEF Holds
  <2>5. WellFormed(mrMap, b, n)
    BY <2>3, <2>4, HoldsIsWellFormed
  <2>6. Entries(b) = p
    <3>1. Walk(mrMap, b, n) = p
      BY <2>3, <2>4, WalkMeetsAll
    <3> QED BY <2>2, <3>1 DEF Entries
  <2>7. DOMAIN p = 1 .. Len(p)
    BY <2>4, LenProperties
  <2> QED BY <2>1, <2>2, <2>5, <2>6, <2>7 DEF Members, InBucket
<1>3. \A r, s \in Mapped : regions[r] = regions[s] => r = s
  BY <1>1, MappedKeys
<1>4. \A r \in open : segment[regions[r]] = "available"
  BY <1>1 DEF OneOwner, RegionOwns
<1>5. ASSUME NEW k \in SegmentKeys, segment[k] # "none"
      PROVE  \/ k \in left
             \/ \E r \in open : regions[r] = k
             \/ \E t \in Registrars : ~InCall(t, "idle") /\ call[t].key = k
  BY <1>1, <1>5 DEF OneOwner, SegmentOwned, InACall, InCall
<1> QED
  BY <1>2, <1>3, <1>4, <1>5 DEF RegionsAgree

\* dpa_mr_reg and dpa_mr_close: the application, the map of the domain and
\* DPAlib agree on which regions there are (RegionsAgree), whatever calls are
\* under way and wherever one has failed, for any threads, keys and buckets.
THEOREM RegionsStayAgreed == MrSpec => []RegionsAgree
<1>1. RegionInv /\ [MrNext]_mrVars => RegionInv'
  BY MrTypedStep, OwnerStep, BucketStep DEF RegionInv
<1> QED
  BY RegionInit, <1>1, RegionInvAgrees, PTL DEF MrSpec

-----------------------------------------------------------------------------
(* Setup.                                                                    *)

\* What a vector does, it does in a step of its own.
LEMMA OthersKeepVector == [Next]_vars => [AvNext]_avVars
<1> SUFFICES ASSUME [Next]_vars PROVE [AvNext]_avVars
  OBVIOUS
<1>1. CASE UNCHANGED vars
  BY <1>1 DEF vars, avVars
<1>2. CASE GetInfo \/ OpenPep \/ ConnectionRequest
  BY <1>2 DEF GetInfo, OpenPep, ConnectionRequest, avVars
<1>3. CASE Vector
  BY <1>3 DEF Vector
<1>4. CASE \E d \in Domains : OpenDomain(d)
  BY <1>4 DEF OpenDomain, avVars
<1>5. CASE \E q \in Queues : OpenQueue(q)
  BY <1>5 DEF OpenQueue, avVars
<1>6. CASE \E e \in Eps : EpNext(e)
  <2>1. PICK e \in Eps : EpNext(e)
    BY <1>6
  <2> QED
    BY <2>1 DEF EpNext, OpenEp, BindEq, Accept, Connected, Connect, Shutdown, CloseEp, Bind, avVars
<1> QED
  BY <1>1, <1>2, <1>3, <1>4, <1>5, <1>6 DEF Next

\* dpa_av_insert: the rows in use fit the array, and a handle gives the address
\* it was inserted with (HandlesResolve), with any counts.
THEOREM VectorResolves == Spec => []HandlesResolve
<1>1. Init => AvInv
  BY AvInitInv DEF Init
<1>2. AvInv /\ [Next]_vars => AvInv'
  BY OthersKeepVector, AvNextInv
<1> QED
  BY <1>1, <1>2, AvInvResolves, PTL DEF Spec

-----------------------------------------------------------------------------
\* Where getinfo did not crash, its source address has a length and is here.
LEMMA SourceIsHere ==
  ASSUME NEW h \in InfoSet, NEW r \in RequestSet
  PROVE  /\ SrcOf(h, r) \in Address
         /\ SrcOf(h, r).sized /\ SrcOf(h, r).node = Here
<1> DEFINE given == IF r.service # 0 /\ r.source THEN Resolved(r)
                    ELSE IF h.src # NoAddr /\ h.src.sized THEN h.src
                    ELSE [node |-> NoNode, service |-> 0, sized |-> TRUE]
<1>1. /\ given \in [node : {"none", Here, "there", "unknown", "null"}, service : Nat, sized : BOOLEAN]
      /\ given.sized
  BY DEF Resolved, RequestSet, InfoSet, Address, NoAddr, NoNode, Here
<1>2. SrcOf(h, r) = [given EXCEPT !.node = Here]
  BY DEF SrcOf
<1> HIDE DEF given
<1> QED
  BY <1>1, <1>2 DEF Address, Here, NoNode

\* The destination is absent or has a length.
LEMMA DestinationIsSized ==
  ASSUME NEW h \in InfoSet, NEW r \in RequestSet
  PROVE  /\ DestOf(h, r) \in Address \cup {NoAddr}
         /\ DestOf(h, r) # NoAddr => DestOf(h, r).sized
  BY DEF DestOf, Resolved, RequestSet, InfoSet, Address, NoAddr, NoNode, Here

\* What is answered is an info whose every part is within what getinfo accepts.
LEMMA AnswerType ==
  ASSUME NEW h \in InfoSet, NEW r \in RequestSet, Verified(h, r)
  PROVE  /\ Answer(h, r) \in InfoSet
         /\ Answer(h, r).type \in {"msg", "rdm", "dgram"}
         /\ Answer(h, r).caps \subseteq TypeCaps(Answer(h, r))
         /\ Answer(h, r).caps # {}
         /\ Answer(h, r).threading \in ThreadSafe .. ThreadCompletion
         /\ Answer(h, r).ctxCaps \subseteq AllCap
<1> DEFINE a == Answer(h, r)
<1>1. h.type \in {"unspec", "msg", "rdm", "dgram"} /\ h.caps \subseteq TypeCaps(h)
      /\ h.ctxCaps \subseteq AllCap
  BY DEF Verified, KnownType, InfoSet
<1>2. a.type = IF h.type = "unspec" THEN "msg" ELSE h.type
  BY DEF Answer
<1>3. a.caps = EpCaps(h) /\ a.ctxCaps = h.ctxCaps
  BY DEF Answer
<1>4. a.threading \in ThreadSafe .. ThreadCompletion
  BY DEF Answer, InfoThreading, InfoSet, ThreadSafe, ThreadCompletion, Unspecified
<1>5. TypeCaps(a) = TypeCaps(h)
  BY <1>1, <1>2 DEF TypeCaps
<1>6. a.caps \subseteq TypeCaps(a) /\ a.caps # {}
  BY <1>1, <1>3, <1>5 DEF EpCaps, TypeCaps, AllCap, RmaCap
<1>7. TypeCaps(a) \subseteq AllCap
  BY DEF TypeCaps, AllCap
<1>8. EpCaps(h) \in SUBSET (AllCap \cup {"tagged"})
  BY <1>3, <1>6, <1>7
<1>9. InfoThreading(h) \in 0 .. 5
  BY <1>4 DEF Answer, ThreadSafe, ThreadCompletion
<1>10. SrcOf(h, r) \in Address \cup {NoAddr} /\ DestOf(h, r) \in Address \cup {NoAddr}
  BY SourceIsHere, DestinationIsSized
<1>11. h.ctxCaps \in SUBSET (AllCap \cup {"tagged"}) /\ Limit \in 0 .. (Limit + 1)
  BY <1>1 DEF Limit
<1>12. (IF h.type = "unspec" THEN "msg" ELSE h.type) \in {"msg", "rdm", "dgram"}
  BY <1>1
<1>13. a \in InfoSet
  BY <1>8, <1>9, <1>10, <1>11, <1>12 DEF Answer, InfoSet
<1> QED
  BY <1>1, <1>2, <1>3, <1>4, <1>6, <1>12, <1>13

\* Given back as hints the answer is accepted, and answered by itself.
LEMMA AnswerAnswersItself ==
  ASSUME NEW h \in InfoSet, NEW r \in RequestSet, Verified(h, r)
  PROVE  /\ Verified(Answer(h, r), NoRequest)
         /\ Answer(Answer(h, r), NoRequest) = Answer(h, r)
<1> DEFINE a == Answer(h, r)
<1>1. /\ a \in InfoSet /\ a.type \in {"msg", "rdm", "dgram"}
      /\ a.caps \subseteq TypeCaps(a) /\ a.caps # {}
      /\ a.threading \in ThreadSafe .. ThreadCompletion
      /\ a.ctxCaps \subseteq AllCap
  BY AnswerType
<1>2. /\ a.src = SrcOf(h, r) /\ a.dest = DestOf(h, r) /\ a.attrs = Limit
      /\ a.names = "dpa" /\ a.mr = "scalable" /\ a.control = "auto"
      /\ a.progress \in {"auto", "manual"} /\ a.handle = FALSE
  BY DEF Answer
<1>3. a.src.sized /\ a.src.node = Here /\ (a.dest # NoAddr => a.dest.sized)
  BY <1>2, SourceIsHere, DestinationIsSized
<1>4. Verified(a, NoRequest)
  BY <1>1, <1>2, <1>3 DEF Verified, NoRequest, KnownType, WithinLimits, Limit
<1>5. a.src \in Address /\ a.dest \in Address \cup {NoAddr}
  BY <1>2, SourceIsHere, DestinationIsSized
<1>6. a.src # NoAddr
  BY <1>3 DEF NoAddr
<1>7. SrcOf(a, NoRequest) = a.src
  <2>1. SrcOf(a, NoRequest) = [a.src EXCEPT !.node = Here]
    BY <1>3, <1>6 DEF SrcOf, NoRequest
  <2> QED
    BY <2>1, <1>3, <1>5 DEF Address
<1>8. DestOf(a, NoRequest) = a.dest
  BY <1>3 DEF DestOf, NoRequest
<1>9. EpCaps(a) = a.caps /\ InfoThreading(a) = a.threading
  BY <1>1 DEF EpCaps, InfoThreading, ThreadSafe, ThreadCompletion, Unspecified
<1>10. /\ a.type # "unspec"
       /\ a = [caps |-> a.caps, type |-> a.type, threading |-> a.threading,
               progress |-> a.progress, control |-> "auto", mr |-> "scalable",
               attrs |-> Limit, ctxCaps |-> a.ctxCaps, names |-> "dpa",
               src |-> a.src, dest |-> a.dest, handle |-> FALSE]
  BY <1>1 DEF Answer
<1>11. Answer(a, NoRequest) =
         [caps |-> EpCaps(a), type |-> a.type, threading |-> InfoThreading(a),
          progress |-> a.progress, control |-> "auto", mr |-> "scalable",
          attrs |-> Limit, ctxCaps |-> a.ctxCaps, names |-> "dpa",
          src |-> SrcOf(a, NoRequest), dest |-> DestOf(a, NoRequest), handle |-> FALSE]
  BY <1>2, <1>10 DEF Answer
<1> HIDE DEF a
<1>12. Answer(a, NoRequest) = a
  BY <1>7, <1>8, <1>9, <1>10, <1>11
<1> QED
  BY <1>4, <1>12 DEF a

-----------------------------------------------------------------------------
(* The infos the application and the passive endpoint hold.                 *)
Accepts(i) == Verified(i, NoRequest) /\ Answer(i, NoRequest) = i

InfoOK(i) ==
  /\ i \in InfoSet
  /\ i.threading \in ThreadSafe .. ThreadCompletion
  /\ i.progress \in {"auto", "manual"} /\ i.control = "auto" /\ i.mr = "scalable"
  /\ ~i.handle => Accepts(i)

\* An info with a handle is that of the passive endpoint, which listens under
\* the service of its own.
InfoInv ==
  /\ plan \in Plans
  /\ info = NoInfo \/ InfoOK(info)
  /\ pep = Closed \/ (pep \in [info : InfoSet, service : Nat] /\ InfoOK(pep.info)
                        /\ pep.service = pep.info.src.service)
  /\ info # NoInfo /\ info.handle => pep # Closed /\ info.src = pep.info.src

\* The initial states satisfy the invariant of the provider information.
LEMMA InfoInit == Init => InfoInv
  BY DEF Init, InfoInv

\* Every step keeps it.
LEMMA InfoNext == InfoInv /\ [Next]_vars => InfoInv'
<1> SUFFICES ASSUME InfoInv, [Next]_vars PROVE InfoInv'
  OBVIOUS
<1>1. CASE UNCHANGED <<plan, info, pep>>
  BY <1>1 DEF InfoInv
<1>2. CASE GetInfo
  <2>1. PICK h \in plan.hints, r \in plan.requests :
          /\ Verified(h, r) /\ UNCHANGED <<plan, pep>>
          /\ info' = Answer(h, r) \/ info' = info
    BY <1>2 DEF GetInfo
  <2>2. h \in InfoSet /\ r \in RequestSet
    BY PlansAssumption DEF InfoInv
  <2>3. InfoOK(Answer(h, r)) /\ ~Answer(h, r).handle
    <3>1. /\ Answer(h, r).progress \in {"auto", "manual"} /\ Answer(h, r).control = "auto"
          /\ Answer(h, r).mr = "scalable" /\ ~Answer(h, r).handle
      BY DEF Answer
    <3> QED
      BY <3>1, <2>1, <2>2, AnswerType, AnswerAnswersItself DEF InfoOK, Accepts
  <2> QED
    BY <2>1, <2>3 DEF InfoInv
<1>3. CASE OpenPep
  <2>1. /\ info # NoInfo /\ info.src # NoAddr /\ UNCHANGED <<plan, info>> /\ pep = Closed
        /\ pep' = [info |-> info, service |-> info.src.service]
    BY <1>3 DEF OpenPep
  <2>2. info \in InfoSet /\ info.src \in Address
    BY <2>1 DEF InfoInv, InfoOK, InfoSet
  <2>3. info.src.service \in Nat /\ ~info.handle
    BY <2>1, <2>2 DEF Address, InfoInv
  <2>4. pep' \in [info : InfoSet, service : Nat] /\ pep'.info = info /\ pep'.service = info.src.service
    BY <2>1, <2>2, <2>3
  <2> QED
    BY <2>1, <2>3, <2>4 DEF InfoInv
<1>4. CASE ConnectionRequest
  <2>1. /\ pep # Closed /\ UNCHANGED <<plan, pep>>
        /\ info' = [pep.info EXCEPT !.dest = [node |-> "there", service |-> 0, sized |-> TRUE],
                                    !.handle = TRUE]
    BY <1>4 DEF ConnectionRequest
  <2>2. pep.info \in InfoSet /\ InfoOK(pep.info)
    BY <2>1 DEF InfoInv
  <2>3. [node |-> "there", service |-> 0, sized |-> TRUE] \in Address
    BY DEF Address
  <2> DEFINE to == [node |-> "there", service |-> 0, sized |-> TRUE]
  <2>4. to \in Address \cup {NoAddr}
    BY <2>3
  <2>5. info' = [pep.info EXCEPT !.dest = to, !.handle = TRUE]
    BY <2>1
  <2> HIDE DEF to
  <2>6. /\ info' \in InfoSet /\ info'.handle /\ info'.src = pep.info.src
        /\ info'.threading = pep.info.threading /\ info'.progress = pep.info.progress
        /\ info'.control = pep.info.control /\ info'.mr = pep.info.mr
    BY <2>2, <2>4, <2>5 DEF InfoSet
  <2> QED
    BY <2>1, <2>2, <2>6 DEF InfoInv, InfoOK
<1>5. CASE \E d \in Domains : OpenDomain(d)
  BY <1>1, <1>5 DEF OpenDomain
<1>6. CASE (\E q \in Queues : OpenQueue(q)) \/ Vector
  BY <1>1, <1>6 DEF OpenQueue, Vector, setupVars
<1>7. CASE \E e \in Eps : EpNext(e)
  <2>1. PICK e \in Eps : EpNext(e)
    BY <1>7
  <2> QED
    BY <1>1, <2>1 DEF EpNext, OpenEp, BindEq, Accept, Connected, Connect, Shutdown, CloseEp, Bind
<1>8. CASE UNCHANGED vars
  BY <1>1, <1>8 DEF vars, setupVars
<1> QED
  BY <1>2, <1>3, <1>4, <1>5, <1>6, <1>7, <1>8 DEF Next

\* fi_getinfo: whatever it answered is accepted as hints and answered by itself
\* (AnswerIsItsOwnAnswer), for every set of hints and requests.
THEOREM AnswersAreStable == Spec => []AnswerIsItsOwnAnswer
<1>1. InfoInv => AnswerIsItsOwnAnswer
  BY DEF InfoInv, InfoOK, Accepts, AnswerIsItsOwnAnswer
<1> QED
  BY <1>1, InfoInit, InfoNext, PTL DEF Spec

-----------------------------------------------------------------------------
(* The domains.                                                             *)
DomainSet ==
  [from : InfoSet, threading : ThreadSafe .. ThreadCompletion, control : {"auto"},
   mr : {"scalable"}, progress : {"auto", "manual"}]

AsAnnounced(x) ==
  /\ x.threading = x.from.threading /\ x.progress = x.from.progress
  /\ x.control = x.from.control /\ x.mr = x.from.mr

DomainInv ==
  /\ domain \in [Domains -> DomainSet \cup {Closed}]
  /\ \A d \in Domains : domain[d] # Closed => domain[d] \in DomainSet /\ AsAnnounced(domain[d])

\* The initial states satisfy the invariant of the domains.
LEMMA DomainInit == Init => DomainInv
  BY DEF Init, DomainInv

\* The modes that dpa_domain_open works out are those of its info.
LEMMA OpenDomainInv ==
  ASSUME InfoInv, DomainInv, NEW d \in Domains, OpenDomain(d)
  PROVE  DomainInv' /\ \A c \in Domains : domain[c] # Closed => domain'[c] = domain[c]
<1> DEFINE x == [from |-> info, threading |-> DomainThreading(info), control |-> "auto",
                 mr |-> "scalable", progress |-> IF info.progress = "auto" THEN "auto" ELSE "manual"]
<1>1. info \in InfoSet /\ InfoOK(info) /\ domain[d] = Closed /\ domain' = [domain EXCEPT ![d] = x]
  BY DEF OpenDomain, InfoInv, InfoOK
<1>2. DomainThreading(info) = info.threading
  BY <1>1 DEF InfoOK, DomainThreading, ThreadSafe, ThreadCompletion, Unspecified
<1>3. x \in DomainSet /\ AsAnnounced(x)
  BY <1>1, <1>2 DEF DomainSet, AsAnnounced, InfoOK
<1> HIDE DEF x
<1> QED
  BY <1>1, <1>3 DEF DomainInv

\* Every step keeps it.
LEMMA DomainNext ==
  InfoInv /\ DomainInv /\ [Next]_vars
    => DomainInv' /\ \A c \in Domains : domain[c] # Closed => domain'[c] = domain[c]
<1> SUFFICES ASSUME InfoInv, DomainInv, [Next]_vars
             PROVE  DomainInv' /\ \A c \in Domains : domain[c] # Closed => domain'[c] = domain[c]
  OBVIOUS
<1>1. CASE UNCHANGED domain
  BY <1>1 DEF DomainInv
<1>2. CASE \E d \in Domains : OpenDomain(d)
  BY <1>2, OpenDomainInv
<1>3. CASE GetInfo \/ OpenPep \/ ConnectionRequest \/ Vector \/ \E q \in Queues : OpenQueue(q)
  BY <1>1, <1>3 DEF GetInfo, OpenPep, ConnectionRequest, Vector, OpenQueue, setupVars
<1>4. CASE \E e \in Eps : EpNext(e)
  <2>1. PICK e \in Eps : EpNext(e)
    BY <1>4
  <2> QED
    BY <1>1, <2>1 DEF EpNext, OpenEp, BindEq, Accept, Connected, Connect, Shutdown, CloseEp, Bind
<1>5. CASE UNCHANGED vars
  BY <1>1, <1>5 DEF vars, setupVars
<1> QED
  BY <1>2, <1>3, <1>4, <1>5 DEF Next

\* dpa_domain_open: the modes of a domain are those its info announced
\* (DomainAsAnnounced).
THEOREM DomainsAsAnnounced == Spec => []DomainAsAnnounced
<1>1. DomainInv => DomainAsAnnounced
  BY DEF DomainInv, AsAnnounced, DomainAsAnnounced
<1>2. InfoInv /\ DomainInv /\ [Next]_vars => DomainInv'
  BY DomainNext
<1> QED
  BY <1>1, <1>2, InfoInit, InfoNext, DomainInit, PTL DEF Spec

-----------------------------------------------------------------------------
(* The queues and the endpoints.                                            *)
QueueSet ==
  [domain : Domains, waits : BOOLEAN, locked : BOOLEAN, func : SUBSET Sides,
   arg : Eps \cup {"none"}, binds : 0 .. 2]

QueueInv ==
  /\ queue \in [Queues -> QueueSet \cup {Closed}]
  /\ \A q \in Queues : queue[q] # Closed =>
       /\ domain[queue[q].domain] # Closed
       /\ queue[q].locked = (domain[queue[q].domain].threading < ThreadCompletion)

EpSet ==
  [state : {"open", "accepted", "connected"}, from : InfoSet, domain : Domains,
   caps : SUBSET AllCap, msg : SUBSET (Sides \cup NoTable), rma : SUBSET ({"read", "write"} \cup NoTable),
   locked : BOOLEAN, name : Nat,
   bound : [Kinds -> [Roles -> Queues \cup {NoQueue}]],
   eq : BOOLEAN, buffer : BOOLEAN, interrupts : SUBSET Sides,
   refused : SUBSET (Sides \cup {"buffer"}), late : BOOLEAN]

\* What the record of an endpoint has to be, wherever it is kept: its tables
\* and its name,
Opened(x) ==
  /\ x.from.caps # {} /\ x.caps = Expanded(x.from.caps)
  /\ x.msg = MsgTable(x.caps) /\ x.rma = RmaTable(x.caps)
  /\ x.from.handle => x.name = x.from.src.service

\* its domain, which is never closed,
Located(x) ==
  /\ domain[x.domain] # Closed
  /\ x.locked = (domain[x.domain].threading < ThreadFid)

\* its buffer and the interrupts that were made with it,
Buffered(x) ==
  x.state # "open" /\ x.caps \cap Sides # {} => x.buffer \/ "buffer" \in x.refused
Interrupted(x) ==
  x.buffer => \A s \in (x.caps \cap Sides) \ x.refused :
    /\ AutoProgress(x.domain) => s \in x.interrupts
    /\ \A k \in Kinds :
         LET q == x.bound[k][s] IN
         Waits(q) /\ ~x.late /\ (s = "send" => x.bound[k]["recv"] # NoQueue)
           => s \in x.interrupts

\* and what is bound to it: a queue bound once makes the progress of it alone.
Driven(e, x, q, r) ==
  r \in Sides /\ ~AutoProgress(x.domain) /\ queue[q].binds = 1 => queue[q].arg = e /\ r \in queue[q].func
BoundOK(e, x) ==
  \A k \in Kinds, r \in Roles :
    LET q == x.bound[k][r] IN
    q # NoQueue => /\ queue[q] # Closed /\ queue[q].domain = x.domain
                   /\ queue[q].binds >= 1 /\ Driven(e, x, q, r)

EpOK(e, x) ==
  /\ x \in EpSet
  /\ Opened(x) /\ Located(x) /\ Buffered(x) /\ Interrupted(x) /\ BoundOK(e, x)

EpInv ==
  /\ ep \in [Eps -> EpSet \cup {Closed, NewEp}]
  /\ \A e \in Eps : IsOpen(e) => EpOK(e, ep[e])

SetupInv == InfoInv /\ DomainInv /\ QueueInv /\ EpInv

\* The initial states satisfy the whole invariant.
LEMMA SetupInit == Init => SetupInv
<1>1. Init => QueueInv /\ EpInv
  BY DEF Init, QueueInv, EpInv, IsOpen, NewEp, Closed
<1> QED
  BY <1>1, InfoInit, DomainInit DEF SetupInv

\* An endpoint that is open is a record of EpSet, and the other way round.
LEMMA OpenIsRecord ==
  ASSUME EpInv, NEW e \in Eps
  PROVE  IsOpen(e) <=> ep[e] \in EpSet
  BY DEF EpInv, EpOK, IsOpen, EpSet, Closed, NewEp

-----------------------------------------------------------------------------
\* What domains and queues are opened later changes nothing for an endpoint.
LEMMA EpOKKept ==
  ASSUME NEW e \in Eps, NEW x, EpOK(e, x),
         DomainInv, QueueInv,
         \A c \in Domains : domain[c] # Closed => domain'[c] = domain[c],
         \A q \in Queues : queue[q] # Closed => queue'[q] = queue[q]
  PROVE  EpOK(e, x)'
<1>1. x \in EpSet /\ x.domain \in Domains /\ domain[x.domain] # Closed
  BY DEF EpOK, EpSet, Located
<1>2. domain'[x.domain] = domain[x.domain]
  BY <1>1
<1>3. Opened(x)' /\ Buffered(x)' /\ Located(x)'
  BY <1>1, <1>2 DEF EpOK, Opened, Buffered, Located
<1>4. AutoProgress(x.domain)' = AutoProgress(x.domain)
  BY <1>2 DEF AutoProgress
<1>5. ASSUME NEW k \in Kinds, NEW r \in Roles, x.bound[k][r] # NoQueue
      PROVE  /\ queue[x.bound[k][r]] # Closed
             /\ queue'[x.bound[k][r]] = queue[x.bound[k][r]]
  <2>1. x.bound[k][r] \in Queues
    BY <1>1, <1>5 DEF EpSet
  <2> QED
    BY <1>5, <2>1 DEF EpOK, BoundOK
<1>6. BoundOK(e, x)'
  BY <1>4, <1>5 DEF EpOK, BoundOK, Driven
<1>7. Sides \subseteq Roles /\ "recv" \in Roles
  BY DEF Sides, Roles
<1>8. Interrupted(x)'
  BY <1>4, <1>5, <1>7 DEF EpOK, Interrupted, Waits
<1> QED
  BY <1>1, <1>3, <1>6, <1>8 DEF EpOK

\* A step that leaves the endpoints alone, or changes one of them.
LEMMA EpsKept ==
  ASSUME EpInv, DomainInv, QueueInv, UNCHANGED ep,
         \A c \in Domains : domain[c] # Closed => domain'[c] = domain[c],
         \A q \in Queues : queue[q] # Closed => queue'[q] = queue[q]
  PROVE  EpInv'
<1> SUFFICES ASSUME NEW e \in Eps, IsOpen(e)' PROVE EpOK(e, ep[e])'
  BY DEF EpInv
<1>1. PICK x : x = ep[e]
  OBVIOUS
<1>2. EpOK(e, x)
  BY <1>1 DEF EpInv, IsOpen
<1>3. EpOK(e, x)'
  BY <1>2, EpOKKept
<1> QED
  BY <1>1, <1>3

\* What a step that changes one endpoint has to show of that endpoint.
LEMMA EpChanged ==
  ASSUME EpInv, DomainInv, QueueInv, UNCHANGED <<domain, queue>>,
         NEW e \in Eps, NEW x, ep' = [ep EXCEPT ![e] = x],
         x = Closed \/ EpOK(e, x)
  PROVE  EpInv'
<1>1. ep' \in [Eps -> EpSet \cup {Closed, NewEp}]
  BY DEF EpInv, EpOK
<1>2. ASSUME NEW f \in Eps, IsOpen(f)' PROVE EpOK(f, ep[f])'
  <2>1. PICK y : y = ep'[f]
    OBVIOUS
  <2>2. EpOK(f, y)
    <3>1. CASE f = e
      BY <1>2, <2>1, <3>1 DEF EpInv, IsOpen, Closed
    <3>2. CASE f # e
      BY <1>2, <2>1, <3>2 DEF EpInv, IsOpen
    <3> QED
      BY <3>1, <3>2
  <2>3. EpOK(f, y)'
    BY <2>2, EpOKKept
  <2> QED
    BY <2>1, <2>3
<1> QED
  BY <1>1, <1>2 DEF EpInv

-----------------------------------------------------------------------------
\* check_ep_caps and the tables: an expanded family names all its directions.
LEMMA ExpandedCaps ==
  ASSUME NEW caps \in SUBSET AllCap
  PROVE  /\ Expanded(caps) \in SUBSET AllCap
         /\ caps \subseteq Expanded(caps)
         /\ "msg" \in Expanded(caps) <=> "msg" \in caps
         /\ "rma" \in Expanded(caps) <=> "rma" \in caps
         /\ "msg" \in caps => Expanded(caps) \cap Sides # {}
  BY DEF Expanded, AllCap, MsgCap, RmaCap, Sides

\* Opening an endpoint keeps the invariant of the endpoints.
LEMMA OpenEpInv ==
  ASSUME SetupInv, NEW e \in Eps, OpenEp(e)
  PROVE  EpInv'
<1>1. PICK d \in Domains :
        /\ domain[d] # Closed
        /\ ep' = [ep EXCEPT ![e] =
            [state |-> "open", from |-> info, domain |-> d, caps |-> Expanded(info.caps),
             msg |-> MsgTable(Expanded(info.caps)), rma |-> RmaTable(Expanded(info.caps)),
             locked |-> domain[d].threading < ThreadFid,
             name |-> IF info.handle THEN pep.service ELSE 0,
             bound |-> [k \in Kinds |-> [r \in Roles |-> NoQueue]],
             eq |-> FALSE, buffer |-> FALSE, interrupts |-> {}, refused |-> {}, late |-> FALSE]]
  BY DEF OpenEp
<1>2. /\ info \in InfoSet /\ info.handle \in BOOLEAN /\ info.caps \in SUBSET AllCap
      /\ info.caps # {} /\ (info.handle => pep.service \in Nat /\ pep.service = info.src.service)
  BY DEF OpenEp, Opens, SetupInv, InfoInv, InfoOK, InfoSet
<1> DEFINE caps == Expanded(info.caps)
<1>3. caps \in SUBSET AllCap
  BY <1>2, ExpandedCaps
<1>4. /\ MsgTable(caps) \in SUBSET (Sides \cup NoTable)
      /\ RmaTable(caps) \in SUBSET ({"read", "write"} \cup NoTable)
  BY DEF MsgTable, RmaTable, TableOf
<1>5. PICK locked : locked = (domain[d].threading < ThreadFid)
  OBVIOUS
<1>6. PICK name : name = IF info.handle THEN pep.service ELSE 0
  OBVIOUS
<1>7. name \in Nat
  BY <1>2, <1>6
<1>8. locked \in BOOLEAN
  BY <1>5
<1>9. PICK bound : bound = [k \in Kinds |-> [r \in Roles |-> NoQueue]]
  OBVIOUS
<1>10. bound \in [Kinds -> [Roles -> Queues \cup {NoQueue}]]
  BY <1>9
<1> HIDE DEF caps
<1>11. PICK x : x = [state |-> "open", from |-> info, domain |-> d, caps |-> caps,
             msg |-> MsgTable(caps), rma |-> RmaTable(caps),
             locked |-> locked, name |-> name, bound |-> bound,
             eq |-> FALSE, buffer |-> FALSE, interrupts |-> {}, refused |-> {}, late |-> FALSE]
  OBVIOUS
<1>12. ep' = [ep EXCEPT ![e] = x]
  BY <1>1, <1>5, <1>6, <1>9, <1>11 DEF caps
<1>13. x \in EpSet
  BY <1>2, <1>3, <1>4, <1>7, <1>8, <1>10, <1>11 DEF EpSet
<1>14. Opened(x)
  BY <1>2, <1>6, <1>11 DEF Opened, caps
<1>15. Located(x)
  BY <1>1, <1>5, <1>11 DEF Located
<1>16. Buffered(x) /\ Interrupted(x)
  BY <1>11 DEF Buffered, Interrupted
<1>17. BoundOK(e, x)
  BY <1>9, <1>11 DEF BoundOK
<1>18. EpOK(e, x)
  BY <1>13, <1>14, <1>15, <1>16, <1>17 DEF EpOK
<1> QED
  BY <1>12, <1>18, EpChanged DEF SetupInv, OpenEp

-----------------------------------------------------------------------------
(* The steps of an endpoint that is open.                                   *)
\* What a step leaves of a record whose objects stay as they were.
LEMMA RecordKept ==
  ASSUME NEW e \in Eps, NEW old, EpOK(e, old), NEW x \in EpSet,
         x.from = old.from, x.domain = old.domain, x.caps = old.caps, x.msg = old.msg,
         x.rma = old.rma, x.locked = old.locked, x.name = old.name, x.bound = old.bound,
         Buffered(x), Interrupted(x)
  PROVE  EpOK(e, x)
  BY DEF EpOK, Opened, Located, BoundOK, Driven

\* alloc_msg_buffer: with the buffer come the interrupts of whoever waits.
LEMMA AllocatesOK ==
  ASSUME NEW e \in Eps, EpOK(e, ep[e]), NEW state \in {"open", "accepted", "connected"}, NEW x,
         NEW refused \in Unchecked(e),
         x = [AllocMsgBuffer(e, refused) EXCEPT !.state = state]
  PROVE  EpOK(e, x)
<1>1. PICK old : old = ep[e]
  OBVIOUS
<1>2. old \in EpSet /\ EpOK(e, old)
  BY <1>1 DEF EpOK
<1>3. PICK interrupts : interrupts = ((IF RecvInterrupt(e) THEN {"recv"} ELSE {})
                                      \cup (IF SendInterrupt(e) THEN {"send"} ELSE {})) \ refused
  OBVIOUS
<1>4. PICK buffer : buffer = NeedsBuffer(e)
  OBVIOUS
<1>5. /\ interrupts \in SUBSET Sides /\ buffer \in BOOLEAN
      /\ refused \in SUBSET (Sides \cup {"buffer"})
  BY <1>3, <1>4 DEF Sides, NeedsBuffer, Unchecked
<1>6. PICK y : y = [old EXCEPT !.buffer = buffer, !.late = FALSE, !.refused = refused,
                               !.interrupts = interrupts]
  OBVIOUS
<1>7. x = [y EXCEPT !.state = state]
  BY <1>1, <1>3, <1>4, <1>6 DEF AllocMsgBuffer
<1>8. /\ y \in EpSet
      /\ y.from = old.from /\ y.domain = old.domain /\ y.caps = old.caps /\ y.msg = old.msg
      /\ y.rma = old.rma /\ y.locked = old.locked /\ y.name = old.name /\ y.bound = old.bound
      /\ y.buffer = buffer /\ y.interrupts = interrupts /\ y.refused = refused
  BY <1>2, <1>5, <1>6 DEF EpSet
<1>9. /\ x \in EpSet
      /\ x.from = old.from /\ x.domain = old.domain /\ x.caps = old.caps /\ x.msg = old.msg
      /\ x.rma = old.rma /\ x.locked = old.locked /\ x.name = old.name /\ x.bound = old.bound
      /\ x.buffer = buffer /\ x.interrupts = interrupts /\ x.refused = refused
  BY <1>7, <1>8 DEF EpSet
<1>10. Buffered(x)
  BY <1>1, <1>4, <1>9 DEF Buffered, NeedsBuffer
<1>11. Interrupted(x)
  <2>1. SUFFICES ASSUME NEW s \in (x.caps \cap Sides) \ x.refused
                 PROVE  /\ AutoProgress(x.domain) => s \in x.interrupts
                        /\ \A k \in Kinds :
                             Waits(x.bound[k][s]) /\ (s = "send" => x.bound[k]["recv"] # NoQueue)
                               => s \in x.interrupts
    BY DEF Interrupted
  <2>2. CASE s = "recv"
    BY <1>1, <1>3, <1>9, <2>2 DEF RecvInterrupt, Bound
  <2>3. CASE s = "send"
    BY <1>1, <1>3, <1>9, <2>3 DEF SendInterrupt, Bound
  <2> QED
    BY <2>2, <2>3 DEF Sides
<1> QED
  BY <1>2, <1>9, <1>10, <1>11, RecordKept

\* No buffer: what the endpoint had it keeps, and what it lost it was refused.
LEMMA FailureOK ==
  ASSUME NEW e \in Eps, EpOK(e, ep[e]), NEW state \in {"open", "connected"},
         NEW lost \in {{}, {"recv"}}, NEW x,
         x = [WithoutNew(e, lost) EXCEPT !.state = state]
  PROVE  EpOK(e, x)
<1>1. PICK old : old = ep[e]
  OBVIOUS
<1>2. old \in EpSet /\ EpOK(e, old)
  BY <1>1 DEF EpOK
<1>3. PICK interrupts : interrupts = old.interrupts \ lost
  OBVIOUS
<1>4. PICK refused : refused = old.refused \cup lost \cup {"buffer"}
  OBVIOUS
<1>5. interrupts \in SUBSET Sides /\ refused \in SUBSET (Sides \cup {"buffer"})
  BY <1>2, <1>3, <1>4 DEF EpSet, Sides
<1>6. PICK y : y = [old EXCEPT !.interrupts = interrupts, !.refused = refused]
  OBVIOUS
<1>7. /\ x \in EpSet
      /\ x.from = old.from /\ x.domain = old.domain /\ x.caps = old.caps /\ x.msg = old.msg
      /\ x.rma = old.rma /\ x.locked = old.locked /\ x.name = old.name /\ x.bound = old.bound
      /\ x.buffer = old.buffer /\ x.late = old.late
      /\ x.interrupts = interrupts /\ x.refused = refused
  <2>1. /\ y \in EpSet
        /\ y.from = old.from /\ y.domain = old.domain /\ y.caps = old.caps /\ y.msg = old.msg
        /\ y.rma = old.rma /\ y.locked = old.locked /\ y.name = old.name /\ y.bound = old.bound
        /\ y.buffer = old.buffer /\ y.late = old.late
        /\ y.interrupts = interrupts /\ y.refused = refused
    BY <1>2, <1>5, <1>6 DEF EpSet
  <2>2. x = [y EXCEPT !.state = state]
    BY <1>1, <1>3, <1>4, <1>6 DEF WithoutNew
  <2> QED
    BY <2>1, <2>2 DEF EpSet
<1>8. Buffered(x)
  BY <1>4, <1>7 DEF Buffered
<1>9. Interrupted(x)
  BY <1>2, <1>3, <1>4, <1>7 DEF EpOK, Interrupted
<1> QED
  BY <1>2, <1>7, <1>8, <1>9, RecordKept

\* Accept, connect, shutdown, close, and the binding of an event queue.
LEMMA EpStepInv ==
  ASSUME SetupInv, NEW e \in Eps,
         BindEq(e) \/ Accept(e) \/ Connected(e) \/ Connect(e) \/ Shutdown(e) \/ CloseEp(e)
  PROVE  EpInv'
<1>0. UNCHANGED <<domain, queue>>
  BY DEF BindEq, Accept, Connected, Connect, Shutdown, CloseEp
<1>1. PICK old : old = ep[e]
  OBVIOUS
<1>2. CASE CloseEp(e)
  BY <1>0, <1>2, EpChanged DEF CloseEp, SetupInv
<1>3. CASE UNCHANGED ep
  BY <1>0, <1>3, EpsKept DEF SetupInv
<1>4. ASSUME IsOpen(e) PROVE old \in EpSet /\ EpOK(e, old)
  BY <1>1, <1>4 DEF SetupInv, EpInv, EpOK
<1>5. CASE BindEq(e)
  <2>1. PICK x : x = [old EXCEPT !.eq = TRUE]
    OBVIOUS
  <2>2. old \in EpSet /\ EpOK(e, old)
    BY <1>4, <1>5 DEF BindEq
  <2>3. /\ x \in EpSet /\ Buffered(x) /\ Interrupted(x)
        /\ x.from = old.from /\ x.domain = old.domain /\ x.caps = old.caps /\ x.msg = old.msg
        /\ x.rma = old.rma /\ x.locked = old.locked /\ x.name = old.name /\ x.bound = old.bound
    BY <2>1, <2>2 DEF EpSet, EpOK, Buffered, Interrupted
  <2>4. ep' = [ep EXCEPT ![e] = x] /\ EpOK(e, x)
    BY <1>1, <1>5, <2>1, <2>2, <2>3, RecordKept DEF BindEq
  <2> QED
    BY <1>0, <2>4, EpChanged DEF SetupInv
<1>6. ASSUME NEW st \in {"open", "accepted", "connected"}, ep' = [ep EXCEPT ![e].state = st], IsOpen(e),
             st # "open" => old.state # "open" \/ old.buffer
      PROVE  EpInv'
  <2>1. PICK x : x = [old EXCEPT !.state = st]
    OBVIOUS
  <2>2. old \in EpSet /\ EpOK(e, old)
    BY <1>4, <1>6
  <2>3. /\ x \in EpSet /\ x.state = st /\ x.buffer = old.buffer /\ x.late = old.late
        /\ x.interrupts = old.interrupts /\ x.refused = old.refused
        /\ x.from = old.from /\ x.domain = old.domain /\ x.caps = old.caps /\ x.msg = old.msg
        /\ x.rma = old.rma /\ x.locked = old.locked /\ x.name = old.name /\ x.bound = old.bound
    BY <2>1, <2>2 DEF EpSet
  <2>4. Buffered(x) /\ Interrupted(x)
    BY <1>6, <2>2, <2>3 DEF EpOK, Buffered, Interrupted
  <2>5. ep' = [ep EXCEPT ![e] = x] /\ EpOK(e, x)
    BY <1>1, <1>6, <2>1, <2>2, <2>3, <2>4, RecordKept, ZenonT(60)
  <2> QED
    BY <1>0, <2>5, EpChanged DEF SetupInv
<1>7. CASE Connected(e)
  <2>1. PICK st \in {"open", "connected"} : ep' = [ep EXCEPT ![e].state = st]
    BY <1>7 DEF Connected, AfterHandshake
  <2> QED
    BY <1>1, <1>6, <1>7, <2>1 DEF Connected, IsOpen
<1>8. CASE Shutdown(e)
  <2>1. PICK st : st = IF old.state = "connected" THEN "open" ELSE old.state
    OBVIOUS
  <2>2. /\ IsOpen(e) /\ ep' = [ep EXCEPT ![e].state = st]
        /\ st \in {"open", "accepted", "connected"} /\ (st # "open" => old.state # "open")
    BY <1>1, <1>8, <2>1 DEF Shutdown, IsOpen
  <2> QED
    BY <1>6, <2>2
<1>9. ASSUME NEW st \in {"open", "accepted", "connected"}, Allocates(e, st), IsOpen(e)
      PROVE  EpInv'
  <2>1. ASSUME NEW refused \in Unchecked(e),
               ep' = [ep EXCEPT ![e] = [AllocMsgBuffer(e, refused) EXCEPT !.state = st]]
        PROVE  EpInv'
    <3>1. PICK x : x = [AllocMsgBuffer(e, refused) EXCEPT !.state = st]
      OBVIOUS
    <3>2. EpOK(e, x) /\ ep' = [ep EXCEPT ![e] = x]
      BY <1>1, <1>4, <1>9, <2>1, <3>1, AllocatesOK
    <3> QED
      BY <1>0, <3>2, EpChanged DEF SetupInv
  <2> QED
    BY <1>3, <1>9, <2>1 DEF Allocates
<1>10. ASSUME NEW st \in {"open", "connected"}, AllocationFails(e, st), IsOpen(e)
       PROVE  EpInv'
  <2>1. PICK lost \in {{}, {"recv"}} :
          ep' = [ep EXCEPT ![e] = [WithoutNew(e, lost) EXCEPT !.state = st]]
    BY <1>10 DEF AllocationFails
  <2>2. PICK x : x = [WithoutNew(e, lost) EXCEPT !.state = st]
    OBVIOUS
  <2>3. EpOK(e, ep[e])
    BY <1>1, <1>4, <1>10
  <2>4. EpOK(e, x)
    BY <2>2, <2>3, FailureOK
  <2>5. ep' = [ep EXCEPT ![e] = x]
    BY <2>1, <2>2 DEF SetupInv, EpInv
  <2> QED
    BY <1>0, <1>1, <2>4, <2>5, EpChanged DEF SetupInv
<1>11. CASE Accept(e)
  BY <1>3, <1>9, <1>10, <1>11 DEF Accept, IsOpen
<1>12. CASE Connect(e)
  <2>1. PICK st \in {"open", "connected"} :
          IF ep[e].buffer
          THEN ep' = [ep EXCEPT ![e].state = st] /\ UNCHANGED crashed
          ELSE Allocates(e, st) \/ AllocationFails(e, st)
    BY <1>12 DEF Connect, AfterHandshake
  <2>2. IsOpen(e)
    BY <1>12 DEF Connect, IsOpen
  <2>3. CASE ep[e].buffer
    BY <1>1, <1>6, <2>1, <2>2, <2>3
  <2>4. CASE ~ep[e].buffer
    BY <1>9, <1>10, <2>1, <2>2, <2>4
  <2> QED
    BY <2>3, <2>4
<1> QED
  BY <1>2, <1>5, <1>7, <1>8, <1>11, <1>12

-----------------------------------------------------------------------------
(* What is bound.                                                           *)
\* bind_progress and the slots the flags fill: a queue that was bound nowhere
\* makes the progress of this endpoint alone; one that was is now shared.
LEMMA BindInv ==
  ASSUME SetupInv, NEW e \in Eps, NEW q \in Queues, Bind(e, q)
  PROVE  EpInv' /\ QueueInv'
<1>1. PICK flags \in plan.flags :
       /\ queue' = [queue EXCEPT ![q].binds = @ + 1,
             ![q].func = IF AutoProgress(ep[e].domain) THEN @ ELSE ProgressOf(q, flags),
             ![q].arg = IF AutoProgress(ep[e].domain) THEN @ ELSE e]
       /\ ep' = [ep EXCEPT ![e].bound[KindOf(q)] =
                   [r \in Roles |-> IF r \in Slots(flags) THEN q ELSE @[r]],
             ![e].late = @ \/ ep[e].buffer]
  BY DEF Bind
<1>2. /\ UNCHANGED domain
      /\ IsOpen(e) /\ queue[q] # Closed /\ queue[q].binds < 2 /\ ep[e].domain = queue[q].domain
  BY DEF Bind, SameDomain
<1>3. flags \in SUBSET Roles
  BY PlansAssumption DEF SetupInv, InfoInv, Roles
<1>4. PICK old : old = ep[e]
  OBVIOUS
<1>5. old \in EpSet /\ EpOK(e, old)
  BY <1>2, <1>4 DEF SetupInv, EpInv, EpOK
<1>6. PICK was : was = queue[q]
  OBVIOUS
<1>7. was \in QueueSet
  BY <1>2, <1>6 DEF SetupInv, QueueInv
<1>8. PICK func : func = IF AutoProgress(ep[e].domain) THEN was.func ELSE ProgressOf(q, flags)
  OBVIOUS
<1>9. PICK arg : arg = IF AutoProgress(ep[e].domain) THEN was.arg ELSE e
  OBVIOUS
<1>10. func \in SUBSET Sides /\ arg \in Eps \cup {"none"}
  BY <1>6, <1>7, <1>8, <1>9 DEF ProgressOf, QueueSet
<1>11. PICK now : now = [was EXCEPT !.binds = was.binds + 1, !.func = func, !.arg = arg]
  OBVIOUS
<1>12. queue' = [queue EXCEPT ![q] = now]
  BY <1>1, <1>6, <1>8, <1>9, <1>11 DEF SetupInv, QueueInv
<1>13. /\ now \in QueueSet /\ now.domain = was.domain /\ now.waits = was.waits
       /\ now.locked = was.locked /\ now.binds = was.binds + 1 /\ now.func = func /\ now.arg = arg
  <2>1. PICK n : n = was.binds + 1
    OBVIOUS
  <2>2. n \in 0 .. 2
    BY <1>2, <1>6, <1>7, <2>1 DEF QueueSet
  <2>3. now = [was EXCEPT !.binds = n, !.func = func, !.arg = arg]
    BY <1>11, <2>1
  <2>4. /\ now \in QueueSet /\ now.domain = was.domain /\ now.waits = was.waits
        /\ now.locked = was.locked /\ now.binds = n /\ now.func = func /\ now.arg = arg
    BY <1>7, <1>10, <2>2, <2>3 DEF QueueSet
  <2> QED
    BY <2>1, <2>4
<1>14. now # Closed
  BY <1>13 DEF QueueSet, Closed
<1>15. QueueInv'
  BY <1>2, <1>6, <1>12, <1>13, <1>14 DEF SetupInv, QueueInv
<1>16. PICK slots : slots = [r \in Roles |-> IF r \in Slots(flags) THEN q ELSE old.bound[KindOf(q)][r]]
  OBVIOUS
<1>17. PICK late : late = (old.late \/ old.buffer)
  OBVIOUS
<1>18. KindOf(q) \in Kinds
  BY DEF KindOf, Kinds
<1>19. PICK bound : bound = [old.bound EXCEPT ![KindOf(q)] = slots]
  OBVIOUS
<1>20. PICK x : x = [old EXCEPT !.bound = bound, !.late = late]
  OBVIOUS
<1>21. bound \in [Kinds -> [Roles -> Queues \cup {NoQueue}]] /\ late \in BOOLEAN
  BY <1>5, <1>16, <1>17, <1>18, <1>19 DEF EpSet
<1>22. ep' = [ep EXCEPT ![e] = x]
  BY <1>1, <1>4, <1>5, <1>16, <1>17, <1>18, <1>19, <1>20 DEF SetupInv, EpInv, EpSet
<1>23. /\ x \in EpSet /\ x.state = old.state /\ x.buffer = old.buffer
       /\ x.late = late /\ x.interrupts = old.interrupts /\ x.refused = old.refused
       /\ x.from = old.from /\ x.domain = old.domain /\ x.caps = old.caps /\ x.msg = old.msg
       /\ x.rma = old.rma /\ x.locked = old.locked /\ x.name = old.name /\ x.bound = bound
  BY <1>5, <1>20, <1>21 DEF EpSet
<1>24. Opened(x) /\ Located(x) /\ Buffered(x)
  BY <1>5, <1>23 DEF EpOK, Opened, Located, Buffered
<1>25. Located(x)' /\ AutoProgress(x.domain)' = AutoProgress(x.domain)
  BY <1>2, <1>24 DEF Located, AutoProgress
<1>26. Interrupted(x)'
  BY <1>5, <1>17, <1>23, <1>25 DEF EpOK, Interrupted
<1>27. ASSUME NEW k \in Kinds, NEW r \in Roles, bound[k][r] # NoQueue
       PROVE  LET b == bound[k][r] IN
              /\ queue'[b] # Closed /\ queue'[b].domain = x.domain
              /\ queue'[b].binds >= 1 /\ Driven(e, x, b, r)'
  <2>1. CASE bound[k][r] = old.bound[k][r] /\ bound[k][r] # q
    <3>1. PICK b : b = bound[k][r]
      OBVIOUS
    <3>2. b \in Queues /\ queue'[b] = queue[b]
      BY <1>12, <1>21, <1>27, <2>1, <3>1 DEF SetupInv, QueueInv
    <3>3. /\ queue[b] # Closed /\ queue[b].domain = old.domain
          /\ queue[b].binds >= 1 /\ Driven(e, old, b, r)
      BY <1>5, <1>27, <2>1, <3>1 DEF EpOK, BoundOK
    <3> QED
      BY <1>23, <1>25, <3>1, <3>2, <3>3 DEF Driven
  <2>2. CASE bound[k][r] = old.bound[k][r] /\ bound[k][r] = q /\ r \notin Slots(flags)
    <3>1. was.binds >= 1
      BY <1>5, <1>6, <1>27, <2>2 DEF EpOK, BoundOK
    <3>2. queue'[q] = now /\ now.binds # 1
      BY <1>7, <1>12, <1>13, <3>1 DEF SetupInv, QueueInv, QueueSet
    <3> QED
      BY <1>2, <1>4, <1>6, <1>7, <1>13, <1>14, <1>23, <2>2, <3>1, <3>2 DEF Driven, QueueSet
  <2>3. CASE bound[k][r] = old.bound[k][r] /\ bound[k][r] = q /\ k # KindOf(q)
    <3>1. was.binds >= 1
      BY <1>5, <1>6, <1>27, <2>3 DEF EpOK, BoundOK
    <3>2. queue'[q] = now /\ now.binds # 1
      BY <1>7, <1>12, <1>13, <3>1 DEF SetupInv, QueueInv, QueueSet
    <3> QED
      BY <1>2, <1>4, <1>6, <1>7, <1>13, <1>14, <1>23, <2>3, <3>1, <3>2 DEF Driven, QueueSet
  <2>4. CASE bound[k][r] = q /\ r \in Slots(flags)
    <3>1. queue'[q] = now
      BY <1>12 DEF SetupInv, QueueInv
    <3>2. r \in Sides => r \in flags
      BY <2>4 DEF Slots, Sides
    <3>3. r \in Sides /\ ~AutoProgress(x.domain) => now.arg = e /\ r \in now.func
      BY <1>4, <1>8, <1>9, <1>13, <1>23, <3>2 DEF ProgressOf
    <3>4. Driven(e, x, q, r)'
      BY <1>25, <3>1, <3>3 DEF Driven
    <3> QED
      BY <1>2, <1>4, <1>6, <1>7, <1>13, <1>14, <1>23, <2>4, <3>1, <3>4 DEF QueueSet
  <2> QED
    BY <1>5, <1>16, <1>18, <1>19, <2>1, <2>2, <2>3, <2>4 DEF EpSet
<1>28. BoundOK(e, x)'
  BY <1>23, <1>27 DEF BoundOK
<1>29. EpOK(e, x)'
  BY <1>23, <1>24, <1>25, <1>26, <1>28 DEF EpOK, Opened, Buffered
<1>30. ASSUME NEW f \in Eps, f # e, IsOpen(f) PROVE EpOK(f, ep[f])'
  <2>1. PICK y : y = ep[f]
    OBVIOUS
  <2>2. ep'[f] = y /\ y \in EpSet /\ EpOK(f, y)
    BY <1>22, <1>30, <2>1 DEF SetupInv, EpInv, EpOK
  <2>3. Opened(y)' /\ Buffered(y)' /\ Located(y)' /\ AutoProgress(y.domain)' = AutoProgress(y.domain)
    BY <1>2, <2>2 DEF EpOK, Opened, Buffered, Located, AutoProgress
  <2>4. ASSUME NEW k \in Kinds, NEW r \in Roles, y.bound[k][r] # NoQueue
        PROVE  LET b == y.bound[k][r] IN
               /\ queue'[b] # Closed /\ queue'[b].domain = y.domain /\ queue'[b].binds >= 1
               /\ queue'[b].waits = queue[b].waits /\ Driven(f, y, b, r)'
    <3>1. PICK b : b = y.bound[k][r]
      OBVIOUS
    <3>2. /\ b \in Queues /\ queue[b] # Closed /\ queue[b].domain = y.domain
          /\ queue[b].binds >= 1 /\ Driven(f, y, b, r)
      BY <2>2, <2>4, <3>1 DEF EpOK, BoundOK, EpSet
    <3>3. CASE b # q
      <4>1. queue'[b] = queue[b]
        BY <1>12, <3>2, <3>3 DEF SetupInv, QueueInv
      <4> QED
        BY <2>3, <3>1, <3>2, <4>1 DEF Driven
    <3>4. CASE b = q
      <4>1. queue'[b] = now /\ now.binds # 1 /\ now.binds >= 1
        BY <1>6, <1>7, <1>12, <1>13, <3>2, <3>4 DEF SetupInv, QueueInv, QueueSet
      <4> QED
        BY <1>6, <1>13, <1>14, <3>1, <3>2, <3>4, <4>1 DEF Driven
    <3> QED
      BY <3>3, <3>4
  <2>5. BoundOK(f, y)'
    BY <2>4 DEF BoundOK
  <2>6. Sides \subseteq Roles
    BY DEF Sides, Roles
  <2>7. Interrupted(y)'
    BY <2>2, <2>3, <2>4, <2>6 DEF EpOK, Interrupted, Waits
  <2> QED
    BY <2>2, <2>3, <2>5, <2>7 DEF EpOK
<1>31. EpInv'
  <2>1. ep' \in [Eps -> EpSet \cup {Closed, NewEp}]
    BY <1>22, <1>23 DEF SetupInv, EpInv
  <2>2. ASSUME NEW f \in Eps, IsOpen(f)' PROVE EpOK(f, ep[f])'
    <3>1. CASE f = e
      BY <1>22, <1>29, <3>1 DEF SetupInv, EpInv
    <3>2. CASE f # e
      BY <1>22, <1>30, <2>2, <3>2 DEF SetupInv, EpInv, IsOpen
    <3> QED
      BY <3>1, <3>2
  <2> QED
    BY <2>1, <2>2 DEF EpInv
<1> QED
  BY <1>15, <1>31

\* dpa_cq_open, dpa_cntr_open: a new queue locks as its domain asks.
LEMMA OpenQueueInv ==
  ASSUME SetupInv, NEW q \in Queues, OpenQueue(q)
  PROVE  QueueInv' /\ EpInv'
<1>1. PICK d \in Domains, w \in BOOLEAN :
        /\ domain[d] # Closed
        /\ queue' = [queue EXCEPT ![q] =
            [domain |-> d, waits |-> w, locked |-> domain[d].threading < ThreadCompletion,
             func |-> {}, arg |-> "none", binds |-> 0]]
  BY DEF OpenQueue
<1>2. queue[q] = Closed /\ UNCHANGED <<domain, ep>>
  BY DEF OpenQueue
<1>3. PICK locked : locked = (domain[d].threading < ThreadCompletion)
  OBVIOUS
<1>4. PICK x : x = [domain |-> d, waits |-> w, locked |-> locked, func |-> {}, arg |-> "none", binds |-> 0]
  OBVIOUS
<1>5. x \in QueueSet /\ x.domain = d /\ x.locked = locked
  BY <1>3, <1>4 DEF QueueSet
<1>6. queue' = [queue EXCEPT ![q] = x]
  BY <1>1, <1>3, <1>4
<1>7. \A r \in Queues : queue[r] # Closed => queue'[r] = queue[r]
  BY <1>2, <1>6
<1>8. QueueInv'
  <2>1. queue' \in [Queues -> QueueSet \cup {Closed}]
    BY <1>5, <1>6 DEF SetupInv, QueueInv
  <2>2. domain'[d] = domain[d]
    BY <1>2
  <2>3. ASSUME NEW r \in Queues, queue'[r] # Closed
        PROVE  /\ domain'[queue'[r].domain] # Closed
               /\ queue'[r].locked = (domain'[queue'[r].domain].threading < ThreadCompletion)
    <3>1. CASE r = q
      <4>1. queue'[r] = x
        BY <1>6, <3>1 DEF SetupInv, QueueInv
      <4> QED BY <1>1, <1>3, <1>5, <2>2, <4>1
    <3>2. CASE r # q
      <4>1. queue'[r] = queue[r]
        BY <1>6, <3>2 DEF SetupInv, QueueInv
      <4> QED BY <1>2, <2>3, <4>1 DEF SetupInv, QueueInv
    <3> QED BY <3>1, <3>2
  <2> QED BY <2>1, <2>3 DEF QueueInv
<1> QED
  BY <1>2, <1>7, <1>8, EpsKept DEF SetupInv

\* Every step keeps the whole invariant.
LEMMA SetupNext == SetupInv /\ [Next]_vars => SetupInv'
<1> SUFFICES ASSUME SetupInv, [Next]_vars PROVE SetupInv'
  OBVIOUS
<1>1. InfoInv' /\ DomainInv' /\ \A c \in Domains : domain[c] # Closed => domain'[c] = domain[c]
  BY InfoNext, DomainNext DEF SetupInv
<1>2. ASSUME UNCHANGED queue PROVE QueueInv'
  BY <1>1, <1>2 DEF SetupInv, QueueInv, QueueSet
<1>3. ASSUME UNCHANGED <<queue, ep>> PROVE QueueInv' /\ EpInv'
  BY <1>1, <1>2, <1>3, EpsKept DEF SetupInv
<1>4. CASE GetInfo \/ OpenPep \/ ConnectionRequest \/ Vector \/ UNCHANGED vars
  BY <1>1, <1>3, <1>4 DEF GetInfo, OpenPep, ConnectionRequest, Vector, vars, setupVars, SetupInv
<1>5. CASE \E d \in Domains : OpenDomain(d)
  BY <1>1, <1>3, <1>5 DEF OpenDomain, SetupInv
<1>6. CASE \E q \in Queues : OpenQueue(q)
  BY <1>1, <1>6, OpenQueueInv DEF SetupInv
<1>7. CASE \E e \in Eps : EpNext(e)
  <2>1. PICK e \in Eps : EpNext(e)
    BY <1>7
  <2>2. CASE OpenEp(e)
    BY <1>1, <1>2, <2>2, OpenEpInv DEF OpenEp, SetupInv
  <2>3. CASE \E q \in Queues : Bind(e, q)
    BY <1>1, <2>3, BindInv DEF SetupInv
  <2>4. CASE BindEq(e) \/ Accept(e) \/ Connected(e) \/ Connect(e) \/ Shutdown(e) \/ CloseEp(e)
    <3>1. UNCHANGED queue
      BY <2>4 DEF BindEq, Accept, Connected, Connect, Shutdown, CloseEp
    <3> QED
      BY <1>1, <1>2, <2>4, <3>1, EpStepInv DEF SetupInv
  <2> QED
    BY <2>1, <2>2, <2>3, <2>4 DEF EpNext
<1> QED
  BY <1>4, <1>5, <1>6, <1>7 DEF Next

\* The whole invariant holds in every state.
LEMMA SetupAlways == Spec => []SetupInv
  BY SetupInit, SetupNext, PTL DEF Spec

-----------------------------------------------------------------------------
\* Every object stays of its type (TypeOK).
THEOREM SetupType == Spec => []TypeOK
<1>1. SetupInv /\ AvInv /\ crashed \in BOOLEAN => TypeOK
  <2> SUFFICES ASSUME SetupInv, AvInv, crashed \in BOOLEAN PROVE TypeOK
    OBVIOUS
  <2>1. plan \in Plans /\ info \in InfoSet \cup {NoInfo}
    BY DEF SetupInv, InfoInv, InfoOK
  <2>2. \A d \in Domains : domain[d] # Closed => domain[d].threading \in ThreadSafe .. ThreadCompletion
    BY DEF SetupInv, DomainInv, DomainSet
  <2>3. \A q \in Queues : queue[q] # Closed =>
          /\ queue[q].func \subseteq Sides /\ queue[q].arg \in Eps \cup {"none"}
          /\ queue[q].waits \in BOOLEAN /\ queue[q].binds \in 0 .. 2
    BY DEF SetupInv, QueueInv, QueueSet
  <2>4. \A e \in Eps : IsOpen(e) =>
          /\ ep[e].caps \subseteq AllCap /\ ep[e].interrupts \subseteq Sides
          /\ ep[e].bound \in [Kinds -> [Roles -> Queues \cup {NoQueue}]]
          /\ ep[e].late \in BOOLEAN /\ ep[e].refused \subseteq Sides \cup {"buffer"}
    BY DEF SetupInv, EpInv, EpOK, EpSet
  <2> QED
    BY <2>1, <2>2, <2>3, <2>4 DEF TypeOK, AvInv
<1>2. Init => AvInv /\ crashed \in BOOLEAN
  BY AvInitInv DEF Init
<1>3. AvInv /\ [Next]_vars => AvInv'
  BY OthersKeepVector, AvNextInv
<1>4. crashed \in BOOLEAN /\ [Next]_vars => (crashed \in BOOLEAN)'
  <2> SUFFICES ASSUME crashed \in BOOLEAN, [Next]_vars PROVE crashed' \in BOOLEAN
    OBVIOUS
  <2>1. CASE UNCHANGED vars
    BY <2>1 DEF vars, setupVars
  <2>2. CASE GetInfo \/ OpenPep \/ ConnectionRequest \/ Vector
    BY <2>2 DEF GetInfo, OpenPep, ConnectionRequest, Vector, setupVars
  <2>3. CASE (\E d \in Domains : OpenDomain(d)) \/ \E q \in Queues : OpenQueue(q)
    BY <2>3 DEF OpenDomain, OpenQueue
  <2>4. CASE \E e \in Eps : EpNext(e)
    <3>1. PICK e \in Eps : EpNext(e)
      BY <2>4
    <3> QED
      BY <3>1 DEF EpNext, OpenEp, BindEq, Accept, Connected, Connect, Shutdown, CloseEp, Bind, Allocates,
                      AllocationFails
  <2> QED
    BY <2>1, <2>2, <2>3, <2>4 DEF Next
<1> QED
  BY <1>1, <1>2, <1>3, <1>4, SetupAlways, PTL DEF Spec

\* FI_THREAD_SAFE: the endpoint and whatever is bound to it lock
\* (SafeMeansLocked), for any number of domains, endpoints and queues.
THEOREM SafeEndpointsLock == Spec => []SafeMeansLocked
<1>1. SetupInv => SafeMeansLocked
  <2> SUFFICES ASSUME SetupInv, NEW e \in Eps, NEW k \in Kinds, NEW r \in Roles,
                      IsOpen(e), Bound(e, k, r) # NoQueue
               PROVE  LET q == Bound(e, k, r) IN
                      /\ queue[q].domain = ep[e].domain
                      /\ domain[ep[e].domain].threading = ThreadSafe => ep[e].locked /\ queue[q].locked
    BY DEF SafeMeansLocked
  <2>1. PICK x : x = ep[e]
    OBVIOUS
  <2>2. EpOK(e, x)
    BY <2>1 DEF SetupInv, EpInv
  <2>3. PICK q : q = Bound(e, k, r)
    OBVIOUS
  <2>4. q \in Queues /\ queue[q] # Closed /\ queue[q].domain = x.domain
    BY <2>1, <2>2, <2>3 DEF EpOK, BoundOK, EpSet, Bound
  <2>5. domain[x.domain].threading < ThreadCompletion => queue[q].locked
    BY <2>4 DEF SetupInv, QueueInv
  <2>6. domain[x.domain].threading < ThreadFid => x.locked
    BY <2>2 DEF EpOK, Located
  <2> QED
    BY <2>1, <2>3, <2>4, <2>5, <2>6 DEF ThreadSafe, ThreadFid, ThreadCompletion
<1> QED
  BY <1>1, SetupAlways, PTL

\* dpa_ep_open: the tables and the name of an endpoint are what its info
\* announced (EndpointAsAnnounced), for every set of capabilities.
THEOREM EndpointsAsAnnounced == Spec => []EndpointAsAnnounced
<1>1. SetupInv => EndpointAsAnnounced
  <2> SUFFICES ASSUME SetupInv, NEW e \in Eps, IsOpen(e)
               PROVE  LET i == ep[e].from IN
                      /\ ("msg" \in i.caps) <=> (ep[e].msg # NoTable)
                      /\ ("rma" \in i.caps) <=> (ep[e].rma # NoTable)
                      /\ ep[e].msg # NoTable => ep[e].msg # {} /\ i.caps \cap Sides \subseteq ep[e].msg
                      /\ i.handle => ep[e].name = i.src.service
    BY DEF EndpointAsAnnounced
  <2>1. PICK x : x = ep[e]
    OBVIOUS
  <2>2. x \in EpSet /\ Opened(x)
    BY <2>1 DEF SetupInv, EpInv, EpOK
  <2>3. PICK caps : caps = x.from.caps
    OBVIOUS
  <2>4. caps \in SUBSET AllCap
    <3>1. Expanded(caps) \in SUBSET AllCap
      BY <2>2, <2>3 DEF Opened, EpSet
    <3> QED
      BY <3>1 DEF Expanded
  <2>5. /\ "msg" \in x.caps <=> "msg" \in caps
        /\ "rma" \in x.caps <=> "rma" \in caps
        /\ caps \subseteq x.caps
        /\ "msg" \in caps => x.caps \cap Sides # {}
    BY <2>2, <2>3, <2>4, ExpandedCaps DEF Opened
  <2>6. x.msg = TableOf(x.caps, "msg", Sides) /\ x.rma = TableOf(x.caps, "rma", {"read", "write"})
    BY <2>2 DEF Opened, MsgTable, RmaTable
  <2>7. x.caps \cap Sides # NoTable /\ x.caps \cap {"read", "write"} # NoTable
    BY DEF NoTable, Sides
  <2>8. x.from.handle => x.name = x.from.src.service
    BY <2>2 DEF Opened
  <2>9. /\ "msg" \in caps <=> x.msg # NoTable
        /\ "rma" \in caps <=> x.rma # NoTable
    BY <2>5, <2>6, <2>7 DEF TableOf
  <2>10. x.msg # NoTable => x.msg # {} /\ caps \cap Sides \subseteq x.msg
    BY <2>5, <2>6 DEF TableOf
  <2> QED
    BY <2>1, <2>3, <2>8, <2>9, <2>10
<1> QED
  BY <1>1, SetupAlways, PTL

\* fi_getinfo, dpa_domain_open, dpa_ep_open: what was announced is what there is
\* (EverythingAsAnnounced), whatever was asked for.
THEOREM AllAsAnnounced == Spec => []EverythingAsAnnounced
  BY AnswersAreStable, DomainsAsAnnounced, EndpointsAsAnnounced, PTL DEF EverythingAsAnnounced

\* alloc_msg_buffer: an endpoint with a table of messages has a buffer once it
\* is connected (MessagesHaveBuffer), whatever it was asked for, or was refused it.
THEOREM EndpointsHaveBuffers == Spec => []MessagesHaveBuffer
<1>1. SetupInv => MessagesHaveBuffer
  <2> SUFFICES ASSUME SetupInv, NEW e \in Eps, ep[e].state = "connected", ep[e].msg # NoTable
               PROVE  ep[e].buffer \/ "buffer" \in ep[e].refused
    BY DEF MessagesHaveBuffer
  <2>1. EpOK(e, ep[e])
    BY DEF SetupInv, EpInv, IsOpen
  <2>2. PICK x : x = ep[e]
    OBVIOUS
  <2>3. "msg" \in x.caps
    BY <2>1, <2>2 DEF EpOK, Opened, MsgTable, TableOf
  <2>4. x.from.caps \in SUBSET AllCap
    <3>1. Expanded(x.from.caps) \in SUBSET AllCap
      BY <2>1, <2>2 DEF EpOK, Opened, EpSet
    <3> QED
      BY <3>1 DEF Expanded
  <2>5. x.caps \cap Sides # {}
    BY <2>1, <2>2, <2>3, <2>4, ExpandedCaps DEF EpOK, Opened
  <2> QED
    BY <2>1, <2>2, <2>5 DEF EpOK, Buffered
<1> QED
  BY <1>1, SetupAlways, PTL

\* bind_progress: the function a queue calls is that of the endpoint it is bound
\* to, for all its sides (ReadDrivesItsSides), as long as it was bound once.
THEOREM ReadsDriveTheirSides == Spec => []ReadDrivesItsSides
<1>1. SetupInv => ReadDrivesItsSides
  <2>1. Sides \subseteq Roles
    BY DEF Sides, Roles
  <2> QED
    BY <2>1 DEF SetupInv, EpInv, EpOK, BoundOK, Driven, ReadDrivesItsSides, Bound
<1> QED
  BY <1>1, SetupAlways, PTL

\* alloc_msg_buffer: whoever waits has the interrupt to wait on
\* (WaiterHasInterrupt), for any queues bound in any order.
THEOREM WaitersHaveInterrupts == Spec => []WaiterHasInterrupt
<1>1. SetupInv => WaiterHasInterrupt
  <2> SUFFICES ASSUME SetupInv, NEW e \in Eps, NEW s \in Sides,
                      ep[e].state = "connected", ep[e].buffer, s \in ep[e].caps \ ep[e].refused
               PROVE  /\ AutoProgress(ep[e].domain) => s \in ep[e].interrupts
                      /\ \A k \in Kinds :
                           LET q == Bound(e, k, s) IN
                           Waits(q) /\ ~ep[e].late /\ (s = "send" => Bound(e, k, "recv") # NoQueue)
                             => s \in ep[e].interrupts
    BY DEF WaiterHasInterrupt
  <2>1. EpOK(e, ep[e])
    BY DEF SetupInv, EpInv, IsOpen
  <2> QED
    BY <2>1 DEF EpOK, Interrupted, Bound
<1> QED
  BY <1>1, SetupAlways, PTL

=============================================================================
