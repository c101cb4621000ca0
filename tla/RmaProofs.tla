------------------------------ MODULE RmaProofs ------------------------------
(***************************************************************************)
(* Theorems about Rma for every set of nodes, keys and region lengths:     *)
(* calls that fail half way neither lose a handle nor keep one twice, and  *)
(* a mapping is used only for the target it was made for.  And about the   *)
(* loops over the parts of a local buffer, for every number of parts: what *)
(* is copied is as much of the buffer as the unsigned room behind the      *)
(* address, which lies in the mapping or beyond it, leaves.                *)
(***************************************************************************)
EXTENDS Rma, WellFoundedInduction, TLAPS

\* The handles in the cache are those of the stage the call is in; outside
\* of cache_connect there are all of them or none.
HandlesStaged ==
  /\ pc = "open" => cache.handles \cap RegionHandles = {}
  /\ pc = "segment" => cache.handles \cap RegionHandles = {"sd"}
  /\ pc = "map" => cache.handles \cap RegionHandles = {"sd", "segment"}
  /\ pc = "sequence" => cache.handles \cap RegionHandles = {"sd", "segment", "map"}
  /\ pc \in {"idle", "access", "interrupt", "trigger"} =>
       cache.handles \cap RegionHandles \in {{}, RegionHandles}

\* Outside of cache_connect the cached target is that of the mapping; where
\* it is used, that is the target of the call, and so is the interrupt.
MappingStaged ==
  /\ pc # "idle" => op.target \in Targets
  /\ pc # "sequence" => cache.target = cache.base
  /\ pc \in {"open", "segment", "map"} => cache.base = None
  /\ pc \in {"sequence", "access"} => cache.base = op.target
  /\ cache.base # None => "map" \in cache.handles
  /\ pc = "trigger" => cache.interrupt.id = op.id

IInv == TypeOK /\ HandlesOwned /\ HandlesStaged /\ MappingStaged /\ AccessHitsTarget

-----------------------------------------------------------------------------
\* The initial states satisfy the invariant.
LEMMA InitInv == Init => IInv
<1> SUFFICES ASSUME Init PROVE IInv
  OBVIOUS
<1>1. TypeOK
  BY DEF Init, TypeOK, Caches, Empty, NoCall, Steps, Kinds
<1>2. HandlesOwned /\ HandlesStaged /\ MappingStaged /\ AccessHitsTarget
  BY DEF Init, HandlesOwned, HandlesStaged, MappingStaged, AccessHitsTarget, Empty
<1>. QED
  BY <1>1, <1>2 DEF IInv

-----------------------------------------------------------------------------
\* cache_disconnect leaves no handle of a region, whatever there was.
LEMMA DisconnectEmpties ==
  ASSUME TypeOK, HandlesOwned, CacheDisconnect
  PROVE  /\ cache' \in Caches
         /\ cache'.handles \cap RegionHandles = {}
         /\ cache'.target = None /\ cache'.base = None
         /\ held' \in [Kinds -> Nat]
         /\ HandlesOwned'
<1>1. cache' = [target |-> None, base |-> None, len |-> 0,
                handles |-> cache.handles \ RegionHandles, interrupt |-> cache.interrupt]
  BY DEF CacheDisconnect, Empty
<1>2. cache' \in Caches
  BY <1>1 DEF TypeOK, Caches
<1>3. cache'.handles = cache.handles \ RegionHandles
  BY <1>1
<1>4. held' \in [Kinds -> Nat] /\ HandlesOwned'
  BY <1>3 DEF CacheDisconnect, Gone, TypeOK, HandlesOwned, Kinds, RegionHandles
<1>. QED
  BY <1>1, <1>2, <1>3, <1>4

-----------------------------------------------------------------------------
\* Every step keeps it.
LEMMA StepInv == IInv /\ [Next]_vars => IInv'
<1> SUFFICES ASSUME IInv, [Next]_vars PROVE IInv'
  OBVIOUS
<1>. USE DEF IInv
<1>1. ASSUME NEW t \in Targets, RegisterMr(t) PROVE IInv'
  <2>1. TypeOK'
    <3>1. cache' \in Caches
      BY <1>1 DEF RegisterMr, remoteVars, historyVars, TypeOK, Caches, MappingStaged, Interrupts, Targets, Kinds, RegionHandles
    <3>2. held' \in [Kinds -> Nat]
      BY <1>1 DEF RegisterMr, remoteVars, historyVars, TypeOK, HandlesOwned, HandlesStaged, Kinds, RegionHandles
    <3>. QED
      BY <1>1, <3>1, <3>2 DEF RegisterMr, remoteVars, historyVars, TypeOK, Steps
  <2>2. HandlesOwned' /\ HandlesStaged'
    BY <1>1 DEF RegisterMr, remoteVars, historyVars, TypeOK, HandlesOwned, HandlesStaged, Kinds, RegionHandles
  <2>3. MappingStaged' /\ AccessHitsTarget'
    BY <1>1, NoneAssumption DEF RegisterMr, remoteVars, historyVars, TypeOK, MappingStaged, AccessHitsTarget
  <2>. QED
    BY <2>1, <2>2, <2>3
<1>2. ASSUME NEW t \in Targets, RegisterFails(t) PROVE IInv'
  <2>1. TypeOK'
    <3>1. cache' \in Caches
      BY <1>2 DEF RegisterFails, remoteVars, historyVars, TypeOK, Caches, MappingStaged, Interrupts, Targets, Kinds, RegionHandles
    <3>2. held' \in [Kinds -> Nat]
      BY <1>2 DEF RegisterFails, remoteVars, historyVars, TypeOK, HandlesOwned, HandlesStaged, Kinds, RegionHandles
    <3>. QED
      BY <1>2, <3>1, <3>2 DEF RegisterFails, remoteVars, historyVars, TypeOK, Steps
  <2>2. HandlesOwned' /\ HandlesStaged'
    BY <1>2 DEF RegisterFails, remoteVars, historyVars, TypeOK, HandlesOwned, HandlesStaged, Kinds, RegionHandles
  <2>3. MappingStaged' /\ AccessHitsTarget'
    BY <1>2, NoneAssumption DEF RegisterFails, remoteVars, historyVars, TypeOK, MappingStaged, AccessHitsTarget
  <2>. QED
    BY <2>1, <2>2, <2>3
<1>3. ASSUME NEW t \in Targets, CloseMr(t) PROVE IInv'
  <2>1. TypeOK'
    <3>1. cache' \in Caches
      BY <1>3 DEF CloseMr, remoteVars, historyVars, TypeOK, Caches, MappingStaged, Interrupts, Targets, Kinds, RegionHandles
    <3>2. held' \in [Kinds -> Nat]
      BY <1>3 DEF CloseMr, remoteVars, historyVars, TypeOK, HandlesOwned, HandlesStaged, Kinds, RegionHandles
    <3>. QED
      BY <1>3, <3>1, <3>2 DEF CloseMr, remoteVars, historyVars, TypeOK, Steps
  <2>2. HandlesOwned' /\ HandlesStaged'
    BY <1>3 DEF CloseMr, remoteVars, historyVars, TypeOK, HandlesOwned, HandlesStaged, Kinds, RegionHandles
  <2>3. MappingStaged' /\ AccessHitsTarget'
    BY <1>3, NoneAssumption DEF CloseMr, remoteVars, historyVars, TypeOK, MappingStaged, AccessHitsTarget
  <2>. QED
    BY <2>1, <2>2, <2>3
<1>4. ASSUME NEW i \in Interrupts, WaitData(i) PROVE IInv'
  <2>1. TypeOK'
    <3>1. cache' \in Caches
      BY <1>4 DEF WaitData, remoteVars, historyVars, TypeOK, Caches, MappingStaged, Interrupts, Targets, Kinds, RegionHandles
    <3>2. held' \in [Kinds -> Nat]
      BY <1>4 DEF WaitData, remoteVars, historyVars, TypeOK, HandlesOwned, HandlesStaged, Kinds, RegionHandles
    <3>. QED
      BY <1>4, <3>1, <3>2 DEF WaitData, remoteVars, historyVars, TypeOK, Steps
  <2>2. HandlesOwned' /\ HandlesStaged'
    BY <1>4 DEF WaitData, remoteVars, historyVars, TypeOK, HandlesOwned, HandlesStaged, Kinds, RegionHandles
  <2>3. MappingStaged' /\ AccessHitsTarget'
    BY <1>4, NoneAssumption DEF WaitData, remoteVars, historyVars, TypeOK, MappingStaged, AccessHitsTarget
  <2>. QED
    BY <2>1, <2>2, <2>3
<1>5. ASSUME NEW t \in Targets, NEW kind \in {"read", "write"}, NEW id \in IntIds \cup {None}, Call(t, kind, id) PROVE IInv'
  <2>1. CASE Hit(t) /\ pc' = "access" /\ UNCHANGED <<cache, held>>
    <3>1. TypeOK' /\ HandlesOwned' /\ HandlesStaged'
      BY <1>5, <2>1 DEF Call, remoteVars, TypeOK, Steps, HandlesOwned, HandlesStaged
    <3>2. MappingStaged' /\ AccessHitsTarget'
      BY <1>5, <2>1 DEF Call, Hit, MappingStaged, AccessHitsTarget
    <3>. QED
      BY <3>1, <3>2
  <2>2. CASE ~Hit(t) /\ pc' = "open" /\ "segment" \in cache.handles /\ CacheDisconnect
    <3>1. TypeOK'
      BY <1>5, <2>2, DisconnectEmpties DEF Call, remoteVars, TypeOK, Steps
    <3>2. HandlesOwned' /\ HandlesStaged'
      BY <2>2, DisconnectEmpties DEF HandlesStaged
    <3>3. MappingStaged' /\ AccessHitsTarget'
      BY <1>5, <2>2, DisconnectEmpties DEF Call, MappingStaged, AccessHitsTarget
    <3>. QED
      BY <3>1, <3>2, <3>3
  <2>3. CASE ~Hit(t) /\ pc' = "open" /\ "segment" \notin cache.handles /\ UNCHANGED <<cache, held>>
    <3>1. cache.handles \cap RegionHandles = {}
      BY <1>5, <2>3 DEF Call, HandlesStaged, RegionHandles
    <3>2. TypeOK' /\ HandlesOwned'
      BY <1>5, <2>3 DEF Call, remoteVars, TypeOK, Steps, HandlesOwned
    <3>3. HandlesStaged'
      BY <2>3, <3>1 DEF HandlesStaged
    <3>4. cache.base = None
      BY <3>1 DEF MappingStaged, RegionHandles
    <3>5. MappingStaged' /\ AccessHitsTarget'
      BY <1>5, <2>3, <3>4 DEF Call, MappingStaged, AccessHitsTarget
    <3>. QED
      BY <3>2, <3>3, <3>5
  <2>. QED
    BY <1>5, <2>1, <2>2, <2>3 DEF Call
<1>6. ASSUME Open PROVE IInv'
  <2>1. TypeOK'
    <3>1. cache' \in Caches
      BY <1>6 DEF Open, Acquire, remoteVars, historyVars, TypeOK, Caches, MappingStaged, Interrupts, Targets, Kinds, RegionHandles
    <3>2. held' \in [Kinds -> Nat]
      BY <1>6 DEF Open, Acquire, remoteVars, historyVars, TypeOK, HandlesOwned, HandlesStaged, Kinds, RegionHandles
    <3>. QED
      BY <1>6, <3>1, <3>2 DEF Open, Acquire, remoteVars, historyVars, TypeOK, Steps
  <2>2. HandlesOwned' /\ HandlesStaged'
    BY <1>6 DEF Open, Acquire, remoteVars, historyVars, TypeOK, HandlesOwned, HandlesStaged, Kinds, RegionHandles
  <2>3. MappingStaged' /\ AccessHitsTarget'
    BY <1>6, NoneAssumption DEF Open, Acquire, remoteVars, historyVars, TypeOK, MappingStaged, AccessHitsTarget
  <2>. QED
    BY <2>1, <2>2, <2>3
<1>7. ASSUME ConnectSegment PROVE IInv'
  <2>1. TypeOK'
    <3>0. regions[op.target] \in Lens
      BY <1>7 DEF ConnectSegment, TypeOK, MappingStaged
    <3>1. cache' \in Caches
      BY <1>7, <3>0 DEF ConnectSegment, Acquire, remoteVars, historyVars, TypeOK, Caches, MappingStaged, Interrupts, Targets, Kinds, RegionHandles
    <3>2. held' \in [Kinds -> Nat]
      BY <1>7 DEF ConnectSegment, Acquire, remoteVars, historyVars, TypeOK, HandlesOwned, HandlesStaged, Kinds, RegionHandles
    <3>. QED
      BY <1>7, <3>1, <3>2 DEF ConnectSegment, Acquire, remoteVars, historyVars, TypeOK, Steps
  <2>2. HandlesOwned' /\ HandlesStaged'
    BY <1>7 DEF ConnectSegment, Acquire, remoteVars, historyVars, TypeOK, HandlesOwned, HandlesStaged, Kinds, RegionHandles
  <2>3. MappingStaged' /\ AccessHitsTarget'
    BY <1>7, NoneAssumption DEF ConnectSegment, Acquire, remoteVars, historyVars, TypeOK, MappingStaged, AccessHitsTarget
  <2>. QED
    BY <2>1, <2>2, <2>3
<1>8. ASSUME MapSegment PROVE IInv'
  <2>1. TypeOK'
    <3>1. cache' \in Caches
      BY <1>8 DEF MapSegment, Acquire, remoteVars, historyVars, TypeOK, Caches, MappingStaged, Interrupts, Targets, Kinds, RegionHandles
    <3>2. held' \in [Kinds -> Nat]
      BY <1>8 DEF MapSegment, Acquire, remoteVars, historyVars, TypeOK, HandlesOwned, HandlesStaged, Kinds, RegionHandles
    <3>. QED
      BY <1>8, <3>1, <3>2 DEF MapSegment, Acquire, remoteVars, historyVars, TypeOK, Steps
  <2>2. HandlesOwned' /\ HandlesStaged'
    BY <1>8 DEF MapSegment, Acquire, remoteVars, historyVars, TypeOK, HandlesOwned, HandlesStaged, Kinds, RegionHandles
  <2>3. MappingStaged' /\ AccessHitsTarget'
    BY <1>8, NoneAssumption DEF MapSegment, Acquire, remoteVars, historyVars, TypeOK, MappingStaged, AccessHitsTarget
  <2>. QED
    BY <2>1, <2>2, <2>3
<1>9. ASSUME StartSequence PROVE IInv'
  <2>1. TypeOK'
    <3>1. cache' \in Caches
      BY <1>9 DEF StartSequence, Acquire, remoteVars, historyVars, TypeOK, Caches, MappingStaged, Interrupts, Targets, Kinds, RegionHandles
    <3>2. held' \in [Kinds -> Nat]
      BY <1>9 DEF StartSequence, Acquire, remoteVars, historyVars, TypeOK, HandlesOwned, HandlesStaged, Kinds, RegionHandles
    <3>. QED
      BY <1>9, <3>1, <3>2 DEF StartSequence, Acquire, remoteVars, historyVars, TypeOK, Steps
  <2>2. HandlesOwned' /\ HandlesStaged'
    BY <1>9 DEF StartSequence, Acquire, remoteVars, historyVars, TypeOK, HandlesOwned, HandlesStaged, Kinds, RegionHandles
  <2>3. MappingStaged' /\ AccessHitsTarget'
    BY <1>9, NoneAssumption DEF StartSequence, Acquire, remoteVars, historyVars, TypeOK, MappingStaged, AccessHitsTarget
  <2>. QED
    BY <2>1, <2>2, <2>3
<1>10. ASSUME ConnectFails PROVE IInv'
  <2>1. CacheDisconnect
    BY <1>10 DEF ConnectFails
  <2>2. TypeOK'
    BY <1>10, <2>1, DisconnectEmpties DEF ConnectFails, remoteVars, historyVars, TypeOK, Steps
  <2>3. HandlesOwned' /\ HandlesStaged'
    BY <1>10, <2>1, DisconnectEmpties DEF ConnectFails, HandlesStaged
  <2>4. MappingStaged' /\ AccessHitsTarget'
    BY <1>10, <2>1, DisconnectEmpties DEF ConnectFails, historyVars, MappingStaged, AccessHitsTarget
  <2>. QED
    BY <2>2, <2>3, <2>4
<1>11. ASSUME NEW addr \in Offsets, NEW iov \in Iovs, Access(addr, iov) PROVE IInv'
  <2>1. TypeOK'
    <3>1. cache' \in Caches
      BY <1>11 DEF Access, remoteVars, historyVars, TypeOK, Caches, MappingStaged, Interrupts, Targets, Kinds, RegionHandles
    <3>2. held' \in [Kinds -> Nat]
      BY <1>11 DEF Access, remoteVars, historyVars, TypeOK, HandlesOwned, HandlesStaged, Kinds, RegionHandles
    <3>. QED
      BY <1>11, <3>1, <3>2 DEF Access, remoteVars, historyVars, TypeOK, Steps
  <2>2. HandlesOwned' /\ HandlesStaged'
    BY <1>11 DEF Access, remoteVars, historyVars, TypeOK, HandlesOwned, HandlesStaged, Kinds, RegionHandles
  <2>3. MappingStaged' /\ AccessHitsTarget'
    BY <1>11, NoneAssumption DEF Access, remoteVars, historyVars, TypeOK, MappingStaged, AccessHitsTarget
  <2>. QED
    BY <2>1, <2>2, <2>3
<1>12. ASSUME ReuseInterrupt PROVE IInv'
  <2>1. TypeOK'
    <3>1. cache' \in Caches
      BY <1>12 DEF ReuseInterrupt, remoteVars, historyVars, TypeOK, Caches, MappingStaged, Interrupts, Targets, Kinds, RegionHandles
    <3>2. held' \in [Kinds -> Nat]
      BY <1>12 DEF ReuseInterrupt, remoteVars, historyVars, TypeOK, HandlesOwned, HandlesStaged, Kinds, RegionHandles
    <3>. QED
      BY <1>12, <3>1, <3>2 DEF ReuseInterrupt, remoteVars, historyVars, TypeOK, Steps
  <2>2. HandlesOwned' /\ HandlesStaged'
    BY <1>12 DEF ReuseInterrupt, remoteVars, historyVars, TypeOK, HandlesOwned, HandlesStaged, Kinds, RegionHandles
  <2>3. MappingStaged' /\ AccessHitsTarget'
    BY <1>12, NoneAssumption DEF ReuseInterrupt, Connected, remoteVars, historyVars, TypeOK, MappingStaged, AccessHitsTarget
  <2>. QED
    BY <2>1, <2>2, <2>3
<1>13. ASSUME DisconnectInterrupt PROVE IInv'
  <2>1. TypeOK'
    <3>1. cache' \in Caches
      BY <1>13 DEF DisconnectInterrupt, Connected, remoteVars, historyVars, TypeOK, Caches, MappingStaged, Interrupts, Targets, Kinds, RegionHandles
    <3>2. held' \in [Kinds -> Nat]
      BY <1>13 DEF DisconnectInterrupt, Connected, remoteVars, historyVars, TypeOK, HandlesOwned, HandlesStaged, Kinds, RegionHandles
    <3>. QED
      BY <1>13, <3>1, <3>2 DEF DisconnectInterrupt, Connected, remoteVars, historyVars, TypeOK, Steps
  <2>2. HandlesOwned' /\ HandlesStaged'
    BY <1>13 DEF DisconnectInterrupt, Connected, remoteVars, historyVars, TypeOK, HandlesOwned, HandlesStaged, Kinds, RegionHandles
  <2>3. MappingStaged' /\ AccessHitsTarget'
    BY <1>13, NoneAssumption DEF DisconnectInterrupt, Connected, remoteVars, historyVars, TypeOK, MappingStaged, AccessHitsTarget
  <2>. QED
    BY <2>1, <2>2, <2>3
<1>14. ASSUME ConnectInterrupt PROVE IInv'
  <2>1. TypeOK'
    <3>1. cache' \in Caches
      BY <1>14 DEF ConnectInterrupt, Acquire, remoteVars, historyVars, TypeOK, Caches, MappingStaged, Interrupts, Targets, Kinds, RegionHandles
    <3>2. held' \in [Kinds -> Nat]
      BY <1>14 DEF ConnectInterrupt, Acquire, remoteVars, historyVars, TypeOK, HandlesOwned, HandlesStaged, Kinds, RegionHandles
    <3>. QED
      BY <1>14, <3>1, <3>2 DEF ConnectInterrupt, Acquire, remoteVars, historyVars, TypeOK, Steps
  <2>2. HandlesOwned' /\ HandlesStaged'
    BY <1>14 DEF ConnectInterrupt, Acquire, remoteVars, historyVars, TypeOK, HandlesOwned, HandlesStaged, Kinds, RegionHandles
  <2>3. MappingStaged' /\ AccessHitsTarget'
    BY <1>14, NoneAssumption DEF ConnectInterrupt, Acquire, remoteVars, historyVars, TypeOK, Caches, MappingStaged, AccessHitsTarget
  <2>. QED
    BY <2>1, <2>2, <2>3
<1>15. ASSUME ConnectInterruptFails PROVE IInv'
  <2>1. TypeOK'
    <3>1. cache' \in Caches
      BY <1>15 DEF ConnectInterruptFails, remoteVars, historyVars, TypeOK, Caches, MappingStaged, Interrupts, Targets, Kinds, RegionHandles
    <3>2. held' \in [Kinds -> Nat]
      BY <1>15 DEF ConnectInterruptFails, remoteVars, historyVars, TypeOK, HandlesOwned, HandlesStaged, Kinds, RegionHandles
    <3>. QED
      BY <1>15, <3>1, <3>2 DEF ConnectInterruptFails, remoteVars, historyVars, TypeOK, Steps
  <2>2. HandlesOwned' /\ HandlesStaged'
    BY <1>15 DEF ConnectInterruptFails, remoteVars, historyVars, TypeOK, HandlesOwned, HandlesStaged, Kinds, RegionHandles
  <2>3. MappingStaged' /\ AccessHitsTarget'
    BY <1>15, NoneAssumption DEF ConnectInterruptFails, remoteVars, historyVars, TypeOK, MappingStaged, AccessHitsTarget
  <2>. QED
    BY <2>1, <2>2, <2>3
<1>16. ASSUME Trigger PROVE IInv'
  <2>1. TypeOK'
    <3>1. cache' \in Caches
      BY <1>16 DEF Trigger, remoteVars, historyVars, TypeOK, Caches, MappingStaged, Interrupts, Targets, Kinds, RegionHandles
    <3>2. held' \in [Kinds -> Nat]
      BY <1>16 DEF Trigger, remoteVars, historyVars, TypeOK, HandlesOwned, HandlesStaged, Kinds, RegionHandles
    <3>. QED
      BY <1>16, <3>1, <3>2 DEF Trigger, remoteVars, historyVars, TypeOK, Steps
  <2>2. HandlesOwned' /\ HandlesStaged'
    BY <1>16 DEF Trigger, remoteVars, historyVars, TypeOK, HandlesOwned, HandlesStaged, Kinds, RegionHandles
  <2>3. MappingStaged' /\ AccessHitsTarget'
    BY <1>16, NoneAssumption DEF Trigger, remoteVars, historyVars, TypeOK, MappingStaged, AccessHitsTarget
  <2>. QED
    BY <2>1, <2>2, <2>3
<1>17. CASE UNCHANGED vars
  BY <1>17 DEF vars, TypeOK, HandlesOwned, HandlesStaged, MappingStaged, AccessHitsTarget
<1>. QED
  BY <1>1, <1>2, <1>3, <1>4, <1>5, <1>6, <1>7, <1>8, <1>9, <1>10, <1>11, <1>12, <1>13, <1>14, <1>15, <1>16, <1>17 DEF Next, CallNext, DataIds, RemoteNext

-----------------------------------------------------------------------------
(* Induction over the numbers, from the library's theorem that the order of *)
(* the numbers is well founded.                                             *)

\* Every set of numbers has a least element.
LEMMA LeastElement ==
  ASSUME NEW S \in SUBSET Nat, S # {}
  PROVE  \E n \in S : \A m \in S : n <= m
<1>1. PICK R : R = OpToRel(<, Nat)
  OBVIOUS
<1>2. IsWellFoundedOn(R, Nat)
  BY <1>1, NatLessThanWellFounded
<1>3. PICK n \in S : \A m \in S : ~(<<m, n>> \in R)
  BY <1>2, WFMin
<1>4. \A m, k \in Nat : <<m, k>> \in R <=> m < k
  BY <1>1 DEF OpToRel
<1>5. ASSUME NEW m \in S PROVE n <= m
  <2>1. m \in Nat /\ n \in Nat /\ ~(m < n)
    BY <1>3, <1>4
  <2> QED BY <2>1
<1> QED
  BY <1>5

\* What holds of 0 and of every successor holds of every number.
LEMMA Induction ==
  ASSUME NEW S, 0 \in S, \A n \in Nat : n \in S => n + 1 \in S
  PROVE  Nat \subseteq S
<1> SUFFICES ASSUME Nat \ S # {} PROVE FALSE
  OBVIOUS
<1>1. PICK n \in Nat \ S : \A m \in Nat \ S : n <= m
  BY LeastElement
<1>2. n - 1 \in Nat /\ n - 1 \in S
  BY <1>1
<1> QED
  BY <1>1, <1>2

-----------------------------------------------------------------------------
(* The loops over the parts of a buffer.                                    *)

\* f[i] is the sum of the first i parts.
Sums(f, iov, n) ==
  f \in [0 .. n -> Nat] /\ f[0] = 0 /\ \A i \in 1 .. n : f[i] = f[i - 1] + iov[i]

\* The second loop of dpa_writemsg ends, with the sum of all parts.
LEMMA TotalIsSum ==
  ASSUME NEW iov \in Seq(Nat)
  PROVE  \E f : Sums(f, iov, Len(iov)) /\ Total(iov) = f[Len(iov)]
<1>1. PICK N \in Nat : N = Len(iov) /\ iov \in [1 .. N -> Nat]
  OBVIOUS
<1> DEFINE S == {n \in Nat : n <= N => \E f : Sums(f, iov, n)}
<1>2. 0 \in S
  <2>1. Sums([i \in 0 .. 0 |-> 0], iov, 0)
    BY DEF Sums
  <2> QED BY <2>1
<1>3. ASSUME NEW n \in Nat, n \in S PROVE n + 1 \in S
  <2> SUFFICES ASSUME n + 1 <= N PROVE \E f : Sums(f, iov, n + 1)
    OBVIOUS
  <2>1. PICK f : Sums(f, iov, n)
    BY <1>3
  <2>2. PICK g : g = [i \in 0 .. n + 1 |-> IF i = n + 1 THEN f[n] + iov[n + 1] ELSE f[i]]
    OBVIOUS
  <2>3. iov[n + 1] \in Nat
    BY <1>1
  <2>4. Sums(g, iov, n + 1)
    <3>1. f \in [0 .. n -> Nat] /\ f[0] = 0 /\ \A i \in 1 .. n : f[i] = f[i - 1] + iov[i]
      BY <2>1 DEF Sums
    <3>2. g \in [0 .. n + 1 -> Nat] /\ g[0] = 0
      BY <2>2, <2>3, <3>1
    <3>3. ASSUME NEW i \in 1 .. n + 1 PROVE g[i] = g[i - 1] + iov[i]
      <4>1. CASE i = n + 1
        BY <2>2, <4>1
      <4>2. CASE i \in 1 .. n
        BY <2>2, <3>1, <4>2
      <4> QED BY <4>1, <4>2
    <3> QED BY <3>2, <3>3 DEF Sums
  <2> QED BY <2>4
<1>4. N \in S
  <2> HIDE DEF S
  <2> QED BY <1>2, <1>3, Induction
<1>5. PICK f : Sums(f, iov, N)
  BY <1>4
<1>6. f = [i \in 0 .. N |-> IF i = 0 THEN 0 ELSE f[i - 1] + iov[i]]
  BY <1>5 DEF Sums
<1>7. PICK t : /\ t = [i \in 0 .. N |-> IF i = 0 THEN 0 ELSE t[i - 1] + iov[i]]
               /\ Total(iov) = t[N]
  BY <1>1, <1>6 DEF Total
<1> DEFINE T == {n \in Nat : n <= N => t[n] = f[n]}
<1>8. 0 \in T
  BY <1>5, <1>7 DEF Sums
<1>9. ASSUME NEW n \in Nat, n \in T PROVE n + 1 \in T
  BY <1>5, <1>7, <1>9 DEF Sums
<1>10. N \in T
  <2> HIDE DEF T
  <2> QED BY <1>8, <1>9, Induction
<1> QED
  BY <1>1, <1>5, <1>7, <1>10

\* What the code subtracts as unsigned: the room itself, or what is left of the
\* address space where it is negative, and less as the copy goes on.
LEMMA UnsignedRoom ==
  ASSUME NEW room \in (1 - Width) .. (Width - 1)
  PROVE  /\ Fits(room) \in 0 .. (Width - 1)
         /\ \A m \in 0 .. Fits(room) : Unsigned(room - m) = Fits(room) - m
<1>1. Width \in Nat \ {0}
  BY LensAssumption
<1>2. ASSUME NEW n \in 0 .. (Width - 1) PROVE Unsigned(n) = n
  BY <1>1 DEF Unsigned
<1>3. ASSUME NEW n \in (-Width) .. (-1) PROVE Unsigned(n) = n + Width
  BY <1>1 DEF Unsigned
<1>4. Fits(room) \in 0 .. (Width - 1)
  BY <1>1 DEF Fits
<1>5. ASSUME NEW m \in 0 .. Fits(room) PROVE Unsigned(room - m) = Fits(room) - m
  <2>1. CASE room >= 0
    BY <1>1, <1>2, <1>5, <2>1 DEF Fits
  <2>2. CASE room < 0
    BY <1>1, <1>3, <1>5, <2>2 DEF Fits
  <2> QED
    BY <2>1, <2>2
<1> QED
  BY <1>4, <1>5

\* The loop that copies ends when the parts or the room are used up: it has
\* copied the smaller of the two.
LEMMA CopiedIsClipped ==
  ASSUME NEW iov \in Seq(Nat), NEW signed \in (1 - Width) .. (Width - 1)
  PROVE  Total(iov) \in Nat /\ Copied(signed, iov) = SmallerOf(Total(iov), Fits(signed))
<1>0. PICK room \in 0 .. (Width - 1) : /\ room = Fits(signed)
                                       /\ \A m \in 0 .. room : Unsigned(signed - m) = room - m
  BY UnsignedRoom
<1>1. PICK N \in Nat : N = Len(iov) /\ iov \in [1 .. N -> Nat]
  OBVIOUS
<1>2. PICK f : Sums(f, iov, N) /\ Total(iov) = f[N]
  BY <1>1, TotalIsSum
<1>3. /\ f \in [0 .. N -> Nat] /\ f[0] = 0
      /\ \A i \in 1 .. N : f[i] = f[i - 1] + iov[i]
  BY <1>2 DEF Sums
<1>4. \A m \in 0 .. room : Unsigned(signed - m) = room - m
  BY <1>0
<1>5. Unsigned(signed) = room /\ room \in Nat
  <2>1. signed - 0 = signed /\ room - 0 = room
    OBVIOUS
  <2> QED BY <1>4, <2>1
<1>6. PICK h : h = [i \in 0 .. N |-> SmallerOf(f[i], room)]
  OBVIOUS
<1> DEFINE Grown(c, i) == IF Unsigned(signed) > c[i - 1]
                          THEN c[i - 1] + SmallerOf(Unsigned(signed - c[i - 1]), iov[i])
                          ELSE c[i - 1]
<1>7. ASSUME NEW i \in 1 .. N PROVE h[i] = Grown(h, i)
  <2>0. f[i - 1] \in Nat /\ iov[i] \in Nat
    <3>1. i - 1 \in 0 .. N
      BY <1>7
    <3>2. f[i - 1] \in Nat
      BY <1>3, <3>1
    <3>3. iov[i] \in Nat
      BY <1>1
    <3> QED BY <3>2, <3>3
  <2>1. PICK a \in Nat, b \in Nat : a = f[i - 1] /\ b = iov[i]
    BY <2>0
  <2>2. h[i] = SmallerOf(a + b, room) /\ h[i - 1] = SmallerOf(a, room)
    BY <1>3, <1>6, <2>1
  <2>3. CASE a < room
    <3>1. h[i - 1] = a /\ Unsigned(signed - a) = room - a
      BY <1>4, <1>5, <2>2, <2>3 DEF SmallerOf
    <3>2. Grown(h, i) = a + SmallerOf(room - a, b)
      BY <1>5, <2>1, <2>3, <3>1
    <3>3. SmallerOf(a + b, room) = a + SmallerOf(room - a, b)
      BY <1>5, <2>3 DEF SmallerOf
    <3> QED BY <2>2, <3>2, <3>3
  <2>4. CASE ~(a < room)
    <3>1. h[i - 1] = room /\ h[i] = room
      BY <1>5, <2>1, <2>2, <2>4 DEF SmallerOf
    <3> QED BY <1>5, <3>1
  <2> QED BY <2>3, <2>4
<1>8. h[0] = 0
  BY <1>3, <1>5, <1>6 DEF SmallerOf
<1>9. h = [i \in 0 .. N |-> IF i = 0 THEN 0 ELSE Grown(h, i)]
  <2> HIDE DEF Grown
  <2>1. \A i \in 0 .. N : h[i] = IF i = 0 THEN 0 ELSE Grown(h, i)
    BY <1>7, <1>8
  <2> QED BY <1>6, <2>1
<1>10. PICK c : /\ c = [i \in 0 .. N |-> IF i = 0 THEN 0 ELSE Grown(c, i)]
                /\ Copied(signed, iov) = c[N]
  BY <1>1, <1>9, ZenonT(60) DEF Copied
<1> DEFINE S == {n \in Nat : n <= N => c[n] = h[n]}
<1>11. 0 \in S
  BY <1>8, <1>10
<1>12. ASSUME NEW n \in Nat, n \in S PROVE n + 1 \in S
  BY <1>7, <1>10, <1>12, SMTT(30)
<1>13. N \in S
  <2> HIDE DEF S
  <2> QED BY <1>11, <1>12, Induction
<1> QED
  BY <1>0, <1>2, <1>3, <1>6, <1>10, <1>13

-----------------------------------------------------------------------------
(* What an access copies.                                                   *)

\* An access is clipped when it is made,
LEMMA AccessClips ==
  ASSUME TypeOK, NEW addr \in Offsets, NEW iov \in Iovs, Access(addr, iov)
  PROVE  AccessIsClipped'
<1>1. iov \in Seq(Nat)
  BY IovsAssumption, LensAssumption
<1>2. cache.len - addr \in (1 - Width) .. (Width - 1)
  <2>1. cache.len \in 0 .. (Width - 1)
    <3>1. cache.len \in Lens \cup {0}
      BY DEF TypeOK, Caches
    <3>2. Width \in Nat \ {0} /\ \A len \in Lens : len \in 1 .. (Width - 1)
      BY LensAssumption
    <3>3. \A len \in Lens \cup {0} : len \in 0 .. (Width - 1)
      BY <3>2
    <3>. QED
      BY <3>1, <3>3
  <2>2. addr \in 0 .. (Width - 1)
    BY DEF Offsets
  <2>. QED
    BY <2>1, <2>2, LensAssumption
<1>3. PICK room \in (1 - Width) .. (Width - 1) : room = cache.len - addr
  BY <1>2
<1>4. Total(iov) \in Nat /\ Copied(room, iov) = SmallerOf(Total(iov), Fits(room))
  BY <1>1, CopiedIsClipped
<1>5. /\ done'.room = room /\ done'.total = Total(iov) /\ done'.copied = Copied(room, iov)
      /\ done'.kind = op.kind
      /\ done'.cut = (op.kind = "write" /\ Unsigned(Total(iov)) # Copied(room, iov))
  BY <1>3 DEF Access
<1>6. PICK total \in Nat : total = Total(iov)
  BY <1>4
<1>7. PICK fits \in Nat : fits = Fits(room)
  BY UnsignedRoom
<1>8. total # SmallerOf(total, fits) <=> total > fits
  BY DEF SmallerOf
<1>9. done'.copied = SmallerOf(done'.total, Fits(done'.room))
  BY <1>4, <1>5
<1>10. ASSUME done'.kind = "write", done'.total < Width
       PROVE  done'.cut <=> done'.total > Fits(done'.room)
  <2>1. total < Width
    BY <1>5, <1>6, <1>10
  <2>2. Unsigned(total) = total
    BY <2>1, LensAssumption DEF Unsigned
  <2> QED
    BY <1>4, <1>5, <1>6, <1>7, <1>8, <1>10, <2>2
<1>. QED
  BY <1>9, <1>10 DEF AccessIsClipped, Fits

\* and no other step touches what it says of the last one.
LEMMA ClippedStep == IInv /\ AccessIsClipped /\ [Next]_vars => AccessIsClipped'
<1> SUFFICES ASSUME IInv, AccessIsClipped, [Next]_vars PROVE AccessIsClipped'
  OBVIOUS
<1>1. ASSUME NEW addr \in Offsets, NEW iov \in Iovs, Access(addr, iov) PROVE AccessIsClipped'
  BY <1>1, AccessClips DEF IInv
<1>2. ASSUME NEW t \in Targets, NEW kind \in {"read", "write"}, NEW id \in DataIds, Call(t, kind, id)
      PROVE  AccessIsClipped'
  BY <1>2 DEF Call, AccessIsClipped
<1>3. CASE UNCHANGED done
  BY <1>3 DEF AccessIsClipped
<1>4. \/ UNCHANGED done
      \/ \E t \in Targets, kind \in {"read", "write"}, id \in DataIds : Call(t, kind, id)
      \/ \E addr \in Offsets, iov \in Iovs : Access(addr, iov)
  BY DEF Next, CallNext, RemoteNext, vars, historyVars, Open, ConnectSegment, MapSegment,
         StartSequence, ConnectFails, ReuseInterrupt, DisconnectInterrupt, ConnectInterrupt,
         ConnectInterruptFails, Trigger, RegisterMr, RegisterFails, CloseMr, WaitData
<1>. QED
  BY <1>1, <1>2, <1>3, <1>4

-----------------------------------------------------------------------------
\* At every step of every behaviour the cache and the call are well typed.
THEOREM TypeCorrect == Spec => []TypeOK
<1>1. IInv => TypeOK
  BY DEF IInv
<1>. QED
  BY <1>1, InitInv, StepInv, PTL DEF Spec

\* Whatever fails, the library has given out the handles in the cache only.
THEOREM NoHandleIsLost == Spec => []HandlesOwned
<1>1. IInv => HandlesOwned
  BY DEF IInv
<1>. QED
  BY <1>1, InitInv, StepInv, PTL DEF Spec

\* No access goes through the mapping of another target, and no signal through
\* an interrupt of another number.
THEOREM AccessesHitTheirTarget == Spec => []AccessHitsTarget
<1>1. IInv => AccessHitsTarget
  BY DEF IInv
<1>. QED
  BY <1>1, InitInv, StepInv, PTL DEF Spec

\* Whatever the address and the number and the lengths of the parts, an access
\* copies what the code takes to fit behind the address, all of it: the rest of
\* the mapping, or nearly the whole address space when the address is beyond
\* the mapping.  A write that did not fit is reported.
THEOREM AccessesAreClipped == Spec => []AccessIsClipped
<1>1. Init => AccessIsClipped
  BY DEF Init, AccessIsClipped
<1>. QED
  BY <1>1, InitInv, StepInv, ClippedStep, PTL DEF Spec

=============================================================================
