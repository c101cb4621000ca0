--------------------------------- MODULE Rma ---------------------------------
(***************************************************************************)
(* Remote memory access (dpa_rma.c) of one endpoint, used by one thread:   *)
(* the cache of the last remote region, and the regions (dpa_mr.c) and     *)
(* completion queue interrupts of the remote nodes, which come and go      *)
(* while the endpoint is in a call.                                        *)
(*                                                                         *)
(* A target is a node and the key of a region there.  A call on a target   *)
(* other than the cached one releases every handle of the cache but the    *)
(* interrupt, then acquires a descriptor, the segment, a mapping and a     *)
(* sequence, one library call each, and any of the four can fail.          *)
(***************************************************************************)
EXTENDS Integers, Sequences

CONSTANTS
  Nodes, Keys,
  IntIds,   \* interrupt numbers, chosen by the application on each node
  Lens,     \* lengths a region is registered with
  Iovs,     \* lengths of the parts of a local buffer
  Width,    \* sizes are unsigned, modulo Width
  None

Targets == [node : Nodes, key : Keys]
Interrupts == [node : Nodes, id : IntIds]

ASSUME LensAssumption == Width \in Nat \ {0} /\ Lens \subseteq 1 .. (Width - 1)
ASSUME IovsAssumption == \A iov \in Iovs : iov \in Seq(0 .. (Width - 1))
ASSUME NoneAssumption == None \notin Targets \cup IntIds \cup Interrupts

VARIABLES
  regions, \* per target: the length registered, 0, or -1: created and useless
  waiting, \* interrupts the remote completion queues wait on
  cache,   \* last_remote_mr
  held,    \* how many handles of each kind the library has given out
  pc,      \* where the calling thread is
  op,      \* the call: its target, its kind, the interrupt number it signals
  done,    \* history: the access of this call
  rung     \* history: the interrupt it triggered, and the number it was given

vars == <<regions, waiting, cache, held, pc, op, done, rung>>
remoteVars == <<regions, waiting>>
historyVars == <<done, rung>>

-----------------------------------------------------------------------------
RegionHandles == {"sd", "segment", "map", "sequence"}
Kinds == RegionHandles \cup {"interrupt"}

\* handles: the members of last_remote_mr that are not NULL
Empty == [target |-> None, base |-> None, len |-> 0, handles |-> {}, interrupt |-> None]
NoCall == [target |-> None, kind |-> "write", id |-> None]

Init ==
  /\ regions = [t \in Targets |-> 0]
  /\ waiting = {}
  /\ cache = Empty
  /\ held = [k \in Kinds |-> 0]
  /\ pc = "idle"
  /\ op = NoCall
  /\ done = None
  /\ rung = None

-----------------------------------------------------------------------------
(* Remote nodes.                                                           *)

\* dpa_mr_reg; a key in use is refused (-FI_ENOKEY).
RegisterMr(t) ==
  /\ regions[t] = 0
  /\ \E len \in Lens : regions' = [regions EXCEPT ![t] = len]
  /\ UNCHANGED <<waiting, cache, held, pc, op, historyVars>>

\* dpa_alloc_segment fails once it has created the segment, and leaves it.
RegisterFails(t) ==
  /\ regions[t] = 0
  /\ regions' = [regions EXCEPT ![t] = -1]
  /\ UNCHANGED <<waiting, cache, held, pc, op, historyVars>>

\* dpa_mr_close
CloseMr(t) ==
  /\ regions[t] > 0
  /\ regions' = [regions EXCEPT ![t] = 0]
  /\ UNCHANGED <<waiting, cache, held, pc, op, historyVars>>

\* dpa_cq_wait_data
WaitData(i) ==
  /\ i \notin waiting
  /\ waiting' = waiting \cup {i}
  /\ UNCHANGED <<regions, cache, held, pc, op, historyVars>>

-----------------------------------------------------------------------------
(* cache_connect.                                                          *)

\* Slip: the node alone is compared
SameNode(t) == cache.target # None /\ cache.target.node = t.node
Hit(t) == cache.target = t /\ cache.base # None

\* Slip: the segment and its descriptor stay
MappingGone == cache.handles \cap {"sequence", "map"}
\* Slip: released without looking whether they are there
AllGone == RegionHandles
\* cache_disconnect releases every handle but that of the interrupt.
Gone == cache.handles \cap RegionHandles

CacheDisconnect ==
  /\ cache' = [Empty EXCEPT !.handles = cache.handles \ RegionHandles,
                            !.interrupt = cache.interrupt]
  /\ held' = [k \in Kinds |-> IF k \in Gone THEN held[k] - 1 ELSE held[k]]

\* A library call that gives out a handle, kept in the cache with f.
Acquire(kind, f) ==
  /\ cache' = [f EXCEPT !.handles = @ \cup {kind}]
  /\ held' = [held EXCEPT ![kind] = @ + 1]

\* acquire_target: the node is that of the peer, or found in the address
\* vector, the key is the one given.
Call(t, kind, id) ==
  /\ pc = "idle"
  /\ op' = [target |-> t, kind |-> kind, id |-> id]
  /\ \/ Hit(t) /\ pc' = "access" /\ UNCHANGED <<cache, held>>
     \/ /\ ~Hit(t)
        /\ pc' = "open"
        /\ IF "segment" \in cache.handles THEN CacheDisconnect ELSE UNCHANGED <<cache, held>>
  /\ done' = None /\ rung' = None
  /\ UNCHANGED remoteVars

Open ==
  /\ pc = "open" /\ pc' = "segment"
  /\ Acquire("sd", cache)
  /\ UNCHANGED <<remoteVars, op, historyVars>>

ConnectSegment ==
  /\ pc = "segment" /\ pc' = "map"
  /\ regions[op.target] > 0
  /\ Acquire("segment", [cache EXCEPT !.len = regions[op.target]])
  /\ UNCHANGED <<remoteVars, op, historyVars>>

MapSegment ==
  /\ pc = "map" /\ pc' = "sequence"
  /\ regions[op.target] > 0
  /\ Acquire("map", [cache EXCEPT !.base = op.target])
  /\ UNCHANGED <<remoteVars, op, historyVars>>

StartSequence ==
  /\ pc = "sequence" /\ pc' = "access"
  /\ Acquire("sequence", [cache EXCEPT !.target = op.target])
  /\ UNCHANGED <<remoteVars, op, historyVars>>

\* The call returns -FI_EREMOTEIO.
ConnectFails ==
  /\ pc \in {"open", "segment", "map", "sequence"} /\ pc' = "idle"
  /\ CacheDisconnect
  /\ UNCHANGED <<remoteVars, op, historyVars>>

-----------------------------------------------------------------------------
(* dpa_readmsg and dpa_writemsg.                                           *)
Unsigned(n) == n % Width
SmallerOf(a, b) == IF a < b THEN a ELSE b
\* The sum of the lengths of the parts.
Total(iov) ==
  LET total[i \in 0 .. Len(iov)] == IF i = 0 THEN 0 ELSE total[i - 1] + iov[i]
  IN total[Len(iov)]

\* Slip: every part is clipped to the whole room
ClippedAlone(room, iov) == Total([i \in DOMAIN iov |-> SmallerOf(Unsigned(room), iov[i])])

\* The bytes the loop over the parts copies, with room = top - base, which is
\* negative for an address beyond the mapping.
Copied(room, iov) ==
  LET copied[i \in 0 .. Len(iov)] ==
        IF i = 0 THEN 0
        ELSE IF Unsigned(room) > copied[i - 1]
             THEN copied[i - 1] + SmallerOf(Unsigned(room - copied[i - 1]), iov[i])
             ELSE copied[i - 1]
  IN copied[Len(iov)]

\* A truncated write is completed with FI_ETOOSMALL, a read is not.  Outside of
\* the mapping the copy is undefined; what is counted is not.
Access(addr, iov) ==
  LET copied == Copied(cache.len - addr, iov) IN
  /\ pc = "access"
  /\ done' = [asked |-> op.target, mapped |-> cache.base, kind |-> op.kind,
              room |-> cache.len - addr, total |-> Total(iov), copied |-> copied,
              cut |-> op.kind = "write" /\ Unsigned(Total(iov)) # copied]
  /\ pc' = IF op.id = None THEN "idle" ELSE "interrupt"
  /\ UNCHANGED <<remoteVars, cache, held, op, rung>>

\* cache_connect_interrupt compares the number, not the node.
Connected == "interrupt" \in cache.handles /\ cache.interrupt.id = op.id

ReuseInterrupt ==
  /\ pc = "interrupt" /\ pc' = "trigger"
  /\ Connected
  /\ UNCHANGED <<remoteVars, cache, held, op, historyVars>>

DisconnectInterrupt ==
  /\ pc = "interrupt"
  /\ "interrupt" \in cache.handles /\ ~Connected
  /\ cache' = [cache EXCEPT !.handles = @ \ {"interrupt"}, !.interrupt = None]
  /\ held' = [held EXCEPT !["interrupt"] = @ - 1]
  /\ UNCHANGED <<remoteVars, pc, op, historyVars>>

ConnectInterrupt ==
  LET i == [node |-> cache.target.node, id |-> op.id] IN
  /\ pc = "interrupt" /\ pc' = "trigger"
  /\ "interrupt" \notin cache.handles
  /\ i \in waiting
  /\ Acquire("interrupt", [cache EXCEPT !.interrupt = i])
  /\ UNCHANGED <<remoteVars, op, historyVars>>

\* The call succeeds all the same.
ConnectInterruptFails ==
  /\ pc = "interrupt" /\ pc' = "idle"
  /\ "interrupt" \notin cache.handles
  /\ UNCHANGED <<remoteVars, cache, held, op, historyVars>>

Trigger ==
  /\ pc = "trigger" /\ pc' = "idle"
  /\ rung' = [interrupt |-> cache.interrupt, asked |-> op.id]
  /\ UNCHANGED <<remoteVars, cache, held, op, done>>

-----------------------------------------------------------------------------
\* A caller gives any address: behind that of the mapping, or beyond it.
Offsets == 0 .. (Width - 1)

\* dpa_write and dpa_writev signal nobody, dpa_writedata the number given.
DataIds == {None} \cup IntIds

CallNext ==
  \/ \E t \in Targets, kind \in {"read", "write"}, id \in DataIds : Call(t, kind, id)
  \/ Open \/ ConnectSegment \/ MapSegment \/ StartSequence \/ ConnectFails
  \/ \E addr \in Offsets, iov \in Iovs : Access(addr, iov)
  \/ ReuseInterrupt \/ DisconnectInterrupt \/ ConnectInterrupt \/ ConnectInterruptFails
  \/ Trigger

RemoteNext ==
  \/ \E t \in Targets : RegisterMr(t) \/ RegisterFails(t) \/ CloseMr(t)
  \/ \E i \in Interrupts : WaitData(i)

Next == CallNext \/ RemoteNext

Spec == Init /\ [][Next]_vars

-----------------------------------------------------------------------------
(* Properties.                                                             *)

Steps == {"idle", "open", "segment", "map", "sequence", "access", "interrupt", "trigger"}

Caches ==
  [target : Targets \cup {None}, base : Targets \cup {None}, len : Lens \cup {0},
   handles : SUBSET Kinds, interrupt : Interrupts \cup {None}]

\* Type invariant.
TypeOK ==
  /\ regions \in [Targets -> Lens \cup {0, -1}]
  /\ waiting \subseteq Interrupts
  /\ cache \in Caches
  /\ held \in [Kinds -> Nat]
  /\ pc \in Steps
  /\ op \in [target : Targets \cup {None}, kind : {"read", "write"}, id : IntIds \cup {None}]

\* Through calls that fail half way and changes of target, the library has
\* given out the handles that are in the cache and no other.
HandlesOwned == \A k \in Kinds : held[k] = IF k \in cache.handles THEN 1 ELSE 0

\* An access goes to the region it named, though the mapping may be that of
\* an earlier call, and signals the number it named, though the interrupt may be.
AccessHitsTarget ==
  /\ done # None => done.mapped = done.asked
  /\ rung # None => rung.interrupt.id = rung.asked

\* What an access may copy, as the code counts it: behind an address in the
\* mapping what is left of it; behind one beyond it the whole address space but
\* for the way from the end of the mapping to the address.
Fits(room) == IF room >= 0 THEN room ELSE Width + room

\* As much is copied as is taken to fit, and not more, and a write that did
\* not fit is reported: an access that starts in the mapping stays in it, and
\* one that starts beyond it is neither refused nor clipped to anything.  The
\* report counts on a buffer that is smaller than the address space.
AccessIsClipped ==
  done # None =>
    /\ done.copied = SmallerOf(done.total, Fits(done.room))
    /\ done.kind = "write" /\ done.total < Width => (done.cut <=> done.total > Fits(done.room))

=============================================================================
