-------------------------- MODULE MsgEndpointProofs --------------------------
(***************************************************************************)
(* Theorems about MsgEndpoint for every configuration, also with callbacks *)
(* on queues without a lock: there up to the first data race.              *)
(*                                                                         *)
(* The queue of a side holds the operations that follow the last one       *)
(* completed, without a gap, up to the last one posted; between the        *)
(* completion of its head and the removal of that head it holds one more.  *)
(* What slist_empty or the comparison of head and tail said stays true     *)
(* until the list is changed, since one thread at a time is inside: the    *)
(* holder of the lock or, without locks, anyone, as two are a race.        *)
(***************************************************************************)
EXTENDS MsgEndpoint, Integers, TLAPS

Stages == {"idle", "lock", "try", "enqueue", "link", "check", "acquire", "process", "look",
           "unlink", "wait", "read"}
ThreadSet == [pc : Stages, side : Sides, sole : BOOLEAN]

\* The stages of a thread between the lock of a queue and its release.
Critical == {"try", "enqueue", "link", "process", "look", "unlink"}
Inside(t, s) == SideOf(t) = s /\ thread[t].pc \in Critical

\* A callback processes its queue, and with manual progress there is none.
CallbackStages ==
  \A t \in Callbacks :
    /\ thread[t].pc \in {"idle", "check", "acquire", "process", "look", "unlink"}
    /\ config.progress = "manual" => At(t, "idle")

InsideHoldsLock ==
  config.lockNeeded => \A t \in Threads, s \in Sides : Inside(t, s) => lock[s] = t

\* The application is in a call that has posted on side s and not yet ended.
Calling == {"lock", "try", "enqueue", "link"}
InCall(s) == SideOf("app") = s /\ thread["app"].pc \in Calling

\* The head of the queue is completed and not yet removed.
Leaving == {"look", "unlink"}
Removing(s) == \E t \in Threads : SideOf(t) = s /\ thread[t].pc \in Leaving

\* The numbers of the first and of the last operation queued.
First(s) == IF Removing(s) THEN Len(completed[s]) ELSE Len(completed[s]) + 1
Last(s) == IF InCall(s) THEN posted[s] - 1 ELSE posted[s]

QueueIs(s) ==
  /\ Removing(s) => queue[s] # <<>> /\ completed[s] # <<>>
  /\ InCall(s) => posted[s] >= 1
  /\ Len(queue[s]) = Last(s) + 1 - First(s)
  /\ \A i \in 1 .. Len(queue[s]) : queue[s][i] = First(s) + i - 1
QueuesAre == \A s \in Sides : QueueIs(s)

\* What was seen of the list is still so.
SoleIs ==
  \A t \in Threads :
    /\ At(t, "link") => thread[t].sole = (queue[SideOf(t)] = <<>>)
    /\ At(t, "unlink") => thread[t].sole = (Len(queue[SideOf(t)]) = 1)

IInv ==
  /\ FieldsOK
  /\ CallbackStages
  /\ InsideHoldsLock
  /\ CompletionsInOrder
  /\ QueuesAre
  /\ SoleIs
  /\ inbox <= peerSent

-----------------------------------------------------------------------------
\* What FieldsOK says of a configuration and of the threads.
LEMMA Types ==
  ASSUME FieldsOK
  PROVE  /\ config \in ConfigSet /\ config \in Configs
         /\ config.progress \in {"manual", "auto"} /\ config.lockNeeded \in BOOLEAN
         /\ config.capacity \in Nat /\ config.capacity >= 1 /\ config.maxPosts \in Nat
         /\ config.cqSides \subseteq Sides
         /\ thread \in [Threads -> ThreadSet]
<1>1. config \in ConfigSet
  BY ConfigsAssumption DEF FieldsOK
<1>2. config.cqSides \subseteq Sides
  BY <1>1 DEF ConfigSet
<1>3. /\ config.progress \in {"manual", "auto"} /\ config.lockNeeded \in BOOLEAN
      /\ config.capacity \in Nat \ {0} /\ config.maxPosts \in Nat
  BY <1>1 DEF ConfigSet
<1>4. config.capacity \in Nat /\ config.capacity >= 1
  BY <1>3
<1> QED
  BY <1>1, <1>2, <1>3, <1>4 DEF FieldsOK, ThreadSet, Stages

\* One thread at a time is between the lock of a queue and its release: without
\* the lock two would be a data race.
LEMMA Alone ==
  ASSUME IInv, ~Race, NEW t \in Threads, NEW u \in Threads, NEW s \in Sides,
         Inside(t, s), Inside(u, s)
  PROVE  t = u
<1>1. CASE config.lockNeeded
  BY <1>1 DEF IInv, InsideHoldsLock
<1>2. CASE ~config.lockNeeded
  BY <1>2 DEF Race, InList, Inside, Critical
<1> QED
  BY <1>1, <1>2

\* A step of one thread to another stage.
LEMMA GotoIs ==
  ASSUME FieldsOK, NEW t \in Threads, NEW p \in Stages, Goto(t, p)
  PROVE  /\ thread' \in [Threads -> ThreadSet]
         /\ thread'[t].pc = p /\ thread'[t].side = thread[t].side
         /\ thread'[t].sole = thread[t].sole
         /\ \A u \in Threads : u # t => thread'[u] = thread[u]
BY Types DEF Goto, ThreadSet

\* The same with a record: where a thread goes on, on which side.
LEMMA ThreadIs ==
  ASSUME FieldsOK, NEW t \in Threads, NEW x \in ThreadSet, thread' = [thread EXCEPT ![t] = x]
  PROVE  /\ thread' \in [Threads -> ThreadSet]
         /\ thread'[t] = x
         /\ \A u \in Threads : u # t => thread'[u] = thread[u]
BY Types

\* Where a thread goes on after a queue is never inside one.
LEMMA AfterQueueIs ==
  ASSUME FieldsOK, NEW t \in Threads, NEW w \in {"none", "finite", "infinite"}
  PROVE  /\ AfterQueue(t, w) \in ThreadSet
         /\ AfterQueue(t, w).pc \in {"idle", "wait", "check", "read"}
         /\ t # "app" => AfterQueue(t, w).pc = "idle" /\ AfterQueue(t, w).side = thread[t].side
<1>1. thread[t] \in ThreadSet
  BY Types
<1>2. \A p \in Stages : /\ [thread[t] EXCEPT !.pc = p] \in ThreadSet
                        /\ [thread[t] EXCEPT !.pc = p].pc = p
                        /\ [thread[t] EXCEPT !.pc = p].side = thread[t].side
  BY <1>1 DEF ThreadSet
<1>3. \A p \in Stages : /\ [thread[t] EXCEPT !.side = "recv", !.pc = p] \in ThreadSet
                        /\ [thread[t] EXCEPT !.side = "recv", !.pc = p].pc = p
  BY <1>1 DEF ThreadSet, Sides
<1> QED
  BY <1>2, <1>3, ZenonT(60) DEF AfterQueue, Stages

\* A step of a thread that changes neither queues nor completions, and neither
\* begins nor ends a call or a removal, leaves what the queues hold.
LEMMA QueuesStay ==
  ASSUME IInv, NEW t \in Threads, UNCHANGED <<queue, completed, posted>>,
         \A u \in Threads : u # t => thread'[u] = thread[u],
         \/ thread[t].pc \notin Calling \cup Leaving /\ thread'[t].pc \notin Calling \cup Leaving
         \/ thread'[t].side = thread[t].side /\ thread[t].pc \in Calling /\ thread'[t].pc \in Calling
         \/ thread'[t].side = thread[t].side /\ thread[t].pc \in Leaving /\ thread'[t].pc \in Leaving
  PROVE  CompletionsInOrder' /\ QueuesAre'
<1>1. \A s \in Sides : Removing(s)' = Removing(s)
  BY DEF Removing, SideOf, Calling, Leaving
<1>2. \A s \in Sides : InCall(s)' = InCall(s)
  BY DEF InCall, SideOf, Calling, Leaving, Threads
<1>3. \A s \in Sides : First(s)' = First(s) /\ Last(s)' = Last(s)
  BY <1>1, <1>2 DEF First, Last
<1>4. QueuesAre'
  BY <1>1, <1>2, <1>3 DEF IInv, QueuesAre, QueueIs
<1>5. CompletionsInOrder'
  BY DEF IInv, CompletionsInOrder
<1> QED
  BY <1>4, <1>5

\* What the other threads saw of the lists is so while the lists stay.
LEMMA SoleStays ==
  ASSUME IInv, NEW t \in Threads, UNCHANGED queue,
         \A u \in Threads : u # t => thread'[u] = thread[u],
         thread'[t].pc \notin {"link", "unlink"}
  PROVE  SoleIs'
BY DEF IInv, SoleIs, At, SideOf

\* The lock is held inside, after a step of one thread that takes it, leaves
\* it alone or gives it back.
LEMMA LockTaken ==
  ASSUME IInv, NEW t \in Threads, NEW s \in Sides, Acquire(t, s), UNCHANGED config,
         \A u \in Threads : u # t => thread'[u] = thread[u],
         thread'[t].side = s
  PROVE  InsideHoldsLock' /\ lock' \in [Sides -> Threads \cup {"free"}]
<1>1. lock \in [Sides -> Threads \cup {"free"}] /\ "free" \notin Threads
  BY DEF IInv, FieldsOK, Threads, Callbacks
<1>2. lock' \in [Sides -> Threads \cup {"free"}]
  BY <1>1 DEF Acquire
<1>3. ASSUME config.lockNeeded, NEW u \in Threads, NEW r \in Sides, Inside(u, r)'
      PROVE  lock'[r] = u
  <2>1. lock[s] = "free" /\ lock' = [lock EXCEPT ![s] = t]
    BY <1>3 DEF Acquire
  <2>2. CASE u = t
    BY <1>1, <1>3, <2>1, <2>2 DEF Inside, SideOf
  <2>3. CASE u # t
    <3>1. Inside(u, r)
      BY <1>3, <2>3 DEF Inside, SideOf
    <3>2. lock[r] = u
      BY <1>3, <3>1 DEF IInv, InsideHoldsLock
    <3> QED BY <1>1, <2>1, <3>2
  <2> QED BY <2>2, <2>3
<1> QED
  BY <1>2, <1>3 DEF InsideHoldsLock

\* See LockTaken.
LEMMA LockStays ==
  ASSUME IInv, NEW t \in Threads, UNCHANGED <<config, lock>>,
         \A u \in Threads : u # t => thread'[u] = thread[u],
         \A s \in Sides : Inside(t, s)' => Inside(t, s)
  PROVE  InsideHoldsLock'
<1>1. \A u \in Threads, s \in Sides : Inside(u, s)' => Inside(u, s)
  BY DEF Inside, SideOf
<1> QED
  BY <1>1 DEF IInv, InsideHoldsLock

\* See LockTaken.
LEMMA LockReleased ==
  ASSUME IInv, ~Race, NEW t \in Threads, NEW s \in Sides, Inside(t, s), Release(s),
         UNCHANGED config,
         \A u \in Threads : u # t => thread'[u] = thread[u],
         thread'[t].pc \notin Critical
  PROVE  InsideHoldsLock' /\ lock' \in [Sides -> Threads \cup {"free"}]
<1>1. lock \in [Sides -> Threads \cup {"free"}]
  BY DEF IInv, FieldsOK
<1>2. lock' \in [Sides -> Threads \cup {"free"}]
  BY <1>1 DEF Release
<1>3. ASSUME config.lockNeeded, NEW u \in Threads, NEW r \in Sides, Inside(u, r)'
      PROVE  lock'[r] = u
  <2>1. u # t /\ Inside(u, r)
    BY <1>3 DEF Inside, SideOf
  <2>2. r # s
    BY <2>1, Alone
  <2>3. lock[r] = u
    BY <1>3, <2>1 DEF IInv, InsideHoldsLock
  <2> QED BY <1>1, <2>2, <2>3 DEF Release
<1> QED
  BY <1>2, <1>3 DEF InsideHoldsLock

\* Callbacks stay where they belong when another thread moves.
LEMMA CallbacksStay ==
  ASSUME IInv, UNCHANGED config,
         \A u \in Callbacks : thread'[u] = thread[u]
  PROVE  CallbackStages'
BY DEF IInv, CallbackStages, At

-----------------------------------------------------------------------------
\* Initially the invariant holds: nothing is posted, nobody is inside.
LEMMA InitInv == Init => IInv
<1> SUFFICES ASSUME Init PROVE IInv
  OBVIOUS
<1>0. \A t \in Threads : thread[t].pc = "idle" /\ thread[t] \in ThreadSet
  BY DEF Init, ThreadSet, Stages, Sides
<1>1. config \in ConfigSet
  BY ConfigsAssumption DEF Init
<1>2. config.maxPosts \in Nat /\ config.capacity \in Nat
  BY <1>1 DEF ConfigSet
<1>3. FieldsOK
  <2>1. thread \in [Threads -> ThreadSet]
    BY <1>0 DEF Init
  <2>2. queue \in [Sides -> Seq(1 .. config.maxPosts)]
    BY DEF Init
  <2>3. completed \in [Sides -> Seq(1 .. config.maxPosts)]
    BY DEF Init
  <2>4. lock \in [Sides -> Threads \cup {"free"}] /\ irq \in [Sides -> BOOLEAN]
    BY DEF Init
  <2>5. posted \in [Sides -> 0 .. config.maxPosts]
    BY <1>2 DEF Init
  <2>6. cq \in Seq([side : Sides, id : 1 .. config.maxPosts])
    BY DEF Init
  <2>7. /\ inbox \in 0 .. config.maxPosts /\ peerSent \in 0 .. config.maxPosts
        /\ outbox \in 0 .. config.capacity
    <3>1. inbox = 0 /\ peerSent = 0 /\ outbox = 0
      BY DEF Init
    <3> QED BY <1>2, <3>1
  <2>8. /\ round \in {1, 2} /\ wait \in {"none", "finite", "infinite"}
        /\ connected \in BOOLEAN /\ config \in Configs
    BY DEF Init
  <2> QED BY <2>1, <2>2, <2>3, <2>4, <2>5, <2>6, <2>7, <2>8 DEF FieldsOK, ThreadSet, Stages
<1>4. CallbackStages /\ InsideHoldsLock /\ SoleIs
  BY <1>0 DEF CallbackStages, InsideHoldsLock, SoleIs, Inside, At, Critical, Threads
<1>5. \A s \in Sides : completed[s] = <<>> /\ queue[s] = <<>> /\ posted[s] = 0
  BY DEF Init
<1>6. \A t : t = <<>> => Len(t) = 0
  OBVIOUS
<1>7. CompletionsInOrder
  BY <1>5, <1>6 DEF CompletionsInOrder
<1>8. QueuesAre
  <2> SUFFICES ASSUME NEW s \in Sides PROVE QueueIs(s)
    BY DEF QueuesAre
  <2>1. ~Removing(s) /\ ~InCall(s)
    BY <1>0 DEF Removing, InCall, Leaving, Calling, Threads
  <2>2. First(s) = 1 /\ Last(s) = 0 /\ Len(queue[s]) = 0
    BY <1>5, <1>6, <2>1 DEF First, Last
  <2> QED BY <2>1, <2>2 DEF QueueIs
<1>9. inbox <= peerSent
  BY DEF Init
<1> QED
  BY <1>3, <1>4, <1>7, <1>8, <1>9 DEF IInv

\* Posting an operation gives it the number that follows the last one.
LEMMA PostKeeps ==
  ASSUME IInv, NEW s \in Sides, Post(s)
  PROVE  IInv'
<1>1. /\ thread["app"].pc = "idle" /\ "app" \in Threads
      /\ posted[s] < config.maxPosts /\ posted' = [posted EXCEPT ![s] = posted[s] + 1]
      /\ posted \in [Sides -> 0 .. config.maxPosts] /\ config.maxPosts \in Nat
      /\ UNCHANGED <<config, connected, queue, lock, irq, ringVars, cq, round, wait, completed>>
  BY Types DEF Post, At, Threads, IInv, FieldsOK
<1>2. /\ thread' \in [Threads -> ThreadSet]
      /\ thread'["app"].pc = "lock" /\ thread'["app"].side = s
      /\ \A u \in Threads : u # "app" => thread'[u] = thread[u]
  BY <1>1, Types, ZenonT(60) DEF Post, IInv, ThreadSet, Stages
<1>3. \A u \in Callbacks : thread'[u] = thread[u]
  BY <1>2 DEF Threads, Callbacks
<1>4. FieldsOK'
  <2>1. posted' \in [Sides -> 0 .. config.maxPosts]
    BY <1>1
  <2> QED BY <1>1, <1>2, <2>1 DEF IInv, FieldsOK, ThreadSet, Stages, ringVars
<1>5. \A r \in Sides : Removing(r)' = Removing(r) /\ ~InCall(r)
  BY <1>1, <1>2 DEF Removing, InCall, SideOf, Leaving, Calling
<1>6. QueuesAre'
  <2> SUFFICES ASSUME NEW r \in Sides PROVE QueueIs(r)'
    BY DEF QueuesAre
  <2>1. QueueIs(r)
    BY DEF IInv, QueuesAre
  <2>2. posted[r] \in Nat /\ posted[s] \in Nat
    BY <1>1
  <2>3. Last(r)' = Last(r) /\ (InCall(r)' => posted'[r] >= 1)
    BY <1>1, <1>2, <1>5, <2>2 DEF Last, InCall, SideOf, Calling
  <2>4. First(r)' = First(r)
    BY <1>1, <1>5 DEF First
  <2> QED BY <1>1, <1>5, <2>1, <2>3, <2>4 DEF QueueIs
<1>7. CompletionsInOrder' /\ (inbox <= peerSent)'
  BY <1>1 DEF IInv, CompletionsInOrder, ringVars
<1>8. SoleIs'
  BY <1>1, <1>2, SoleStays
<1>9. InsideHoldsLock'
  BY <1>1, <1>2, LockStays DEF Inside, SideOf, Critical
<1> QED
  BY <1>1, <1>3, <1>4, <1>6, <1>7, <1>8, <1>9, CallbacksStay DEF IInv

\* The post takes the lock of its queue.
LEMMA PostLockKeeps ==
  ASSUME IInv, PostLock
  PROVE  IInv'
<1>1. PICK s \in Sides : s = SideOf("app")
  BY Types DEF IInv, SideOf, ThreadSet, Threads
<1>2. /\ thread["app"].pc = "lock" /\ "app" \in Threads /\ Acquire("app", s)
      /\ UNCHANGED <<config, connected, queue, irq, ringVars, cq, round, wait, historyVars>>
      /\ Goto("app", "try")
  BY <1>1 DEF PostLock, At, Threads
<1>3. /\ thread' \in [Threads -> ThreadSet]
      /\ thread'["app"].pc = "try" /\ thread'["app"].side = s
      /\ \A u \in Threads : u # "app" => thread'[u] = thread[u]
  BY <1>1, <1>2, GotoIs DEF IInv, Stages, SideOf
<1>4. \A u \in Callbacks : thread'[u] = thread[u]
  BY <1>3 DEF Threads, Callbacks
<1>5. InsideHoldsLock' /\ lock' \in [Sides -> Threads \cup {"free"}]
  BY <1>2, <1>3, LockTaken
<1>6. FieldsOK'
  BY <1>2, <1>3, <1>5 DEF IInv, FieldsOK, ThreadSet, Stages, ringVars, historyVars
<1>7. CompletionsInOrder' /\ QueuesAre'
  BY <1>1, <1>2, <1>3, QueuesStay DEF Calling, SideOf, historyVars
<1>8. SoleIs'
  BY <1>2, <1>3, SoleStays
<1> QED
  BY <1>2, <1>4, <1>5, <1>6, <1>7, <1>8, CallbacksStay DEF IInv, ringVars

\* The transfer of the operation that follows the last one completed keeps the
\* completions in order.
LEMMA TransferIs ==
  ASSUME IInv, NEW s \in Sides, NEW id \in 1 .. config.maxPosts, id = Len(completed[s]) + 1,
         CanTransfer(s), Transfer(s, id), UNCHANGED config
  PROVE  /\ inbox' \in 0 .. config.maxPosts /\ outbox' \in 0 .. config.capacity
         /\ cq' \in Seq([side : Sides, id : 1 .. config.maxPosts])
         /\ completed' \in [Sides -> Seq(1 .. config.maxPosts)]
         /\ Len(completed'[s]) = Len(completed[s]) + 1
         /\ \A r \in Sides : r # s => completed'[r] = completed[r]
         /\ UNCHANGED <<peerSent, posted>>
         /\ inbox' <= peerSent
         /\ CompletionsInOrder'
<1>1. /\ inbox \in 0 .. config.maxPosts /\ peerSent \in 0 .. config.maxPosts
      /\ outbox \in 0 .. config.capacity /\ config.maxPosts \in Nat /\ config.capacity \in Nat
      /\ inbox <= peerSent
  BY Types DEF IInv, FieldsOK
<1>2. /\ inbox' \in 0 .. config.maxPosts /\ outbox' \in 0 .. config.capacity
      /\ inbox' <= peerSent
  <2>1. CASE s = "send"
    BY <1>1, <2>1 DEF Transfer, CanTransfer
  <2>2. CASE s = "recv"
    BY <1>1, <2>2 DEF Transfer, CanTransfer
  <2> QED BY <2>1, <2>2 DEF Sides
<1>3. cq' \in Seq([side : Sides, id : 1 .. config.maxPosts])
  <2>1. PICK x : x = [side |-> s, id |-> id]
    OBVIOUS
  <2>2. x \in [side : Sides, id : 1 .. config.maxPosts]
    BY <2>1
  <2>3. cq' = Append(cq, x)
    BY <2>1 DEF Transfer
  <2> QED BY <2>2, <2>3 DEF IInv, FieldsOK
<1>4. PICK c : c = completed[s]
  OBVIOUS
<1>5. c \in Seq(1 .. config.maxPosts) /\ completed' = [completed EXCEPT ![s] = Append(c, id)]
      /\ completed \in [Sides -> Seq(1 .. config.maxPosts)]
  BY <1>4 DEF Transfer, IInv, FieldsOK
<1>6. /\ Append(c, id) \in Seq(1 .. config.maxPosts) /\ Len(Append(c, id)) = Len(c) + 1
      /\ Append(c, id)[Len(c) + 1] = id /\ Len(c) \in Nat
      /\ \A i \in 1 .. Len(c) : Append(c, id)[i] = c[i]
  BY <1>5
<1>7. /\ completed'[s] = Append(c, id)
      /\ \A r \in Sides : r # s => completed'[r] = completed[r]
  BY <1>5
<1>8. ASSUME NEW r \in Sides, NEW i \in 1 .. Len(completed'[r]) PROVE completed'[r][i] = i
  <2>1. CASE r # s
    BY <1>7, <1>8, <2>1 DEF IInv, CompletionsInOrder
  <2>2. CASE r = s
    <3>1. i \in 1 .. Len(c) \/ i = Len(c) + 1
      BY <1>6, <1>7, <2>2
    <3>2. i \in 1 .. Len(c) => c[i] = i
      BY <1>4 DEF IInv, CompletionsInOrder
    <3> QED BY <1>4, <1>6, <1>7, <2>2, <3>1, <3>2
  <2> QED BY <2>1, <2>2
<1>9. completed' \in [Sides -> Seq(1 .. config.maxPosts)]
  BY <1>5, <1>6
<1>10. CompletionsInOrder'
  BY <1>8 DEF CompletionsInOrder
<1> QED
  BY <1>2, <1>3, <1>4, <1>6, <1>7, <1>9, <1>10 DEF Transfer

\* A call that finds nothing queued completes its operation at once, and it is
\* the one that follows the last one completed.
LEMMA PostTryKeeps ==
  ASSUME IInv, ~Race, PostTry
  PROVE  IInv'
<1>1. PICK s \in Sides : s = SideOf("app")
  BY Types DEF IInv, SideOf, ThreadSet, Threads
<1>2. /\ thread["app"].pc = "try" /\ "app" \in Threads /\ Inside("app", s)
      /\ UNCHANGED <<config, connected, queue, lock, irq, round, wait>>
  BY <1>1 DEF PostTry, At, Threads, Inside, Critical
<1>3. CASE ~(MayTry(s) /\ CanTransfer(s))
  <2>1. Goto("app", "enqueue") /\ UNCHANGED <<ringVars, cq, historyVars>>
    BY <1>1, <1>3 DEF PostTry
  <2>2. /\ thread' \in [Threads -> ThreadSet]
        /\ thread'["app"].pc = "enqueue" /\ thread'["app"].side = s
        /\ \A u \in Threads : u # "app" => thread'[u] = thread[u]
    BY <1>1, <1>2, <2>1, GotoIs DEF IInv, Stages, SideOf
  <2>3. \A u \in Callbacks : thread'[u] = thread[u]
    BY <2>2 DEF Threads, Callbacks
  <2>4. FieldsOK'
    BY <1>2, <2>1, <2>2 DEF IInv, FieldsOK, ThreadSet, Stages, ringVars, historyVars
  <2>5. CompletionsInOrder' /\ QueuesAre'
    BY <1>1, <1>2, <2>1, <2>2, QueuesStay DEF Calling, SideOf, historyVars
  <2>6. SoleIs'
    BY <1>2, <2>2, SoleStays
  <2>7. InsideHoldsLock'
    BY <1>1, <1>2, <2>2, LockStays DEF Inside, SideOf, Critical
  <2> QED
    BY <1>2, <2>1, <2>3, <2>4, <2>5, <2>6, <2>7, CallbacksStay DEF IInv, ringVars
<1>4. CASE MayTry(s) /\ CanTransfer(s)
  <2>1. /\ Goto("app", "idle") /\ Transfer(s, posted[s]) /\ queue[s] = <<>> /\ CanTransfer(s)
    BY <1>1, <1>4 DEF PostTry, MayTry
  <2>2. /\ thread' \in [Threads -> ThreadSet]
        /\ thread'["app"].pc = "idle" /\ thread'["app"].side = s
        /\ \A u \in Threads : u # "app" => thread'[u] = thread[u]
    BY <1>1, <1>2, <2>1, GotoIs DEF IInv, Stages, SideOf
  <2>3. \A u \in Callbacks : thread'[u] = thread[u]
    BY <2>2 DEF Threads, Callbacks
  <2>4. InCall(s) /\ ~Removing(s)
    <3>1. ASSUME NEW u \in Threads, SideOf(u) = s, thread[u].pc \in Leaving PROVE FALSE
      <4>1. Inside(u, s)
        BY <3>1 DEF Inside, Leaving, Critical
      <4>2. u = "app"
        BY <1>2, <4>1, Alone
      <4> QED BY <1>2, <3>1, <4>2 DEF Leaving
    <3> QED BY <1>1, <1>2, <3>1 DEF InCall, Removing, Calling
  <2>5. /\ posted[s] = Len(completed[s]) + 1 /\ posted[s] \in 1 .. config.maxPosts
        /\ Len(queue[s]) = 0 /\ Len(completed[s]) \in Nat
    <3>1. /\ QueueIs(s) /\ posted[s] \in 0 .. config.maxPosts /\ config.maxPosts \in Nat
          /\ completed[s] \in Seq(1 .. config.maxPosts)
      BY Types DEF IInv, QueuesAre, FieldsOK
    <3>2. Len(queue[s]) = 0
      BY <2>1
    <3>3. posted[s] >= 1 /\ 0 = posted[s] - 1 + 1 - (Len(completed[s]) + 1)
      BY <2>4, <3>1, <3>2 DEF QueueIs, First, Last
    <3>4. Len(completed[s]) \in Nat
      BY <3>1
    <3> QED BY <3>1, <3>2, <3>3, <3>4
  <2>6. /\ inbox' \in 0 .. config.maxPosts /\ outbox' \in 0 .. config.capacity
        /\ cq' \in Seq([side : Sides, id : 1 .. config.maxPosts])
        /\ completed' \in [Sides -> Seq(1 .. config.maxPosts)]
        /\ Len(completed'[s]) = Len(completed[s]) + 1
        /\ \A r \in Sides : r # s => completed'[r] = completed[r]
        /\ UNCHANGED <<peerSent, posted>>
        /\ inbox' <= peerSent
        /\ CompletionsInOrder'
    BY <1>2, <2>1, <2>5, TransferIs
  <2>7. FieldsOK'
    BY <1>2, <2>2, <2>6 DEF IInv, FieldsOK, ThreadSet, Stages
  <2>8. QueuesAre'
    <3> SUFFICES ASSUME NEW r \in Sides PROVE QueueIs(r)'
      BY DEF QueuesAre
    <3>1. Removing(r)' = Removing(r)
      BY <1>2, <2>2 DEF Removing, SideOf, Leaving
    <3>2. CASE r # s
      <4>1. InCall(r)' = InCall(r)
        BY <1>1, <2>2, <3>2 DEF InCall, SideOf
      <4>2. First(r)' = First(r) /\ Last(r)' = Last(r)
        BY <2>6, <3>1, <3>2, <4>1 DEF First, Last
      <4> QED BY <1>2, <2>6, <3>1, <3>2, <4>1, <4>2 DEF IInv, QueuesAre, QueueIs
    <3>3. CASE r = s
      <4>1. ~InCall(s)' /\ ~Removing(s)'
        BY <2>2, <2>4, <3>1, <3>3 DEF InCall, Calling
      <4>2. First(s)' = Len(completed[s]) + 2
        BY <2>5, <2>6, <4>1 DEF First
      <4>3. Last(s)' = Len(completed[s]) + 1
        BY <2>5, <2>6, <4>1 DEF Last
      <4>4. Len(queue'[s]) = 0
        BY <1>2, <2>5
      <4> QED BY <2>5, <3>3, <4>1, <4>2, <4>3, <4>4 DEF QueueIs
    <3> QED BY <3>2, <3>3
  <2>9. SoleIs'
    BY <1>2, <2>2, SoleStays
  <2>10. InsideHoldsLock'
    BY <1>2, <2>2, LockStays DEF Inside, SideOf, Critical
  <2>11. CallbackStages'
    BY <1>2, <2>3, CallbacksStay
  <2> QED
    BY <2>6, <2>7, <2>8, <2>9, <2>10, <2>11 DEF IInv
<1> QED
  BY <1>3, <1>4

\* A call that cannot complete its operation looks at the list: nobody else
\* changes it from now on.
LEMMA EnqueueLookKeeps ==
  ASSUME IInv, EnqueueLook
  PROVE  IInv'
<1>1. PICK s \in Sides : s = SideOf("app")
  BY Types DEF IInv, SideOf, ThreadSet, Threads
<1>2. /\ thread["app"].pc = "enqueue" /\ "app" \in Threads
      /\ thread' = [thread EXCEPT !["app"] = [thread["app"] EXCEPT !.pc = "link", !.sole = (queue[s] = <<>>)]]
      /\ UNCHANGED <<config, connected, queue, lock, irq, ringVars, cq, round, wait, historyVars>>
  BY <1>1 DEF EnqueueLook, At, Threads
<1>3. /\ thread' \in [Threads -> ThreadSet]
      /\ thread'["app"].pc = "link" /\ thread'["app"].side = s
      /\ thread'["app"].sole = (queue[s] = <<>>)
      /\ \A u \in Threads : u # "app" => thread'[u] = thread[u]
  <2>1. PICK x : x = [thread["app"] EXCEPT !.pc = "link", !.sole = (queue[s] = <<>>)]
    OBVIOUS
  <2>2. thread["app"] \in ThreadSet
    BY <1>2, Types DEF IInv
  <2>3. /\ x \in ThreadSet /\ x.pc = "link" /\ x.side = s /\ x.sole = (queue[s] = <<>>)
    BY <1>1, <2>1, <2>2 DEF ThreadSet, Stages, SideOf
  <2>4. thread' = [thread EXCEPT !["app"] = x]
    BY <1>2, <2>1
  <2> QED BY <1>2, <2>3, <2>4, ThreadIs DEF IInv
<1>4. \A u \in Callbacks : thread'[u] = thread[u]
  BY <1>3 DEF Threads, Callbacks
<1>5. FieldsOK'
  BY <1>2, <1>3 DEF IInv, FieldsOK, ThreadSet, Stages, ringVars, historyVars
<1>6. CompletionsInOrder' /\ QueuesAre'
  BY <1>1, <1>2, <1>3, QueuesStay DEF Calling, SideOf, historyVars
<1>7. SoleIs'
  BY <1>2, <1>3 DEF IInv, SoleIs, At, SideOf
<1>8. InsideHoldsLock'
  BY <1>1, <1>2, <1>3, LockStays DEF Inside, SideOf, Critical
<1> QED
  BY <1>2, <1>4, <1>5, <1>6, <1>7, <1>8, CallbacksStay DEF IInv, ringVars

\* A call that links its operation puts it behind the last one queued.
LEMMA EnqueueLinkKeeps ==
  ASSUME IInv, ~Race, EnqueueLink
  PROVE  IInv'
<1>1. PICK s \in Sides : s = SideOf("app")
  BY Types DEF IInv, SideOf, ThreadSet, Threads
<1>2. /\ thread["app"].pc = "link" /\ "app" \in Threads /\ Inside("app", s) /\ Release(s)
      /\ thread["app"].sole = (queue[s] = <<>>)
      /\ thread' = [thread EXCEPT !["app"] = [thread["app"] EXCEPT !.pc = "idle", !.sole = FALSE]]
      /\ UNCHANGED <<config, connected, irq, ringVars, cq, round, wait, historyVars>>
  BY <1>1 DEF EnqueueLink, At, Threads, Inside, Critical, IInv, SoleIs
<1>3. /\ thread' \in [Threads -> ThreadSet]
      /\ thread'["app"].pc = "idle" /\ thread'["app"].side = s
      /\ \A u \in Threads : u # "app" => thread'[u] = thread[u]
  <2>1. PICK x : x = [thread["app"] EXCEPT !.pc = "idle", !.sole = FALSE]
    OBVIOUS
  <2>2. thread["app"] \in ThreadSet
    BY <1>2, Types DEF IInv
  <2>3. /\ x \in ThreadSet /\ x.pc = "idle" /\ x.side = s
    BY <1>1, <2>1, <2>2 DEF ThreadSet, Stages, SideOf
  <2>4. thread' = [thread EXCEPT !["app"] = x]
    BY <1>2, <2>1
  <2> QED BY <1>2, <2>3, <2>4, ThreadIs DEF IInv
<1>4. \A u \in Callbacks : thread'[u] = thread[u]
  BY <1>3 DEF Threads, Callbacks
<1>5. PICK q, n : q = queue[s] /\ n = posted[s]
  OBVIOUS
<1>6. /\ queue' = [queue EXCEPT ![s] = Append(q, n)] /\ q \in Seq(1 .. config.maxPosts)
      /\ queue \in [Sides -> Seq(1 .. config.maxPosts)]
      /\ n \in 0 .. config.maxPosts /\ config.maxPosts \in Nat
      /\ completed[s] \in Seq(1 .. config.maxPosts)
  BY <1>1, <1>2, <1>5, Types DEF EnqueueLink, IInv, FieldsOK
<1>7. InCall(s) /\ ~Removing(s)
  <2>1. ASSUME NEW u \in Threads, SideOf(u) = s, thread[u].pc \in Leaving PROVE FALSE
    <3>1. Inside(u, s)
      BY <2>1 DEF Inside, Leaving, Critical
    <3>2. u = "app"
      BY <1>2, <3>1, Alone
    <3> QED BY <1>2, <2>1, <3>2 DEF Leaving
  <2> QED BY <1>1, <1>2, <2>1 DEF InCall, Removing, Calling
<1>8. /\ n >= 1 /\ Len(q) = n - (Len(completed[s]) + 1) /\ Len(completed[s]) \in Nat
      /\ Len(q) \in Nat /\ \A i \in 1 .. Len(q) : q[i] = Len(completed[s]) + 1 + i - 1
  <2>1. QueueIs(s)
    BY DEF IInv, QueuesAre
  <2>2. First(s) = Len(completed[s]) + 1 /\ Last(s) = n - 1
    BY <1>5, <1>7 DEF First, Last
  <2>3. n >= 1 /\ Len(q) = n - 1 + 1 - (Len(completed[s]) + 1)
    BY <1>5, <1>7, <2>1, <2>2 DEF QueueIs
  <2>4. \A i \in 1 .. Len(q) : q[i] = Len(completed[s]) + 1 + i - 1
    BY <1>5, <2>1, <2>2 DEF QueueIs
  <2>5. Len(completed[s]) \in Nat /\ Len(q) \in Nat
    BY <1>6
  <2> QED BY <1>6, <2>3, <2>4, <2>5
<1>9. /\ Append(q, n) \in Seq(1 .. config.maxPosts) /\ Len(Append(q, n)) = Len(q) + 1
      /\ Append(q, n)[Len(q) + 1] = n
      /\ \A i \in 1 .. Len(q) : Append(q, n)[i] = q[i]
  <2>1. n \in 1 .. config.maxPosts
    BY <1>6, <1>8
  <2> QED BY <1>6, <2>1
<1>10. InsideHoldsLock' /\ lock' \in [Sides -> Threads \cup {"free"}]
  BY <1>2, <1>3, LockReleased DEF Critical
<1>11. FieldsOK'
  <2>1. queue' \in [Sides -> Seq(1 .. config.maxPosts)]
    BY <1>6, <1>9
  <2> QED BY <1>2, <1>3, <1>10, <2>1 DEF IInv, FieldsOK, ThreadSet, Stages, ringVars, historyVars
<1>12. QueuesAre'
  <2> SUFFICES ASSUME NEW r \in Sides PROVE QueueIs(r)'
    BY DEF QueuesAre
  <2>1. Removing(r)' = Removing(r)
    BY <1>2, <1>3 DEF Removing, SideOf, Leaving
  <2>2. CASE r # s
    <3>1. InCall(r)' = InCall(r)
      BY <1>1, <1>3, <2>2 DEF InCall, SideOf
    <3>2. First(r)' = First(r) /\ Last(r)' = Last(r)
      BY <1>2, <2>1, <2>2, <3>1 DEF First, Last, historyVars
    <3>3. queue'[r] = queue[r]
      BY <1>6, <2>2
    <3> QED BY <1>2, <2>1, <3>1, <3>2, <3>3 DEF IInv, QueuesAre, QueueIs, historyVars
  <2>3. CASE r = s
    <3>1. ~InCall(s)' /\ ~Removing(s)'
      BY <1>3, <1>7, <2>1, <2>3 DEF InCall, Calling
    <3>2. First(s)' = Len(completed[s]) + 1
      BY <1>2, <3>1 DEF First, historyVars
    <3>3. Last(s)' = n
      BY <1>2, <1>5, <3>1 DEF Last, historyVars
    <3>4. queue'[s] = Append(q, n)
      BY <1>6
    <3>0. PICK k, m : k = Len(completed[s]) /\ m = Len(q)
      OBVIOUS
    <3>a. k \in Nat /\ m \in Nat /\ n \in Nat /\ m = n - (k + 1) /\ Len(queue'[s]) = m + 1
      <4>1. k \in Nat /\ m \in Nat /\ m = n - (k + 1)
        BY <1>8, <3>0
      <4>2. n \in Nat
        BY <1>6
      <4>3. Len(queue'[s]) = m + 1
        BY <1>9, <3>0, <3>4
      <4> QED BY <4>1, <4>2, <4>3
    <3>b. n = m + k + 1
      BY <3>a
    <3>5. Len(queue'[s]) = n + 1 - (Len(completed[s]) + 1)
      <4>1. m + 1 = n + 1 - (k + 1)
        BY <3>a, <3>b
      <4> QED BY <3>0, <3>a, <4>1
    <3>6. ASSUME NEW i \in 1 .. Len(queue'[s]) PROVE queue'[s][i] = Len(completed[s]) + 1 + i - 1
      <4>1. i \in 1 .. Len(q) \/ i = Len(q) + 1
        BY <1>8, <1>9, <3>4
      <4>2. CASE i \in 1 .. Len(q)
        BY <1>8, <1>9, <3>4, <4>2
      <4>3. CASE i = Len(q) + 1
        <5>1. queue'[s][i] = n
          BY <1>9, <3>4, <4>3
        <5>2. n = k + 1 + (m + 1) - 1
          BY <3>a, <3>b
        <5> QED BY <3>0, <4>3, <5>1, <5>2
      <4> QED BY <4>1, <4>2, <4>3
    <3> QED BY <2>3, <3>1, <3>2, <3>3, <3>5, <3>6 DEF QueueIs
  <2> QED BY <2>2, <2>3
<1>13. SoleIs'
  <2> SUFFICES ASSUME NEW u \in Threads, thread'[u].pc \in {"link", "unlink"}
               PROVE  /\ u # "app" /\ thread'[u] = thread[u]
                      /\ queue'[SideOf(u)] = queue[SideOf(u)]
    BY DEF IInv, SoleIs, At, SideOf
  <2>1. u # "app" /\ thread'[u] = thread[u]
    BY <1>3
  <2>2. SideOf(u) # s
    BY <1>2, <2>1, Alone DEF Inside, Critical
  <2> QED BY <1>6, <2>1, <2>2
<1>14. CallbackStages'
  BY <1>2, <1>4, CallbacksStay
<1> QED
  BY <1>2, <1>10, <1>11, <1>12, <1>13, <1>14 DEF IInv, CompletionsInOrder, ringVars, historyVars

-----------------------------------------------------------------------------
\* A step of a thread that is in no call and changes nothing but where it is,
\* and what it knows of the interrupt and of its time, keeps the invariant.
LEMMA WalkKeeps ==
  ASSUME IInv, NEW t \in Threads,
         UNCHANGED <<config, connected, queue, lock, ringVars, historyVars>>,
         thread' \in [Threads -> ThreadSet],
         \A u \in Threads : u # t => thread'[u] = thread[u],
         thread[t].pc \notin Critical \cup Calling,
         thread'[t].pc \notin Critical \cup Calling,
         t \in Callbacks =>
           /\ thread'[t].pc \in {"idle", "check", "acquire"}
           /\ thread[t].pc = "idle" => thread'[t].pc = "idle" \/ config.progress # "manual",
         irq' \in [Sides -> BOOLEAN], round' \in {1, 2}, wait' \in {"none", "finite", "infinite"},
         cq' \in Seq([side : Sides, id : 1 .. config.maxPosts])
  PROVE  IInv'
<1>1. FieldsOK'
  BY DEF IInv, FieldsOK, ThreadSet, Stages, ringVars, historyVars
<1>2. CallbackStages'
  <2> SUFFICES ASSUME NEW u \in Callbacks
               PROVE  /\ thread'[u].pc \in {"idle", "check", "acquire", "process", "look", "unlink"}
                      /\ config.progress = "manual" => thread'[u].pc = "idle"
    BY DEF CallbackStages, At
  <2>1. /\ thread[u].pc \in {"idle", "check", "acquire", "process", "look", "unlink"}
        /\ config.progress = "manual" => thread[u].pc = "idle"
    BY DEF IInv, CallbackStages, At
  <2>2. CASE u = t
    BY <2>1, <2>2
  <2>3. CASE u # t
    BY <2>1, <2>3 DEF Threads
  <2> QED BY <2>2, <2>3
<1>3. InsideHoldsLock'
  BY LockStays DEF Inside, SideOf
<1>4. CompletionsInOrder' /\ QueuesAre'
  BY QueuesStay DEF Calling, Leaving, Critical, historyVars
<1>5. SoleIs'
  BY SoleStays DEF Critical
<1> QED
  BY <1>1, <1>2, <1>3, <1>4, <1>5 DEF IInv, ringVars

\* fi_cq_read and fi_cq_sread begin.
LEMMA CqReadKeeps ==
  ASSUME IInv, NEW w \in config.waits, CqRead(w)
  PROVE  IInv'
<1>1. w \in {"none", "finite", "infinite"} /\ FirstSide \in Sides
  BY Types DEF IInv, ConfigSet, FirstSide, Sides
<1>2. PICK x : x = IF config.progress = "manual"
                   THEN [thread["app"] EXCEPT !.pc = "check", !.side = FirstSide]
                   ELSE [thread["app"] EXCEPT !.pc = "read"]
  OBVIOUS
<1>3. "app" \in Threads /\ thread["app"] \in ThreadSet /\ thread["app"].pc = "idle"
  BY Types DEF Threads, IInv, CqRead, At
<1>4. x \in ThreadSet /\ x.pc \in {"check", "read"}
  BY <1>1, <1>2, <1>3 DEF ThreadSet, Stages
<1>5. thread' = [thread EXCEPT !["app"] = x]
  BY <1>2 DEF CqRead
<1>6. /\ thread' \in [Threads -> ThreadSet] /\ thread'["app"] = x
      /\ \A u \in Threads : u # "app" => thread'[u] = thread[u]
  BY <1>3, <1>4, <1>5, ThreadIs DEF IInv
<1>7. /\ UNCHANGED <<config, connected, queue, lock, irq, ringVars, cq, historyVars>>
      /\ round' = 1 /\ wait' = w
  BY DEF CqRead
<1> QED
  BY <1>1, <1>3, <1>4, <1>6, <1>7, WalkKeeps DEF Critical, Calling, Callbacks, IInv, FieldsOK

\* The wait for an interrupt ends, in whatever way.
LEMMA WaitInterruptKeeps ==
  ASSUME IInv, WaitInterrupt
  PROVE  IInv'
<1>1. /\ "app" \in Threads /\ thread["app"].pc = "wait" /\ Goto("app", "check")
      /\ irq' \in [Sides -> BOOLEAN] /\ wait' \in {"none", "finite", "infinite"}
      /\ UNCHANGED <<config, connected, queue, lock, ringVars, cq, round, historyVars>>
  BY DEF WaitInterrupt, At, Threads, IInv, FieldsOK
<1>2. /\ thread' \in [Threads -> ThreadSet] /\ thread'["app"].pc = "check"
      /\ \A u \in Threads : u # "app" => thread'[u] = thread[u]
  BY <1>1, GotoIs DEF IInv, Stages
<1> QED
  BY <1>1, <1>2, WalkKeeps DEF Critical, Calling, Callbacks, IInv, FieldsOK

\* The wait fails.
LEMMA WaitFailsKeeps ==
  ASSUME IInv, WaitFails
  PROVE  IInv'
<1>1. /\ "app" \in Threads /\ thread["app"].pc = "wait" /\ wait' = "none"
      /\ thread' = [thread EXCEPT !["app"] = AfterQueue("app", "none")]
      /\ UNCHANGED <<config, connected, queue, lock, irq, ringVars, cq, round, historyVars>>
  BY DEF WaitFails, At, Threads
<1>2. /\ AfterQueue("app", "none") \in ThreadSet
      /\ AfterQueue("app", "none").pc \in {"idle", "wait", "check", "read"}
  BY <1>1, AfterQueueIs DEF IInv
<1>3. /\ thread' \in [Threads -> ThreadSet] /\ thread'["app"] = AfterQueue("app", "none")
      /\ \A u \in Threads : u # "app" => thread'[u] = thread[u]
  BY <1>1, <1>2, ThreadIs DEF IInv
<1> QED
  BY <1>1, <1>2, <1>3, WalkKeeps DEF Critical, Calling, Callbacks, IInv, FieldsOK

\* A thread looks whether there is something to process.
LEMMA CheckKeeps ==
  ASSUME IInv, NEW t \in Threads, Check(t)
  PROVE  IInv'
<1>1. /\ thread[t].pc = "check"
      /\ UNCHANGED <<config, connected, queue, lock, irq, ringVars, cq, round, wait, historyVars>>
      /\ wait \in {"none", "finite", "infinite"}
  BY DEF Check, At, IInv, FieldsOK
<1>2. CASE Goto(t, "acquire")
  <2>1. /\ thread' \in [Threads -> ThreadSet] /\ thread'[t].pc = "acquire"
        /\ \A u \in Threads : u # t => thread'[u] = thread[u]
    BY <1>2, GotoIs DEF IInv, Stages
  <2> QED
    BY <1>1, <2>1, WalkKeeps DEF Critical, Calling, IInv, FieldsOK
<1>3. CASE thread' = [thread EXCEPT ![t] = AfterQueue(t, wait)]
  <2>1. /\ AfterQueue(t, wait) \in ThreadSet
        /\ AfterQueue(t, wait).pc \in {"idle", "wait", "check", "read"}
        /\ t # "app" => AfterQueue(t, wait).pc = "idle"
    BY <1>1, AfterQueueIs DEF IInv
  <2>2. /\ thread' \in [Threads -> ThreadSet] /\ thread'[t] = AfterQueue(t, wait)
        /\ \A u \in Threads : u # t => thread'[u] = thread[u]
    BY <1>3, <2>1, ThreadIs DEF IInv
  <2> QED
    BY <1>1, <2>1, <2>2, WalkKeeps DEF Critical, Calling, Callbacks, IInv, FieldsOK
<1> QED
  BY <1>2, <1>3 DEF Check

\* cq_read_priv takes an entry, or the second round begins, or the read ends.
LEMMA CqTakeKeeps ==
  ASSUME IInv, CqTake
  PROVE  IInv'
<1>1. /\ "app" \in Threads /\ thread["app"].pc = "read" /\ thread["app"] \in ThreadSet
      /\ UNCHANGED <<config, connected, queue, lock, irq, ringVars, historyVars>>
      /\ round' \in {1, 2} /\ wait' \in {"none", "finite", "infinite"}
  BY Types DEF CqTake, At, Threads, IInv, FieldsOK
<1>2. cq' \in Seq([side : Sides, id : 1 .. config.maxPosts])
  <2>1. PICK E : E = [side : Sides, id : 1 .. config.maxPosts]
    OBVIOUS
  <2>2. cq \in Seq(E)
    BY <2>1 DEF IInv, FieldsOK
  <2>3. cq' = cq \/ (cq # <<>> /\ cq' = Tail(cq))
    BY DEF CqTake
  <2>4. \A c \in Seq(E) : c # <<>> => Tail(c) \in Seq(E)
    OBVIOUS
  <2> QED BY <2>1, <2>2, <2>3, <2>4
<1>3. CASE Goto("app", "idle")
  <2>1. /\ thread' \in [Threads -> ThreadSet] /\ thread'["app"].pc = "idle"
        /\ \A u \in Threads : u # "app" => thread'[u] = thread[u]
    BY <1>1, <1>3, GotoIs DEF IInv, Stages
  <2> QED
    BY <1>1, <1>2, <2>1, WalkKeeps DEF Critical, Calling, Callbacks, IInv, FieldsOK
<1>4. CASE thread' = [thread EXCEPT !["app"] = [@ EXCEPT !.pc = "wait", !.side = FirstSide]]
  <2>1. PICK x : x = [thread["app"] EXCEPT !.pc = "wait", !.side = FirstSide]
    OBVIOUS
  <2>2. x \in ThreadSet /\ x.pc = "wait"
    BY <1>1, <2>1 DEF ThreadSet, Stages, FirstSide, Sides
  <2>3. thread' = [thread EXCEPT !["app"] = x]
    BY <1>4, <2>1
  <2>4. /\ thread' \in [Threads -> ThreadSet] /\ thread'["app"] = x
        /\ \A u \in Threads : u # "app" => thread'[u] = thread[u]
    BY <1>1, <2>2, <2>3, ThreadIs DEF IInv
  <2> QED
    BY <1>1, <1>2, <2>2, <2>4, WalkKeeps DEF Critical, Calling, Callbacks, IInv, FieldsOK
<1> QED
  BY <1>3, <1>4 DEF CqTake

\* A callback of DPAlib takes the interrupt of its side.
LEMMA CallbackKeeps ==
  ASSUME IInv, NEW t \in Callbacks, Callback(t)
  PROVE  IInv'
<1>1. /\ t \in Threads /\ thread[t].pc = "idle" /\ Goto(t, "check")
      /\ config.progress = "auto" /\ irq' \in [Sides -> BOOLEAN]
      /\ UNCHANGED <<config, connected, queue, lock, ringVars, cq, round, wait, historyVars>>
  BY DEF Callback, Interrupted, SideOf, At, Threads, IInv, FieldsOK
<1>2. /\ thread' \in [Threads -> ThreadSet] /\ thread'[t].pc = "check"
      /\ \A u \in Threads : u # t => thread'[u] = thread[u]
  BY <1>1, GotoIs DEF IInv, Stages
<1> QED
  BY <1>1, <1>2, WalkKeeps DEF Critical, Calling, Callbacks, IInv, FieldsOK

-----------------------------------------------------------------------------
\* A callback that processes its queue goes on with that, and runs only with
\* automatic progress.
LEMMA CallbackGoesOn ==
  ASSUME IInv, NEW t \in Threads, thread[t].pc # "idle", UNCHANGED config,
         \A u \in Threads : u # t => thread'[u] = thread[u],
         thread'[t].pc \in {"idle", "process", "look", "unlink"} \/ t = "app"
  PROVE  CallbackStages'
<1> SUFFICES ASSUME NEW u \in Callbacks
             PROVE  /\ thread'[u].pc \in {"idle", "check", "acquire", "process", "look", "unlink"}
                    /\ config.progress = "manual" => thread'[u].pc = "idle"
  BY DEF CallbackStages, At
<1>1. /\ thread[u].pc \in {"idle", "check", "acquire", "process", "look", "unlink"}
      /\ config.progress = "manual" => thread[u].pc = "idle"
  BY DEF IInv, CallbackStages, At
<1>2. CASE u = t
  BY <1>1, <1>2 DEF Callbacks
<1>3. CASE u # t
  BY <1>1, <1>3 DEF Threads
<1> QED
  BY <1>2, <1>3

\* A thread takes the lock of the queue it processes.
LEMMA ProcessLockKeeps ==
  ASSUME IInv, NEW t \in Threads, ProcessLock(t)
  PROVE  IInv'
<1>1. PICK s \in Sides : s = SideOf(t)
  BY Types DEF IInv, SideOf, ThreadSet
<1>2. /\ thread[t].pc = "acquire" /\ Acquire(t, s) /\ Goto(t, "process")
      /\ UNCHANGED <<config, connected, queue, irq, ringVars, cq, round, wait, historyVars>>
  BY <1>1 DEF ProcessLock, At
<1>3. /\ thread' \in [Threads -> ThreadSet]
      /\ thread'[t].pc = "process" /\ thread'[t].side = s
      /\ \A u \in Threads : u # t => thread'[u] = thread[u]
  BY <1>1, <1>2, GotoIs DEF IInv, Stages, SideOf
<1>4. CallbackStages'
  BY <1>2, <1>3, CallbackGoesOn
<1>5. InsideHoldsLock' /\ lock' \in [Sides -> Threads \cup {"free"}]
  BY <1>2, <1>3, LockTaken
<1>6. FieldsOK'
  BY <1>2, <1>3, <1>5 DEF IInv, FieldsOK, ThreadSet, Stages, ringVars, historyVars
<1>7. CompletionsInOrder' /\ QueuesAre'
  BY <1>2, <1>3, QueuesStay DEF Calling, Leaving, historyVars
<1>8. SoleIs'
  BY <1>2, <1>3, SoleStays
<1> QED
  BY <1>2, <1>4, <1>5, <1>6, <1>7, <1>8 DEF IInv, ringVars

\* The queue is done with for now, and its lock given back.
LEMMA ProcessEndKeeps ==
  ASSUME IInv, ~Race, NEW t \in Threads, ProcessEnd(t)
  PROVE  IInv'
<1>1. PICK s \in Sides : s = SideOf(t)
  BY Types DEF IInv, SideOf, ThreadSet
<1>2. /\ thread[t].pc = "process" /\ Release(s) /\ Inside(t, s)
      /\ thread' = [thread EXCEPT ![t] = AfterQueue(t, wait)]
      /\ UNCHANGED <<config, connected, queue, irq, ringVars, cq, round, wait, historyVars>>
      /\ wait \in {"none", "finite", "infinite"}
  BY <1>1 DEF ProcessEnd, At, Inside, Critical, IInv, FieldsOK
<1>3. /\ AfterQueue(t, wait) \in ThreadSet
      /\ AfterQueue(t, wait).pc \in {"idle", "wait", "check", "read"}
      /\ t # "app" => AfterQueue(t, wait).pc = "idle"
  BY <1>2, AfterQueueIs DEF IInv
<1>4. /\ thread' \in [Threads -> ThreadSet] /\ thread'[t] = AfterQueue(t, wait)
      /\ \A u \in Threads : u # t => thread'[u] = thread[u]
  BY <1>2, <1>3, ThreadIs DEF IInv
<1>5. CallbackStages'
  BY <1>2, <1>3, <1>4, CallbackGoesOn
<1>6. InsideHoldsLock' /\ lock' \in [Sides -> Threads \cup {"free"}]
  BY <1>2, <1>3, <1>4, LockReleased DEF Critical
<1>7. FieldsOK'
  BY <1>2, <1>4, <1>6 DEF IInv, FieldsOK, ThreadSet, Stages, ringVars, historyVars
<1>8. CompletionsInOrder' /\ QueuesAre'
  BY <1>2, <1>3, <1>4, QueuesStay DEF Calling, Leaving, historyVars
<1>9. SoleIs'
  BY <1>2, <1>3, <1>4, SoleStays
<1> QED
  BY <1>2, <1>5, <1>6, <1>7, <1>8, <1>9 DEF IInv, ringVars

\* The operation at the head of the queue is the next to complete.
LEMMA ProcessTryKeeps ==
  ASSUME IInv, ~Race, NEW t \in Threads, ProcessTry(t)
  PROVE  IInv'
<1>1. PICK s \in Sides : s = SideOf(t)
  BY Types DEF IInv, SideOf, ThreadSet
<1>2. /\ thread[t].pc = "process" /\ Inside(t, s) /\ Goto(t, "look")
      /\ queue[s] # <<>> /\ CanTransfer(s) /\ Transfer(s, Head(queue[s]))
      /\ UNCHANGED <<config, connected, queue, lock, irq, round, wait>>
  BY <1>1 DEF ProcessTry, At, Inside, Critical
<1>3. /\ thread' \in [Threads -> ThreadSet]
      /\ thread'[t].pc = "look" /\ thread'[t].side = s
      /\ \A u \in Threads : u # t => thread'[u] = thread[u]
  BY <1>1, <1>2, GotoIs DEF IInv, Stages, SideOf
<1>4. CallbackStages'
  BY <1>2, <1>3, CallbackGoesOn
<1>5. ~Removing(s)
  <2>1. ASSUME NEW u \in Threads, SideOf(u) = s, thread[u].pc \in Leaving PROVE FALSE
    <3>1. Inside(u, s)
      BY <2>1 DEF Inside, Leaving, Critical
    <3>2. u = t
      BY <1>2, <3>1, Alone
    <3> QED BY <1>2, <2>1, <3>2 DEF Leaving
  <2> QED BY <2>1 DEF Removing
<1>6. PICK id : id = Head(queue[s])
  OBVIOUS
<1>7. /\ id = Len(completed[s]) + 1 /\ id \in 1 .. config.maxPosts
      /\ Len(completed[s]) \in Nat
  <2>1. PICK q : q = queue[s]
    OBVIOUS
  <2>2. q \in Seq(1 .. config.maxPosts) /\ q # <<>>
    BY <1>2, <2>1 DEF IInv, FieldsOK
  <2>3. id = q[1] /\ Len(q) >= 1 /\ q[1] \in 1 .. config.maxPosts /\ 1 \in 1 .. Len(q)
    <3>1. PICK E : E = 1 .. config.maxPosts
      OBVIOUS
    <3>2. q \in Seq(E) /\ q # <<>>
      BY <2>2, <3>1
    <3>3. Len(q) \in Nat /\ Len(q) # 0 /\ q[1] \in E /\ Head(q) = q[1]
      BY <3>2
    <3>4. Len(q) >= 1 /\ 1 \in 1 .. Len(q)
      BY <3>3
    <3> QED BY <1>6, <2>1, <3>1, <3>3, <3>4
  <2>4. q[1] = First(s) + 1 - 1 /\ First(s) = Len(completed[s]) + 1
    BY <1>5, <2>1, <2>3 DEF IInv, QueuesAre, QueueIs, First
  <2>5. completed[s] \in Seq(1 .. config.maxPosts)
    BY DEF IInv, FieldsOK
  <2>6. Len(completed[s]) \in Nat
    BY <2>5
  <2> QED BY <2>3, <2>4, <2>6
<1>8. /\ inbox' \in 0 .. config.maxPosts /\ outbox' \in 0 .. config.capacity
      /\ cq' \in Seq([side : Sides, id : 1 .. config.maxPosts])
      /\ completed' \in [Sides -> Seq(1 .. config.maxPosts)]
      /\ Len(completed'[s]) = Len(completed[s]) + 1
      /\ \A r \in Sides : r # s => completed'[r] = completed[r]
      /\ UNCHANGED <<peerSent, posted>>
      /\ inbox' <= peerSent
      /\ CompletionsInOrder'
  BY <1>2, <1>6, <1>7, TransferIs
<1>9. FieldsOK'
  BY <1>2, <1>3, <1>8 DEF IInv, FieldsOK, ThreadSet, Stages
<1>10. QueuesAre'
  <2> SUFFICES ASSUME NEW r \in Sides PROVE QueueIs(r)'
    BY DEF QueuesAre
  <2>1. QueueIs(r)
    BY DEF IInv, QueuesAre
  <2>2. InCall(r)' = InCall(r)
    BY <1>2, <1>3 DEF InCall, SideOf, Calling, Threads
  <2>3. Last(r)' = Last(r)
    BY <1>8, <2>2 DEF Last
  <2>4. CASE r # s
    <3>1. Removing(r)' = Removing(r)
      BY <1>1, <1>2, <1>3, <2>4 DEF Removing, SideOf, Leaving
    <3>2. First(r)' = First(r)
      BY <1>8, <2>4, <3>1 DEF First
    <3> QED BY <1>2, <1>8, <2>1, <2>2, <2>3, <2>4, <3>1, <3>2 DEF QueueIs
  <2>5. CASE r = s
    <3>1. Removing(s)'
      BY <1>3 DEF Removing, SideOf, Leaving
    <3>2. First(s)' = First(s)
      BY <1>5, <1>8, <3>1 DEF First
    <3>3. completed'[s] # <<>> /\ queue'[s] # <<>>
      <4>1. \A c : c = <<>> => Len(c) = 0
        OBVIOUS
      <4> QED BY <1>2, <1>7, <1>8, <4>1
    <3> QED BY <1>2, <1>8, <2>1, <2>2, <2>3, <2>5, <3>2, <3>3 DEF QueueIs
  <2> QED BY <2>4, <2>5
<1>11. SoleIs'
  BY <1>2, <1>3, SoleStays
<1>12. InsideHoldsLock'
  BY <1>1, <1>2, <1>3, LockStays DEF Inside, SideOf, Critical
<1> QED
  BY <1>4, <1>8, <1>9, <1>10, <1>11, <1>12 DEF IInv

\* A thread compares head and tail of the list: nobody else changes it.
LEMMA RemoveLookKeeps ==
  ASSUME IInv, NEW t \in Threads, RemoveLook(t)
  PROVE  IInv'
<1>1. PICK s \in Sides : s = SideOf(t)
  BY Types DEF IInv, SideOf, ThreadSet
<1>2. /\ thread[t].pc = "look" /\ thread[t] \in ThreadSet
      /\ UNCHANGED <<config, connected, queue, lock, irq, ringVars, cq, round, wait, historyVars>>
  BY Types DEF RemoveLook, At, IInv
<1>3. PICK x : x = [thread[t] EXCEPT !.pc = "unlink", !.sole = (Len(queue[s]) = 1)]
  OBVIOUS
<1>4. x \in ThreadSet /\ x.pc = "unlink" /\ x.side = s /\ x.sole = (Len(queue[s]) = 1)
  BY <1>1, <1>2, <1>3 DEF ThreadSet, Stages, SideOf
<1>5. thread' = [thread EXCEPT ![t] = x]
  BY <1>1, <1>3 DEF RemoveLook
<1>6. /\ thread' \in [Threads -> ThreadSet] /\ thread'[t] = x
      /\ \A u \in Threads : u # t => thread'[u] = thread[u]
  BY <1>4, <1>5, ThreadIs DEF IInv
<1>7. CallbackStages'
  BY <1>2, <1>4, <1>6, CallbackGoesOn
<1>8. FieldsOK'
  BY <1>2, <1>6 DEF IInv, FieldsOK, ThreadSet, Stages, ringVars, historyVars
<1>9. CompletionsInOrder' /\ QueuesAre'
  BY <1>1, <1>2, <1>4, <1>6, QueuesStay DEF Leaving, SideOf, historyVars
<1>10. SoleIs'
  BY <1>2, <1>4, <1>6 DEF IInv, SoleIs, At, SideOf
<1>11. InsideHoldsLock'
  BY <1>1, <1>2, <1>4, <1>6, LockStays DEF Inside, SideOf, Critical
<1> QED
  BY <1>2, <1>7, <1>8, <1>9, <1>10, <1>11 DEF IInv, ringVars

\* A thread unlinks the head, which is the operation it has completed.
LEMMA RemoveUnlinkKeeps ==
  ASSUME IInv, ~Race, NEW t \in Threads, RemoveUnlink(t)
  PROVE  IInv'
<1>1. PICK s \in Sides : s = SideOf(t)
  BY Types DEF IInv, SideOf, ThreadSet
<1>2. PICK q : q = queue[s]
  OBVIOUS
<1>3. /\ thread[t].pc = "unlink" /\ thread[t] \in ThreadSet /\ Inside(t, s) /\ Removing(s)
      /\ thread[t].sole = (Len(q) = 1)
      /\ queue' = [queue EXCEPT ![s] = Removed(q, thread[t].sole)]
      /\ queue \in [Sides -> Seq(1 .. config.maxPosts)]
      /\ UNCHANGED <<config, connected, lock, irq, ringVars, cq, round, wait, historyVars>>
  BY <1>1, <1>2, Types
     DEF RemoveUnlink, At, Inside, Critical, Removing, Leaving, IInv, SoleIs, FieldsOK
<1>4. PICK x : x = [thread[t] EXCEPT !.pc = "process", !.sole = FALSE]
  OBVIOUS
<1>5. x \in ThreadSet /\ x.pc = "process" /\ x.side = s
  BY <1>1, <1>3, <1>4 DEF ThreadSet, Stages, SideOf
<1>6. thread' = [thread EXCEPT ![t] = x]
  BY <1>4 DEF RemoveUnlink
<1>7. /\ thread' \in [Threads -> ThreadSet] /\ thread'[t] = x
      /\ \A u \in Threads : u # t => thread'[u] = thread[u]
  BY <1>5, <1>6, ThreadIs DEF IInv
<1>8. CallbackStages'
  BY <1>3, <1>5, <1>7, CallbackGoesOn
<1>9. QueueIs(s) /\ q \in Seq(1 .. config.maxPosts) /\ q # <<>> /\ First(s) = Len(completed[s])
      /\ Len(completed[s]) \in Nat
  <2>1. completed[s] \in Seq(1 .. config.maxPosts)
    BY DEF IInv, FieldsOK
  <2> QED BY <1>2, <1>3, <2>1 DEF IInv, QueuesAre, QueueIs, FieldsOK, First
<1>10. PICK r : r = Removed(q, thread[t].sole)
  OBVIOUS
<1>11. /\ r \in Seq(1 .. config.maxPosts) /\ Len(r) = Len(q) - 1 /\ Len(q) \in Nat /\ Len(q) >= 1
       /\ \A i \in 1 .. Len(r) : r[i] = q[i + 1] /\ i + 1 \in 1 .. Len(q)
  <2>1. Len(q) \in Nat /\ Len(q) >= 1
    BY <1>9
  <2>2. CASE Len(q) = 1
    <3>1. r = <<>>
      BY <1>3, <1>10, <2>2 DEF Removed
    <3>2. r \in Seq(1 .. config.maxPosts) /\ Len(r) = 0
      BY <3>1
    <3> QED BY <2>1, <2>2, <3>2
  <2>3. CASE Len(q) # 1
    <3>1. r = Tail(q)
      BY <1>3, <1>10, <2>3 DEF Removed
    <3>2. Len(Tail(q)) = Len(q) - 1 /\ Tail(q) \in Seq(1 .. config.maxPosts)
      BY <1>9
    <3>3. \A i \in 1 .. Len(q) - 1 : Tail(q)[i] = q[i + 1]
      BY <1>9, <2>1
    <3> QED BY <2>1, <3>1, <3>2, <3>3
  <2> QED BY <2>2, <2>3
<1>12. queue'[s] = r /\ \A v \in Sides : v # s => queue'[v] = queue[v]
  BY <1>3, <1>10
<1>13. FieldsOK'
  <2>1. queue' \in [Sides -> Seq(1 .. config.maxPosts)]
    BY <1>3, <1>10, <1>11
  <2> QED BY <1>3, <1>7, <2>1 DEF IInv, FieldsOK, ThreadSet, Stages, ringVars, historyVars
<1>14. ~Removing(s)'
  <2>1. ASSUME NEW u \in Threads, SideOf(u)' = s, thread'[u].pc \in Leaving PROVE FALSE
    <3>1. u # t
      BY <1>5, <1>7, <2>1 DEF Leaving
    <3>2. Inside(u, s)
      BY <1>7, <2>1, <3>1 DEF Inside, Leaving, Critical, SideOf
    <3> QED BY <1>3, <3>1, <3>2, Alone
  <2> QED BY <2>1 DEF Removing
<1>15. QueuesAre'
  <2> SUFFICES ASSUME NEW v \in Sides PROVE QueueIs(v)'
    BY DEF QueuesAre
  <2>1. InCall(v)' = InCall(v)
    BY <1>3, <1>5, <1>7 DEF InCall, SideOf, Calling, Threads
  <2>2. Last(v)' = Last(v)
    BY <1>3, <2>1 DEF Last, historyVars
  <2>3. CASE v # s
    <3>1. Removing(v)' = Removing(v)
      BY <1>1, <1>3, <1>5, <1>7, <2>3 DEF Removing, SideOf, Leaving
    <3>2. First(v)' = First(v)
      BY <1>3, <3>1 DEF First, historyVars
    <3> QED BY <1>3, <1>12, <2>1, <2>2, <2>3, <3>1, <3>2 DEF IInv, QueuesAre, QueueIs, historyVars
  <2>4. CASE v = s
    <3>1. First(s)' = First(s) + 1
      BY <1>3, <1>9, <1>14 DEF First, historyVars
    <3>2. PICK f, l : f = First(s) /\ l = Last(s)
      OBVIOUS
    <3>3. f \in Nat /\ l \in Int
      <4>1. posted[s] \in Nat
        BY Types DEF IInv, FieldsOK
      <4> QED BY <1>9, <3>2, <4>1 DEF Last
    <3>4. Len(q) = l + 1 - f /\ \A i \in 1 .. Len(q) : q[i] = f + i - 1
      BY <1>2, <1>9, <3>2 DEF QueueIs
    <3>5. Len(r) = l + 1 - (f + 1)
      BY <1>11, <3>3, <3>4
    <3>6. \A i \in 1 .. Len(r) : r[i] = f + 1 + i - 1
      BY <1>11, <3>3, <3>4
    <3>7. InCall(s)' => posted'[s] >= 1
      BY <1>3, <1>9, <2>1, <2>4 DEF QueueIs, historyVars
    <3> QED BY <1>12, <1>14, <2>2, <2>4, <3>1, <3>2, <3>5, <3>6, <3>7 DEF QueueIs
  <2> QED BY <2>3, <2>4
<1>16. SoleIs'
  <2> SUFFICES ASSUME NEW u \in Threads, thread'[u].pc \in {"link", "unlink"}
               PROVE  /\ u # t /\ thread'[u] = thread[u]
                      /\ queue'[SideOf(u)] = queue[SideOf(u)]
    BY DEF IInv, SoleIs, At, SideOf
  <2>1. u # t /\ thread'[u] = thread[u]
    BY <1>5, <1>7
  <2>2. SideOf(u) # s
    BY <1>3, <2>1, Alone DEF Inside, Critical
  <2> QED BY <1>3, <2>1, <2>2
<1>17. InsideHoldsLock'
  BY <1>1, <1>3, <1>5, <1>7, LockStays DEF Inside, SideOf, Critical
<1> QED
  BY <1>3, <1>8, <1>13, <1>15, <1>16, <1>17
  DEF IInv, CompletionsInOrder, ringVars, historyVars

-----------------------------------------------------------------------------
\* A step of the peer, or the connection, changes none of the queues.
LEMMA OutsideKeeps ==
  ASSUME IInv, UNCHANGED <<config, queue, lock, cq, thread, round, wait, historyVars>>,
         connected' \in BOOLEAN, irq' \in [Sides -> BOOLEAN],
         inbox' \in 0 .. config.maxPosts, peerSent' \in 0 .. config.maxPosts,
         outbox' \in 0 .. config.capacity, inbox' <= peerSent'
  PROVE  IInv'
<1>1. FieldsOK'
  BY DEF IInv, FieldsOK, historyVars
<1>2. CallbackStages' /\ InsideHoldsLock' /\ SoleIs' /\ CompletionsInOrder'
  BY DEF IInv, CallbackStages, InsideHoldsLock, Inside, SoleIs, SideOf, At, CompletionsInOrder,
     historyVars
<1>3. QueuesAre'
  BY DEF IInv, QueuesAre, QueueIs, First, Last, Removing, InCall, SideOf, historyVars
<1> QED
  BY <1>1, <1>2, <1>3 DEF IInv

\* Every step keeps the invariant, until there is a race.
LEMMA StepInv == ASSUME IInv, ~Race, Step PROVE IInv'
<1>0. "app" \in Threads /\ Callbacks \subseteq Threads
  BY DEF Threads
<1>1. CASE PostNext
  BY <1>1, PostKeeps, PostLockKeeps, PostTryKeeps, EnqueueLookKeeps, EnqueueLinkKeeps
     DEF PostNext
<1>2. ASSUME NEW t \in Threads, ProcessNext(t) PROVE IInv'
  BY <1>2, CheckKeeps, ProcessLockKeeps, ProcessTryKeeps, ProcessEndKeeps, RemoveLookKeeps,
     RemoveUnlinkKeeps DEF ProcessNext
<1>3. CASE AppNext
  BY <1>0, <1>1, <1>2, <1>3, CqReadKeeps, WaitInterruptKeeps, CqTakeKeeps DEF AppNext
<1>4. ASSUME NEW t \in Callbacks, CallbackNext(t) PROVE IInv'
  BY <1>0, <1>2, <1>4, CallbackKeeps DEF CallbackNext
<1>5. /\ inbox \in 0 .. config.maxPosts /\ peerSent \in 0 .. config.maxPosts
      /\ outbox \in 0 .. config.capacity /\ inbox <= peerSent
      /\ config.maxPosts \in Nat /\ config.capacity \in Nat
      /\ connected \in BOOLEAN /\ irq \in [Sides -> BOOLEAN]
  BY Types DEF IInv, FieldsOK
<1>6. \A s \in Sides : Trigger(s) => irq' \in [Sides -> BOOLEAN]
  BY <1>5 DEF Trigger
<1>7. CASE Connect
  BY <1>5, <1>7, OutsideKeeps DEF Connect, ringVars
<1>8. CASE PeerWrites
  <2>1. inbox' \in 0 .. config.maxPosts /\ peerSent' \in 0 .. config.maxPosts /\ inbox' <= peerSent'
    BY <1>5, <1>8 DEF PeerWrites
  <2> QED BY <1>5, <1>6, <1>8, <2>1, OutsideKeeps DEF PeerWrites, Sides
<1>9. CASE PeerReads
  <2>1. outbox' \in 0 .. config.capacity
    BY <1>5, <1>9 DEF PeerReads
  <2> QED BY <1>5, <1>6, <1>9, <2>1, OutsideKeeps DEF PeerReads, Sides
<1> QED
  BY <1>3, <1>4, <1>7, <1>8, <1>9, WaitFailsKeeps DEF Step

\* A step that leaves the endpoint alone keeps the invariant.
LEMMA StayKeeps ==
  ASSUME IInv, UNCHANGED <<config, connected, queue, lock, irq, ringVars, cq, thread, round,
                           wait, historyVars>>
  PROVE  IInv'
<1>1. /\ inbox \in 0 .. config.maxPosts /\ peerSent \in 0 .. config.maxPosts
      /\ outbox \in 0 .. config.capacity /\ inbox <= peerSent
      /\ connected \in BOOLEAN /\ irq \in [Sides -> BOOLEAN]
  BY DEF IInv, FieldsOK
<1> QED
  BY <1>1, OutsideKeeps DEF ringVars

-----------------------------------------------------------------------------
(* Up to a race.                                                            *)

\* Callbacks process queues that take no lock.
Unlocked == config.progress = "auto" /\ ~config.lockNeeded

\* The invariant, and that there was no race while the process runs.
RInv ==
  /\ IInv /\ ended \in {"running", "race", "crash"}
  /\ ended = "running" => ~Race
  /\ ended = "race" => Unlocked

\* A race takes two threads: not with the lock, and not under manual progress.
LEMMA RaceTakesTwo == IInv /\ Race => Unlocked
<1> SUFFICES ASSUME IInv, Race PROVE Unlocked
  OBVIOUS
<1>1. ~config.lockNeeded
  BY DEF Race
<1>2. config.progress \in {"manual", "auto"}
  BY Types DEF IInv
<1>3. ASSUME config.progress = "manual" PROVE FALSE
  <2>1. \A v \in Callbacks : thread[v].pc \notin InList
    BY <1>3 DEF IInv, CallbackStages, At, InList
  <2> QED BY <2>1 DEF Race, Threads
<1> QED
  BY <1>1, <1>2, <1>3 DEF Unlocked

\* The same after a step.
LEMMA NextRaceTakesTwo == IInv' /\ Race' => Unlocked'
BY RaceTakesTwo, PTL

\* An endpoint that is opened satisfies all of it.
LEMMA InitRInv == Init => RInv
<1> SUFFICES ASSUME Init PROVE RInv
  OBVIOUS
<1>1. ended = "running" /\ \A t \in Threads : thread[t].pc = "idle"
  BY DEF Init
<1>2. ~Race
  BY <1>1 DEF Race, InList
<1> QED
  BY <1>1, <1>2, InitInv DEF RInv

\* Every step keeps all of it: nothing follows a race or a crash.
LEMMA NextInv == RInv /\ [Next]_vars => RInv'
<1> SUFFICES ASSUME RInv, [Next]_vars PROVE RInv'
  OBVIOUS
<1>1. CASE Step /\ Runs
  <2>1. IInv /\ ~Race /\ Step
    BY <1>1 DEF RInv, Runs
  <2>2. IInv'
    BY <2>1, StepInv
  <2>3. ended' = IF Race' THEN "race" ELSE "running"
    BY <1>1 DEF Runs
  <2> QED BY <2>2, <2>3, NextRaceTakesTwo DEF RInv
<1>2. CASE \E t \in Callbacks : CallbackCrashes(t)
  <2>1. /\ UNCHANGED <<config, connected, queue, lock, irq, ringVars, cq, thread, round, wait,
                        historyVars>>
        /\ ended' = "crash"
    BY <1>2 DEF CallbackCrashes
  <2>2. IInv'
    BY <2>1, StayKeeps DEF RInv
  <2> QED BY <2>1, <2>2 DEF RInv
<1>3. CASE UNCHANGED vars
  <2>1. /\ UNCHANGED <<config, connected, queue, lock, irq, ringVars, cq, thread, round, wait,
                        historyVars>>
        /\ ended' = ended
    BY <1>3 DEF vars
  <2>2. IInv'
    BY <2>1, StayKeeps DEF RInv
  <2>3. (Race' <=> Race) /\ (Unlocked' <=> Unlocked)
    BY <2>1 DEF Race, Unlocked, SideOf
  <2> QED BY <2>1, <2>2, <2>3 DEF RInv
<1> QED
  BY <1>1, <1>2, <1>3 DEF Next

\* Every reachable state satisfies the invariant.
LEMMA Invariant == Spec => []RInv
<1> QED
  BY InitRInv, NextInv, PTL DEF Spec

-----------------------------------------------------------------------------
\* Every state is well typed: no list is taken apart that is empty, and no
\* operation beyond those posted appears.
THEOREM TypeCorrect == Spec => []TypeOK
<1>1. RInv => TypeOK
  BY DEF RInv, IInv, TypeOK
<1> QED
  BY <1>1, Invariant, PTL

\* The operations of a side complete once each and in the order they were
\* posted, whoever completes them: in every configuration, up to the data race
\* that callbacks without locks may come to.
THEOREM InOrder == Spec => []CompletionsInOrder
<1>1. RInv => CompletionsInOrder
  BY DEF RInv, IInv
<1> QED
  BY <1>1, Invariant, PTL

\* The operations completed, those queued and the one in the hands of a call
\* are the operations posted.
LEMMA AllAccounted ==
  IInv => \A s \in Sides : 1 .. posted[s] = Completed(s) \cup Queued(s) \cup InHand(s)
<1> SUFFICES ASSUME IInv, NEW s \in Sides
             PROVE  1 .. posted[s] = Completed(s) \cup Queued(s) \cup InHand(s)
  OBVIOUS
<1>1. PICK k, m, n, f : k = Len(completed[s]) /\ m = Len(queue[s]) /\ n = posted[s] /\ f = First(s)
  OBVIOUS
<1>2. completed[s] \in Seq(1 .. config.maxPosts) /\ queue[s] \in Seq(1 .. config.maxPosts)
      /\ n \in 0 .. config.maxPosts /\ config.maxPosts \in Nat
  BY <1>1, Types DEF IInv, FieldsOK
<1>3. k \in Nat /\ m \in Nat /\ n \in Nat
  BY <1>1, <1>2
<1>4. /\ f \in {k, k + 1} /\ (f = k => k >= 1 /\ m >= 1)
      /\ \A i \in 1 .. m : queue[s][i] = f + i - 1
      /\ \A i \in 1 .. k : completed[s][i] = i
      /\ InCall(s) => n >= 1 /\ m = n - f
      /\ ~InCall(s) => m = n + 1 - f
  <2>1. QueueIs(s) /\ \A i \in 1 .. k : completed[s][i] = i
    BY <1>1 DEF IInv, QueuesAre, CompletionsInOrder
  <2>2. f = IF Removing(s) THEN k ELSE k + 1
    BY <1>1 DEF First
  <2>3. f = k => k >= 1 /\ m >= 1
    <3>1. /\ completed[s] # <<>> => Len(completed[s]) # 0
          /\ queue[s] # <<>> => Len(queue[s]) # 0
      BY <1>2
    <3> QED BY <1>1, <1>3, <2>1, <2>2, <3>1 DEF QueueIs
  <2>4. \A i \in 1 .. m : queue[s][i] = f + i - 1
    BY <1>1, <2>1 DEF QueueIs
  <2>5. m = Last(s) + 1 - f /\ (InCall(s) => n >= 1)
    BY <1>1, <2>1 DEF QueueIs
  <2>6. /\ InCall(s) => m = n - f
        /\ ~InCall(s) => m = n + 1 - f
    BY <1>1, <1>3, <2>2, <2>5 DEF Last
  <2> QED BY <1>3, <2>1, <2>2, <2>3, <2>4, <2>5, <2>6
<1>5. Completed(s) = 1 .. k
  BY <1>1, <1>4 DEF Completed
<1>6. Queued(s) = f .. f + m - 1
  <2>1. Queued(s) \subseteq f .. f + m - 1
    BY <1>1, <1>3, <1>4, SMTT(30) DEF Queued
  <2>2. ASSUME NEW j \in f .. f + m - 1 PROVE j \in Queued(s)
    <3>1. j - f + 1 \in 1 .. m /\ f + (j - f + 1) - 1 = j
      BY <1>3, <1>4
    <3>2. queue[s][j - f + 1] = j
      BY <1>4, <3>1
    <3> QED BY <1>1, <3>1, <3>2 DEF Queued
  <2> QED BY <2>1, <2>2
<1>7. InHand(s) = IF InCall(s) THEN {n} ELSE {}
  BY <1>1 DEF InHand, InCall, Calling
<1>8. CASE InCall(s)
  <2>1. InHand(s) = {n} /\ n >= 1 /\ m = n - f
    BY <1>4, <1>7, <1>8
  <2>2. 1 .. n = (1 .. k) \cup (f .. f + m - 1) \cup {n}
    BY <1>3, <1>4, <2>1
  <2> QED BY <1>1, <1>5, <1>6, <2>1, <2>2
<1>9. CASE ~InCall(s)
  <2>1. InHand(s) = {} /\ m = n + 1 - f
    BY <1>4, <1>7, <1>9
  <2>2. 1 .. n = (1 .. k) \cup (f .. f + m - 1)
    <3>1. f + m - 1 = n
      BY <1>3, <1>4, <2>1
    <3>2. f >= 1 /\ f <= k + 1
      BY <1>3, <1>4
    <3>3. k <= n
      BY <1>3, <1>4, <2>1
    <3> QED BY <1>3, <1>4, <3>1, <3>2, <3>3
  <2> QED BY <1>1, <1>5, <1>6, <2>1, <2>2
<1> QED
  BY <1>8, <1>9

\* No interleaving of a call with a callback loses an operation, up to a data
\* race; and there is one only where callbacks take no lock.
THEOREM PostsAccounted == Spec => []EveryPostAccounted
<1>1. RInv => EveryPostAccounted
  BY AllAccounted DEF RInv, EveryPostAccounted, Unlocked
<1> QED
  BY <1>1, Invariant, PTL

==============================================================================
