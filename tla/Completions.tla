----------------------------- MODULE Completions -----------------------------
(***************************************************************************)
(* A completion queue (dpa_cq.c) and a counter (dpa_cntr.c) that an        *)
(* endpoint reports its completed operations to, and the application's     *)
(* threads that read them or wait on them.                                 *)
(*                                                                         *)
(* Operations complete in a thread of DPAlib (automatic progress) or in    *)
(* the application's own thread, inside the progress function that         *)
(* fi_cq_read, fi_cq_sread and fi_cntr_wait call first (manual progress).  *)
(* A list of event structs is the sequence of its entries; the sections    *)
(* between cq_lock and cq_unlock are steps of the thread that holds the    *)
(* lock.                                                                   *)
(*                                                                         *)
(* From FI_THREAD_COMPLETION on there is no lock, though with automatic    *)
(* progress DPAlib's threads complete operations beside the application's. *)
(* Two threads in the lists, or in the counter, at once are a data race,   *)
(* after which nothing is defined: the behaviour ends there.               *)
(***************************************************************************)
EXTENDS Integers, Sequences, FiniteSets

CONSTANTS
  Apps,            \* threads of the application
  Callbacks,       \* threads of DPAlib that complete operations
  Configs,         \* how the domain and the build may be configured
  Counts,          \* numbers of entries the application reads at a time
  Thresholds,      \* thresholds of fi_cntr_wait
  FreeSize,        \* attr->size: event structs made by dpa_cq_open
  IntMax,          \* largest value of the int in atomic_t
  MaxCompletions,  \* bound: entries ever added to the queue
  MaxSignals       \* bound: signals counted when the application signals

Threads == Apps \cup Callbacks
Ids == 1 .. MaxCompletions
Queues == {"event", "error"}

\* locking: threading < FI_THREAD_COMPLETION; progress: a progress function
\* is set; spin: PT_LOCK_SPIN; threads: those that use this queue; calls: the
\* functions the application calls; waits: the timeouts it passes to fi_cq_sread
\* and fi_cntr_wait, "none" being 0; completions: how many there will be.
Calls == {"read", "readerr", "signal", "wait_data", "cntr_wait", "cntr_set"}
ConfigSet == [locking : BOOLEAN, progress : BOOLEAN, spin : BOOLEAN,
              threads : SUBSET Threads, calls : SUBSET Calls,
              waits : SUBSET {"none", "finite", "infinite"}, completions : 0 .. MaxCompletions]

\* Without the lock the application uses the queue from one thread, which is what
\* FI_THREAD_COMPLETION asks of it.
ASSUME ConfigsAssumption ==
  /\ Configs \subseteq ConfigSet
  /\ \A c \in Configs : ~c.locking => \E t \in Apps : c.threads \cap Apps = {t}
ASSUME ThreadsAssumption == Apps \cap Callbacks = {} /\ "free" \notin Threads
ASSUME NumbersAssumption ==
  /\ Counts \subseteq Nat \ {0} /\ Thresholds \subseteq Nat
  /\ FreeSize \in Nat /\ IntMax \in Nat
  /\ MaxCompletions \in Nat /\ MaxSignals \in Nat

VARIABLES
  config,    \* the configuration, fixed
  handle,    \* interrupt.handle is set
  irq,       \* the peer has triggered that interrupt
  lock,      \* holder of free_list.lock
  free,      \* free_list
  queue,     \* event_queue and error_queue
  entry,     \* per event struct: the completion stored in it
  cond,      \* spin variant: locked and released
  thread,    \* per thread: its call, where it is in it, what it holds
  issued,    \* history: kind of each completion, in the order they arose
  linked,    \* history: completions in the order they were put in a queue
  delivered, \* history: completions in the order a read returned them
  base,      \* history: what fi_cntr_set left in the counter beyond its count
  count,     \* counter or counter_atomic
  errs,      \* err or err_atomic
  raced      \* history: two threads were in the lists or the counter at once

listVars    == <<free, queue, entry>>
historyVars == <<issued, linked, delivered>>
cntrVars    == <<base, count, errs>>
vars == <<config, handle, irq, lock, listVars, cond, thread, historyVars, cntrVars, raced>>

-----------------------------------------------------------------------------
At(t, pc) == thread[t].pc = pc
Goto(t, pc) == thread' = [thread EXCEPT ![t].pc = pc]
Events == DOMAIN entry
Readers == config.threads \cap Apps
MayCall(t, call) == t \in Readers /\ At(t, "idle") /\ call \in config.calls

IdleThread ==
  [pc |-> "idle", call |-> "none", round |-> 1, time |-> "none", room |-> 0, got |-> 0,
   threshold |-> 0, err0 |-> 0, stage |-> "none", comp |-> 0, event |-> 0, ticket |-> 0]

\* cq_lock and cq_unlock
Acquire(t) ==
  IF config.locking THEN lock = "free" /\ lock' = t ELSE UNCHANGED lock
Release == lock' = IF config.locking THEN "free" ELSE lock

Init ==
  /\ config \in Configs
  /\ handle = FALSE /\ irq = FALSE
  /\ lock = "free"
  /\ free = [i \in 1 .. FreeSize |-> i]
  /\ queue = [q \in Queues |-> <<>>]
  /\ entry = [e \in 1 .. FreeSize |-> 0]
  /\ cond = [locked |-> 0, released |-> 0]
  /\ thread = [t \in Threads |-> IdleThread]
  /\ issued = <<>>
  /\ linked = [q \in Queues |-> <<>>] /\ delivered = [q \in Queues |-> <<>>]
  /\ base = 0 /\ count = 0 /\ errs = 0
  /\ raced = FALSE

-----------------------------------------------------------------------------
(* cq_add_src, and the counter that the operation reports to after it.     *)

\* Thread t adds a completion of the given kind: "ok", "err" (a cut message)
\* or "irq" (a completion queue interrupt).
Add(t, kind) ==
  /\ Len(issued) < config.completions
  /\ issued' = Append(issued, kind)
  /\ thread' = [thread EXCEPT ![t].pc = "add_lock", ![t].comp = Len(issued) + 1]

Complete(t) ==
  /\ \/ t \in Callbacks \cap config.threads /\ ~config.progress /\ At(t, "idle")
     \/ t \in Readers /\ config.progress /\ At(t, "progress")
  /\ \E kind \in {"ok", "err"} : Add(t, kind)
  /\ UNCHANGED <<config, handle, irq, lock, listVars, cond, linked, delivered, cntrVars>>

AddLock(t) ==
  /\ At(t, "add_lock")
  /\ Acquire(t)
  /\ Goto(t, "add_take")
  /\ UNCHANGED <<config, handle, irq, listVars, cond, historyVars, cntrVars>>

\* get_empty_event: from the free list, or a new struct when it is empty.
\* Slip: a number the free list may hold again
EventAfterFree == IF free = <<>> THEN Cardinality(Events) + 2 ELSE Head(free)
EmptyEvent == IF free = <<>> THEN Cardinality(Events) + 1 ELSE Head(free)

FreeAfterTake == IF free = <<>> THEN <<>> ELSE Tail(free)

AddTake(t) ==
  /\ At(t, "add_take")
  /\ free' = FreeAfterTake
  /\ entry' = [e \in Events \cup {EmptyEvent} |->
                 IF e = EmptyEvent THEN thread[t].comp ELSE entry[e]]
  /\ thread' = [thread EXCEPT ![t].pc = "add_link", ![t].event = EmptyEvent]
  /\ UNCHANGED <<config, handle, irq, lock, queue, cond, historyVars, cntrVars>>

InsertTail(q, e) == Append(queue[q], e)

AddLink(t) ==
  LET q == IF issued[thread[t].comp] = "err" THEN "error" ELSE "event" IN
  /\ At(t, "add_link")
  /\ queue' = [queue EXCEPT ![q] = InsertTail(q, thread[t].event)]
  /\ linked' = [linked EXCEPT ![q] = Append(@, thread[t].comp)]
  /\ Release
  /\ thread' = [thread EXCEPT ![t].pc = "signal", ![t].event = 0]
  /\ UNCHANGED <<config, handle, irq, free, entry, cond, issued, delivered, cntrVars>>

\* Slip: signal only those that have an interrupt to wait for
SignalIfHandle == ~config.progress /\ handle

(* cq_signal: nothing when readers wait by making progress or on the        *)
(* interrupt; else one thread asleep on the condition, whichever, goes on.  *)
(* spin_signal counts the signal whether or not a thread spins.             *)
SignalWanted == ~config.progress /\ ~handle
Asleep == {t \in Apps : At(t, "asleep")}

\* Slip: a signal no thread waits for is forgotten
CountedIfAwaited == IF cond.released < cond.locked THEN cond.released + 1 ELSE cond.released
ReleasedBySignal == cond.released + 1

Signalled(pcs) ==
  IF ~SignalWanted THEN thread' = pcs /\ UNCHANGED cond
  ELSE IF config.spin
  THEN thread' = pcs /\ cond' = [cond EXCEPT !.released = ReleasedBySignal]
  ELSE /\ UNCHANGED cond
       /\ IF Asleep = {} THEN thread' = pcs
          ELSE \E w \in Asleep : thread' = [pcs EXCEPT ![w].pc = "wake_lock"]

\* Where the thread goes on once the completion is added: a callback ends, the
\* application's thread is back in its progress, or has taken the interrupt.
Added(t, kind) ==
  IF t \in Callbacks THEN IdleThread
  ELSE [thread[t] EXCEPT !.comp = 0, !.pc = IF kind = "irq" THEN "take_lock" ELSE "progress",
                           !.stage = IF kind = "irq" THEN "none" ELSE @]

Signal(t) ==
  LET kind == issued[thread[t].comp] IN
  /\ At(t, "signal")
  /\ Signalled([thread EXCEPT ![t] =
                  IF kind = "irq" THEN Added(t, kind) ELSE [@ EXCEPT !.pc = "count"]])
  /\ UNCHANGED <<config, handle, irq, lock, listVars, historyVars, cntrVars>>

\* fi_cq_signal
SignalCall(t) ==
  /\ MayCall(t, "signal")
  /\ cond.released < MaxSignals
  /\ Signalled(thread)
  /\ UNCHANGED <<config, handle, irq, lock, listVars, historyVars, cntrVars>>

\* Slip: what failed is counted as done too
CountedAsDone(kind) == 1
DoneCount(kind) == IF kind = "err" THEN 0 ELSE 1

\* dpa_cntr_inc, dpa_cntr_err_inc: one atomic or single-threaded increment.
Count(t) ==
  LET kind == issued[thread[t].comp] IN
  /\ At(t, "count")
  /\ count' = count + DoneCount(kind)
  /\ errs' = IF kind = "err" THEN errs + 1 ELSE errs
  /\ thread' = [thread EXCEPT ![t] = Added(t, kind)]
  /\ UNCHANGED <<config, handle, irq, lock, listVars, cond, historyVars, base>>

-----------------------------------------------------------------------------
(* fi_cq_read, fi_cq_sread, fi_cq_readerr.                                  *)
Read(t) ==
  /\ MayCall(t, "read")
  /\ \E time \in config.waits, n \in Counts :
       thread' = [thread EXCEPT ![t] =
         [IdleThread EXCEPT !.pc = "progress", !.call = "read", !.time = time, !.room = n]]
  /\ UNCHANGED <<config, handle, irq, lock, listVars, cond, historyVars, cntrVars>>

ReadErr(t) ==
  /\ MayCall(t, "readerr")
  /\ thread' = [thread EXCEPT ![t] =
       [IdleThread EXCEPT !.pc = "take_lock", !.call = "readerr", !.room = 1]]
  /\ UNCHANGED <<config, handle, irq, lock, listVars, cond, historyVars, cntrVars>>

\* The time a progress call is given and what it leaves: none in the first
\* round, and none when the wait timed out or failed.
TimeGiven(t) == IF thread[t].round = 1 THEN "none" ELSE thread[t].time
TimeLeft(given) == IF config.progress THEN {given, "none"} ELSE {given}

\* make_queue_progress ends.
ProgressEnd(t) ==
  /\ At(t, "progress") /\ thread[t].call = "read"
  /\ \E left \in TimeLeft(TimeGiven(t)) :
       thread' = [thread EXCEPT ![t] =
         IF handle THEN [@ EXCEPT !.pc = "interrupt", !.stage = left]
         ELSE [@ EXCEPT !.pc = "take_lock"]]
  /\ UNCHANGED <<config, handle, irq, lock, listVars, cond, historyVars, cntrVars>>

\* wait_cq_interrupt: the interrupt is there, or the wait ends without it.
TakeInterrupt(t) ==
  /\ At(t, "interrupt") /\ irq
  /\ irq' = FALSE
  /\ Add(t, "irq")
  /\ UNCHANGED <<config, handle, lock, listVars, cond, linked, delivered, cntrVars>>

InterruptTimeout(t) ==
  /\ At(t, "interrupt") /\ ~irq
  /\ thread[t].stage # "infinite"
  /\ thread' = [thread EXCEPT ![t].pc = "take_lock", ![t].stage = "none"]
  /\ UNCHANGED <<config, handle, irq, lock, listVars, cond, historyVars, cntrVars>>

InterruptFails(t) ==
  /\ At(t, "interrupt")
  /\ thread' = [thread EXCEPT ![t].pc = "take_lock", ![t].stage = "none"]
  /\ UNCHANGED <<config, handle, irq, lock, listVars, cond, historyVars, cntrVars>>

\* cq_read_priv: take entries until there are enough or none is left.
Source(t) == IF thread[t].call = "readerr" THEN "error" ELSE "event"

TakeLock(t) ==
  /\ At(t, "take_lock")
  /\ Acquire(t)
  /\ Goto(t, "take")
  /\ UNCHANGED <<config, handle, irq, listVars, cond, historyVars, cntrVars>>

\* Slip: the completion copied out of the struct that comes next
NextEntry(q) == IF Len(queue[q]) > 1 THEN entry[queue[q][2]] ELSE entry[Head(queue[q])]
EntryRead(q) == entry[Head(queue[q])]

Take(t) ==
  LET q == Source(t) IN
  /\ At(t, "take")
  /\ thread[t].got < thread[t].room /\ queue[q] # <<>>
  /\ delivered' = [delivered EXCEPT ![q] = Append(@, EntryRead(q))]
  /\ queue' = [queue EXCEPT ![q] = Tail(@)]
  /\ free' = Append(free, Head(queue[q]))
  /\ thread' = [thread EXCEPT ![t].got = @ + 1]
  /\ UNCHANGED <<config, handle, irq, lock, entry, cond, issued, linked, cntrVars>>

\* The read returns; fi_cq_sread with time that has read nothing waits once.
WaitsNow(t) ==
  thread[t].call = "read" /\ thread[t].got = 0 /\ thread[t].round = 1 /\ thread[t].time # "none"

TakeEnd(t) ==
  /\ At(t, "take")
  /\ thread[t].got = thread[t].room \/ queue[Source(t)] = <<>>
  /\ Release
  /\ thread' = [thread EXCEPT ![t] =
       IF ~WaitsNow(t) THEN IdleThread
       ELSE [@ EXCEPT !.round = 2,
                      !.pc = IF config.progress \/ handle THEN "progress" ELSE "sleep_lock"]]
  /\ UNCHANGED <<config, handle, irq, listVars, cond, historyVars, cntrVars>>

(* cq_wait: the lock, then the condition, without looking at the queue      *)
(* again and without the timeout.  spin_wait draws a ticket.  The wait      *)
(* itself releases the lock and takes it back, also where cq_lock and       *)
(* cq_unlock do nothing: there it stays taken until the next wait.          *)
Sleep(t) ==
  /\ At(t, "sleep_lock")
  /\ config.locking => lock = "free"
  /\ lock' = "free"
  /\ cond' = IF config.spin THEN [cond EXCEPT !.locked = @ + 1] ELSE cond
  /\ thread' = [thread EXCEPT ![t].pc = "asleep", ![t].ticket = cond.locked]
  /\ UNCHANGED <<config, handle, irq, listVars, historyVars, cntrVars>>

\* A thread that spins sees its ticket called.
SpinEnd(t) ==
  /\ At(t, "asleep") /\ config.spin
  /\ cond.released > thread[t].ticket
  /\ Goto(t, "wake_lock")
  /\ UNCHANGED <<config, handle, irq, lock, listVars, cond, historyVars, cntrVars>>

\* A condition variable may wake without a signal.
SpuriousWakeup(t) ==
  /\ At(t, "asleep") /\ ~config.spin
  /\ Goto(t, "wake_lock")
  /\ UNCHANGED <<config, handle, irq, lock, listVars, cond, historyVars, cntrVars>>

\* fastlock_wait takes the lock back and cq_unlock releases it.
WakeLock(t) ==
  /\ At(t, "wake_lock")
  /\ lock = "free"
  /\ lock' = IF config.locking THEN "free" ELSE t
  /\ thread' = [thread EXCEPT ![t].pc = "take_lock", ![t].ticket = 0]
  /\ UNCHANGED <<config, handle, irq, listVars, cond, historyVars, cntrVars>>

\* FI_DPA_CQ_OPS_OPEN wait_data: from now on reads wait on an interrupt, which
\* replaces the one of an earlier call and what was triggered there.
WaitData(t) ==
  /\ MayCall(t, "wait_data")
  /\ handle' = TRUE
  /\ irq' = FALSE
  /\ UNCHANGED <<config, lock, listVars, cond, thread, historyVars, cntrVars>>

\* The peer's write with remote data triggers the interrupt.
Trigger ==
  /\ handle /\ ~irq
  /\ irq' = TRUE
  /\ UNCHANGED <<config, handle, lock, listVars, cond, thread, historyVars, cntrVars>>

-----------------------------------------------------------------------------
(* The counter.  dpa_cntr_read_safe returns the int of atomic_t as a        *)
(* uint64_t: past INT_MAX it is larger than any threshold.                  *)
Huge == 1000

\* cntr->counter: the plain field, which stays 0 in the thread-safe variant.
PlainCounter == IF config.locking THEN 0 ELSE count

CounterRead == IF config.locking /\ count > IntMax THEN Huge ELSE count

CntrWait(t) ==
  /\ MayCall(t, "cntr_wait")
  /\ \E time \in config.waits, n \in Thresholds :
       thread' = [thread EXCEPT ![t] =
         [IdleThread EXCEPT !.pc = "progress", !.call = "wait", !.stage = "err0",
                            !.time = time, !.threshold = n]]
  /\ UNCHANGED <<config, handle, irq, lock, listVars, cond, historyVars, cntrVars>>

\* What dpa_cntr_wait returns once its loop has ended.
\* Slip: no time is left, so the wait timed out
OutOfTime(t, time) == time = "none"
TimedOut(t, time) == time = "none" /\ PlainCounter < thread[t].threshold
Result(t, time) == IF TimedOut(t, time) THEN "timeout" ELSE "reached"
EndWait(t, time) ==
  thread' = [thread EXCEPT ![t] = [IdleThread EXCEPT !.call = Result(t, time)]]
Stage(t, s) == thread' = [thread EXCEPT ![t].stage = s]

\* readerr, then while there is time: read, readerr, progress; each of the
\* reads makes progress first.
CntrStep(t) ==
  LET w == thread[t] IN
  /\ At(t, "progress") /\ w.call = "wait"
  /\ \/ /\ w.stage = "err0"
        /\ IF w.time = "none" THEN EndWait(t, "none")
           ELSE thread' = [thread EXCEPT ![t].stage = "count", ![t].err0 = errs]
     \/ /\ w.stage = "count"
        /\ IF CounterRead >= w.threshold THEN EndWait(t, w.time) ELSE Stage(t, "err")
     \/ /\ w.stage = "err"
        /\ IF errs # w.err0 THEN EndWait(t, w.time) ELSE Stage(t, "time")
     \/ /\ w.stage = "time"
        /\ \E left \in TimeLeft(w.time) :
             IF left = "none" THEN EndWait(t, "none") ELSE Stage(t, "count")
  /\ UNCHANGED <<config, handle, irq, lock, listVars, cond, historyVars, cntrVars>>

Waiting(t) == thread[t].call = "wait"

\* fi_cntr_set and fi_cntr_add, while no thread waits for the counter.
CntrSet(t) ==
  /\ MayCall(t, "cntr_set")
  /\ \A u \in Threads : ~Waiting(u)
  /\ \E v \in {0, count + 1} :
       /\ v <= config.completions + 1
       /\ base' = base + v - count
       /\ count' = v
  /\ UNCHANGED <<config, handle, irq, lock, listVars, cond, thread, historyVars, errs>>

-----------------------------------------------------------------------------
AddNext(t) == AddLock(t) \/ AddTake(t) \/ AddLink(t) \/ Signal(t) \/ Count(t)

ReadNext(t) ==
  \/ ProgressEnd(t) \/ TakeInterrupt(t) \/ InterruptTimeout(t)
  \/ TakeLock(t) \/ Take(t) \/ TakeEnd(t)
  \/ Sleep(t) \/ WakeLock(t) \/ CntrStep(t)

CallNext(t) ==
  Read(t) \/ ReadErr(t) \/ CntrWait(t) \/ CntrSet(t) \/ SignalCall(t) \/ WaitData(t)

\* Where a thread works on the lists, between cq_lock and cq_unlock.
InLists == {"add_take", "add_link", "take"}

\* Two threads on the lists, or on the counter, and no lock or atomic field.
Race ==
  /\ ~config.locking
  /\ \E t, u \in Threads :
       /\ t # u
       /\ \/ thread[t].pc \in InLists /\ thread[u].pc \in InLists
          \/ At(t, "count") /\ At(u, "count")
SetWhileCounted ==
  /\ ~config.locking
  /\ \E t, u \in Threads : CntrSet(t) /\ At(u, "count")

Step ==
  \/ \E t \in Threads :
       \/ Complete(t) \/ AddNext(t) \/ ReadNext(t) \/ CallNext(t)
       \/ SpinEnd(t) \/ SpuriousWakeup(t) \/ InterruptFails(t)
  \/ Trigger

\* Up to a race, whether the step is one.
UpToRace == ~raced /\ raced' = (Race' \/ SetWhileCounted)

Next == Step /\ UpToRace

Spec == Init /\ [][Next]_vars

\* Threads run, as long as it is defined what they do.  A thread that spins need
\* not see the other's store: the loop reads an ordinary variable.
Fairness == \A t \in Threads : WF_vars((AddNext(t) \/ ReadNext(t)) /\ UpToRace)

FairSpec == Spec /\ Fairness

-----------------------------------------------------------------------------
(* Properties.                                                              *)

FieldsOK ==
  /\ config \in Configs
  /\ handle \in BOOLEAN /\ irq \in BOOLEAN
  /\ lock \in Threads \cup {"free"}
  /\ Events = 1 .. Cardinality(Events)
  /\ free \in Seq(Events)
  /\ queue \in [Queues -> Seq(Events)]
  /\ entry \in [Events -> Ids \cup {0}]
  /\ cond \in [locked : Nat, released : Nat]
  /\ DOMAIN thread = Threads
  /\ issued \in Seq({"ok", "err", "irq"})
  /\ linked \in [Queues -> Seq(Ids)] /\ delivered \in [Queues -> Seq(Ids)]
  /\ base \in Int /\ count \in Nat /\ errs \in Nat

\* Type invariant.
TypeOK == FieldsOK /\ raced \in BOOLEAN

\* A data race takes a callback on a queue without the lock.
RaceUnlocked == raced => ~config.locking /\ ~config.progress

Places(e) ==
  {<<"free", i>> : i \in {j \in DOMAIN free : free[j] = e}}
  \cup (UNION {{<<q, i>> : i \in {j \in DOMAIN queue[q] : queue[q][j] = e}} : q \in Queues})
  \cup {<<"held", t>> : t \in {u \in Threads : thread[u].event = e}}

\* Every event struct is in one list or in the hands of one thread.
EventsConserved == \A e \in Events : Cardinality(Places(e)) = 1

\* What was put in a queue is what was read, then what its structs hold.
QueuesInOrder ==
  \A q \in Queues :
    linked[q] = delivered[q] \o [i \in DOMAIN queue[q] |-> entry[queue[q][i]]]

\* Every completion is read once, from the queue it belongs to and in the order
\* in which completions were put there, though its struct is used over and over;
\* and no struct is lost on the way, so that dpa_cq_close frees them all.  It is
\* so up to a data race, which there is neither with the lock nor in one thread.
DeliveredInOrder ==
  RaceUnlocked /\ (~raced => EventsConserved /\ QueuesInOrder)

Reported == {id \in 1 .. Len(issued) : issued[id] # "irq"}
PutIn(q) == {id \in Reported : \E i \in DOMAIN linked[q] : linked[q][i] = id}
NotYetCounted == {t \in Threads : (At(t, "signal") \/ At(t, "count")) /\ thread[t].comp \in Reported}

Counted ==
  LET late(kind) == {t \in NotYetCounted : issued[thread[t].comp] = kind} IN
  /\ count - base + Cardinality(late("ok")) = Cardinality(PutIn("event"))
  /\ errs + Cardinality(late("err")) = Cardinality(PutIn("error"))

\* The counter counts the operations whose completion can be read, and the
\* error counter those that failed: a thread that fi_cntr_wait lets go finds
\* the completions it waited for.  Up to a data race, in the same way.
CounterFollowsQueue == RaceUnlocked /\ (~raced => Counted)

SpinnerCalled(t) ==
  config.spin /\ Readers = {t} /\ At(t, "asleep") /\ queue["event"] # <<>> =>
    \/ cond.released > thread[t].ticket
    \/ \E c \in Threads : At(c, "signal")

\* With PT_LOCK_SPIN a completion that arrives between the last look at the
\* queue and the wait is not missed: its signal is counted, and the ticket of
\* the only reader is called.
SpinnerNotStranded == ~raced => \A t \in Apps : SpinnerCalled(t)

\* fi_cntr_wait returns 0 only when the threshold is reached or an operation
\* failed while it waited, until the thread-safe counter passes INT_MAX; and,
\* without the lock, it reports a timeout only when the threshold is not
\* reached, also by what completed in the very last progress.
WaitResultIsTrue ==
  [][\A t \in Apps : Waiting(t) =>
       /\ thread'[t].call = "reached" =>
            \/ count >= thread[t].threshold
            \/ errs # thread[t].err0
            \/ config.locking /\ count > IntMax
       /\ thread'[t].call = "timeout" /\ ~config.locking =>
            count < thread[t].threshold]_vars

\* A completion added while the application's only reader sleeps wakes it, unless
\* there is a data race first.
SleeperWakes ==
  \A t \in Apps :
    (~config.spin /\ Readers = {t} /\ At(t, "asleep") /\ \E c \in Callbacks : At(c, "add_link"))
      ~> ~At(t, "asleep") \/ raced

=============================================================================
