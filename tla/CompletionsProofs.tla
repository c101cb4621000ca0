-------------------------- MODULE CompletionsProofs --------------------------
(***************************************************************************)
(* What is proved of a completion queue and a counter, for every set of    *)
(* threads, every way to configure the domain, every size of the free list *)
(* and every bound.                                                        *)
(*                                                                         *)
(* The argument: one thread at a time is between the lock and its release, *)
(* or, without the lock, in the lists up to the first data race, so that a *)
(* struct is in one list or in the hands of that thread, and what is       *)
(* linked and not yet delivered is what the structs of a queue hold.  A    *)
(* completion is in the hands of one thread until it is linked and until   *)
(* it is counted.  The only reader's ticket is the last one drawn, and as  *)
(* many signals as tickets are counted while it is awake.  A race takes    *)
(* two threads; without the lock the application has one here, so that the *)
(* other is DPAlib's, which completes nothing under manual progress.       *)
(*                                                                         *)
(* What a wait for the counter answers is what it saw when it ended.       *)
(***************************************************************************)
EXTENDS Completions, FiniteSetTheorems, SequenceTheorems, TLAPS

\* The stages of a thread: with a completion not yet linked, with one linked
\* and not yet counted, between cq_lock and cq_unlock.
Unlinked == {"add_lock", "add_take", "add_link"}
Uncounted == {"signal", "count"}
Adding == Unlinked \cup Uncounted
Critical == {"add_take", "add_link", "take"}
Stages == Adding \cup {"idle", "progress", "interrupt", "take_lock", "take",
                       "sleep_lock", "asleep", "wake_lock"}

Times == {"none", "finite", "infinite"}
ThreadSet ==
  [pc : Stages, call : {"none", "read", "readerr", "wait", "reached", "timeout"},
   round : {1, 2}, time : Times, room : Nat, got : Nat, threshold : Nat, err0 : Nat,
   stage : Times \cup {"err0", "count", "err", "time"}, comp : Ids \cup {0},
   event : Nat, ticket : Nat]

\* Who is in a call uses this queue; a thread of DPAlib only adds, and with
\* manual progress not even that; a read asks for something.
ThreadsAre ==
  \A t \in Threads :
    /\ ~At(t, "idle") => t \in config.threads
    /\ t \in Callbacks => thread[t].pc \in Adding \cup {"idle"}
    /\ t \in Callbacks /\ config.progress => At(t, "idle")
    /\ thread[t].call = "read" => thread[t].room >= 1

CriticalHoldsLock ==
  config.locking => \A t \in Threads : thread[t].pc \in Critical => lock = t

Types ==
  /\ FieldsOK
  /\ thread \in [Threads -> ThreadSet]
  /\ Cardinality(Events) \in Nat
  /\ Len(issued) <= config.completions

\* What a thread holds: a completion while it adds it, its struct while that
\* is in no list.
HoldsAre ==
  \A t \in Threads :
    /\ thread[t].comp # 0 <=> thread[t].pc \in Adding
    /\ thread[t].comp <= Len(issued)
    /\ thread[t].event # 0 <=> At(t, "add_link")
    /\ At(t, "add_link") => /\ thread[t].event \in Events
                            /\ entry[thread[t].event] = thread[t].comp

Once(s) == \A i, j \in 1 .. Len(s) : s[i] = s[j] => i = j
Has(s, e) == \E i \in 1 .. Len(s) : s[i] = e
Held(e) == \E t \in Threads : At(t, "add_link") /\ thread[t].event = e

\* A struct is in one place of one list, or in the hands of a thread.
ListsApart ==
  /\ Once(free) /\ \A q \in Queues : Once(queue[q])
  /\ \A e \in Events :
       /\ Has(free, e) => ~Held(e) /\ \A q \in Queues : ~Has(queue[q], e)
       /\ \A q \in Queues : Has(queue[q], e) => ~Held(e)
       /\ ~(Has(queue["event"], e) /\ Has(queue["error"], e))
       /\ Has(free, e) \/ Held(e) \/ \E q \in Queues : Has(queue[q], e)

\* What was linked is what was delivered, then what the queue's structs hold.
QueueHolds(q) ==
  /\ Len(linked[q]) = Len(delivered[q]) + Len(queue[q])
  /\ \A i \in 1 .. Len(delivered[q]) : linked[q][i] = delivered[q][i]
  /\ \A i \in 1 .. Len(queue[q]) : linked[q][Len(delivered[q]) + i] = entry[queue[q][i]]
QueuesHold == \A q \in Queues : QueueHolds(q)

\* A completion is in the hands of one thread, is linked when that thread has
\* linked it, and that of the interrupt is not counted.
CompletionsAre ==
  /\ \A t, u \in Threads : thread[t].comp = thread[u].comp /\ thread[t].comp # 0 => t = u
  /\ \A q \in Queues : \A i \in 1 .. Len(linked[q]) :
       /\ linked[q][i] <= Len(issued)
       /\ \A t \in Threads : thread[t].pc \in Unlinked => thread[t].comp # linked[q][i]
  /\ \A t \in Threads : At(t, "count") => issued[thread[t].comp] # "irq"

Late(kind) == {t \in NotYetCounted : issued[thread[t].comp] = kind}
LateFinite == \A kind \in {"ok", "err"} : IsFiniteSet(Late(kind))

\* The only reader, when it spins: its ticket is the last, no signal is
\* lost, and it goes to sleep only where signals are counted.
SpinnerIs ==
  \A t \in Apps : Readers = {t} =>
    /\ thread[t].pc \in {"sleep_lock", "asleep"} => ~handle /\ ~config.progress
    /\ config.spin =>
         /\ At(t, "asleep") => cond.locked = thread[t].ticket + 1
                               /\ cond.released >= thread[t].ticket
         /\ ~At(t, "asleep") => cond.released >= cond.locked
         /\ At(t, "sleep_lock") /\ queue["event"] # <<>> =>
              cond.released > cond.locked \/ \E c \in Threads : At(c, "signal")

SpinnersCalled == \A t \in Apps : SpinnerCalled(t)

IInv ==
  /\ Types /\ ThreadsAre /\ CriticalHoldsLock
  /\ HoldsAre /\ ListsApart /\ QueuesHold
  /\ CompletionsAre /\ LateFinite /\ Counted
  /\ SpinnerIs /\ SpinnersCalled

-----------------------------------------------------------------------------
(* What the invariant says of a configuration, the threads and the structs. *)

\* What ConfigsAssumption says of the configuration at hand: cq_lock is left out
\* only where one thread of the application uses the queue.
LEMMA ConfigIs ==
  ASSUME Types
  PROVE  /\ config \in ConfigSet /\ config \in Configs
         /\ config.locking \in BOOLEAN /\ config.progress \in BOOLEAN /\ config.spin \in BOOLEAN
         /\ config.threads \subseteq Threads /\ config.waits \subseteq Times
         /\ config.completions \in Nat /\ config.completions <= MaxCompletions
         /\ ~config.locking => \E t \in Apps : Readers = {t}
<1>1. config \in Configs /\ config \in ConfigSet
  BY ConfigsAssumption DEF Types, FieldsOK
<1>2. /\ config.locking \in BOOLEAN /\ config.progress \in BOOLEAN /\ config.spin \in BOOLEAN
      /\ config.threads \in SUBSET Threads /\ config.waits \in SUBSET Times
      /\ config.completions \in 0 .. MaxCompletions
  BY <1>1 DEF ConfigSet, Times
<1>3. config.completions \in Nat /\ config.completions <= MaxCompletions
  BY <1>2, NumbersAssumption
<1>4. ~config.locking => \E t \in Apps : Readers = {t}
  BY <1>1, ConfigsAssumption DEF Readers
<1> QED
  BY <1>1, <1>2, <1>3, <1>4

\* The fields of a thread.
LEMMA FieldsAre ==
  ASSUME Types, NEW t \in Threads
  PROVE  /\ thread[t] \in ThreadSet /\ thread[t].pc \in Stages
         /\ thread[t].round \in {1, 2} /\ thread[t].time \in Times
         /\ thread[t].room \in Nat /\ thread[t].got \in Nat
         /\ thread[t].threshold \in Nat /\ thread[t].err0 \in Nat
         /\ thread[t].stage \in Times \cup {"err0", "count", "err", "time"}
         /\ thread[t].comp \in Nat /\ thread[t].comp \in Ids \cup {0}
         /\ thread[t].event \in Nat /\ thread[t].ticket \in Nat
<1>1. thread[t] \in ThreadSet
  BY DEF Types
<1>2. Ids \subseteq Nat
  BY NumbersAssumption DEF Ids
<1>3. thread[t].pc \in Stages /\ thread[t].comp \in Ids \cup {0}
  BY <1>1 DEF ThreadSet
<1>4. /\ thread[t].round \in {1, 2} /\ thread[t].time \in Times
      /\ thread[t].stage \in Times \cup {"err0", "count", "err", "time"}
  BY <1>1 DEF ThreadSet
<1>5. /\ thread[t].room \in Nat /\ thread[t].got \in Nat
      /\ thread[t].threshold \in Nat /\ thread[t].err0 \in Nat
      /\ thread[t].event \in Nat /\ thread[t].ticket \in Nat
  BY <1>1 DEF ThreadSet
<1>6. thread[t].comp \in Nat
  <2>1. \A c : c \in Ids \cup {0} => c \in Nat
    BY <1>2
  <2> QED BY <1>3, <2>1
<1> QED
  BY <1>1, <1>3, <1>4, <1>5, <1>6

\* The structs are numbered.
LEMMA EventsAre ==
  ASSUME Types
  PROVE  \E n \in Nat : n = Cardinality(Events) /\ Events = 1 .. n
BY DEF Types, FieldsOK

\* One thread at a time is between the lock and its release: without the lock
\* two would be a data race.
LEMMA Alone ==
  ASSUME Types, CriticalHoldsLock, ~Race, NEW t \in Threads, NEW u \in Threads,
         thread[t].pc \in Critical, thread[u].pc \in Critical
  PROVE  t = u
<1>1. CASE config.locking
  BY <1>1 DEF CriticalHoldsLock
<1>2. CASE ~config.locking
  BY <1>2 DEF Race, InLists, Critical
<1> QED
  BY <1>1, <1>2, ConfigIs

-----------------------------------------------------------------------------
(* Steps that leave parts of the invariant alone.                           *)

\* A step of one thread.
LEMMA MovesTo ==
  ASSUME Types, NEW t \in Threads, NEW r \in ThreadSet, thread' = [thread EXCEPT ![t] = r]
  PROVE  /\ thread' \in [Threads -> ThreadSet] /\ DOMAIN thread' = Threads
         /\ thread'[t] = r
         /\ \A u \in Threads : u # t => thread'[u] = thread[u]
BY DEF Types

\* The thread holds the same completion and struct, and has not linked or
\* counted the completion by its step.
Keeps(u) ==
  /\ thread'[u].comp = thread[u].comp /\ thread'[u].event = thread[u].event
  /\ thread'[u].pc \in Unlinked <=> thread[u].pc \in Unlinked
  /\ thread'[u].pc \in Uncounted <=> thread[u].pc \in Uncounted
  /\ thread'[u].pc = "add_link" <=> thread[u].pc = "add_link"
  /\ thread'[u].pc = "count" => issued[thread[u].comp] # "irq"

\* Of that, what concerns the completion.
KeepsCompletion(u) ==
  /\ thread'[u].comp = thread[u].comp
  /\ thread'[u].pc \in Unlinked <=> thread[u].pc \in Unlinked
  /\ thread'[u].pc \in Uncounted <=> thread[u].pc \in Uncounted
  /\ thread'[u].pc = "count" => issued[thread[u].comp] # "irq"

\* When every thread keeps its completion and none is linked, what is said of
\* completions and counts still holds.
LEMMA CountsKept ==
  ASSUME IInv, UNCHANGED <<issued, linked, errs>>, count' - base' = count - base,
         \A u \in Threads : KeepsCompletion(u)
  PROVE  CompletionsAre' /\ LateFinite' /\ Counted'
<1>1. errs' = errs /\ issued' = issued /\ linked' = linked
  OBVIOUS
<1>2. CompletionsAre'
  BY <1>1 DEF IInv, CompletionsAre, KeepsCompletion, At
<1>3. NotYetCounted' = NotYetCounted /\ \A kind : Late(kind)' = Late(kind)
  <2>1. Reported' = Reported
    BY <1>1 DEF Reported
  <2>2. NotYetCounted' = NotYetCounted
    BY <2>1 DEF NotYetCounted, KeepsCompletion, Uncounted, At
  <2> QED BY <1>1, <2>2 DEF Late, KeepsCompletion, NotYetCounted
<1>4. LateFinite'
  BY <1>3 DEF IInv, LateFinite
<1>5. Counted'
  <2>1. \A q \in Queues : PutIn(q)' = PutIn(q)
    BY <1>1 DEF PutIn, Reported
  <2>2. /\ count - base + Cardinality(Late("ok")) = Cardinality(PutIn("event"))
        /\ errs + Cardinality(Late("err")) = Cardinality(PutIn("error"))
    BY DEF IInv, Counted, Late
  <2>3. /\ count' - base' + Cardinality(Late("ok")') = Cardinality(PutIn("event")')
        /\ errs' + Cardinality(Late("err")') = Cardinality(PutIn("error")')
    BY <1>1, <1>3, <2>1, <2>2 DEF Queues
  <2> QED BY <2>3 DEF Counted, Late
<1> QED
  BY <1>2, <1>4, <1>5

\* When the lists are left alone and every thread keeps what it holds, what is
\* said of structs, completions and counts still holds.
LEMMA HandsKept ==
  ASSUME IInv, UNCHANGED <<listVars, historyVars, errs>>, count' - base' = count - base,
         \A u \in Threads : Keeps(u)
  PROVE  /\ HoldsAre' /\ ListsApart' /\ QueuesHold'
         /\ CompletionsAre' /\ LateFinite' /\ Counted'
<1>1. /\ free' = free /\ queue' = queue /\ entry' = entry /\ errs' = errs
      /\ issued' = issued /\ linked' = linked /\ delivered' = delivered
      /\ Events' = Events
  BY DEF listVars, historyVars, Events
<1>2. HoldsAre'
  BY <1>1 DEF IInv, HoldsAre, Keeps, Adding, At
<1>3. ListsApart'
  <2>1. \A e : Held(e)' <=> Held(e)
    BY DEF Held, Keeps, At
  <2>2. \A e : Has(free, e)' <=> Has(free, e)
    BY <1>1 DEF Has
  <2>3. \A e, q : Has(queue[q], e)' <=> Has(queue[q], e)
    BY <1>1 DEF Has
  <2>4. Once(free)' /\ \A q \in Queues : Once(queue[q])'
    BY <1>1 DEF IInv, ListsApart, Once
  <2> QED BY <1>1, <2>1, <2>2, <2>3, <2>4 DEF IInv, ListsApart
<1>4. QueuesHold'
  BY <1>1 DEF IInv, QueuesHold, QueueHolds
<1>5. \A u \in Threads : KeepsCompletion(u)
  BY DEF Keeps, KeepsCompletion
<1>6. CompletionsAre' /\ LateFinite' /\ Counted'
  BY <1>1, <1>5, CountsKept
<1> QED
  BY <1>2, <1>3, <1>4, <1>6

\* Who the threads are stays so when the step of the one that moves is such.
LEMMA ThreadsKept ==
  ASSUME ThreadsAre, NEW t \in Threads, config' = config,
         \A u \in Threads : u # t => thread'[u] = thread[u],
         thread'[t].pc # "idle" => t \in config.threads,
         t \in Callbacks => /\ thread'[t].pc \in Adding \cup {"idle"}
                            /\ config.progress => thread'[t].pc = "idle",
         thread'[t].call = "read" => thread'[t].room >= 1
  PROVE  ThreadsAre'
BY DEF ThreadsAre, At

\* The lock is neither taken nor released, and nobody comes behind it.
LEMMA LockKept ==
  ASSUME CriticalHoldsLock, config' = config, config.locking => lock' = lock,
         \A u \in Threads : thread'[u].pc \in Critical => thread[u].pc \in Critical
  PROVE  CriticalHoldsLock'
BY DEF CriticalHoldsLock

\* The lock is taken.
LEMMA LockTaken ==
  ASSUME Types, CriticalHoldsLock, NEW t \in Threads, Acquire(t), config' = config,
         \A u \in Threads : u # t => thread'[u] = thread[u]
  PROVE  CriticalHoldsLock' /\ lock' \in Threads \cup {"free"}
<1>1. CASE config.locking
  <2>1. lock = "free" /\ lock' = t
    BY <1>1 DEF Acquire
  <2>2. \A u \in Threads : thread[u].pc \notin Critical
    BY <1>1, <2>1, ThreadsAssumption DEF CriticalHoldsLock
  <2> QED BY <2>1, <2>2 DEF CriticalHoldsLock
<1>2. CASE ~config.locking
  BY <1>2 DEF Acquire, CriticalHoldsLock, Types, FieldsOK
<1> QED
  BY <1>1, <1>2

\* The lock is released, by a thread that goes out.
LEMMA LockReleased ==
  ASSUME Types, CriticalHoldsLock, NEW t \in Threads, Release, config' = config,
         thread[t].pc \in Critical, thread'[t].pc \notin Critical,
         \A u \in Threads : u # t => thread'[u] = thread[u]
  PROVE  CriticalHoldsLock' /\ lock' \in Threads \cup {"free"}
<1>1. config.locking => \A u \in Threads : thread'[u].pc \notin Critical
  BY DEF CriticalHoldsLock
<1>2. lock' \in Threads \cup {"free"}
  BY DEF Release, Types, FieldsOK
<1> QED
  BY <1>1, <1>2 DEF CriticalHoldsLock

\* The signals, the queue and who sleeps are left alone.
LEMMA SpinKept ==
  ASSUME IInv, UNCHANGED <<config, handle, cond, queue>>,
         \A u \in Apps : \/ thread'[u] = thread[u]
                         \/ thread[u].pc # "asleep" /\ thread'[u].pc \notin {"sleep_lock", "asleep"},
         \A c \in Threads : At(c, "signal") => thread'[c].pc = "signal"
  PROVE  SpinnerIs' /\ SpinnersCalled'
<1>1. SpinnerIs'
  <2> SUFFICES ASSUME NEW t \in Apps, Readers' = {t}
               PROVE  /\ thread'[t].pc \in {"sleep_lock", "asleep"} => ~handle' /\ ~config'.progress
                      /\ config'.spin =>
                           /\ At(t, "asleep")' => cond'.locked = thread'[t].ticket + 1
                                                 /\ cond'.released >= thread'[t].ticket
                           /\ ~At(t, "asleep")' => cond'.released >= cond'.locked
                           /\ At(t, "sleep_lock")' /\ queue'["event"] # <<>> =>
                                cond'.released > cond'.locked \/ \E c \in Threads : At(c, "signal")'
    BY DEF SpinnerIs
  <2>1. Readers = {t} /\ config' = config /\ handle' = handle /\ cond' = cond /\ queue' = queue
    BY DEF Readers
  <2>2. CASE thread'[t] = thread[t]
    BY <2>1, <2>2 DEF IInv, SpinnerIs, At
  <2>3. CASE thread[t].pc # "asleep" /\ thread'[t].pc \notin {"sleep_lock", "asleep"}
    BY <2>1, <2>3 DEF IInv, SpinnerIs, At
  <2> QED BY <2>2, <2>3
<1>2. SpinnersCalled'
  BY DEF IInv, SpinnersCalled, SpinnerCalled, At, Readers
<1> QED
  BY <1>1, <1>2

\* The lists and the histories are left alone.
LEMMA TypesKept ==
  ASSUME Types, UNCHANGED <<config, listVars, historyVars, errs>>,
         thread' \in [Threads -> ThreadSet], count' \in Nat, base' \in Int,
         handle' \in BOOLEAN, irq' \in BOOLEAN, lock' \in Threads \cup {"free"},
         cond' \in [locked : Nat, released : Nat]
  PROVE  Types'
<1>1. /\ free' = free /\ queue' = queue /\ entry' = entry /\ errs' = errs /\ config' = config
      /\ issued' = issued /\ linked' = linked /\ delivered' = delivered
      /\ Events' = Events
  BY DEF listVars, historyVars, Events
<1>2. FieldsOK'
  BY <1>1 DEF Types, FieldsOK
<1> QED
  BY <1>1, <1>2 DEF Types

\* A thread that adds nothing goes on to where it adds nothing.
LEMMA Quiet ==
  ASSUME IInv, NEW t \in Threads, NEW r \in ThreadSet, thread' = [thread EXCEPT ![t] = r],
         UNCHANGED <<config, listVars, historyVars, cntrVars>>,
         handle' \in BOOLEAN, irq' \in BOOLEAN, lock' \in Threads \cup {"free"},
         cond' \in [locked : Nat, released : Nat],
         r.comp = thread[t].comp, r.event = thread[t].event,
         thread[t].pc \notin Adding, r.pc \notin Adding
  PROVE  /\ Types' /\ HoldsAre' /\ ListsApart' /\ QueuesHold'
         /\ CompletionsAre' /\ LateFinite' /\ Counted'
<1>1. /\ thread' \in [Threads -> ThreadSet]
      /\ thread'[t] = r
      /\ \A u \in Threads : u # t => thread'[u] = thread[u]
  BY MovesTo DEF IInv
<1>2. count' = count /\ base' = base /\ errs' = errs
  BY DEF cntrVars
<1>3. count \in Nat /\ base \in Int
  BY DEF IInv, Types, FieldsOK
<1>4. Types'
  BY <1>1, <1>2, <1>3, TypesKept DEF IInv
<1>5. \A u \in Threads : Keeps(u)
  <2> SUFFICES ASSUME NEW u \in Threads PROVE Keeps(u)
    OBVIOUS
  <2>1. CASE u = t
    BY <1>1, <2>1 DEF Keeps, Adding, Unlinked, Uncounted
  <2>2. CASE u # t
    BY <1>1, <2>2 DEF Keeps, IInv, CompletionsAre, At
  <2> QED BY <2>1, <2>2
<1>6. count' - base' = count - base
  BY <1>2
<1> QED
  BY <1>2, <1>4, <1>5, <1>6, HandsKept

\* A quiet step of the application's thread that touches nothing else, and
\* neither goes to sleep nor wakes.
LEMMA QuietStep ==
  ASSUME IInv, NEW t \in Apps, NEW r \in ThreadSet, thread' = [thread EXCEPT ![t] = r],
         UNCHANGED <<config, handle, lock, listVars, cond, historyVars, cntrVars>>,
         irq' \in BOOLEAN,
         r.comp = thread[t].comp, r.event = thread[t].event,
         thread[t].pc \notin Adding, r.pc \notin Adding,
         thread[t].pc # "asleep", r.pc \notin {"sleep_lock", "asleep"},
         r.pc \in Critical => thread[t].pc \in Critical,
         r.pc # "idle" => t \in config.threads,
         r.call = "read" => r.room >= 1
  PROVE  IInv'
<1>1. /\ thread' \in [Threads -> ThreadSet]
      /\ thread'[t] = r
      /\ \A u \in Threads : u # t => thread'[u] = thread[u]
  BY MovesTo DEF IInv, Threads
<1>2. /\ handle' \in BOOLEAN /\ lock' \in Threads \cup {"free"}
      /\ cond' \in [locked : Nat, released : Nat]
  BY DEF IInv, Types, FieldsOK
<1>3. /\ Types' /\ HoldsAre' /\ ListsApart' /\ QueuesHold'
      /\ CompletionsAre' /\ LateFinite' /\ Counted'
  BY <1>2, Quiet DEF Threads
<1>4. ThreadsAre'
  BY <1>1, ThreadsKept, ThreadsAssumption DEF IInv, Threads
<1>5. CriticalHoldsLock'
  BY <1>1, LockKept DEF IInv
<1>6. SpinnerIs' /\ SpinnersCalled'
  <2>1. queue' = queue
    BY DEF listVars
  <2>2. \A c \in Threads : At(c, "signal") => thread'[c].pc = "signal"
    BY <1>1 DEF At, Adding, Uncounted
  <2>3. \A u \in Apps : \/ thread'[u] = thread[u]
                        \/ thread[u].pc # "asleep" /\ thread'[u].pc \notin {"sleep_lock", "asleep"}
    BY <1>1 DEF Threads
  <2> QED BY <2>1, <2>2, <2>3, SpinKept
<1> QED
  BY <1>3, <1>4, <1>5, <1>6 DEF IInv

-----------------------------------------------------------------------------
(* The calls and the steps of reading and of waiting for the counter.       *)

\* Where a call that waits or reads begins.
LEMMA MayCallIs ==
  ASSUME IInv, NEW t \in Threads, NEW call, MayCall(t, call)
  PROVE  /\ t \in Apps /\ t \in config.threads /\ Readers \cap {t} = {t}
         /\ thread[t].pc = "idle" /\ thread[t].comp = 0 /\ thread[t].event = 0
<1>1. t \in Apps /\ t \in config.threads /\ thread[t].pc = "idle" /\ t \in Readers
  BY DEF MayCall, Readers, At
<1>2. thread[t].comp = 0 /\ thread[t].event = 0
  BY <1>1 DEF IInv, HoldsAre, At, Adding, Unlinked, Uncounted
<1> QED
  BY <1>1, <1>2

\* Who is in a call of the application is a thread of it.
LEMMA CallerIs ==
  ASSUME IInv, NEW t \in Threads, thread[t].pc \notin Adding, thread[t].pc # "idle"
  PROVE  t \in Apps /\ t \in config.threads
BY DEF IInv, ThreadsAre, At, Threads

\* The record of a thread in a call that begins.
LEMMA BeginsIs ==
  ASSUME NEW p \in Stages, NEW c \in {"none", "read", "readerr", "wait", "reached", "timeout"},
         NEW time \in Times, NEW room \in Nat, NEW threshold \in Nat,
         NEW stage \in Times \cup {"err0", "count", "err", "time"}
  PROVE  [pc |-> p, call |-> c, round |-> 1, time |-> time, room |-> room, got |-> 0,
          threshold |-> threshold, err0 |-> 0, stage |-> stage, comp |-> 0, event |-> 0,
          ticket |-> 0] \in ThreadSet
BY DEF ThreadSet

\* fi_cq_read and fi_cq_sread start a call and touch no list.
LEMMA ReadKeeps == ASSUME IInv, NEW t \in Threads, Read(t) PROVE IInv'
<1>1. PICK time \in config.waits, n \in Counts :
        thread' = [thread EXCEPT ![t] =
          [IdleThread EXCEPT !.pc = "progress", !.call = "read", !.time = time, !.room = n]]
  BY DEF Read
<1>2. PICK r : r = [IdleThread EXCEPT !.pc = "progress", !.call = "read", !.time = time, !.room = n]
  OBVIOUS
<1>3. time \in Times /\ n \in Nat /\ n >= 1
  BY ConfigIs, NumbersAssumption DEF IInv
<1>4. r = [pc |-> "progress", call |-> "read", round |-> 1, time |-> time, room |-> n, got |-> 0,
           threshold |-> 0, err0 |-> 0, stage |-> "none", comp |-> 0, event |-> 0, ticket |-> 0]
  BY <1>2 DEF IdleThread
<1>5. r \in ThreadSet
  BY <1>3, <1>4, BeginsIs DEF Stages, Times
<1>6. /\ t \in Apps /\ t \in config.threads
      /\ thread[t].pc = "idle" /\ thread[t].comp = 0 /\ thread[t].event = 0
  BY MayCallIs DEF Read
<1>7. irq' \in BOOLEAN /\ UNCHANGED <<config, handle, lock, listVars, cond, historyVars, cntrVars>>
  BY DEF Read, IInv, Types, FieldsOK
<1>8. /\ r.pc = "progress" /\ r.comp = 0 /\ r.event = 0 /\ r.call = "read" /\ r.room >= 1
  BY <1>3, <1>4
<1>9. /\ thread[t].pc \notin Adding /\ r.pc \notin Adding /\ r.pc \notin Critical
  BY <1>6, <1>8 DEF Adding, Unlinked, Uncounted, Critical
<1>10. thread' = [thread EXCEPT ![t] = r]
  BY <1>1, <1>2
<1> QED
  BY <1>5, <1>6, <1>7, <1>8, <1>9, <1>10, QuietStep

\* So does fi_cq_readerr, which goes straight to the lock.
LEMMA ReadErrKeeps == ASSUME IInv, NEW t \in Threads, ReadErr(t) PROVE IInv'
<1>1. PICK r : r = [IdleThread EXCEPT !.pc = "take_lock", !.call = "readerr", !.room = 1]
  OBVIOUS
<1>2. r = [pc |-> "take_lock", call |-> "readerr", round |-> 1, time |-> "none", room |-> 1, got |-> 0,
           threshold |-> 0, err0 |-> 0, stage |-> "none", comp |-> 0, event |-> 0, ticket |-> 0]
  BY <1>1 DEF IdleThread
<1>3. r \in ThreadSet
  BY <1>2, BeginsIs DEF Stages, Times
<1>4. /\ t \in Apps /\ t \in config.threads
      /\ thread[t].pc = "idle" /\ thread[t].comp = 0 /\ thread[t].event = 0
  BY MayCallIs DEF ReadErr
<1>5. /\ irq' \in BOOLEAN /\ thread' = [thread EXCEPT ![t] = r]
      /\ UNCHANGED <<config, handle, lock, listVars, cond, historyVars, cntrVars>>
  BY <1>1 DEF ReadErr, IInv, Types, FieldsOK
<1>6. /\ r.pc = "take_lock" /\ r.comp = 0 /\ r.event = 0 /\ r.call = "readerr"
  BY <1>2
<1>7. /\ thread[t].pc \notin Adding /\ r.pc \notin Adding /\ r.pc \notin Critical
  BY <1>4, <1>6 DEF Adding, Unlinked, Uncounted, Critical
<1> QED
  BY <1>3, <1>4, <1>5, <1>6, <1>7, QuietStep

\* dpa_cntr_wait notes the threshold and the errors it starts from.
LEMMA CntrWaitKeeps == ASSUME IInv, NEW t \in Threads, CntrWait(t) PROVE IInv'
<1>1. PICK time \in config.waits, n \in Thresholds :
        thread' = [thread EXCEPT ![t] =
          [IdleThread EXCEPT !.pc = "progress", !.call = "wait", !.stage = "err0",
                             !.time = time, !.threshold = n]]
  BY DEF CntrWait
<1>2. PICK r : r = [IdleThread EXCEPT !.pc = "progress", !.call = "wait", !.stage = "err0",
                                      !.time = time, !.threshold = n]
  OBVIOUS
<1>3. time \in Times /\ n \in Nat
  BY ConfigIs, NumbersAssumption DEF IInv
<1>4. r = [pc |-> "progress", call |-> "wait", round |-> 1, time |-> time, room |-> 0, got |-> 0,
           threshold |-> n, err0 |-> 0, stage |-> "err0", comp |-> 0, event |-> 0, ticket |-> 0]
  BY <1>2 DEF IdleThread
<1>5. r \in ThreadSet
  BY <1>3, <1>4, BeginsIs DEF Stages, Times
<1>6. /\ t \in Apps /\ t \in config.threads
      /\ thread[t].pc = "idle" /\ thread[t].comp = 0 /\ thread[t].event = 0
  BY MayCallIs DEF CntrWait
<1>7. /\ irq' \in BOOLEAN /\ thread' = [thread EXCEPT ![t] = r]
      /\ UNCHANGED <<config, handle, lock, listVars, cond, historyVars, cntrVars>>
  BY <1>1, <1>2 DEF CntrWait, IInv, Types, FieldsOK
<1>8. /\ r.pc = "progress" /\ r.comp = 0 /\ r.event = 0 /\ r.call = "wait"
  BY <1>4
<1>9. /\ thread[t].pc \notin Adding /\ r.pc \notin Adding /\ r.pc \notin Critical
  BY <1>6, <1>8 DEF Adding, Unlinked, Uncounted, Critical
<1> QED
  BY <1>5, <1>6, <1>7, <1>8, <1>9, QuietStep

\* A step in a call that changes where the thread is, and the rest of its
\* record in ways that do not matter here.
LEMMA CallGoesOn ==
  ASSUME IInv, NEW t \in Threads, NEW r \in ThreadSet, thread' = [thread EXCEPT ![t] = r],
         UNCHANGED <<config, handle, irq, lock, listVars, cond, historyVars, cntrVars>>,
         thread[t].pc \in {"progress", "interrupt", "wake_lock"},
         r.pc \in {"progress", "interrupt", "take_lock", "idle"},
         r.comp = thread[t].comp, r.event = thread[t].event,
         r.call = "read" => thread[t].call = "read" /\ r.room = thread[t].room
  PROVE  IInv'
<1>1. /\ thread[t].pc \notin Adding /\ r.pc \notin Adding /\ r.pc \notin Critical
      /\ thread[t].pc # "idle"
  BY DEF Adding, Unlinked, Uncounted, Critical
<1>2. t \in Apps /\ t \in config.threads
  BY <1>1, CallerIs
<1>3. r.call = "read" => r.room >= 1
  BY DEF IInv, ThreadsAre
<1>4. irq' \in BOOLEAN
  BY DEF IInv, Types, FieldsOK
<1> QED
  BY <1>1, <1>2, <1>3, <1>4, QuietStep

\* In a call that adds nothing a thread holds nothing.
LEMMA EmptyHanded ==
  ASSUME IInv, NEW t \in Threads, thread[t].pc \notin Adding
  PROVE  thread[t].comp = 0 /\ thread[t].event = 0
BY DEF IInv, HoldsAre, At, Adding, Unlinked

\* A thread outside every call is well typed.
LEMMA IdleIs == IdleThread \in ThreadSet
BY DEF IdleThread, ThreadSet, Stages, Times

\* make_queue_progress ends: the wait on the interrupt or the lock is next.
LEMMA ProgressEndKeeps == ASSUME IInv, NEW t \in Threads, ProgressEnd(t) PROVE IInv'
<1>1. PICK left \in TimeLeft(TimeGiven(t)) :
        thread' = [thread EXCEPT ![t] =
          IF handle THEN [@ EXCEPT !.pc = "interrupt", !.stage = left]
          ELSE [@ EXCEPT !.pc = "take_lock"]]
  BY DEF ProgressEnd
<1>2. PICK r : r = IF handle THEN [thread[t] EXCEPT !.pc = "interrupt", !.stage = left]
                   ELSE [thread[t] EXCEPT !.pc = "take_lock"]
  OBVIOUS
<1>3. thread[t] \in ThreadSet /\ thread[t].time \in Times
  BY FieldsAre DEF IInv
<1>4. left \in Times
  BY <1>3 DEF TimeLeft, TimeGiven, Times
<1>5. r \in ThreadSet
  BY <1>2, <1>3, <1>4 DEF ThreadSet, Stages
<1>6. /\ r.pc \in {"interrupt", "take_lock"} /\ r.comp = thread[t].comp /\ r.event = thread[t].event
      /\ r.call = thread[t].call /\ r.room = thread[t].room
  BY <1>2, <1>3 DEF ThreadSet
<1>7. /\ thread' = [thread EXCEPT ![t] = r] /\ thread[t].pc = "progress"
      /\ UNCHANGED <<config, handle, irq, lock, listVars, cond, historyVars, cntrVars>>
  BY <1>1, <1>2 DEF ProgressEnd, At
<1> QED
  BY <1>5, <1>6, <1>7, CallGoesOn

\* wait_cq_interrupt ends without an interrupt, by a timeout or a failure.
LEMMA InterruptEndKeeps ==
  ASSUME IInv, NEW t \in Threads, InterruptTimeout(t) \/ InterruptFails(t) PROVE IInv'
<1>1. PICK r : r = [thread[t] EXCEPT !.pc = "take_lock", !.stage = "none"]
  OBVIOUS
<1>2. thread[t] \in ThreadSet
  BY FieldsAre DEF IInv
<1>3. r \in ThreadSet
  BY <1>1, <1>2 DEF ThreadSet, Stages, Times
<1>4. /\ r.pc = "take_lock" /\ r.comp = thread[t].comp /\ r.event = thread[t].event
      /\ r.call = thread[t].call /\ r.room = thread[t].room
  BY <1>1, <1>2 DEF ThreadSet
<1>5. /\ thread' = [thread EXCEPT ![t] = r] /\ thread[t].pc = "interrupt"
      /\ UNCHANGED <<config, handle, irq, lock, listVars, cond, historyVars, cntrVars>>
  BY <1>1 DEF InterruptTimeout, InterruptFails, At
<1> QED
  BY <1>3, <1>4, <1>5, CallGoesOn

\* fastlock_wait takes the lock back and cq_wait releases it at once, or leaves
\* it taken where there is no lock.
LEMMA WakeLockKeeps == ASSUME IInv, NEW t \in Threads, WakeLock(t) PROVE IInv'
<1>1. PICK r : r = [thread[t] EXCEPT !.pc = "take_lock", !.ticket = 0]
  OBVIOUS
<1>2. thread[t] \in ThreadSet
  BY FieldsAre DEF IInv
<1>3. r \in ThreadSet
  BY <1>1, <1>2 DEF ThreadSet, Stages
<1>4. /\ r.pc = "take_lock" /\ r.comp = thread[t].comp /\ r.event = thread[t].event
      /\ r.call = thread[t].call /\ r.room = thread[t].room
  BY <1>1, <1>2 DEF ThreadSet
<1>5. /\ thread' = [thread EXCEPT ![t] = r] /\ thread[t].pc = "wake_lock"
      /\ UNCHANGED <<config, handle, irq, listVars, cond, historyVars, cntrVars>>
      /\ lock' \in Threads \cup {"free"} /\ (config.locking => lock' = lock)
  BY <1>1 DEF WakeLock, At
<1>6. /\ thread' \in [Threads -> ThreadSet]
      /\ thread'[t] = r
      /\ \A u \in Threads : u # t => thread'[u] = thread[u]
  BY <1>3, <1>5, MovesTo DEF IInv
<1>7. /\ thread[t].pc \notin Adding /\ r.pc \notin Adding /\ thread[t].pc # "idle"
      /\ r.pc \notin Critical
  BY <1>4, <1>5 DEF Adding, Unlinked, Uncounted, Critical
<1>8. t \in Apps /\ t \in config.threads
  BY <1>7, CallerIs
<1>9. CriticalHoldsLock'
  BY <1>5, <1>6, <1>7, LockKept DEF IInv
<1>10. handle' \in BOOLEAN /\ irq' \in BOOLEAN /\ cond' \in [locked : Nat, released : Nat]
  BY <1>5 DEF IInv, Types, FieldsOK
<1>11. /\ Types' /\ HoldsAre' /\ ListsApart' /\ QueuesHold'
       /\ CompletionsAre' /\ LateFinite' /\ Counted'
  BY <1>3, <1>4, <1>5, <1>7, <1>10, Quiet
<1>12. ThreadsAre'
  <2>1. r.call = "read" => r.room >= 1
    BY <1>4 DEF IInv, ThreadsAre
  <2> QED BY <1>5, <1>6, <1>8, <2>1, ThreadsKept, ThreadsAssumption DEF IInv
<1>13. SpinnerIs' /\ SpinnersCalled'
  <2>1. queue' = queue
    BY <1>5 DEF listVars
  <2>2. \A c \in Threads : At(c, "signal") => thread'[c].pc = "signal"
    BY <1>5, <1>6 DEF At
  <2>3. \A u \in Apps : \/ thread'[u] = thread[u]
                        \/ thread[u].pc # "asleep" /\ thread'[u].pc \notin {"sleep_lock", "asleep"}
    BY <1>4, <1>5, <1>6 DEF Threads
  <2> QED BY <1>5, <2>1, <2>2, <2>3, SpinKept
<1> QED
  BY <1>9, <1>11, <1>12, <1>13 DEF IInv

\* A step of the loop of dpa_cntr_wait reads and changes no counter.
LEMMA CntrStepKeeps == ASSUME IInv, NEW t \in Threads, CntrStep(t) PROVE IInv'
<1>1. /\ thread[t].pc = "progress" /\ thread[t].call = "wait"
      /\ UNCHANGED <<config, handle, irq, lock, listVars, cond, historyVars, cntrVars>>
  BY DEF CntrStep, At
<1>2. thread[t].comp = 0 /\ thread[t].event = 0
  BY <1>1, EmptyHanded DEF Adding, Unlinked, Uncounted
<1>3. thread[t] \in ThreadSet
  BY FieldsAre DEF IInv
<1>4. ASSUME NEW time, EndWait(t, time) PROVE IInv'
  <2>1. PICK r : r = [IdleThread EXCEPT !.call = Result(t, time)]
    OBVIOUS
  <2>2. Result(t, time) \in {"timeout", "reached"}
    BY DEF Result
  <2>3. r \in ThreadSet /\ r.pc = "idle" /\ r.comp = 0 /\ r.event = 0 /\ r.call # "read"
    BY <2>1, <2>2 DEF IdleThread, ThreadSet, Stages, Times
  <2>4. thread' = [thread EXCEPT ![t] = r]
    BY <1>4, <2>1 DEF EndWait
  <2> QED BY <1>1, <1>2, <2>3, <2>4, CallGoesOn
<1>5. ASSUME NEW s \in {"count", "err", "time"}, Stage(t, s) PROVE IInv'
  <2>1. PICK r : r = [thread[t] EXCEPT !.stage = s]
    OBVIOUS
  <2>2. r \in ThreadSet
    BY <1>3, <2>1 DEF ThreadSet
  <2>3. /\ r.pc = "progress" /\ r.comp = 0 /\ r.event = 0 /\ r.call = "wait"
    BY <1>1, <1>2, <1>3, <2>1 DEF ThreadSet
  <2>4. thread' = [thread EXCEPT ![t] = r]
    BY <1>5, <2>1 DEF Stage
  <2> QED BY <1>1, <1>2, <2>2, <2>3, <2>4, CallGoesOn
<1>6. ASSUME thread' = [thread EXCEPT ![t].stage = "count", ![t].err0 = errs] PROVE IInv'
  <2>1. PICK r : r = [thread[t] EXCEPT !.stage = "count", !.err0 = errs]
    OBVIOUS
  <2>2. r \in ThreadSet
    BY <1>3, <2>1 DEF ThreadSet, IInv, Types, FieldsOK
  <2>3. /\ r.pc = "progress" /\ r.comp = 0 /\ r.event = 0 /\ r.call = "wait"
    BY <1>1, <1>2, <1>3, <2>1 DEF ThreadSet
  <2>4. thread' = [thread EXCEPT ![t] = r]
    BY <1>6, <2>1
  <2> QED BY <1>1, <1>2, <2>2, <2>3, <2>4, CallGoesOn
<1> QED
  BY <1>4, <1>5, <1>6 DEF CntrStep

\* cq_lock of a reader: nobody else is then between lock and release.
LEMMA TakeLockKeeps == ASSUME IInv, NEW t \in Threads, TakeLock(t) PROVE IInv'
<1>1. PICK r : r = [thread[t] EXCEPT !.pc = "take"]
  OBVIOUS
<1>2. thread[t] \in ThreadSet
  BY FieldsAre DEF IInv
<1>3. r \in ThreadSet
  BY <1>1, <1>2 DEF ThreadSet, Stages
<1>4. /\ r.pc = "take" /\ r.comp = thread[t].comp /\ r.event = thread[t].event
      /\ r.call = thread[t].call /\ r.room = thread[t].room
  BY <1>1, <1>2 DEF ThreadSet
<1>5. /\ thread' = [thread EXCEPT ![t] = r] /\ thread[t].pc = "take_lock"
      /\ UNCHANGED <<config, handle, irq, listVars, cond, historyVars, cntrVars>> /\ Acquire(t)
  BY <1>1 DEF TakeLock, At, Goto
<1>6. /\ thread' \in [Threads -> ThreadSet]
      /\ thread'[t] = r
      /\ \A u \in Threads : u # t => thread'[u] = thread[u]
  BY <1>3, <1>5, MovesTo DEF IInv
<1>7. CriticalHoldsLock' /\ lock' \in Threads \cup {"free"}
  BY <1>5, <1>6, LockTaken DEF IInv
<1>8. /\ thread[t].pc \notin Adding /\ r.pc \notin Adding /\ thread[t].pc # "idle"
  BY <1>4, <1>5 DEF Adding, Unlinked, Uncounted
<1>9. t \in Apps /\ t \in config.threads
  BY <1>8, CallerIs
<1>10. handle' \in BOOLEAN /\ irq' \in BOOLEAN /\ cond' \in [locked : Nat, released : Nat]
  BY <1>5 DEF IInv, Types, FieldsOK
<1>11. /\ Types' /\ HoldsAre' /\ ListsApart' /\ QueuesHold'
       /\ CompletionsAre' /\ LateFinite' /\ Counted'
  BY <1>3, <1>4, <1>5, <1>7, <1>8, <1>10, Quiet
<1>12. ThreadsAre'
  <2>1. r.call = "read" => r.room >= 1
    BY <1>4 DEF IInv, ThreadsAre
  <2> QED BY <1>5, <1>6, <1>9, <2>1, ThreadsKept, ThreadsAssumption DEF IInv
<1>13. SpinnerIs' /\ SpinnersCalled'
  <2>1. queue' = queue
    BY <1>5 DEF listVars
  <2>2. \A c \in Threads : At(c, "signal") => thread'[c].pc = "signal"
    BY <1>5, <1>6 DEF At
  <2>3. \A u \in Apps : \/ thread'[u] = thread[u]
                        \/ thread[u].pc # "asleep" /\ thread'[u].pc \notin {"sleep_lock", "asleep"}
    BY <1>4, <1>5, <1>6 DEF Threads
  <2> QED BY <1>5, <2>1, <2>2, <2>3, SpinKept
<1> QED
  BY <1>7, <1>11, <1>12, <1>13 DEF IInv

\* A thread in a call is the only reader when there is one.
LEMMA OnlyReader ==
  ASSUME IInv, NEW t \in Threads, thread[t].pc \notin Adding, thread[t].pc # "idle",
         NEW a \in Apps, Readers = {a}
  PROVE  a = t
BY CallerIs DEF Readers

\* The read returns, makes progress again, or goes to sleep: it has then seen
\* the queue empty.
LEMMA TakeEndKeeps == ASSUME IInv, NEW t \in Threads, TakeEnd(t) PROVE IInv'
<1>1. PICK r : r = IF ~WaitsNow(t) THEN IdleThread
                   ELSE [thread[t] EXCEPT !.round = 2,
                           !.pc = IF config.progress \/ handle THEN "progress" ELSE "sleep_lock"]
  OBVIOUS
<1>2. thread[t] \in ThreadSet
  BY FieldsAre DEF IInv
<1>3. r \in ThreadSet
  <2>1. \A p \in Stages : [thread[t] EXCEPT !.round = 2, !.pc = p] \in ThreadSet
    BY <1>2, ZenonT(30) DEF ThreadSet
  <2>2. PICK p \in Stages : p = IF config.progress \/ handle THEN "progress" ELSE "sleep_lock"
    BY DEF Stages
  <2>3. CASE ~WaitsNow(t)
    BY <1>1, <2>3, IdleIs
  <2>4. CASE WaitsNow(t)
    <3>1. r = [thread[t] EXCEPT !.round = 2, !.pc = p]
      BY <1>1, <2>2, <2>4, Zenon
    <3> QED BY <2>1, <3>1
  <2> QED BY <2>3, <2>4
<1>4. /\ thread' = [thread EXCEPT ![t] = r] /\ thread[t].pc = "take"
      /\ UNCHANGED <<config, handle, irq, listVars, cond, historyVars, cntrVars>> /\ Release
      /\ thread[t].got = thread[t].room \/ queue[Source(t)] = <<>>
  BY <1>1 DEF TakeEnd, At
<1>5. /\ thread[t].pc \notin Adding /\ thread[t].pc # "idle" /\ thread[t].pc \in Critical
  BY <1>4 DEF Adding, Unlinked, Uncounted, Critical
<1>6. thread[t].comp = 0 /\ thread[t].event = 0
  BY <1>5, EmptyHanded
<1>7. /\ r.pc \in {"idle", "progress", "sleep_lock"} /\ r.comp = 0 /\ r.event = 0
      /\ r.call = "read" => thread[t].call = "read" /\ r.room = thread[t].room
      /\ r.pc = "sleep_lock" => ~config.progress /\ ~handle /\ WaitsNow(t)
  BY <1>1, <1>2, <1>6 DEF ThreadSet, IdleThread
<1>8. r.pc \notin Adding /\ r.pc \notin Critical
  BY <1>7 DEF Adding, Unlinked, Uncounted, Critical
<1>9. /\ thread' \in [Threads -> ThreadSet]
      /\ thread'[t] = r
      /\ \A u \in Threads : u # t => thread'[u] = thread[u]
  BY <1>3, <1>4, MovesTo DEF IInv
<1>10. CriticalHoldsLock' /\ lock' \in Threads \cup {"free"}
  BY <1>4, <1>5, <1>8, <1>9, LockReleased DEF IInv
<1>11. t \in Apps /\ t \in config.threads
  BY <1>5, CallerIs
<1>12. handle' \in BOOLEAN /\ irq' \in BOOLEAN /\ cond' \in [locked : Nat, released : Nat]
  BY <1>4 DEF IInv, Types, FieldsOK
<1>13. /\ Types' /\ HoldsAre' /\ ListsApart' /\ QueuesHold'
       /\ CompletionsAre' /\ LateFinite' /\ Counted'
  BY <1>3, <1>4, <1>5, <1>6, <1>7, <1>8, <1>10, <1>12, Quiet
<1>14. ThreadsAre'
  <2>1. r.call = "read" => r.room >= 1
    BY <1>7 DEF IInv, ThreadsAre
  <2> QED BY <1>4, <1>9, <1>11, <2>1, ThreadsKept, ThreadsAssumption DEF IInv
<1>15. config' = config /\ handle' = handle /\ cond' = cond /\ queue' = queue
  BY <1>4 DEF listVars
<1>16. ASSUME NEW a \in Apps, Readers = {a}
       PROVE  /\ a = t /\ thread'[a].pc # "asleep"
              /\ thread'[a].pc = "sleep_lock" => ~handle /\ ~config.progress /\ queue["event"] = <<>>
              /\ config.spin => cond.released >= cond.locked
  <2>1. a = t
    BY <1>5, <1>16, OnlyReader
  <2>2. config.spin => cond.released >= cond.locked
    BY <1>4, <1>16, <2>1 DEF IInv, SpinnerIs, At
  <2>3. ASSUME r.pc = "sleep_lock" PROVE queue["event"] = <<>>
    <3>1. thread[t].call = "read" /\ thread[t].got = 0
      BY <1>7, <2>3 DEF WaitsNow
    <3>2. thread[t].room >= 1
      BY <3>1 DEF IInv, ThreadsAre
    <3> QED BY <1>4, <3>1, <3>2 DEF Source
  <2> QED BY <1>7, <1>9, <2>1, <2>2, <2>3
<1>17. SpinnerIs'
  BY <1>15, <1>16 DEF SpinnerIs, At, Readers
<1>18. SpinnersCalled'
  BY <1>15, <1>16 DEF SpinnersCalled, SpinnerCalled, At, Readers
<1> QED
  BY <1>10, <1>13, <1>14, <1>17, <1>18 DEF IInv

\* To sleep and back: all but where the only reader is, and its ticket.
LEMMA SleepStep ==
  ASSUME IInv, NEW t \in Threads, NEW r \in ThreadSet, thread' = [thread EXCEPT ![t] = r],
         UNCHANGED <<config, handle, irq, listVars, historyVars, cntrVars>>,
         lock' \in Threads \cup {"free"}, config.locking => lock' = lock,
         cond' \in [locked : Nat, released : Nat],
         thread[t].pc \in {"sleep_lock", "asleep"}, r.pc \in {"asleep", "wake_lock"},
         r.comp = thread[t].comp, r.event = thread[t].event,
         r.call = thread[t].call, r.room = thread[t].room
  PROVE  /\ Types' /\ ThreadsAre' /\ CriticalHoldsLock'
         /\ HoldsAre' /\ ListsApart' /\ QueuesHold'
         /\ CompletionsAre' /\ LateFinite' /\ Counted'
         /\ thread'[t] = r
         /\ config' = config /\ handle' = handle /\ queue' = queue
         /\ \A u \in Threads : u # t => thread'[u] = thread[u]
         /\ \A a \in Apps : Readers' = {a} => a = t
<1>1. /\ thread' \in [Threads -> ThreadSet]
      /\ thread'[t] = r
      /\ \A u \in Threads : u # t => thread'[u] = thread[u]
  BY MovesTo DEF IInv
<1>2. /\ thread[t].pc \notin Adding /\ thread[t].pc # "idle" /\ r.pc \notin Critical
      /\ r.pc \notin Adding
  BY DEF Adding, Unlinked, Uncounted, Critical
<1>3. t \in Apps /\ t \in config.threads
  BY <1>2, CallerIs
<1>4. handle' \in BOOLEAN /\ irq' \in BOOLEAN
  BY DEF IInv, Types, FieldsOK
<1>5. /\ Types' /\ HoldsAre' /\ ListsApart' /\ QueuesHold'
      /\ CompletionsAre' /\ LateFinite' /\ Counted'
  BY <1>2, <1>4, Quiet
<1>6. ThreadsAre'
  <2>1. r.call = "read" => r.room >= 1
    BY DEF IInv, ThreadsAre
  <2> QED BY <1>1, <1>3, <2>1, ThreadsKept, ThreadsAssumption DEF IInv
<1>7. CriticalHoldsLock'
  BY <1>1, <1>2, LockKept DEF IInv
<1>8. \A a \in Apps : Readers' = {a} => a = t
  BY <1>2, OnlyReader DEF Readers
<1> QED
  BY <1>1, <1>5, <1>6, <1>7, <1>8 DEF listVars

\* cq_wait goes to sleep: the ticket it draws is counted as locked.
LEMMA SleepKeeps == ASSUME IInv, NEW t \in Threads, Sleep(t) PROVE IInv'
<1>1. PICK r : r = [thread[t] EXCEPT !.pc = "asleep", !.ticket = cond.locked]
  OBVIOUS
<1>2. thread[t] \in ThreadSet /\ cond \in [locked : Nat, released : Nat]
  BY FieldsAre DEF IInv, Types, FieldsOK
<1>3. r \in ThreadSet
  BY <1>1, <1>2 DEF ThreadSet, Stages
<1>4. /\ r.pc = "asleep" /\ r.comp = thread[t].comp /\ r.event = thread[t].event
      /\ r.call = thread[t].call /\ r.room = thread[t].room /\ r.ticket = cond.locked
  BY <1>1, <1>2 DEF ThreadSet
<1>5. /\ thread' = [thread EXCEPT ![t] = r] /\ thread[t].pc = "sleep_lock"
      /\ UNCHANGED <<config, handle, irq, listVars, historyVars, cntrVars>>
      /\ lock' \in Threads \cup {"free"} /\ (config.locking => lock' = lock)
  BY <1>1 DEF Sleep, At
<1>6. /\ cond' \in [locked : Nat, released : Nat]
      /\ config.spin => cond'.locked = cond.locked + 1 /\ cond'.released = cond.released
      /\ cond.locked \in Nat /\ cond.released \in Nat
  BY <1>2 DEF Sleep
<1>7. /\ Types' /\ ThreadsAre' /\ CriticalHoldsLock'
      /\ HoldsAre' /\ ListsApart' /\ QueuesHold'
      /\ CompletionsAre' /\ LateFinite' /\ Counted'
      /\ thread'[t] = r
      /\ config' = config /\ handle' = handle /\ queue' = queue
      /\ \A u \in Threads : u # t => thread'[u] = thread[u]
      /\ \A a \in Apps : Readers' = {a} => a = t
  BY <1>3, <1>4, <1>5, <1>6, SleepStep
<1>8. ASSUME t \in Apps, Readers = {t}
      PROVE  /\ ~handle /\ ~config.progress
             /\ config.spin =>
                  /\ cond.released >= cond.locked
                  /\ queue["event"] # <<>> =>
                       cond.released > cond.locked \/ \E c \in Threads : At(c, "signal")
  BY <1>5, <1>8 DEF IInv, SpinnerIs, At
<1>9. SpinnerIs'
  BY <1>4, <1>6, <1>7, <1>8 DEF SpinnerIs, At, Readers
<1>10. \A c \in Threads : At(c, "signal") => At(c, "signal")'
  BY <1>5, <1>7 DEF At
<1>11. SpinnersCalled'
  BY <1>4, <1>6, <1>7, <1>8, <1>10 DEF SpinnersCalled, SpinnerCalled, Readers
<1> QED
  BY <1>7, <1>9, <1>11 DEF IInv

\* A thread wakes, by the signal it waits for or, asleep on a pthread condition,
\* without one.
LEMMA WakeKeeps ==
  ASSUME IInv, NEW t \in Threads, SpinEnd(t) \/ SpuriousWakeup(t) PROVE IInv'
<1>1. PICK r : r = [thread[t] EXCEPT !.pc = "wake_lock"]
  OBVIOUS
<1>2. thread[t] \in ThreadSet /\ cond \in [locked : Nat, released : Nat]
  BY FieldsAre DEF IInv, Types, FieldsOK
<1>3. r \in ThreadSet
  BY <1>1, <1>2 DEF ThreadSet, Stages
<1>4. /\ r.pc = "wake_lock" /\ r.comp = thread[t].comp /\ r.event = thread[t].event
      /\ r.call = thread[t].call /\ r.room = thread[t].room
  BY <1>1, <1>2 DEF ThreadSet
<1>5. /\ thread' = [thread EXCEPT ![t] = r] /\ thread[t].pc = "asleep"
      /\ UNCHANGED <<config, handle, irq, lock, listVars, cond, historyVars, cntrVars>>
      /\ config.spin => cond.released > thread[t].ticket
  BY <1>1 DEF SpinEnd, SpuriousWakeup, At, Goto
<1>6. /\ cond' \in [locked : Nat, released : Nat] /\ cond' = cond
      /\ cond.locked \in Nat /\ cond.released \in Nat /\ thread[t].ticket \in Nat
      /\ lock' \in Threads \cup {"free"} /\ lock' = lock
  BY <1>2, <1>5, FieldsAre DEF IInv, Types, FieldsOK
<1>7. /\ Types' /\ ThreadsAre' /\ CriticalHoldsLock'
      /\ HoldsAre' /\ ListsApart' /\ QueuesHold'
      /\ CompletionsAre' /\ LateFinite' /\ Counted'
      /\ thread'[t] = r
      /\ config' = config /\ handle' = handle /\ queue' = queue
      /\ \A u \in Threads : u # t => thread'[u] = thread[u]
      /\ \A a \in Apps : Readers' = {a} => a = t
  BY <1>3, <1>4, <1>5, <1>6, SleepStep
<1>8. t \in Apps /\ Readers = {t} /\ config.spin => cond.released >= cond.locked
  BY <1>5, <1>6 DEF IInv, SpinnerIs, At
<1>9. SpinnerIs'
  BY <1>4, <1>6, <1>7, <1>8 DEF SpinnerIs, At, Readers
<1>10. SpinnersCalled'
  BY <1>4, <1>7 DEF SpinnersCalled, SpinnerCalled, Readers, At
<1> QED
  BY <1>7, <1>9, <1>10 DEF IInv

\* The interrupt is requested or comes, or the counter is set: threads, lists
\* and signals are left alone.
LEMMA StayStep ==
  ASSUME IInv, UNCHANGED <<config, lock, listVars, cond, thread, historyVars, errs>>,
         handle' \in BOOLEAN, irq' \in BOOLEAN, count' \in Nat, base' \in Int,
         count' - base' = count - base
  PROVE  /\ Types' /\ ThreadsAre' /\ CriticalHoldsLock'
         /\ HoldsAre' /\ ListsApart' /\ QueuesHold'
         /\ CompletionsAre' /\ LateFinite' /\ Counted'
<1>1. /\ lock' \in Threads \cup {"free"} /\ cond' \in [locked : Nat, released : Nat]
      /\ thread' \in [Threads -> ThreadSet]
  BY DEF IInv, Types, FieldsOK
<1>2. Types'
  BY <1>1, TypesKept DEF IInv
<1>3. \A u \in Threads : Keeps(u)
  BY DEF Keeps, IInv, CompletionsAre, At
<1>4. /\ HoldsAre' /\ ListsApart' /\ QueuesHold'
      /\ CompletionsAre' /\ LateFinite' /\ Counted'
  BY <1>3, HandsKept
<1>5. ThreadsAre' /\ CriticalHoldsLock'
  BY DEF IInv, ThreadsAre, CriticalHoldsLock, At
<1> QED
  BY <1>2, <1>4, <1>5

\* wait_data makes later reads wait on the interrupt of the queue.
LEMMA WaitDataKeeps == ASSUME IInv, NEW t \in Threads, WaitData(t) PROVE IInv'
<1>1. /\ UNCHANGED <<config, lock, listVars, cond, thread, historyVars, errs>>
      /\ handle' \in BOOLEAN /\ irq' \in BOOLEAN /\ count' \in Nat /\ base' \in Int
      /\ count' = count /\ base' = base
  BY DEF WaitData, cntrVars, IInv, Types, FieldsOK
<1>2. /\ Types' /\ ThreadsAre' /\ CriticalHoldsLock'
      /\ HoldsAre' /\ ListsApart' /\ QueuesHold'
      /\ CompletionsAre' /\ LateFinite' /\ Counted'
  BY <1>1, StayStep
<1>3. t \in Readers /\ thread[t].pc = "idle"
  BY DEF WaitData, MayCall, At
<1>4. SpinnerIs'
  BY <1>1, <1>3 DEF IInv, SpinnerIs, At, Readers, listVars
<1>5. SpinnersCalled'
  BY <1>1 DEF IInv, SpinnersCalled, SpinnerCalled, At, Readers, listVars
<1> QED
  BY <1>2, <1>4, <1>5 DEF IInv

\* The peer triggers the interrupt, which stays triggered until it is taken.
LEMMA TriggerKeeps == ASSUME IInv, Trigger PROVE IInv'
<1>1. /\ UNCHANGED <<config, handle, lock, listVars, cond, thread, historyVars, errs>>
      /\ handle' \in BOOLEAN /\ irq' \in BOOLEAN /\ count' \in Nat /\ base' \in Int
      /\ count' = count /\ base' = base /\ queue' = queue
  BY DEF Trigger, cntrVars, listVars, IInv, Types, FieldsOK
<1>2. /\ Types' /\ ThreadsAre' /\ CriticalHoldsLock'
      /\ HoldsAre' /\ ListsApart' /\ QueuesHold'
      /\ CompletionsAre' /\ LateFinite' /\ Counted'
  BY <1>1, StayStep
<1>3. SpinnerIs' /\ SpinnersCalled'
  BY <1>1, SpinKept DEF At
<1> QED
  BY <1>2, <1>3 DEF IInv

\* fi_cntr_set and fi_cntr_add move the value and the base it counts from alike.
LEMMA CntrSetKeeps == ASSUME IInv, NEW t \in Threads, CntrSet(t) PROVE IInv'
<1>1. PICK v \in {0, count + 1} : base' = base + v - count /\ count' = v
  BY DEF CntrSet
<1>2. count \in Nat /\ base \in Int
  BY DEF IInv, Types, FieldsOK
<1>3. count' \in Nat /\ base' \in Int /\ count' - base' = count - base
  BY <1>1, <1>2
<1>4. /\ UNCHANGED <<config, handle, lock, listVars, cond, thread, historyVars, errs>>
      /\ handle' \in BOOLEAN /\ irq' \in BOOLEAN /\ queue' = queue
  BY DEF CntrSet, listVars, IInv, Types, FieldsOK
<1>5. /\ Types' /\ ThreadsAre' /\ CriticalHoldsLock'
      /\ HoldsAre' /\ ListsApart' /\ QueuesHold'
      /\ CompletionsAre' /\ LateFinite' /\ Counted'
  BY <1>3, <1>4, StayStep
<1>6. SpinnerIs' /\ SpinnersCalled'
  BY <1>4, SpinKept DEF At
<1> QED
  BY <1>5, <1>6 DEF IInv

-----------------------------------------------------------------------------
(* A completion that is added: signals and counts.                          *)

\* A thread is done with its completion: it is out of what is late.
LEMMA HandsEmptied ==
  ASSUME IInv, NEW t \in Threads, UNCHANGED <<listVars, historyVars>>,
         thread[t].pc \in Uncounted, thread'[t].comp = 0, thread'[t].event = 0,
         thread'[t].pc \notin Adding,
         \A u \in Threads : u # t => Keeps(u)
  PROVE  /\ HoldsAre' /\ ListsApart' /\ QueuesHold' /\ CompletionsAre'
         /\ \A kind : Late(kind)' = Late(kind) \ {t}
         /\ \A q \in Queues : PutIn(q)' = PutIn(q)
<1>1. /\ free' = free /\ queue' = queue /\ entry' = entry
      /\ issued' = issued /\ linked' = linked /\ delivered' = delivered
      /\ Events' = Events
  BY DEF listVars, historyVars, Events
<1>2. /\ thread[t].pc # "add_link" /\ thread[t].pc \notin Unlinked
      /\ thread'[t].pc \notin Unlinked /\ thread'[t].pc \notin Uncounted
      /\ thread'[t].pc # "add_link" /\ thread'[t].pc # "count"
      /\ thread'[t].pc # "signal"
  BY DEF Adding, Unlinked, Uncounted
<1>3. Len(issued) \in Nat
  BY DEF IInv, Types, FieldsOK
<1>4. HoldsAre'
  <2> SUFFICES ASSUME NEW u \in Threads
               PROVE  /\ thread'[u].comp # 0 <=> thread'[u].pc \in Adding
                      /\ thread'[u].comp <= Len(issued)
                      /\ thread'[u].event # 0 <=> thread'[u].pc = "add_link"
                      /\ thread'[u].pc = "add_link" =>
                           /\ thread'[u].event \in Events
                           /\ entry[thread'[u].event] = thread'[u].comp
    BY <1>1 DEF HoldsAre, At
  <2>1. CASE u = t
    BY <1>2, <1>3, <2>1
  <2>2. CASE u # t
    BY <2>2 DEF IInv, HoldsAre, Keeps, Adding, At
  <2> QED BY <2>1, <2>2
<1>5. ListsApart'
  <2>1. \A e : Held(e)' <=> Held(e)
    BY <1>2 DEF Held, Keeps, At
  <2>2. \A e : Has(free, e)' <=> Has(free, e)
    BY <1>1 DEF Has
  <2>3. \A e, q : Has(queue[q], e)' <=> Has(queue[q], e)
    BY <1>1 DEF Has
  <2>4. Once(free)' /\ \A q \in Queues : Once(queue[q])'
    BY <1>1 DEF IInv, ListsApart, Once
  <2> QED BY <1>1, <2>1, <2>2, <2>3, <2>4 DEF IInv, ListsApart
<1>6. QueuesHold'
  BY <1>1 DEF IInv, QueuesHold, QueueHolds
<1>7. CompletionsAre'
  <2>1. \A u, w \in Threads :
          thread'[u].comp = thread'[w].comp /\ thread'[u].comp # 0 => u = w
    BY DEF IInv, CompletionsAre, Keeps
  <2>2. \A q \in Queues : \A i \in 1 .. Len(linked[q]) :
          /\ linked[q][i] <= Len(issued)
          /\ \A u \in Threads : thread'[u].pc \in Unlinked => thread'[u].comp # linked[q][i]
    BY <1>2 DEF IInv, CompletionsAre, Keeps
  <2>3. \A u \in Threads : thread'[u].pc = "count" => issued[thread'[u].comp] # "irq"
    BY <1>2 DEF Keeps
  <2> QED BY <1>1, <2>1, <2>2, <2>3 DEF CompletionsAre, At
<1>8. Reported' = Reported
  BY <1>1 DEF Reported
<1>9. NotYetCounted' = NotYetCounted \ {t}
  BY <1>2, <1>8 DEF NotYetCounted, Keeps, Uncounted, At
<1>10. \A kind : Late(kind)' = Late(kind) \ {t}
  BY <1>1, <1>9 DEF Late, Keeps, NotYetCounted
<1>11. \A q \in Queues : PutIn(q)' = PutIn(q)
  BY <1>1, <1>8 DEF PutIn
<1> QED
  BY <1>4, <1>5, <1>6, <1>7, <1>10, <1>11

\* The record of a thread that is done with its completion.
LEMMA AddedIs ==
  ASSUME IInv, NEW t \in Threads, thread[t].pc \in Adding, NEW kind, NEW r, r = Added(t, kind)
  PROVE  /\ r \in ThreadSet
         /\ r.comp = 0 /\ r.event \in {0, thread[t].event}
         /\ r.pc \in {"idle", "take_lock", "progress"}
         /\ t \in Callbacks => r.pc = "idle"
         /\ r.call = "read" => r.room >= 1
         /\ t \in config.threads
<1>1. t \in config.threads /\ thread[t] \in ThreadSet
      /\ (thread[t].call = "read" => thread[t].room >= 1)
  BY FieldsAre DEF IInv, ThreadsAre, At, Adding, Unlinked, Uncounted
<1>2. CASE t \in Callbacks
  <2>1. r = IdleThread
    BY <1>2 DEF Added
  <2> QED BY <1>1, <2>1, IdleIs DEF IdleThread
<1>3. CASE t \notin Callbacks
  <2>1. r = [thread[t] EXCEPT !.comp = 0, !.pc = IF kind = "irq" THEN "take_lock" ELSE "progress",
                              !.stage = IF kind = "irq" THEN "none" ELSE @]
    BY <1>3 DEF Added
  <2>2. r \in ThreadSet
    BY <1>1, <2>1 DEF ThreadSet, Stages, Times
  <2>3. /\ r.comp = 0 /\ r.event = thread[t].event /\ r.pc \in {"take_lock", "progress"}
        /\ r.call = thread[t].call /\ r.room = thread[t].room
    BY <1>1, <2>1 DEF ThreadSet
  <2> QED BY <1>1, <1>3, <2>2, <2>3
<1> QED
  BY <1>2, <1>3

\* dpa_cntr_inc or dpa_cntr_err_inc counts the completion in hand, which is from
\* then on not late.
LEMMA CountKeeps == ASSUME IInv, NEW t \in Threads, Count(t) PROVE IInv'
<1>1. PICK kind : kind = issued[thread[t].comp]
  OBVIOUS
<1>2. PICK r : r = Added(t, kind)
  OBVIOUS
<1>3. /\ thread[t].pc = "count" /\ thread' = [thread EXCEPT ![t] = r]
      /\ count' = count + DoneCount(kind) /\ errs' = (IF kind = "err" THEN errs + 1 ELSE errs)
      /\ base' = base
      /\ UNCHANGED <<config, handle, irq, lock, listVars, cond, historyVars>>
  BY <1>1, <1>2 DEF Count, At
<1>4. thread[t].pc \in Adding /\ thread[t].pc \in Uncounted /\ thread[t].pc # "add_link"
  BY <1>3 DEF Adding, Uncounted
<1>5. thread[t].event = 0 /\ thread[t].comp # 0 /\ thread[t].comp <= Len(issued)
  BY <1>3, <1>4 DEF IInv, HoldsAre, At
<1>6. /\ r \in ThreadSet /\ r.comp = 0 /\ r.event = 0
      /\ r.pc \in {"idle", "take_lock", "progress"} /\ (t \in Callbacks => r.pc = "idle")
      /\ (r.call = "read" => r.room >= 1) /\ t \in config.threads
  BY <1>2, <1>4, <1>5, AddedIs
<1>7. /\ thread' \in [Threads -> ThreadSet]
      /\ thread'[t] = r
      /\ \A u \in Threads : u # t => thread'[u] = thread[u]
  BY <1>3, <1>6, MovesTo DEF IInv
<1>8. r.pc \notin Adding /\ r.pc \notin Critical
  BY <1>6 DEF Adding, Unlinked, Uncounted, Critical
<1>9. \A u \in Threads : u # t => Keeps(u)
  BY <1>7 DEF Keeps, IInv, CompletionsAre, At
<1>10. /\ HoldsAre' /\ ListsApart' /\ QueuesHold' /\ CompletionsAre'
       /\ \A k : Late(k)' = Late(k) \ {t}
       /\ \A q \in Queues : PutIn(q)' = PutIn(q)
  BY <1>3, <1>4, <1>6, <1>7, <1>8, <1>9, HandsEmptied
<1>11. thread[t].comp \in 1 .. Len(issued) /\ kind \in {"ok", "err"} /\ t \in NotYetCounted
  <2>1. thread[t].comp \in 1 .. Len(issued)
    BY <1>5, FieldsAre DEF IInv, Types, FieldsOK
  <2>2. kind \in {"ok", "err", "irq"}
    BY <1>1, <2>1 DEF IInv, Types, FieldsOK
  <2>3. kind # "irq"
    BY <1>1, <1>3 DEF IInv, CompletionsAre, At
  <2>4. thread[t].comp \in Reported
    BY <1>1, <2>1, <2>3 DEF Reported
  <2> QED BY <1>3, <2>1, <2>2, <2>3, <2>4 DEF NotYetCounted, At
<1>12. /\ t \in Late(kind)
       /\ \A k \in {"ok", "err"} : k # kind => t \notin Late(k)
  BY <1>1, <1>11 DEF Late
<1>13. /\ IsFiniteSet(Late("ok")) /\ IsFiniteSet(Late("err"))
       /\ IsFiniteSet(Late("ok") \ {t}) /\ IsFiniteSet(Late("err") \ {t})
  BY FS_RemoveElement DEF IInv, LateFinite
<1>14. /\ Cardinality(Late("ok") \ {t}) = (IF kind = "ok" THEN Cardinality(Late("ok")) - 1
                                          ELSE Cardinality(Late("ok")))
       /\ Cardinality(Late("err") \ {t}) = (IF kind = "err" THEN Cardinality(Late("err")) - 1
                                           ELSE Cardinality(Late("err")))
  BY <1>11, <1>12, <1>13, FS_RemoveElement
<1>15. LateFinite'
  BY <1>10, <1>13 DEF LateFinite
<1>16. Counted'
  <2>1. /\ count - base + Cardinality(Late("ok")) = Cardinality(PutIn("event"))
        /\ errs + Cardinality(Late("err")) = Cardinality(PutIn("error"))
    BY DEF IInv, Counted, Late
  <2>2. /\ Cardinality(Late("ok")) \in Nat /\ Cardinality(Late("err")) \in Nat
        /\ count \in Nat /\ base \in Int /\ errs \in Nat
    BY <1>13, FS_CardinalityType DEF IInv, Types, FieldsOK
  <2>3. /\ count' - base' + Cardinality(Late("ok") \ {t}) = Cardinality(PutIn("event"))
        /\ errs' + Cardinality(Late("err") \ {t}) = Cardinality(PutIn("error"))
    BY <1>3, <1>11, <1>14, <2>1, <2>2 DEF DoneCount
  <2>4. /\ count' - base' + Cardinality(Late("ok")') = Cardinality(PutIn("event")')
        /\ errs' + Cardinality(Late("err")') = Cardinality(PutIn("error")')
    BY <1>10, <2>3 DEF Queues
  <2> QED BY <2>4 DEF Counted, Late
<1>17. Types'
  <2>1. /\ free' = free /\ queue' = queue /\ entry' = entry /\ config' = config
        /\ issued' = issued /\ linked' = linked /\ delivered' = delivered
        /\ Events' = Events
    BY <1>3 DEF listVars, historyVars, Events
  <2>2. count' \in Nat /\ errs' \in Nat /\ base' \in Int
    BY <1>3, <1>11 DEF DoneCount, IInv, Types, FieldsOK
  <2>3. FieldsOK'
    BY <1>3, <1>7, <2>1, <2>2 DEF IInv, Types, FieldsOK
  <2> QED BY <1>7, <2>1, <2>3 DEF IInv, Types
<1>18. ThreadsAre'
  <2>1. t \in Callbacks => /\ thread'[t].pc \in Adding \cup {"idle"}
                           /\ config.progress => thread'[t].pc = "idle"
    BY <1>6, <1>7
  <2> QED BY <1>3, <1>6, <1>7, <2>1, ThreadsKept DEF IInv
<1>19. CriticalHoldsLock'
  BY <1>3, <1>7, <1>8, LockKept DEF IInv
<1>20. SpinnerIs' /\ SpinnersCalled'
  <2>1. queue' = queue
    BY <1>3 DEF listVars
  <2>2. \A c \in Threads : At(c, "signal") => thread'[c].pc = "signal"
    BY <1>3, <1>7 DEF At
  <2>3. \A u \in Apps : \/ thread'[u] = thread[u]
                        \/ thread[u].pc # "asleep" /\ thread'[u].pc \notin {"sleep_lock", "asleep"}
    BY <1>3, <1>6, <1>7 DEF Threads
  <2> QED BY <1>3, <2>1, <2>2, <2>3, SpinKept
<1> QED
  BY <1>10, <1>15, <1>16, <1>17, <1>18, <1>19, <1>20 DEF IInv

\* What a signal does: it is counted, or wakes one of those asleep, or nobody.
LEMMA SignalledIs ==
  ASSUME Types, NEW pcs \in [Threads -> ThreadSet], Signalled(pcs)
  PROVE  /\ thread' \in [Threads -> ThreadSet]
         /\ cond' \in [locked : Nat, released : Nat]
         /\ \A u \in Threads :
              \/ thread'[u] = pcs[u]
              \/ /\ u \in Apps /\ thread[u].pc = "asleep" /\ ~config.spin
                 /\ thread'[u] = [pcs[u] EXCEPT !.pc = "wake_lock"]
         /\ config.spin /\ SignalWanted => /\ cond'.locked = cond.locked
                                           /\ cond'.released = cond.released + 1
         /\ ~(config.spin /\ SignalWanted) => cond' = cond
<1>1. cond \in [locked : Nat, released : Nat]
  BY DEF Types, FieldsOK
<1>2. CASE ~SignalWanted
  BY <1>1, <1>2 DEF Signalled
<1>3. CASE SignalWanted /\ config.spin
  <2>1. thread' = pcs /\ cond' = [cond EXCEPT !.released = cond.released + 1]
    BY <1>3 DEF Signalled, ReleasedBySignal
  <2>2. /\ cond' \in [locked : Nat, released : Nat]
        /\ cond'.locked = cond.locked /\ cond'.released = cond.released + 1
    BY <1>1, <2>1
  <2> QED BY <1>3, <2>1, <2>2
<1>4. CASE SignalWanted /\ ~config.spin /\ Asleep = {}
  BY <1>1, <1>4 DEF Signalled
<1>5. CASE SignalWanted /\ ~config.spin /\ Asleep # {}
  <2>1. PICK w \in Asleep : thread' = [pcs EXCEPT ![w].pc = "wake_lock"]
    BY <1>5 DEF Signalled
  <2>2. w \in Apps /\ w \in Threads /\ thread[w].pc = "asleep"
    BY DEF Asleep, At, Threads
  <2>3. PICK r : r = [pcs[w] EXCEPT !.pc = "wake_lock"]
    OBVIOUS
  <2>4. r \in ThreadSet
    BY <2>2, <2>3 DEF ThreadSet, Stages
  <2>5. thread' = [pcs EXCEPT ![w] = r]
    BY <2>1, <2>3
  <2>6. /\ thread' \in [Threads -> ThreadSet] /\ thread'[w] = r
        /\ \A u \in Threads : u # w => thread'[u] = pcs[u]
    BY <2>2, <2>4, <2>5
  <2>7. cond' = cond
    BY <1>5 DEF Signalled
  <2> QED BY <1>1, <1>5, <2>2, <2>3, <2>6, <2>7
<1> QED
  BY <1>2, <1>3, <1>4, <1>5

\* A reader that spins is better off by a signal: where it is about to sleep
\* or sleeps, signals are counted.
LEMMA SignalSpins ==
  ASSUME IInv, UNCHANGED <<config, handle, queue>>,
         config.spin /\ SignalWanted => /\ cond'.locked = cond.locked
                                        /\ cond'.released = cond.released + 1,
         ~(config.spin /\ SignalWanted) => cond' = cond,
         \A a \in Apps : thread'[a].pc \in {"sleep_lock", "asleep"} => thread'[a] = thread[a],
         config.spin => \A a \in Apps : thread[a].pc = "asleep" => thread'[a] = thread[a]
  PROVE  SpinnerIs' /\ SpinnersCalled'
<1>1. cond.locked \in Nat /\ cond.released \in Nat
  BY DEF IInv, Types, FieldsOK
<1>2. ASSUME NEW a \in Apps, Readers = {a}
      PROVE  /\ thread'[a].pc \in {"sleep_lock", "asleep"} => ~handle /\ ~config.progress
             /\ config.spin =>
                  /\ At(a, "asleep")' => /\ cond'.locked = thread'[a].ticket + 1
                                         /\ cond'.released > thread'[a].ticket
                  /\ ~At(a, "asleep")' => cond'.released >= cond'.locked
                  /\ At(a, "sleep_lock")' => cond'.released > cond'.locked
  <2>1. thread'[a].pc \in {"sleep_lock", "asleep"} => ~handle /\ ~config.progress
    BY <1>2 DEF IInv, SpinnerIs
  <2>2. thread[a].ticket \in Nat
    BY FieldsAre DEF IInv, Threads
  <2>3. ASSUME config.spin, thread'[a].pc = "asleep"
        PROVE  cond'.locked = thread'[a].ticket + 1 /\ cond'.released > thread'[a].ticket
    <3>1. thread'[a] = thread[a] /\ SignalWanted
      BY <2>1, <2>3 DEF SignalWanted
    <3>2. cond.locked = thread[a].ticket + 1 /\ cond.released >= thread[a].ticket
      BY <1>2, <2>3, <3>1 DEF IInv, SpinnerIs, At
    <3> QED BY <1>1, <2>2, <2>3, <3>1, <3>2
  <2>4. ASSUME config.spin, thread'[a].pc # "asleep"
        PROVE  /\ cond'.released >= cond'.locked
               /\ thread'[a].pc = "sleep_lock" => cond'.released > cond'.locked
    <3>1. thread[a].pc # "asleep"
      BY <2>4
    <3>2. cond.released >= cond.locked
      BY <1>2, <2>4, <3>1 DEF IInv, SpinnerIs, At
    <3>3. thread'[a].pc = "sleep_lock" => SignalWanted
      BY <2>1 DEF SignalWanted
    <3> QED BY <1>1, <2>4, <3>2, <3>3
  <2> QED BY <2>1, <2>3, <2>4 DEF At
<1>3. SpinnerIs'
  <2>1. \A a \in Apps : At(a, "asleep")' /\ config.spin /\ Readers = {a} =>
          cond'.released >= thread'[a].ticket
    <3>1. \A a \in Apps : At(a, "asleep")' /\ config.spin => thread'[a].ticket \in Nat
      BY FieldsAre DEF IInv, Threads, At
    <3>2. cond'.released \in Nat
      BY <1>1
    <3> QED BY <1>2, <3>1, <3>2
  <2> QED BY <1>2, <2>1 DEF SpinnerIs, Readers, At
<1>4. SpinnersCalled'
  BY <1>2 DEF SpinnersCalled, SpinnerCalled, Readers, At
<1> QED
  BY <1>3, <1>4

\* Only the thread t and one that is woken move.
LEMMA SignalStep ==
  ASSUME IInv, NEW t \in Threads, NEW r \in ThreadSet, Signalled([thread EXCEPT ![t] = r]),
         UNCHANGED <<config, handle, irq, lock, listVars, historyVars, cntrVars>>,
         thread[t].pc \in {"signal", "idle"},
         r.pc \in {"idle", "take_lock", "progress", "count"},
         t \in Callbacks => r.pc \in {"idle", "count"} /\ (config.progress => r.pc = "idle"),
         r.pc # "idle" => t \in config.threads,
         r.call = "read" => r.room >= 1
  PROVE  /\ Types' /\ ThreadsAre' /\ CriticalHoldsLock' /\ SpinnerIs' /\ SpinnersCalled'
         /\ thread'[t] = r
         /\ \A u \in Threads : u # t => Keeps(u)
<1>1. PICK pcs : pcs = [thread EXCEPT ![t] = r]
  OBVIOUS
<1>2. /\ pcs \in [Threads -> ThreadSet] /\ pcs[t] = r
      /\ \A u \in Threads : u # t => pcs[u] = thread[u]
  BY <1>1 DEF IInv, Types
<1>3. /\ thread' \in [Threads -> ThreadSet]
      /\ cond' \in [locked : Nat, released : Nat]
      /\ \A u \in Threads :
           \/ thread'[u] = pcs[u]
           \/ /\ u \in Apps /\ thread[u].pc = "asleep" /\ ~config.spin
              /\ thread'[u] = [pcs[u] EXCEPT !.pc = "wake_lock"]
      /\ config.spin /\ SignalWanted => /\ cond'.locked = cond.locked
                                        /\ cond'.released = cond.released + 1
      /\ ~(config.spin /\ SignalWanted) => cond' = cond
  BY <1>1, <1>2, SignalledIs DEF IInv
<1>4. thread'[t] = r
  BY <1>2, <1>3
<1>5. ASSUME NEW u \in Threads, u # t
      PROVE  \/ thread'[u] = thread[u]
             \/ /\ u \in Apps /\ thread[u].pc = "asleep" /\ ~config.spin
                /\ thread'[u].pc = "wake_lock" /\ thread'[u].comp = thread[u].comp
                /\ thread'[u].event = thread[u].event
                /\ thread'[u].call = thread[u].call /\ thread'[u].room = thread[u].room
  <2>1. thread[u] \in ThreadSet /\ pcs[u] = thread[u]
    BY <1>2, <1>5, FieldsAre DEF IInv
  <2>2. PICK x : x = thread[u]
    OBVIOUS
  <2>3. PICK y : y = [x EXCEPT !.pc = "wake_lock"]
    OBVIOUS
  <2>4. /\ y.pc = "wake_lock" /\ y.comp = x.comp /\ y.event = x.event
        /\ y.call = x.call /\ y.room = x.room
    BY <2>1, <2>2, <2>3 DEF ThreadSet
  <2> QED BY <1>3, <1>5, <2>1, <2>2, <2>3, <2>4, ZenonT(60)
<1>6. \A u \in Threads : u # t => Keeps(u)
  <2> SUFFICES ASSUME NEW u \in Threads, u # t PROVE Keeps(u)
    OBVIOUS
  <2>1. CASE thread'[u] = thread[u]
    BY <2>1 DEF Keeps, IInv, CompletionsAre, At
  <2>2. CASE thread'[u] # thread[u]
    BY <1>5, <2>2 DEF Keeps, Unlinked, Uncounted
  <2> QED BY <2>1, <2>2
<1>7. Types'
  <2>1. /\ handle' \in BOOLEAN /\ irq' \in BOOLEAN /\ lock' \in Threads \cup {"free"}
        /\ count' \in Nat /\ base' \in Int /\ errs' = errs
    BY DEF cntrVars, IInv, Types, FieldsOK
  <2> QED BY <1>3, <2>1, TypesKept DEF IInv
<1>8. ThreadsAre'
  <2> SUFFICES ASSUME NEW u \in Threads
               PROVE  /\ thread'[u].pc # "idle" => u \in config.threads
                      /\ u \in Callbacks => thread'[u].pc \in Adding \cup {"idle"}
                      /\ u \in Callbacks /\ config.progress => thread'[u].pc = "idle"
                      /\ thread'[u].call = "read" => thread'[u].room >= 1
    BY DEF ThreadsAre, At
  <2>1. CASE u = t
    BY <1>4, <2>1 DEF Adding, Uncounted
  <2>2. CASE u # t /\ thread'[u] = thread[u]
    BY <2>2 DEF IInv, ThreadsAre, At
  <2>3. CASE u # t /\ thread'[u] # thread[u]
    <3>1. u \notin Callbacks
      BY <1>5, <2>3, ThreadsAssumption
    <3> QED BY <1>5, <2>3, <3>1 DEF IInv, ThreadsAre, At
  <2> QED BY <2>1, <2>2, <2>3
<1>9. CriticalHoldsLock'
  <2>1. \A u \in Threads : thread'[u].pc \in Critical => thread[u].pc \in Critical
    BY <1>4, <1>5 DEF Critical
  <2> QED BY <2>1, LockKept DEF IInv
<1>10. SpinnerIs' /\ SpinnersCalled'
  <2>1. queue' = queue
    BY DEF listVars
  <2>2. \A a \in Apps : thread'[a].pc \in {"sleep_lock", "asleep"} => thread'[a] = thread[a]
    BY <1>4, <1>5 DEF Threads
  <2>3. config.spin => \A a \in Apps : thread[a].pc = "asleep" => thread'[a] = thread[a]
    BY <1>5 DEF Threads
  <2> QED BY <1>3, <2>1, <2>2, <2>3, SignalSpins
<1> QED
  BY <1>4, <1>6, <1>7, <1>8, <1>9, <1>10

\* cq_signal after an addition releases one ticket, or wakes one sleeper.
LEMMA SignalKeeps == ASSUME IInv, NEW t \in Threads, Signal(t) PROVE IInv'
<1>1. PICK kind : kind = issued[thread[t].comp]
  OBVIOUS
<1>2. PICK r : r = IF kind = "irq" THEN Added(t, kind) ELSE [thread[t] EXCEPT !.pc = "count"]
  OBVIOUS
<1>3. /\ thread[t].pc = "signal" /\ Signalled([thread EXCEPT ![t] = r])
      /\ UNCHANGED <<config, handle, irq, lock, listVars, historyVars, cntrVars>>
  BY <1>1, <1>2 DEF Signal, At
<1>4. thread[t].pc \in Adding /\ thread[t].pc \in Uncounted /\ thread[t].pc # "idle"
      /\ thread[t].pc \in {"signal", "idle"}
  BY <1>3 DEF Adding, Uncounted
<1>5. thread[t].event = 0 /\ thread[t] \in ThreadSet
  BY <1>3, <1>4, FieldsAre DEF IInv, HoldsAre, At
<1>6. /\ t \in config.threads /\ (thread[t].call = "read" => thread[t].room >= 1)
      /\ (t \in Callbacks => ~config.progress)
  BY <1>4 DEF IInv, ThreadsAre, At
<1>7. count' - base' = count - base /\ errs' = errs /\ count' = count
  BY <1>3 DEF cntrVars, IInv, Types, FieldsOK
<1>8. CASE kind = "irq"
  <2>1. /\ r \in ThreadSet /\ r.comp = 0 /\ r.event = 0
        /\ r.pc \in {"idle", "take_lock", "progress"} /\ (t \in Callbacks => r.pc = "idle")
        /\ (r.call = "read" => r.room >= 1)
    BY <1>2, <1>4, <1>5, <1>8, AddedIs
  <2>2. /\ Types' /\ ThreadsAre' /\ CriticalHoldsLock' /\ SpinnerIs' /\ SpinnersCalled'
        /\ thread'[t] = r
        /\ \A u \in Threads : u # t => Keeps(u)
    BY <1>3, <1>4, <1>6, <2>1, SignalStep
  <2>3. r.pc \notin Adding
    BY <2>1 DEF Adding, Unlinked, Uncounted
  <2>4. /\ HoldsAre' /\ ListsApart' /\ QueuesHold' /\ CompletionsAre'
        /\ \A k : Late(k)' = Late(k) \ {t}
        /\ \A q \in Queues : PutIn(q)' = PutIn(q)
    BY <1>3, <1>4, <2>1, <2>2, <2>3, HandsEmptied
  <2>5. \A k : Late(k)' = Late(k)
    BY <1>1, <1>8, <2>4, ZenonT(60) DEF Late, NotYetCounted, Reported
  <2>6. LateFinite'
    BY <2>5 DEF IInv, LateFinite
  <2>7. Counted'
    <3>1. /\ count - base + Cardinality(Late("ok")) = Cardinality(PutIn("event"))
          /\ errs + Cardinality(Late("err")) = Cardinality(PutIn("error"))
      BY DEF IInv, Counted, Late
    <3>2. /\ count' - base' + Cardinality(Late("ok")') = Cardinality(PutIn("event")')
          /\ errs' + Cardinality(Late("err")') = Cardinality(PutIn("error")')
      BY <1>7, <2>4, <2>5, <3>1 DEF Queues
    <3> QED BY <3>2 DEF Counted, Late
  <2> QED BY <2>2, <2>4, <2>6, <2>7 DEF IInv
<1>9. CASE kind # "irq"
  <2>1. r = [thread[t] EXCEPT !.pc = "count"]
    BY <1>2, <1>9
  <2>2. r \in ThreadSet
    BY <1>5, <2>1 DEF ThreadSet, Stages, Adding, Uncounted
  <2>3. /\ r.pc = "count" /\ r.comp = thread[t].comp /\ r.event = thread[t].event
        /\ r.call = thread[t].call /\ r.room = thread[t].room
    BY <1>5, <2>1 DEF ThreadSet
  <2>4. /\ Types' /\ ThreadsAre' /\ CriticalHoldsLock' /\ SpinnerIs' /\ SpinnersCalled'
        /\ thread'[t] = r
        /\ \A u \in Threads : u # t => Keeps(u)
    BY <1>3, <1>4, <1>6, <2>2, <2>3, SignalStep
  <2>5. Keeps(t)
    BY <1>1, <1>3, <1>9, <2>3, <2>4 DEF Keeps, Unlinked, Uncounted
  <2>6. /\ HoldsAre' /\ ListsApart' /\ QueuesHold'
        /\ CompletionsAre' /\ LateFinite' /\ Counted'
    BY <1>3, <1>7, <2>4, <2>5, HandsKept
  <2> QED BY <2>4, <2>6 DEF IInv
<1> QED
  BY <1>8, <1>9

\* fi_cq_signal of the application does the same.
LEMMA SignalCallKeeps == ASSUME IInv, NEW t \in Threads, SignalCall(t) PROVE IInv'
<1>1. PICK r : r = thread[t]
  OBVIOUS
<1>2. r \in ThreadSet /\ [thread EXCEPT ![t] = r] = thread
  BY <1>1, FieldsAre DEF IInv, Types
<1>3. thread[t].pc = "idle" /\ t \in Apps /\ t \in config.threads /\ t \notin Callbacks
  BY MayCallIs, ThreadsAssumption DEF SignalCall
<1>4. /\ Signalled([thread EXCEPT ![t] = r])
      /\ UNCHANGED <<config, handle, irq, lock, listVars, historyVars, cntrVars>>
  BY <1>2 DEF SignalCall
<1>5. r.call = "read" => r.room >= 1
  BY <1>1 DEF IInv, ThreadsAre
<1>6. /\ Types' /\ ThreadsAre' /\ CriticalHoldsLock' /\ SpinnerIs' /\ SpinnersCalled'
      /\ thread'[t] = r
      /\ \A u \in Threads : u # t => Keeps(u)
  BY <1>1, <1>2, <1>3, <1>4, <1>5, SignalStep
<1>7. Keeps(t)
  BY <1>1, <1>3, <1>6 DEF Keeps, Unlinked, Uncounted
<1>8. count' - base' = count - base /\ errs' = errs
  BY <1>4 DEF cntrVars
<1>9. /\ HoldsAre' /\ ListsApart' /\ QueuesHold'
      /\ CompletionsAre' /\ LateFinite' /\ Counted'
  BY <1>4, <1>6, <1>7, <1>8, HandsKept
<1> QED
  BY <1>6, <1>9 DEF IInv

-----------------------------------------------------------------------------
(* A completion that is added: from where it arises to the queue.           *)

\* A completion arises in the hands of a thread that holds nothing else.
LEMMA AddStep ==
  ASSUME IInv, NEW t \in Threads, NEW kind \in {"ok", "err", "irq"}, Add(t, kind),
         UNCHANGED <<config, handle, lock, listVars, cond, linked, delivered, cntrVars>>,
         irq' \in BOOLEAN,
         thread[t].pc \in {"idle", "progress", "interrupt"},
         t \in config.threads, t \in Callbacks => ~config.progress
  PROVE  IInv'
<1>1. PICK n : n = Len(issued)
  OBVIOUS
<1>2. PICK r : r = [thread[t] EXCEPT !.pc = "add_lock", !.comp = n + 1]
  OBVIOUS
<1>3. /\ thread' = [thread EXCEPT ![t] = r] /\ issued' = Append(issued, kind)
      /\ n < config.completions
  BY <1>1, <1>2 DEF Add
<1>4. /\ issued \in Seq({"ok", "err", "irq"}) /\ n \in Nat
      /\ Len(issued') = n + 1 /\ issued' \in Seq({"ok", "err", "irq"})
      /\ \A i \in 1 .. n : issued'[i] = issued[i]
  BY <1>1, <1>3 DEF IInv, Types, FieldsOK
<1>5. n + 1 <= config.completions /\ n + 1 \in Ids
  BY <1>3, <1>4, ConfigIs, NumbersAssumption DEF IInv, Ids
<1>6. thread[t] \in ThreadSet /\ thread[t].pc \notin Adding
  BY FieldsAre DEF IInv, Adding, Unlinked, Uncounted
<1>7. thread[t].comp = 0 /\ thread[t].event = 0
  BY <1>6, EmptyHanded
<1>8. r \in ThreadSet
  BY <1>2, <1>5, <1>6 DEF ThreadSet, Stages, Adding, Unlinked
<1>9. /\ r.pc = "add_lock" /\ r.comp = n + 1 /\ r.event = 0
      /\ r.call = thread[t].call /\ r.room = thread[t].room
  BY <1>2, <1>6, <1>7 DEF ThreadSet
<1>10. /\ thread' \in [Threads -> ThreadSet] /\ DOMAIN thread' = Threads
       /\ thread'[t] = r
       /\ \A u \in Threads : u # t => thread'[u] = thread[u]
  BY <1>3, <1>8, MovesTo DEF IInv
<1>11. /\ free' = free /\ queue' = queue /\ entry' = entry /\ linked' = linked
       /\ delivered' = delivered /\ Events' = Events
       /\ count' = count /\ base' = base /\ errs' = errs
  BY DEF listVars, cntrVars, Events
<1>12. Types'
  <2>1. FieldsOK'
    BY <1>4, <1>10, <1>11 DEF IInv, Types, FieldsOK
  <2> QED BY <1>4, <1>5, <1>10, <1>11, <2>1 DEF IInv, Types
<1>13. ThreadsAre'
  <2>1. thread'[t].call = "read" => thread'[t].room >= 1
    BY <1>9, <1>10 DEF IInv, ThreadsAre
  <2>2. t \in Callbacks => /\ thread'[t].pc \in Adding \cup {"idle"}
                           /\ config.progress => thread'[t].pc = "idle"
    BY <1>9, <1>10 DEF Adding, Unlinked
  <2> QED BY <1>10, <2>1, <2>2, ThreadsKept DEF IInv
<1>14. CriticalHoldsLock'
  <2>1. \A u \in Threads : thread'[u].pc \in Critical => thread[u].pc \in Critical
    BY <1>9, <1>10 DEF Critical
  <2> QED BY <2>1, LockKept DEF IInv
<1>15. \A u \in Threads : thread[u].comp \in Nat /\ thread[u].comp <= n
  BY <1>1, FieldsAre DEF IInv, HoldsAre
<1>16. HoldsAre'
  <2> SUFFICES ASSUME NEW u \in Threads
               PROVE  /\ thread'[u].comp # 0 <=> thread'[u].pc \in Adding
                      /\ thread'[u].comp <= n + 1
                      /\ thread'[u].event # 0 <=> thread'[u].pc = "add_link"
                      /\ thread'[u].pc = "add_link" =>
                           /\ thread'[u].event \in Events
                           /\ entry[thread'[u].event] = thread'[u].comp
    BY <1>4, <1>11 DEF HoldsAre, At
  <2>1. CASE u = t
    BY <1>4, <1>9, <1>10, <2>1 DEF Adding, Unlinked
  <2>2. CASE u # t
    <3>1. thread'[u].comp <= n + 1
      BY <1>4, <1>10, <1>15, <2>2
    <3> QED BY <1>10, <2>2, <3>1 DEF IInv, HoldsAre, At
  <2> QED BY <2>1, <2>2
<1>17. ListsApart'
  <2>1. \A e : Held(e)' <=> Held(e)
    <3>1. thread[t].pc # "add_link"
      OBVIOUS
    <3> QED BY <1>9, <1>10, <3>1 DEF Held, At
  <2>2. \A e : Has(free, e)' <=> Has(free, e)
    BY <1>11 DEF Has
  <2>3. \A e, q : Has(queue[q], e)' <=> Has(queue[q], e)
    BY <1>11 DEF Has
  <2>4. Once(free)' /\ \A q \in Queues : Once(queue[q])'
    BY <1>11 DEF IInv, ListsApart, Once
  <2> QED BY <1>11, <2>1, <2>2, <2>3, <2>4 DEF IInv, ListsApart
<1>18. QueuesHold'
  BY <1>11 DEF IInv, QueuesHold, QueueHolds
<1>19. \A q \in Queues : \A i \in 1 .. Len(linked[q]) :
         /\ linked[q][i] \in 1 .. n /\ linked[q][i] # n + 1
         /\ linked[q][i] <= n + 1
  <2> SUFFICES ASSUME NEW q \in Queues, NEW i \in 1 .. Len(linked[q])
               PROVE  /\ linked[q][i] \in 1 .. n /\ linked[q][i] # n + 1
                      /\ linked[q][i] <= n + 1
    OBVIOUS
  <2>1. linked[q] \in Seq(Ids)
    BY DEF IInv, Types, FieldsOK
  <2>2. linked[q][i] \in Ids
    BY <2>1, ElementOfSeq
  <2>3. linked[q][i] <= n
    BY <1>1 DEF IInv, CompletionsAre
  <2> QED BY <1>4, <2>2, <2>3, NumbersAssumption DEF Ids
<1>20. CompletionsAre'
  <2>1. ASSUME NEW u \in Threads, NEW w \in Threads,
               thread'[u].comp = thread'[w].comp, thread'[u].comp # 0
        PROVE  u = w
    <3>1. u # t /\ w # t => u = w
      BY <1>10, <2>1 DEF IInv, CompletionsAre
    <3>2. u # t /\ w = t => FALSE
      BY <1>4, <1>9, <1>10, <1>15, <2>1
    <3>3. u = t /\ w # t => FALSE
      BY <1>4, <1>9, <1>10, <1>15, <2>1
    <3> QED BY <3>1, <3>2, <3>3
  <2>2. ASSUME NEW q \in Queues, NEW i \in 1 .. Len(linked[q]), NEW u \in Threads,
               thread'[u].pc \in Unlinked
        PROVE  thread'[u].comp # linked[q][i]
    <3>1. u = t => thread'[u].comp # linked[q][i]
      BY <1>9, <1>10, <1>19
    <3>2. u # t => thread'[u].comp # linked[q][i]
      BY <1>10, <2>2 DEF IInv, CompletionsAre
    <3> QED BY <3>1, <3>2
  <2>3. ASSUME NEW u \in Threads, thread'[u].pc = "count"
        PROVE  issued'[thread'[u].comp] # "irq"
    <3>1. u # t /\ thread'[u] = thread[u]
      BY <1>9, <1>10, <2>3
    <3>2. thread[u].comp \in 1 .. n
      BY <1>4, <1>15, <2>3, <3>1 DEF IInv, HoldsAre, Adding, Uncounted, At
    <3> QED BY <1>4, <2>3, <3>1, <3>2 DEF IInv, CompletionsAre, At
  <2> QED BY <1>4, <1>11, <1>19, <2>1, <2>2, <2>3 DEF CompletionsAre, At
<1>21. NotYetCounted' = NotYetCounted /\ \A k : Late(k)' = Late(k)
  <2>1. \A i \in 1 .. n : i \in Reported' <=> i \in Reported
    BY <1>1, <1>4 DEF Reported
  <2>2. \A u \in Threads : thread[u].pc \in Uncounted => thread[u].comp \in 1 .. n
    BY <1>4, <1>15 DEF IInv, HoldsAre, Adding
  <2>3. thread[t].pc \notin Uncounted /\ thread'[t].pc \notin Uncounted
    BY <1>9, <1>10 DEF Uncounted
  <2>4. \A u \in Threads : u \in NotYetCounted' <=> u \in NotYetCounted
    BY <1>10, <2>1, <2>2, <2>3 DEF NotYetCounted, Uncounted, At
  <2>5. NotYetCounted' \subseteq Threads /\ NotYetCounted \subseteq Threads
    BY DEF NotYetCounted
  <2>6. NotYetCounted' = NotYetCounted
    BY <2>4, <2>5
  <2>7. \A u \in NotYetCounted : u # t /\ thread[u].comp \in 1 .. n
    BY <2>2, <2>3 DEF NotYetCounted, Uncounted, At
  <2>8. \A u \in NotYetCounted : issued'[thread'[u].comp] = issued[thread[u].comp]
    BY <1>4, <1>10, <2>5, <2>7
  <2> QED BY <2>6, <2>8 DEF Late
<1>22. \A q \in Queues : PutIn(q)' = PutIn(q)
  <2> SUFFICES ASSUME NEW q \in Queues PROVE PutIn(q)' = PutIn(q)
    OBVIOUS
  <2>1. \A i \in 1 .. n : i \in Reported' <=> i \in Reported
    BY <1>1, <1>4 DEF Reported
  <2>2. DOMAIN linked[q] = 1 .. Len(linked[q])
    BY DEF IInv, Types, FieldsOK
  <2>3. \A i \in DOMAIN linked[q] : linked[q][i] \in 1 .. n
    BY <1>19, <2>2
  <2> QED BY <1>11, <2>1, <2>3 DEF PutIn
<1>23. LateFinite'
  BY <1>21 DEF IInv, LateFinite
<1>24. Counted'
  <2>1. /\ count - base + Cardinality(Late("ok")) = Cardinality(PutIn("event"))
        /\ errs + Cardinality(Late("err")) = Cardinality(PutIn("error"))
    BY DEF IInv, Counted, Late
  <2>2. /\ count' - base' + Cardinality(Late("ok")') = Cardinality(PutIn("event")')
        /\ errs' + Cardinality(Late("err")') = Cardinality(PutIn("error")')
    BY <1>11, <1>21, <1>22, <2>1 DEF Queues
  <2> QED BY <2>2 DEF Counted, Late
<1>25. SpinnerIs' /\ SpinnersCalled'
  <2>1. \A c \in Threads : At(c, "signal") => thread'[c].pc = "signal"
    BY <1>10 DEF At
  <2>2. \A u \in Apps : \/ thread'[u] = thread[u]
                        \/ thread[u].pc # "asleep" /\ thread'[u].pc \notin {"sleep_lock", "asleep"}
    BY <1>9, <1>10 DEF Threads
  <2> QED BY <1>11, <2>1, <2>2, SpinKept
<1> QED
  BY <1>12, <1>13, <1>14, <1>16, <1>17, <1>18, <1>20, <1>23, <1>24, <1>25 DEF IInv

\* A completed operation is in the hands of the thread that completed it.
LEMMA CompleteKeeps == ASSUME IInv, NEW t \in Threads, Complete(t) PROVE IInv'
<1>1. /\ t \in config.threads /\ thread[t].pc \in {"idle", "progress", "interrupt"}
      /\ t \in Callbacks => ~config.progress
  BY ThreadsAssumption DEF Complete, Readers, At
<1>2. \E kind \in {"ok", "err", "irq"} : Add(t, kind)
  BY DEF Complete
<1>3. /\ UNCHANGED <<config, handle, lock, listVars, cond, linked, delivered, cntrVars>>
      /\ irq' \in BOOLEAN
  BY DEF Complete, IInv, Types, FieldsOK
<1> QED
  BY <1>1, <1>2, <1>3, AddStep

\* So is the completion a reader makes of the interrupt it took.
LEMMA TakeInterruptKeeps == ASSUME IInv, NEW t \in Threads, TakeInterrupt(t) PROVE IInv'
<1>1. thread[t].pc = "interrupt"
  BY DEF TakeInterrupt, At
<1>2. thread[t].pc \notin Adding /\ thread[t].pc # "idle"
  BY <1>1 DEF Adding, Unlinked, Uncounted
<1>3. t \in config.threads /\ t \notin Callbacks
  BY <1>2, CallerIs, ThreadsAssumption
<1>4. /\ UNCHANGED <<config, handle, lock, listVars, cond, linked, delivered, cntrVars>>
      /\ irq' \in BOOLEAN /\ Add(t, "irq")
  BY DEF TakeInterrupt
<1> QED
  BY <1>1, <1>3, <1>4, AddStep

\* cq_lock of an addition.
LEMMA AddLockKeeps == ASSUME IInv, NEW t \in Threads, AddLock(t) PROVE IInv'
<1>1. PICK r : r = [thread[t] EXCEPT !.pc = "add_take"]
  OBVIOUS
<1>2. thread[t] \in ThreadSet
  BY FieldsAre DEF IInv
<1>3. r \in ThreadSet
  BY <1>1, <1>2 DEF ThreadSet, Stages, Adding, Unlinked
<1>4. /\ r.pc = "add_take" /\ r.comp = thread[t].comp /\ r.event = thread[t].event
      /\ r.call = thread[t].call /\ r.room = thread[t].room
  BY <1>1, <1>2 DEF ThreadSet
<1>5. /\ thread' = [thread EXCEPT ![t] = r] /\ thread[t].pc = "add_lock"
      /\ UNCHANGED <<config, handle, irq, listVars, cond, historyVars, cntrVars>> /\ Acquire(t)
  BY <1>1 DEF AddLock, At, Goto
<1>6. /\ thread' \in [Threads -> ThreadSet]
      /\ thread'[t] = r
      /\ \A u \in Threads : u # t => thread'[u] = thread[u]
  BY <1>3, <1>5, MovesTo DEF IInv
<1>7. CriticalHoldsLock' /\ lock' \in Threads \cup {"free"}
  BY <1>5, <1>6, LockTaken DEF IInv
<1>8. \A u \in Threads : Keeps(u)
  <2> SUFFICES ASSUME NEW u \in Threads PROVE Keeps(u)
    OBVIOUS
  <2>1. CASE u = t
    BY <1>4, <1>5, <1>6, <2>1 DEF Keeps, Unlinked, Uncounted
  <2>2. CASE u # t
    BY <1>6, <2>2 DEF Keeps, IInv, CompletionsAre, At
  <2> QED BY <2>1, <2>2
<1>9. /\ handle' \in BOOLEAN /\ irq' \in BOOLEAN /\ cond' \in [locked : Nat, released : Nat]
      /\ count' \in Nat /\ base' \in Int /\ errs' = errs /\ count' - base' = count - base
      /\ queue' = queue
  BY <1>5 DEF cntrVars, listVars, IInv, Types, FieldsOK
<1>10. Types'
  BY <1>5, <1>6, <1>7, <1>9, TypesKept DEF IInv
<1>11. /\ HoldsAre' /\ ListsApart' /\ QueuesHold'
       /\ CompletionsAre' /\ LateFinite' /\ Counted'
  BY <1>5, <1>8, <1>9, HandsKept
<1>12. ThreadsAre'
  <2>1. r.call = "read" => r.room >= 1
    BY <1>4 DEF IInv, ThreadsAre
  <2>2. t \in config.threads /\ (t \in Callbacks => ~config.progress)
    BY <1>5 DEF IInv, ThreadsAre, At
  <2>3. t \in Callbacks => /\ thread'[t].pc \in Adding \cup {"idle"}
                           /\ config.progress => thread'[t].pc = "idle"
    BY <1>4, <1>6, <2>2 DEF Adding, Unlinked
  <2> QED BY <1>5, <1>6, <2>1, <2>2, <2>3, ThreadsKept DEF IInv
<1>13. SpinnerIs' /\ SpinnersCalled'
  <2>1. \A c \in Threads : At(c, "signal") => thread'[c].pc = "signal"
    BY <1>5, <1>6 DEF At
  <2>2. \A u \in Apps : \/ thread'[u] = thread[u]
                        \/ thread[u].pc # "asleep" /\ thread'[u].pc \notin {"sleep_lock", "asleep"}
    BY <1>4, <1>5, <1>6 DEF Threads
  <2> QED BY <1>5, <1>9, <2>1, <2>2, SpinKept
<1> QED
  BY <1>7, <1>10, <1>11, <1>12, <1>13 DEF IInv

-----------------------------------------------------------------------------
(* Lists of structs.                                                        *)

\* A list without its head.
LEMMA TailHas ==
  ASSUME NEW E, NEW s \in Seq(E), s # <<>>, Once(s)
  PROVE  /\ Tail(s) \in Seq(E) /\ Head(s) \in E /\ Head(s) = s[1] /\ Once(Tail(s))
         /\ Len(s) \in Nat /\ Len(s) >= 1 /\ Len(Tail(s)) = Len(s) - 1
         /\ \A i \in 1 .. Len(Tail(s)) : Tail(s)[i] = s[i + 1]
         /\ Has(s, Head(s))
         /\ \A e : Has(Tail(s), e) <=> Has(s, e) /\ e # Head(s)
<1>1. PICK r, n : r = Tail(s) /\ n = Len(s)
  OBVIOUS
<1>2. /\ r \in Seq(E) /\ Len(r) = n - 1 /\ n \in Nat /\ n >= 1
      /\ \A i \in 1 .. Len(r) : r[i] = s[i + 1]
      /\ Head(s) = s[1] /\ s[1] \in E
  BY <1>1, HeadTailProperties, EmptySeq, LenProperties
<1>3. \A i, j \in 1 .. n : s[i] = s[j] => i = j
  BY <1>1 DEF Once
<1>4. Once(r)
  BY <1>2, <1>3 DEF Once
<1>5. Has(s, Head(s))
  BY <1>1, <1>2 DEF Has
<1>6. ASSUME NEW e, Has(r, e) PROVE Has(s, e) /\ e # Head(s)
  <2>1. PICK i \in 1 .. Len(r) : r[i] = e
    BY <1>6 DEF Has
  <2>2. s[i + 1] = e /\ i + 1 \in 1 .. n /\ i + 1 # 1 /\ 1 \in 1 .. n
    BY <1>2, <2>1
  <2> QED BY <1>1, <1>2, <1>3, <2>2 DEF Has
<1>7. ASSUME NEW e, Has(s, e), e # Head(s) PROVE Has(r, e)
  <2>1. PICK i \in 1 .. n : s[i] = e
    BY <1>1, <1>7 DEF Has
  <2>2. i - 1 \in 1 .. Len(r) /\ (i - 1) + 1 = i
    BY <1>2, <1>7, <2>1
  <2> QED BY <1>2, <2>1, <2>2 DEF Has
<1> QED
  BY <1>1, <1>2, <1>4, <1>5, <1>6, <1>7

\* A list with one more at its end.
LEMMA AppendHas ==
  ASSUME NEW E, NEW s \in Seq(E), NEW x \in E, Once(s), ~Has(s, x)
  PROVE  /\ Append(s, x) \in Seq(E) /\ Len(s) \in Nat /\ Len(Append(s, x)) = Len(s) + 1
         /\ \A i \in 1 .. Len(s) : Append(s, x)[i] = s[i]
         /\ Append(s, x)[Len(s) + 1] = x
         /\ Once(Append(s, x))
         /\ \A e : Has(Append(s, x), e) <=> Has(s, e) \/ e = x
<1>1. PICK r, n : r = Append(s, x) /\ n = Len(s)
  OBVIOUS
<1>2. /\ r \in Seq(E) /\ n \in Nat /\ Len(r) = n + 1 /\ r[n + 1] = x
      /\ \A i \in 1 .. n : r[i] = s[i]
  BY <1>1
<1>3. \A i \in 1 .. n : s[i] # x
  BY <1>1 DEF Has
<1>4. ASSUME NEW i \in 1 .. n + 1, NEW j \in 1 .. n + 1, r[i] = r[j] PROVE i = j
  <2>1. CASE i \in 1 .. n /\ j \in 1 .. n
    BY <1>1, <1>2, <1>4, <2>1 DEF Once
  <2>2. CASE i = n + 1 /\ j \in 1 .. n
    BY <1>2, <1>3, <1>4, <2>2
  <2>3. CASE i \in 1 .. n /\ j = n + 1
    BY <1>2, <1>3, <1>4, <2>3
  <2>4. i \in 1 .. n \/ i = n + 1
    BY <1>2
  <2>5. j \in 1 .. n \/ j = n + 1
    BY <1>2
  <2> QED BY <2>1, <2>2, <2>3, <2>4, <2>5
<1>5. Once(r)
  BY <1>2, <1>4 DEF Once
<1>6. ASSUME NEW e, Has(r, e) PROVE Has(s, e) \/ e = x
  <2>1. PICK i \in 1 .. n + 1 : r[i] = e
    BY <1>2, <1>6 DEF Has
  <2>2. i \in 1 .. n \/ i = n + 1
    BY <1>2
  <2> QED BY <1>1, <1>2, <2>1, <2>2 DEF Has
<1>7. ASSUME NEW e, Has(s, e) \/ e = x PROVE Has(r, e)
  <2>1. CASE e = x
    <3>1. n + 1 \in 1 .. Len(r)
      BY <1>2
    <3> QED BY <1>2, <2>1, <3>1 DEF Has
  <2>2. CASE Has(s, e)
    <3>1. PICK i \in 1 .. n : s[i] = e
      BY <1>1, <2>2 DEF Has
    <3>2. i \in 1 .. Len(r) /\ r[i] = e
      BY <1>2, <3>1
    <3> QED BY <3>2 DEF Has
  <2> QED BY <1>7, <2>1, <2>2
<1> QED
  BY <1>1, <1>2, <1>5, <1>6, <1>7

\* The struct that is taken is in no other list: it is the head of the free
\* list, or a new one.
LEMMA EmptyEventIs ==
  ASSUME IInv
  PROVE  /\ \E n \in Nat : Events \cup {EmptyEvent} = 1 .. n /\ Cardinality(Events \cup {EmptyEvent}) = n
         /\ EmptyEvent \in Nat /\ EmptyEvent # 0
         /\ FreeAfterTake \in Seq(Events) /\ Once(FreeAfterTake)
         /\ \A e : Has(FreeAfterTake, e) <=> Has(free, e) /\ e # EmptyEvent
         /\ \A q \in Queues : ~Has(queue[q], EmptyEvent)
<1>1. PICK n \in Nat : n = Cardinality(Events) /\ Events = 1 .. n
  BY EventsAre DEF IInv
<1>2. free \in Seq(Events) /\ queue \in [Queues -> Seq(Events)]
  BY DEF IInv, Types, FieldsOK
<1>3. Once(free) /\ \A e \in Events : Has(free, e) => \A q \in Queues : ~Has(queue[q], e)
  BY DEF IInv, ListsApart
<1>4. CASE free = <<>>
  <2>1. EmptyEvent = n + 1 /\ FreeAfterTake = <<>>
    BY <1>1, <1>4 DEF EmptyEvent, FreeAfterTake
  <2>2. Events \cup {EmptyEvent} = 1 .. n + 1
    <3>1. (1 .. n) \cup {n + 1} = 1 .. n + 1
      OBVIOUS
    <3> QED BY <1>1, <2>1, <3>1
  <2>3. Cardinality(1 .. n + 1) = n + 1
    BY FS_Interval
  <2>4. \A s : s = <<>> => Len(s) = 0
    OBVIOUS
  <2>5. \A e : ~Has(free, e) /\ ~Has(FreeAfterTake, e)
    BY <1>4, <2>1, <2>4 DEF Has
  <2>6. FreeAfterTake \in Seq(Events) /\ Once(FreeAfterTake)
    BY <1>2, <1>3, <1>4, <2>1
  <2>7. ASSUME NEW q \in Queues, Has(queue[q], EmptyEvent) PROVE FALSE
    <3>1. PICK i \in 1 .. Len(queue[q]) : queue[q][i] = EmptyEvent
      BY <2>7 DEF Has
    <3>2. queue[q] \in Seq(Events)
      BY <1>2
    <3>3. queue[q][i] \in Events
      BY <3>1, <3>2, ElementOfSeq
    <3>4. n + 1 \in 1 .. n
      BY <1>1, <2>1, <3>1, <3>3
    <3> QED BY <3>4
  <2>8. n + 1 \in Nat /\ n + 1 # 0
    OBVIOUS
  <2> QED BY <2>1, <2>2, <2>3, <2>5, <2>6, <2>7, <2>8
<1>5. CASE free # <<>>
  <2>1. EmptyEvent = Head(free) /\ FreeAfterTake = Tail(free)
    BY <1>5 DEF EmptyEvent, FreeAfterTake
  <2>2. /\ Tail(free) \in Seq(Events) /\ Head(free) \in Events /\ Once(Tail(free))
        /\ Has(free, Head(free))
        /\ \A e : Has(Tail(free), e) <=> Has(free, e) /\ e # Head(free)
    BY <1>2, <1>3, <1>5, TailHas
  <2>3. EmptyEvent \in Events
    BY <2>1, <2>2
  <2>4. Events \cup {EmptyEvent} = 1 .. n
    BY <1>1, <2>3
  <2>5. EmptyEvent \in Nat /\ EmptyEvent # 0
    BY <1>1, <2>3
  <2>6. Cardinality(1 .. n) = n
    BY <1>1
  <2> QED BY <1>3, <2>1, <2>2, <2>3, <2>4, <2>5, <2>6
<1> QED
  BY <1>4, <1>5

\* Nobody else holds a struct when a thread is between the lock and its release.
LEMMA NoneHeld ==
  ASSUME IInv, ~Race, NEW t \in Threads, thread[t].pc \in {"add_take", "take"}
  PROVE  \A u \in Threads : thread[u].pc # "add_link"
<1>1. thread[t].pc \in Critical
  BY DEF Critical
<1>2. \A u \in Threads : thread[u].pc = "add_link" => thread[u].pc \in Critical
  BY DEF Critical
<1> QED
  BY <1>1, <1>2, Alone DEF IInv

\* get_empty_event: the struct leaves the free list, or is a new one, and is from
\* then on in the hands of its thread.
LEMMA AddTakeKeeps == ASSUME IInv, ~Race, NEW t \in Threads, AddTake(t) PROVE IInv'
<1>1. PICK x, c : x = EmptyEvent /\ c = thread[t].comp
  OBVIOUS
<1>2. PICK r : r = [thread[t] EXCEPT !.pc = "add_link", !.event = x]
  OBVIOUS
<1>3. /\ thread' = [thread EXCEPT ![t] = r] /\ thread[t].pc = "add_take"
      /\ free' = FreeAfterTake /\ Events' = Events \cup {x}
      /\ entry' = [e \in Events \cup {x} |-> IF e = x THEN c ELSE entry[e]]
      /\ UNCHANGED <<config, handle, irq, lock, queue, cond, historyVars, cntrVars>>
  BY <1>1, <1>2 DEF AddTake, At, Events
<1>4. /\ \E n \in Nat : Events' = 1 .. n /\ Cardinality(Events') = n
      /\ x \in Nat /\ x # 0
      /\ free' \in Seq(Events) /\ Once(free')
      /\ \A e : Has(free', e) <=> Has(free, e) /\ e # x
      /\ \A q \in Queues : ~Has(queue[q], x)
  BY <1>1, <1>3, EmptyEventIs
<1>5. thread[t] \in ThreadSet /\ c \in Ids \cup {0}
  BY <1>1, FieldsAre DEF IInv
<1>6. r \in ThreadSet
  BY <1>2, <1>4, <1>5 DEF ThreadSet, Stages, Adding, Unlinked
<1>7. /\ r.pc = "add_link" /\ r.comp = c /\ r.event = x
      /\ r.call = thread[t].call /\ r.room = thread[t].room
  BY <1>1, <1>2, <1>5 DEF ThreadSet
<1>8. /\ thread' \in [Threads -> ThreadSet] /\ DOMAIN thread' = Threads
      /\ thread'[t] = r
      /\ \A u \in Threads : u # t => thread'[u] = thread[u]
  BY <1>3, <1>6, MovesTo DEF IInv
<1>9. /\ issued' = issued /\ linked' = linked /\ delivered' = delivered
      /\ count' = count /\ base' = base /\ errs' = errs /\ queue' = queue
  BY <1>3 DEF historyVars, cntrVars
<1>10. \A u \in Threads : thread[u].pc # "add_link"
  BY <1>3, NoneHeld
<1>11. Types'
  <2>1. Events \subseteq Events'
    BY <1>3
  <2>2. free' \in Seq(Events') /\ queue' \in [Queues -> Seq(Events')]
    BY <1>4, <1>9, <2>1, SeqMonotonic DEF IInv, Types, FieldsOK
  <2>3. entry' \in [Events' -> Ids \cup {0}]
    BY <1>3, <1>5 DEF IInv, Types, FieldsOK
  <2>4. Cardinality(Events') \in Nat /\ Events' = 1 .. Cardinality(Events')
    BY <1>4
  <2>5. FieldsOK'
    BY <1>3, <1>8, <1>9, <2>2, <2>3, <2>4 DEF IInv, Types, FieldsOK
  <2> QED BY <1>3, <1>8, <1>9, <2>4, <2>5 DEF IInv, Types
<1>12. ThreadsAre'
  <2>1. r.call = "read" => r.room >= 1
    BY <1>7 DEF IInv, ThreadsAre
  <2>2. t \in config.threads /\ (t \in Callbacks => ~config.progress)
    BY <1>3 DEF IInv, ThreadsAre, At
  <2>3. t \in Callbacks => /\ thread'[t].pc \in Adding \cup {"idle"}
                           /\ config.progress => thread'[t].pc = "idle"
    BY <1>7, <1>8, <2>2 DEF Adding, Unlinked
  <2> QED BY <1>3, <1>8, <2>1, <2>2, <2>3, ThreadsKept DEF IInv
<1>13. CriticalHoldsLock'
  <2>1. \A u \in Threads : thread'[u].pc \in Critical => thread[u].pc \in Critical
    BY <1>3, <1>8 DEF Critical
  <2> QED BY <1>3, <2>1, LockKept DEF IInv
<1>14. HoldsAre'
  <2> SUFFICES ASSUME NEW u \in Threads
               PROVE  /\ thread'[u].comp # 0 <=> thread'[u].pc \in Adding
                      /\ thread'[u].comp <= Len(issued)
                      /\ thread'[u].event # 0 <=> thread'[u].pc = "add_link"
                      /\ thread'[u].pc = "add_link" =>
                           /\ thread'[u].event \in Events'
                           /\ entry'[thread'[u].event] = thread'[u].comp
    BY <1>9 DEF HoldsAre, At
  <2>1. CASE u = t
    <3>1. c # 0 /\ c <= Len(issued)
      BY <1>1, <1>3 DEF IInv, HoldsAre, Adding, Unlinked
    <3>2. x \in Events' /\ entry'[x] = c
      BY <1>3
    <3> QED BY <1>4, <1>7, <1>8, <2>1, <3>1, <3>2 DEF Adding, Unlinked
  <2>2. CASE u # t
    BY <1>8, <1>10, <2>2 DEF IInv, HoldsAre, At
  <2> QED BY <2>1, <2>2
<1>15. ListsApart'
  <2>1. \A e : Held(e)' <=> e = x
    BY <1>7, <1>8, <1>10 DEF Held, At
  <2>2. \A e : ~Held(e)
    BY <1>10 DEF Held, At
  <2>3. \A e : Has(free, e)' <=> Has(free, e) /\ e # x
    BY <1>4 DEF Has
  <2>4. \A e, q : Has(queue[q], e)' <=> Has(queue[q], e)
    BY <1>9 DEF Has
  <2>5. Once(free)' /\ \A q \in Queues : Once(queue[q])'
    BY <1>4, <1>9 DEF IInv, ListsApart, Once
  <2>6. \A e \in Events :
          /\ Has(free, e) => \A q \in Queues : ~Has(queue[q], e)
          /\ ~(Has(queue["event"], e) /\ Has(queue["error"], e))
          /\ Has(free, e) \/ \E q \in Queues : Has(queue[q], e)
    BY <2>2 DEF IInv, ListsApart
  <2>7. ASSUME NEW e \in Events'
        PROVE  /\ Has(free, e)' => ~Held(e)' /\ \A q \in Queues : ~Has(queue[q], e)'
               /\ \A q \in Queues : Has(queue[q], e)' => ~Held(e)'
               /\ ~(Has(queue["event"], e)' /\ Has(queue["error"], e)')
               /\ Has(free, e)' \/ Held(e)' \/ \E q \in Queues : Has(queue[q], e)'
    <3>1. CASE e = x
      BY <1>4, <2>1, <2>3, <2>4, <3>1 DEF Queues
    <3>2. CASE e # x
      <4>1. e \in Events
        BY <1>3, <2>7, <3>2
      <4> QED BY <2>1, <2>3, <2>4, <2>6, <3>2, <4>1
    <3> QED BY <3>1, <3>2
  <2> QED BY <2>5, <2>7 DEF ListsApart
<1>16. QueuesHold'
  <2> SUFFICES ASSUME NEW q \in Queues PROVE QueueHolds(q)'
    BY DEF QueuesHold
  <2>1. QueueHolds(q) /\ queue[q] \in Seq(Events)
    BY DEF IInv, QueuesHold, Types, FieldsOK
  <2>2. \A i \in 1 .. Len(queue[q]) : queue[q][i] \in Events /\ queue[q][i] # x
    BY <1>4, <2>1, ElementOfSeq DEF Has
  <2>3. \A i \in 1 .. Len(queue[q]) : entry'[queue[q][i]] = entry[queue[q][i]]
    BY <1>3, <2>2
  <2> QED BY <1>9, <2>1, <2>3 DEF QueueHolds
<1>17. \A u \in Threads : KeepsCompletion(u)
  <2> SUFFICES ASSUME NEW u \in Threads PROVE KeepsCompletion(u)
    OBVIOUS
  <2>1. CASE u = t
    BY <1>1, <1>3, <1>7, <1>8, <2>1 DEF KeepsCompletion, Unlinked, Uncounted
  <2>2. CASE u # t
    BY <1>8, <2>2 DEF KeepsCompletion, IInv, CompletionsAre, At
  <2> QED BY <2>1, <2>2
<1>18. CompletionsAre' /\ LateFinite' /\ Counted'
  <2>1. count' - base' = count - base
    BY <1>9
  <2> QED BY <1>9, <1>17, <2>1, CountsKept
<1>19. SpinnerIs' /\ SpinnersCalled'
  <2>1. \A v \in Threads : At(v, "signal") => thread'[v].pc = "signal"
    BY <1>3, <1>8 DEF At
  <2>2. \A u \in Apps : \/ thread'[u] = thread[u]
                        \/ thread[u].pc # "asleep" /\ thread'[u].pc \notin {"sleep_lock", "asleep"}
    BY <1>3, <1>7, <1>8 DEF Threads
  <2> QED BY <1>3, <2>1, <2>2, SpinKept
<1> QED
  BY <1>11, <1>12, <1>13, <1>14, <1>15, <1>16, <1>18, <1>19 DEF IInv

\* What is put in a queue is finite.
LEMMA PutInFinite ==
  ASSUME Types, NEW q
  PROVE  IsFiniteSet(PutIn(q))
<1>1. Len(issued) \in Nat
  BY DEF Types, FieldsOK
<1>2. IsFiniteSet(1 .. Len(issued))
  BY <1>1, FS_Interval
<1>3. PutIn(q) \in SUBSET (1 .. Len(issued))
  BY DEF PutIn, Reported
<1> QED
  BY <1>2, <1>3, FS_Subset

\* slist_insert_tail links the struct behind those of its queue.
LEMMA AddLinkKeeps == ASSUME IInv, ~Race, NEW t \in Threads, AddLink(t) PROVE IInv'
<1>1. PICK x, c, kind, q : /\ x = thread[t].event /\ c = thread[t].comp /\ kind = issued[c]
                           /\ q = IF kind = "err" THEN "error" ELSE "event"
  OBVIOUS
<1>2. PICK r : r = [thread[t] EXCEPT !.pc = "signal", !.event = 0]
  OBVIOUS
<1>3. /\ thread' = [thread EXCEPT ![t] = r] /\ thread[t].pc = "add_link" /\ Release
      /\ queue' = [queue EXCEPT ![q] = Append(queue[q], x)]
      /\ linked' = [linked EXCEPT ![q] = Append(linked[q], c)]
      /\ UNCHANGED <<config, handle, irq, free, entry, cond, issued, delivered, cntrVars>>
  BY <1>1, <1>2 DEF AddLink, At, InsertTail
<1>4. q \in Queues /\ q \in {"event", "error"}
  BY <1>1 DEF Queues
<1>5. thread[t] \in ThreadSet /\ c \in Nat /\ c \in Ids \cup {0}
  BY <1>1, FieldsAre DEF IInv
<1>6. /\ x \in Events /\ entry[x] = c /\ c # 0 /\ c <= Len(issued)
  BY <1>1, <1>3 DEF IInv, HoldsAre, At, Adding, Unlinked
<1>7. /\ issued \in Seq({"ok", "err", "irq"}) /\ Len(issued) \in Nat
      /\ c \in 1 .. Len(issued) /\ c \in Ids /\ kind \in {"ok", "err", "irq"}
  <2>1. issued \in Seq({"ok", "err", "irq"}) /\ Len(issued) \in Nat
    BY DEF IInv, Types, FieldsOK
  <2>2. c \in 1 .. Len(issued) /\ c \in Ids
    BY <1>5, <1>6, <2>1
  <2> QED BY <1>1, <2>1, <2>2, ElementOfSeq
<1>8. r \in ThreadSet
  BY <1>2, <1>5 DEF ThreadSet, Stages, Adding, Uncounted
<1>9. /\ r.pc = "signal" /\ r.comp = c /\ r.event = 0
      /\ r.call = thread[t].call /\ r.room = thread[t].room
  BY <1>1, <1>2, <1>5 DEF ThreadSet
<1>10. /\ thread' \in [Threads -> ThreadSet] /\ DOMAIN thread' = Threads
       /\ thread'[t] = r
       /\ \A u \in Threads : u # t => thread'[u] = thread[u]
  BY <1>3, <1>8, MovesTo DEF IInv
<1>11. /\ count' = count /\ base' = base /\ errs' = errs /\ Events' = Events
  BY <1>3 DEF cntrVars, Events
<1>12. \A u \in Threads : u # t => thread[u].pc # "add_link"
  BY <1>3, Alone DEF IInv, Critical
<1>13. /\ CriticalHoldsLock' /\ lock' \in Threads \cup {"free"}
  <2>1. thread[t].pc \in Critical /\ thread'[t].pc \notin Critical
    BY <1>3, <1>9, <1>10 DEF Critical
  <2> QED BY <1>3, <1>10, <2>1, LockReleased DEF IInv
<1>14. /\ queue \in [Queues -> Seq(Events)] /\ linked \in [Queues -> Seq(Ids)]
       /\ delivered \in [Queues -> Seq(Ids)]
  BY DEF IInv, Types, FieldsOK
<1>15. /\ queue'[q] = Append(queue[q], x) /\ linked'[q] = Append(linked[q], c)
       /\ \A p \in Queues : p # q => queue'[p] = queue[p] /\ linked'[p] = linked[p]
  BY <1>3, <1>4, <1>14
<1>16. /\ Once(free) /\ \A p \in Queues : Once(queue[p])
       /\ \A e \in Events :
            /\ Has(free, e) => ~Held(e) /\ \A p \in Queues : ~Has(queue[p], e)
            /\ \A p \in Queues : Has(queue[p], e) => ~Held(e)
            /\ ~(Has(queue["event"], e) /\ Has(queue["error"], e))
            /\ Has(free, e) \/ Held(e) \/ \E p \in Queues : Has(queue[p], e)
  BY DEF IInv, ListsApart
<1>17. \A e : Held(e) <=> e = x
  BY <1>1, <1>3, <1>12 DEF Held, At
<1>18. /\ Append(queue[q], x) \in Seq(Events) /\ Len(queue[q]) \in Nat
       /\ Len(Append(queue[q], x)) = Len(queue[q]) + 1
       /\ \A i \in 1 .. Len(queue[q]) : Append(queue[q], x)[i] = queue[q][i]
       /\ Append(queue[q], x)[Len(queue[q]) + 1] = x
       /\ Once(Append(queue[q], x))
       /\ \A e : Has(Append(queue[q], x), e) <=> Has(queue[q], e) \/ e = x
  <2>1. ~Has(queue[q], x) /\ Once(queue[q]) /\ queue[q] \in Seq(Events)
    BY <1>4, <1>6, <1>14, <1>16, <1>17
  <2> QED BY <1>6, <2>1, AppendHas
<1>19. Types'
  <2>1. queue' \in [Queues -> Seq(Events)]
    BY <1>3, <1>14, <1>18
  <2>2. Append(linked[q], c) \in Seq(Ids)
    BY <1>4, <1>7, <1>14
  <2>3. linked' \in [Queues -> Seq(Ids)]
    BY <1>3, <1>14, <2>2
  <2>4. FieldsOK'
    BY <1>3, <1>10, <1>11, <1>13, <2>1, <2>3 DEF IInv, Types, FieldsOK
  <2> QED BY <1>3, <1>10, <1>11, <2>4 DEF IInv, Types
<1>20. ThreadsAre'
  <2>1. r.call = "read" => r.room >= 1
    BY <1>9 DEF IInv, ThreadsAre
  <2>2. t \in config.threads /\ (t \in Callbacks => ~config.progress)
    BY <1>3 DEF IInv, ThreadsAre, At
  <2>3. t \in Callbacks => /\ thread'[t].pc \in Adding \cup {"idle"}
                           /\ config.progress => thread'[t].pc = "idle"
    BY <1>9, <1>10, <2>2 DEF Adding, Uncounted
  <2> QED BY <1>3, <1>10, <2>1, <2>2, <2>3, ThreadsKept DEF IInv
<1>21. HoldsAre'
  <2> SUFFICES ASSUME NEW u \in Threads
               PROVE  /\ thread'[u].comp # 0 <=> thread'[u].pc \in Adding
                      /\ thread'[u].comp <= Len(issued)
                      /\ thread'[u].event # 0 <=> thread'[u].pc = "add_link"
                      /\ thread'[u].pc = "add_link" =>
                           /\ thread'[u].event \in Events
                           /\ entry[thread'[u].event] = thread'[u].comp
    BY <1>3, <1>11 DEF HoldsAre, At
  <2>1. CASE u = t
    BY <1>6, <1>9, <1>10, <2>1 DEF Adding, Uncounted
  <2>2. CASE u # t
    BY <1>10, <2>2 DEF IInv, HoldsAre, At
  <2> QED BY <2>1, <2>2
<1>22. ListsApart'
  <2>1. \A e : ~Held(e)'
    BY <1>9, <1>10, <1>12 DEF Held, At
  <2>2. \A e : Has(free, e)' <=> Has(free, e)
    BY <1>3 DEF Has
  <2>3. \A e : \A p \in Queues : Has(queue[p], e)' <=> Has(queue[p], e) \/ (p = q /\ e = x)
    <3> SUFFICES ASSUME NEW e, NEW p \in Queues
                 PROVE  Has(queue'[p], e) <=> Has(queue[p], e) \/ (p = q /\ e = x)
      BY DEF Has
    <3>1. CASE p = q
      BY <1>15, <1>18, <3>1
    <3>2. CASE p # q
      BY <1>15, <3>2
    <3> QED BY <3>1, <3>2
  <2>4. Once(free') /\ \A p \in Queues : Once(queue'[p])
    <3>1. \A p \in Queues : Once(queue'[p])
      BY <1>15, <1>16, <1>18
    <3> QED BY <1>3, <1>16, <3>1
  <2>5. Once(free)' /\ \A p \in Queues : Once(queue[p])'
    BY <2>4 DEF Once
  <2>6. ASSUME NEW e \in Events
        PROVE  /\ Has(free, e)' => \A p \in Queues : ~Has(queue[p], e)'
               /\ ~(Has(queue["event"], e)' /\ Has(queue["error"], e)')
               /\ Has(free, e)' \/ \E p \in Queues : Has(queue[p], e)'
    <3>1. CASE e = x
      <4>1. ~Has(free, e) /\ \A p \in Queues : ~Has(queue[p], e)
        BY <1>16, <1>17, <3>1
      <4> QED BY <1>4, <2>2, <2>3, <3>1, <4>1 DEF Queues
    <3>2. CASE e # x
      <4>1. /\ Has(free, e) => \A p \in Queues : ~Has(queue[p], e)
            /\ ~(Has(queue["event"], e) /\ Has(queue["error"], e))
            /\ Has(free, e) \/ \E p \in Queues : Has(queue[p], e)
        BY <1>16, <1>17, <3>2
      <4> QED BY <2>2, <2>3, <3>2, <4>1 DEF Queues
    <3> QED BY <3>1, <3>2
  <2> QED BY <1>11, <2>1, <2>5, <2>6 DEF ListsApart
<1>23. PICK m : m = Len(linked[q])
  OBVIOUS
<1>24. /\ linked[q] \in Seq(Ids) /\ m \in Nat /\ Len(linked'[q]) = m + 1
       /\ linked'[q][m + 1] = c /\ \A i \in 1 .. m : linked'[q][i] = linked[q][i]
  BY <1>4, <1>7, <1>14, <1>15, <1>23
<1>25. QueuesHold'
  <2> SUFFICES ASSUME NEW p \in Queues PROVE QueueHolds(p)'
    BY DEF QueuesHold
  <2>1. QueueHolds(p)
    BY DEF IInv, QueuesHold
  <2>2. CASE p # q
    BY <1>3, <1>15, <2>1, <2>2 DEF QueueHolds
  <2>3. CASE p = q
    <3>1. PICK d, n : d = Len(delivered[q]) /\ n = Len(queue[q])
      OBVIOUS
    <3>2. /\ d \in Nat /\ n \in Nat /\ m = d + n
          /\ \A i \in 1 .. d : linked[q][i] = delivered[q][i]
          /\ \A i \in 1 .. n : linked[q][d + i] = entry[queue[q][i]]
      <4>1. delivered[q] \in Seq(Ids)
        BY <1>4, <1>14
      <4>2. d \in Nat /\ n \in Nat
        BY <1>18, <3>1, <4>1, LenProperties
      <4> QED BY <1>23, <2>1, <2>3, <3>1, <4>2 DEF QueueHolds
    <3>3. Len(queue'[q]) = n + 1 /\ queue'[q][n + 1] = x
          /\ \A i \in 1 .. n : queue'[q][i] = queue[q][i]
      BY <1>15, <1>18, <3>1
    <3>4. \A i \in 1 .. d : linked'[q][i] = delivered[q][i]
      BY <1>24, <3>2
    <3>5. ASSUME NEW i \in 1 .. n + 1 PROVE linked'[q][d + i] = entry[queue'[q][i]]
      <4>1. CASE i = n + 1
        <5>1. d + i = m + 1
          BY <3>2, <4>1
        <5> QED BY <1>6, <1>24, <3>3, <4>1, <5>1
      <4>2. CASE i \in 1 .. n
        <5>1. d + i \in 1 .. m
          BY <3>2, <4>2
        <5> QED BY <1>24, <3>2, <3>3, <4>2, <5>1
      <4> QED BY <3>2, <4>1, <4>2
    <3>6. Len(linked'[q]) = d + Len(queue'[q])
      BY <1>24, <3>2, <3>3
    <3> QED BY <1>3, <2>3, <3>1, <3>3, <3>4, <3>5, <3>6, ZenonT(60) DEF QueueHolds
  <2> QED BY <2>2, <2>3
<1>26. \A p \in Queues : \A i \in 1 .. Len(linked[p]) : linked[p][i] # c /\ linked[p][i] <= Len(issued)
  BY <1>1, <1>3 DEF IInv, CompletionsAre, Unlinked
<1>27. CompletionsAre'
  <2>1. \A u, w \in Threads :
          thread'[u].comp = thread'[w].comp /\ thread'[u].comp # 0 => u = w
    <3>1. \A u \in Threads : thread'[u].comp = thread[u].comp
      BY <1>1, <1>9, <1>10
    <3> QED BY <3>1 DEF IInv, CompletionsAre
  <2>2. \A u \in Threads : thread'[u].pc \in Unlinked =>
          u # t /\ thread'[u] = thread[u] /\ thread[u].comp # c
    <3>1. thread'[t].pc \notin Unlinked
      BY <1>9, <1>10 DEF Unlinked
    <3> QED BY <1>1, <1>6, <1>10, <3>1 DEF IInv, CompletionsAre
  <2>3. ASSUME NEW p \in Queues, NEW i \in 1 .. Len(linked'[p])
        PROVE  /\ linked'[p][i] <= Len(issued)
               /\ \A u \in Threads : thread'[u].pc \in Unlinked => thread'[u].comp # linked'[p][i]
    <3>1. CASE p = q /\ i = m + 1
      BY <1>6, <1>24, <2>2, <3>1
    <3>2. CASE p = q /\ i # m + 1
      <4>1. i \in 1 .. m /\ linked'[p][i] = linked[p][i]
        BY <1>24, <2>3, <3>2
      <4> QED BY <1>23, <2>2, <3>2, <4>1 DEF IInv, CompletionsAre
    <3>3. CASE p # q
      BY <1>15, <2>2, <2>3, <3>3 DEF IInv, CompletionsAre
    <3> QED BY <3>1, <3>2, <3>3
  <2>4. \A u \in Threads : thread'[u].pc = "count" => issued[thread'[u].comp] # "irq"
    BY <1>9, <1>10 DEF IInv, CompletionsAre, At
  <2> QED BY <1>3, <2>1, <2>3, <2>4 DEF CompletionsAre, At
<1>28. c \in Reported <=> kind # "irq"
  BY <1>1, <1>7 DEF Reported
<1>29. t \notin NotYetCounted /\ Reported' = Reported
       /\ NotYetCounted' = IF kind = "irq" THEN NotYetCounted ELSE NotYetCounted \cup {t}
  <2>1. Reported' = Reported
    BY <1>3 DEF Reported
  <2>2. t \notin NotYetCounted
    BY <1>3 DEF NotYetCounted, At
  <2>3. t \in NotYetCounted' <=> kind # "irq"
    BY <1>9, <1>10, <1>28, <2>1 DEF NotYetCounted, At
  <2>4. \A u \in Threads : u # t => (u \in NotYetCounted' <=> u \in NotYetCounted)
    BY <1>10, <2>1 DEF NotYetCounted, At
  <2>5. NotYetCounted' \subseteq Threads /\ NotYetCounted \subseteq Threads
    BY DEF NotYetCounted
  <2> QED BY <2>1, <2>2, <2>3, <2>4, <2>5
<1>30. \A k \in {"ok", "err"} :
         Late(k)' = (IF k = kind THEN Late(k) \cup {t} ELSE Late(k)) /\ t \notin Late(k)
  <2>1. \A u \in Threads : thread'[u].comp = thread[u].comp
    BY <1>1, <1>9, <1>10
  <2>2. \A u \in NotYetCounted : u \in Threads
    BY DEF NotYetCounted
  <2>3. ASSUME NEW k \in {"ok", "err"}
        PROVE  Late(k)' = (IF k = kind THEN Late(k) \cup {t} ELSE Late(k)) /\ t \notin Late(k)
    <3>1. t \notin Late(k)
      BY <1>29 DEF Late
    <3>2. CASE k = kind
      <4>1. kind # "irq"
        BY <2>3, <3>2
      <4> QED BY <1>1, <1>3, <1>29, <2>1, <2>2, <3>1, <3>2, <4>1 DEF Late
    <3>3. CASE k # kind
      BY <1>1, <1>3, <1>29, <2>1, <2>2, <3>1, <3>3 DEF Late
    <3> QED BY <3>1, <3>2, <3>3
  <2> QED BY <2>3
<1>31. /\ c \notin PutIn(q)
       /\ PutIn(q)' = IF kind = "irq" THEN PutIn(q) ELSE PutIn(q) \cup {c}
       /\ \A p \in Queues : p # q => PutIn(p)' = PutIn(p)
  <2>1. DOMAIN linked[q] = 1 .. m /\ DOMAIN linked'[q] = 1 .. m + 1
    <3>1. linked'[q] \in Seq(Ids)
      BY <1>4, <1>19 DEF Types, FieldsOK
    <3> QED BY <1>23, <1>24, <3>1, LenProperties
  <2>2. \A id : (\E i \in 1 .. m + 1 : linked'[q][i] = id)
                <=> id = c \/ \E i \in 1 .. m : linked[q][i] = id
    <3>1. ASSUME NEW id, NEW i \in 1 .. m + 1, linked'[q][i] = id
          PROVE  id = c \/ \E j \in 1 .. m : linked[q][j] = id
      <4>1. i = m + 1 \/ i \in 1 .. m
        BY <1>24, <3>1
      <4> QED BY <1>24, <3>1, <4>1
    <3>2. ASSUME NEW id, id = c \/ \E j \in 1 .. m : linked[q][j] = id
          PROVE  \E i \in 1 .. m + 1 : linked'[q][i] = id
      <4>1. m + 1 \in 1 .. m + 1 /\ \A j \in 1 .. m : j \in 1 .. m + 1
        BY <1>24
      <4> QED BY <1>24, <3>2, <4>1
    <3> QED BY <3>1, <3>2
  <2>3. c \notin PutIn(q)
    BY <1>4, <1>23, <1>26, <2>1 DEF PutIn
  <2>4. PutIn(q)' = IF kind = "irq" THEN PutIn(q) ELSE PutIn(q) \cup {c}
    BY <1>28, <1>29, <2>1, <2>2 DEF PutIn
  <2>5. \A p \in Queues : p # q => PutIn(p)' = PutIn(p)
    BY <1>15, <1>29 DEF PutIn
  <2> QED BY <2>3, <2>4, <2>5
<1>32. LateFinite'
  BY <1>30, FS_AddElement DEF IInv, LateFinite
<1>33. Counted'
  <2>1. /\ count - base + Cardinality(Late("ok")) = Cardinality(PutIn("event"))
        /\ errs + Cardinality(Late("err")) = Cardinality(PutIn("error"))
    BY DEF IInv, Counted, Late
  <2>2. /\ IsFiniteSet(Late("ok")) /\ IsFiniteSet(Late("err"))
        /\ IsFiniteSet(PutIn("event")) /\ IsFiniteSet(PutIn("error"))
    BY PutInFinite DEF IInv, LateFinite
  <2>3. /\ Cardinality(Late("ok")) \in Nat /\ Cardinality(Late("err")) \in Nat
        /\ Cardinality(PutIn("event")) \in Nat /\ Cardinality(PutIn("error")) \in Nat
        /\ count \in Nat /\ base \in Int /\ errs \in Nat
    BY <2>2, FS_CardinalityType DEF IInv, Types, FieldsOK
  <2>4. /\ Cardinality(Late("ok")') = (IF kind = "ok" THEN Cardinality(Late("ok")) + 1
                                       ELSE Cardinality(Late("ok")))
        /\ Cardinality(Late("err")') = (IF kind = "err" THEN Cardinality(Late("err")) + 1
                                        ELSE Cardinality(Late("err")))
    BY <1>30, <2>2, FS_AddElement
  <2>5. /\ Cardinality(PutIn("event")') = (IF kind = "ok" THEN Cardinality(PutIn("event")) + 1
                                           ELSE Cardinality(PutIn("event")))
        /\ Cardinality(PutIn("error")') = (IF kind = "err" THEN Cardinality(PutIn("error")) + 1
                                           ELSE Cardinality(PutIn("error")))
    <3>1. CASE kind = "ok"
      BY <1>1, <1>31, <2>2, <3>1, FS_AddElement DEF Queues
    <3>2. CASE kind = "err"
      BY <1>1, <1>31, <2>2, <3>2, FS_AddElement DEF Queues
    <3>3. CASE kind = "irq"
      BY <1>1, <1>31, <3>3 DEF Queues
    <3> QED BY <1>7, <3>1, <3>2, <3>3
  <2>6. /\ count' - base' + Cardinality(Late("ok")') = Cardinality(PutIn("event")')
        /\ errs' + Cardinality(Late("err")') = Cardinality(PutIn("error")')
    BY <1>7, <1>11, <2>1, <2>3, <2>4, <2>5
  <2> QED BY <2>6 DEF Counted, Late
<1>34. \E v \in Threads : At(v, "signal")'
  BY <1>9, <1>10 DEF At
<1>35. config' = config /\ handle' = handle /\ cond' = cond
  BY <1>3
<1>36. SpinnerIs'
  <2> SUFFICES ASSUME NEW a \in Apps, Readers' = {a}
               PROVE  /\ thread'[a].pc \in {"sleep_lock", "asleep"} => ~handle' /\ ~config'.progress
                      /\ config'.spin =>
                           /\ At(a, "asleep")' => cond'.locked = thread'[a].ticket + 1
                                                 /\ cond'.released >= thread'[a].ticket
                           /\ ~At(a, "asleep")' => cond'.released >= cond'.locked
                           /\ At(a, "sleep_lock")' /\ queue'["event"] # <<>> =>
                                cond'.released > cond'.locked \/ \E v \in Threads : At(v, "signal")'
    BY DEF SpinnerIs
  <2>1. Readers = {a}
    BY <1>35 DEF Readers
  <2>2. CASE a = t
    BY <1>3, <1>9, <1>10, <1>35, <2>1, <2>2 DEF IInv, SpinnerIs, At
  <2>3. CASE a # t
    <3>1. thread'[a] = thread[a]
      BY <1>10, <2>3 DEF Threads
    <3> QED BY <1>34, <1>35, <2>1, <3>1 DEF IInv, SpinnerIs, At
  <2> QED BY <2>2, <2>3
<1>37. SpinnersCalled'
  BY <1>34 DEF SpinnersCalled, SpinnerCalled
<1> QED
  BY <1>13, <1>19, <1>20, <1>21, <1>22, <1>25, <1>27, <1>32, <1>33, <1>36, <1>37 DEF IInv

-----------------------------------------------------------------------------
(* A completion that is read.                                               *)

\* cq_read_priv removes the head of the queue, copies it out and puts the struct
\* on the free list, or releases the lock when it has enough.
LEMMA TakeKeeps == ASSUME IInv, ~Race, NEW t \in Threads, Take(t) PROVE IInv'
<1>1. PICK q, x : q = Source(t) /\ x = Head(queue[q])
  OBVIOUS
<1>2. PICK r : r = [thread[t] EXCEPT !.got = thread[t].got + 1]
  OBVIOUS
<1>3. /\ thread' = [thread EXCEPT ![t] = r] /\ thread[t].pc = "take" /\ queue[q] # <<>>
      /\ delivered' = [delivered EXCEPT ![q] = Append(delivered[q], entry[x])]
      /\ queue' = [queue EXCEPT ![q] = Tail(queue[q])]
      /\ free' = Append(free, x)
      /\ UNCHANGED <<config, handle, irq, lock, entry, cond, issued, linked, cntrVars>>
  BY <1>1, <1>2 DEF Take, At, EntryRead
<1>4. q \in Queues /\ q \in {"event", "error"}
  BY <1>1 DEF Source, Queues
<1>5. thread[t] \in ThreadSet /\ thread[t].got \in Nat
  BY FieldsAre DEF IInv
<1>6. r \in ThreadSet
  BY <1>2, <1>5 DEF ThreadSet
<1>7. /\ r.pc = "take" /\ r.comp = thread[t].comp /\ r.event = thread[t].event
      /\ r.call = thread[t].call /\ r.room = thread[t].room
  BY <1>2, <1>3, <1>5 DEF ThreadSet
<1>8. /\ thread' \in [Threads -> ThreadSet] /\ DOMAIN thread' = Threads
      /\ thread'[t] = r
      /\ \A u \in Threads : u # t => thread'[u] = thread[u]
  BY <1>3, <1>6, MovesTo DEF IInv
<1>9. /\ count' = count /\ base' = base /\ errs' = errs /\ Events' = Events
      /\ issued' = issued /\ linked' = linked /\ entry' = entry
  BY <1>3 DEF cntrVars, Events
<1>10. \A e : ~Held(e)
  BY <1>3, NoneHeld DEF Held, At
<1>11. /\ queue \in [Queues -> Seq(Events)] /\ linked \in [Queues -> Seq(Ids)]
       /\ delivered \in [Queues -> Seq(Ids)] /\ free \in Seq(Events)
  BY DEF IInv, Types, FieldsOK
<1>12. /\ queue'[q] = Tail(queue[q]) /\ delivered'[q] = Append(delivered[q], entry[x])
       /\ \A p \in Queues : p # q => queue'[p] = queue[p] /\ delivered'[p] = delivered[p]
  BY <1>3, <1>4, <1>11
<1>13. /\ Once(free) /\ \A p \in Queues : Once(queue[p])
       /\ \A e \in Events :
            /\ Has(free, e) => \A p \in Queues : ~Has(queue[p], e)
            /\ ~(Has(queue["event"], e) /\ Has(queue["error"], e))
            /\ Has(free, e) \/ \E p \in Queues : Has(queue[p], e)
  BY <1>10 DEF IInv, ListsApart
<1>14. /\ Tail(queue[q]) \in Seq(Events) /\ x \in Events /\ x = queue[q][1]
       /\ Once(Tail(queue[q])) /\ Has(queue[q], x)
       /\ Len(queue[q]) \in Nat /\ Len(queue[q]) >= 1 /\ Len(Tail(queue[q])) = Len(queue[q]) - 1
       /\ \A i \in 1 .. Len(Tail(queue[q])) : Tail(queue[q])[i] = queue[q][i + 1]
       /\ \A e : Has(Tail(queue[q]), e) <=> Has(queue[q], e) /\ e # x
  <2>1. queue[q] \in Seq(Events) /\ Once(queue[q])
    BY <1>4, <1>11, <1>13
  <2> QED BY <1>1, <1>3, <2>1, TailHas
<1>15. /\ Append(free, x) \in Seq(Events) /\ Once(Append(free, x))
       /\ \A e : Has(Append(free, x), e) <=> Has(free, e) \/ e = x
  <2>1. ~Has(free, x)
    BY <1>4, <1>13, <1>14
  <2> QED BY <1>11, <1>13, <1>14, <2>1, AppendHas
<1>16. PICK d, n, m : d = Len(delivered[q]) /\ n = Len(queue[q]) /\ m = Len(linked[q])
  OBVIOUS
<1>17. /\ d \in Nat /\ n \in Nat /\ n >= 1 /\ m = d + n
       /\ \A i \in 1 .. d : linked[q][i] = delivered[q][i]
       /\ \A i \in 1 .. n : linked[q][d + i] = entry[queue[q][i]]
  <2>1. QueueHolds(q) /\ delivered[q] \in Seq(Ids)
    BY <1>4, <1>11 DEF IInv, QueuesHold
  <2>2. d \in Nat /\ n \in Nat
    BY <1>14, <1>16, <2>1, LenProperties
  <2> QED BY <1>14, <1>16, <2>1, <2>2 DEF QueueHolds
<1>18. linked[q][d + 1] = entry[x] /\ entry[x] \in Ids
  <2>1. linked[q][d + 1] = entry[x]
    BY <1>14, <1>17
  <2>2. linked[q] \in Seq(Ids) /\ d + 1 \in 1 .. m
    BY <1>4, <1>11, <1>17
  <2>3. linked[q][d + 1] \in Ids
    BY <1>16, <2>2, ElementOfSeq
  <2> QED BY <2>1, <2>3
<1>19. /\ Append(delivered[q], entry[x]) \in Seq(Ids) /\ Len(delivered'[q]) = d + 1
       /\ delivered'[q][d + 1] = entry[x]
       /\ \A i \in 1 .. d : delivered'[q][i] = delivered[q][i]
  <2>1. delivered[q] \in Seq(Ids)
    BY <1>4, <1>11
  <2> QED BY <1>12, <1>16, <1>18, <2>1
<1>20. Types'
  <2>1. queue' \in [Queues -> Seq(Events)] /\ delivered' \in [Queues -> Seq(Ids)]
    BY <1>3, <1>11, <1>14, <1>19
  <2>2. FieldsOK'
    BY <1>3, <1>8, <1>9, <1>15, <2>1 DEF IInv, Types, FieldsOK
  <2> QED BY <1>3, <1>8, <1>9, <2>2 DEF IInv, Types
<1>21. t \in Apps /\ t \in config.threads
  <2>1. thread[t].pc \notin Adding /\ thread[t].pc # "idle"
    BY <1>3 DEF Adding, Unlinked, Uncounted
  <2> QED BY <2>1, CallerIs
<1>22. ThreadsAre'
  <2>1. r.call = "read" => r.room >= 1
    BY <1>7 DEF IInv, ThreadsAre
  <2> QED BY <1>3, <1>8, <1>21, <2>1, ThreadsKept, ThreadsAssumption DEF IInv
<1>23. CriticalHoldsLock'
  <2>1. \A u \in Threads : thread'[u].pc \in Critical => thread[u].pc \in Critical
    BY <1>3, <1>7, <1>8
  <2> QED BY <1>3, <2>1, LockKept DEF IInv
<1>24. \A u \in Threads : /\ thread'[u].pc = thread[u].pc /\ thread'[u].comp = thread[u].comp
                          /\ thread'[u].event = thread[u].event
  BY <1>3, <1>7, <1>8
<1>25. HoldsAre'
  BY <1>9, <1>24 DEF IInv, HoldsAre, At
<1>26. ListsApart'
  <2>1. \A e : ~Held(e)'
    BY <1>10, <1>24 DEF Held, At
  <2>2. \A e : Has(free, e)' <=> Has(free, e) \/ e = x
    BY <1>3, <1>15 DEF Has
  <2>3. \A e : \A p \in Queues : Has(queue[p], e)' <=> Has(queue[p], e) /\ ~(p = q /\ e = x)
    <3> SUFFICES ASSUME NEW e, NEW p \in Queues
                 PROVE  Has(queue'[p], e) <=> Has(queue[p], e) /\ ~(p = q /\ e = x)
      BY DEF Has
    <3>1. CASE p = q
      BY <1>12, <1>14, <3>1
    <3>2. CASE p # q
      BY <1>12, <3>2
    <3> QED BY <3>1, <3>2
  <2>4. Once(free') /\ \A p \in Queues : Once(queue'[p])
    <3>1. \A p \in Queues : Once(queue'[p])
      BY <1>12, <1>13, <1>14
    <3> QED BY <1>3, <1>15, <3>1
  <2>5. Once(free)' /\ \A p \in Queues : Once(queue[p])'
    BY <2>4 DEF Once
  <2>6. ASSUME NEW e \in Events
        PROVE  /\ Has(free, e)' => \A p \in Queues : ~Has(queue[p], e)'
               /\ ~(Has(queue["event"], e)' /\ Has(queue["error"], e)')
               /\ Has(free, e)' \/ \E p \in Queues : Has(queue[p], e)'
    <3>1. CASE e = x
      <4>1. \A p \in Queues : p # q => ~Has(queue[p], x)
        BY <1>4, <1>13, <1>14 DEF Queues
      <4> QED BY <2>2, <2>3, <3>1, <4>1 DEF Queues
    <3>2. CASE e # x
      BY <1>13, <2>2, <2>3, <3>2 DEF Queues
    <3> QED BY <3>1, <3>2
  <2> QED BY <1>9, <2>1, <2>5, <2>6 DEF ListsApart
<1>27. QueuesHold'
  <2> SUFFICES ASSUME NEW p \in Queues PROVE QueueHolds(p)'
    BY DEF QueuesHold
  <2>1. QueueHolds(p)
    BY DEF IInv, QueuesHold
  <2>2. CASE p # q
    BY <1>9, <1>12, <2>1, <2>2 DEF QueueHolds
  <2>3. CASE p = q
    <3>1. Len(queue'[q]) = n - 1 /\ \A i \in 1 .. n - 1 : queue'[q][i] = queue[q][i + 1]
      BY <1>12, <1>14, <1>16
    <3>2. m = Len(delivered'[q]) + Len(queue'[q])
      BY <1>17, <1>19, <3>1
    <3>3. \A i \in 1 .. d + 1 : linked[q][i] = delivered'[q][i]
      <4>1. \A i \in 1 .. d + 1 : i \in 1 .. d \/ i = d + 1
        BY <1>17
      <4> QED BY <1>17, <1>18, <1>19, <4>1
    <3>4. ASSUME NEW i \in 1 .. n - 1 PROVE linked[q][d + 1 + i] = entry[queue'[q][i]]
      <4>1. i + 1 \in 1 .. n /\ d + 1 + i = d + (i + 1)
        BY <1>17
      <4> QED BY <1>17, <3>1, <4>1
    <3> QED BY <1>9, <1>16, <1>19, <2>3, <3>1, <3>2, <3>3, <3>4 DEF QueueHolds
  <2> QED BY <2>2, <2>3
<1>28. CompletionsAre' /\ LateFinite' /\ Counted'
  <2>1. \A u \in Threads : KeepsCompletion(u)
    BY <1>24 DEF KeepsCompletion, IInv, CompletionsAre, At
  <2>2. count' - base' = count - base
    BY <1>9
  <2> QED BY <1>9, <2>1, <2>2, CountsKept
<1>29. ASSUME NEW a \in Apps, Readers = {a} PROVE a = t
  <2>1. thread[t].pc \notin Adding /\ thread[t].pc # "idle"
    BY <1>3 DEF Adding, Unlinked, Uncounted
  <2> QED BY <1>29, <2>1, OnlyReader
<1>30. Readers' = Readers /\ config' = config /\ handle' = handle /\ cond' = cond
  BY <1>3 DEF Readers
<1>31. thread'[t].pc = "take"
  BY <1>7, <1>8
<1>32. SpinnerIs'
  BY <1>3, <1>29, <1>30, <1>31 DEF IInv, SpinnerIs, At
<1>33. SpinnersCalled'
  BY <1>29, <1>30, <1>31 DEF SpinnersCalled, SpinnerCalled, At
<1> QED
  BY <1>20, <1>22, <1>23, <1>25, <1>26, <1>27, <1>28, <1>32, <1>33 DEF IInv

-----------------------------------------------------------------------------
(* The invariant.                                                           *)

\* An open queue with its structs on the free list satisfies the invariant.
LEMMA InitInv == Init => IInv
<1> SUFFICES ASSUME Init PROVE IInv
  OBVIOUS
<1>1. /\ config \in Configs /\ handle = FALSE /\ irq = FALSE /\ lock = "free"
      /\ free = [i \in 1 .. FreeSize |-> i] /\ queue = [q \in Queues |-> <<>>]
      /\ entry = [e \in 1 .. FreeSize |-> 0] /\ cond = [locked |-> 0, released |-> 0]
      /\ thread = [t \in Threads |-> IdleThread] /\ issued = <<>>
      /\ linked = [q \in Queues |-> <<>>] /\ delivered = [q \in Queues |-> <<>>]
      /\ base = 0 /\ count = 0 /\ errs = 0
  BY DEF Init
<1>2. Events = 1 .. FreeSize /\ FreeSize \in Nat /\ Cardinality(Events) = FreeSize
  <2>1. FreeSize \in Nat /\ Events = 1 .. FreeSize
    BY <1>1, NumbersAssumption DEF Events
  <2>2. Cardinality(1 .. FreeSize) = FreeSize
    <3>1. Cardinality(1 .. FreeSize) = (IF 1 > FreeSize THEN 0 ELSE FreeSize - 1 + 1)
      BY <2>1, FS_Interval
    <3> QED BY <2>1, <3>1
  <2> QED BY <2>1, <2>2
<1>3. \A t \in Threads :
        /\ thread[t].pc = "idle" /\ thread[t].comp = 0 /\ thread[t].event = 0
        /\ thread[t].call = "none" /\ thread[t] \in ThreadSet
  BY <1>1, IdleIs DEF IdleThread
<1>4. \A s : s = <<>> => Len(s) = 0
  OBVIOUS
<1>5. /\ Len(issued) = 0 /\ issued \in Seq({"ok", "err", "irq"})
      /\ \A q \in Queues : /\ queue[q] = <<>> /\ Len(queue[q]) = 0
                           /\ linked[q] = <<>> /\ Len(linked[q]) = 0
                           /\ delivered[q] = <<>> /\ Len(delivered[q]) = 0
  BY <1>1, <1>4
<1>6. free \in Seq(Events) /\ Len(free) = FreeSize /\ \A i \in 1 .. FreeSize : free[i] = i
  BY <1>1, <1>2
<1>7. config.completions \in Nat
  <2>1. config \in ConfigSet
    BY <1>1, ConfigsAssumption
  <2>2. config.completions \in 0 .. MaxCompletions
    BY <2>1 DEF ConfigSet
  <2> QED BY <2>2, NumbersAssumption
<1>8. Types
  <2>1. /\ queue \in [Queues -> Seq(Events)]
        /\ linked \in [Queues -> Seq(Ids)] /\ delivered \in [Queues -> Seq(Ids)]
    <3>1. <<>> \in Seq(Events) /\ <<>> \in Seq(Ids)
      OBVIOUS
    <3> QED BY <1>1, <3>1
  <2>2. /\ entry \in [Events -> Ids \cup {0}] /\ cond \in [locked : Nat, released : Nat]
        /\ DOMAIN thread = Threads /\ lock \in Threads \cup {"free"}
    BY <1>1, <1>2
  <2>3. FieldsOK
    <3>1. config \in Configs /\ handle \in BOOLEAN /\ irq \in BOOLEAN
      BY <1>1
    <3>2. Events = 1 .. Cardinality(Events) /\ free \in Seq(Events)
      BY <1>2, <1>6
    <3>3. base \in Int /\ count \in Nat /\ errs \in Nat
      BY <1>1
    <3> QED BY <1>5, <2>1, <2>2, <3>1, <3>2, <3>3 DEF FieldsOK
  <2>4. thread \in [Threads -> ThreadSet]
    BY <1>1, IdleIs
  <2>5. Len(issued) <= config.completions
    BY <1>5, <1>7
  <2> QED BY <1>2, <2>3, <2>4, <2>5 DEF Types
<1>9. ThreadsAre /\ CriticalHoldsLock /\ HoldsAre
  BY <1>3, <1>5 DEF ThreadsAre, CriticalHoldsLock, HoldsAre, At, Adding, Unlinked, Uncounted, Critical
<1>10. ListsApart
  <2>1. \A e : ~Held(e)
    BY <1>3 DEF Held, At
  <2>2. \A e, q : q \in Queues => ~Has(queue[q], e)
    BY <1>5 DEF Has
  <2>3. Once(free) /\ \A q \in Queues : Once(queue[q])
    BY <1>5, <1>6 DEF Once
  <2>4. \A e \in Events : Has(free, e)
    BY <1>2, <1>6 DEF Has
  <2> QED BY <2>1, <2>2, <2>3, <2>4 DEF ListsApart, Queues
<1>11. QueuesHold
  <2>1. \A q \in Queues : QueueHolds(q)
    <3> SUFFICES ASSUME NEW q \in Queues PROVE QueueHolds(q)
      OBVIOUS
    <3>1. Len(linked[q]) = 0 /\ Len(delivered[q]) = 0 /\ Len(queue[q]) = 0
      BY <1>5
    <3>2. Len(linked[q]) = Len(delivered[q]) + Len(queue[q])
      BY <3>1
    <3>3. 1 .. Len(delivered[q]) = {} /\ 1 .. Len(queue[q]) = {}
      BY <3>1
    <3> QED BY <3>2, <3>3 DEF QueueHolds
  <2> QED BY <2>1 DEF QueuesHold
<1>12. CompletionsAre
  BY <1>3, <1>5 DEF CompletionsAre, At, Unlinked
<1>13. \A kind : Late(kind) = {}
  BY <1>3 DEF Late, NotYetCounted, At
<1>14. \A q \in Queues : PutIn(q) = {}
  BY <1>5 DEF PutIn, Reported
<1>15. LateFinite
  BY <1>13, FS_EmptySet DEF LateFinite
<1>16. Counted
  <2>1. /\ count - base + Cardinality(Late("ok")) = Cardinality(PutIn("event"))
        /\ errs + Cardinality(Late("err")) = Cardinality(PutIn("error"))
    <3>1. Late("ok") = {} /\ Late("err") = {} /\ PutIn("event") = {} /\ PutIn("error") = {}
      BY <1>13, <1>14 DEF Queues
    <3>2. Cardinality({}) = 0
      BY FS_EmptySet
    <3>3. count - base + 0 = 0 /\ errs + 0 = 0
      BY <1>1
    <3> QED BY <3>1, <3>2, <3>3
  <2> QED BY <2>1 DEF Counted, Late
<1>17. SpinnerIs /\ SpinnersCalled
  BY <1>1, <1>3 DEF SpinnerIs, SpinnersCalled, SpinnerCalled, At, Threads
<1> QED
  BY <1>8, <1>9, <1>10, <1>11, <1>12, <1>15, <1>16, <1>17 DEF IInv

\* The invariant and what is said of a race: up to it there is none.
RInv == IInv /\ raced \in BOOLEAN /\ (~raced => ~Race) /\ RaceUnlocked

\* Every step of every thread keeps the invariant, until there is a race.
LEMMA StepInv == ASSUME IInv, ~Race, Step PROVE IInv'
<1>1. ASSUME NEW t \in Threads, AddNext(t) PROVE IInv'
  BY <1>1, AddLockKeeps, AddTakeKeeps, AddLinkKeeps, SignalKeeps, CountKeeps DEF AddNext
<1>2. ASSUME NEW t \in Threads, ReadNext(t) PROVE IInv'
  BY <1>2, ProgressEndKeeps, TakeInterruptKeeps, InterruptEndKeeps, TakeLockKeeps, TakeKeeps,
     TakeEndKeeps, SleepKeeps, WakeLockKeeps, CntrStepKeeps DEF ReadNext
<1>3. ASSUME NEW t \in Threads, CallNext(t) PROVE IInv'
  BY <1>3, ReadKeeps, ReadErrKeeps, CntrWaitKeeps, CntrSetKeeps, SignalCallKeeps, WaitDataKeeps
     DEF CallNext
<1>4. ASSUME NEW t \in Threads,
             Complete(t) \/ SpinEnd(t) \/ SpuriousWakeup(t) \/ InterruptFails(t)
      PROVE  IInv'
  BY <1>4, CompleteKeeps, WakeKeeps, InterruptEndKeeps
<1>5. CASE Trigger
  BY <1>5, TriggerKeeps
<1> QED
  BY <1>1, <1>2, <1>3, <1>4, <1>5 DEF Step

\* A thread that does something without the lock under manual progress is the
\* one of the application.
LEMMA OneThread ==
  ASSUME Types, ThreadsAre, ~config.locking, config.progress,
         NEW t \in Threads, NEW u \in Threads, ~At(u, "idle"), t \in Readers \/ ~At(t, "idle")
  PROVE  t = u
<1>1. PICK a \in Apps : Readers = {a}
  BY ConfigIs
<1>2. u \in Readers /\ t \in Readers
  BY DEF ThreadsAre, Readers, Threads
<1> QED
  BY <1>1, <1>2

\* DPAlib's threads complete operations on a queue that takes no lock.
Unlocked == ~config.locking /\ ~config.progress

\* Two threads in the lists or in the counter: not with the lock, and not under
\* manual progress.
LEMMA RaceTakesTwo == Types /\ ThreadsAre /\ Race => Unlocked
<1> SUFFICES ASSUME Types, ThreadsAre, Race PROVE Unlocked
  OBVIOUS
<1>1. ~config.locking
  BY DEF Race
<1>2. ASSUME config.progress PROVE FALSE
  <2>1. PICK t, u \in Threads :
          /\ t # u
          /\ \/ thread[t].pc \in InLists /\ thread[u].pc \in InLists
             \/ At(t, "count") /\ At(u, "count")
    BY DEF Race
  <2>2. ~At(t, "idle") /\ ~At(u, "idle")
    BY <2>1 DEF InLists, At
  <2> QED BY <1>1, <1>2, <2>1, <2>2, OneThread
<1> QED
  BY <1>1, <1>2 DEF Unlocked

\* The same after a step.
LEMMA NextRaceTakesTwo == Types' /\ ThreadsAre' /\ Race' => Unlocked'
BY RaceTakesTwo, PTL

\* As much holds of a counter that is set while it counts.
LEMMA SetTakesTwo ==
  ASSUME Types, ThreadsAre, SetWhileCounted
  PROVE  Unlocked
<1>1. PICK t, u \in Threads : CntrSet(t) /\ At(u, "count")
  BY DEF SetWhileCounted
<1>2. ~config.locking /\ t \in Readers /\ At(t, "idle")
  BY <1>1 DEF SetWhileCounted, CntrSet, MayCall
<1>3. ASSUME config.progress PROVE FALSE
  <2>1. ~At(u, "idle")
    BY <1>1 DEF At
  <2> QED BY <1>2, <1>3, <2>1, OneThread
<1> QED
  BY <1>2, <1>3 DEF Unlocked

\* No step changes the configuration.
LEMMA ConfigStays == ASSUME Step PROVE config' = config
<1>1. ASSUME NEW t \in Threads, AddNext(t) PROVE config' = config
  BY <1>1 DEF AddNext, AddLock, AddTake, AddLink, Signal, Count
<1>2. ASSUME NEW t \in Threads, ReadNext(t) PROVE config' = config
  BY <1>2 DEF ReadNext, ProgressEnd, TakeInterrupt, InterruptTimeout, TakeLock, Take, TakeEnd,
              Sleep, WakeLock, CntrStep
<1>3. ASSUME NEW t \in Threads, CallNext(t) PROVE config' = config
  BY <1>3 DEF CallNext, Read, ReadErr, CntrWait, CntrSet, SignalCall, WaitData
<1>4. ASSUME NEW t \in Threads,
             Complete(t) \/ SpinEnd(t) \/ SpuriousWakeup(t) \/ InterruptFails(t)
      PROVE  config' = config
  BY <1>4 DEF Complete, SpinEnd, SpuriousWakeup, InterruptFails
<1> QED
  BY <1>1, <1>2, <1>3, <1>4 DEF Step, Trigger

\* The steps up to a race and the one that is a race keep it all.
LEMMA NextInv == RInv /\ [Next]_vars => RInv'
<1>1. ASSUME RInv, Next PROVE RInv'
  <2>1. IInv /\ ~raced /\ ~Race /\ Step
    BY <1>1 DEF RInv, Next, UpToRace
  <2>2. IInv'
    BY <2>1, StepInv
  <2>3. config' = config
    BY <2>1, ConfigStays
  <2>4. raced' = (Race' \/ SetWhileCounted)
    BY <1>1 DEF Next, UpToRace
  <2>5. Race' => Unlocked
    BY <2>2, <2>3, NextRaceTakesTwo DEF IInv, Unlocked
  <2>6. SetWhileCounted => Unlocked
    BY <2>1, SetTakesTwo DEF IInv
  <2>7. RaceUnlocked'
    BY <2>3, <2>4, <2>5, <2>6 DEF RaceUnlocked, Unlocked
  <2>8. raced' \in BOOLEAN /\ (~raced' => ~Race')
    BY <2>4
  <2> QED BY <2>2, <2>7, <2>8 DEF RInv
<1>2. ASSUME RInv, UNCHANGED vars PROVE RInv'
  <2>1. /\ UNCHANGED <<config, handle, lock, listVars, cond, thread, historyVars, errs>>
        /\ handle' \in BOOLEAN /\ irq' \in BOOLEAN /\ count' \in Nat /\ base' \in Int
        /\ count' = count /\ base' = base /\ queue' = queue
    BY <1>2 DEF vars, cntrVars, listVars, RInv, IInv, Types, FieldsOK
  <2>2. IInv
    BY <1>2 DEF RInv
  <2>3. /\ Types' /\ ThreadsAre' /\ CriticalHoldsLock'
        /\ HoldsAre' /\ ListsApart' /\ QueuesHold'
        /\ CompletionsAre' /\ LateFinite' /\ Counted'
    BY <2>1, <2>2, StayStep
  <2>4. SpinnerIs' /\ SpinnersCalled'
    BY <2>1, <2>2, SpinKept DEF At
  <2>5. IInv'
    BY <2>3, <2>4 DEF IInv
  <2>6. raced' = raced /\ config' = config /\ thread' = thread
    BY <1>2 DEF vars
  <2>7. Race' <=> Race
    BY <2>6 DEF Race, InLists, At
  <2>8. RaceUnlocked'
    BY <1>2, <2>6 DEF RInv, RaceUnlocked
  <2> QED BY <1>2, <2>5, <2>6, <2>7, <2>8 DEF RInv
<1> QED
  BY <1>1, <1>2

\* An open queue has no race.
LEMMA InitRInv == Init => RInv
<1> SUFFICES ASSUME Init PROVE RInv
  OBVIOUS
<1>1. IInv
  BY InitInv
<1>2. raced = FALSE /\ \A t \in Threads : thread[t].pc = "idle"
  BY DEF Init, IdleThread
<1>3. ~Race
  BY <1>2 DEF Race, InLists, At
<1> QED
  BY <1>1, <1>2, <1>3 DEF RInv, RaceUnlocked

\* Every reachable state satisfies the invariant.
LEMMA Invariant == Spec => []RInv
<1> QED
  BY InitRInv, NextInv, PTL DEF Spec

\* Whatever the configuration, all that a queue and a counter consist of is
\* well typed; in particular the structs are numbered as they are made.
THEOREM TypeCorrect == Spec => []TypeOK
<1>1. RInv => TypeOK
  BY DEF RInv, IInv, Types, TypeOK
<1> QED
  BY <1>1, Invariant, PTL

\* In every configuration, those without the lock and with DPAlib's threads
\* among them, the counter counts the operations whose completion can be read,
\* and the error counter those that failed, but for those between the queue and
\* the count, up to a data race; and there is one only where DPAlib's threads
\* complete operations (automatic progress) on a queue that takes no lock.
THEOREM CounterAgrees == Spec => []CounterFollowsQueue
<1>1. RInv => CounterFollowsQueue
  BY DEF RInv, IInv, CounterFollowsQueue
<1> QED
  BY <1>1, Invariant, PTL

\* The only reader that spins has its ticket called, or is about to, when the
\* queue holds an entry, up to a data race.
THEOREM SpinnerIsCalled == Spec => []SpinnerNotStranded
<1>1. RInv => SpinnerNotStranded
  BY DEF RInv, IInv, SpinnersCalled, SpinnerNotStranded
<1> QED
  BY <1>1, Invariant, PTL

-----------------------------------------------------------------------------
(* What is delivered, and the structs.                                      *)

\* Where a struct is.
LEMMA PlacesAre ==
  ASSUME NEW e, NEW p
  PROVE  p \in Places(e) <=>
           \/ \E i \in DOMAIN free : free[i] = e /\ p = <<"free", i>>
           \/ \E q \in Queues : \E i \in DOMAIN queue[q] : queue[q][i] = e /\ p = <<q, i>>
           \/ \E u \in Threads : thread[u].event = e /\ p = <<"held", u>>
<1> DEFINE A == {<<"free", i>> : i \in {j \in DOMAIN free : free[j] = e}}
           B == UNION {{<<q, i>> : i \in {j \in DOMAIN queue[q] : queue[q][j] = e}} : q \in Queues}
           C == {<<"held", t>> : t \in {u \in Threads : thread[u].event = e}}
<1>1. Places(e) = A \cup B \cup C
  BY DEF Places
<1>2. p \in A <=> \E i \in DOMAIN free : free[i] = e /\ p = <<"free", i>>
  OBVIOUS
<1>3. p \in B <=> \E q \in Queues : \E i \in DOMAIN queue[q] : queue[q][i] = e /\ p = <<q, i>>
  OBVIOUS
<1>4. p \in C <=> \E u \in Threads : thread[u].event = e /\ p = <<"held", u>>
  OBVIOUS
<1> HIDE DEF A, B, C
<1>5. p \in Places(e) <=> p \in A \/ p \in B \/ p \in C
  BY <1>1
<1> QED
  BY <1>2, <1>3, <1>4, <1>5

\* A struct is in one place.
LEMMA OnePlace ==
  ASSUME IInv, ~Race, NEW e \in Events
  PROVE  Cardinality(Places(e)) = 1
<1>1. /\ DOMAIN free = 1 .. Len(free)
      /\ \A q \in Queues : DOMAIN queue[q] = 1 .. Len(queue[q])
  BY LenProperties DEF IInv, Types, FieldsOK
<1>2. \A u \in Threads : thread[u].event = e => thread[u].pc = "add_link"
  <2>1. e # 0
    BY EventsAre DEF IInv
  <2> QED BY <2>1 DEF IInv, HoldsAre, At
<1>3. /\ Once(free) /\ \A q \in Queues : Once(queue[q])
      /\ Has(free, e) => ~Held(e) /\ \A q \in Queues : ~Has(queue[q], e)
      /\ \A q \in Queues : Has(queue[q], e) => ~Held(e)
      /\ ~(Has(queue["event"], e) /\ Has(queue["error"], e))
      /\ Has(free, e) \/ Held(e) \/ \E q \in Queues : Has(queue[q], e)
  BY DEF IInv, ListsApart
<1>4. \A p : p \in Places(e) <=>
        \/ \E i \in 1 .. Len(free) : free[i] = e /\ p = <<"free", i>>
        \/ \E q \in Queues : \E i \in 1 .. Len(queue[q]) : queue[q][i] = e /\ p = <<q, i>>
        \/ \E u \in Threads : thread[u].event = e /\ p = <<"held", u>>
  BY <1>1, PlacesAre
<1>5. Held(e) <=> \E u \in Threads : thread[u].event = e
  BY <1>2 DEF Held, At
<1>6. CASE Has(free, e)
  <2>1. PICK i \in 1 .. Len(free) : free[i] = e
    BY <1>6 DEF Has
  <2>2. \A j \in 1 .. Len(free) : free[j] = e => j = i
    BY <1>3, <2>1 DEF Once
  <2>3. \A q \in Queues : \A j \in 1 .. Len(queue[q]) : queue[q][j] # e
    BY <1>3, <1>6 DEF Has
  <2>4. \A p : p \in Places(e) <=> p = <<"free", i>>
    BY <1>3, <1>4, <1>5, <1>6, <2>1, <2>2, <2>3
  <2>5. Places(e) = {<<"free", i>>}
    BY <2>4
  <2> QED BY <2>5, FS_Singleton
<1>7. CASE \E q \in Queues : Has(queue[q], e)
  <2>1. PICK q \in Queues : Has(queue[q], e)
    BY <1>7
  <2>2. PICK i \in 1 .. Len(queue[q]) : queue[q][i] = e
    BY <2>1 DEF Has
  <2>3. \A j \in 1 .. Len(queue[q]) : queue[q][j] = e => j = i
    BY <1>3, <2>2 DEF Once
  <2>4. ~Has(free, e) /\ ~Held(e) /\ \A r \in Queues : r # q => ~Has(queue[r], e)
    BY <1>3, <2>1 DEF Queues
  <2>5. /\ \A j \in 1 .. Len(free) : free[j] # e
        /\ \A r \in Queues : r # q => \A j \in 1 .. Len(queue[r]) : queue[r][j] # e
    BY <2>4 DEF Has
  <2>6. \A p : p \in Places(e) <=> p = <<q, i>>
    BY <1>4, <1>5, <2>2, <2>3, <2>4, <2>5
  <2>7. Places(e) = {<<q, i>>}
    BY <2>6
  <2> QED BY <2>7, FS_Singleton
<1>8. CASE Held(e)
  <2>1. PICK u \in Threads : thread[u].event = e
    BY <1>5, <1>8
  <2>2. \A w \in Threads : thread[w].event = e => w = u
    BY <1>2, <2>1, Alone DEF IInv, Critical
  <2>3. ~Has(free, e) /\ \A q \in Queues : ~Has(queue[q], e)
    BY <1>3, <1>8
  <2>4. /\ \A j \in 1 .. Len(free) : free[j] # e
        /\ \A q \in Queues : \A j \in 1 .. Len(queue[q]) : queue[q][j] # e
    BY <2>3 DEF Has
  <2>5. \A p : p \in Places(e) <=> p = <<"held", u>>
    BY <1>4, <2>1, <2>2, <2>4
  <2>6. Places(e) = {<<"held", u>>}
    BY <2>5
  <2> QED BY <2>6, FS_Singleton
<1> QED
  BY <1>3, <1>6, <1>7, <1>8

\* What was linked is what was delivered followed by what the queue holds, as
\* DeliveredInOrder states it.
LEMMA LinkedIs ==
  ASSUME IInv, NEW q \in Queues
  PROVE  linked[q] = delivered[q] \o [i \in DOMAIN queue[q] |-> entry[queue[q][i]]]
<1>1. PICK k, l, n, d : /\ k = linked[q] /\ l = delivered[q] /\ n = Len(queue[q]) /\ d = Len(l)
  OBVIOUS
<1>2. PICK w : w = [i \in 1 .. n |-> entry[queue[q][i]]]
  OBVIOUS
<1>3. /\ k \in Seq(Ids) /\ l \in Seq(Ids) /\ DOMAIN queue[q] = 1 .. n /\ n \in Nat /\ d \in Nat
  BY <1>1, LenProperties DEF IInv, Types, FieldsOK
<1>4. /\ Len(k) = d + n
      /\ \A i \in 1 .. d : k[i] = l[i]
      /\ \A i \in 1 .. n : k[d + i] = w[i]
  BY <1>1, <1>2 DEF IInv, QueuesHold, QueueHolds
<1>5. \A i \in 1 .. n : w[i] \in Ids
  <2>1. \A i \in 1 .. n : d + i \in 1 .. Len(k)
    BY <1>3, <1>4
  <2> QED BY <1>3, <1>4, <2>1, ElementOfSeq
<1>6. w \in Seq(Ids) /\ Len(w) = n
  BY <1>2, <1>3, <1>5
<1>7. /\ l \o w \in Seq(Ids) /\ Len(l \o w) = d + n
      /\ \A i \in 1 .. d + n : (l \o w)[i] = IF i <= d THEN l[i] ELSE w[i - d]
  <2>1. /\ l \o w \in Seq(Ids) /\ Len(l \o w) = Len(l) + Len(w)
        /\ \A i \in 1 .. Len(l) + Len(w) : (l \o w)[i] = IF i <= Len(l) THEN l[i] ELSE w[i - Len(l)]
    BY <1>3, <1>6, ConcatProperties
  <2>2. Len(l) = d /\ Len(w) = n
    BY <1>1, <1>6
  <2> QED BY <2>1, <2>2
<1>8. ASSUME NEW i \in 1 .. Len(k) PROVE k[i] = (l \o w)[i]
  <2>1. CASE i <= d
    BY <1>3, <1>4, <1>7, <1>8, <2>1
  <2>2. CASE ~(i <= d)
    <3>1. i - d \in 1 .. n /\ d + (i - d) = i
      BY <1>3, <1>4, <2>2
    <3> QED BY <1>3, <1>4, <1>7, <1>8, <2>2, <3>1
  <2> QED BY <2>1, <2>2
<1>9. k = l \o w
  BY <1>3, <1>4, <1>7, <1>8, SeqEqual
<1> QED
  BY <1>1, <1>2, <1>3, <1>9

\* In every configuration, those without the lock and with DPAlib's threads
\* among them, every completion is read once, in the order in which completions
\* were put in the queue, though structs are used over and over; and none of
\* these is lost or in two lists.  It is so up to a data race, and there is one
\* only where DPAlib's threads complete operations on a queue without the lock.
THEOREM Delivered == Spec => []DeliveredInOrder
<1>1. RInv => DeliveredInOrder
  BY OnePlace, LinkedIs DEF RInv, DeliveredInOrder, EventsConserved, QueuesInOrder
<1> QED
  BY <1>1, Invariant, PTL

-----------------------------------------------------------------------------
(* What fi_cntr_wait returns.                                               *)

\* No result of fi_cntr_wait.
NoResult == {"none", "read", "readerr", "wait"}

\* A thread goes on, with a record that is no result or its own.
LEMMA NoResultBy ==
  ASSUME Types, NEW t \in Threads, thread[t].call = "wait", NEW u \in Threads, NEW r,
         thread' = [thread EXCEPT ![u] = r],
         r.call \in NoResult \/ r.call = thread[u].call
  PROVE  thread'[t].call \in NoResult
<1>1. CASE u = t
  BY <1>1 DEF Types, NoResult
<1>2. CASE u # t
  BY <1>2 DEF Types, NoResult
<1> QED
  BY <1>1, <1>2

\* The steps of adding a completion keep the call or end a callback.
LEMMA AddGivesNoResult ==
  ASSUME IInv, NEW t \in Threads, thread[t].call = "wait", NEW u \in Threads,
         AddNext(u) \/ Complete(u)
  PROVE  thread'[t].call \in NoResult
<1>1. thread[u] \in ThreadSet /\ thread \in [Threads -> ThreadSet]
  BY FieldsAre DEF IInv, Types
<1>2. CASE AddLock(u)
  <2>1. thread' = [thread EXCEPT ![u] = [thread[u] EXCEPT !.pc = "add_take"]]
    BY <1>2 DEF AddLock, Goto
  <2>2. [thread[u] EXCEPT !.pc = "add_take"].call = thread[u].call
    BY <1>1 DEF ThreadSet
  <2> QED BY <2>1, <2>2, NoResultBy DEF IInv
<1>3. CASE AddTake(u)
  <2>1. thread' = [thread EXCEPT ![u] = [thread[u] EXCEPT !.pc = "add_link", !.event = EmptyEvent]]
    BY <1>3 DEF AddTake
  <2>2. [thread[u] EXCEPT !.pc = "add_link", !.event = EmptyEvent].call = thread[u].call
    BY <1>1 DEF ThreadSet
  <2> QED BY <2>1, <2>2, NoResultBy DEF IInv
<1>4. CASE AddLink(u)
  <2>1. thread' = [thread EXCEPT ![u] = [thread[u] EXCEPT !.pc = "signal", !.event = 0]]
    BY <1>4 DEF AddLink
  <2>2. [thread[u] EXCEPT !.pc = "signal", !.event = 0].call = thread[u].call
    BY <1>1 DEF ThreadSet
  <2> QED BY <2>1, <2>2, NoResultBy DEF IInv
<1>5. ASSUME NEW kind, NEW r, r = Added(u, kind)
      PROVE  r.call \in NoResult \/ r.call = thread[u].call
  <2>1. CASE u \in Callbacks
    BY <1>5, <2>1 DEF Added, IdleThread, NoResult
  <2>2. CASE u \notin Callbacks
    <3>1. r = [thread[u] EXCEPT !.comp = 0, !.pc = IF kind = "irq" THEN "take_lock" ELSE "progress",
                                !.stage = IF kind = "irq" THEN "none" ELSE @]
      BY <1>5, <2>2 DEF Added
    <3> QED BY <1>1, <3>1 DEF ThreadSet
  <2> QED BY <2>1, <2>2
<1>6. CASE Count(u)
  <2>1. PICK r : r = Added(u, issued[thread[u].comp])
    OBVIOUS
  <2>2. thread' = [thread EXCEPT ![u] = r]
    BY <1>6, <2>1 DEF Count
  <2> QED BY <1>5, <2>1, <2>2, NoResultBy DEF IInv
<1>7. CASE Signal(u)
  <2>1. PICK kind : kind = issued[thread[u].comp]
    OBVIOUS
  <2>2. PICK r : r = IF kind = "irq" THEN Added(u, kind) ELSE [thread[u] EXCEPT !.pc = "count"]
    OBVIOUS
  <2>3. PICK pcs : pcs = [thread EXCEPT ![u] = r]
    OBVIOUS
  <2>4. thread[u].pc \in Adding
    BY <1>7 DEF Signal, At, Adding, Uncounted
  <2>5. r \in ThreadSet /\ (r.call \in NoResult \/ r.call = thread[u].call)
    <3>1. CASE kind = "irq"
      BY <1>5, <2>2, <2>4, <3>1, AddedIs
    <3>2. CASE kind # "irq"
      BY <1>1, <2>2, <3>2 DEF ThreadSet, Stages, Adding, Uncounted
    <3> QED BY <3>1, <3>2
  <2>6. Signalled(pcs) /\ pcs \in [Threads -> ThreadSet]
    BY <1>1, <1>7, <2>1, <2>2, <2>3, <2>5 DEF Signal
  <2>7. pcs[t].call \in NoResult
    BY <1>1, <2>3, <2>5 DEF NoResult
  <2>8. \/ thread'[t] = pcs[t]
        \/ thread'[t] = [pcs[t] EXCEPT !.pc = "wake_lock"]
    BY <2>6, SignalledIs DEF IInv
  <2>9. [pcs[t] EXCEPT !.pc = "wake_lock"].call = pcs[t].call
    BY <2>6 DEF ThreadSet
  <2> QED BY <2>7, <2>8, <2>9
<1>8. CASE Complete(u)
  <2>1. PICK n : n = Len(issued) + 1
    OBVIOUS
  <2>2. thread' = [thread EXCEPT ![u] = [thread[u] EXCEPT !.pc = "add_lock", !.comp = n]]
    BY <1>8, <2>1 DEF Complete, Add
  <2>3. [thread[u] EXCEPT !.pc = "add_lock", !.comp = n].call = thread[u].call
    BY <1>1 DEF ThreadSet
  <2> QED BY <2>2, <2>3, NoResultBy DEF IInv
<1> QED
  BY <1>2, <1>3, <1>4, <1>6, <1>7, <1>8 DEF AddNext

\* The steps of reading keep the call, or end it without a result.
LEMMA ReadGivesNoResult ==
  ASSUME IInv, NEW t \in Threads, thread[t].call = "wait", NEW u \in Threads,
         \/ ReadNext(u) /\ (CntrStep(u) => u # t)
         \/ SpinEnd(u) \/ SpuriousWakeup(u) \/ InterruptFails(u)
  PROVE  thread'[t].call \in NoResult
<1>1. thread[u] \in ThreadSet /\ thread \in [Threads -> ThreadSet]
  BY FieldsAre DEF IInv, Types
<1>2. ASSUME NEW r, thread' = [thread EXCEPT ![u] = r], r.call = thread[u].call \/ r.call = "none"
      PROVE  thread'[t].call \in NoResult
  BY <1>2, NoResultBy DEF IInv, NoResult
<1>3. CASE ProgressEnd(u)
  <2>1. PICK left : thread' = [thread EXCEPT ![u] =
          IF handle THEN [thread[u] EXCEPT !.pc = "interrupt", !.stage = left]
          ELSE [thread[u] EXCEPT !.pc = "take_lock"]]
    BY <1>3 DEF ProgressEnd
  <2>2. PICK r : r = IF handle THEN [thread[u] EXCEPT !.pc = "interrupt", !.stage = left]
                     ELSE [thread[u] EXCEPT !.pc = "take_lock"]
    OBVIOUS
  <2>3. r.call = thread[u].call
    BY <1>1, <2>2 DEF ThreadSet
  <2> QED BY <1>2, <2>1, <2>2, <2>3
<1>4. CASE TakeInterrupt(u)
  <2>1. PICK r : r = [thread[u] EXCEPT !.pc = "add_lock", !.comp = Len(issued) + 1]
    OBVIOUS
  <2>2. thread' = [thread EXCEPT ![u] = r] /\ r.call = thread[u].call
    BY <1>1, <1>4, <2>1 DEF TakeInterrupt, Add, ThreadSet
  <2> QED BY <1>2, <2>2
<1>5. CASE InterruptTimeout(u) \/ InterruptFails(u)
  <2>1. PICK r : r = [thread[u] EXCEPT !.pc = "take_lock", !.stage = "none"]
    OBVIOUS
  <2>2. thread' = [thread EXCEPT ![u] = r] /\ r.call = thread[u].call
    BY <1>1, <1>5, <2>1 DEF InterruptTimeout, InterruptFails, ThreadSet
  <2> QED BY <1>2, <2>2
<1>6. CASE TakeLock(u)
  <2>1. PICK r : r = [thread[u] EXCEPT !.pc = "take"]
    OBVIOUS
  <2>2. thread' = [thread EXCEPT ![u] = r] /\ r.call = thread[u].call
    BY <1>1, <1>6, <2>1 DEF TakeLock, Goto, ThreadSet
  <2> QED BY <1>2, <2>2
<1>7. CASE Take(u)
  <2>1. PICK r : r = [thread[u] EXCEPT !.got = thread[u].got + 1]
    OBVIOUS
  <2>2. thread' = [thread EXCEPT ![u] = r] /\ r.call = thread[u].call
    BY <1>1, <1>7, <2>1 DEF Take, ThreadSet
  <2> QED BY <1>2, <2>2
<1>8. CASE TakeEnd(u)
  <2>1. PICK r : r = IF ~WaitsNow(u) THEN IdleThread
                     ELSE [thread[u] EXCEPT !.round = 2,
                             !.pc = IF config.progress \/ handle THEN "progress" ELSE "sleep_lock"]
    OBVIOUS
  <2>2. thread' = [thread EXCEPT ![u] = r]
    BY <1>8, <2>1 DEF TakeEnd
  <2>3. r.call = thread[u].call \/ r.call = "none"
    BY <1>1, <2>1 DEF ThreadSet, IdleThread
  <2> QED BY <1>2, <2>2, <2>3
<1>9. CASE Sleep(u)
  <2>1. PICK r : r = [thread[u] EXCEPT !.pc = "asleep", !.ticket = cond.locked]
    OBVIOUS
  <2>2. thread' = [thread EXCEPT ![u] = r] /\ r.call = thread[u].call
    BY <1>1, <1>9, <2>1 DEF Sleep, ThreadSet
  <2> QED BY <1>2, <2>2
<1>10. CASE WakeLock(u)
  <2>1. PICK r : r = [thread[u] EXCEPT !.pc = "take_lock", !.ticket = 0]
    OBVIOUS
  <2>2. thread' = [thread EXCEPT ![u] = r] /\ r.call = thread[u].call
    BY <1>1, <1>10, <2>1 DEF WakeLock, ThreadSet
  <2> QED BY <1>2, <2>2
<1>11. CASE SpinEnd(u) \/ SpuriousWakeup(u)
  <2>1. PICK r : r = [thread[u] EXCEPT !.pc = "wake_lock"]
    OBVIOUS
  <2>2. thread' = [thread EXCEPT ![u] = r] /\ r.call = thread[u].call
    BY <1>1, <1>11, <2>1 DEF SpinEnd, SpuriousWakeup, Goto, ThreadSet
  <2> QED BY <1>2, <2>2
<1>12. CASE CntrStep(u) /\ u # t
  <2>1. thread'[t] = thread[t]
    BY <1>1, <1>12 DEF CntrStep, EndWait, Stage
  <2> QED BY <2>1 DEF NoResult
<1> QED
  BY <1>3, <1>4, <1>5, <1>6, <1>7, <1>8, <1>9, <1>10, <1>11, <1>12 DEF ReadNext

\* A call that begins is no result.
LEMMA CallGivesNoResult ==
  ASSUME IInv, NEW t \in Threads, thread[t].call = "wait", NEW u \in Threads, CallNext(u)
  PROVE  thread'[t].call \in NoResult
<1>1. thread[u] \in ThreadSet /\ thread \in [Threads -> ThreadSet]
  BY FieldsAre DEF IInv, Types
<1>2. ASSUME NEW r, thread' = [thread EXCEPT ![u] = r], r.call \in NoResult
      PROVE  thread'[t].call \in NoResult
  BY <1>2, NoResultBy DEF IInv
<1>3. CASE Read(u)
  <2>1. PICK time, n : thread' = [thread EXCEPT ![u] =
          [IdleThread EXCEPT !.pc = "progress", !.call = "read", !.time = time, !.room = n]]
    BY <1>3 DEF Read
  <2>2. PICK r : r = [IdleThread EXCEPT !.pc = "progress", !.call = "read", !.time = time, !.room = n]
    OBVIOUS
  <2>3. r.call \in NoResult
    BY <2>2 DEF IdleThread, NoResult
  <2> QED BY <1>2, <2>1, <2>2, <2>3
<1>4. CASE ReadErr(u)
  <2>1. PICK r : r = [IdleThread EXCEPT !.pc = "take_lock", !.call = "readerr", !.room = 1]
    OBVIOUS
  <2>2. r.call \in NoResult /\ thread' = [thread EXCEPT ![u] = r]
    BY <1>4, <2>1 DEF ReadErr, IdleThread, NoResult
  <2> QED BY <1>2, <2>2
<1>5. CASE CntrWait(u)
  <2>1. PICK time, n : thread' = [thread EXCEPT ![u] =
          [IdleThread EXCEPT !.pc = "progress", !.call = "wait", !.stage = "err0",
                             !.time = time, !.threshold = n]]
    BY <1>5 DEF CntrWait
  <2>2. PICK r : r = [IdleThread EXCEPT !.pc = "progress", !.call = "wait", !.stage = "err0",
                                        !.time = time, !.threshold = n]
    OBVIOUS
  <2>3. r.call \in NoResult
    BY <2>2 DEF IdleThread, NoResult
  <2> QED BY <1>2, <2>1, <2>2, <2>3
<1>6. CASE CntrSet(u) \/ WaitData(u)
  BY <1>6 DEF CntrSet, WaitData, NoResult
<1>7. CASE SignalCall(u)
  <2>1. Signalled(thread)
    BY <1>7 DEF SignalCall
  <2>2. \/ thread'[t] = thread[t]
        \/ thread'[t] = [thread[t] EXCEPT !.pc = "wake_lock"]
    BY <1>1, <2>1, SignalledIs DEF IInv
  <2>3. [thread[t] EXCEPT !.pc = "wake_lock"].call = thread[t].call
    BY <1>1 DEF ThreadSet
  <2> QED BY <2>2, <2>3 DEF NoResult
<1> QED
  BY <1>3, <1>4, <1>5, <1>6, <1>7 DEF CallNext

\* What the step of a thread that waits gives is true of the counter.
LEMMA ResultTrue ==
  ASSUME IInv, NEW t \in Apps, thread[t].call = "wait", CntrStep(t)
  PROVE  /\ thread'[t].call = "reached" =>
              \/ count >= thread[t].threshold
              \/ errs # thread[t].err0
              \/ config.locking /\ count > IntMax
         /\ thread'[t].call = "timeout" /\ ~config.locking => count < thread[t].threshold
<1>1. /\ thread[t] \in ThreadSet /\ thread \in [Threads -> ThreadSet] /\ t \in Threads
      /\ thread[t].threshold \in Nat /\ count \in Nat
  BY FieldsAre DEF IInv, Types, FieldsOK, Threads
<1>2. ASSUME NEW time, EndWait(t, time)
      PROVE  /\ thread'[t].call = "reached" => ~(time = "none" /\ PlainCounter < thread[t].threshold)
             /\ thread'[t].call = "timeout" => PlainCounter < thread[t].threshold
  <2>1. thread'[t] = [IdleThread EXCEPT !.call = Result(t, time)]
    BY <1>1, <1>2 DEF EndWait
  <2>2. thread'[t].call = Result(t, time)
    BY <2>1 DEF IdleThread
  <2> QED BY <2>2 DEF Result, TimedOut
<1>3. ~config.locking => PlainCounter = count
  BY DEF PlainCounter
<1>4. config.locking => PlainCounter = 0
  BY DEF PlainCounter
<1>5. CASE EndWait(t, "none")
  BY <1>1, <1>2, <1>3, <1>4, <1>5
<1>6. CASE CounterRead >= thread[t].threshold /\ EndWait(t, thread[t].time)
  BY <1>1, <1>2, <1>3, <1>6 DEF CounterRead
<1>7. CASE errs # thread[t].err0 /\ EndWait(t, thread[t].time)
  BY <1>1, <1>2, <1>3, <1>7
<1>8. ASSUME NEW s, Stage(t, s) PROVE thread'[t].call = "wait"
  BY <1>1, <1>8 DEF Stage, ThreadSet
<1>9. CASE thread' = [thread EXCEPT ![t].stage = "count", ![t].err0 = errs]
  BY <1>1, <1>9 DEF ThreadSet
<1>10. \/ EndWait(t, "none")
       \/ CounterRead >= thread[t].threshold /\ EndWait(t, thread[t].time)
       \/ errs # thread[t].err0 /\ EndWait(t, thread[t].time)
       \/ \E s : Stage(t, s)
       \/ thread' = [thread EXCEPT ![t].stage = "count", ![t].err0 = errs]
  BY DEF CntrStep
<1> QED
  BY <1>5, <1>6, <1>7, <1>8, <1>9, <1>10

\* fi_cntr_wait returns 0 only when the threshold is reached, an operation
\* failed while it waited, or the thread-safe counter has passed INT_MAX; and
\* without the lock it reports a timeout only when the threshold is not reached.
THEOREM WaitTellsTheTruth == Spec => WaitResultIsTrue
<1>1. RInv /\ [Next]_vars =>
        [\A t \in Apps : Waiting(t) =>
           /\ thread'[t].call = "reached" =>
                \/ count >= thread[t].threshold
                \/ errs # thread[t].err0
                \/ config.locking /\ count > IntMax
           /\ thread'[t].call = "timeout" /\ ~config.locking =>
                count < thread[t].threshold]_vars
  <2> SUFFICES ASSUME IInv, Step, NEW t \in Apps, thread[t].call = "wait"
               PROVE  /\ thread'[t].call = "reached" =>
                           \/ count >= thread[t].threshold
                           \/ errs # thread[t].err0
                           \/ config.locking /\ count > IntMax
                      /\ thread'[t].call = "timeout" /\ ~config.locking =>
                           count < thread[t].threshold
    BY DEF Waiting, RInv, Next
  <2>1. t \in Threads
    BY DEF Threads
  <2>2. CASE CntrStep(t)
    BY <2>2, ResultTrue
  <2>3. CASE ~CntrStep(t)
    <3>1. thread'[t].call \in NoResult
      <4>1. CASE Trigger
        BY <4>1 DEF Trigger, NoResult
      <4>2. CASE \E u \in Threads :
                   \/ Complete(u) \/ AddNext(u) \/ ReadNext(u) \/ CallNext(u)
                   \/ SpinEnd(u) \/ SpuriousWakeup(u) \/ InterruptFails(u)
        BY <2>1, <2>3, <4>2, AddGivesNoResult, ReadGivesNoResult, CallGivesNoResult
      <4> QED BY <4>1, <4>2 DEF Step
    <3> QED BY <3>1 DEF NoResult
  <2> QED BY <2>2, <2>3
<1> QED
  BY <1>1, Invariant, PTL DEF Spec, WaitResultIsTrue

=============================================================================
