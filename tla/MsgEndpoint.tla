----------------------------- MODULE MsgEndpoint -----------------------------
(***************************************************************************)
(* The operation queues of one MSG endpoint (dpa_msg.c): fi_send and       *)
(* fi_recv try the ring at once when nothing is queued and queue the       *)
(* operation otherwise; the queues are drained by fi_cq_read and           *)
(* fi_cq_sread (FI_PROGRESS_MANUAL) or by interrupt callbacks that DPAlib  *)
(* runs in threads of its own (FI_PROGRESS_AUTO).                          *)
(*                                                                         *)
(* The two rings are counters here: `inbox' messages wait to be received,  *)
(* `outbox' messages were written and not yet read by the peer.  MsgRing   *)
(* shows what they do with the bytes.                                      *)
(*                                                                         *)
(* From FI_THREAD_COMPLETION on there is no lock, though with automatic    *)
(* progress callbacks run beside the application.  Two threads in one list *)
(* at once are a data race, after which nothing is defined: the behaviour  *)
(* ends there.  It also ends where a callback crashes the process.         *)
(***************************************************************************)
EXTENDS Naturals, Sequences

CONSTANTS
  Configs   \* how the domain and the endpoint may be configured

Sides == {"send", "recv"}
Callbacks == {"send_callback", "recv_callback"}
Threads == {"app"} \cup Callbacks

\* progress: data_progress of the domain; lockNeeded: threading < FI_THREAD_FID;
\* hasInterrupt: automatic progress, or FI_WAIT_UNSPEC; cqSides: sides whose
\* operations the completion queue drives; waits: timeouts of fi_cq_sread, of
\* which "none" is fi_cq_read; indirect: DPAlib passes a callback the address of
\* its argument, not the argument.  Bounds: capacity, messages the peer's ring
\* holds; maxPosts, operations posted on each side and messages of the peer.
ConfigSet ==
  [progress : {"manual", "auto"}, lockNeeded : BOOLEAN, hasInterrupt : BOOLEAN,
   cqSides : SUBSET Sides \ {{}}, waits : SUBSET {"none", "finite", "infinite"},
   indirect : BOOLEAN, capacity : Nat \ {0}, maxPosts : Nat]

\* Waiting without a progress function is cq_wait, which this module leaves out
ASSUME ConfigsAssumption ==
  /\ Configs \subseteq ConfigSet
  /\ \A c \in Configs : c.progress = "auto" => c.hasInterrupt /\ c.waits = {"none"}

VARIABLES
  config,    \* the configuration, fixed
  connected, \* dpa_fid_ep.connected
  queue,     \* msg_queue of each side: the operations queued, oldest first
  lock,      \* holder of the lock of each queue
  irq,       \* interrupts triggered and not yet taken
  inbox, outbox,
  peerSent,  \* messages the peer has written so far
  cq,        \* entries of the completion queue
  thread,    \* per thread: where it is, on which side, what slist_empty said
  round,     \* the app in dpa_cq_sreadfrom: first or second progress
  wait,      \* and the time it has left
  posted,    \* history: operations posted on each side
  completed, \* history: operations completed, in order
  ended      \* the process is running, or there was a race or a crash

ringVars    == <<inbox, outbox, peerSent>>
historyVars == <<posted, completed>>
vars == <<config, connected, queue, lock, irq, ringVars, cq, thread, round, wait, historyVars, ended>>

-----------------------------------------------------------------------------
SideOf(t) == thread[t].side
At(t, pc) == thread[t].pc = pc

\* Thread t goes to pc and stays on its side.
Goto(t, pc) == thread' = [thread EXCEPT ![t].pc = pc]

\* lock_if_needed and unlock_if_needed
Acquire(t, s) ==
  IF config.lockNeeded THEN lock[s] = "free" /\ lock' = [lock EXCEPT ![s] = t]
  ELSE UNCHANGED lock
Release(s) == lock' = IF config.lockNeeded THEN [lock EXCEPT ![s] = "free"] ELSE lock

\* Slip: room for one message more than there is
RoomAtCapacity(s) == IF s = "send" THEN outbox <= config.capacity ELSE inbox > 0
\* try_send finds room for the message, try_recv finds a message.
CanTransfer(s) == IF s = "send" THEN outbox < config.capacity ELSE inbox > 0

\* try_send or try_recv of one operation: the ring, its completion.
Transfer(s, id) ==
  /\ IF s = "send" THEN outbox' = outbox + 1 /\ UNCHANGED inbox
     ELSE inbox' = inbox - 1 /\ UNCHANGED outbox
  /\ cq' = Append(cq, [side |-> s, id |-> id])
  /\ completed' = [completed EXCEPT ![s] = Append(@, id)]
  /\ UNCHANGED <<peerSent, posted>>

-----------------------------------------------------------------------------
Init ==
  /\ config \in Configs
  /\ connected = FALSE
  /\ queue = [s \in Sides |-> <<>>]
  /\ lock = [s \in Sides |-> "free"]
  /\ irq = [s \in Sides |-> FALSE]
  /\ inbox = 0 /\ outbox = 0 /\ peerSent = 0
  /\ cq = <<>>
  /\ thread = [t \in Threads |->
                 [pc |-> "idle", sole |-> FALSE,
                  side |-> IF t = "recv_callback" THEN "recv" ELSE "send"]]
  /\ round = 1 /\ wait = "none"
  /\ posted = [s \in Sides |-> 0]
  /\ completed = [s \in Sides |-> <<>>]
  /\ ended = "running"

(* _dpa_send and _dpa_recv.  The application sends once it has seen         *)
(* FI_CONNECTED; it may post receives before.                               *)
Post(s) ==
  /\ At("app", "idle")
  /\ posted[s] < config.maxPosts
  /\ s = "send" => connected
  /\ posted' = [posted EXCEPT ![s] = @ + 1]
  /\ thread' = [thread EXCEPT !["app"] = [@ EXCEPT !.pc = "lock", !.side = s]]
  /\ UNCHANGED <<config, connected, queue, lock, irq, ringVars, cq, round, wait, completed>>

PostLock ==
  LET s == SideOf("app") IN
  /\ At("app", "lock")
  /\ Acquire("app", s)
  /\ Goto("app", "try")
  /\ UNCHANGED <<config, connected, queue, irq, ringVars, cq, round, wait, historyVars>>

\* Slip: try whatever is queued before
MayTryAlways(s) == s = "recv" => connected
MayTry(s) == queue[s] = <<>> /\ (s = "recv" => connected)

\* On success the functions return FI_SUCCESS: the lock is not released.
PostTry ==
  LET s == SideOf("app") IN
  /\ At("app", "try")
  /\ IF MayTry(s) /\ CanTransfer(s)
     THEN Transfer(s, posted[s]) /\ Goto("app", "idle")
     ELSE Goto("app", "enqueue") /\ UNCHANGED <<ringVars, cq, historyVars>>
  /\ UNCHANGED <<config, connected, queue, lock, irq, round, wait>>

(* slist_insert_tail_unsafe looks at the list, then links the entry: at the *)
(* head of a list it saw empty, else behind a tail that may have gone.      *)
EnqueueLook ==
  LET s == SideOf("app") IN
  /\ At("app", "enqueue")
  /\ thread' = [thread EXCEPT !["app"] =
                  [@ EXCEPT !.pc = "link", !.sole = (queue[s] = <<>>)]]
  /\ UNCHANGED <<config, connected, queue, lock, irq, ringVars, cq, round, wait, historyVars>>

EnqueueLink ==
  LET s == SideOf("app") IN
  /\ At("app", "link")
  /\ queue' = [queue EXCEPT ![s] =
       IF @ = <<>> /\ ~thread["app"].sole THEN <<>> ELSE Append(@, posted[s])]
  /\ Release(s)
  /\ thread' = [thread EXCEPT !["app"] = [@ EXCEPT !.pc = "idle", !.sole = FALSE]]
  /\ UNCHANGED <<config, connected, irq, ringVars, cq, round, wait, historyVars>>

-----------------------------------------------------------------------------
(* dpa_cq_sreadfrom: progress at once, read; if there was nothing and the   *)
(* caller waits, progress with the timeout, read again.                     *)
FirstSide == IF "send" \in config.cqSides THEN "send" ELSE "recv"

\* progress_sendrecv_queues gives what remains of the timeout to the receive
\* queue, progress_send_queue and progress_recv_queue know one queue.
AfterQueue(t, remaining) ==
  IF t # "app" THEN [thread[t] EXCEPT !.pc = "idle"]
  ELSE IF SideOf(t) = "send" /\ "recv" \in config.cqSides
       THEN [thread[t] EXCEPT !.side = "recv",
               !.pc = IF round = 2 /\ remaining # "none" THEN "wait" ELSE "check"]
       ELSE [thread[t] EXCEPT !.pc = "read"]

CqRead(w) ==
  /\ At("app", "idle")
  /\ round' = 1 /\ wait' = w
  /\ thread' = [thread EXCEPT !["app"] =
       IF config.progress = "manual" THEN [@ EXCEPT !.pc = "check", !.side = FirstSide]
       ELSE [@ EXCEPT !.pc = "read"]]
  /\ UNCHANGED <<config, connected, queue, lock, irq, ringVars, cq, historyVars>>

\* progress_queue: wait_interrupt returns at once without an interrupt, and
\* leaves no time when it timed out.
WaitInterrupt ==
  LET s == SideOf("app") IN
  /\ At("app", "wait")
  /\ \/ ~config.hasInterrupt /\ UNCHANGED <<irq, wait>>
     \/ irq[s] /\ irq' = [irq EXCEPT ![s] = FALSE] /\ UNCHANGED wait
     \/ wait = "finite" /\ config.hasInterrupt /\ wait' = "none" /\ UNCHANGED irq
  /\ Goto("app", "check")
  /\ UNCHANGED <<config, connected, queue, lock, ringVars, cq, round, historyVars>>

\* An error other than the timeout: no time is left, the queue is not looked at.
WaitFails ==
  /\ At("app", "wait")
  /\ config.hasInterrupt
  /\ wait' = "none"
  /\ thread' = [thread EXCEPT !["app"] = AfterQueue("app", "none")]
  /\ UNCHANGED <<config, connected, queue, lock, irq, ringVars, cq, round, historyVars>>

(* process_send_queue and process_recv_queue, in the application's thread  *)
(* or in the callback's: nothing to do without a connection or with an     *)
(* empty queue, which is looked at before the lock is taken.               *)
\* Slip: a single operation is not worth the lock
HasBacklog(s) == connected /\ Len(queue[s]) > 1
HasWork(s) == connected /\ queue[s] # <<>>

Check(t) ==
  /\ At(t, "check")
  /\ IF HasWork(SideOf(t))
     THEN Goto(t, "acquire")
     ELSE thread' = [thread EXCEPT ![t] = AfterQueue(t, wait)]
  /\ UNCHANGED <<config, connected, queue, lock, irq, ringVars, cq, round, wait, historyVars>>

ProcessLock(t) ==
  /\ At(t, "acquire")
  /\ Acquire(t, SideOf(t))
  /\ Goto(t, "process")
  /\ UNCHANGED <<config, connected, queue, irq, ringVars, cq, round, wait, historyVars>>

ProcessTry(t) ==
  LET s == SideOf(t) IN
  /\ At(t, "process")
  /\ queue[s] # <<>> /\ CanTransfer(s)
  /\ Transfer(s, Head(queue[s]))
  /\ Goto(t, "look")
  /\ UNCHANGED <<config, connected, queue, lock, irq, round, wait>>

\* The queue is empty or its first operation has to wait: -FI_EAGAIN.
ProcessEnd(t) ==
  LET s == SideOf(t) IN
  /\ At(t, "process")
  /\ queue[s] = <<>> \/ ~CanTransfer(s)
  /\ Release(s)
  /\ thread' = [thread EXCEPT ![t] = AfterQueue(t, wait)]
  /\ UNCHANGED <<config, connected, queue, irq, ringVars, cq, round, wait, historyVars>>

\* slist_remove_head_unsafe compares head and tail, then unlinks the head, or
\* empties a list it saw hold one entry.
RemoveLook(t) ==
  /\ At(t, "look")
  /\ thread' = [thread EXCEPT ![t] =
       [@ EXCEPT !.pc = "unlink", !.sole = (Len(queue[SideOf(t)]) = 1)]]
  /\ UNCHANGED <<config, connected, queue, lock, irq, ringVars, cq, round, wait, historyVars>>

\* Slip: the rest of the list goes with its head
EmptiedAlways(q, sole) == <<>>
Removed(q, sole) == IF sole THEN <<>> ELSE Tail(q)

RemoveUnlink(t) ==
  /\ At(t, "unlink")
  /\ queue' = [queue EXCEPT ![SideOf(t)] = Removed(@, thread[t].sole)]
  /\ thread' = [thread EXCEPT ![t] = [@ EXCEPT !.pc = "process", !.sole = FALSE]]
  /\ UNCHANGED <<config, connected, lock, irq, ringVars, cq, round, wait, historyVars>>

\* cq_read_priv
CqTake ==
  /\ At("app", "read")
  /\ IF cq # <<>>
     THEN cq' = Tail(cq) /\ Goto("app", "idle") /\ round' = 1 /\ wait' = "none"
     ELSE IF round = 1 /\ wait # "none"
     THEN /\ round' = 2
          /\ thread' = [thread EXCEPT !["app"] = [@ EXCEPT !.pc = "wait", !.side = FirstSide]]
          /\ UNCHANGED <<cq, wait>>
     ELSE Goto("app", "idle") /\ round' = 1 /\ wait' = "none" /\ UNCHANGED cq
  /\ UNCHANGED <<config, connected, queue, lock, irq, ringVars, historyVars>>

(* process_send_queue_interrupt_callback, process_recv_queue_interrupt_     *)
(* callback take what their argument points to for the endpoint.  The       *)
(* argument given to DPACreateInterrupt is the endpoint itself, which       *)
(* begins with no such pointer.                                             *)
Interrupted(t) == config.progress = "auto" /\ At(t, "idle") /\ irq[SideOf(t)]

Callback(t) ==
  /\ Interrupted(t) /\ config.indirect
  /\ irq' = [irq EXCEPT ![SideOf(t)] = FALSE]
  /\ Goto(t, "check")
  /\ UNCHANGED <<config, connected, queue, lock, ringVars, cq, round, wait, historyVars>>

CallbackCrashes(t) ==
  /\ Interrupted(t) /\ ~config.indirect
  /\ ended = "running" /\ ended' = "crash"
  /\ UNCHANGED <<config, connected, queue, lock, irq, ringVars, cq, thread, round, wait, historyVars>>

-----------------------------------------------------------------------------
(* connect_msg runs in the application's own thread, when it reads its      *)
(* event queue; the peer may be connected, and write, before that.  The     *)
(* peer's write_msg and read_msg end by triggering this endpoint's          *)
(* interrupt.                                                               *)
Connect ==
  /\ ~connected
  /\ At("app", "idle")
  /\ connected' = TRUE
  /\ UNCHANGED <<config, queue, lock, irq, ringVars, cq, thread, round, wait, historyVars>>

\* Slip: no interrupt
NoTrigger(s) == UNCHANGED irq
Trigger(s) == irq' = IF config.hasInterrupt THEN [irq EXCEPT ![s] = TRUE] ELSE irq

PeerWrites ==
  /\ peerSent < config.maxPosts
  /\ peerSent' = peerSent + 1
  /\ inbox' = inbox + 1
  /\ Trigger("recv")
  /\ UNCHANGED <<config, connected, queue, lock, outbox, cq, thread, round, wait, historyVars>>

PeerReads ==
  /\ outbox > 0
  /\ outbox' = outbox - 1
  /\ Trigger("send")
  /\ UNCHANGED <<config, connected, queue, lock, inbox, peerSent, cq, thread, round, wait, historyVars>>

PostNext ==
  \/ \E s \in Sides : Post(s)
  \/ PostLock \/ PostTry \/ EnqueueLook \/ EnqueueLink

ProcessNext(t) ==
  \/ Check(t) \/ ProcessLock(t) \/ ProcessTry(t) \/ ProcessEnd(t)
  \/ RemoveLook(t) \/ RemoveUnlink(t)

AppNext ==
  \/ PostNext
  \/ \E w \in config.waits : CqRead(w)
  \/ WaitInterrupt
  \/ ProcessNext("app")
  \/ CqTake

CallbackNext(t) == Callback(t) \/ ProcessNext(t)

Step ==
  \/ AppNext
  \/ WaitFails
  \/ \E t \in Callbacks : CallbackNext(t)
  \/ Connect \/ PeerWrites \/ PeerReads

\* Where a thread works on the list of its side, between the lock and its release.
InList == {"try", "enqueue", "link", "process", "look", "unlink"}

Race ==
  /\ ~config.lockNeeded
  /\ \E t, u \in Threads :
       /\ t # u /\ SideOf(t) = SideOf(u)
       /\ thread[t].pc \in InList /\ thread[u].pc \in InList

\* The process runs on, up to a race.
Runs == ended = "running" /\ ended' = IF Race' THEN "race" ELSE "running"

Next ==
  \/ Step /\ Runs
  \/ \E t \in Callbacks : CallbackCrashes(t)

Spec == Init /\ [][Next]_vars

\* Threads run, an application reads its event queue too between its other
\* calls, the peer sends what it has and reads what it gets; which operation
\* the application chooses is up to it.
Fairness ==
  /\ WF_vars(AppNext /\ Runs)
  /\ \A t \in Callbacks : WF_vars(CallbackNext(t) /\ Runs)
  /\ SF_vars(Connect /\ Runs) /\ WF_vars(PeerWrites /\ Runs) /\ WF_vars(PeerReads /\ Runs)

FairSpec == Spec /\ Fairness

-----------------------------------------------------------------------------
(* Properties.                                                              *)

FieldsOK ==
  /\ config \in Configs
  /\ connected \in BOOLEAN
  /\ queue \in [Sides -> Seq(1 .. config.maxPosts)]
  /\ lock \in [Sides -> Threads \cup {"free"}]
  /\ irq \in [Sides -> BOOLEAN]
  /\ inbox \in 0 .. config.maxPosts /\ peerSent \in 0 .. config.maxPosts
  /\ outbox \in 0 .. config.capacity
  /\ cq \in Seq([side : Sides, id : 1 .. config.maxPosts])
  /\ thread \in [Threads -> [pc : {"idle", "lock", "try", "enqueue", "link", "check",
                                   "acquire", "process", "look", "unlink", "wait", "read"},
                             side : Sides, sole : BOOLEAN]]
  /\ round \in {1, 2} /\ wait \in {"none", "finite", "infinite"}
  /\ posted \in [Sides -> 0 .. config.maxPosts]
  /\ completed \in [Sides -> Seq(1 .. config.maxPosts)]

\* Type invariant.
TypeOK == FieldsOK /\ ended \in {"running", "race", "crash"}

\* Operations of a side complete once each and in the order they were posted,
\* whether the call itself, a later read or a callback completes them.
CompletionsInOrder ==
  \A s \in Sides : \A i \in 1 .. Len(completed[s]) : completed[s][i] = i

InHand(s) ==
  IF SideOf("app") = s /\ thread["app"].pc \in {"lock", "try", "enqueue", "link"}
  THEN {posted[s]} ELSE {}
Queued(s) == {queue[s][i] : i \in 1 .. Len(queue[s])}
Completed(s) == {completed[s][i] : i \in 1 .. Len(completed[s])}

\* Every operation posted is completed, queued, or in the hands of the call
\* that posts it: no interleaving of the call with a callback loses it.  It is
\* so up to a data race, which takes a callback and queues without the lock.
EveryPostAccounted ==
  /\ ended = "race" => config.progress = "auto" /\ ~config.lockNeeded
  /\ \A s \in Sides : 1 .. posted[s] = Completed(s) \cup Queued(s) \cup InHand(s)

\* A call of fi_send or fi_recv returns, unless the process ends before.
PostReturns == At("app", "lock") ~> At("app", "idle") \/ ended # "running"

\* Every operation posted completes, unless the process ends before: there is a
\* message for every receive, and the peer reads what is sent.
Posts == UNION {1 .. c.maxPosts : c \in Configs}
EveryPostCompletes ==
  \A s \in Sides : \A n \in Posts : (posted[s] >= n) ~> (n \in Completed(s) \/ ended # "running")

\* With manual progress and no lock they do while the application reads the
\* completion queue that both sides report to, without waiting for ever.
Polled ==
  /\ config.progress = "manual" /\ ~config.lockNeeded
  /\ config.cqSides = Sides /\ "infinite" \notin config.waits
PolledPostsComplete == Polled => EveryPostCompletes

\* An application that waits in fi_cq_sread for a receive it posted gets the
\* message that has arrived for it, when the queue is that of the receives.
WaitingReaderWakes ==
  (/\ config.cqSides = {"recv"} /\ At("app", "wait")
   /\ connected /\ queue["recv"] # <<>> /\ inbox > 0)
    ~> ~At("app", "wait")

=============================================================================
