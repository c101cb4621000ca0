------------------------------ MODULE EventQueue ------------------------------
(***************************************************************************)
(* An event queue (dpa_eq.c, dpa_eq.h): threads of the application read    *)
(* it, write to it, and, when a passive endpoint listens or an endpoint    *)
(* connects through it, make the progress that adds connection events.     *)
(*                                                                         *)
(* Every list has a lock of its own, so that what is done to one list is a *)
(* step, and one call is several.  The event structs are linked by         *)
(* pointers (SList): a read with FI_PEEK links a struct that is in the     *)
(* event queue into the free list as well.  No caller of eq_add passes an  *)
(* error, the error queue is always empty and left out.                    *)
(***************************************************************************)
EXTENDS SList, FiniteSets

CONSTANTS
  Apps,       \* threads of the application
  Configs,    \* what the application does
  FreeSize,   \* attr->size: event structs made by dpa_eq_open
  MaxEvents   \* bound: events added to the queue, and taken from it but one

\* What a thread may call: write is fi_eq_write, listen and close those of the
\* passive endpoint, connect what dpa_connect and dpa_accept do to the queue.
Calls == {"read", "peek", "write", "listen", "close", "connect"}

\* threads: those that use the queue; calls: what they call; waits: timeouts
\* of fi_eq_sread, of which "none" is fi_eq_read.  Bounds: requests, connection
\* data that reaches the passive endpoint; failures, waits for it that DPAlib
\* ends with an error which is no timeout.
ConfigSet ==
  [threads : SUBSET Apps, calls : SUBSET Calls,
   waits : SUBSET {"none", "finite", "infinite"}, requests : Nat, failures : Nat]

ASSUME ConfigsAssumption == Configs \subseteq ConfigSet
ASSUME NumbersAssumption == FreeSize \in Nat /\ MaxEvents \in Nat
ASSUME AppsAssumption == IsFiniteSet(Apps)

Lists == {"event", "free"}
Events == 1 .. (FreeSize + MaxEvents)
Sources == {"pep", "ep"}

VARIABLES
  config,    \* the configuration, fixed
  made,      \* event structs allocated so far
  heap,      \* event_queue and free_list
  entry,     \* per struct: the event stored in it, 0 for none
  progress,  \* progress.func: none, progress_pep_eq or progress_ep_eq
  listening, \* the interrupt of the passive endpoint exists
  mail,      \* connection data on the interrupts they wait for
  answered,  \* the connecting endpoint has taken its answer
  thread,    \* per thread: its call and where it is in it
  arrived,   \* history: requests that reached the passive endpoint
  failed,    \* history: waits for connection data that failed
  linked,    \* history: events in the order they were put in the queue
  taken,     \* history: events in the order a read took them
  peeked,    \* history: structs peeked at whose event was not read yet
  intact     \* history: no peek has damaged the lists

listVars    == <<made, heap, entry>>
mailVars    == <<listening, mail, answered, arrived, failed>>
historyVars == <<linked, taken, peeked, intact>>
vars == <<config, listVars, progress, mailVars, thread, historyVars>>

-----------------------------------------------------------------------------
At(t, pc) == thread[t].pc = pc
Goto(t, pc) == thread' = [thread EXCEPT ![t].pc = pc]
MayCall(t, call) == t \in config.threads /\ At(t, "idle") /\ call \in config.calls

IdleThread ==
  [pc |-> "idle", call |-> "none", round |-> 1, time |-> "none", func |-> "none",
   event |-> 0, id |-> 0]

Init ==
  /\ config \in Configs
  /\ made = FreeSize
  /\ heap = [next |-> [e \in Events |-> IF e < FreeSize THEN e + 1 ELSE Null],
             list |-> [l \in Lists |->
                         IF l = "event" \/ FreeSize = 0 THEN NoEntries
                         ELSE [head |-> 1, tail |-> FreeSize]]]
  /\ entry = [e \in Events |-> 0]
  /\ progress = "none"
  /\ listening = FALSE /\ mail = [s \in Sources |-> 0] /\ answered = FALSE
  /\ arrived = 0 /\ failed = 0
  /\ thread = [t \in Apps |-> IdleThread]
  /\ linked = <<>> /\ taken = <<>> /\ peeked = {} /\ intact = TRUE

-----------------------------------------------------------------------------
(* dpa_eq_sread, of which dpa_eq_read is the call without a timeout: make   *)
(* progress, read; when there was nothing and the caller waits, once more.  *)
Read(t) ==
  /\ \E call \in {"read", "peek"}, time \in config.waits :
       /\ MayCall(t, call)
       /\ thread' = [thread EXCEPT ![t] =
            [IdleThread EXCEPT !.pc = "progress", !.call = call, !.time = time]]
  /\ UNCHANGED <<config, listVars, progress, mailVars, historyVars>>

\* make_queue_progress: the function is read and called.
MakeProgress(t) ==
  /\ At(t, "progress")
  /\ thread' = [thread EXCEPT ![t].func = progress,
                  ![t].pc = IF progress = "none" THEN "look" ELSE "wait"]
  /\ UNCHANGED <<config, listVars, progress, mailVars, historyVars>>

\* There is room for one more event, whoever is about to add one.
RoomForEvent ==
  Len(linked) + Cardinality({t \in Apps : At(t, "add") \/ At(t, "link")}) < MaxEvents

\* With data, or after an error, progress_pep_eq adds an event; progress_ep_eq
\* adds one if it then manages to connect to what it has.
AfterWait(func) == IF func = "pep" THEN {"add"} ELSE {"add", "look"}

\* Connection data is taken.
ProgressTakes(t) ==
  LET func == thread[t].func IN
  /\ At(t, "wait")
  /\ mail[func] > 0
  /\ RoomForEvent
  /\ mail' = [mail EXCEPT ![func] = @ - 1]
  /\ answered' = (answered \/ func = "ep")
  /\ \E pc \in AfterWait(func) : Goto(t, pc)
  /\ UNCHANGED <<config, listVars, progress, listening, arrived, failed, historyVars>>

\* An error that is no timeout: both functions go on as if there were data, and
\* progress_ep_eq removes its interrupt.
ProgressFails(t) ==
  LET func == thread[t].func IN
  /\ At(t, "wait")
  /\ failed < config.failures
  /\ RoomForEvent
  /\ failed' = failed + 1
  /\ answered' = (answered \/ func = "ep")
  /\ mail' = IF func = "ep" THEN [mail EXCEPT !["ep"] = 0] ELSE mail
  /\ \E pc \in AfterWait(func) : Goto(t, pc)
  /\ UNCHANGED <<config, listVars, progress, listening, arrived, historyVars>>

\* The wait times out, or its interrupt is gone and nothing comes of it.
ProgressEnds(t) ==
  LET func == thread[t].func IN
  /\ At(t, "wait") /\ mail[func] = 0
  /\ thread[t].round = 1 \/ thread[t].time = "finite" \/ (func = "ep" /\ answered)
  /\ Goto(t, "look")
  /\ UNCHANGED <<config, listVars, progress, mailVars, historyVars>>

\* eq_read_priv of an empty queue.
LookEmpty(t) ==
  /\ At(t, "look")
  /\ Empty(heap, "event")
  /\ thread' = [thread EXCEPT ![t] =
       IF thread[t].round = 1 /\ thread[t].time # "none"
       THEN [@ EXCEPT !.round = 2, !.pc = "choose"] ELSE IdleThread]
  /\ UNCHANGED <<config, listVars, progress, mailVars, historyVars>>

\* How to wait: in the progress, or on the condition, for which a thread takes
\* the lock and does not look at the queue again.
ChooseWait(t) ==
  /\ At(t, "choose")
  /\ Goto(t, IF progress = "none" THEN "sleep" ELSE "progress")
  /\ UNCHANGED <<config, listVars, progress, mailVars, historyVars>>

\* get_head without FI_PEEK: the struct is unlinked, then copied out.
\* Slip: its struct goes to the free list at once
RecycledHead ==
  LinkedTail(UnlinkedHead(heap, "event"), "free", heap.list["event"].head)
WithoutHead == UnlinkedHead(heap, "event")

Take(t) ==
  LET e == heap.list["event"].head IN
  /\ At(t, "look") /\ thread[t].call = "read"
  /\ ~Empty(heap, "event")
  /\ Len(taken) <= MaxEvents
  /\ heap' = WithoutHead
  /\ taken' = Append(taken, entry[e])
  /\ thread' = [thread EXCEPT ![t].pc = "copy", ![t].event = e, ![t].id = entry[e]]
  /\ UNCHANGED <<config, made, entry, progress, mailVars, linked, peeked, intact>>

\* The event is copied; its struct is in no list any more.
Copy(t) ==
  /\ At(t, "copy")
  /\ peeked' = peeked \ {thread[t].event}
  /\ thread' = [thread EXCEPT ![t] = IdleThread]
  /\ UNCHANGED <<config, listVars, progress, mailVars, linked, taken, intact>>

\* get_head with FI_PEEK: the head, and no lock.
Peek(t) ==
  LET e == heap.list["event"].head IN
  /\ At(t, "look") /\ thread[t].call = "peek"
  /\ ~Empty(heap, "event")
  /\ peeked' = peeked \cup {e}
  /\ thread' = [thread EXCEPT ![t].pc = "recycle", ![t].event = e]
  /\ UNCHANGED <<config, listVars, progress, mailVars, linked, taken, intact>>

\* A peek is under way, or what it saw is still to be read.
PeekPending == peeked # {} \/ \E t \in Apps : At(t, "recycle")

\* What was peeked at goes to the free list, though it is still queued: with
\* events behind it they are cut off.
Recycle(t) ==
  LET e == thread[t].event IN
  /\ At(t, "recycle")
  /\ heap' = LinkedTail(heap, "free", e)
  /\ intact' = (intact /\ heap.list["event"].tail = e)
  /\ thread' = [thread EXCEPT ![t] = IdleThread]
  /\ UNCHANGED <<config, made, entry, progress, mailVars, linked, taken, peeked>>

\* fastlock_wait_timeout is fastlock_wait: the timeout is not looked at.
Sleep(t) ==
  /\ At(t, "sleep")
  /\ Goto(t, "asleep")
  /\ UNCHANGED <<config, listVars, progress, mailVars, historyVars>>

SpuriousWakeup(t) ==
  /\ At(t, "asleep")
  /\ Goto(t, "look")
  /\ UNCHANGED <<config, listVars, progress, mailVars, historyVars>>

-----------------------------------------------------------------------------
(* eq_add, by dpa_eq_write or in the progress of a read.                    *)
Write(t) ==
  /\ MayCall(t, "write")
  /\ RoomForEvent
  /\ thread' = [thread EXCEPT ![t] = [IdleThread EXCEPT !.pc = "add", !.call = "write"]]
  /\ UNCHANGED <<config, listVars, progress, mailVars, historyVars>>

\* Slip: one struct too many
StructAfterNew == made + 2
NewStruct == made + 1

\* get_empty_event: a struct of the free list, or a new one.
AddTake(t) ==
  /\ At(t, "add")
  /\ IF Empty(heap, "free")
     THEN made' = NewStruct /\ UNCHANGED heap
     ELSE heap' = UnlinkedHead(heap, "free") /\ UNCHANGED made
  /\ thread' = [thread EXCEPT ![t].pc = "link",
                  ![t].event = IF Empty(heap, "free") THEN NewStruct ELSE heap.list["free"].head]
  /\ intact' = (intact /\ ~PeekPending)
  /\ UNCHANGED <<config, entry, progress, mailVars, linked, taken, peeked>>

AddLink(t) ==
  LET id == Len(linked) + 1 IN
  /\ At(t, "link")
  /\ entry' = [entry EXCEPT ![thread[t].event] = id]
  /\ heap' = LinkedTail(heap, "event", thread[t].event)
  /\ linked' = Append(linked, id)
  /\ intact' = (intact /\ ~PeekPending)
  /\ Goto(t, "signal")
  /\ UNCHANGED <<config, made, progress, mailVars, taken, peeked>>

(* eq_signal: nobody is woken while there is a progress function.           *)
Asleep == {t \in Apps : At(t, "asleep")}

\* Slip: wake only those who have progress to make
SignalForProgress == progress # "none"
SignalWanted == progress = "none"

Signal(t) ==
  LET after == [thread EXCEPT ![t] =
                  IF thread[t].call = "write" THEN IdleThread
                  ELSE [@ EXCEPT !.pc = "look", !.event = 0]] IN
  /\ At(t, "signal")
  /\ IF SignalWanted /\ Asleep # {}
     THEN \E w \in Asleep : thread' = [after EXCEPT ![w].pc = "look"]
     ELSE thread' = after
  /\ UNCHANGED <<config, listVars, progress, mailVars, historyVars>>

-----------------------------------------------------------------------------
(* The progress function: dpa_listen, dpa_connect and dpa_accept set it,    *)
(* closing the passive endpoint resets it, whoever has set it.              *)
\* Slip: an endpoint that listens leaves the progress function alone
ProgressKept == progress
ProgressOfListen == "pep"

\* The endpoint is closed when no thread is in its progress.
NoProgressUnderWay == \A t \in Apps : ~At(t, "wait")

Listen(t) ==
  /\ MayCall(t, "listen")
  /\ ~listening /\ arrived = 0
  /\ listening' = TRUE
  /\ progress' = ProgressOfListen
  /\ UNCHANGED <<config, listVars, mail, answered, arrived, failed, thread, historyVars>>

Connect(t) ==
  /\ MayCall(t, "connect")
  /\ progress # "ep" /\ ~answered
  /\ progress' = "ep"
  /\ UNCHANGED <<config, listVars, mailVars, thread, historyVars>>

ClosePep(t) ==
  /\ MayCall(t, "close")
  /\ listening /\ NoProgressUnderWay
  /\ listening' = FALSE
  /\ progress' = "none"
  /\ mail' = [mail EXCEPT !["pep"] = 0]
  /\ UNCHANGED <<config, listVars, answered, arrived, failed, thread, historyVars>>

\* Connection data reaches an interrupt that is waited for.
Request ==
  /\ listening
  /\ arrived < config.requests
  /\ arrived' = arrived + 1
  /\ mail' = [mail EXCEPT !["pep"] = @ + 1]
  /\ UNCHANGED <<config, listVars, progress, listening, answered, failed, thread, historyVars>>

Answer ==
  /\ progress = "ep" /\ ~answered /\ mail["ep"] = 0
  /\ mail' = [mail EXCEPT !["ep"] = 1]
  /\ UNCHANGED <<config, listVars, progress, listening, answered, arrived, failed, thread, historyVars>>

-----------------------------------------------------------------------------
ReadNext(t) ==
  \/ MakeProgress(t) \/ ProgressTakes(t) \/ ProgressEnds(t)
  \/ LookEmpty(t) \/ ChooseWait(t) \/ Take(t) \/ Copy(t) \/ Peek(t) \/ Recycle(t) \/ Sleep(t)

AddNext(t) == AddTake(t) \/ AddLink(t) \/ Signal(t)

Next ==
  \/ \E t \in Apps :
       \/ Read(t) \/ ReadNext(t) \/ ProgressFails(t) \/ SpuriousWakeup(t)
       \/ Write(t) \/ AddNext(t)
       \/ Listen(t) \/ Connect(t) \/ ClosePep(t)
  \/ Request \/ Answer

Spec == Init /\ [][Next]_vars

\* Threads run, and an application reads its event queue over and over.
Fairness == \A t \in Apps : WF_vars(ReadNext(t) \/ AddNext(t)) /\ WF_vars(Read(t))

FairSpec == Spec /\ Fairness

-----------------------------------------------------------------------------
(* Properties.                                                              *)

\* Type invariant.
TypeOK ==
  /\ config \in Configs
  /\ made \in FreeSize .. (FreeSize + MaxEvents)
  /\ heap.next \in [Events -> Events \cup {Null}]
  /\ heap.list \in [Lists -> [head : Events \cup {Null}, tail : Events \cup {Null}]]
  /\ entry \in [Events -> 0 .. MaxEvents]
  /\ progress \in {"none", "pep", "ep"}
  /\ listening \in BOOLEAN
  /\ mail \in [Sources -> Nat] /\ answered \in BOOLEAN
  /\ arrived \in Nat /\ failed \in Nat
  /\ DOMAIN thread = Apps
  /\ linked \in Seq(1 .. MaxEvents) /\ taken \in Seq(0 .. MaxEvents)
  /\ peeked \subseteq Events /\ intact \in BOOLEAN

Queued(l) == Walk(heap, l, made)

\* The lists stay lists: each ends at its tail, and no struct is in two of
\* them, save one that was peeked at and not yet read.  That holds as long as
\* nothing was behind what was peeked at and nothing was added between the
\* peek and the read that followed it; it does not depend on how the calls of
\* several threads interleave.
ListsWellFormed ==
  intact =>
    /\ \A l \in Lists : WellFormed(heap, l, made)
    /\ \A i \in 1 .. Len(Queued("event")), j \in 1 .. Len(Queued("free")) :
         Queued("event")[i] = Queued("free")[j] => Queued("event")[i] \in peeked

\* As long, every event is read once and in the order the events were added, and
\* what a read copies out is the event it took, though the struct is in no list,
\* and under no lock, while it is copied.
EventsInOrder ==
  intact =>
    /\ linked = taken \o [i \in 1 .. Len(Queued("event")) |-> entry[Queued("event")[i]]]
    /\ \A t \in Apps : At(t, "copy") => entry[thread[t].event] = thread[t].id

\* An event added while a thread waits on the condition wakes a thread, when
\* the queue never gets a progress function.
SleeperWakes ==
  \A t \in Apps :
    (/\ config.calls \cap {"listen", "connect"} = {}
     /\ At(t, "asleep") /\ Asleep = {t} /\ \E u \in Apps : At(u, "link"))
      ~> ~At(t, "asleep")

\* Every connection request is taken by a read, when the application uses the
\* event queue from one thread and for the passive endpoint alone.
RequestsTaken ==
  (/\ Cardinality(config.threads) = 1 /\ config.calls \cap {"connect", "close"} = {}
   /\ mail["pep"] > 0)
    ~> mail["pep"] = 0

=============================================================================
