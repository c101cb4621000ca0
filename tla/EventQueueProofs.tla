--------------------------- MODULE EventQueueProofs ---------------------------
(***************************************************************************)
(* Theorems about EventQueue for any threads, whatever they call, any size *)
(* of the free list and any bound on the events: the lists stay lists and  *)
(* every event is read once and in order, until a peek goes wrong.         *)
(*                                                                         *)
(* The invariant says which structs the two lists hold, and which are in   *)
(* the hands of a thread: between two steps of a call a struct is in no    *)
(* list and under no lock, and only what the other threads may do to the   *)
(* lists meanwhile keeps it theirs.                                        *)
(***************************************************************************)
EXTENDS EventQueue, SListTheorems, FiniteSetTheorems, SequenceTheorems

-----------------------------------------------------------------------------
(* The invariant.                                                           *)

Pcs ==
  {"idle", "progress", "wait", "look", "choose", "copy", "recycle", "sleep", "asleep",
   "add", "link", "signal"}

Threads ==
  [pc : Pcs, call : Calls \cup {"none"}, round : {1, 2},
   time : {"none", "finite", "infinite"}, func : {"none", "pep", "ep"},
   event : Events \cup {0}, id : 0 .. MaxEvents]

\* The thread has taken a struct out of a list, and it is in none.
InHand(t) == At(t, "link") \/ At(t, "copy")

Typed ==
  /\ TypeOK
  /\ heap \in Heaps(Events, Lists)
  /\ thread \in [Apps -> Threads]
  /\ \A t \in Apps : InHand(t) \/ At(t, "recycle") => thread[t].event \in Events

Linking == {t \in Apps : At(t, "link")}
Adding == {t \in Apps : At(t, "add") \/ At(t, "link")}

\* The bound is kept by those who start to add, and a struct is made for an
\* event that is in the queue, was in it, or is about to be.
Counted ==
  /\ Len(linked) + Cardinality(Adding) <= MaxEvents
  /\ made <= FreeSize + Len(linked) + Cardinality(Linking)

In(e, p) == \E i \in 1 .. Len(p) : p[i] = e

\* A struct in the queue and in the free list was peeked at, is alone in the
\* queue and last in the free list.
SharedWasPeeked(q, f) ==
  \A i \in 1 .. Len(q), j \in 1 .. Len(f) :
    q[i] = f[j] => q[i] \in peeked /\ Len(q) = 1 /\ j = Len(f)

PeekedIsFirst(q) == \A i \in 1 .. Len(q) : q[i] \in peeked => i = 1

RecycledWasPeeked(q) ==
  \A t \in Apps : At(t, "recycle") =>
    /\ thread[t].event \in 1 .. made
    /\ In(thread[t].event, q) => thread[t].event \in peeked

\* What a thread has in hand is in no list, unless it was peeked at before.
HandsOnly(q, f) ==
  \A t \in Apps : InHand(t) =>
    /\ thread[t].event \in 1 .. made
    /\ ~In(thread[t].event, q)
    /\ In(thread[t].event, f) => At(t, "copy") /\ thread[t].event \in peeked

OneHandEach ==
  \A t, u \in Apps : InHand(t) /\ InHand(u) /\ thread[t].event = thread[u].event => t = u

CopiesItsEvent == \A t \in Apps : At(t, "copy") => entry[thread[t].event] = thread[t].id

InOrder(q) == linked = taken \o [i \in 1 .. Len(q) |-> entry[q[i]]]

\* The event queue holds the structs q and the free list the structs f.
Shape(q, f) ==
  /\ Holds(heap, "event", q) /\ Holds(heap, "free", f)
  /\ SharedWasPeeked(q, f) /\ PeekedIsFirst(q) /\ RecycledWasPeeked(q)
  /\ HandsOnly(q, f) /\ OneHandEach
  /\ CopiesItsEvent /\ InOrder(q)

Shaped == intact => \E q, f \in Seq(1 .. made) : Shape(q, f)

IInv == Typed /\ Counted /\ Shaped

-----------------------------------------------------------------------------
(* Types.                                                                   *)

\* The initial states are well typed.
LEMMA InitTyped == Init => Typed
<1> SUFFICES ASSUME Init PROVE Typed
  OBVIOUS
<1>1. heap \in Heaps(Events, Lists)
  <2>1. \A e \in Events : (IF e < FreeSize THEN e + 1 ELSE Null) \in Events \cup {Null}
    BY NumbersAssumption DEF Events, Null
  <2>2. \A l \in Lists : (IF l = "event" \/ FreeSize = 0 THEN NoEntries ELSE [head |-> 1, tail |-> FreeSize])
                           \in [head : Events \cup {Null}, tail : Events \cup {Null}]
    BY NumbersAssumption DEF Events, NoEntries, Null
  <2> QED BY <2>1, <2>2 DEF Init, Heaps
<1>2. IdleThread \in Threads
  BY NumbersAssumption DEF IdleThread, Threads, Pcs
<1>3. thread \in [Apps -> Threads] /\ \A t \in Apps : At(t, "idle")
  BY <1>2 DEF Init, At, IdleThread
<1>4. linked \in Seq(1 .. MaxEvents) /\ taken \in Seq(0 .. MaxEvents)
  BY DEF Init
<1>5. made \in FreeSize .. (FreeSize + MaxEvents) /\ entry \in [Events -> 0 .. MaxEvents]
  BY NumbersAssumption DEF Init
<1>6. TypeOK
  BY <1>1, <1>3, <1>4, <1>5 DEF Init, TypeOK, Heaps, Sources
<1>7. \A t \in Apps : ~(InHand(t) \/ At(t, "recycle"))
  BY <1>3 DEF InHand, At
<1> QED
  BY <1>1, <1>3, <1>6, <1>7 DEF Typed

\* A thread that moves on, with a struct only where it has one in hand.
LEMMA ThreadTyped ==
  ASSUME Typed, NEW t \in Apps, NEW r \in Threads,
         r.pc \in {"link", "copy", "recycle"} => r.event \in Events,
         thread' = [thread EXCEPT ![t] = r]
  PROVE  /\ thread' \in [Apps -> Threads]
         /\ \A u \in Apps : (InHand(u) \/ At(u, "recycle"))' => thread'[u].event \in Events
<1>1. thread' \in [Apps -> Threads] /\ DOMAIN thread = Apps
  BY DEF Typed
<1>2. ASSUME NEW u \in Apps, (InHand(u) \/ At(u, "recycle"))'
      PROVE  thread'[u].event \in Events
  <2>1. CASE u = t
    BY <1>1, <1>2, <2>1 DEF InHand, At
  <2>2. CASE u # t
    <3>1. thread'[u] = thread[u]
      BY <1>1, <2>2
    <3> QED BY <1>2, <3>1 DEF InHand, At, Typed
  <2> QED BY <2>1, <2>2
<1> QED
  BY <1>1, <1>2

\* Who adds has room for the event, and for a struct of its own.
LEMMA RoomToAdd ==
  ASSUME Typed, Counted, NEW t \in Apps
  PROVE  /\ IsFiniteSet(Adding) /\ IsFiniteSet(Linking)
         /\ Cardinality(Adding) \in Nat /\ Cardinality(Linking) \in Nat
         /\ Len(linked) \in Nat
         /\ At(t, "link") => Len(linked) + 1 <= MaxEvents
         /\ At(t, "add") => made + 1 <= FreeSize + MaxEvents
<1>1. Linking \subseteq Adding /\ Adding \subseteq Apps
  BY DEF Linking, Adding
<1>2. IsFiniteSet(Adding) /\ IsFiniteSet(Linking)
  BY <1>1, AppsAssumption, FS_Subset
<1>3. Cardinality(Adding) \in Nat /\ Cardinality(Linking) \in Nat
  BY <1>2, FS_CardinalityType
<1>4. Len(linked) \in Nat
  BY DEF Typed, TypeOK
<1>5. ASSUME At(t, "link") PROVE Len(linked) + 1 <= MaxEvents
  <2>1. Adding # {}
    BY <1>5 DEF Adding
  <2>2. Cardinality(Adding) # 0
    BY <1>2, <2>1, FS_EmptySet
  <2> QED BY <1>3, <1>4, <2>2, NumbersAssumption DEF Counted
<1>6. ASSUME At(t, "add") PROVE made + 1 <= FreeSize + MaxEvents
  <2>1. Linking \subseteq Adding \ {t} /\ t \in Adding
    BY <1>6 DEF Linking, Adding, At
  <2>2. IsFiniteSet(Adding \ {t}) /\ Cardinality(Adding \ {t}) = Cardinality(Adding) - 1
    BY <1>2, <2>1, FS_RemoveElement
  <2>3. Cardinality(Linking) <= Cardinality(Adding \ {t})
    BY <2>1, <2>2, FS_Subset
  <2>4. made \in Nat
    BY NumbersAssumption DEF Typed, TypeOK
  <2> QED BY <1>3, <1>4, <2>2, <2>3, <2>4, NumbersAssumption DEF Counted
<1> QED
  BY <1>2, <1>3, <1>4, <1>5, <1>6

\* The record of a thread, part by part.
LEMMA ThreadParts ==
  ASSUME Typed, NEW t \in Apps
  PROVE  /\ thread[t] \in Threads
         /\ thread[t].pc \in Pcs /\ thread[t].call \in Calls \cup {"none"}
         /\ thread[t].round \in {1, 2} /\ thread[t].time \in {"none", "finite", "infinite"}
         /\ thread[t].event \in Events \cup {0} /\ thread[t].id \in 0 .. MaxEvents
         /\ DOMAIN thread = Apps
         /\ IdleThread \in Threads
         /\ \A pc \in Pcs : [thread[t] EXCEPT !.pc = pc] \in Threads
<1>1. thread[t] \in Threads /\ DOMAIN thread = Apps
  BY DEF Typed
<1>2. IdleThread \in Threads
  BY NumbersAssumption DEF IdleThread, Threads, Pcs
<1> QED
  BY <1>1, <1>2 DEF Threads

\* A step that moves threads and nothing else.
LEMMA OnlyThreads ==
  ASSUME Typed, UNCHANGED <<config, listVars, progress, mailVars, historyVars>>,
         thread' \in [Apps -> Threads],
         \A u \in Apps : (InHand(u) \/ At(u, "recycle"))' => thread'[u].event \in Events
  PROVE  Typed'
<1>1. TypeOK'
  BY DEF Typed, TypeOK, listVars, mailVars, historyVars
<1> QED
  BY <1>1 DEF Typed, listVars

\* Reads until they find an event, and those who wait, move threads only.
LEMMA TypedThreads ==
  ASSUME Typed, NEW t \in Apps,
         \/ Read(t) \/ MakeProgress(t) \/ ProgressEnds(t) \/ LookEmpty(t) \/ ChooseWait(t)
         \/ Sleep(t) \/ SpuriousWakeup(t) \/ Write(t)
  PROVE  Typed'
<1>1. thread[t] \in Threads /\ IdleThread \in Threads
  BY ThreadParts
<1>2. ASSUME NEW pc \in Pcs
      PROVE  [thread[t] EXCEPT !.pc = pc] \in Threads /\ [thread[t] EXCEPT !.pc = pc].pc = pc
  BY <1>1 DEF Threads
<1>3. \E r \in Threads : /\ r.pc \notin {"link", "copy", "recycle"}
                         /\ thread' = [thread EXCEPT ![t] = r]
  <2>1. CASE Read(t)
    <3>1. PICK call \in {"read", "peek"}, time \in config.waits :
            thread' = [thread EXCEPT ![t] =
              [IdleThread EXCEPT !.pc = "progress", !.call = call, !.time = time]]
      BY <2>1 DEF Read
    <3>2. config.waits \subseteq {"none", "finite", "infinite"}
      BY ConfigsAssumption DEF Typed, TypeOK, ConfigSet
    <3>3. PICK r : r = [IdleThread EXCEPT !.pc = "progress", !.call = call, !.time = time]
      OBVIOUS
    <3>4. r \in Threads /\ r.pc = "progress"
      BY <1>1, <3>2, <3>3 DEF Threads, Pcs, Calls
    <3> QED BY <3>1, <3>3, <3>4
  <2>2. CASE ProgressEnds(t)
    <3>1. thread' = [thread EXCEPT ![t] = [thread[t] EXCEPT !.pc = "look"]]
      BY <2>2 DEF ProgressEnds, Goto
    <3> QED BY <1>2, <3>1 DEF Pcs
  <2>3. CASE LookEmpty(t)
    <3>1. PICK r \in {[thread[t] EXCEPT !.round = 2, !.pc = "choose"], IdleThread} :
            thread' = [thread EXCEPT ![t] = r]
      BY <2>3 DEF LookEmpty
    <3>2. CASE r = IdleThread
      BY <1>1, <3>1, <3>2 DEF IdleThread
    <3>3. CASE r = [thread[t] EXCEPT !.round = 2, !.pc = "choose"]
      <4>1. r \in Threads /\ r.pc = "choose"
        BY <1>1, <3>3 DEF Threads, Pcs
      <4> QED BY <3>1, <4>1
    <3> QED BY <3>1, <3>2, <3>3
  <2>4. CASE Sleep(t)
    <3>1. thread' = [thread EXCEPT ![t] = [thread[t] EXCEPT !.pc = "asleep"]]
      BY <2>4 DEF Sleep, Goto
    <3> QED BY <1>2, <3>1 DEF Pcs
  <2>5. CASE SpuriousWakeup(t)
    <3>1. thread' = [thread EXCEPT ![t] = [thread[t] EXCEPT !.pc = "look"]]
      BY <2>5 DEF SpuriousWakeup, Goto
    <3> QED BY <1>2, <3>1 DEF Pcs
  <2>6. CASE Write(t)
    <3>1. PICK r : r = [IdleThread EXCEPT !.pc = "add", !.call = "write"]
      OBVIOUS
    <3>2. r \in Threads /\ r.pc = "add"
      BY <1>1, <3>1 DEF Threads, Pcs, Calls
    <3> QED BY <2>6, <3>1, <3>2 DEF Write
  <2>7. CASE MakeProgress(t)
    <3>1. PICK pc \in {"look", "wait"} :
            thread' = [thread EXCEPT ![t] = [thread[t] EXCEPT !.func = progress, !.pc = pc]]
      BY <2>7 DEF MakeProgress
    <3>2. PICK r : r = [thread[t] EXCEPT !.func = progress, !.pc = pc]
      OBVIOUS
    <3>3. progress \in {"none", "pep", "ep"} /\ pc \in Pcs
      BY DEF Typed, TypeOK, Pcs
    <3>4. r \in Threads /\ r.pc = pc
      BY <1>1, <3>2, <3>3 DEF Threads
    <3> QED BY <3>1, <3>2, <3>4
  <2>8. CASE ChooseWait(t)
    <3>1. PICK pc \in {"sleep", "progress"} :
            thread' = [thread EXCEPT ![t] = [thread[t] EXCEPT !.pc = pc]]
      BY <2>8 DEF ChooseWait, Goto
    <3> QED BY <1>2, <3>1 DEF Pcs
  <2> QED BY <2>1, <2>2, <2>3, <2>4, <2>5, <2>6, <2>7, <2>8
<1>4. UNCHANGED <<config, listVars, progress, mailVars, historyVars>>
  BY DEF Read, MakeProgress, ProgressEnds, LookEmpty, ChooseWait, Sleep, SpuriousWakeup, Write
<1> QED
  BY <1>3, <1>4, ThreadTyped, OnlyThreads

\* A thread that is woken looks again, and has no struct.
LEMMA TypedSignal ==
  ASSUME Typed, NEW t \in Apps, Signal(t)
  PROVE  Typed'
<1>1. thread[t] \in Threads /\ IdleThread \in Threads /\ DOMAIN thread = Apps
  BY ThreadParts
<1>2. PICK r : r = IF thread[t].call = "write" THEN IdleThread
                   ELSE [thread[t] EXCEPT !.pc = "look", !.event = 0]
  OBVIOUS
<1>3. r \in Threads /\ r.pc \in {"idle", "look"}
  BY <1>1, <1>2 DEF Threads, Pcs, IdleThread
<1>4. PICK after : after = [thread EXCEPT ![t] = r]
  OBVIOUS
<1>5. after \in [Apps -> Threads]
  BY <1>1, <1>3, <1>4 DEF Typed
<1>6. \/ thread' = after
      \/ \E w \in Asleep : thread' = [after EXCEPT ![w] = [after[w] EXCEPT !.pc = "look"]]
  BY <1>2, <1>4 DEF Signal
<1>7. thread' \in [Apps -> Threads] /\ \A u \in Apps : thread'[u] = after[u] \/ thread'[u].pc = "look"
  <2>1. CASE thread' = after
    BY <1>5, <2>1
  <2>2. CASE \E w \in Asleep : thread' = [after EXCEPT ![w] = [after[w] EXCEPT !.pc = "look"]]
    <3>1. PICK w \in Apps : thread' = [after EXCEPT ![w] = [after[w] EXCEPT !.pc = "look"]]
      BY <2>2 DEF Asleep
    <3>2. [after[w] EXCEPT !.pc = "look"] \in Threads
      BY <1>5 DEF Threads, Pcs
    <3>3. [after[w] EXCEPT !.pc = "look"].pc = "look"
      BY <1>5 DEF Threads
    <3> QED BY <1>5, <3>1, <3>2, <3>3
  <2> QED BY <1>6, <2>1, <2>2
<1>8. ASSUME NEW u \in Apps, (InHand(u) \/ At(u, "recycle"))'
      PROVE  thread'[u].event \in Events
  <2>1. thread'[u] = after[u] /\ u # t
    BY <1>1, <1>3, <1>4, <1>7, <1>8 DEF InHand, At
  <2>2. thread'[u] = thread[u]
    BY <1>1, <1>4, <2>1
  <2> QED BY <1>8, <2>2 DEF InHand, At, Typed
<1> QED
  BY <1>7, <1>8, OnlyThreads DEF Signal

\* A step of the connection data and the progress function keeps the types.
LEMMA TypedMail ==
  ASSUME Typed, NEW t,
         \/ t \in Apps /\ (ProgressTakes(t) \/ ProgressFails(t))
         \/ t \in Apps /\ (Listen(t) \/ Connect(t) \/ ClosePep(t))
         \/ Request \/ Answer
  PROVE  Typed'
<1>1. t \in Apps => thread[t] \in Threads
  BY ThreadParts
<1>2. /\ mail' \in [Sources -> Nat] /\ answered' \in BOOLEAN
      /\ arrived' \in Nat /\ failed' \in Nat
      /\ listening' \in BOOLEAN /\ progress' \in {"none", "pep", "ep"}
  <2>1. /\ mail \in [Sources -> Nat] /\ answered \in BOOLEAN
        /\ arrived \in Nat /\ failed \in Nat
        /\ listening \in BOOLEAN /\ progress \in {"none", "pep", "ep"}
    BY DEF Typed, TypeOK
  <2>2. CASE ProgressTakes(t)
    <3>1. PICK func : func = thread[t].func
      OBVIOUS
    <3>2. mail' = [mail EXCEPT ![func] = @ - 1] /\ mail[func] > 0
      BY <2>2, <3>1 DEF ProgressTakes
    <3>3. ASSUME NEW s \in Sources PROVE mail'[s] \in Nat
      BY <2>1, <3>2
    <3>4. mail' \in [Sources -> Nat]
      BY <2>1, <3>2, <3>3
    <3> QED BY <2>1, <2>2, <3>4 DEF ProgressTakes
  <2>3. CASE Listen(t) \/ Connect(t)
    BY <2>1, <2>3 DEF Listen, Connect, ProgressOfListen, mailVars
  <2>4. CASE ClosePep(t)
    BY <2>1, <2>4 DEF ClosePep
  <2>5. CASE Request
    BY <2>1, <2>5 DEF Request, Sources
  <2>6. CASE Answer
    BY <2>1, <2>6 DEF Answer
  <2>7. CASE ProgressFails(t)
    <3>1. mail' = mail \/ mail' = [mail EXCEPT !["ep"] = 0]
      BY <2>7 DEF ProgressFails
    <3>2. mail' \in [Sources -> Nat]
      BY <2>1, <3>1 DEF Sources
    <3>3. UNCHANGED <<progress, listening, arrived>> /\ failed' = failed + 1 /\ answered' \in BOOLEAN
      BY <2>7 DEF ProgressFails
    <3> QED BY <2>1, <3>2, <3>3
  <2> QED BY <2>2, <2>3, <2>4, <2>5, <2>6, <2>7
<1>3. UNCHANGED <<config, listVars, historyVars>>
  BY DEF ProgressTakes, ProgressFails, Listen, Connect, ClosePep, Request, Answer
<1>4. /\ thread' \in [Apps -> Threads]
      /\ \A u \in Apps : (InHand(u) \/ At(u, "recycle"))' => thread'[u].event \in Events
  <2>1. CASE t \in Apps /\ (ProgressTakes(t) \/ ProgressFails(t))
    <3>1. PICK pc \in {"add", "look"} : Goto(t, pc)
      BY <2>1 DEF ProgressTakes, ProgressFails, AfterWait
    <3>2. PICK r : r = [thread[t] EXCEPT !.pc = pc]
      OBVIOUS
    <3>3. r \in Threads /\ r.pc \in {"add", "look"}
      BY <1>1, <2>1, <3>2 DEF Threads, Pcs
    <3>4. thread' = [thread EXCEPT ![t] = r]
      BY <3>1, <3>2 DEF Goto
    <3> QED BY <2>1, <3>3, <3>4, ThreadTyped
  <2>2. CASE thread' = thread
    BY <2>2 DEF Typed, InHand, At
  <2> QED BY <2>1, <2>2 DEF Listen, Connect, ClosePep, Request, Answer
<1>5. TypeOK'
  BY <1>2, <1>3, <1>4 DEF Typed, TypeOK, listVars, historyVars
<1> QED
  BY <1>3, <1>4, <1>5 DEF Typed, listVars

\* A read that finds an event: the struct that is taken or seen is the head.
LEMMA TypedReads ==
  ASSUME Typed, NEW t \in Apps, Take(t) \/ Copy(t) \/ Peek(t) \/ Recycle(t)
  PROVE  Typed'
<1>1. thread[t] \in Threads /\ IdleThread \in Threads
  BY ThreadParts
<1>2. heap \in Heaps(Events, Lists) /\ "event" \in Lists /\ "free" \in Lists /\ Null \notin Events
  BY NumbersAssumption DEF Typed, Lists, Events, Null
<1>3. ~Empty(heap, "event") => heap.list["event"].head \in Events
  BY <1>2 DEF Heaps, Empty
<1>4. entry \in [Events -> 0 .. MaxEvents]
  BY DEF Typed, TypeOK
<1>5. CASE Take(t)
  <2>1. PICK e \in Events : e = heap.list["event"].head
    BY <1>3, <1>5 DEF Take
  <2>2. PICK r : r = [thread[t] EXCEPT !.pc = "copy", !.event = e, !.id = entry[e]]
    OBVIOUS
  <2>3. r \in Threads /\ r.pc = "copy" /\ r.event \in Events
    BY <1>1, <1>4, <2>1, <2>2 DEF Threads, Pcs
  <2>4. thread' = [thread EXCEPT ![t] = r]
    BY <1>5, <2>1, <2>2 DEF Take
  <2>5. heap' \in Heaps(Events, Lists)
    BY <1>2, <1>5, UnlinkedHeadInHeaps DEF Take, WithoutHead
  <2>6. taken' \in Seq(0 .. MaxEvents)
    <3>1. taken \in Seq(0 .. MaxEvents) /\ entry[e] \in 0 .. MaxEvents
      BY <1>4, <2>1 DEF Typed, TypeOK
    <3>2. taken' = Append(taken, entry[e])
      BY <1>5, <2>1 DEF Take
    <3> QED BY <3>1, <3>2
  <2>7. /\ thread' \in [Apps -> Threads]
        /\ \A u \in Apps : (InHand(u) \/ At(u, "recycle"))' => thread'[u].event \in Events
    BY <2>3, <2>4, ThreadTyped
  <2>8. TypeOK'
    BY <1>5, <2>5, <2>6, <2>7 DEF Take, Typed, TypeOK, Heaps, mailVars
  <2> QED BY <2>5, <2>7, <2>8 DEF Typed
<1>6. CASE Copy(t)
  <2>1. thread' = [thread EXCEPT ![t] = IdleThread] /\ IdleThread.pc = "idle"
    BY <1>6 DEF Copy, IdleThread
  <2>2. /\ thread' \in [Apps -> Threads]
        /\ \A u \in Apps : (InHand(u) \/ At(u, "recycle"))' => thread'[u].event \in Events
    BY <1>1, <2>1, ThreadTyped
  <2>3. TypeOK'
    BY <1>6, <2>2 DEF Copy, Typed, TypeOK, listVars, mailVars
  <2> QED BY <1>6, <2>2, <2>3 DEF Typed, Copy, listVars
<1>7. CASE Peek(t)
  <2>1. PICK e \in Events : e = heap.list["event"].head
    BY <1>3, <1>7 DEF Peek
  <2>2. PICK r : r = [thread[t] EXCEPT !.pc = "recycle", !.event = e]
    OBVIOUS
  <2>3. r \in Threads /\ r.pc = "recycle" /\ r.event \in Events
    BY <1>1, <2>1, <2>2 DEF Threads, Pcs
  <2>4. thread' = [thread EXCEPT ![t] = r] /\ peeked' = peeked \cup {e}
    BY <1>7, <2>1, <2>2 DEF Peek
  <2>5. /\ thread' \in [Apps -> Threads]
        /\ \A u \in Apps : (InHand(u) \/ At(u, "recycle"))' => thread'[u].event \in Events
    BY <2>3, <2>4, ThreadTyped
  <2>6. TypeOK'
    BY <1>7, <2>4, <2>5 DEF Peek, Typed, TypeOK, listVars, mailVars
  <2> QED BY <1>7, <2>5, <2>6 DEF Typed, Peek, listVars
<1>8. CASE Recycle(t)
  <2>1. thread[t].event \in Events
    BY <1>8 DEF Recycle, Typed
  <2>2. heap' \in Heaps(Events, Lists)
    BY <1>2, <1>8, <2>1, LinkedTailInHeaps DEF Recycle
  <2>3. thread' = [thread EXCEPT ![t] = IdleThread] /\ IdleThread.pc = "idle"
    BY <1>8 DEF Recycle, IdleThread
  <2>4. /\ thread' \in [Apps -> Threads]
        /\ \A u \in Apps : (InHand(u) \/ At(u, "recycle"))' => thread'[u].event \in Events
    BY <1>1, <2>3, ThreadTyped
  <2>5. TypeOK'
    BY <1>8, <2>2, <2>4 DEF Recycle, Typed, TypeOK, Heaps, mailVars
  <2> QED BY <2>2, <2>4, <2>5 DEF Typed
<1> QED
  BY <1>5, <1>6, <1>7, <1>8

\* Adding takes a struct and links it; the new event has the next number.
LEMMA TypedAdds ==
  ASSUME Typed, Counted, NEW t \in Apps, AddTake(t) \/ AddLink(t)
  PROVE  Typed'
<1>1. thread[t] \in Threads
  BY ThreadParts
<1>2. heap \in Heaps(Events, Lists) /\ "event" \in Lists /\ "free" \in Lists /\ Null \notin Events
  BY NumbersAssumption DEF Typed, Lists, Events, Null
<1>3. made \in FreeSize .. (FreeSize + MaxEvents)
  BY DEF Typed, TypeOK
<1>4. CASE AddTake(t)
  <2>1. NewStruct \in Events /\ NewStruct \in FreeSize .. (FreeSize + MaxEvents)
    <3>1. made + 1 <= FreeSize + MaxEvents
      BY <1>4, RoomToAdd DEF AddTake
    <3> QED BY <1>3, <3>1, NumbersAssumption DEF NewStruct, Events
  <2>2. PICK e \in Events : e = IF Empty(heap, "free") THEN NewStruct ELSE heap.list["free"].head
    <3>1. ~Empty(heap, "free") => heap.list["free"].head \in Events
      BY <1>2 DEF Heaps, Empty
    <3> QED BY <2>1, <3>1
  <2>3. PICK r : r = [thread[t] EXCEPT !.pc = "link", !.event = e]
    OBVIOUS
  <2>4. r \in Threads /\ r.pc = "link" /\ r.event \in Events
    BY <1>1, <2>2, <2>3 DEF Threads, Pcs
  <2>5. thread' = [thread EXCEPT ![t] = r]
    BY <1>4, <2>2, <2>3 DEF AddTake
  <2>6. heap' \in Heaps(Events, Lists) /\ made' \in FreeSize .. (FreeSize + MaxEvents)
    <3>1. CASE Empty(heap, "free")
      BY <1>2, <1>4, <2>1, <3>1 DEF AddTake
    <3>2. CASE ~Empty(heap, "free")
      BY <1>2, <1>3, <1>4, <3>2, UnlinkedHeadInHeaps DEF AddTake
    <3> QED BY <3>1, <3>2
  <2>7. /\ thread' \in [Apps -> Threads]
        /\ \A u \in Apps : (InHand(u) \/ At(u, "recycle"))' => thread'[u].event \in Events
    BY <2>4, <2>5, ThreadTyped
  <2>8. intact' \in BOOLEAN
    BY <1>4 DEF AddTake, Typed, TypeOK
  <2>9. TypeOK'
    BY <1>4, <2>6, <2>7, <2>8 DEF AddTake, Typed, TypeOK, Heaps, mailVars
  <2> QED BY <2>6, <2>7, <2>9 DEF Typed
<1>5. CASE AddLink(t)
  <2>1. PICK id : id = Len(linked) + 1
    OBVIOUS
  <2>2. id \in 1 .. MaxEvents /\ id \in 0 .. MaxEvents
    <3>1. Len(linked) \in Nat /\ Len(linked) + 1 <= MaxEvents
      BY <1>5, RoomToAdd DEF AddLink
    <3> QED BY <2>1, <3>1, NumbersAssumption
  <2>3. thread[t].event \in Events
    BY <1>5 DEF AddLink, Typed, InHand
  <2>4. heap' \in Heaps(Events, Lists)
    BY <1>2, <1>5, <2>3, LinkedTailInHeaps DEF AddLink
  <2>5. entry' \in [Events -> 0 .. MaxEvents]
    BY <1>5, <2>1, <2>2, <2>3 DEF AddLink, Typed, TypeOK
  <2>6. linked' \in Seq(1 .. MaxEvents)
    <3>1. linked' = Append(linked, id) /\ linked \in Seq(1 .. MaxEvents)
      BY <1>5, <2>1 DEF AddLink, Typed, TypeOK
    <3> QED BY <2>2, <3>1
  <2>7. PICK r : r = [thread[t] EXCEPT !.pc = "signal"]
    OBVIOUS
  <2>8. r \in Threads /\ r.pc = "signal"
    BY <1>1, <2>7 DEF Threads, Pcs
  <2>9. thread' = [thread EXCEPT ![t] = r]
    BY <1>5, <2>7 DEF AddLink, Goto
  <2>10. /\ thread' \in [Apps -> Threads]
         /\ \A u \in Apps : (InHand(u) \/ At(u, "recycle"))' => thread'[u].event \in Events
    BY <2>8, <2>9, ThreadTyped
  <2>11. intact' \in BOOLEAN
    BY <1>5 DEF AddLink, Typed, TypeOK
  <2>12. TypeOK'
    BY <1>5, <2>4, <2>5, <2>6, <2>10, <2>11 DEF AddLink, Typed, TypeOK, Heaps, mailVars
  <2> QED BY <2>4, <2>10, <2>12 DEF Typed
<1> QED
  BY <1>4, <1>5

\* Every step keeps the types.
LEMMA TypedStep == Typed /\ Counted /\ [Next]_vars => Typed'
<1> SUFFICES ASSUME Typed, Counted, [Next]_vars PROVE Typed'
  OBVIOUS
<1>1. CASE UNCHANGED vars
  BY <1>1 DEF vars, listVars, mailVars, historyVars, Typed, TypeOK, InHand, At
<1>2. CASE Request \/ Answer
  BY <1>2, TypedMail
<1>3. ASSUME NEW t \in Apps,
             \/ Read(t) \/ ReadNext(t) \/ ProgressFails(t) \/ SpuriousWakeup(t)
             \/ Write(t) \/ AddNext(t)
             \/ Listen(t) \/ Connect(t) \/ ClosePep(t)
      PROVE  Typed'
  <2>1. CASE \/ Read(t) \/ MakeProgress(t) \/ ProgressEnds(t) \/ LookEmpty(t) \/ ChooseWait(t)
             \/ Sleep(t) \/ SpuriousWakeup(t) \/ Write(t)
    BY <2>1, TypedThreads
  <2>2. CASE Take(t) \/ Copy(t) \/ Peek(t) \/ Recycle(t)
    BY <2>2, TypedReads
  <2>3. CASE AddTake(t) \/ AddLink(t)
    BY <2>3, TypedAdds
  <2>4. CASE ProgressTakes(t) \/ ProgressFails(t) \/ Listen(t) \/ Connect(t) \/ ClosePep(t)
    BY <2>4, TypedMail
  <2>5. CASE Signal(t)
    BY <2>5, TypedSignal
  <2> QED BY <1>3, <2>1, <2>2, <2>3, <2>4, <2>5 DEF ReadNext, AddNext
<1> QED
  BY <1>1, <1>2, <1>3 DEF Next

-----------------------------------------------------------------------------
(* Counts.                                                                  *)

\* No thread has begun and no struct but those of the free list is made.
LEMMA InitCounted == Init => Counted
<1> SUFFICES ASSUME Init PROVE Counted
  OBVIOUS
<1>1. Adding = {} /\ Linking = {}
  BY DEF Init, Adding, Linking, At, IdleThread
<1>2. Cardinality(Adding) = 0 /\ Cardinality(Linking) = 0
  BY <1>1, FS_EmptySet
<1>3. Len(linked) = 0
  BY DEF Init
<1> QED
  BY <1>2, <1>3, NumbersAssumption DEF Init, Counted

\* Steps by which nobody begins or ends to add do not count.
LEMMA CountedStill ==
  ASSUME Counted, linked' = linked, made' = made,
         \A u \in Apps : (At(u, "add")' <=> At(u, "add")) /\ (At(u, "link")' <=> At(u, "link"))
  PROVE  Counted'
<1>1. Adding' = Adding /\ Linking' = Linking
  BY DEF Adding, Linking
<1> QED
  BY <1>1 DEF Counted

\* Every step keeps the counts.
LEMMA CountedStep == Typed /\ Counted /\ [Next]_vars => Counted'
<1> SUFFICES ASSUME Typed, Counted, [Next]_vars PROVE Counted'
  OBVIOUS
<1>1. DOMAIN thread = Apps /\ thread \in [Apps -> Threads]
  BY DEF Typed
<1>2. CASE UNCHANGED vars
  BY <1>2, CountedStill DEF vars, listVars, historyVars, At
<1>3. CASE Request \/ Answer
  BY <1>3, CountedStill DEF Request, Answer, listVars, historyVars, At
<1>4. ASSUME NEW t \in Apps, Listen(t) \/ Connect(t) \/ ClosePep(t) PROVE Counted'
  BY <1>4, CountedStill DEF Listen, Connect, ClosePep, listVars, historyVars, At
<1>5. ASSUME NEW t \in Apps,
             \/ Read(t) \/ MakeProgress(t) \/ ProgressEnds(t) \/ LookEmpty(t) \/ ChooseWait(t)
             \/ Take(t) \/ Copy(t) \/ Peek(t) \/ Recycle(t) \/ Sleep(t) \/ SpuriousWakeup(t)
      PROVE  Counted'
  <2>1. thread[t].pc \notin {"add", "link"}
    <3>1. CASE Read(t)
      BY <3>1 DEF Read, MayCall, At
    <3>2. CASE ProgressEnds(t) \/ LookEmpty(t) \/ Take(t) \/ Copy(t)
      BY <3>2 DEF ProgressEnds, LookEmpty, Take, Copy, At
    <3>3. CASE Peek(t) \/ Recycle(t) \/ Sleep(t) \/ SpuriousWakeup(t)
      BY <3>3 DEF Peek, Recycle, Sleep, SpuriousWakeup, At
    <3>4. CASE MakeProgress(t) \/ ChooseWait(t)
      BY <3>4 DEF MakeProgress, ChooseWait, At
    <3> QED BY <1>5, <3>1, <3>2, <3>3, <3>4
  <2>2. thread'[t].pc \notin {"add", "link"}
    <3>1. CASE Read(t)
      BY <1>1, <3>1 DEF Read, IdleThread
    <3>2. CASE ProgressEnds(t) \/ ChooseWait(t) \/ Sleep(t) \/ SpuriousWakeup(t)
      BY <1>1, <3>2 DEF ProgressEnds, ChooseWait, Sleep, SpuriousWakeup, Goto, Threads
    <3>3. CASE Copy(t) \/ Recycle(t)
      BY <1>1, <3>3 DEF Copy, Recycle, IdleThread
    <3>4. CASE Take(t) \/ Peek(t)
      BY <1>1, <3>4 DEF Take, Peek, Threads
    <3>5. CASE LookEmpty(t)
      <4>1. CASE thread[t].round = 1 /\ thread[t].time # "none"
        BY <1>1, <3>5, <4>1 DEF LookEmpty, Threads
      <4>2. CASE ~(thread[t].round = 1 /\ thread[t].time # "none")
        BY <1>1, <3>5, <4>2 DEF LookEmpty, IdleThread
      <4> QED BY <4>1, <4>2
    <3>6. CASE MakeProgress(t)
      BY <1>1, <3>6 DEF MakeProgress, Threads
    <3> QED BY <1>5, <3>1, <3>2, <3>3, <3>4, <3>5, <3>6
  <2>3. \A u \in Apps \ {t} : thread'[u] = thread[u]
    BY <1>1, <1>5 DEF Read, MakeProgress, ProgressEnds, LookEmpty, ChooseWait, Take, Copy, Peek,
                      Recycle, Sleep, SpuriousWakeup, Goto
  <2>4. linked' = linked /\ made' = made
    BY <1>5 DEF Read, MakeProgress, ProgressEnds, LookEmpty, ChooseWait, Take, Copy, Peek,
                Recycle, Sleep, SpuriousWakeup, listVars, historyVars
  <2> QED BY <2>1, <2>2, <2>3, <2>4, CountedStill DEF At
<1>6. ASSUME NEW t \in Apps, Signal(t) PROVE Counted'
  <2>1. PICK r : r = IF thread[t].call = "write" THEN IdleThread
                     ELSE [thread[t] EXCEPT !.pc = "look", !.event = 0]
    OBVIOUS
  <2>2. r.pc \in {"idle", "look"}
    BY <1>1, <2>1 DEF IdleThread, Threads
  <2>3. PICK after : after = [thread EXCEPT ![t] = r]
    OBVIOUS
  <2>4. \/ thread' = after
        \/ \E w \in Asleep : thread' = [after EXCEPT ![w] = [after[w] EXCEPT !.pc = "look"]]
    BY <1>6, <2>1, <2>3 DEF Signal
  <2>5. r \in Threads /\ after \in [Apps -> Threads]
    <3>1. IdleThread \in Threads /\ thread[t] \in Threads
      BY ThreadParts
    <3>2. r \in Threads
      BY <2>1, <3>1 DEF Threads, Pcs
    <3> QED BY <1>1, <2>3, <3>2
  <2>6. ASSUME NEW u \in Apps
        PROVE  \/ thread'[u].pc = thread[u].pc
               \/ thread'[u].pc \in {"idle", "look"} /\ thread[u].pc \in {"signal", "asleep"}
    <3>1. after[u].pc = thread[u].pc \/ (after[u].pc \in {"idle", "look"} /\ thread[u].pc = "signal")
      BY <1>1, <1>6, <2>2, <2>3 DEF Signal, At
    <3>2. CASE thread' = after
      BY <3>1, <3>2
    <3>3. ASSUME NEW w \in Asleep, thread' = [after EXCEPT ![w] = [after[w] EXCEPT !.pc = "look"]]
          PROVE  \/ thread'[u].pc = thread[u].pc
                 \/ thread'[u].pc \in {"idle", "look"} /\ thread[u].pc \in {"signal", "asleep"}
      <4>1. CASE u = w
        BY <2>5, <3>3, <4>1 DEF Asleep, At, Threads
      <4>2. CASE u # w
        BY <2>5, <3>1, <3>3, <4>2
      <4> QED BY <4>1, <4>2
    <3> QED BY <2>4, <3>2, <3>3
  <2>7. linked' = linked /\ made' = made
    BY <1>6 DEF Signal, listVars, historyVars
  <2> QED BY <2>6, <2>7, CountedStill DEF At
<1>7. ASSUME NEW t \in Apps, ProgressTakes(t) \/ ProgressFails(t) \/ Write(t) PROVE Counted'
  <2>1. thread[t].pc \notin {"add", "link"} /\ thread'[t].pc \in {"add", "look"}
    <3>1. CASE ProgressTakes(t) \/ ProgressFails(t)
      <4>1. PICK pc \in {"add", "look"} : Goto(t, pc)
        BY <3>1 DEF ProgressTakes, ProgressFails, AfterWait
      <4> QED BY <1>1, <3>1, <4>1 DEF ProgressTakes, ProgressFails, At, Goto, Threads
    <3>2. CASE Write(t)
      <4>1. thread[t].pc = "idle"
        BY <3>2 DEF Write, MayCall, At
      <4>2. [IdleThread EXCEPT !.pc = "add", !.call = "write"].pc = "add"
        BY DEF IdleThread
      <4> QED BY <1>1, <3>2, <4>1, <4>2 DEF Write
    <3> QED BY <1>7, <3>1, <3>2
  <2>2. \A u \in Apps \ {t} : thread'[u] = thread[u]
    BY <1>1, <1>7 DEF ProgressTakes, ProgressFails, Write, Goto
  <2>3. /\ Len(linked) + Cardinality(Adding) < MaxEvents
        /\ linked' = linked /\ made' = made
    BY <1>7 DEF ProgressTakes, ProgressFails, Write, RoomForEvent, Adding, listVars, historyVars
  <2>4. CASE thread'[t].pc = "look"
    BY <2>1, <2>2, <2>3, <2>4, CountedStill DEF At
  <2>5. CASE thread'[t].pc = "add"
    <3>1. Adding' = Adding \cup {t} /\ Linking' = Linking /\ t \notin Adding
      BY <2>1, <2>2, <2>5 DEF Adding, Linking, At
    <3>2. IsFiniteSet(Adding) /\ Cardinality(Adding) \in Nat /\ Len(linked) \in Nat
      BY RoomToAdd
    <3>3. Cardinality(Adding') = Cardinality(Adding) + 1
      BY <3>1, <3>2, FS_AddElement
    <3> QED BY <2>3, <3>1, <3>2, <3>3, NumbersAssumption DEF Counted
  <2> QED BY <2>1, <2>4, <2>5
<1>8. ASSUME NEW t \in Apps, AddTake(t) PROVE Counted'
  <2>1. Adding' = Adding /\ Linking' = Linking \cup {t} /\ t \notin Linking
    <3>1. thread[t].pc = "add" /\ thread'[t].pc = "link"
      BY <1>1, <1>8 DEF AddTake, At, Threads
    <3>2. \A u \in Apps \ {t} : thread'[u] = thread[u]
      BY <1>1, <1>8 DEF AddTake
    <3> QED BY <3>1, <3>2 DEF Adding, Linking, At
  <2>2. linked' = linked /\ made' \in {made, made + 1} /\ made \in Nat
    BY <1>8, NumbersAssumption DEF AddTake, NewStruct, Typed, TypeOK
  <2>3. IsFiniteSet(Linking) /\ Cardinality(Linking) \in Nat /\ Len(linked) \in Nat
    BY RoomToAdd
  <2>4. Cardinality(Linking') = Cardinality(Linking) + 1
    BY <2>1, <2>3, FS_AddElement
  <2> QED BY <2>1, <2>2, <2>3, <2>4, NumbersAssumption DEF Counted
<1>9. ASSUME NEW t \in Apps, AddLink(t) PROVE Counted'
  <2>1. Adding' = Adding \ {t} /\ Linking' = Linking \ {t} /\ t \in Linking /\ t \in Adding
    <3>1. thread[t].pc = "link" /\ thread'[t].pc = "signal"
      BY <1>1, <1>9 DEF AddLink, Goto, At, Threads
    <3>2. \A u \in Apps \ {t} : thread'[u] = thread[u]
      BY <1>1, <1>9 DEF AddLink, Goto
    <3> QED BY <3>1, <3>2 DEF Adding, Linking, At
  <2>2. Len(linked') = Len(linked) + 1 /\ made' = made /\ made \in Nat
    <3>1. linked' = Append(linked, Len(linked) + 1) /\ made' = made
      BY <1>9 DEF AddLink
    <3> QED BY <3>1, NumbersAssumption DEF Typed, TypeOK
  <2>3. /\ IsFiniteSet(Linking) /\ Cardinality(Linking) \in Nat /\ Len(linked) \in Nat
        /\ IsFiniteSet(Adding) /\ Cardinality(Adding) \in Nat
    BY RoomToAdd
  <2>4. Cardinality(Linking') = Cardinality(Linking) - 1 /\ Cardinality(Adding') = Cardinality(Adding) - 1
    BY <2>1, <2>3, FS_RemoveElement
  <2> QED BY <2>2, <2>3, <2>4, NumbersAssumption DEF Counted
<1> QED
  BY <1>2, <1>3, <1>4, <1>5, <1>6, <1>7, <1>8, <1>9 DEF Next, ReadNext, AddNext

-----------------------------------------------------------------------------
(* The lists.                                                               *)

\* What the lists hold are entries of the heap.
LEMMA ShapeFacts ==
  ASSUME Typed, NEW p \in Seq(1 .. made)
  PROVE  /\ made \in Nat /\ p \in Seq(Events)
         /\ 1 .. made \subseteq Events /\ Null \notin Events
         /\ heap \in Heaps(Events, Lists) /\ "event" \in Lists /\ "free" \in Lists
         /\ DOMAIN thread = Apps /\ thread \in [Apps -> Threads]
<1>1. made \in Nat /\ made <= FreeSize + MaxEvents
  BY NumbersAssumption DEF Typed, TypeOK
<1>2. 1 .. made \subseteq Events
  BY <1>1, NumbersAssumption DEF Events
<1>3. p \in Seq(Events)
  BY <1>2, SeqMonotonic
<1> QED
  BY <1>1, <1>2, <1>3 DEF Typed, Events, Null, Lists

\* dpa_eq_open links the structs it makes into the free list, in order.
LEMMA InitShaped == Init => Shaped
<1> SUFFICES ASSUME Init PROVE \E q, f \in Seq(1 .. made) : Shape(q, f)
  BY DEF Shaped
<1>1. PICK f : f = [i \in 1 .. FreeSize |-> i]
  OBVIOUS
<1>2. f \in Seq(1 .. made) /\ Len(f) = FreeSize /\ <<>> \in Seq(1 .. made)
  BY <1>1, NumbersAssumption DEF Init
<1>3. Holds(heap, "event", <<>>)
  <2>1. heap.list["event"] = NoEntries
    BY DEF Init, Lists
  <2>2. Len(<<>>) = 0
    OBVIOUS
  <2> QED BY <2>1, <2>2 DEF Holds, NonRepeating
<1>4. Holds(heap, "free", f)
  <2>1. NonRepeating(f)
    BY <1>1, <1>2 DEF NonRepeating
  <2>2. \A i \in 1 .. FreeSize : heap.next[f[i]] = IF i < FreeSize THEN i + 1 ELSE Null
    <3>1. \A i \in 1 .. FreeSize : i \in Events /\ f[i] = i
      BY <1>1, NumbersAssumption DEF Events
    <3>2. heap.next = [e \in Events |-> IF e < FreeSize THEN e + 1 ELSE Null]
      BY DEF Init
    <3> QED BY <3>1, <3>2
  <2>3. CASE FreeSize = 0
    <3>1. f = <<>> /\ heap.list["free"] = NoEntries
      BY <1>1, <2>3 DEF Init, Lists
    <3>2. 1 .. Len(f) - 1 = {}
      BY <1>2, <2>3
    <3> QED BY <2>1, <3>1, <3>2 DEF Holds
  <2>4. CASE FreeSize # 0
    <3>1. heap.list["free"] = [head |-> 1, tail |-> FreeSize]
      BY <2>4 DEF Init, Lists
    <3>2. f # <<>> /\ f[1] = 1 /\ f[FreeSize] = FreeSize /\ FreeSize \in 1 .. FreeSize
      BY <1>1, <1>2, <2>4, NumbersAssumption
    <3>3. heap.next[f[FreeSize]] = Null
      BY <2>2, <3>2
    <3>4. \A i \in 1 .. FreeSize - 1 : heap.next[f[i]] = f[i + 1]
      BY <1>1, <2>2, NumbersAssumption
    <3> QED BY <1>2, <2>1, <3>1, <3>2, <3>3, <3>4 DEF Holds
  <2> QED BY <2>3, <2>4
<1>5. \A t \in Apps : At(t, "idle") /\ ~At(t, "link") /\ ~At(t, "copy") /\ ~At(t, "recycle")
  BY DEF Init, At, IdleThread
<1>6. SharedWasPeeked(<<>>, f) /\ PeekedIsFirst(<<>>)
  BY DEF SharedWasPeeked, PeekedIsFirst
<1>7. RecycledWasPeeked(<<>>) /\ HandsOnly(<<>>, f) /\ OneHandEach /\ CopiesItsEvent
  BY <1>5 DEF RecycledWasPeeked, HandsOnly, OneHandEach, CopiesItsEvent, InHand
<1>8. InOrder(<<>>)
  <2>1. linked = <<>> /\ taken = <<>>
    BY DEF Init
  <2>2. <<>> \o [i \in 1 .. 0 |-> entry[<<>>[i]]] = <<>> /\ Len(<<>>) = 0
    OBVIOUS
  <2> QED BY <2>1, <2>2 DEF InOrder
<1> QED
  BY <1>2, <1>3, <1>4, <1>6, <1>7, <1>8 DEF Shape

\* Steps that touch no struct, and leave those in hand where they are.
LEMMA ShapedStill ==
  ASSUME Shaped, UNCHANGED <<listVars, historyVars>>,
         \A u \in Apps : (InHand(u) \/ At(u, "recycle"))' => thread'[u] = thread[u]
  PROVE  Shaped'
<1>1. ASSUME NEW q, NEW f, Shape(q, f) PROVE Shape(q, f)'
  <2>1. \A u \in Apps : /\ InHand(u)' => InHand(u)
                        /\ At(u, "copy")' <=> At(u, "copy") /\ InHand(u)'
                        /\ At(u, "recycle")' => At(u, "recycle")
    BY DEF InHand, At
  <2>2. /\ RecycledWasPeeked(q)' /\ HandsOnly(q, f)' /\ OneHandEach' /\ CopiesItsEvent'
    BY <1>1, <2>1 DEF Shape, RecycledWasPeeked, HandsOnly, OneHandEach, CopiesItsEvent,
                      listVars, historyVars, InHand
  <2> QED
    BY <1>1, <2>2 DEF Shape, SharedWasPeeked, PeekedIsFirst, InOrder, listVars, historyVars
<1> QED
  BY <1>1 DEF Shaped, listVars, historyVars

\* A sequence is its first element and then the rest.
LEMMA HeadThenRest ==
  ASSUME NEW S, NEW x \in S, NEW r \in Seq(S), NEW s \in Seq(S),
         Len(s) = Len(r) + 1, s[1] = x, \A i \in 1 .. Len(r) : s[i + 1] = r[i]
  PROVE  s = <<x>> \o r
<1>1. <<x>> \in Seq(S) /\ Len(<<x>>) = 1 /\ <<x>>[1] = x
  OBVIOUS
<1>2. /\ <<x>> \o r \in Seq(S) /\ Len(<<x>> \o r) = 1 + Len(r)
      /\ \A i \in 1 .. 1 + Len(r) : (<<x>> \o r)[i] = IF i <= 1 THEN <<x>>[i] ELSE r[i - 1]
  BY <1>1, ConcatProperties
<1>3. Len(r) \in Nat /\ Len(s) = Len(<<x>> \o r)
  BY <1>2, LenProperties
<1>4. ASSUME NEW i \in 1 .. Len(s) PROVE s[i] = (<<x>> \o r)[i]
  <2>1. CASE i = 1
    BY <1>1, <1>2, <1>3, <2>1
  <2>2. CASE i # 1
    <3>1. i - 1 \in 1 .. Len(r) /\ i - 1 + 1 = i /\ i \in 1 .. 1 + Len(r) /\ ~(i <= 1)
      BY <1>2, <1>3, <2>2
    <3> QED BY <1>2, <3>1
  <2> QED BY <2>1, <2>2
<1> QED
  BY <1>2, <1>3, <1>4, SeqEqual

\* The first of what follows a can be the last of what comes before it.
LEMMA AppendThenRest ==
  ASSUME NEW a \in Seq(0 .. MaxEvents), NEW x \in 0 .. MaxEvents, NEW r \in Seq(0 .. MaxEvents)
  PROVE  a \o (<<x>> \o r) = Append(a, x) \o r
<1>1. <<x>> \in Seq(0 .. MaxEvents)
  OBVIOUS
<1>2. a \o (<<x>> \o r) = (a \o <<x>>) \o r
  BY <1>1, ConcatAssociative
<1>3. Append(a, x) = a \o <<x>>
  BY AppendIsConcat
<1> QED
  BY <1>2, <1>3

\* A read takes the head; it is in no list any more, unless it was peeked at.
LEMMA ShapeTake ==
  ASSUME Typed, NEW q \in Seq(1 .. made), NEW f \in Seq(1 .. made), Shape(q, f),
         NEW t \in Apps, Take(t)
  PROVE  Tail(q) \in Seq(1 .. made) /\ Shape(Tail(q), f)'
<1>1. /\ made \in Nat /\ q \in Seq(Events) /\ f \in Seq(Events)
      /\ 1 .. made \subseteq Events /\ Null \notin Events
      /\ heap \in Heaps(Events, Lists) /\ "event" \in Lists /\ "free" \in Lists
      /\ DOMAIN thread = Apps /\ thread \in [Apps -> Threads]
  BY ShapeFacts
<1>2. Holds(heap, "event", q) /\ Holds(heap, "free", f)
  BY DEF Shape
<1>3. q # <<>> /\ heap.list["event"].head = q[1] /\ NonRepeating(q)
  BY <1>2 DEF Take, Empty, Holds, NoEntries
<1>0. Len(Tail(q)) \in Nat /\ Len(q) = Len(Tail(q)) + 1 /\ q[1] \in 1 .. made
  <2>1. Len(Tail(q)) = Len(q) - 1 /\ Tail(q) \in Seq(1 .. made) /\ Len(q) \in Nat \ {0}
    BY <1>3, HeadTailProperties, EmptySeq
  <2>2. 1 \in 1 .. Len(q)
    BY <2>1
  <2>3. q[1] \in 1 .. made
    BY <2>2, ElementOfSeq
  <2> QED BY <2>1, <2>3
<1>00. PICK N \in Nat : N = Len(Tail(q))
  BY <1>0
<1>4. PICK e, p : /\ e = q[1] /\ p = Tail(q) /\ N = Len(p) /\ Len(q) = N + 1
                  /\ e \in 1 .. made
  BY <1>0, <1>00
<1>5. p \in Seq(1 .. made) /\ \A i \in 1 .. N : p[i] = q[i + 1] /\ i + 1 \in 1 .. Len(q) /\ i + 1 # 1
  BY <1>3, <1>4
<1>6. /\ heap' = UnlinkedHead(heap, "event") /\ taken' = Append(taken, entry[e])
      /\ thread' = [thread EXCEPT ![t] = [thread[t] EXCEPT !.pc = "copy", !.event = e, !.id = entry[e]]]
      /\ UNCHANGED <<made, entry, linked, peeked>>
  BY <1>3, <1>4 DEF Take, WithoutHead
<1>7. /\ thread'[t].pc = "copy" /\ thread'[t].event = e /\ thread'[t].id = entry[e]
      /\ \A u \in Apps \ {t} : thread'[u] = thread[u]
  BY <1>1, <1>6 DEF Threads
<1>8. Holds(heap, "event", p)' /\ Holds(heap, "free", f)'
  <2>1. /\ Holds(UnlinkedHead(heap, "event"), "event", Tail(q))
        /\ UnlinkedHead(heap, "event").next = heap.next
        /\ \A k \in Lists \ {"event"} : UnlinkedHead(heap, "event").list[k] = heap.list[k]
    BY <1>1, <1>2, <1>3, UnlinkedHeadDrops
  <2>2. heap'.next = heap.next /\ heap'.list["free"] = heap.list["free"]
    BY <1>1, <1>6, <2>1
  <2>3. Holds(heap', "free", f)
    BY <1>1, <1>2, <2>2, HoldsStill
  <2> QED BY <1>4, <1>6, <2>1, <2>3
<1>9. \A i \in 1 .. Len(p) : p[i] \notin peeked
  BY <1>4, <1>5 DEF Shape, PeekedIsFirst
<1>10. SharedWasPeeked(p, f)' /\ PeekedIsFirst(p)'
  <2>1. ASSUME NEW i \in 1 .. Len(p), NEW j \in 1 .. Len(f), p[i] = f[j] PROVE FALSE
    BY <1>4, <1>5, <1>9, <2>1 DEF Shape, SharedWasPeeked
  <2> QED BY <1>6, <1>9, <2>1 DEF SharedWasPeeked, PeekedIsFirst
<1>11. ASSUME NEW x, In(x, p) PROVE In(x, q) /\ x # e
  BY <1>3, <1>4, <1>5, <1>11 DEF In, NonRepeating
<1>12. In(e, q)
  BY <1>4 DEF In
<1>13. RecycledWasPeeked(p)'
  BY <1>6, <1>7, <1>11 DEF Shape, RecycledWasPeeked, At
<1>14. HandsOnly(p, f)'
  <2> SUFFICES ASSUME NEW u \in Apps, InHand(u)'
               PROVE  /\ thread'[u].event \in 1 .. made
                      /\ ~In(thread'[u].event, p)
                      /\ In(thread'[u].event, f) => At(u, "copy")' /\ thread'[u].event \in peeked
    BY <1>6 DEF HandsOnly
  <2>1. CASE u = t
    <3>1. ASSUME In(e, f) PROVE e \in peeked
      <4>1. PICK j \in 1 .. Len(f) : f[j] = e
        BY <3>1 DEF In
      <4>2. 1 \in 1 .. Len(q) /\ q[1] = f[j]
        BY <1>4, <4>1
      <4> QED BY <1>4, <4>2 DEF Shape, SharedWasPeeked
    <3> QED BY <1>4, <1>7, <1>11, <2>1, <3>1 DEF At
  <2>2. CASE u # t
    BY <1>7, <1>11, <2>2 DEF Shape, HandsOnly, InHand, At
  <2> QED BY <2>1, <2>2
<1>15. OneHandEach'
  <2>1. ASSUME NEW u \in Apps \ {t}, InHand(u) PROVE thread[u].event # e
    BY <1>12, <2>1 DEF Shape, HandsOnly
  <2> QED BY <1>7, <2>1 DEF Shape, OneHandEach, InHand, At
<1>16. CopiesItsEvent'
  BY <1>6, <1>7 DEF Shape, CopiesItsEvent, At
<1>17. InOrder(p)'
  <2>1. PICK s : s = [i \in 1 .. N + 1 |-> entry[q[i]]]
    OBVIOUS
  <2>2. PICK r : r = [i \in 1 .. N |-> entry[p[i]]]
    OBVIOUS
  <2>3. linked = taken \o s
    BY <1>4, <2>1 DEF Shape, InOrder
  <2>4. entry \in [Events -> 0 .. MaxEvents] /\ taken \in Seq(0 .. MaxEvents)
    BY DEF Typed, TypeOK
  <2>5. \A i \in 1 .. N + 1 : q[i] \in Events
    BY <1>1, <1>4
  <2>6. s \in Seq(0 .. MaxEvents) /\ r \in Seq(0 .. MaxEvents) /\ Len(s) = N + 1 /\ Len(r) = N
        /\ entry[e] \in 0 .. MaxEvents
    BY <1>4, <1>5, <2>1, <2>2, <2>4, <2>5
  <2>7. s[1] = entry[e] /\ \A i \in 1 .. N : s[i + 1] = r[i]
    BY <1>4, <1>5, <2>1, <2>2
  <2>8. taken \o s = Append(taken, entry[e]) \o r
    <3>1. PICK S, x : S = 0 .. MaxEvents /\ x = entry[e]
      OBVIOUS
    <3>2. taken \in Seq(S) /\ x \in S /\ r \in Seq(S) /\ s \in Seq(S)
      BY <2>4, <2>6, <3>1
    <3>3. Len(s) = Len(r) + 1 /\ s[1] = x /\ \A i \in 1 .. Len(r) : s[i + 1] = r[i]
      BY <2>6, <2>7, <3>1
    <3>4. s = <<x>> \o r
      BY <3>2, <3>3, HeadThenRest
    <3>5. taken \o (<<x>> \o r) = Append(taken, x) \o r
      BY <3>1, <3>2, AppendThenRest, Zenon
    <3> QED BY <3>1, <3>4, <3>5
  <2> QED BY <1>4, <1>6, <2>2, <2>3, <2>8 DEF InOrder
<1> QED
  BY <1>4, <1>5, <1>8, <1>10, <1>13, <1>14, <1>15, <1>16, <1>17 DEF Shape

\* A read that has copied its struct out forgets it; it was in the queue no more.
LEMMA ShapeCopy ==
  ASSUME Typed, NEW q \in Seq(1 .. made), NEW f \in Seq(1 .. made), Shape(q, f),
         NEW t \in Apps, Copy(t)
  PROVE  Shape(q, f)'
<1>1. DOMAIN thread = Apps /\ thread \in [Apps -> Threads]
  BY DEF Typed
<1>2. PICK e : e = thread[t].event
  OBVIOUS
<1>3. /\ peeked' = peeked \ {e} /\ thread' = [thread EXCEPT ![t] = IdleThread]
      /\ UNCHANGED <<made, heap, entry, linked, taken>> /\ At(t, "copy")
  BY <1>2 DEF Copy, listVars
<1>4. thread'[t].pc = "idle" /\ \A u \in Apps \ {t} : thread'[u] = thread[u]
  BY <1>1, <1>3 DEF IdleThread
<1>5. InHand(t) /\ ~In(e, q)
  BY <1>2, <1>3 DEF Shape, HandsOnly, InHand
<1>6. \A i \in 1 .. Len(q) : q[i] # e
  BY <1>5 DEF In
<1>7. SharedWasPeeked(q, f)' /\ PeekedIsFirst(q)'
  BY <1>3, <1>6 DEF Shape, SharedWasPeeked, PeekedIsFirst
<1>8. ASSUME NEW u \in Apps, (InHand(u) \/ At(u, "recycle"))' PROVE u # t /\ thread'[u] = thread[u]
  BY <1>4, <1>8 DEF InHand, At
<1>9. RecycledWasPeeked(q)'
  BY <1>3, <1>5, <1>8 DEF Shape, RecycledWasPeeked, At
<1>10. HandsOnly(q, f)'
  <2> SUFFICES ASSUME NEW u \in Apps, InHand(u)'
               PROVE  /\ thread'[u].event \in 1 .. made
                      /\ ~In(thread'[u].event, q)
                      /\ In(thread'[u].event, f) => At(u, "copy")' /\ thread'[u].event \in peeked'
    BY <1>3 DEF HandsOnly
  <2>1. u # t /\ thread'[u] = thread[u] /\ InHand(u)
    BY <1>8 DEF InHand, At
  <2>2. thread[u].event # e
    BY <1>2, <1>5, <2>1 DEF Shape, OneHandEach
  <2> QED BY <1>3, <2>1, <2>2 DEF Shape, HandsOnly, At
<1>11. OneHandEach'
  BY <1>8 DEF Shape, OneHandEach, InHand, At
<1>12. CopiesItsEvent' /\ InOrder(q)'
  BY <1>3, <1>8 DEF Shape, CopiesItsEvent, InOrder, InHand, At
<1> QED
  BY <1>3, <1>7, <1>9, <1>10, <1>11, <1>12 DEF Shape

\* A peek sees the head, and takes nothing.
LEMMA ShapePeek ==
  ASSUME Typed, NEW q \in Seq(1 .. made), NEW f \in Seq(1 .. made), Shape(q, f),
         NEW t \in Apps, Peek(t)
  PROVE  Shape(q, f)'
<1>1. DOMAIN thread = Apps /\ thread \in [Apps -> Threads]
  BY DEF Typed
<1>2. Holds(heap, "event", q)
  BY DEF Shape
<1>3. q # <<>> /\ heap.list["event"].head = q[1] /\ NonRepeating(q)
  BY <1>2 DEF Peek, Empty, Holds, NoEntries
<1>4. 1 \in 1 .. Len(q)
  <2>1. Len(q) \in Nat \ {0}
    BY <1>3, EmptySeq
  <2> QED BY <2>1
<1>5. PICK e \in 1 .. made : e = q[1]
  BY <1>4, ElementOfSeq
<1>6. /\ peeked' = peeked \cup {e}
      /\ thread' = [thread EXCEPT ![t] = [thread[t] EXCEPT !.pc = "recycle", !.event = e]]
      /\ UNCHANGED <<made, heap, entry, linked, taken>> /\ At(t, "look")
  BY <1>3, <1>5 DEF Peek, listVars
<1>7. /\ thread'[t].pc = "recycle" /\ thread'[t].event = e
      /\ \A u \in Apps \ {t} : thread'[u] = thread[u]
  BY <1>1, <1>6 DEF Threads
<1>8. SharedWasPeeked(q, f)'
  BY <1>6 DEF Shape, SharedWasPeeked
<1>9. PeekedIsFirst(q)'
  <2> SUFFICES ASSUME NEW i \in 1 .. Len(q), q[i] \in peeked \cup {e} PROVE i = 1
    BY <1>6 DEF PeekedIsFirst
  <2>1. q[i] = e => i = 1
    BY <1>3, <1>4, <1>5 DEF NonRepeating
  <2> QED BY <2>1 DEF Shape, PeekedIsFirst
<1>10. RecycledWasPeeked(q)'
  BY <1>6, <1>7 DEF Shape, RecycledWasPeeked, At
<1>11. ASSUME NEW u \in Apps, InHand(u)' PROVE u # t /\ thread'[u] = thread[u] /\ InHand(u)
  BY <1>7, <1>11 DEF InHand, At
<1>12. HandsOnly(q, f)'
  BY <1>6, <1>11 DEF Shape, HandsOnly, At
<1>13. OneHandEach'
  BY <1>11 DEF Shape, OneHandEach
<1>14. CopiesItsEvent' /\ InOrder(q)'
  BY <1>6, <1>11 DEF Shape, CopiesItsEvent, InOrder, InHand, At
<1> QED
  BY <1>6, <1>8, <1>9, <1>10, <1>12, <1>13, <1>14 DEF Shape

\* A peek that does not cut events off puts the one struct of the queue last in
\* the free list, or leaves it there.
LEMMA ShapeRecycle ==
  ASSUME Typed, NEW q \in Seq(1 .. made), NEW f \in Seq(1 .. made), Shape(q, f),
         NEW t \in Apps, Recycle(t), intact'
  PROVE  \E g \in Seq(1 .. made) : Shape(q, g)'
<1>1. /\ made \in Nat /\ q \in Seq(Events) /\ f \in Seq(Events)
      /\ 1 .. made \subseteq Events /\ Null \notin Events
      /\ heap \in Heaps(Events, Lists) /\ "event" \in Lists /\ "free" \in Lists
      /\ DOMAIN thread = Apps /\ thread \in [Apps -> Threads]
  BY ShapeFacts
<1>2. Holds(heap, "event", q) /\ Holds(heap, "free", f)
  BY DEF Shape
<1>3. PICK e \in 1 .. made : e = thread[t].event
  BY DEF Recycle, Shape, RecycledWasPeeked
<1>4. /\ heap' = LinkedTail(heap, "free", e) /\ heap.list["event"].tail = e
      /\ thread' = [thread EXCEPT ![t] = IdleThread]
      /\ UNCHANGED <<made, entry, linked, taken, peeked>> /\ At(t, "recycle")
  BY <1>3 DEF Recycle
<1>5. e \in Events /\ e # Null
  BY <1>1
<1>6. q # <<>> /\ q[Len(q)] = e
  BY <1>2, <1>4, <1>5 DEF Holds, NoEntries
<1>7. Len(q) \in 1 .. Len(q) /\ Len(q) \in Nat \ {0}
  <2>1. Len(q) \in Nat \ {0}
    BY <1>6, EmptySeq
  <2> QED BY <2>1
<1>8. In(e, q)
  BY <1>6, <1>7 DEF In
<1>9. e \in peeked
  BY <1>3, <1>4, <1>8 DEF Shape, RecycledWasPeeked
<1>10. Len(q) = 1 /\ q[1] = e /\ \A i \in 1 .. Len(q) : i = Len(q) /\ q[i] = e
  <2>1. Len(q) = 1
    BY <1>6, <1>7, <1>9 DEF Shape, PeekedIsFirst
  <2> QED BY <1>6, <2>1
<1>11. Holds(heap, "event", q)'
  <2>1. "event" \in Lists \ {"free"}
    BY <1>1
  <2>2. Holds(LinkedTail(heap, "free", e), "event", q)
    BY <1>1, <1>2, <1>5, <1>10, <2>1, LinkedTailElsewhere
  <2> QED BY <1>4, <2>2
<1>12. PICK g \in Seq(1 .. made) :
         /\ Holds(heap', "free", g)
         /\ \A x : In(x, g) => In(x, f) \/ x = e
         /\ \A j \in 1 .. Len(g) : g[j] = e => j = Len(g)
  <2>1. CASE In(e, f)
    <3>1. PICK j \in 1 .. Len(f) : f[j] = e
      BY <2>1 DEF In
    <3>2. \A k \in 1 .. Len(f) : f[k] = e => k = Len(f)
      BY <1>10 DEF Shape, SharedWasPeeked
    <3>3. f # <<>> /\ f[Len(f)] = e
      BY <3>1, <3>2
    <3>4. Holds(LinkedTail(heap, "free", e), "free", f)
      BY <1>1, <1>2, <3>3, LinkedTailAgain
    <3> QED BY <1>4, <3>2, <3>4
  <2>2. CASE ~In(e, f)
    <3>1. \A j \in 1 .. Len(f) : f[j] # e
      BY <2>2 DEF In
    <3>2. Holds(LinkedTail(heap, "free", e), "free", Append(f, e))
      BY <1>1, <1>2, <1>5, <3>1, LinkedTailAppends
    <3>3. PICK g : g = Append(f, e)
      OBVIOUS
    <3>4. /\ g \in Seq(1 .. made) /\ Len(g) = Len(f) + 1 /\ g[Len(f) + 1] = e
          /\ \A i \in 1 .. Len(f) : g[i] = f[i]
      BY <3>3, AppendProperties
    <3>5. Len(f) \in Nat
      BY LenProperties
    <3>6. \A j \in 1 .. Len(g) : j \in 1 .. Len(f) \/ j = Len(g)
      BY <3>4, <3>5
    <3>7. ASSUME NEW x, In(x, g) PROVE In(x, f) \/ x = e
      BY <3>4, <3>6, <3>7 DEF In
    <3>8. \A j \in 1 .. Len(g) : g[j] = e => j = Len(g)
      BY <3>1, <3>4, <3>6
    <3> QED BY <1>4, <3>2, <3>3, <3>4, <3>7, <3>8
  <2> QED BY <2>1, <2>2
<1>13. thread'[t].pc = "idle" /\ \A u \in Apps \ {t} : thread'[u] = thread[u]
  BY <1>1, <1>4 DEF IdleThread
<1>14. SharedWasPeeked(q, g)' /\ PeekedIsFirst(q)'
  BY <1>4, <1>9, <1>10, <1>12 DEF SharedWasPeeked, PeekedIsFirst
<1>15. ASSUME NEW u \in Apps, (InHand(u) \/ At(u, "recycle"))' PROVE u # t /\ thread'[u] = thread[u]
  BY <1>13, <1>15 DEF InHand, At
<1>16. RecycledWasPeeked(q)'
  BY <1>4, <1>15 DEF Shape, RecycledWasPeeked, At
<1>17. HandsOnly(q, g)'
  <2> SUFFICES ASSUME NEW u \in Apps, InHand(u)'
               PROVE  /\ thread'[u].event \in 1 .. made
                      /\ ~In(thread'[u].event, q)
                      /\ In(thread'[u].event, g) => At(u, "copy")' /\ thread'[u].event \in peeked
    BY <1>4 DEF HandsOnly
  <2>1. thread'[u] = thread[u] /\ InHand(u)
    BY <1>15 DEF InHand, At
  <2>2. ~In(thread[u].event, q)
    BY <2>1 DEF Shape, HandsOnly
  <2>3. In(thread[u].event, g) => In(thread[u].event, f)
    BY <1>8, <1>12, <2>2
  <2> QED BY <2>1, <2>2, <2>3 DEF Shape, HandsOnly, At
<1>18. OneHandEach'
  BY <1>15 DEF Shape, OneHandEach, InHand, At
<1>19. CopiesItsEvent' /\ InOrder(q)'
  BY <1>4, <1>15 DEF Shape, CopiesItsEvent, InOrder, InHand, At
<1> QED
  BY <1>11, <1>12, <1>14, <1>16, <1>17, <1>18, <1>19 DEF Shape

\* An add that no peek is pending at takes the head of the free list, or makes a
\* struct: nobody has it, and it is in no list.
LEMMA ShapeAddTake ==
  ASSUME Typed, NEW q \in Seq(1 .. made), NEW f \in Seq(1 .. made), Shape(q, f),
         NEW t \in Apps, AddTake(t), intact'
  PROVE  \E p, g \in Seq(1 .. made') : Shape(p, g)'
<1>1. /\ made \in Nat /\ q \in Seq(Events) /\ f \in Seq(Events)
      /\ 1 .. made \subseteq Events /\ Null \notin Events
      /\ heap \in Heaps(Events, Lists) /\ "event" \in Lists /\ "free" \in Lists
      /\ DOMAIN thread = Apps /\ thread \in [Apps -> Threads]
  BY ShapeFacts
<1>2. Holds(heap, "event", q) /\ Holds(heap, "free", f)
  BY DEF Shape
<1>3. peeked = {} /\ (\A u \in Apps : ~At(u, "recycle")) /\ UNCHANGED <<entry, linked, taken, peeked>>
  BY DEF AddTake, PeekPending
<1>4. PICK e : e = IF Empty(heap, "free") THEN NewStruct ELSE heap.list["free"].head
  OBVIOUS
<1>5. thread' = [thread EXCEPT ![t] = [thread[t] EXCEPT !.pc = "link", !.event = e]]
  BY <1>4 DEF AddTake
<1>6. /\ thread'[t].pc = "link" /\ thread'[t].event = e
      /\ \A u \in Apps \ {t} : thread'[u] = thread[u]
  BY <1>1, <1>5 DEF Threads
<1>7. 1 .. made \subseteq 1 .. made' /\ (heap'.next = heap.next)
      /\ (\A l \in Lists \ {"free"} : heap'.list[l] = heap.list[l])
      /\ e \in 1 .. made' /\ ~In(e, q)
      /\ (\A u \in Apps : InHand(u) => thread[u].event # e)
      /\ \E g \in Seq(1 .. made') : /\ Holds(heap', "free", g) /\ ~In(e, g)
                                    /\ \A x : In(x, g) => In(x, f)
  <2>1. CASE Empty(heap, "free")
    <3>1. e = made + 1 /\ made' = made + 1 /\ heap' = heap
      BY <1>4, <2>1 DEF AddTake, NewStruct
    <3>2. 1 .. made \subseteq 1 .. made' /\ e \in 1 .. made' /\ e \notin 1 .. made
      BY <1>1, <3>1
    <3>3. \A x : In(x, q) \/ In(x, f) => x \in 1 .. made
      BY ElementOfSeq DEF In
    <3>4. f \in Seq(1 .. made')
      BY <3>2, SeqMonotonic
    <3>5. \A u \in Apps : InHand(u) => thread[u].event \in 1 .. made
      BY DEF Shape, HandsOnly
    <3> QED BY <1>2, <3>1, <3>2, <3>3, <3>4, <3>5
  <2>2. CASE ~Empty(heap, "free")
    <3>1. e = heap.list["free"].head /\ made' = made /\ heap' = UnlinkedHead(heap, "free")
      BY <1>4, <2>2 DEF AddTake
    <3>2. f # <<>> /\ e = f[1] /\ NonRepeating(f)
      BY <1>2, <2>2, <3>1 DEF Empty, Holds, NoEntries
    <3>3. PICK g : g = Tail(f)
      OBVIOUS
    <3>4. /\ g \in Seq(1 .. made) /\ Len(g) = Len(f) - 1 /\ \A i \in 1 .. Len(g) : g[i] = f[i + 1]
      BY <3>2, <3>3, HeadTailProperties
    <3>5. Len(f) \in Nat \ {0}
      BY <3>2, EmptySeq
    <3>6. 1 \in 1 .. Len(f) /\ \A i \in 1 .. Len(g) : i + 1 \in 1 .. Len(f) /\ i + 1 # 1
      BY <3>4, <3>5
    <3>7. /\ Holds(heap', "free", g) /\ heap'.next = heap.next
          /\ \A l \in Lists \ {"free"} : heap'.list[l] = heap.list[l]
      BY <1>1, <1>2, <3>1, <3>2, <3>3, UnlinkedHeadDrops
    <3>8. In(e, f) /\ e \in 1 .. made
      BY <3>2, <3>6, ElementOfSeq DEF In
    <3>9. ~In(e, q)
      BY <1>3, <3>2, <3>6 DEF Shape, SharedWasPeeked, In
    <3>10. \A u \in Apps : InHand(u) => thread[u].event # e
      BY <1>3, <3>8 DEF Shape, HandsOnly
    <3>11. ~In(e, g)
      <4>1. ASSUME NEW i \in 1 .. Len(g), g[i] = e PROVE FALSE
        <5>1. f[i + 1] = f[1] /\ i + 1 \in 1 .. Len(f) /\ i + 1 # 1 /\ 1 \in 1 .. Len(f)
          BY <3>2, <3>4, <3>6, <4>1
        <5> QED BY <3>2, <5>1 DEF NonRepeating
      <4> QED BY <4>1 DEF In
    <3>12. ASSUME NEW x, In(x, g) PROVE In(x, f)
      BY <3>4, <3>6, <3>12 DEF In
    <3> QED BY <3>1, <3>4, <3>7, <3>8, <3>9, <3>10, <3>11, <3>12
  <2> QED BY <2>1, <2>2
<1>8. PICK g \in Seq(1 .. made') : /\ Holds(heap', "free", g) /\ ~In(e, g)
                                   /\ \A x : In(x, g) => In(x, f)
  BY <1>7
<1>9. q \in Seq(1 .. made')
  BY <1>7, SeqMonotonic
<1>10. Holds(heap, "event", q)'
  <2>1. heap'.list["event"] = heap.list["event"] /\ heap'.next = heap.next
    BY <1>1, <1>7
  <2>2. Holds(heap', "event", q)
    BY <1>1, <1>2, <2>1, HoldsStill
  <2> QED BY <2>2
<1>11. SharedWasPeeked(q, g)' /\ PeekedIsFirst(q)'
  <2>1. ASSUME NEW i \in 1 .. Len(q), NEW j \in 1 .. Len(g), q[i] = g[j] PROVE FALSE
    <3>1. In(q[i], f)
      BY <1>8, <2>1 DEF In
    <3>2. PICK k \in 1 .. Len(f) : q[i] = f[k]
      BY <3>1 DEF In
    <3> QED BY <1>3, <3>2 DEF Shape, SharedWasPeeked
  <2> QED BY <1>3, <2>1 DEF SharedWasPeeked, PeekedIsFirst
<1>12. RecycledWasPeeked(q)'
  BY <1>3, <1>6 DEF RecycledWasPeeked, At
<1>13. HandsOnly(q, g)'
  <2> SUFFICES ASSUME NEW u \in Apps, InHand(u)'
               PROVE  /\ thread'[u].event \in 1 .. made'
                      /\ ~In(thread'[u].event, q)
                      /\ In(thread'[u].event, g) => At(u, "copy")' /\ thread'[u].event \in peeked
    BY <1>3 DEF HandsOnly
  <2>1. CASE u = t
    BY <1>6, <1>7, <1>8, <2>1
  <2>2. CASE u # t
    <3>1. thread'[u] = thread[u] /\ InHand(u)
      BY <1>6, <2>2 DEF InHand, At
    <3> QED BY <1>7, <1>8, <3>1 DEF Shape, HandsOnly, At
  <2> QED BY <2>1, <2>2
<1>14. OneHandEach'
  <2> SUFFICES ASSUME NEW u \in Apps, NEW w \in Apps, InHand(u)', InHand(w)',
                      thread'[u].event = thread'[w].event
               PROVE  u = w
    BY DEF OneHandEach
  <2>1. \A v \in Apps \ {t} : InHand(v)' => /\ thread'[v] = thread[v] /\ InHand(v)
                                            /\ thread'[v].event # e
    <3>1. \A v \in Apps \ {t} : InHand(v)' => InHand(v)
      BY <1>6 DEF InHand, At
    <3> QED BY <1>6, <1>7, <3>1
  <2> QED BY <1>6, <2>1 DEF Shape, OneHandEach
<1>15. CopiesItsEvent' /\ InOrder(q)'
  BY <1>3, <1>6 DEF Shape, CopiesItsEvent, InOrder, At
<1> QED
  BY <1>8, <1>9, <1>10, <1>11, <1>12, <1>13, <1>14, <1>15 DEF Shape

\* The struct a thread has taken comes to be the last of the queue.
LEMMA ShapeAddLink ==
  ASSUME Typed, NEW q \in Seq(1 .. made), NEW f \in Seq(1 .. made), Shape(q, f),
         NEW t \in Apps, AddLink(t), intact'
  PROVE  \E p \in Seq(1 .. made) : Shape(p, f)'
<1>1. /\ made \in Nat /\ q \in Seq(Events) /\ f \in Seq(Events)
      /\ 1 .. made \subseteq Events /\ Null \notin Events
      /\ heap \in Heaps(Events, Lists) /\ "event" \in Lists /\ "free" \in Lists
      /\ DOMAIN thread = Apps /\ thread \in [Apps -> Threads]
  BY ShapeFacts
<1>2. Holds(heap, "event", q) /\ Holds(heap, "free", f)
  BY DEF Shape
<1>3. peeked = {} /\ (\A u \in Apps : ~At(u, "recycle")) /\ At(t, "link") /\ InHand(t)
  BY DEF AddLink, PeekPending, InHand
<1>4. PICK e \in 1 .. made : e = thread[t].event
  BY <1>3 DEF Shape, HandsOnly
<1>5. PICK id : id = Len(linked) + 1
  OBVIOUS
<1>6. /\ heap' = LinkedTail(heap, "event", e) /\ entry' = [entry EXCEPT ![e] = id]
      /\ linked' = Append(linked, id) /\ thread' = [thread EXCEPT ![t] = [thread[t] EXCEPT !.pc = "signal"]]
      /\ UNCHANGED <<made, taken, peeked>>
  BY <1>4, <1>5 DEF AddLink, Goto
<1>7. e \in Events /\ ~In(e, q) /\ ~In(e, f)
  BY <1>1, <1>3, <1>4 DEF Shape, HandsOnly
<1>8. thread'[t].pc = "signal" /\ \A u \in Apps \ {t} : thread'[u] = thread[u]
  BY <1>1, <1>6 DEF Threads
<1>9. PICK p : p = Append(q, e)
  OBVIOUS
<1>10. /\ p \in Seq(1 .. made) /\ Len(p) = Len(q) + 1 /\ p[Len(q) + 1] = e
       /\ \A i \in 1 .. Len(q) : p[i] = q[i]
  BY <1>9, AppendProperties
<1>11. Len(q) \in Nat /\ \A i \in 1 .. Len(p) : i \in 1 .. Len(q) \/ (i = Len(q) + 1 /\ p[i] = e)
  BY <1>10, LenProperties
<1>12. ASSUME NEW i \in 1 .. Len(q), NEW j \in 1 .. Len(f), q[i] = f[j] PROVE FALSE
  BY <1>3, <1>12 DEF Shape, SharedWasPeeked
<1>13. Holds(heap, "event", p)'
  <2>1. Holds(LinkedTail(heap, "event", e), "event", Append(q, e))
    BY <1>1, <1>2, <1>7, LinkedTailAppends DEF In
  <2> QED BY <1>6, <1>9, <2>1
<1>14. Holds(heap, "free", f)'
  <2>1. \A j \in 1 .. Len(f) : f[j] # e
    BY <1>7 DEF In
  <2>2. ASSUME NEW j \in 1 .. Len(f), ~Empty(heap, "event") PROVE f[j] # heap.list["event"].tail
    <3>1. q # <<>> /\ heap.list["event"].tail = q[Len(q)]
      BY <1>2, <2>2 DEF Holds, Empty, NoEntries
    <3>2. Len(q) \in 1 .. Len(q)
      BY <1>11, <3>1, EmptySeq
    <3> QED BY <1>12, <3>1, <3>2
  <2>3. "free" \in Lists \ {"event"}
    BY <1>1
  <2>4. Holds(LinkedTail(heap, "event", e), "free", f)
    BY <1>1, <1>2, <1>7, <2>1, <2>2, <2>3, LinkedTailElsewhere
  <2> QED BY <1>6, <2>4
<1>15. SharedWasPeeked(p, f)' /\ PeekedIsFirst(p)'
  <2>1. ASSUME NEW i \in 1 .. Len(p), NEW j \in 1 .. Len(f), p[i] = f[j] PROVE FALSE
    BY <1>7, <1>10, <1>11, <1>12, <2>1 DEF In
  <2> QED BY <1>3, <1>6, <2>1 DEF SharedWasPeeked, PeekedIsFirst
<1>16. RecycledWasPeeked(p)'
  BY <1>3, <1>8 DEF RecycledWasPeeked, At
<1>17. ASSUME NEW u \in Apps, InHand(u)'
       PROVE  u # t /\ thread'[u] = thread[u] /\ InHand(u) /\ thread[u].event # e
  BY <1>3, <1>4, <1>8, <1>17 DEF Shape, OneHandEach, InHand, At
<1>18. HandsOnly(p, f)'
  <2> SUFFICES ASSUME NEW u \in Apps, InHand(u)'
               PROVE  /\ thread'[u].event \in 1 .. made
                      /\ ~In(thread'[u].event, p)
                      /\ In(thread'[u].event, f) => At(u, "copy")' /\ thread'[u].event \in peeked
    BY <1>6 DEF HandsOnly
  <2>1. thread'[u] = thread[u] /\ InHand(u) /\ thread[u].event # e
    BY <1>17
  <2>2. ~In(thread[u].event, q)
    BY <2>1 DEF Shape, HandsOnly
  <2>3. ~In(thread[u].event, p)
    BY <1>10, <1>11, <2>1, <2>2 DEF In
  <2> QED BY <2>1, <2>3 DEF Shape, HandsOnly, At
<1>19. OneHandEach'
  BY <1>17 DEF Shape, OneHandEach
<1>20. entry \in [Events -> 0 .. MaxEvents] /\ \A x \in Events \ {e} : entry'[x] = entry[x]
  BY <1>6 DEF Typed, TypeOK
<1>21. CopiesItsEvent'
  <2> SUFFICES ASSUME NEW u \in Apps, At(u, "copy")' PROVE entry'[thread'[u].event] = thread'[u].id
    BY DEF CopiesItsEvent
  <2>1. thread'[u] = thread[u] /\ At(u, "copy") /\ InHand(u) /\ thread[u].event # e
    BY <1>17 DEF InHand, At
  <2>2. thread[u].event \in Events
    BY <2>1 DEF Typed
  <2> QED BY <1>20, <2>1, <2>2 DEF Shape, CopiesItsEvent
<1>22. InOrder(p)'
  <2>1. PICK s : s = [i \in 1 .. Len(q) |-> entry[q[i]]]
    OBVIOUS
  <2>2. PICK r : r = [i \in 1 .. Len(q) + 1 |-> entry'[p[i]]]
    OBVIOUS
  <2>3. PICK S : S = Nat
    OBVIOUS
  <2>4. \A i \in 1 .. Len(q) : q[i] \in Events /\ q[i] # e
    BY <1>1, <1>7, ElementOfSeq DEF In
  <2>5. \A i \in 1 .. Len(q) : r[i] = s[i] /\ s[i] \in S
    <3>1. \A x \in Events : entry[x] \in Nat
      BY NumbersAssumption DEF Typed, TypeOK
    <3> QED BY <1>10, <1>11, <1>20, <2>1, <2>2, <2>3, <2>4, <3>1
  <2>6. r[Len(q) + 1] = id /\ id \in S
    <3>1. Len(linked) \in Nat
      BY LenProperties DEF Typed, TypeOK
    <3> QED BY <1>5, <1>6, <1>7, <1>10, <1>11, <1>20, <2>2, <2>3, <3>1
  <2>7. s \in Seq(S) /\ Len(s) = Len(q)
    BY <1>11, <2>1, <2>5
  <2>8. r = Append(s, id)
    <3>1. r \in Seq(S) /\ Len(r) = Len(q) + 1
      <4>1. \A i \in 1 .. Len(q) + 1 : r[i] \in S
        BY <1>11, <2>5, <2>6
      <4> QED BY <1>11, <2>2, <4>1
    <3>2. /\ Append(s, id) \in Seq(S) /\ Len(Append(s, id)) = Len(q) + 1
          /\ \A i \in 1 .. Len(q) : Append(s, id)[i] = s[i]
          /\ Append(s, id)[Len(q) + 1] = id
      BY <2>6, <2>7, AppendProperties
    <3>3. \A i \in 1 .. Len(r) : r[i] = Append(s, id)[i]
      BY <1>11, <2>5, <2>6, <3>1, <3>2
    <3> QED BY <3>1, <3>2, <3>3, SeqEqual
  <2>9. taken \in Seq(S)
    BY <2>3, NumbersAssumption, SeqMonotonic DEF Typed, TypeOK
  <2>10. Append(taken \o s, id) = taken \o Append(s, id)
    <3>1. taken \o s \in Seq(S) /\ <<id>> \in Seq(S)
      BY <2>6, <2>7, <2>9, ConcatProperties
    <3>2. (taken \o s) \o <<id>> = taken \o (s \o <<id>>)
      BY <2>7, <2>9, <3>1, ConcatAssociative, SMTT(30)
    <3> QED BY <2>6, <2>7, <3>1, <3>2, AppendIsConcat
  <2>11. linked = taken \o s
    BY <2>1 DEF Shape, InOrder
  <2> QED BY <1>6, <1>10, <2>2, <2>8, <2>10, <2>11 DEF InOrder
<1> QED
  BY <1>10, <1>13, <1>14, <1>15, <1>16, <1>18, <1>19, <1>21, <1>22 DEF Shape

\* Every step keeps the shape of the lists, or a peek has gone wrong.
LEMMA ShapedStep == Typed /\ Shaped /\ [Next]_vars => Shaped'
<1> SUFFICES ASSUME Typed, Shaped, [Next]_vars PROVE Shaped'
  OBVIOUS
<1>1. DOMAIN thread = Apps /\ thread \in [Apps -> Threads]
  BY DEF Typed
<1>2. CASE UNCHANGED vars
  BY <1>2, ShapedStill DEF vars
<1>3. CASE Request \/ Answer
  BY <1>3, ShapedStill DEF Request, Answer
<1>4. ASSUME NEW t \in Apps, Listen(t) \/ Connect(t) \/ ClosePep(t) PROVE Shaped'
  BY <1>4, ShapedStill DEF Listen, Connect, ClosePep
<1>5. ASSUME NEW t \in Apps,
             \/ Read(t) \/ MakeProgress(t) \/ ProgressTakes(t) \/ ProgressFails(t)
             \/ ProgressEnds(t) \/ LookEmpty(t) \/ ChooseWait(t)
             \/ Sleep(t) \/ SpuriousWakeup(t) \/ Write(t)
      PROVE  Shaped'
  <2>1. UNCHANGED <<listVars, historyVars>>
    BY <1>5 DEF Read, MakeProgress, ProgressTakes, ProgressFails, ProgressEnds, LookEmpty,
                ChooseWait, Sleep, SpuriousWakeup, Write
  <2>2. \A u \in Apps \ {t} : thread'[u] = thread[u]
    BY <1>1, <1>5 DEF Read, MakeProgress, ProgressTakes, ProgressFails, ProgressEnds, LookEmpty,
                      ChooseWait, Sleep, SpuriousWakeup, Write, Goto
  <2>3. thread'[t].pc \notin {"link", "copy", "recycle"}
    <3>1. CASE Read(t)
      BY <1>1, <3>1 DEF Read, IdleThread
    <3>2. CASE ProgressEnds(t) \/ ChooseWait(t) \/ Sleep(t) \/ SpuriousWakeup(t)
      BY <1>1, <3>2 DEF ProgressEnds, ChooseWait, Sleep, SpuriousWakeup, Goto, Threads
    <3>3. CASE LookEmpty(t)
      <4>1. CASE thread[t].round = 1 /\ thread[t].time # "none"
        BY <1>1, <3>3, <4>1 DEF LookEmpty, Threads
      <4>2. CASE ~(thread[t].round = 1 /\ thread[t].time # "none")
        BY <1>1, <3>3, <4>2 DEF LookEmpty, IdleThread
      <4> QED BY <4>1, <4>2
    <3>4. CASE Write(t)
      <4>1. [IdleThread EXCEPT !.pc = "add", !.call = "write"].pc = "add"
        BY DEF IdleThread
      <4> QED BY <1>1, <3>4, <4>1 DEF Write
    <3>5. CASE MakeProgress(t)
      BY <1>1, <3>5 DEF MakeProgress, Threads
    <3>6. CASE ProgressTakes(t) \/ ProgressFails(t)
      <4>1. PICK pc \in {"add", "look"} : Goto(t, pc)
        BY <3>6 DEF ProgressTakes, ProgressFails, AfterWait
      <4> QED BY <1>1, <4>1 DEF Goto, Threads
    <3> QED BY <1>5, <3>1, <3>2, <3>3, <3>4, <3>5, <3>6
  <2> QED BY <2>1, <2>2, <2>3, ShapedStill DEF InHand, At
<1>6. ASSUME NEW t \in Apps, Signal(t) PROVE Shaped'
  <2>1. PICK r : r = IF thread[t].call = "write" THEN IdleThread
                     ELSE [thread[t] EXCEPT !.pc = "look", !.event = 0]
    OBVIOUS
  <2>2. r \in Threads /\ r.pc \in {"idle", "look"}
    <3>1. thread[t] \in Threads /\ IdleThread \in Threads /\ IdleThread.pc = "idle"
      BY ThreadParts DEF IdleThread
    <3> QED BY <2>1, <3>1 DEF Threads, Pcs
  <2>3. PICK after : after = [thread EXCEPT ![t] = r]
    OBVIOUS
  <2>4. after \in [Apps -> Threads] /\ after[t] = r /\ \A u \in Apps \ {t} : after[u] = thread[u]
    BY <1>1, <2>2, <2>3
  <2>5. \/ thread' = after
        \/ \E w \in Asleep : thread' = [after EXCEPT ![w] = [after[w] EXCEPT !.pc = "look"]]
    BY <1>6, <2>1, <2>3 DEF Signal
  <2>6. \A u \in Apps : thread'[u] = after[u] \/ thread'[u].pc = "look"
    <3>1. ASSUME NEW w \in Apps, thread' = [after EXCEPT ![w] = [after[w] EXCEPT !.pc = "look"]]
          PROVE  \A u \in Apps : thread'[u] = after[u] \/ thread'[u].pc = "look"
      <4>1. [after[w] EXCEPT !.pc = "look"].pc = "look"
        BY <2>4 DEF Threads
      <4> QED BY <2>4, <3>1, <4>1
    <3> QED BY <2>5, <3>1 DEF Asleep
  <2>7. \A u \in Apps : thread'[u].pc \in {"link", "copy", "recycle"} => thread'[u] = thread[u]
    BY <2>2, <2>4, <2>6
  <2> QED BY <1>6, <2>7, ShapedStill DEF Signal, InHand, At
<1>7. ASSUME NEW t \in Apps,
             \/ Take(t) \/ Copy(t) \/ Peek(t) \/ Recycle(t) \/ AddTake(t) \/ AddLink(t),
             intact'
      PROVE  \E p, g \in Seq(1 .. made') : Shape(p, g)'
  <2>1. intact
    BY <1>7 DEF Take, Copy, Peek, Recycle, AddTake, AddLink
  <2>2. PICK q \in Seq(1 .. made), f \in Seq(1 .. made) : Shape(q, f)
    BY <2>1 DEF Shaped
  <2>3. made' = made \/ AddTake(t)
    BY <1>7 DEF Take, Copy, Peek, Recycle, AddLink, listVars
  <2>4. CASE Take(t)
    BY <2>2, <2>4, ShapeTake DEF Take
  <2>5. CASE Copy(t) \/ Peek(t)
    BY <2>2, <2>5, ShapeCopy, ShapePeek DEF Copy, Peek, listVars
  <2>6. CASE Recycle(t)
    BY <1>7, <2>2, <2>6, ShapeRecycle DEF Recycle
  <2>7. CASE AddTake(t)
    BY <1>7, <2>2, <2>7, ShapeAddTake
  <2>8. CASE AddLink(t)
    BY <1>7, <2>2, <2>8, ShapeAddLink DEF AddLink
  <2> QED BY <1>7, <2>4, <2>5, <2>6, <2>7, <2>8
<1>8. ASSUME NEW t \in Apps,
             \/ Take(t) \/ Copy(t) \/ Peek(t) \/ Recycle(t) \/ AddTake(t) \/ AddLink(t)
      PROVE  Shaped'
  BY <1>7, <1>8 DEF Shaped
<1> QED
  BY <1>2, <1>3, <1>4, <1>5, <1>6, <1>8 DEF Next, ReadNext, AddNext

-----------------------------------------------------------------------------
(* The properties.                                                          *)

\* The invariant holds at first and every step keeps it.
LEMMA Invariance == Spec => []IInv
<1>1. Init => IInv
  BY InitTyped, InitCounted, InitShaped DEF IInv
<1>2. IInv /\ [Next]_vars => IInv'
  BY TypedStep, CountedStep, ShapedStep DEF IInv
<1> QED
  BY <1>1, <1>2, PTL DEF Spec

\* The lists of the invariant are those the pointers lead through.
LEMMA QueuedIs ==
  ASSUME Typed, NEW q \in Seq(1 .. made), NEW f \in Seq(1 .. made), Shape(q, f)
  PROVE  /\ Queued("event") = q /\ Queued("free") = f
         /\ \A l \in Lists : WellFormed(heap, l, made)
<1>1. /\ made \in Nat /\ q \in Seq(Events) /\ f \in Seq(Events) /\ Null \notin Events
  BY ShapeFacts
<1>2. Holds(heap, "event", q) /\ Holds(heap, "free", f)
  BY DEF Shape
<1>3. Len(q) <= made /\ Len(f) <= made
  BY <1>1, <1>2, NoLongerThanEntries DEF Holds
<1>4. Walk(heap, "event", made) = q /\ Walk(heap, "free", made) = f
  BY <1>1, <1>2, <1>3, WalkMeetsAll
<1>5. WellFormed(heap, "event", made) /\ WellFormed(heap, "free", made)
  BY <1>1, <1>2, <1>3, HoldsIsWellFormed
<1> QED
  BY <1>4, <1>5 DEF Queued, Lists

\* The calls, the lists and the events are well typed at every step, and there
\* is a struct for each event: get_empty_event makes no more than are needed.
THEOREM TypeCorrect == Spec => []TypeOK
<1>1. IInv => TypeOK
  BY DEF IInv, Typed
<1> QED
  BY <1>1, Invariance, PTL

\* However the calls of the threads interleave, until a peek goes wrong both lists
\* end at their tails, and no struct is in both that was not peeked at.
THEOREM ListsStayLists == Spec => []ListsWellFormed
<1>1. IInv => ListsWellFormed
  <2> SUFFICES ASSUME Typed, Shaped, intact PROVE ListsWellFormed
    BY DEF IInv, ListsWellFormed
  <2>1. PICK q \in Seq(1 .. made), f \in Seq(1 .. made) : Shape(q, f)
    BY DEF Shaped
  <2>2. /\ Queued("event") = q /\ Queued("free") = f
        /\ \A l \in Lists : WellFormed(heap, l, made)
    BY <2>1, QueuedIs
  <2>3. \A i \in 1 .. Len(q), j \in 1 .. Len(f) : q[i] = f[j] => q[i] \in peeked
    BY <2>1 DEF Shape, SharedWasPeeked
  <2> QED BY <2>2, <2>3 DEF ListsWellFormed
<1> QED
  BY <1>1, Invariance, PTL

\* As long, every event is read once and in order, and a read copies out the event
\* it took, though it has given up the lock before it copies.
THEOREM EventsReadInOrder == Spec => []EventsInOrder
<1>1. IInv => EventsInOrder
  <2> SUFFICES ASSUME Typed, Shaped, intact PROVE EventsInOrder
    BY DEF IInv, EventsInOrder
  <2>1. PICK q \in Seq(1 .. made), f \in Seq(1 .. made) : Shape(q, f)
    BY DEF Shaped
  <2>2. Queued("event") = q
    BY <2>1, QueuedIs
  <2> QED BY <2>1, <2>2 DEF EventsInOrder, Shape, InOrder, CopiesItsEvent
<1> QED
  BY <1>1, Invariance, PTL

=============================================================================
