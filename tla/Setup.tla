-------------------------------- MODULE Setup --------------------------------
(***************************************************************************)
(* From hints to a connected endpoint: fi_getinfo (dpa_info.c), domains    *)
(* (dpa_domain.c), completion queues and counters, passive and active      *)
(* endpoints, their tables of operations, what is bound to them and the    *)
(* resources a connection gives them (dpa_ep.c, dpa_msg_cm.c), and the     *)
(* address vector of a domain.  What the objects do once they are set up   *)
(* is in the other modules.                                                *)
(*                                                                         *)
(* An attribute struct whose pointer is NULL is one with every field       *)
(* unspecified.  A crash is the use of a null pointer.                     *)
(***************************************************************************)
EXTENDS AddressVector, FiniteSets

CONSTANTS
  Domains, Eps, Cqs, Cntrs,  \* objects the application opens
  Plans                      \* what the application does

\* Capabilities, and those the provider has for messages and remote memory.
MsgCap == {"msg", "send", "recv"}
RmaCap == {"rma", "read", "write", "remote_read", "remote_write"}
AllCap == MsgCap \cup RmaCap

\* Threading levels as libfabric numbers them.
Unspecified == 0
ThreadSafe == 1
ThreadFid == 2
ThreadCompletion == 4

\* The other attributes are numbers compared with a limit: version, message
\* and ordering sizes, contexts.
Limit == 1

\* Node names: here, there, and one the library does not know.
NoNode == "none"
Here == "here"
NoAddr == [node |-> "null", service |-> 0, sized |-> FALSE]
Address == [node : {Here, "there", NoNode}, service : Nat, sized : BOOLEAN]

InfoSet ==
  [caps : SUBSET (AllCap \cup {"tagged"}), type : {"unspec", "msg", "rdm", "dgram", "rdma"},
   threading : 0 .. 5, progress : {"unspec", "auto", "manual"},
   control : {"unspec", "auto", "manual"}, mr : {"unspec", "basic", "scalable"},
   attrs : 0 .. (Limit + 1), ctxCaps : SUBSET (AllCap \cup {"tagged"}),
   names : {"unspec", "dpa", "other"}, src : Address \cup {NoAddr},
   dest : Address \cup {NoAddr}, handle : BOOLEAN]

\* hints and requests: calls of fi_getinfo; domains: those it opens; flags: those
\* it binds with; failing: endpoints whose connections calls of DPAlib may fail;
\* vector: it uses an address vector.
RequestSet ==
  [node : {"none", Here, "there", "unknown"}, service : Nat, source : BOOLEAN]
ASSUME PlansAssumption ==
  \A p \in Plans :
    /\ p.hints \subseteq InfoSet /\ p.requests \subseteq RequestSet
    /\ p.domains \subseteq Domains /\ p.eps \subseteq Eps /\ p.queues \subseteq Cqs \cup Cntrs
    /\ p.flags \subseteq SUBSET {"send", "recv", "read", "write"}
    /\ p.failing \subseteq Eps /\ p.vector \in BOOLEAN

Queues == Cqs \cup Cntrs
Kinds == {"cq", "cntr"}
Roles == {"send", "recv", "read", "write"}
Sides == {"send", "recv"}
KindOf(q) == IF q \in Cqs THEN "cq" ELSE "cntr"
NoQueue == "none"

VARIABLES
  plan,     \* what the application does, fixed
  info,     \* the fi_info the application holds
  domain,   \* per domain: its modes
  queue,    \* per completion queue and counter
  ep,       \* per endpoint
  pep,      \* the passive endpoint
  crashed   \* a null pointer was used

setupVars == <<info, domain, queue, ep, pep, crashed>>
vars == <<plan, setupVars, avVars>>

NoInfo == [state |-> "none"]
Closed == [state |-> "closed"]
NewEp == [state |-> "new"]
IsOpen(e) == ep[e].state \in {"open", "accepted", "connected"}

Init ==
  /\ plan \in Plans
  /\ info = NoInfo
  /\ domain = [d \in Domains |-> Closed]
  /\ queue = [q \in Queues |-> Closed]
  /\ ep = [e \in Eps |-> NewEp]
  /\ pep = Closed
  /\ crashed = FALSE
  /\ AvInit

-----------------------------------------------------------------------------
(* dpa_getinfo.                                                            *)
KnownType(h) == h.type # "rdma"
TypeCaps(h) == IF h.type \in {"rdm", "dgram"} THEN RmaCap ELSE AllCap

WithinLimits(h) == h.attrs <= Limit

\* dpa_verify_requirements
Verified(h, r) ==
  /\ ~r.source /\ h.src # NoAddr => h.src.sized /\ h.src.node = Here
  /\ (r.node = NoNode /\ r.service = 0) \/ r.source =>
       (h.dest # NoAddr => h.dest.sized)
  /\ KnownType(h) /\ h.caps \subseteq TypeCaps(h)
  /\ WithinLimits(h)
  /\ h.ctxCaps \subseteq AllCap
  /\ h.names # "other"
  /\ h.mr # "basic"

\* resolvename, when the library knows the name.
Resolved(r) ==
  [node |-> IF r.node = "none" THEN NoNode ELSE r.node, service |-> r.service, sized |-> TRUE]

\* A name that is not known gives no destination, and no source address
\* either, though one is then written to.
DestOf(h, r) ==
  IF r.node # "none" /\ r.service # 0 /\ ~r.source
  THEN IF r.node = "unknown" THEN NoAddr ELSE Resolved(r)
  ELSE IF h.dest # NoAddr /\ h.dest.sized THEN h.dest ELSE NoAddr

SrcCrashes(r) == r.service # 0 /\ r.source /\ r.node = "unknown"

SrcOf(h, r) ==
  LET given == IF r.service # 0 /\ r.source THEN Resolved(r)
               ELSE IF h.src # NoAddr /\ h.src.sized THEN h.src
               ELSE [node |-> NoNode, service |-> 0, sized |-> TRUE]
  IN [given EXCEPT !.node = Here]

\* Slip: any level the hints name
LevelAsked(h) == IF h.threading # Unspecified THEN h.threading ELSE ThreadCompletion
InfoThreading(h) ==
  IF h.threading # Unspecified /\ h.threading < ThreadCompletion
  THEN h.threading ELSE ThreadCompletion

\* get_ep_caps: what the hints ask for, else all that the type has.
EpCaps(h) == IF h.caps # {} THEN h.caps ELSE TypeCaps(h)

Answer(h, r) ==
  [caps |-> EpCaps(h), type |-> IF h.type = "unspec" THEN "msg" ELSE h.type,
   threading |-> InfoThreading(h),
   progress |-> IF h.progress = "auto" THEN "auto" ELSE "manual",
   control |-> "auto", mr |-> "scalable", attrs |-> Limit, ctxCaps |-> h.ctxCaps,
   names |-> "dpa", src |-> SrcOf(h, r), dest |-> DestOf(h, r), handle |-> FALSE]

GetInfo ==
  \E h \in plan.hints, r \in plan.requests :
    /\ Verified(h, r)
    /\ IF SrcCrashes(r) THEN crashed' = TRUE /\ UNCHANGED info
       ELSE info' = Answer(h, r) /\ UNCHANGED crashed
    /\ UNCHANGED <<plan, domain, queue, ep, pep, avVars>>

-----------------------------------------------------------------------------
(* dpa_domain_open, which computes the modes again; dpa_cq_open and         *)
(* dpa_cntr_open.                                                           *)
DomainThreading(i) ==
  IF i.threading # Unspecified /\ i.threading < ThreadCompletion
  THEN i.threading ELSE ThreadCompletion

OpenDomain(d) ==
  /\ info # NoInfo /\ d \in plan.domains
  /\ domain[d] = Closed
  /\ info.mr # "basic"
  /\ domain' = [domain EXCEPT ![d] =
       [from |-> info, threading |-> DomainThreading(info), control |-> "auto", mr |-> "scalable",
        progress |-> IF info.progress = "auto" THEN "auto" ELSE "manual"]]
  /\ UNCHANGED <<plan, info, queue, ep, pep, crashed, avVars>>

AutoProgress(d) == domain[d].progress = "auto"

\* waits: wait_obj is FI_WAIT_UNSPEC and not FI_WAIT_NONE; locked: cq_lock
\* locks, or the operations of the counter are the atomic ones.
OpenQueue(q) ==
  /\ q \in plan.queues /\ queue[q] = Closed
  /\ \E d \in Domains, w \in BOOLEAN :
       /\ domain[d] # Closed
       /\ queue' = [queue EXCEPT ![q] =
            [domain |-> d, waits |-> w, locked |-> domain[d].threading < ThreadCompletion,
             func |-> {}, arg |-> "none", binds |-> 0]]
  /\ UNCHANGED <<plan, info, domain, ep, pep, crashed, avVars>>

-----------------------------------------------------------------------------
(* Passive endpoints and the connection requests they are handed.          *)
\* The test of src_addrlen in dpa_passive_ep_open never fails.
OpenPep ==
  /\ info # NoInfo /\ pep = Closed
  /\ info.src # NoAddr /\ info.caps \subseteq AllCap /\ info.caps # {}
  /\ pep' = [info |-> info, service |-> info.src.service]
  /\ UNCHANGED <<plan, info, domain, queue, ep, crashed, avVars>>

\* connection_request: the info of the passive endpoint, with the address of
\* who asks and the passive endpoint as its handle.
ConnectionRequest ==
  /\ pep # Closed
  /\ info' = [pep.info EXCEPT !.dest = [node |-> "there", service |-> 0, sized |-> TRUE],
                              !.handle = TRUE]
  /\ UNCHANGED <<plan, domain, queue, ep, pep, crashed, avVars>>

-----------------------------------------------------------------------------
(* dpa_ep_open.                                                            *)
\* check_ep_caps: a family without a direction means all of it.
\* Slip: the capabilities as they were given
AsGiven(caps) == caps
Expanded(caps) ==
  caps \cup (IF caps \cap MsgCap = {"msg"} THEN MsgCap ELSE {})
       \cup (IF caps \cap RmaCap = {"rma"} THEN RmaCap ELSE {})

\* The operations of a table that are not those of enosys.c; the table of a
\* family that was not asked for is a null pointer.
NoTable == {"null"}
TableOf(caps, family, directions) ==
  IF family \in caps THEN caps \cap directions ELSE NoTable

MsgTable(caps) == TableOf(caps, "msg", Sides)
RmaTable(caps) == TableOf(caps, "rma", {"read", "write"})

Opens(i) == i.dest # NoAddr /\ i.dest.sized /\ i.caps \subseteq AllCap /\ i.caps # {}

OpenEp(e) ==
  /\ info # NoInfo /\ e \in plan.eps /\ ep[e] = NewEp
  /\ Opens(info)
  /\ info.handle => pep # Closed
  /\ \E d \in Domains :
       /\ domain[d] # Closed
       /\ ep' = [ep EXCEPT ![e] =
            [state |-> "open", from |-> info, domain |-> d, caps |-> Expanded(info.caps),
             msg |-> MsgTable(Expanded(info.caps)), rma |-> RmaTable(Expanded(info.caps)),
             locked |-> domain[d].threading < ThreadFid,
             name |-> IF info.handle THEN pep.service ELSE 0,
             bound |-> [k \in Kinds |-> [r \in Roles |-> NoQueue]],
             eq |-> FALSE, buffer |-> FALSE, interrupts |-> {}, refused |-> {}, late |-> FALSE]]
  /\ UNCHANGED <<plan, info, domain, queue, pep, crashed, avVars>>

-----------------------------------------------------------------------------
(* dpa_ep_bind.                                                            *)
\* Slip: objects of any domain
AnyDomain(e, q) == TRUE
SameDomain(e, q) == ep[e].domain = queue[q].domain

\* bind_progress: the function of the queue, when the flags name a side.
\* Slip: the first side named
OneSide(q, flags) ==
  IF "recv" \in flags THEN {"recv"} ELSE IF "send" \in flags THEN {"send"} ELSE queue[q].func
\* Slip: whatever the flags name
AllFlags(q, flags) == IF flags # {} THEN flags ELSE queue[q].func
ProgressOf(q, flags) ==
  IF flags \cap Sides # {} THEN flags \cap Sides ELSE queue[q].func

\* The slots of the endpoint the flags fill: FI_SEND is also for reads and writes.
Slots(flags) ==
  flags \cup (IF "send" \in flags THEN {"send", "read", "write"} ELSE {})

Bind(e, q) ==
  /\ IsOpen(e) /\ ep[e].state # "connected"
  /\ queue[q] # Closed /\ queue[q].binds < 2
  /\ SameDomain(e, q)
  /\ \E flags \in plan.flags :
       /\ queue' = [queue EXCEPT ![q].binds = @ + 1,
             ![q].func = IF AutoProgress(ep[e].domain) THEN @ ELSE ProgressOf(q, flags),
             ![q].arg = IF AutoProgress(ep[e].domain) THEN @ ELSE e]
       /\ ep' = [ep EXCEPT ![e].bound[KindOf(q)] =
                   [r \in Roles |-> IF r \in Slots(flags) THEN q ELSE @[r]],
             ![e].late = @ \/ ep[e].buffer]
  /\ UNCHANGED <<plan, info, domain, pep, crashed, avVars>>

BindEq(e) ==
  /\ IsOpen(e) /\ ep[e].state # "connected" /\ ~ep[e].eq
  /\ ep' = [ep EXCEPT ![e].eq = TRUE]
  /\ UNCHANGED <<plan, info, domain, queue, pep, crashed, avVars>>

-----------------------------------------------------------------------------
(* alloc_msg_buffer: a buffer and interrupts, in dpa_accept on the passive  *)
(* side and at the end of the handshake on the active one.                  *)
Bound(e, k, s) == ep[e].bound[k][s]
Waits(q) == q # NoQueue /\ queue[q].waits

RecvInterrupt(e) ==
  "recv" \in ep[e].caps /\
    (AutoProgress(ep[e].domain) \/ \E k \in Kinds : Waits(Bound(e, k, "recv")))

\* Of the send side it is looked at only when something is bound for receives.
\* Slip: the counter is forgotten
SendInterruptOfCq(e) ==
  "send" \in ep[e].caps /\
    (AutoProgress(ep[e].domain) \/ (Bound(e, "cq", "recv") # NoQueue /\ Waits(Bound(e, "cq", "send"))))
SendInterrupt(e) ==
  "send" \in ep[e].caps /\
    (AutoProgress(ep[e].domain)
     \/ \E k \in Kinds : Bound(e, k, "recv") # NoQueue /\ Waits(Bound(e, k, "send")))

\* ... and then it is read though nothing may be bound there.
ReadsNothing(e) ==
  LET null(k) == Bound(e, k, "recv") # NoQueue /\ Bound(e, k, "send") = NoQueue
      found == Bound(e, "cq", "recv") # NoQueue /\ Waits(Bound(e, "cq", "send"))
  IN "send" \in ep[e].caps /\ ~AutoProgress(ep[e].domain) /\ (null("cq") \/ (~found /\ null("cntr")))

NeedsBuffer(e) == ep[e].caps \cap Sides # {}

\* Whether the send interrupt could be made is not looked at.
Unchecked(e) == IF e \in plan.failing /\ SendInterrupt(e) THEN {{}, {"send"}} ELSE {{}}

AllocMsgBuffer(e, refused) ==
  [ep[e] EXCEPT !.buffer = NeedsBuffer(e), !.late = FALSE, !.refused = refused,
     !.interrupts = ((IF RecvInterrupt(e) THEN {"recv"} ELSE {})
                     \cup (IF SendInterrupt(e) THEN {"send"} ELSE {})) \ refused]

Allocates(e, state) ==
  IF NeedsBuffer(e) /\ ReadsNothing(e)
  THEN crashed' = TRUE /\ UNCHANGED ep
  ELSE /\ \E refused \in Unchecked(e) :
            ep' = [ep EXCEPT ![e] = [AllocMsgBuffer(e, refused) EXCEPT !.state = state]]
       /\ UNCHANGED crashed

\* No buffer is free or a call of DPAlib fails: the endpoint keeps the buffer it
\* may have, and a receive interrupt that was already made is removed.
WithoutNew(e, lost) ==
  [ep[e] EXCEPT !.interrupts = @ \ lost, !.refused = @ \cup lost \cup {"buffer"}]

AllocationFails(e, state) ==
  /\ e \in plan.failing /\ NeedsBuffer(e)
  /\ \E lost \in {{}, {"recv"}} :
       ep' = [ep EXCEPT ![e] = [WithoutNew(e, lost) EXCEPT !.state = state]]
  /\ UNCHANGED crashed

\* dpa_accept, which does not ask for an event queue before it uses it; its
\* failures, before the answer is sent or then, leave the endpoint as it was
\* but for the buffer.
Accept(e) ==
  /\ ep[e].state = "open"
  /\ \/ ep[e].eq /\ Allocates(e, "accepted")
     \/ e \in plan.failing /\ Allocates(e, "open")
     \/ AllocationFails(e, "open")
     \/ ~ep[e].eq /\ crashed' = TRUE /\ UNCHANGED ep
  /\ UNCHANGED <<plan, info, domain, queue, pep, avVars>>

\* connect_msg, which may fail, at the end of the handshake.
AfterHandshake(e) == IF e \in plan.failing THEN {"open", "connected"} ELSE {"connected"}

Connected(e) ==
  /\ ep[e].state = "accepted"
  /\ \E state \in AfterHandshake(e) : ep' = [ep EXCEPT ![e].state = state]
  /\ UNCHANGED <<plan, info, domain, queue, pep, crashed, avVars>>

\* dpa_connect and the answer: a buffer is kept from one connection to the next,
\* and the handshake goes on when there is none to be had.
Connect(e) ==
  /\ ep[e].state = "open" /\ ep[e].eq
  /\ \E state \in AfterHandshake(e) :
       IF ep[e].buffer
       THEN ep' = [ep EXCEPT ![e].state = state] /\ UNCHANGED crashed
       ELSE Allocates(e, state) \/ AllocationFails(e, state)
  /\ UNCHANGED <<plan, info, domain, queue, pep, avVars>>

\* dpa_shutdown, which disconnects only what has messages; in the middle of a
\* handshake it is forgotten when the answer comes.
Shutdown(e) ==
  /\ IsOpen(e) /\ "msg" \in ep[e].caps
  /\ ep' = [ep EXCEPT ![e].state = IF @ = "connected" THEN "open" ELSE @]
  /\ UNCHANGED <<plan, info, domain, queue, pep, crashed, avVars>>

\* dpa_ep_close: the queues keep its address.
CloseEp(e) ==
  /\ IsOpen(e)
  /\ ep' = [ep EXCEPT ![e] = Closed]
  /\ UNCHANGED <<plan, info, domain, queue, pep, crashed, avVars>>

Vector ==
  /\ plan.vector /\ \E d \in Domains : domain[d] # Closed
  /\ AvNext
  /\ UNCHANGED <<plan, setupVars>>

-----------------------------------------------------------------------------
EpNext(e) ==
  \/ OpenEp(e) \/ BindEq(e) \/ Accept(e) \/ Connected(e) \/ Connect(e) \/ Shutdown(e) \/ CloseEp(e)
  \/ \E q \in Queues : Bind(e, q)

Next ==
  /\ ~crashed
  /\ \/ GetInfo \/ OpenPep \/ ConnectionRequest \/ Vector
     \/ \E d \in Domains : OpenDomain(d)
     \/ \E q \in Queues : OpenQueue(q)
     \/ \E e \in Eps : EpNext(e)

Spec == Init /\ [][Next]_vars

-----------------------------------------------------------------------------
(* Properties.                                                              *)

\* Type invariant.
TypeOK ==
  /\ plan \in Plans
  /\ info \in InfoSet \cup {NoInfo}
  /\ \A d \in Domains : domain[d] # Closed => domain[d].threading \in ThreadSafe .. ThreadCompletion
  /\ \A q \in Queues : queue[q] # Closed =>
       /\ queue[q].func \subseteq Sides /\ queue[q].arg \in Eps \cup {"none"}
       /\ queue[q].waits \in BOOLEAN /\ queue[q].binds \in 0 .. 2
  /\ \A e \in Eps : IsOpen(e) =>
       /\ ep[e].caps \subseteq AllCap /\ ep[e].interrupts \subseteq Sides
       /\ ep[e].bound \in [Kinds -> [Roles -> Queues \cup {NoQueue}]]
       /\ ep[e].late \in BOOLEAN /\ ep[e].refused \subseteq Sides \cup {"buffer"}
  /\ crashed \in BOOLEAN
  /\ AvTypeOK

NoRequest == [node |-> "none", service |-> 0, source |-> FALSE]

\* What fi_getinfo answers can be given back to it as hints, as applications do
\* to narrow a choice: it is accepted and answered by itself.
AnswerIsItsOwnAnswer ==
  info # NoInfo /\ ~info.handle => Verified(info, NoRequest) /\ Answer(info, NoRequest) = info

\* A domain has the modes the info announced, which two functions work out.
DomainAsAnnounced ==
  \A d \in Domains : domain[d] # Closed =>
    \A field \in {"threading", "progress", "control", "mr"} :
      domain[d][field] = domain[d].from[field]

\* Where the application announced threads without any care, every object that
\* meets at an operation locks: the endpoint and whatever is bound to it.
SafeMeansLocked ==
  \A e \in Eps, k \in Kinds, r \in Roles :
    IsOpen(e) /\ Bound(e, k, r) # NoQueue =>
      LET q == Bound(e, k, r) IN
      /\ queue[q].domain = ep[e].domain
      /\ domain[ep[e].domain].threading = ThreadSafe => ep[e].locked /\ queue[q].locked

\* An endpoint has the operations its info announced, and one that was opened
\* for a connection request has the name the passive endpoint listens under.
EndpointAsAnnounced ==
  \A e \in Eps : IsOpen(e) =>
    LET i == ep[e].from IN
    /\ ("msg" \in i.caps) <=> (ep[e].msg # NoTable)
    /\ ("rma" \in i.caps) <=> (ep[e].rma # NoTable)
    /\ ep[e].msg # NoTable => ep[e].msg # {} /\ i.caps \cap Sides \subseteq ep[e].msg
    /\ i.handle => ep[e].name = i.src.service

\* What was announced is what there is: fi_getinfo to itself, to a domain opened
\* from its answer, and to an endpoint opened from it or from a request.
EverythingAsAnnounced == AnswerIsItsOwnAnswer /\ DomainAsAnnounced /\ EndpointAsAnnounced

\* Whoever can post messages has somewhere to receive them, or the answers to
\* them, once it is connected: the tables follow the family, the buffer the
\* directions.  Only an endpoint that was refused a buffer, which the end of the
\* handshake does not notice, is connected without one.
MessagesHaveBuffer ==
  \A e \in Eps : ep[e].state = "connected" /\ ep[e].msg # NoTable =>
    ep[e].buffer \/ "buffer" \in ep[e].refused

\* A read of a queue makes the progress of every side that completes there:
\* with manual progress, when the queue was bound once.
ReadDrivesItsSides ==
  \A e \in Eps, k \in Kinds, s \in Sides :
    IsOpen(e) /\ Bound(e, k, s) # NoQueue =>
      LET q == Bound(e, k, s) IN
      ~AutoProgress(ep[e].domain) /\ queue[q].binds = 1 => queue[q].arg = e /\ s \in queue[q].func

\* With automatic progress both sides of a connected endpoint have the interrupt
\* whose callback makes it; with manual progress whoever may wait for a side has
\* one to wait on, if the queues were bound before the interrupts were made, and,
\* on the send side, if one of the same kind is bound for receives.  What is
\* missing DPAlib has refused.
WaiterHasInterrupt ==
  \A e \in Eps, s \in Sides :
    ep[e].state = "connected" /\ ep[e].buffer /\ s \in ep[e].caps \ ep[e].refused =>
      /\ AutoProgress(ep[e].domain) => s \in ep[e].interrupts
      /\ \A k \in Kinds :
           LET q == Bound(e, k, s) IN
           Waits(q) /\ ~ep[e].late /\ (s = "send" => Bound(e, k, "recv") # NoQueue)
             => s \in ep[e].interrupts

=============================================================================
