------------------------------- MODULE ConnMgr -------------------------------
(***************************************************************************)
(* Connection management of MSG endpoints (dpa_cm.c, dpa_msg_cm.c): the    *)
(* handshake that gives each of two endpoints a buffer of the other's      *)
(* node, and the pool of buffers of a node.                                *)
(*                                                                         *)
(* An active endpoint creates the data interrupt 0 of its node and sends   *)
(* its node to the interrupt the passive endpoint listens on.  The         *)
(* accepting endpoint creates interrupt 0 of its own node, reserves a      *)
(* buffer and sends it to interrupt 0 of the active node; the active       *)
(* endpoint, progressing its event queue, reserves a buffer, sends it to   *)
(* interrupt 0 of the accepting node, and each side maps what it was sent. *)
(* Interrupt 0 is a fixed number (DPA_FLAG_FIXED_INTNO): a node has one,   *)
(* whatever the number of its endpoints.                                   *)
(*                                                                         *)
(* Each endpoint has a thread and an event queue of its own, which is not  *)
(* read any more once the endpoint is closed: what that does is undefined. *)
(***************************************************************************)
EXTENDS Naturals, Sequences

CONSTANTS
  Nodes,
  Actives,     \* endpoints the application connects
  Passives,    \* endpoints it opens for the requests it gets
  Home,        \* the node of each endpoint
  Target,      \* the node each active endpoint connects to
  MaxBuffers,  \* BUFFERS_PER_SEGMENT, buffers of the first segment
  Leavers,     \* bound: endpoints that are disconnected or closed
  Failing,     \* bound: endpoints for which one library call fails
  None

Endpoints == Actives \cup Passives

ASSUME SidesAssumption == Actives \cap Passives = {}
ASSUME HomeAssumption ==
  /\ Home \in [Endpoints -> Nodes]
  /\ Target \in [Actives -> Nodes]
ASSUME NoneAssumption == None \notin Endpoints /\ None \notin Nodes
ASSUME LeaversAssumption == Leavers \subseteq Endpoints /\ Failing \subseteq Endpoints
ASSUME BuffersAssumption == MaxBuffers \in Nat

VARIABLES
  listening, \* nodes whose passive endpoint listens
  requests,  \* connection data on its interrupt: the nodes it came from
  connreq,   \* FI_CONNREQ events in its event queue
  holder,    \* per node: the endpoint that created interrupt 0
  answers,   \* connection data on that interrupt
  reserved,  \* per node: buffers of the pool with a size
  pc,        \* per endpoint: where its thread is in the handshake; "gone" when
             \* it was closed in the middle of it
  peer,      \* peer_addr.nodeId
  chosen,    \* the buffer get_empty_buffer returned
  buffer,    \* msg_recv_info.buffer, 0 for NULL
  data,      \* the buffer of the segment_data at hand
  maps,      \* the remote buffer mapped by connect_msg
  connected,
  partner,   \* history: the endpoint whose answer was taken
  failed     \* history: the endpoints for which a library call failed

poolVars == <<reserved, chosen, buffer>>
linkVars == <<maps, connected>>
mailVars == <<requests, connreq, holder, answers>>
vars == <<listening, mailVars, poolVars, linkVars, pc, peer, data, partner, failed>>

-----------------------------------------------------------------------------
Buffers == 1 .. MaxBuffers
NoMap == [node |-> None, buffer |-> 0]

Goto(e, stage) == pc' = [pc EXCEPT ![e] = stage]

Init ==
  /\ listening = {}
  /\ requests = [n \in Nodes |-> <<>>]
  /\ connreq = [n \in Nodes |-> <<>>]
  /\ holder = [n \in Nodes |-> None]
  /\ answers = [n \in Nodes |-> <<>>]
  /\ reserved = [n \in Nodes |-> {}]
  /\ pc = [e \in Endpoints |-> IF e \in Actives THEN "idle" ELSE "closed"]
  /\ peer = [e \in Endpoints |-> IF e \in Actives THEN Target[e] ELSE None]
  /\ chosen = [e \in Endpoints |-> 0]
  /\ buffer = [e \in Endpoints |-> 0]
  /\ data = [e \in Endpoints |-> 0]
  /\ maps = [e \in Endpoints |-> NoMap]
  /\ connected = [e \in Endpoints |-> FALSE]
  /\ partner = [e \in Endpoints |-> None]
  /\ failed = {}

-----------------------------------------------------------------------------
(* Data interrupts.                                                        *)

\* Slip: an interrupt number of its own for each endpoint
AnyInterrupt(n) == TRUE
\* create_data_interrupt with number 0 succeeds, else DPA_ERR_SEGMENTID_USED
InterruptFree(n) == holder[n] = None

CreateInterrupt(e) ==
  /\ InterruptFree(Home[e])
  /\ holder' = [holder EXCEPT ![Home[e]] = e]
  /\ answers' = [answers EXCEPT ![Home[e]] = <<>>]

\* Slip: the handshake done, the interrupt stays
HeldAfterRemove(e) == holder
\* DPARemoveDataInterrupt; what was not waited for goes with it.
FreedByRemove(e) == [holder EXCEPT ![Home[e]] = None]

-----------------------------------------------------------------------------
(* dpa_listen, and the progress of the passive endpoint's event queue.     *)
Listen(n) ==
  /\ n \notin listening
  /\ \E p \in Passives : Home[p] = n
  /\ listening' = listening \cup {n}
  /\ UNCHANGED <<mailVars, poolVars, linkVars, pc, peer, data, partner, failed>>

\* progress_pep_eq and connection_request
ProgressPep(n) ==
  /\ requests[n] # <<>>
  /\ connreq' = [connreq EXCEPT ![n] = Append(@, Head(requests[n]))]
  /\ requests' = [requests EXCEPT ![n] = Tail(@)]
  /\ UNCHANGED <<listening, holder, answers, poolVars, linkVars, pc, peer, data, partner, failed>>

\* The application reads FI_CONNREQ and opens an endpoint for it.
OpenPassive(p) ==
  LET n == Home[p] IN
  /\ pc[p] = "closed"
  /\ connreq[n] # <<>>
  /\ peer' = [peer EXCEPT ![p] = Head(connreq[n])]
  /\ connreq' = [connreq EXCEPT ![n] = Tail(@)]
  /\ Goto(p, "accept")
  /\ UNCHANGED <<listening, requests, holder, answers, poolVars, linkVars, data, partner, failed>>

(* dpa_connect: interrupt 0, then the request.  Sending waits for the      *)
(* remote interrupt to exist.  When interrupt 0 is taken the call returns  *)
(* -FI_ECONNABORTED and has changed nothing.                               *)
Connect(a) ==
  /\ pc[a] = "idle"
  /\ CreateInterrupt(a)
  /\ Goto(a, "request")
  /\ UNCHANGED <<listening, requests, connreq, poolVars, linkVars, peer, data, partner, failed>>

SendRequest(a) ==
  /\ pc[a] = "request"
  /\ peer[a] \in listening
  /\ requests' = [requests EXCEPT ![peer[a]] = Append(@, Home[a])]
  /\ Goto(a, "await")
  /\ UNCHANGED <<listening, connreq, holder, answers, poolVars, linkVars, peer, data, partner, failed>>

(* dpa_accept: interrupt 0, a buffer, the answer.  When interrupt 0 is     *)
(* taken it returns -FI_ECONNABORTED and has changed nothing.              *)
Accept(p) ==
  /\ pc[p] = "accept"
  /\ CreateInterrupt(p)
  /\ Goto(p, "alloc")
  /\ UNCHANGED <<listening, requests, connreq, poolVars, linkVars, peer, data, partner, failed>>

-----------------------------------------------------------------------------
(* alloc_msg_buffer: the first empty buffer is found, interrupts are made, *)
(* and only then is it reserved.  No lock is taken.                        *)
\* Slip: the pool counted from zero
FirstFreeFromZero(n) ==
  {b \in (0 .. MaxBuffers) \ reserved[n] : \A i \in 0 .. (b - 1) : i \in reserved[n]}
FirstFree(n) ==
  {b \in Buffers \ reserved[n] : \A i \in 1 .. (b - 1) : i \in reserved[n]}

ChooseBuffer(e) ==
  /\ pc[e] = "alloc"
  /\ \E b \in FirstFree(Home[e]) : chosen' = [chosen EXCEPT ![e] = b]
  /\ Goto(e, "reserve")
  /\ UNCHANGED <<listening, mailVars, reserved, buffer, linkVars, peer, data, partner, failed>>

\* The segment data at hand now names the local buffer: on the accepting
\* side it was empty, on the active side it was the data of the remote one.
ReserveBuffer(e) ==
  /\ pc[e] = "reserve"
  /\ reserved' = [reserved EXCEPT ![Home[e]] = @ \cup {chosen[e]}]
  /\ buffer' = [buffer EXCEPT ![e] = chosen[e]]
  /\ data' = [data EXCEPT ![e] = chosen[e]]
  /\ Goto(e, "answer")
  /\ UNCHANGED <<listening, mailVars, chosen, linkVars, peer, partner, failed>>

\* Where an endpoint goes on once its answer is sent.
Answered(e) == IF e \in Actives THEN "remove" ELSE "await"

\* send_connect_data, to whoever holds interrupt 0 of the peer's node
SendAnswer(e) ==
  /\ pc[e] = "answer"
  /\ holder[peer[e]] # None
  /\ answers' = [answers EXCEPT ![peer[e]] = Append(@, [buffer |-> data[e], from |-> e])]
  /\ Goto(e, Answered(e))
  /\ UNCHANGED <<listening, requests, connreq, holder, poolVars, linkVars, peer, data, partner, failed>>

\* progress_ep_eq: a timeout changes nothing; the passive side already has
\* its buffer, the active side allocates one now.
TakeAnswer(e) ==
  LET n == Home[e] IN
  /\ pc[e] = "await"
  /\ holder[n] = e
  /\ answers[n] # <<>>
  /\ data' = [data EXCEPT ![e] = Head(answers[n]).buffer]
  /\ partner' = [partner EXCEPT ![e] = Head(answers[n]).from]
  /\ answers' = [answers EXCEPT ![n] = Tail(@)]
  /\ Goto(e, IF buffer[e] = 0 THEN "alloc" ELSE "remove")
  /\ UNCHANGED <<listening, requests, connreq, holder, poolVars, linkVars, peer, failed>>

RemoveInterrupt(e) ==
  /\ pc[e] = "remove"
  /\ holder' = FreedByRemove(e)
  /\ answers' = [answers EXCEPT ![Home[e]] = <<>>]
  /\ Goto(e, "map")
  /\ UNCHANGED <<listening, requests, connreq, poolVars, linkVars, peer, data, partner, failed>>

\* connect_msg: map the buffer the data at hand names, add FI_CONNECTED
ConnectMsg(e) ==
  /\ pc[e] = "map"
  /\ maps' = [maps EXCEPT ![e] = [node |-> peer[e], buffer |-> data[e]]]
  /\ connected' = [connected EXCEPT ![e] = TRUE]
  /\ Goto(e, "ready")
  /\ UNCHANGED <<listening, mailVars, poolVars, peer, data, partner, failed>>

-----------------------------------------------------------------------------
(* disconnect_msg: dpa_shutdown, at any time since the endpoint was opened, *)
(* or a read of the event queue after FI_CONNECTED, which waits on the     *)
(* interrupt that was removed and takes the failure that follows for a     *)
(* failed handshake.  The peer is not told, and a handshake that is under  *)
(* way goes on.                                                            *)
Disconnect(e) ==
  /\ pc[e] \notin {"closed", "freed", "gone"}
  /\ e \in Leavers
  /\ maps' = [maps EXCEPT ![e] = NoMap]
  /\ connected' = [connected EXCEPT ![e] = FALSE]
  /\ UNCHANGED <<listening, mailVars, poolVars, pc, peer, data, partner, failed>>

\* Slip: the buffer goes back to the pool
ReturnedBuffer(e) == [reserved EXCEPT ![Home[e]] = @ \ {buffer[e]}]
\* Nothing gives a buffer back.
PoolAfterClose(e) == reserved

(* dpa_ep_close frees the endpoint, and nothing else: what it mapped stays *)
(* mapped, and interrupt 0 stays when its handshake has not ended.  The    *)
(* application closes it between its calls.                                *)
Close(e) ==
  /\ pc[e] \in {"idle", "accept", "await", "ready"}
  /\ e \in Leavers
  /\ buffer' = [buffer EXCEPT ![e] = 0]
  /\ reserved' = PoolAfterClose(e)
  /\ connected' = [connected EXCEPT ![e] = FALSE]
  /\ Goto(e, IF pc[e] \in {"accept", "await"} THEN "gone" ELSE "freed")
  /\ UNCHANGED <<listening, mailVars, chosen, maps, peer, data, partner, failed>>

-----------------------------------------------------------------------------
(* Library calls that fail.  Interrupt 0 is not given back: dpa_connect    *)
(* and dpa_accept, called again, are refused by it.                        *)
Fails(e, stage) ==
  /\ e \in Failing \ failed
  /\ failed' = failed \cup {e}
  /\ Goto(e, stage)

\* progress_ep_eq does not look at what alloc_send_buffer returns.
Resumed(e) == IF e \in Actives THEN "remove" ELSE "accept"

\* send_connect_data returns the error of the connection to the interrupt, but
\* not that of the trigger: then the request is lost and the call succeeds.
RequestFails(a) ==
  /\ pc[a] = "request"
  /\ \E stage \in {"idle", "await"} : Fails(a, stage)
  /\ UNCHANGED <<listening, mailVars, poolVars, linkVars, peer, data, partner>>

\* No interrupt could be made, or no segment: alloc_msg_buffer reserves nothing.
AllocFails(e) ==
  /\ pc[e] \in {"alloc", "reserve"}
  /\ Fails(e, Resumed(e))
  /\ UNCHANGED <<listening, mailVars, poolVars, linkVars, peer, data, partner>>

\* The same of the answer, which is lost or not sent; the buffer is kept.
AnswerFails(e) ==
  /\ pc[e] = "answer"
  /\ \E stage \in {Resumed(e), Answered(e)} : Fails(e, stage)
  /\ UNCHANGED <<listening, mailVars, poolVars, linkVars, peer, data, partner>>

\* connect_msg fails: the endpoint is disconnected, and the peer not told.
ConnectMsgFails(e) ==
  /\ pc[e] = "map"
  /\ Fails(e, "ready")
  /\ UNCHANGED <<listening, mailVars, poolVars, linkVars, peer, data, partner>>

FailureNext(e) ==
  \/ e \in Actives /\ RequestFails(e)
  \/ AllocFails(e) \/ AnswerFails(e) \/ ConnectMsgFails(e)

-----------------------------------------------------------------------------
HandshakeNext(e) ==
  \/ e \in Actives /\ SendRequest(e)
  \/ e \in Passives /\ (OpenPassive(e) \/ Accept(e))
  \/ ChooseBuffer(e) \/ ReserveBuffer(e)
  \/ SendAnswer(e) \/ TakeAnswer(e)
  \/ RemoveInterrupt(e) \/ ConnectMsg(e)

Next ==
  \/ \E n \in Nodes : Listen(n) \/ ProgressPep(n)
  \/ \E a \in Actives : Connect(a)
  \/ \E e \in Endpoints : HandshakeNext(e) \/ FailureNext(e) \/ Disconnect(e) \/ Close(e)

Spec == Init /\ [][Next]_vars

\* Every thread goes on: servers listen and read their event queue, an
\* accept that was refused is called again, and an application that waits
\* for FI_CONNECTED keeps reading its event queue.
Fairness ==
  /\ \A n \in Nodes : WF_vars(Listen(n)) /\ WF_vars(ProgressPep(n))
  /\ \A e \in Endpoints : WF_vars(HandshakeNext(e))

FairSpec == Spec /\ Fairness

-----------------------------------------------------------------------------
(* Properties.                                                             *)

Stages == {"idle", "request", "closed", "accept", "await", "alloc", "reserve",
           "answer", "remove", "map", "ready", "freed", "gone"}

Answers == [buffer : Buffers, from : Endpoints]

\* Type invariant.
TypeOK ==
  /\ listening \subseteq Nodes
  /\ requests \in [Nodes -> Seq(Nodes)]
  /\ connreq \in [Nodes -> Seq(Nodes)]
  /\ holder \in [Nodes -> Endpoints \cup {None}]
  /\ answers \in [Nodes -> Seq(Answers)]
  /\ reserved \in [Nodes -> SUBSET Buffers]
  /\ pc \in [Endpoints -> Stages]
  /\ peer \in [Endpoints -> Nodes \cup {None}]
  /\ chosen \in [Endpoints -> Buffers \cup {0}]
  /\ buffer \in [Endpoints -> Buffers \cup {0}]
  /\ data \in [Endpoints -> Buffers \cup {0}]
  /\ maps \in [Endpoints -> [node : Nodes \cup {None}, buffer : Buffers \cup {0}]]
  /\ connected \in [Endpoints -> BOOLEAN]
  /\ partner \in [Endpoints -> Endpoints \cup {None}]
  /\ failed \subseteq Failing

\* From the creation of interrupt 0 to its removal.
Handshaking == {"request", "await", "alloc", "reserve", "answer", "remove"}

\* Interrupt 0 of a node, without which every later handshake of the node is
\* refused, is held by an endpoint in its handshake.  No order of handshakes and
\* disconnections leaves it behind, nor a close after the handshake: only a
\* library call that failed, or a close of the endpoint before FI_CONNECTED.
InterruptInUse ==
  \A n \in Nodes :
    holder[n] # None =>
      /\ Home[holder[n]] = n
      /\ \/ pc[holder[n]] \in Handshaking
         \/ holder[n] \in failed \/ pc[holder[n]] = "gone"

\* No two endpoints of a node receive into the same buffer, though
\* get_empty_buffer and the reservation are two steps under no lock.
BuffersExclusive ==
  \A e, f \in Endpoints :
    e # f /\ Home[e] = Home[f] /\ buffer[e] # 0 => buffer[e] # buffer[f]

\* Handshakes do not cross, though the answers to all endpoints of a node go
\* to the same interrupt: who took an answer is who it was meant for.
PartnersAgree ==
  \A e, f \in Endpoints :
    partner[e] = f /\ partner[f] # None => partner[f] = e

\* The buffer e writes to is the buffer of the endpoint it is connected to
\* (or of nobody, once that endpoint is closed).
MapsItsPartner(e) ==
  connected[e] =>
    /\ maps[e].node = Home[partner[e]]
    /\ buffer[partner[e]] \in {0, maps[e].buffer}
    /\ \A g \in Endpoints \ {partner[e]} :
         Home[g] = maps[e].node => buffer[g] # maps[e].buffer

\* What the accepting side maps.
PassiveMapsItsPartner == \A p \in Passives : MapsItsPartner(p)

\* What the active side maps.
ActiveMapsItsPartner == \A a \in Actives : MapsItsPartner(a)

\* Every handshake that was begun ends with FI_CONNECTED, on both sides, as long
\* as no library call fails and no endpoint is closed before that.
EveryHandshakeCompletes ==
  \A e \in Endpoints :
    pc[e] \in {"request", "accept"} ~>
      \/ pc[e] \in {"ready", "freed"}
      \/ failed # {} \/ \E g \in Endpoints : pc[g] = "gone"

=============================================================================
