------------------------------- MODULE MCSetup -------------------------------
(* Instances of Setup for TLC.                                               *)
EXTENDS Setup, MemoryRegions

CONSTANTS d1, d2, e1, e2, q1, q2, n1, t1, t2

Plain ==
  [caps |-> {}, type |-> "unspec", threading |-> 0, progress |-> "unspec",
   control |-> "unspec", mr |-> "unspec", attrs |-> 0, ctxCaps |-> {}, names |-> "unspec",
   src |-> NoAddr, dest |-> NoAddr, handle |-> FALSE]

At(node, service) == [node |-> node, service |-> service, sized |-> TRUE]
Peer == [Plain EXCEPT !.dest = At("there", 1)]

\* Hints that ask for one thing each, some of which the provider refuses.
Levels == {[Peer EXCEPT !.threading = n, !.progress = p] : n \in {0, 1, 3, 4, 5}, p \in {"unspec", "auto"}}
CapSets == {{}, {"msg"}, {"send"}, {"msg", "recv"}, {"rma", "remote_read"}, {"msg", "rma", "write"}}
Families == {[Peer EXCEPT !.caps = c] : c \in CapSets}
Wishes ==
  {[Peer EXCEPT !.caps = c, !.type = t] : c \in {{}, {"rma"}, {"msg"}, {"tagged"}}, t \in {"msg", "rdm", "rdma"}}
  \cup {[Peer EXCEPT !.attrs = n] : n \in 1 .. 2}
  \cup {[Peer EXCEPT !.names = "other"], [Peer EXCEPT !.mr = "basic"], [Peer EXCEPT !.ctxCaps = {"tagged"}]}
Unsized(a) == [a EXCEPT !.sized = FALSE]
Addressed ==
  {[Plain EXCEPT !.src = a] : a \in {At(Here, 2), At("there", 2), Unsized(At(Here, 2))}}
  \cup {[Plain EXCEPT !.dest = a] : a \in {At("there", 1), Unsized(At("there", 1))}}

Request(node, service, source) == [node |-> node, service |-> service, source |-> source]
Ask == Request("none", 0, FALSE)
Requests ==
  {Ask} \cup {Request(n, s, f) : n \in {"none", Here, "there", "unknown"}, s \in {0, 3}, f \in BOOLEAN}

Plan(hints, requests, domains, eps, queues, flags, vector) ==
  [hints |-> hints, requests |-> requests, domains |-> domains, eps |-> eps,
   queues |-> queues, flags |-> flags, failing |-> {}, vector |-> vector]
Failing(p) == [p EXCEPT !.failing = p.eps]

Listener == [Plain EXCEPT !.src = At(Here, 2), !.caps = {"msg"}, !.threading = ThreadSafe]

\* What is answered; what is opened with it, with failures; an endpoint with a
\* completion queue and a counter; two queues; two endpoints that share a queue;
\* two domains; a server, with failures; an address vector; memory regions.
Registering == Plan({Plain}, {Ask}, {d1}, {}, {}, {}, FALSE)

MCPlans ==
  {Registering, Plan(Wishes, {Ask}, {}, {}, {}, {}, FALSE),
   Plan(Addressed, Requests, {}, {}, {}, {}, FALSE),
   Plan(Levels, {Ask}, {d1}, {}, {}, {}, FALSE),
   Failing(Plan(Families, {Ask}, {d1}, {e1}, {}, {}, FALSE)),
   Plan({[Peer EXCEPT !.progress = p] : p \in {"manual", "auto"}}, {Ask}, {d1}, {e1}, {q1, n1},
        {{"send", "recv"}, {"send"}}, FALSE),
   Plan({Peer}, {Ask}, {d1}, {e1}, {q1, q2}, {{"send"}, {"recv"}, {"read"}}, FALSE),
   Plan({Peer}, {Ask}, {d1}, {e1, e2}, {q1}, {{"send", "recv"}, {"read"}}, FALSE),
   Plan({[Peer EXCEPT !.threading = ThreadSafe], [Peer EXCEPT !.progress = "auto"]}, {Ask}, {d1, d2}, {e1},
        {n1}, {{"send", "recv"}}, FALSE),
   Failing(Plan({Listener, [Listener EXCEPT !.progress = "auto"]}, {Ask}, {d1}, {e1}, {q1},
                {{"send", "recv"}}, FALSE)),
   Plan({Peer}, {Ask}, {d1}, {}, {}, {}, TRUE)}

\* One of the plans is to register memory once the domain is open.
MCInit == Init /\ MrInit
MCNext ==
  \/ Next /\ UNCHANGED mrVars
  \/ plan = Registering /\ domain[d1] # Closed /\ MrNext /\ UNCHANGED vars
MCSpec == MCInit /\ [][MCNext]_<<vars, mrVars>>

=============================================================================
