----------------------------- MODULE MCEventQueue -----------------------------
(* Instances of EventQueue for TLC.                                          *)
EXTENDS EventQueue

CONSTANTS t1, t2

Config(threads, calls, waits, requests, failures) ==
  [threads |-> threads, calls |-> calls, waits |-> waits, requests |-> requests,
   failures |-> failures]

Times == {"none", "finite", "infinite"}

\* Threads that write and wait; the same with peeks; a server with a queue of
\* its own, in one thread and in two; a server and a client on one queue.
MCConfigs ==
  {Config({t1, t2}, {"read", "write"}, {"none", "finite"}, 0, 0),
   Config({t1, t2}, {"read", "peek", "write"}, {"none"}, 0, 0),
   Config({t1}, {"read", "listen"}, Times, 2, 1),
   Config({t1, t2}, {"read", "listen", "close"}, {"infinite"}, 2, 1),
   Config({t1}, Calls, Times, 1, 1)}

=============================================================================
