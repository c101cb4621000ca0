---------------------------- MODULE MCCompletions ----------------------------
(* Instances of Completions for TLC.                                         *)
EXTENDS Completions

CONSTANTS a1, a2, c1, c2

Config(locking, progress, spin, threads, calls, waits, completions) ==
  [locking |-> locking, progress |-> progress, spin |-> spin, threads |-> threads,
   calls |-> calls, waits |-> waits, completions |-> completions]

Reading == {"read", "readerr", "signal"}
Counting == {"cntr_wait", "cntr_set"}
Times == {"none", "finite", "infinite"}

\* A reader and callback threads, with either kind of condition variable; two
\* readers; a reader that waits on an interrupt; two threads that wait for the
\* counter; manual progress with and without the lock; callback threads without
\* the lock, with either kind of condition variable.
MCConfigs ==
  {Config(TRUE, FALSE, FALSE, {a1, c1, c2}, Reading, {"none", "finite"}, 2),
   Config(TRUE, FALSE, TRUE, {a1, c1}, Reading, {"none", "finite"}, 2),
   Config(TRUE, FALSE, FALSE, {a1, a2, c1}, {"read"}, {"finite"}, 2),
   Config(TRUE, FALSE, FALSE, {a1, c1}, {"read", "wait_data"}, Times, 2),
   Config(TRUE, FALSE, FALSE, {a1, a2, c1}, Counting, {"finite"}, 2),
   Config(TRUE, TRUE, FALSE, {a1, a2}, {"read"}, {"finite"}, 2),
   Config(TRUE, TRUE, FALSE, {a1}, {"cntr_wait"}, {"finite"}, 2),
   Config(FALSE, TRUE, FALSE, {a1}, Calls, {"none", "finite"}, 2),
   Config(FALSE, FALSE, FALSE, {a1, c1, c2}, {"read"}, {"finite"}, 2),
   Config(FALSE, FALSE, TRUE, {a1, c1}, {"read"}, {"finite"}, 2),
   Config(FALSE, FALSE, FALSE, {a1, c1, c2}, Counting, {"finite"}, 2)}

=============================================================================
