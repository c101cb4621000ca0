---------------------------- MODULE MCMsgEndpoint ----------------------------
(* Instances of MsgEndpoint for TLC.                                         *)
EXTENDS MsgEndpoint

Config(progress, lockNeeded, hasInterrupt, cqSides, waits, indirect, capacity, maxPosts) ==
  [progress |-> progress, lockNeeded |-> lockNeeded, hasInterrupt |-> hasInterrupt,
   cqSides |-> cqSides, waits |-> waits, indirect |-> indirect,
   capacity |-> capacity, maxPosts |-> maxPosts]

\* One thread that polls or waits for a while; one that waits for ever for its
\* receives; callbacks of DPAlib with the locks they need; callbacks without the
\* locks, up to a race; callbacks given the endpoint itself, up to a crash.
MCConfigs ==
  {Config("manual", FALSE, TRUE, Sides, {"none", "finite"}, TRUE, 1, 3),
   Config("manual", FALSE, TRUE, {"recv"}, {"none", "infinite"}, TRUE, 2, 2),
   Config("auto", TRUE, TRUE, Sides, {"none"}, TRUE, 1, 3),
   Config("auto", FALSE, TRUE, Sides, {"none"}, TRUE, 1, 2),
   Config("auto", TRUE, TRUE, Sides, {"none"}, FALSE, 1, 2)}

\* Callbacks without the locks; locks without callbacks.
UnlockedAuto == {Config("auto", FALSE, TRUE, Sides, {"none"}, TRUE, 1, 1)}
LockedManual == {Config("manual", TRUE, FALSE, Sides, {"none"}, TRUE, 1, 2)}

=============================================================================
