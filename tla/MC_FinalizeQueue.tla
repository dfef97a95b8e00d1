-------------------------- MODULE MC_FinalizeQueue --------------------------
(* FinalizeQueue on up to three jobs; hosts differ in who makes which call.  *)
EXTENDS FinalizeQueue, TLC

CONSTANTS m, t, w, j1, j2, j3, j4

AllJobs == {j1, j2, j3, j4}
\* j2 fills the byte bound of 2 by itself, j4 exceeds it.
Sizes   == [j \in Jobs |-> CASE j = j2 -> 2 [] j = j4 -> 3 [] OTHER -> 1]

Host(main, nested, other, onWorker, jobs) ==
  [calls |-> [f \in Frames |->
     CASE f = <<m, "base">>   -> main
       [] f = <<m, "nested">> -> nested
       [] f = <<t, "base">>   -> other
       [] f = <<w, "nested">> -> onWorker
       [] OTHER               -> {}],
   jobs |-> jobs]

Hosts ==
  { \* Two threads submit while one flushes and closes.
    Host({"submit", "flush", "close"}, {}, {"submit"}, {}, {j1, j2, j4}),
    \* Finalizers submit, and a signal drains, inside submits and drains.
    Host({"submit", "flush"}, {"submit", "signal"}, {}, {}, {j1, j2}),
    Host({"submit"}, {}, {}, {"submit"}, {j1, j2, j3}),
    \* The process forks while the worker parses and another thread submits.
    Host({"submit", "flush", "fork"}, {}, {"submit"}, {}, {j1, j2}) }

\* A signal's drain inside a submit that makes room.
Signalled == { Host({"submit"}, {"signal"}, {}, {}, {j1, j2, j3}) }
=============================================================================
