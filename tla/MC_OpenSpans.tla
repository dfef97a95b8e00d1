---------------------------- MODULE MC_OpenSpans ----------------------------
(***************************************************************************)
(* Small instances of OpenSpans: a table of two, chunks of two, a buffer   *)
(* of two, three blocks.  Each host meets one kind of competition.         *)
(***************************************************************************)
EXTENDS OpenSpans

HostOf(base, beside, prev, spans) ==
  [calls |-> [f \in {Base, Beside} |-> IF f = Base THEN base ELSE beside],
   prev |-> prev, spans |-> spans]

MCScenarios ==
  { \* A signal the process dies of, over a close() and blocks that end beside it.
    HostOf({"open", "end", "close"}, {"end"}, "default", 1 .. 3),
    \* The same, while another thread is inside close() or init().
    HostOf({"open", "end"}, {"close", "init"}, "default", 1 .. 2),
    \* A signal whose handler raises, or returns, in the middle of close().
    HostOf({"open", "end", "close"}, {}, "raises", 1 .. 2),
    HostOf({"open", "end", "init"}, {"close", "end"}, "returns", 1 .. 2),
    \* A fork beside a thread in close(); the child opens a block of its own.
    HostOf({"open", "end", "close", "fork"}, {"open", "close"}, "default", 1 .. 3) }
=============================================================================
