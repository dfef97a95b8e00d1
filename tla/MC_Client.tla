------------------------------ MODULE MC_Client ------------------------------
(***************************************************************************)
(* Client on small sets of items and threads.  Which thread makes which    *)
(* call is what tells the runs apart.                                      *)
(***************************************************************************)
EXTENDS Client, TLC

CONSTANTS m, t, w, p, s1, s2, s3, c1, c2, c3

ThreeSpans     == {s1, s2, s3}
ThreeSnapshots == {c1, c2, c3}

\* The second span is as large as the whole byte budget.
Sizes == [i \in Spans |-> IF i = s2 THEN 2 ELSE 1]

\* Swapping two spans of one size, or two snapshots, changes nothing.
SnapshotSymmetry == Permutations(Snapshots)
Symmetry         == Permutations({s1, s3}) \cup SnapshotSymmetry

\* main: what the main thread calls, nested: what runs on top of it, other:
\* what the second host thread calls, daemons: whether the workers run.
Host(main, nested, other, daemons, items) ==
  [calls |-> [f \in Frames |->
     CASE f = <<m, "base">>   -> main
       [] f = <<m, "nested">> -> nested
       [] f = <<t, "base">>   -> other
       [] f = <<w, "base">>   -> daemons \cap {"periodic"}
       [] f = <<p, "base">>   -> daemons \cap {"parse"}
       [] OTHER               -> {}],
   items |-> items]

Threaded ==
  { \* Two host threads beside the batch worker; the main one also closes.
    Host({"span", "flush", "close"}, {}, {"span"}, {"periodic"}, ThreeSpans),
    \* Deferred spans: queued by one thread, parsed by the finalize worker, by
    \* flush() and by close().
    Host({"flush", "close"}, {}, {"deferred"}, {"parse"}, ThreeSpans),
    \* Finalizers that capture inside captures and drains of the main thread.
    Host({"span", "flush"}, {"span"}, {}, {"periodic"}, ThreeSpans),
    \* Snapshots, whose oldest is popped before it is counted.
    Host({"snapshot", "flush", "close"}, {"snapshot"}, {"snapshot"}, {}, ThreeSnapshots) }

\* A signal's flush lands inside captures, flushes and drains.
Signalled ==
  { Host({"span", "flush"}, {"signal"}, {}, {"periodic"}, {s1, s2}),
    Host({"snapshot", "flush"}, {"signal"}, {"snapshot"}, {"periodic"}, {c1, c2}) }

\* ... and inside close(), beside the worker's drain or after an eviction.
SignalledClose ==
  { Host({"span", "close"}, {"signal"}, {}, {"periodic"}, {s1}),
    Host({"span", "close"}, {"signal"}, {}, {}, {s1, s2}) }

\* A capture that overlaps a close() on another thread.
Straddling == { Host({"close"}, {}, {"span"}, {}, {s1}) }
=============================================================================
