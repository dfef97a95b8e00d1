--------------------------- MODULE MC_BatchWorker ---------------------------
(***************************************************************************)
(* BatchWorker on two host threads and three Thread identities, enough for *)
(* a thread in the slot, one being made and one orphaned.                  *)
(***************************************************************************)
EXTENDS BatchWorker

CONSTANTS c1, c2, w1, w2, w3

TwoCallers   == {c1, c2}
ThreeWorkers == {w1, w2, w3}

\* A finalizer lands anywhere but between the decision to spawn and the spawn
\* mark.
OutsideWindow == InCall \ {"spawn"}
=============================================================================
