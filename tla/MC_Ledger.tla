------------------------------ MODULE MC_Ledger ------------------------------
(* Ledger with two losses; hosts differ in who makes which call.    *)
EXTENDS Ledger

CONSTANTS m, o, x1, x2

Host(main, nested, other, losses, fails, raises, cut) ==
  [calls |-> [f \in Frames |->
     CASE f = <<Main, "base">>   -> main
       [] f = <<Main, "nested">> -> nested
       [] f = <<Other, "base">>  -> other
       [] OTHER                  -> {}],
   losses |-> losses, failures |-> fails, raises |-> raises, cut |-> cut]

Hosts ==
  { \* The worker drains while another thread records.
    Host({"drain"}, {}, {"record"}, {x1, x2}, 1, FALSE, FALSE),
    \* Failure upon failure: reports are sent again, and dropped past the cap.
    Host({"drain", "record"}, {}, {}, {x1, x2}, 2, TRUE, FALSE),
    \* A signal on top of a drain, while another thread folds to read.
    Host({"drain"}, {"signal"}, {"read"}, {x1}, 1, FALSE, FALSE),
    \* Signals and finalizers inside folds.
    Host({"drain"}, {"record", "signal"}, {}, {x1, x2}, 1, FALSE, FALSE),
    \* A close, and a fork while the other thread drains.
    Host({"record", "final", "fork"}, {}, {"drain"}, {x1}, 1, FALSE, FALSE),
    \* An interrupt that leaves a drain's reports out.
    Host({"drain"}, {}, {"record"}, {x1}, 1, TRUE, TRUE) }
=============================================================================
