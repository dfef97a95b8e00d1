------------------------------- MODULE Ledger -------------------------------
(***************************************************************************)
(* The drop ledger (_assembly/_ledger.py), with the drains of _client.py   *)
(* and the sends of transport/_wardex.py that carry its reports.           *)
(*                                                                         *)
(* A recorded loss is a token.  It waits in the inbox, is folded into the  *)
(* pending table, cut into a report, sent, and settled: confirmed, pending  *)
(* again, or held to be sent once more.  The moves are folds, which one    *)
(* frame makes under a lock nobody waits for; readers and recorders on     *)
(* other threads, and finalizers on the same one, run between their steps. *)
(* A step of a fold is one store that such a reader can tell from the next.*)
(***************************************************************************)
EXTENDS Naturals, Sequences, SequencesExt, FiniteSets, FiniteSetsExt

CONSTANTS
  Losses,              \* the losses there can be, each counted as one
  Main, Other,         \* the thread signals are handled on, and another one
  FoldAt,              \* _FOLD_AT
  UnackedCap,          \* _UNACKED_CAP
  UnsentCap,           \* _UNSENT_CAP
  MaxCount,            \* _INT32_MAX
  Clock,               \* the times time.time_ns() may say: it may step back
  MaxFailures,         \* bound: how many sends fail
  MaxReads,            \* bound: how often undelivered() or snapshot() is called
  Scenarios            \* bound: which calls each frame makes

Threads == {Main, Other}
Levels  == {"base", "nested"}
Frames  == Threads \X Levels
Ops     == {"record", "read", "drain", "final", "signal", "fork"}
Nobody  == <<>>
Nothing == "nothing"
Stale   == <<>>
NoMove  == <<0, 0>>
NoBatch == [item |-> Nothing, reports |-> <<>>, open |-> FALSE]

ASSUME LedgerAssumption ==
  /\ Main # Other
  /\ Nothing \notin Losses
  /\ FoldAt \in Nat \ {0} /\ UnackedCap \in Nat /\ UnsentCap \in Nat \ {0}
  /\ MaxCount \in Nat \ {0}
  /\ Clock \subseteq Nat /\ Clock # {}
  /\ MaxFailures \in Nat /\ MaxReads \in Nat
  /\ Scenarios \subseteq [calls : [Frames -> SUBSET Ops],
                          losses : SUBSET Losses,
                          failures : 0 .. MaxFailures,
                          raises : BOOLEAN,   \* export() may raise
                          cut : BOOLEAN]      \* a BaseException may end a drain
  /\ \A h \in Scenarios : \A u \in Threads : "signal" \notin h.calls[<<u, "base">>]

VARIABLES
  inbox, pending, failed_sends,   \* _INBOX, _PENDING, _failed_sends
  version,             \* which of two dicts _PENDING is
  totals,              \* _TOTALS
  moving,              \* _MOVING[0]: a report and a dict, or NoMove
  reports,             \* every report cut: its stamp, losses and failed sends
  out, fresh,          \* _OUT, and those of them cut fresh
  unacked, settled,    \* _UNACKED, _SETTLED
  undeliverable,       \* the reports whose counts _UNDELIVERABLE holds
  unsent,              \* _UNSENT: the frames whose envelope is in it
  last_solo,           \* _last_solo: "never", "recent", or "past" the interval
  fold,                \* the frame that set _folding, or Nobody
  held,                \* how many handlers _HELD_SIGNALS holds
  pc, ret, op,         \* where each frame is, what follows its fold, its call
  batch,               \* the envelope a drain carries, open while it does
  how,                 \* how a drain's send failed
  confirmed,           \* the reports whose drain said delivered
  received,            \* the reports the receiver folded in
  parents,             \* losses recorded, and failed sends, before a fork
  recorded,            \* losses recorded in this process
  failures, reads, forked, signalled, host

tables == <<pending, failed_sends, version, totals, moving, reports, out, fresh,
            unacked, undeliverable>>
ghosts == <<parents, failures, reads, forked, host>>
frames == <<pc, ret, op, batch, how>>
vars == <<inbox, tables, settled, unsent, last_solo, fold, held, frames,
          confirmed, received, recorded, signalled, ghosts>>

\* A failed send, by its number, and the loss that a dropped report is.
Send(n)     == <<"send", n>>
Overflow(r) == <<"overflow", r>>
Tokens      == Losses \cup {Overflow(r) : r \in DOMAIN reports}

LockPcs == {"took", "inbox", "added", "settle", "moving", "kept", "overflow", "drop",
            "leave", "left", "handout", "clear", "cut", "cutting", "cutEnd", "ended"}
Pcs == LockPcs \cup {"idle", "after", "attached", "post", "count", "failed", "unsent",
                     "returned", "done", "over", "signal"}

Init ==
  /\ inbox = <<>> /\ pending = {} /\ failed_sends = {} /\ version = 0 /\ totals = {}
  /\ moving = NoMove /\ reports = <<>> /\ out = {} /\ fresh = {}
  /\ unacked = <<>> /\ settled = <<>> /\ undeliverable = {} /\ unsent = <<>>
  /\ last_solo = "never" /\ fold = Nobody /\ held = 0
  /\ pc = [f \in Frames |-> "idle"] /\ ret = [f \in Frames |-> [next |-> "over", whole |-> TRUE]]
  /\ op = [f \in Frames |-> Nothing] /\ batch = [f \in Frames |-> NoBatch]
  /\ how = [f \in Frames |-> Nothing]
  /\ confirmed = {} /\ received = {} /\ parents = {} /\ recorded = {}
  /\ failures = 0 /\ reads = 0 /\ forked = FALSE /\ signalled = FALSE
  /\ host \in Scenarios

-----------------------------------------------------------------------------
(* Frames, and the fold lock.                                               *)

Thread(f) == f[1]
Base(f)   == <<f[1], "base">>
Nested(f) == <<f[1], "nested">>

Runs(f)      == f[2] = "base" => pc[Nested(f)] = "idle"
At(f, label) == Runs(f) /\ pc[f] = label
Goto(f, label) == pc' = [pc EXCEPT ![f] = label]

\* A finalizer or a signal interrupts a call of its thread's base frame.
MayCall(f, what) ==
  /\ At(f, "idle") /\ what \in host.calls[f]
  /\ f[2] = "nested" => pc[Base(f)] # "idle"

Unused == host.losses \ (recorded \cup parents
                    \cup {batch[f].item : f \in {g \in Frames : batch[g].open}})

\* _free(): taken without waiting, and not by a thread that is folding already.
Free(f) ==
  /\ fold = Nobody
  /\ \A g \in Frames : pc[g] \in LockPcs => Thread(g) = Thread(f)

\* A fold of everything, or of the inbox only, and then next.  One that cannot
\* be had is not waited for.
FoldThen(f, whole, next) ==
  IF Free(f) THEN Goto(f, "took") /\ ret' = [ret EXCEPT ![f] = [next |-> next, whole |-> whole]]
             ELSE Goto(f, next) /\ UNCHANGED ret
TryFold(f, next) == FoldThen(f, TRUE, next)

\* The frame sets _folding.
Take(f) ==
  /\ At(f, "took")
  /\ fold' = f
  /\ Goto(f, "inbox")
  /\ UNCHANGED <<inbox, tables, settled, unsent, last_solo, held, ret, op, batch, how,
                 confirmed, received, recorded, signalled, ghosts>>

\* A held handler runs as the fold ends, above the frame whose fold it was.
RunHeld(f) ==
  /\ held' = held - 1
  /\ IF f[2] = "base"
       THEN /\ pc' = [pc EXCEPT ![Nested(f)] = "signal"]
            /\ op' = [op EXCEPT ![Nested(f)] = "signal"]
       ELSE /\ Goto(f, "signal")
            /\ op' = [op EXCEPT ![f] = "signal"]
  /\ UNCHANGED ret

\* _end_fold(): the flag, the lock, and then what signals the fold held.
EndFold(f) ==
  /\ \/ /\ At(f, "ended") /\ fold = f
        /\ fold' = Nobody
        /\ UNCHANGED <<held, pc, ret, op>>
     \/ /\ At(f, "ended") /\ fold # f
        /\ Goto(f, "after")
        /\ UNCHANGED <<fold, held, ret, op>>
     \/ /\ At(f, "after") /\ held > 0
        /\ RunHeld(f)
        /\ UNCHANGED fold
     \/ /\ At(f, "after") /\ held = 0
        /\ Goto(f, ret[f].next)
        /\ UNCHANGED <<fold, held, ret, op>>
  /\ UNCHANGED <<inbox, tables, settled, unsent, last_solo, batch, how, confirmed,
                 received, recorded, signalled, ghosts>>

-----------------------------------------------------------------------------
(* Recording: record(), record_items(), record_failed_send().               *)

\* x joins the inbox; at FoldAt the call folds before next follows.
Recorded(f, x, whole, next) ==
  /\ inbox' = Append(inbox, x)
  /\ IF Len(inbox) + 1 < FoldAt THEN Goto(f, next) /\ UNCHANGED ret
                                ELSE FoldThen(f, whole, next)

Record(f, x) ==
  /\ MayCall(f, "record") /\ x \in Unused
  /\ Recorded(f, x, FALSE, "over")
  /\ op' = [op EXCEPT ![f] = "record"]
  /\ recorded' = recorded \cup {x}
  /\ UNCHANGED <<tables, settled, unsent, last_solo, fold, held, batch, how, confirmed,
                 received, signalled, ghosts>>

\* undelivered() and snapshot() fold before they read.
Read(f) ==
  /\ MayCall(f, "read") /\ reads < MaxReads
  /\ reads' = reads + 1
  /\ TryFold(f, "over")
  /\ op' = [op EXCEPT ![f] = "read"]
  /\ UNCHANGED <<inbox, tables, settled, unsent, last_solo, fold, held, batch, how,
                 confirmed, received, recorded, signalled, parents, failures, forked, host>>

\* A frame's call returns.
Over(f) ==
  /\ At(f, "over")
  /\ Goto(f, "idle")
  /\ op' = [op EXCEPT ![f] = Nothing]
  /\ batch' = [batch EXCEPT ![f] = NoBatch]
  /\ how' = [how EXCEPT ![f] = Nothing]
  /\ UNCHANGED <<inbox, tables, settled, unsent, last_solo, fold, held, ret, confirmed,
                 received, recorded, signalled, ghosts>>

-----------------------------------------------------------------------------
(* The fold.                                                                *)

\* What a fold's steps leave alone.
FoldFrame == UNCHANGED <<unsent, last_solo, fold, held, ret, op, how, confirmed, received,
                         recorded, signalled, ghosts>>

IsSend(x) == \E n \in 1 .. MaxFailures : x = Send(n)

\* record() folds the inbox only; every other fold goes on to the settles.
AfterInbox(f) == IF ret[f].whole THEN "settle" ELSE "ended"

\* _fold_inbox_held(), and its copy in record(): an entry is added to the tables,
\* then it leaves the inbox.
FoldInbox(f) ==
  /\ FoldFrame
  /\ \/ /\ At(f, "inbox") /\ inbox # <<>> /\ IsSend(Head(inbox))
        /\ failed_sends' = failed_sends \cup {Head(inbox)}
        /\ Goto(f, "added")
        /\ UNCHANGED <<inbox, pending, totals>>
     \/ /\ At(f, "inbox") /\ inbox # <<>> /\ ~IsSend(Head(inbox))
        /\ totals' = totals \cup {Head(inbox)}
        /\ pending' = pending \cup {Head(inbox)}
        /\ Goto(f, "added")
        /\ UNCHANGED <<inbox, failed_sends>>
     \/ /\ At(f, "added")
        /\ inbox' = Tail(inbox)
        /\ Goto(f, "inbox")
        /\ UNCHANGED <<pending, failed_sends, totals>>
     \/ /\ At(f, "inbox") /\ inbox = <<>>
        /\ Goto(f, AfterInbox(f))
        /\ UNCHANGED <<inbox, pending, failed_sends, totals>>
  /\ UNCHANGED <<version, moving, reports, out, fresh, unacked, undeliverable, settled, batch>>

\* The settle a fold is at.
Report  == Head(settled)[1]
Outcome == Head(settled)[2]

\* Fault: a report sent before goes back into the table too.
PutsBackAny == Report \in out /\ Outcome = "definite"

\* The counts of a fresh report that was certainly not stored are pending again.
PutsBack == Report \in out /\ Outcome = "definite" /\ Report \in fresh
Keeps    == Report \in out /\ Outcome # "delivered" /\ ~PutsBack

\* _fold_held()'s loop.  A fresh report that was certainly not stored has its
\* counts put back, in a new table named by _MOVING before it is the table;
\* one that may have been stored is held; and only then does it stop being out.
Settle(f) ==
  /\ FoldFrame
  /\ \/ /\ At(f, "settle") /\ settled = <<>>
        /\ Goto(f, IF ret[f].next = "attached" THEN "handout" ELSE "ended")
        /\ UNCHANGED tables
     \/ /\ At(f, "settle") /\ settled # <<>>
        /\ PutsBack
        /\ moving' = <<Report, 1 - version>>
        /\ Goto(f, "moving")
        /\ UNCHANGED <<pending, failed_sends, version, totals, reports, out, fresh, unacked,
                       undeliverable>>
     \/ /\ At(f, "moving")
        /\ version' = 1 - version
        /\ pending' = pending \cup reports[Report].events
        /\ failed_sends' = failed_sends \cup reports[Report].sends
        /\ Goto(f, "leave")
        /\ UNCHANGED <<totals, moving, reports, out, fresh, unacked, undeliverable>>
     \/ /\ At(f, "settle") /\ settled # <<>>
        /\ Keeps
        /\ unacked' = Append(unacked, Report)
        /\ Goto(f, "kept")
        /\ UNCHANGED <<pending, failed_sends, version, totals, moving, reports, out, fresh,
                       undeliverable>>
     \/ /\ At(f, "settle") /\ settled # <<>>
        /\ ~PutsBack /\ ~Keeps
        /\ Goto(f, "leave")
        /\ UNCHANGED tables
  /\ UNCHANGED <<inbox, settled, batch>>

\* The oldest of the reports held for resending, by its stamp.
Oldest == CHOOSE r \in Range(unacked) :
            \A s \in Range(unacked) : reports[r].stamp <= reports[s].stamp

\* Past the cap the oldest is dropped, counted as a loss of its own.
DropOldest(f) ==
  /\ FoldFrame
  /\ \/ /\ At(f, "kept") /\ Len(unacked) <= UnackedCap
        /\ Goto(f, "leave")
        /\ UNCHANGED <<pending, totals, unacked, undeliverable>>
     \/ /\ At(f, "kept") /\ Len(unacked) > UnackedCap
        /\ totals' = totals \cup {Overflow(Oldest)}
        /\ pending' = pending \cup {Overflow(Oldest)}
        /\ Goto(f, "overflow")
        /\ UNCHANGED <<unacked, undeliverable>>
     \/ /\ At(f, "overflow")
        /\ undeliverable' = undeliverable \cup {Oldest}
        /\ Goto(f, "drop")
        /\ UNCHANGED <<pending, totals, unacked>>
     \/ /\ At(f, "drop")
        /\ unacked' = SelectSeq(unacked, LAMBDA r : r # Oldest)
        /\ Goto(f, "kept")
        /\ UNCHANGED <<pending, totals, undeliverable>>
  /\ UNCHANGED <<inbox, failed_sends, version, moving, reports, out, fresh, settled, batch>>

\* The report is out no more, and then its settle is done with.
LeaveOut(f) ==
  /\ FoldFrame
  /\ \/ /\ At(f, "leave")
        /\ out' = out \ {Report} /\ fresh' = fresh \ {Report}
        /\ Goto(f, "left")
        /\ UNCHANGED <<moving, settled>>
     \/ /\ At(f, "left")
        /\ moving' = NoMove
        /\ settled' = Tail(settled)
        /\ Goto(f, "settle")
        /\ UNCHANGED <<out, fresh>>
  /\ UNCHANGED <<inbox, pending, failed_sends, version, totals, reports, unacked,
                 undeliverable, batch>>

-----------------------------------------------------------------------------
(* attach(): the envelope of a drain takes what is not out already.         *)

Carry(f, rs) == batch' = [batch EXCEPT ![f].reports = @ \o rs]

\* Fault: they leave _UNACKED first.
HandOutLate(f) ==
  /\ FoldFrame
  /\ \/ /\ At(f, "handout")
        /\ unacked' = <<>>
        /\ Carry(f, unacked)
        /\ Goto(f, "clear")
        /\ UNCHANGED out
     \/ /\ At(f, "clear")
        /\ out' = out \cup Range(batch[f].reports)
        /\ Goto(f, "cut")
        /\ UNCHANGED <<unacked, batch>>
  /\ UNCHANGED <<inbox, pending, failed_sends, version, totals, moving, reports, fresh,
                 undeliverable, settled>>

\* The reports held for resending are out before they leave _UNACKED.
HandOut(f) ==
  /\ FoldFrame
  /\ \/ /\ At(f, "handout")
        /\ out' = out \cup Range(unacked)
        /\ Carry(f, unacked)
        /\ Goto(f, "clear")
        /\ UNCHANGED unacked
     \/ /\ At(f, "clear")
        /\ unacked' = <<>>
        /\ Goto(f, "cut")
        /\ UNCHANGED <<out, batch>>
  /\ UNCHANGED <<inbox, pending, failed_sends, version, totals, moving, reports, fresh,
                 undeliverable, settled>>

\* At most MaxCount of one reason and unit fit a report's int32; the rest wait.
Least(a, b) == IF a < b THEN a ELSE b
FitOf(S) == CHOOSE T \in SUBSET S : Cardinality(T) = Least(Cardinality(S), MaxCount)
Fit(table) == FitOf(table \cap Losses) \cup FitOf(table \ Losses)

Stamps == {reports[r].stamp : r \in DOMAIN reports}

\* Strictly after every earlier stamp, whatever the clock says.
Stamp(now) == Max({now} \cup {s + 1 : s \in Stamps})

NewReport(now) == [stamp |-> Stamp(now), events |-> Fit(pending), sends |-> FitOf(failed_sends)]

\* _cut_held(): the report is out before its counts leave the table, and _MOVING
\* says that they are in both.
Cut(f) ==
  /\ FoldFrame
  /\ \/ /\ At(f, "cut") /\ pending = {} /\ failed_sends = {}
        /\ Goto(f, "ended")
        /\ UNCHANGED <<pending, failed_sends, version, moving, reports, out, fresh, batch>>
     \/ /\ At(f, "cut") /\ (pending # {} \/ failed_sends # {})
        /\ \E now \in Clock : reports' = Append(reports, NewReport(now))
        /\ moving' = <<Len(reports) + 1, version>>
        /\ out' = out \cup {Len(reports) + 1} /\ fresh' = fresh \cup {Len(reports) + 1}
        /\ Carry(f, <<Len(reports) + 1>>)
        /\ Goto(f, "cutting")
        /\ UNCHANGED <<pending, failed_sends, version>>
     \/ /\ At(f, "cutting")
        /\ pending' = pending \ reports[Len(reports)].events
        /\ failed_sends' = failed_sends \ reports[Len(reports)].sends
        /\ version' = 1 - version
        /\ Goto(f, "cutEnd")
        /\ UNCHANGED <<moving, reports, out, fresh, batch>>
     \/ /\ At(f, "cutEnd")
        /\ moving' = NoMove
        /\ Goto(f, "ended")
        /\ UNCHANGED <<pending, failed_sends, version, reports, out, fresh, batch>>
  /\ UNCHANGED <<inbox, totals, unacked, undeliverable, settled>>

-----------------------------------------------------------------------------
(* A drain: Client._drain, and WardexTransport.export inside it.            *)

\* Fault: reports to be sent again are not looked for.
WaitingNew == pending # {} \/ inbox # <<>>

\* What due() looks at.
Waiting == pending # {} \/ unacked # <<>> \/ inbox # <<>> \/ settled # <<>> \/ failed_sends # {}
Due(final) == Waiting /\ (final \/ last_solo # "recent")

\* The export slot, an RLock: a signal's drain walks through its own thread's.
SlotFree(f) == \A g \in Frames : batch[g].open => Thread(g) = Thread(f)

\* With items whose loss would be x, or none (Nothing) when a report is due.
BeginDrain(f, x, final) ==
  /\ SlotFree(f)
  /\ x \in Unused \/ (x = Nothing /\ Due(final))
  /\ batch' = [batch EXCEPT ![f] = [item |-> x, reports |-> <<>>, open |-> TRUE]]
  /\ TryFold(f, "attached")

Drain(f, x) ==
  /\ \/ MayCall(f, "drain") /\ BeginDrain(f, x, FALSE) /\ op' = [op EXCEPT ![f] = "drain"]
     \/ MayCall(f, "final") /\ BeginDrain(f, x, TRUE) /\ op' = [op EXCEPT ![f] = "final"]
  /\ UNCHANGED <<inbox, tables, settled, unsent, last_solo, fold, held, how, confirmed,
                 received, recorded, signalled, ghosts>>

\* A ledger-only envelope starts the interval, if it carries a report.
Attached(f) ==
  /\ At(f, "attached")
  /\ last_solo' = IF batch[f].item = Nothing /\ batch[f].reports # <<>> THEN "recent" ELSE last_solo
  /\ Goto(f, "post")
  /\ UNCHANGED <<inbox, tables, settled, unsent, fold, held, ret, op, batch, how, confirmed,
                 received, recorded, signalled, ghosts>>

Elapse ==
  /\ last_solo = "recent" /\ last_solo' = "past"
  /\ UNCHANGED <<inbox, tables, settled, unsent, fold, held, frames, confirmed, received,
                 recorded, signalled, ghosts>>

\* The receiver folds reports by their stamp.
Store(rs) == received \cup {r \in rs : \A s \in received \cup rs :
                              reports[s].stamp = reports[r].stamp => r <= s}

\* What a POST can come to.  "definite": a status, or no connection.  "maybe": no
\* answer.  "declined": no budget left, nothing sent.  "raised": export() raised.
Post(f) ==
  /\ At(f, "post")
  /\ \/ /\ received' = Store(Range(batch[f].reports))
        /\ Goto(f, "returned")
        /\ UNCHANGED <<failures, how>>
     \/ /\ failures < host.failures /\ failures' = failures + 1
        /\ batch[f].item # Nothing \/ batch[f].reports # <<>>
        /\ \/ how' = [how EXCEPT ![f] = "definite"] /\ Goto(f, "count") /\ UNCHANGED received
           \/ /\ how' = [how EXCEPT ![f] = "maybe"] /\ Goto(f, "count")
              /\ received' \in {received, Store(Range(batch[f].reports))}
           \/ how' = [how EXCEPT ![f] = "declined"] /\ Goto(f, "returned") /\ UNCHANGED received
           \/ /\ host.raises
              /\ how' = [how EXCEPT ![f] = "raised"] /\ Goto(f, "count")
              /\ received' \in {received, Store(Range(batch[f].reports))}
  /\ UNCHANGED <<inbox, tables, settled, unsent, last_solo, fold, held, ret, op, batch,
                 confirmed, recorded, signalled, parents, reads, forked, host>>

AlreadyUnsent(f) == \E i \in DOMAIN unsent : unsent[i] = f

\* The items of a failed batch are lost: counted, once, before the settle.
Count(f) ==
  LET next == IF how[f] \in {"definite", "maybe"} THEN "failed" ELSE "unsent"
      x    == batch[f].item
  IN
  /\ At(f, "count")
  /\ IF x = Nothing \/ AlreadyUnsent(f)
       THEN Goto(f, next) /\ UNCHANGED <<inbox, ret, recorded>>
       ELSE Recorded(f, x, FALSE, next) /\ recorded' = recorded \cup {x}
  /\ UNCHANGED <<tables, settled, unsent, last_solo, fold, held, op, batch, how, confirmed,
                 received, signalled, ghosts>>

\* record_failed_send()
FailedSend(f) ==
  /\ At(f, "failed")
  /\ Recorded(f, Send(failures), TRUE, "unsent")
  /\ UNCHANGED <<tables, settled, unsent, last_solo, fold, held, op, batch, how, confirmed,
                 received, recorded, signalled, ghosts>>

\* The reports of the envelope that this ledger has out, each with an outcome.
Settles(f, outcome) ==
  LET mine == SelectSeq(batch[f].reports, LAMBDA r : r \in out)
  IN  [i \in DOMAIN mine |-> <<mine[i], outcome>>]

\* The envelopes of drains that never finished are forgotten, oldest first.
Newest(s) == SubSeq(s, 1 + Len(s) - Least(Len(s), UnsentCap), Len(s))

\* unsent(): the raise path settles for the last time, and remembers nothing.
Unsent(f) ==
  LET last     == how[f] = "raised"
      definite == how[f] \in {"definite", "declined"}
      next     == CASE last -> "over" [] how[f] = "declined" -> "done" [] OTHER -> "returned"
      longer   == Append(unsent, f)
  IN
  /\ At(f, "unsent")
  /\ IF AlreadyUnsent(f)
       THEN /\ unsent' = IF last THEN SelectSeq(unsent, LAMBDA g : g # f) ELSE unsent
            /\ Goto(f, next)
            /\ UNCHANGED <<settled, ret>>
       ELSE /\ unsent' = IF last THEN unsent ELSE Newest(longer)
            /\ settled' = settled \o Settles(f, IF definite THEN "definite" ELSE "maybe")
            /\ TryFold(f, next)
  /\ UNCHANGED <<inbox, tables, last_solo, fold, held, op, batch, how, confirmed, received,
                 recorded, signalled, ghosts>>

\* A drain gives a declined batch back, or counts it if no drain will follow.
\* A subclass may raise after its own export().
Returned(f) ==
  /\ At(f, "returned")
  /\ \/ /\ how[f] = "declined"
        /\ Goto(f, IF op[f] = "final" THEN "count" ELSE "unsent")
        /\ UNCHANGED <<how, failures>>
     \/ /\ host.raises /\ failures < host.failures /\ failures' = failures + 1
        /\ how' = [how EXCEPT ![f] = "raised"]
        /\ Goto(f, "count")
  /\ UNCHANGED <<inbox, tables, settled, unsent, last_solo, fold, held, ret, op, batch,
                 confirmed, received, recorded, signalled, parents, reads, forked, host>>

FirstOutcome(r) == settled[Min({i \in DOMAIN settled : settled[i][1] = r})][2]
HasSettle(r)    == \E i \in DOMAIN settled : settled[i][1] = r

\* done(): what no failure settled first was delivered.
Done(f) ==
  LET mine == Settles(f, "delivered")
  IN
  /\ At(f, "done") \/ (At(f, "returned") /\ how[f] # "declined")
  /\ unsent' = SelectSeq(unsent, LAMBDA g : g # f)
  /\ settled' = settled \o mine
  /\ confirmed' = confirmed \cup {r \in Range(batch[f].reports) : r \in out /\ ~HasSettle(r)}
  /\ IF mine # <<>> THEN TryFold(f, "over") ELSE Goto(f, "over") /\ UNCHANGED ret
  /\ UNCHANGED <<inbox, tables, last_solo, fold, held, op, batch, how, received, recorded,
                 signalled, ghosts>>

\* A BaseException out of the POST ends the drain with its reports still out.
CutShort(f) ==
  /\ At(f, "post") /\ host.cut
  /\ unsent' = [i \in DOMAIN unsent |-> IF unsent[i] = f THEN Stale ELSE unsent[i]]
  /\ Goto(f, "over")
  /\ UNCHANGED <<inbox, tables, settled, last_solo, fold, held, ret, op, batch, how,
                 confirmed, received, recorded, signalled, ghosts>>

-----------------------------------------------------------------------------
(* A shutdown signal, and a fork.                                           *)

\* Fault: the handler runs where the signal landed.
LandsInside(f) ==
  /\ Goto(f, "signal") /\ op' = [op EXCEPT ![f] = "signal"]
  /\ UNCHANGED held

\* hold_signal(): a fold on this thread ends before the handler runs.
Lands(f) ==
  IF fold = Base(f) THEN held' = held + 1 /\ UNCHANGED <<pc, op>>
  ELSE /\ Goto(f, "signal") /\ op' = [op EXCEPT ![f] = "signal"]
       /\ UNCHANGED held

Signal(f) ==
  /\ MayCall(f, "signal") /\ ~signalled
  /\ Lands(f)
  /\ signalled' = TRUE
  /\ UNCHANGED <<inbox, tables, settled, unsent, last_solo, fold, ret, batch, how, confirmed,
                 received, recorded, ghosts>>

\* expedite(), and the last drain; or the slot is another thread's for too long,
\* or there is nothing to send.
Handler(f) ==
  /\ At(f, "signal")
  /\ last_solo' = "never"
  /\ \/ \E x \in Unused \cup {Nothing} : BeginDrain(f, x, TRUE)
     \/ ~SlotFree(f) /\ Goto(f, "over") /\ UNCHANGED <<batch, ret>>
     \/ ~Waiting /\ Goto(f, "over") /\ UNCHANGED <<batch, ret>>
  /\ UNCHANGED <<inbox, tables, settled, unsent, fold, held, op, how, confirmed, received,
                 recorded, signalled, ghosts>>

\* _at_fork_reinit(): the child counts from zero, with a lock nobody holds.
Reinit ==
  /\ inbox' = <<>> /\ pending' = {} /\ failed_sends' = {} /\ version' = 0 /\ totals' = {}
  /\ moving' = NoMove /\ reports' = <<>> /\ out' = {} /\ fresh' = {}
  /\ unacked' = <<>> /\ settled' = <<>> /\ undeliverable' = {} /\ unsent' = <<>>
  /\ last_solo' = "never" /\ fold' = Nobody /\ held' = 0

\* What follows is the child's: of its parent's frames only the forking one, idle.
Fork(f) ==
  /\ MayCall(f, "fork") /\ ~forked
  /\ forked' = TRUE
  /\ Reinit
  /\ pc' = [g \in Frames |-> "idle"]
  /\ ret' = [g \in Frames |-> [next |-> "over", whole |-> TRUE]]
  /\ op' = [g \in Frames |-> Nothing]
  /\ batch' = [g \in Frames |-> NoBatch]
  /\ how' = [g \in Frames |-> Nothing]
  /\ parents' = parents \cup recorded \cup {Send(n) : n \in 1 .. failures}
  /\ recorded' = {} /\ confirmed' = {} /\ received' = {}
  /\ UNCHANGED <<signalled, failures, reads, host>>

FoldStep(f) == \/ Take(f) \/ FoldInbox(f) \/ Settle(f) \/ DropOldest(f) \/ LeaveOut(f)
               \/ HandOut(f) \/ Cut(f) \/ EndFold(f)

Sends(f) == \/ Attached(f) \/ Post(f) \/ Count(f) \/ FailedSend(f) \/ Unsent(f)
            \/ Returned(f) \/ Done(f) \/ Over(f) \/ Handler(f)

Next ==
  \/ Elapse
  \/ \E f \in Frames :
       \/ \E x \in Losses : Record(f, x)
       \/ \E x \in Losses \cup {Nothing} : Drain(f, x)
       \/ Read(f) \/ Signal(f) \/ Fork(f)
       \/ FoldStep(f) \/ Sends(f) \/ CutShort(f)

Spec == Init /\ [][Next]_vars

\* No fold, read or send stops in the middle, the batch worker comes round again
\* and again, and the interval between two ledger-only envelopes ends.
FairSpec ==
  /\ Spec
  /\ WF_vars(Elapse)
  /\ \A f \in Frames : WF_vars(FoldStep(f)) /\ WF_vars(Sends(f)) /\ WF_vars(Drain(f, Nothing))

-----------------------------------------------------------------------------
TypeOK ==
  /\ \A i \in DOMAIN inbox : inbox[i] \in Losses \/ IsSend(inbox[i])
  /\ pending \subseteq Tokens /\ totals \subseteq Tokens
  /\ \A x \in failed_sends : IsSend(x)
  /\ version \in {0, 1}
  /\ moving = NoMove \/ (moving[1] \in DOMAIN reports /\ moving[2] \in {0, 1})
  /\ \A r \in DOMAIN reports : /\ reports[r].stamp \in Nat
                               /\ reports[r].events \subseteq Tokens
                               /\ \A x \in reports[r].sends : IsSend(x)
  /\ fresh \subseteq out /\ out \subseteq DOMAIN reports
  /\ unacked \in Seq(DOMAIN reports)
  /\ settled \in Seq((DOMAIN reports) \X {"definite", "maybe", "delivered"})
  /\ undeliverable \subseteq DOMAIN reports
  /\ unsent \in Seq(Frames \cup {Stale}) /\ Len(unsent) <= UnsentCap
  /\ last_solo \in {"never", "recent", "past"}
  /\ fold \in Frames \cup {Nobody} /\ held \in 0 .. 1
  /\ pc \in [Frames -> Pcs] /\ op \in [Frames -> Ops \cup {Nothing}]
  /\ ret \in [Frames -> [next : Pcs, whole : BOOLEAN]]
  /\ how \in [Frames -> {Nothing, "definite", "maybe", "declined", "raised"}]
  /\ batch \in [Frames -> [item : Losses \cup {Nothing}, reports : Seq(DOMAIN reports),
                           open : BOOLEAN]]
  /\ confirmed \cup received \subseteq DOMAIN reports
  /\ recorded \subseteq Losses
  /\ failures \in 0 .. MaxFailures /\ reads \in 0 .. MaxReads
  /\ forked \in BOOLEAN /\ signalled \in BOOLEAN /\ host \in Scenarios

Times(t, s) == Cardinality({i \in DOMAIN s : s[i] = t})

\* undelivered(), as a reader that cannot take the fold computes it: how often it
\* counts t.
Unsettled == Range(unacked) \cup {r \in out : HasSettle(r) => FirstOutcome(r) # "delivered"}
Apart     == IF moving # NoMove /\ moving[2] = version THEN Unsettled \ {moving[1]} ELSE Unsettled
Undelivered(t) ==
  Cardinality({r \in Apart : t \in reports[r].events})
    + (IF t \in pending THEN 1 ELSE 0) + Times(t, inbox)

\* snapshot(), in the same way.
Snapshot(t) == (IF t \in totals THEN 1 ELSE 0) + Times(t, inbox)

Delivered(t) == \E r \in confirmed : t \in reports[r].events
Dropped(t)   == \E r \in undeliverable : t \in reports[r].events

\* The entry a fold has added to the tables and not yet taken out of the inbox.
BeingAdded(t) == fold # Nobody /\ pc[fold] = "added" /\ t = Head(inbox)

\* undelivered(), read at any moment, a fold parked at any step included, counts
\* every loss no receiver confirmed, and counts it once; only the one the fold is
\* adding may count twice.  What was confirmed it does not count, nor, once the
\* fold that dropped it ended, what was dropped.  snapshot() counts every loss.
ReadAround ==
  \A t \in recorded \cup {Overflow(r) : r \in undeliverable} :
    /\ ~Delivered(t) /\ ~Dropped(t) =>
         Undelivered(t) = IF BeingAdded(t) THEN 2 ELSE 1
    /\ Delivered(t) => Undelivered(t) = 0
    /\ Dropped(t) => Undelivered(t) = 0 \/ (fold # Nobody /\ Undelivered(t) = 1)
    /\ Snapshot(t) = IF BeingAdded(t) THEN 2 ELSE 1

\* A loss, or a failed send, reaches the receiver in at most one report, whatever
\* failed and was sent again.
NeverSentTwice ==
  \A r, s \in received : r # s =>
    /\ reports[r].events \cap reports[s].events = {}
    /\ reports[r].sends \cap reports[s].sends = {}

\* What a drain took for delivered the receiver has folded in.
ConfirmedIsReceived == confirmed \subseteq received

\* A process may die as the fold of a settle ends: by then the items of the batch
\* that failed are counted.
CountedBeforeSettled ==
  \A f \in Frames :
    (batch[f].item # Nothing /\ AlreadyUnsent(f) /\ (how[f] = "declined" => op[f] = "final"))
      => batch[f].item \in recorded

\* A shutdown handler never runs above a fold of its own thread.
SignalSeesWhole == \A f \in Frames : op[f] = "signal" => fold # Base(f)

\* A fork's child counts and ships nothing its parent recorded.
ChildCountsItsOwn ==
  \A t \in parents :
    /\ t \notin pending \cup failed_sends /\ Times(t, inbox) = 0
    /\ \A r \in DOMAIN reports : t \notin reports[r].events \cup reports[r].sends

\* Reports a BaseException left out: nobody settles them any more.
LeftOut == {r \in out : ~HasSettle(r) /\ \A f \in Frames :
              ~batch[f].open \/ r \notin Range(batch[f].reports)}

\* Once sends stop failing, every loss is confirmed, or was dropped with a report
\* past the cap, or is out with a report that an interrupt cut off.
EventuallyConfirmed ==
  \A t \in Losses :
    t \in recorded ~> \/ t \notin recorded \/ Delivered(t) \/ Dropped(t)
                      \/ \E r \in LeftOut : t \in reports[r].events

\* What is reported of a loss is reported once: in one report that reached the receiver,
\* confirmed only when it did, counted before its batch is settled, and never by a
\* process that did not record it.
ReportedOnce ==
  /\ TypeOK
  /\ NeverSentTwice
  /\ ConfirmedIsReceived
  /\ CountedBeforeSettled
  /\ ChildCountsItsOwn

=============================================================================
