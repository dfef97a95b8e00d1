---------------------------- MODULE AdapterScopes ----------------------------
(***************************************************************************)
(* What an AdapterContext (_adapters/_context.py) does around every call   *)
(* of the host an adapter patches, as the wrappers of the LangGraph        *)
(* adapter (_langgraph.py) use it: open a unit under what is ambient, make *)
(* it ambient while the host's call runs, close it behind the call.        *)
(*                                                                         *)
(* wardex's own work may fail at each of these steps, and the host's call  *)
(* runs all the same.  A run is a generator: between two steps it stands   *)
(* suspended with its scope in place, several of one Context are pumped in *)
(* any order, and one is finalized wherever its last reference goes, where *)
(* its scope cannot be taken down.  A node runs in a copy of its run's     *)
(* Context, or in one of its own.  An uninstall or a shutdown's flush may  *)
(* come at any time.                                                       *)
(***************************************************************************)
EXTENDS Integers, Sequences, FiniteSets, SequencesExt

CONSTANTS
  Contexts,    \* a Context is one thread's or one task's
  HostContext,     \* the one that exists from the start
  ScopeHosts   \* hosts: a span of their own there, the distribution with the ToolNode, tasks
               \* or threads it starts; bounds: how many patched calls it makes, and how often
               \* wardex's own work may fail

ASSUME ScopeConstants ==
  /\ HostContext \in Contexts
  /\ ScopeHosts \subseteq [traced : BOOLEAN, tools : BOOLEAN, tasks : BOOLEAN, calls : Nat, faults : Nat]

VARIABLES
  shost,       \* the host
  calls,       \* the patched calls, in the order they were made
  unitIn,      \* the ambient unit of each Context: the call that installed it, or 0
  spanIn,      \* its current scope: the call that forked it, the host's own span, or Blank
  begun,       \* what a Context started with; a Context that runs has an entry
  crossed,     \* Contexts whose runs ended out of turn, or that copied one's scopes
  patched,     \* the sites that are patched
  sweep,       \* how far teardown has come
  faults       \* wardex's own failures: the call and the step

scopeVars == <<shost, calls, unitIn, spanIn, begun, crossed, patched, sweep, faults>>

P == INSTANCE Parentage

Sites    == {"run", "node", "tool"}
Blank    == 0
HostSpan == -1
Numbers  == DOMAIN calls
Scopes   == Numbers \cup {HostSpan, Blank}
Ctx(span) == IF span = Blank THEN P!NoCtx ELSE [P!NoCtx EXCEPT !.span = span]

\* The order of a fold over the calls.
InOrder == [s \in Numbers |-> s]

NoEdge == P!Edge(P!NoCtx, "UNRESOLVED", P!Unsupplied)

-----------------------------------------------------------------------------
(* What is ambient.                                                        *)

LiveCall(s) == s > 0 /\ calls[s].unit = "live"

\* UnitRegistry.current()
CurrentUnit(c) == IF LiveCall(unitIn[c]) THEN unitIn[c] ELSE 0

\* A scope finalized in another Context is read past in the one that installed it.
RetiredScope(c, s) ==
  /\ s > 0 /\ calls[s].active /\ calls[s].ctx = c /\ calls[s].at # c
  /\ calls[s].phase \in {"exited", "done"}

\* latch_ambient()
ReadsScope(c) ==
  LET read[s \in Scopes] == IF RetiredScope(c, s) THEN read[calls[s].prev] ELSE s
  IN  read[spanIn[c]]

\* closed_unit_in_scope(), and _poisoned(): the leftover is still the current scope.
ClosedUnitInScope(c) == unitIn[c] # 0 /\ ~ LiveCall(unitIn[c])
PoisonedScope(c) == ClosedUnitInScope(c) /\ ReadsScope(c) = unitIn[c]

BecomesTraceRoot(c) == PoisonedScope(c) \/ ReadsScope(c) = Blank

\* sole_live(SESSION, owner=...), or 0.
SoleLiveRun ==
  LET runs == {s \in Numbers : LiveCall(s) /\ calls[s].site = "run"}
  IN  IF Cardinality(runs) = 1 THEN CHOOSE s \in runs : TRUE ELSE 0

-----------------------------------------------------------------------------
(* The patched calls.                                                      *)

\* The calls under way in a Context, and the newest of those that cannot stand suspended: a
\* node, a tool, a run that is being entered.
UnderWay(c) == {s \in Numbers : calls[s].phase # "done" /\ calls[s].at = c}
InHostCode(c) == c \in DOMAIN begun /\ \A s \in UnderWay(c) : calls[s].phase = "body"
Top(c) ==
  LET plain == {s \in UnderWay(c) : calls[s].site # "run" \/ calls[s].phase \in {"called", "opened"}}
  IN  IF plain = {} THEN 0 ELSE CHOOSE s \in plain : \A t \in plain : t <= s

\* The host's code in a Context is that of its newest call, or of a run it pumps: any of the
\* runs that stand suspended there, and none that is below it on the stack.
Below(c) == IF Top(c) = 0 THEN {} ELSE calls[Top(c)].over \cup {Top(c)}
Suspended(c) == {s \in UnderWay(c) : calls[s].site = "run"} \ Below(c)
Code(c) == IF InHostCode(c) THEN {Top(c)} \cup Suspended(c) ELSE {}

\* The scope the host's call stack puts such code in: the nearest that was made ambient, or
\* what the Context started in, unless that was a run which came to its end here.
Inside(c, code) ==
  LET ended(s) == s > 0 /\ calls[s].ctx # c /\ calls[s].at = c /\ ~ LiveCall(s)
      left[s \in Scopes] == IF ended(s) THEN left[calls[s].inside] ELSE s
  IN  IF code = 0 THEN left[begun[c].inside]
      ELSE IF calls[code].active THEN code ELSE calls[code].inside

\* Where the scopes of a Context do not nest as its code does: another call's was made ambient
\* since this code's was and still stands, or runs ended out of turn.
Standing(s, c) ==
  /\ calls[s].ctx = c /\ calls[s].active
  /\ calls[s].phase \notin {"exited", "done"} \/ (calls[s].at # c /\ LiveCall(s))
Crossed(c, code) ==
  \/ c \in crossed
  \/ \E s \in Numbers : s > code /\ Standing(s, c)
  \/ code # 0 /\ ~ calls[code].active /\ calls[code].crossed

PatchedCall(site, c, code) ==
  [site |-> site, ctx |-> c, at |-> c, by |-> code, over |-> Below(c) \cup ({code} \ {0}),
   phase |-> "called", inside |-> Blank, crossed |-> FALSE,
   unit |-> "none", under |-> 0, edge |-> NoEdge, marks |-> {}, whole |-> FALSE,
   active |-> FALSE, prev |-> Blank, was |-> 0, outcome |-> "none", shipped |-> <<>>]

\* The host calls a site that is patched: the wrapper takes over, unless it fails to read what
\* the call is of and passes it through.
Wrapper(c, site) ==
  /\ site \in patched /\ Len(calls) < shost.calls
  /\ \E code \in Code(c) : calls' = Append(calls, PatchedCall(site, c, code))
  /\ UNCHANGED <<unitIn, spanIn, begun, crossed, patched, sweep, faults>>

\* Pregel.stream and astream, RemoteGraph's two: generators.
CallRun(c) == Wrapper(c, "run")
\* run_with_retry and arun_with_retry
CallNode(c) == Wrapper(c, "node")
\* ToolNode._run_one and _arun_one
CallTool(c) == Wrapper(c, "tool")

\* A guard trips.
Fault(s, step) ==
  /\ Cardinality(faults) < shost.faults
  /\ faults' = faults \cup {<<s, step>>}

\* _degrade(): what lost something is marked, where a unit is ambient to say so.
Degrade(ss, u) == IF u = 0 THEN ss ELSE [ss EXCEPT ![u].marks = @ \cup {"INSTRUMENTATION_DEGRADED"}]


\* _evidence(): a nested site with nothing above it is no root.
SiteEvidence(c, site) ==
  IF site = "run" \/ CurrentUnit(c) # 0 \/ ~ BecomesTraceRoot(c) THEN "CONTEXTVAR" ELSE "UNRESOLVED"

\* _open(): the unit it hangs under, and its edge.
Holder(c, site) ==
  IF CurrentUnit(c) # 0 THEN CurrentUnit(c)
  ELSE IF SiteEvidence(c, site) = "UNRESOLVED" THEN SoleLiveRun ELSE 0

OpenedEdge(c, site) ==
  LET holder == Holder(c, site)
      conflict(e) == P!WithLimitation(e, "CORRELATION_CONFLICT")
      sole == P!Edge(Ctx(holder), "UNIT_SOLE", P!Unsupplied)
      from(ctx) == P!ResolveParentage(ctx, SiteEvidence(c, site), P!Unsupplied)
  IN  IF CurrentUnit(c) # 0 THEN P!Edge(Ctx(holder), "UNIT_ACTIVE", P!Unsupplied)
      ELSE IF holder # 0 THEN (IF ClosedUnitInScope(c) THEN conflict(sole) ELSE sole)
      ELSE IF PoisonedScope(c) THEN conflict(from(P!NoCtx))
      ELSE from(Ctx(ReadsScope(c)))

Opened(seam) ==
  LET edge == OpenedEdge(seam.ctx, seam.site)
  IN  [seam EXCEPT !.unit = "live", !.under = Holder(seam.ctx, seam.site), !.edge = edge,
                   !.marks = edge.marks, !.whole = TRUE, !.phase = "opened",
                   !.inside = Inside(seam.ctx, seam.by),
                   !.crossed = Crossed(seam.ctx, seam.by)]

\* enter(), up to the activation.
Enter(s) ==
  /\ calls[s].phase = "called"
  /\ calls' = [calls EXCEPT ![s] = Opened(calls[s])]
  /\ UNCHANGED <<unitIn, spanIn, begun, crossed, patched, sweep, faults>>

\* ... whose open fails: the body runs in a degraded scope.
EnterFails(s) ==
  /\ calls[s].phase = "called" /\ Fault(s, "open")
  /\ LET c == calls[s].ctx
         degraded == [calls[s] EXCEPT !.phase = "body", !.inside = Inside(c, calls[s].by),
                                    !.crossed = Crossed(c, calls[s].by)]
     IN  calls' = Degrade([calls EXCEPT ![s] = degraded], CurrentUnit(c))
  /\ UNCHANGED <<unitIn, spanIn, begun, crossed, patched, sweep>>

\* Whether a description that fails had reached the block its intent requires.
Descriptions == BOOLEAN

\* ... whose description fails: _abandon() closes the unit, which ships if it was described
\* far enough to.
Abandon(s, ships) ==
  /\ calls[s].phase = "called" /\ Fault(s, "describe")
  /\ calls' = Degrade([calls EXCEPT ![s] =
                 [Opened(calls[s]) EXCEPT !.phase = "body", !.unit = "dead", !.whole = FALSE,
                                   !.marks = @ \cup {"INSTRUMENTATION_DEGRADED"},
                                   !.shipped = IF ships THEN <<"UNSET">> ELSE <<>>]],
                CurrentUnit(calls[s].ctx))
  /\ UNCHANGED <<unitIn, spanIn, begun, crossed, patched, sweep>>

\* Unit.activate(), on the Context of the call, whether or not the unit lives by now.
ActivateScope(s) ==
  LET c == calls[s].ctx
  IN  /\ calls[s].phase = "opened"
      /\ calls' = [calls EXCEPT ![s] = [calls[s] EXCEPT !.phase = "body", !.active = TRUE,
                                                       !.prev = ReadsScope(c), !.was = unitIn[c]]]
      /\ unitIn' = [unitIn EXCEPT ![c] = s] /\ spanIn' = [spanIn EXCEPT ![c] = s]
      /\ UNCHANGED <<begun, crossed, patched, sweep, faults>>

ActivateFails(s) ==
  /\ calls[s].phase = "opened" /\ Fault(s, "activate")
  /\ calls' = Degrade([calls EXCEPT ![s].phase = "body"], IF LiveCall(s) THEN s ELSE 0)
  /\ UNCHANGED <<unitIn, spanIn, begun, crossed, patched, sweep>>

-----------------------------------------------------------------------------
(* The host's call ends.                                                   *)

\* The status _run() derives: control flow is no failure, and what the adapter was told counts
\* only where nothing was raised.
CallStatus(outcome) ==
  CASE outcome = "returned" -> "OK"
    [] outcome \in {"told", "raised"} -> "ERROR"
    [] outcome = "paused" -> "UNSET"

\* A unit that was entered is exited and closed; a degraded scope has nothing to.
Left(seam, outcome) ==
  [seam EXCEPT !.phase = IF seam.whole THEN "leaving" ELSE "done", !.outcome = outcome]

\* The call returns, raises, or pauses by raising.  A tool may return an error that the
\* framework made of a failure, which _tool_outcome() declares.
Outcomes(site) == {"returned", "raised", "paused"} \cup (IF site = "tool" THEN {"told"} ELSE {})

\* Its code is the one that runs: the newest call's, or a run's that is pumped to its end or
\* closed, before or after the other runs of its Context.
LeaveCall(s, outcome) ==
  /\ calls[s].phase = "body" /\ calls[s].at = calls[s].ctx /\ s \in Code(calls[s].ctx)
  /\ calls' = [calls EXCEPT ![s] = Left(calls[s], outcome)]
  /\ UNCHANGED <<unitIn, spanIn, begun, crossed, patched, sweep, faults>>

\* _is_control_flow() fails to read what the adapter declared: a pause counts as a failure.
LeaveUnread(s) ==
  /\ calls[s].phase = "body" /\ calls[s].at = calls[s].ctx /\ s \in Code(calls[s].ctx)
  /\ calls[s].whole /\ Fault(s, "control_flow")
  /\ calls' = [calls EXCEPT ![s] = Left(calls[s], "raised")]
  /\ UNCHANGED <<unitIn, spanIn, begun, crossed, patched, sweep>>

\* A run its host walked away from is finalized by another Context: GeneratorExit.
FinalizeAway(s, d) ==
  LET c == calls[s].ctx
  IN  /\ calls[s].site = "run" /\ calls[s].phase = "body" /\ s \in Suspended(c)
      /\ d # c /\ InHostCode(d)
      /\ calls' = [calls EXCEPT ![s] = [Left(calls[s], "raised") EXCEPT !.at = d]]
      /\ UNCHANGED <<unitIn, spanIn, begun, crossed, patched, sweep, faults>>

\* Another scope was made ambient over this one in d and stands there, or ended elsewhere.
Covered(s, d) ==
  LET over[t \in Scopes] == t = s \/ (t > 0 /\ over[calls[t].prev])
  IN  over[spanIn[d]] /\ s # (IF d = calls[s].ctx THEN ReadsScope(d) ELSE spanIn[d])

\* activation.__exit__(): by its Tokens where they were set, whatever was made ambient since;
\* elsewhere they are refused, and the scope is settled for the Context that runs this
\* (Carriers).
Exit(s) ==
  LET c == calls[s].ctx
      d == calls[s].at
  IN  /\ calls[s].phase = "leaving"
      /\ calls' = [calls EXCEPT ![s].phase = "exited"]
      /\ \/ ~ calls[s].active /\ UNCHANGED <<unitIn, spanIn>>
         \/ /\ calls[s].active /\ d = c
            /\ unitIn' = [unitIn EXCEPT ![c] = calls[s].was]
            /\ spanIn' = [spanIn EXCEPT ![c] = calls[s].prev]
         \/ /\ calls[s].active /\ d # c
            /\ spanIn' = [spanIn EXCEPT ![d] = IF @ = s THEN calls[s].prev ELSE @]
            /\ UNCHANGED unitIn
      /\ crossed' = IF calls[s].active /\ Covered(s, d) THEN crossed \cup {d} ELSE crossed
      /\ UNCHANGED <<begun, patched, sweep, faults>>

\* A unit and the live units under it.
WithChildren(ss, s) ==
  FoldLeft(LAMBDA acc, t : IF ss[t].unit = "live" /\ ss[t].under \in acc THEN acc \cup {t} ELSE acc,
           {s}, InOrder)

\* UnitRegistry.close() of a unit that lives: what is still open under it is closed with it.
Closed(ss, s, status, mark) ==
  LET ends(x, how, said) ==
        [x EXCEPT !.unit = "dead", !.shipped = Append(@, how), !.marks = @ \cup said]
      ended(t) == IF t = s THEN ends(ss[t], status, mark)
                  ELSE ends(ss[t], "UNSET", {"CHILD_SPAN_UNCLOSED"})
  IN  FoldSet(LAMBDA t, acc : [acc EXCEPT ![t] = ended(t)], ss, WithChildren(ss, s))

\* The end of _run(): a unit that died meanwhile is a counted no-op.
CloseCall(s) ==
  LET done == [calls EXCEPT ![s].phase = "done"]
  IN  /\ calls[s].phase = "exited"
      /\ calls' = IF LiveCall(s) THEN Closed(done, s, CallStatus(calls[s].outcome), {}) ELSE done
      /\ UNCHANGED <<unitIn, spanIn, begun, crossed, patched, sweep, faults>>

\* No salvage: the unit stays, for a sweep.
CloseFails(s) ==
  /\ calls[s].phase = "exited" /\ Fault(s, "close")
  /\ calls' = Degrade([calls EXCEPT ![s].phase = "done"], CurrentUnit(calls[s].at))
  /\ UNCHANGED <<unitIn, spanIn, begun, crossed, patched, sweep>>

-----------------------------------------------------------------------------
(* The host's Contexts, and teardown.                                      *)

\* The framework starts a task or a thread, in a copy of the Context or in an empty one.
BeginContext(c, d, copied) ==
  /\ shost.tasks /\ d \notin DOMAIN begun
  /\ \E code \in Code(c) :
     LET entry == IF copied THEN [inside |-> Inside(c, code), unit |-> unitIn[c], span |-> spanIn[c]]
                  ELSE [inside |-> Blank, unit |-> 0, span |-> Blank]
     IN  /\ crossed' = IF copied /\ (Crossed(c, code) \/ (code # 0 /\ calls[code].crossed))
                           THEN crossed \cup {d} ELSE crossed
         /\ begun' = [e \in DOMAIN begun \cup {d} |-> IF e = d THEN entry ELSE begun[e]]
         /\ unitIn' = [unitIn EXCEPT ![d] = entry.unit]
         /\ spanIn' = [spanIn EXCEPT ![d] = entry.span]
  /\ UNCHANGED <<calls, patched, sweep, faults>>

\* close_all(): every root of this adapter, with what is under it.
SweptOf(mark) ==
  FoldLeft(LAMBDA ss, s : IF ss[s].unit = "live" THEN Closed(ss, s, "UNSET", {mark}) ELSE ss,
           calls, InOrder)
CloseAdapter(mark) ==
  \/ calls' = SweptOf(mark) /\ UNCHANGED faults
  \/ Fault(0, "close_all") /\ calls' = Degrade(calls, CurrentUnit(HostContext))

\* close_units(): a shutdown flushes what is open, the patches stay.
CloseUnits ==
  /\ sweep = "no" /\ sweep' = "flushed"
  /\ CloseAdapter("UNIT_INTERRUPTED")
  /\ UNCHANGED <<unitIn, spanIn, begun, crossed, patched>>

\* uninstall(): restore_all() first, so that only calls already made can open a unit behind the
\* sweep ...
RestorePatches ==
  /\ sweep \in {"no", "flushed"} /\ sweep' = "restored"
  /\ patched' = {}
  /\ UNCHANGED <<calls, unitIn, spanIn, begun, crossed, faults>>

\* ... then the sweep.
Uninstalled ==
  /\ sweep = "restored" /\ sweep' = "swept"
  /\ CloseAdapter("ADAPTER_UNINSTALLED")
  /\ UNCHANGED <<unitIn, spanIn, begun, crossed, patched>>

\* install(): run and node sites together, the tools' if that distribution is there.
Installed == IF shost.tools THEN Sites ELSE {"run", "node"}

ScopeInit ==
  /\ shost \in ScopeHosts
  /\ calls = <<>> /\ unitIn = [c \in Contexts |-> 0]
  /\ LET span == IF shost.traced THEN HostSpan ELSE Blank
     IN  /\ spanIn = [c \in Contexts |-> IF c = HostContext THEN span ELSE Blank]
         /\ begun = [c \in {HostContext} |-> [inside |-> span, unit |-> 0, span |-> span]]
  /\ crossed = {} /\ patched = Installed /\ sweep = "no" /\ faults = {}

ScopeNext ==
  /\ UNCHANGED shost
  /\ \/ \E c \in Contexts : CallRun(c) \/ CallNode(c) \/ CallTool(c)
     \/ \E c, d \in Contexts, copied \in BOOLEAN : BeginContext(c, d, copied)
     \/ \E s \in Numbers :
          \/ Enter(s) \/ EnterFails(s) \/ (\E ships \in Descriptions : Abandon(s, ships))
          \/ ActivateScope(s) \/ ActivateFails(s)
          \/ \E outcome \in Outcomes(calls[s].site) : LeaveCall(s, outcome)
          \/ LeaveUnread(s) \/ (\E d \in Contexts : FinalizeAway(s, d))
          \/ Exit(s) \/ CloseCall(s) \/ CloseFails(s)
     \/ CloseUnits \/ RestorePatches \/ Uninstalled

-----------------------------------------------------------------------------
(* Properties.                                                             *)

Failed(s, step) == <<s, step>> \in faults

\* An edge that ships as certain is the one the host's call stack makes: the nearest scope
\* around the call, or the host's own span; and only a run begins a trace.  A unit whose close
\* failed stays ambient where its scope could not be taken down.  And where the runs of a
\* Context do not nest a call may be taken for another run's than the one that made it, and so
\* may what the host calls between two steps of a run.
EdgesAreHonest ==
  \A s \in Numbers :
    LET e == calls[s].edge
    IN  calls[s].unit # "none" /\ e.conf = 10 /\ e.marks = {} =>
          \/ /\ e.parent.span = calls[s].inside
             /\ e.parent.span = Blank => calls[s].site = "run"
          \/ e.parent.span > 0 /\ Failed(e.parent.span, "close")
          \/ calls[s].crossed

\* A span ships once, whoever closes it first.  One that reads healthy is: its call returned, it
\* was described in full and was ambient for what ran in it.  A failure of the host's is on its
\* span, or the span says what came between.
NoHealthyLie ==
  \A s \in Numbers :
    LET x == calls[s]
    IN  /\ Len(x.shipped) <= 1
        /\ x.shipped = <<"OK">> => x.outcome = "returned" /\ (x.marks = {} => x.whole /\ x.active)
        /\ x.phase = "done" /\ x.outcome \in {"told", "raised"} /\ x.marks = {} =>
             x.shipped \in {<<>>, <<"ERROR">>}

\* After an uninstall and the calls it cut across nothing is left open, a unit apart that
\* wardex could not close: no call opened one behind the sweep that it did not close itself.
NothingLeftOpen ==
  sweep = "swept" /\ ~ Failed(0, "close_all") /\ (\A s \in Numbers : calls[s].phase = "done") =>
    \A s \in Numbers : LiveCall(s) => Failed(s, "close")

\* A Context no call runs in reads what it started with, whoever finalized its runs; the unit
\* beside it too, or a dead one, which no later call takes for its parent.  Runs that ended out
\* of turn may leave the scope of one of them, but no unit that lives.
CarrierIsGivenBack ==
  \A c \in DOMAIN begun :
    (\A s \in Numbers : calls[s].ctx = c => calls[s].phase = "done") =>
      \/ /\ \/ ReadsScope(c) = begun[c].span
            \/ begun[c].span > 0 /\ calls[begun[c].span].at = c
         /\ \/ unitIn[c] = begun[c].unit
            \/ /\ unitIn[c] > 0 /\ calls[unitIn[c]].at # c
               /\ LiveCall(unitIn[c]) => Failed(unitIn[c], "close")
      \/ c \in crossed /\ (LiveCall(unitIn[c]) => Failed(unitIn[c], "close"))


=============================================================================
