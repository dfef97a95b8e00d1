------------------------------- MODULE Sessions -------------------------------
(***************************************************************************)
(* Which session an event of the Claude Agent SDK belongs to, and what its *)
(* root span says: SessionAssembler's _by_key and _by_session_id,          *)
(* _live_session, _resume, _make_room, _session_for_hook, _stamp_root      *)
(* (_adapters/_assembler.py) and _session_outcome.py.                      *)
(*                                                                         *)
(* Two tables hold the same sessions under two bounds: the assembler's,    *)
(* and the unit registry's, which may close a root under a session that is *)
(* still running and tells nobody.                                         *)
(***************************************************************************)
EXTENDS Naturals, Sequences, FiniteSets, SequencesExt

CONSTANTS
    Transports,    \* the live CLI subprocesses; each has a session id of its own
    MaxSessions,   \* max_sessions
    MaxRoots       \* bound: session units opened in a behaviour

ASSUME SessionConstants == MaxSessions \in Nat \ {0} /\ MaxRoots \in Nat

VARIABLES
    byKey,         \* _by_key, oldest first
    bySid,         \* _by_session_id: the unit of the session filed under each transport's id, 0 for none
    liveUnits,     \* the session units the registry still holds open
    roots,         \* the root span of each session unit: as opened, then as shipped
    hookAt,        \* where the last hook was filed: its transport, its session, and the inference mark
    \* The CLIs and the host.
    cliOpen,       \* the transports that have not closed
    inited,        \* the transports whose system/init has been seen
    running,       \* the transports with a main-thread turn in progress
    lastResult,    \* the last result each CLI reported
    pinnedTo,      \* the unit pinned on each transport's reader, 0 for none
    childDone      \* a fork has reset the tables, or the teardown has run

sessionVars == <<byKey, bySid, liveUnits, roots, hookAt, cliOpen, inited, running,
                 lastResult, pinnedTo, childDone>>

Units0 == 1 .. MaxRoots

\* A session record: its transport, its unit, the conversation it reports under (the number of
\* the unit that issued it), its id, and the turn's outcome as far as it was seen.
NewSession(k, u) == [key |-> k, unit |-> u, conv |-> u, sid |-> FALSE, awaiting |-> FALSE, result |-> "none"]

\* A root span: which transport it is for, its status, and its limitations; `was` is history,
\* how the CLI stood when the root was stamped.
NewRoot(k, u) == [of |-> k, conv |-> u, resumed |-> FALSE, evicted |-> FALSE, status |-> "open",
                  aborted |-> FALSE, stamped |-> FALSE, was |-> "none"]

Desk == [byKey |-> byKey, bySid |-> bySid, live |-> liveUnits, roots |-> roots]

DeskBecomes(d) ==
    /\ byKey' = d.byKey /\ bySid' = d.bySid /\ liveUnits' = d.live
    /\ roots' = d.roots

Filed(d, k) == {d.byKey[i] : i \in {j \in DOMAIN d.byKey : d.byKey[j].key = k}}
Unfile(d, s) ==
    [d EXCEPT !.byKey = SelectSeq(@, LAMBDA e : e.key # s.key),
              !.bySid[s.key] = IF s.sid THEN 0 ELSE @]
UpdateSession(d, s) == [d EXCEPT !.byKey = [i \in DOMAIN @ |-> IF @[i].key = s.key THEN s ELSE @[i]]]

(***************************************************************************)
(* Outcome: _session_outcome.py and _stamp_root                            *)
(***************************************************************************)
AwaitingUntilResult(awaiting, ev) == ev \notin {"ok", "error"} /\ awaiting

\* awaiting_after.
AwaitingAfter(awaiting, ev) ==
    IF ev \in {"ok", "error"} THEN FALSE ELSE ev = "turn" \/ awaiting

\* root_status: an outcome is the last turn's result, and only if that turn has reported one.
RootStatus(s, failed) ==
    IF failed THEN [status |-> "error", aborted |-> TRUE]
    ELSE IF s.result # "none" /\ ~s.awaiting THEN [status |-> s.result, aborted |-> FALSE]
    ELSE [status |-> "unset", aborted |-> TRUE]

\* _finalize: stamp the root and close its unit, which ships nothing when it is already closed.
FinalizeSession(d, s, failed) ==
    LET said == RootStatus(s, failed)
    IN IF s.unit \in d.live
       THEN [d EXCEPT !.live = @ \ {s.unit},
                      !.roots[s.unit].status = said.status,
                      !.roots[s.unit].aborted = said.aborted,
                      !.roots[s.unit].conv = s.conv,
                      !.roots[s.unit].stamped = TRUE,
                      !.roots[s.unit].was = IF s.key \in running THEN "running" ELSE lastResult[s.key]]
       ELSE d

(***************************************************************************)
(* The tables                                                              *)
(***************************************************************************)
\* _live_session: the session filed under k; one whose unit has died is retired, not finalized.
RetireDead(d, k) ==
    IF \E s \in Filed(d, k) : s.unit \notin d.live
    THEN Unfile(d, CHOOSE s \in Filed(d, k) : TRUE)
    ELSE d

\* _make_room: the oldest session is finalized and its root says why.
MakeRoomFor(d) ==
    IF Len(d.byKey) < MaxSessions THEN d
    ELSE LET old == d.byKey[1]
             noted == IF old.unit \in d.live THEN [d EXCEPT !.roots[old.unit].evicted = TRUE] ELSE d
         IN FinalizeSession(Unfile(noted, old), old, FALSE)

\* _resume: identity carries onto the replacement root, and the root says it resumes.
Resume(s, root, previous) ==
    [sess |-> [s EXCEPT !.conv = previous.conv, !.sid = previous.sid],
     root |-> [root EXCEPT !.conv = previous.conv, !.resumed = TRUE]]

NextUnit == Cardinality({u \in Units0 : roots[u].status # "none"}) + 1

\* _ensure_session.
EnsureSession(d, k) ==
    IF \E s \in Filed(d, k) : s.unit \in d.live THEN d
    ELSE LET u == NextUnit
             fresh == [sess |-> NewSession(k, u), root |-> NewRoot(k, u)]
             made == IF Filed(d, k) = {} THEN fresh
                     ELSE Resume(fresh.sess, fresh.root, CHOOSE s \in Filed(d, k) : TRUE)
             room == MakeRoomFor(RetireDead(d, k))
         IN [room EXCEPT !.byKey = Append(@, made.sess),
                         !.bySid[k] = IF made.sess.sid THEN u ELSE @,
                         !.live = @ \cup {u},
                         !.roots[u] = made.root]

SessionOf(d, k) == CHOOSE s \in Filed(d, k) : TRUE

\* Room for one more session unit in the bounded history.
MayOpen(k) == NextUnit \in Units0 \/ \E s \in Filed(Desk, k) : s.unit \in liveUnits

(***************************************************************************)
(* The stream                                                              *)
(***************************************************************************)
Active(k) == ~childDone /\ k \in cliOpen /\ MayOpen(k)

\* on_outbound: the host writes a prompt.
Outbound(k) ==
    LET d == EnsureSession(Desk, k)
    IN /\ Active(k)
       /\ DeskBecomes(UpdateSession(d, [SessionOf(d, k) EXCEPT !.awaiting = TRUE]))
       /\ running' = running \cup {k}
       /\ UNCHANGED <<hookAt, cliOpen, inited, lastResult, pinnedTo, childDone>>

\* on_inbound: system/init, a main-thread assistant line or delta (also of a turn the CLI
\* started itself), a sub-agent's line, a result.  The tee pins the reader to the session.
Inbound(k, ev) ==
    LET d == EnsureSession(Desk, k)
        s == SessionOf(d, k)
        seen == [s EXCEPT !.awaiting = AwaitingAfter(@, ev),
                          !.result = IF ev \in {"ok", "error"} THEN ev ELSE @,
                          !.sid = @ \/ ev = "init"]
        filed == UpdateSession(d, seen)
    IN /\ Active(k)
       /\ ev = "init" => k \notin inited
       /\ ev \in {"ok", "error"} => k \in running
       /\ DeskBecomes([filed EXCEPT !.bySid[k] = IF ev = "init" THEN s.unit ELSE @])
       /\ inited' = IF ev = "init" THEN inited \cup {k} ELSE inited
       /\ running' = IF ev = "turn" THEN running \cup {k}
                     ELSE IF ev \in {"ok", "error"} THEN running \ {k} ELSE running
       /\ lastResult' = IF ev \in {"ok", "error"} THEN [lastResult EXCEPT ![k] = ev] ELSE lastResult
       /\ pinnedTo' = [pinnedTo EXCEPT ![k] = s.unit]
       /\ UNCHANGED <<hookAt, cliOpen, childDone>>

\* on_close: through the liveness check, because nothing else may have come in between.
TransportClose(k, failed) ==
    LET d == RetireDead(Desk, k)
    IN /\ ~childDone /\ k \in cliOpen
       /\ DeskBecomes(IF Filed(d, k) = {} THEN d
                      ELSE FinalizeSession(Unfile(d, SessionOf(d, k)), SessionOf(d, k), failed))
       /\ cliOpen' = cliOpen \ {k}
       /\ UNCHANGED <<hookAt, inited, running, lastResult, pinnedTo, childDone>>

\* UnitRegistry._make_room: the registry closes a root nobody told the assembler about.
RegistryEvicts(u) ==
    /\ ~childDone
    /\ u \in liveUnits
    /\ DeskBecomes([Desk EXCEPT !.live = @ \ {u}, !.roots[u].status = "unset", !.roots[u].evicted = TRUE])
    /\ UNCHANGED <<hookAt, cliOpen, inited, running, lastResult, pinnedTo, childDone>>

(***************************************************************************)
(* Hooks: a callback of transport k's CLI, on its pinned reader or off it, *)
(* perhaps after the transport has closed.                                 *)
(***************************************************************************)
\* _session_in_scope: the session of the unit current on the task.
InScope(d, k) == {s \in {d.byKey[i] : i \in DOMAIN d.byKey} : s.unit = pinnedTo[k] /\ s.unit \in d.live}

\* The id tier of _session_for_hook: the very session the id was filed for, still live.
ById(d, k) == {s \in Filed(d, k) : bySid[k] # 0 /\ s.unit = bySid[k] /\ s.unit \in d.live}

\* The last tier: exactly one session, as a marked inference.
Sole(d) == IF Len(d.byKey) = 1 /\ d.byKey[1].unit \in d.live
           THEN [to |-> d.byKey[1].key, inferred |-> TRUE] ELSE [to |-> "none", inferred |-> FALSE]

\* _session_for_hook: context first, the id second, the sole session third.
Hook(k, scoped) ==
    LET d1 == IF bySid[k] # 0 THEN RetireDead(Desk, k) ELSE Desk
        inScope == IF scoped THEN InScope(Desk, k) ELSE {}
        found == inScope \cup ById(d1, k)
        only == IF Len(d1.byKey) = 1 THEN RetireDead(d1, d1.byKey[1].key) ELSE d1
    IN /\ ~childDone
       /\ k \in inited
       /\ hookAt' = IF found # {}
                    THEN [of |-> k, to |-> (CHOOSE s \in found : inScope # {} => s \in inScope).key,
                          inferred |-> FALSE]
                    ELSE [of |-> k] @@ Sole(only)
       /\ DeskBecomes(IF found # {} THEN d1 ELSE only)
       /\ UNCHANGED <<cliOpen, inited, running, lastResult, pinnedTo, childDone>>

\* close_all_sessions: every session finalized, then the registry's own sweep.
CloseAllSessions ==
    LET shut(d, s) == FinalizeSession(d, s, FALSE)
        d == FoldLeft(shut, [Desk EXCEPT !.byKey = <<>>, !.bySid = [k \in Transports |-> 0]], byKey)
    IN /\ ~childDone
       /\ DeskBecomes(d)
       /\ childDone' = TRUE
       /\ UNCHANGED <<hookAt, cliOpen, inited, running, lastResult, pinnedTo>>

\* _at_fork_reinit: the child holds no session of its parent's.
SessionsFork ==
    /\ ~childDone
    /\ byKey' = <<>> /\ bySid' = [k \in Transports |-> 0] /\ liveUnits' = {}
    /\ childDone' = TRUE
    /\ UNCHANGED <<roots, hookAt, cliOpen, inited, running, lastResult, pinnedTo>>

SessionInit ==
    /\ byKey = <<>> /\ bySid = [k \in Transports |-> 0] /\ liveUnits = {}
    /\ roots = [u \in Units0 |-> [status |-> "none"]]
    /\ hookAt = [to |-> "none", inferred |-> FALSE]
    /\ cliOpen = Transports /\ inited = {} /\ running = {}
    /\ lastResult = [k \in Transports |-> "none"]
    /\ pinnedTo = [k \in Transports |-> 0]
    /\ childDone = FALSE

SessionNext ==
    \/ \E k \in Transports :
        \/ Outbound(k)
        \/ \E ev \in {"init", "turn", "subagent", "ok", "error"} : Inbound(k, ev)
        \/ \E failed \in BOOLEAN : TransportClose(k, failed)
        \/ \E scoped \in BOOLEAN : Hook(k, scoped)
    \/ \E u \in Units0 : RegistryEvicts(u)
    \/ CloseAllSessions
    \/ SessionsFork

(***************************************************************************)
(* Properties                                                              *)
(***************************************************************************)
\* A hook filed without the inference mark is filed under its own CLI's session, whichever tier
\* answered and whatever was evicted, closed or re-filed meanwhile (_session_for_hook).
HookLandsRight == hookAt.to # "none" /\ ~hookAt.inferred => hookAt.to = hookAt.of

\* A finalized root claims an outcome only when the CLI's last turn reported exactly that one,
\* and calls the run aborted whenever a turn is still running (root_status, awaiting_after).
RootSaysOutcome ==
    \A u \in Units0 :
        roots[u].status \notin {"none", "open"} /\ roots[u].stamped /\ ~roots[u].aborted =>
            roots[u].status = roots[u].was

Later(u, v) == u < v /\ roots[u].status # "none" /\ roots[v].status # "none" /\ roots[u].of = roots[v].of
FollowedBy(u, v) == Later(u, v) /\ \A w \in u + 1 .. v - 1 : roots[w].of # roots[u].of

\* A run cut in two says so: every root but a transport's last one is marked evicted, and one
\* that says it resumes carries on the conversation of the root before it (_resume, _make_room).
CutRunIsSaid ==
    \A u \in Units0, v \in Units0 :
        /\ Later(u, v) => roots[u].evicted
        /\ FollowedBy(u, v) /\ roots[v].resumed => roots[v].conv = roots[u].conv

\* Two tables and the registry may each lose a session the others still have: a hook is
\* filed where it belongs or says it was inferred, a run that was cut in two says so, and a
\* root claims only the outcome the CLI reported.
SessionsAreTrue == HookLandsRight /\ CutRunIsSaid /\ RootSaysOutcome

=============================================================================
