---------------------------- MODULE Propagation ----------------------------
(***************************************************************************)
(* The header injection of context/_inject.py: install_propagation patches *)
(* the send methods of three HTTP client libraries,  uninstall_propagation *)
(* takes the patches back out, and both run under one reentrant lock.  The *)
(* lock keeps other threads away; it does not keep away a signal handler   *)
(* (or a finalizer) that calls close() on the thread that already holds    *)
(* it, which is what the generation counter is for.  A fork copies the     *)
(* records, replaces the lock and keeps only the forking thread.           *)
(*                                                                         *)
(* An attribute's value is the number of wardex wrappers around the host's *)
(* own function: a wrapper calls what was captured when it was built.      *)
(***************************************************************************)
EXTENDS Integers, Sequences, FiniteSets, SequencesExt

CONSTANTS
    Threads,      \* threads of the process that may call init() or close()
    Libs,         \* the patched libraries in their order
    SlotsOf,      \* per library, the attributes it patches, in order
    SignalPoints, \* the program points of the lock's holder where a signal's close() may land
    MaxUninstalls \* bound on the generation counter

VARIABLES
    depth,        \* per attribute, how many wrappers stand around the host's function
    patches,      \* _patches: whether a live set exists and what it recorded, oldest first
    installed,    \* _installed
    owner,        \* the thread that holds _install_lock
    generation,   \* _install_generation
    at,           \* per thread, where it stands in install or uninstall
    torn,         \* whether the latest decision here was a teardown, undisturbed by a fork
    forked        \* whether this process is a fork child

propVars == <<depth, patches, installed, owner, generation, at, torn, forked>>

Attrs == UNION {Range(SlotsOf[l]) : l \in Range(Libs)}
Nobody == "nobody"
NoSet == [on |-> FALSE, recs |-> <<>>]
Idle == [pc |-> "idle", lib |-> 0, slot |-> 0, seen |-> 0, live |-> TRUE,
         orig |-> [s \in Attrs |-> 0]]
Gone == [Idle EXCEPT !.pc = "gone"]

Lib(t) == Libs[at[t].lib]
AlreadyInstalled(t) == Lib(t) \in installed
Step(t, pc) == at' = [at EXCEPT ![t].pc = pc]
Back(t) == at' = [at EXCEPT ![t] = Idle]
LockFree == owner = Nobody

PropInit ==
    /\ depth = [s \in Attrs |-> 0]
    /\ patches = NoSet
    /\ installed = {}
    /\ owner = Nobody
    /\ generation = 0
    /\ at = [t \in Threads |-> Idle]
    /\ torn = TRUE
    /\ forked = FALSE

(***************************************************************************)
(* PatchSet.restore_all: newest first, and an attribute that no longer     *)
(* holds what the record put there is left alone.                          *)
(***************************************************************************)
Unpatch(d, rec) == IF d[rec.slot] = rec.now THEN [d EXCEPT ![rec.slot] = rec.was] ELSE d
RestoreRecords(d, recs) == FoldLeft(Unpatch, d, Reverse(recs))

(***************************************************************************)
(* install_propagation                                                     *)
(***************************************************************************)
BeginInstall(t) ==
    /\ at[t].pc = "idle"
    /\ LockFree
    /\ owner' = t
    /\ torn' = FALSE
    /\ at' = [at EXCEPT ![t] = [Idle EXCEPT !.pc = "lib", !.lib = 1, !.seen = generation]]
    /\ UNCHANGED <<depth, patches, installed, generation, forked>>

\* the early return of _install_httpx, _install_requests, _install_aiohttp
SkipLib(t) ==
    /\ at[t].pc = "lib" /\ AlreadyInstalled(t)
    /\ Step(t, "recheck")
    /\ UNCHANGED <<depth, patches, installed, owner, generation, torn, forked>>

\* the original functions are read, then the set is fetched or built
CaptureOrig(t) ==
    /\ at[t].pc = "lib" /\ ~AlreadyInstalled(t)
    /\ at' = [at EXCEPT ![t].pc = "set", ![t].orig = depth]
    /\ UNCHANGED <<depth, patches, installed, owner, generation, torn, forked>>

TakeSet(t) ==
    /\ at[t].pc = "set"
    /\ patches' = [patches EXCEPT !.on = TRUE]
    /\ at' = [at EXCEPT ![t].pc = "swap", ![t].slot = 1, ![t].live = TRUE]
    /\ UNCHANGED <<depth, installed, owner, generation, torn, forked>>

\* one PatchSet.patch; what an orphaned set records, nobody will ever read
Swap(t) ==
    /\ at[t].pc = "swap"
    /\ LET s == SlotsOf[Lib(t)][at[t].slot]
           now == at[t].orig[s] + 1
       IN  /\ depth' = [depth EXCEPT ![s] = now]
           /\ patches' = IF at[t].live
                         THEN [patches EXCEPT !.recs =
                                 Append(@, [slot |-> s, was |-> depth[s], now |-> now])]
                         ELSE patches
    /\ at' = IF at[t].slot < Len(SlotsOf[Lib(t)])
             THEN [at EXCEPT ![t].slot = @ + 1]
             ELSE [at EXCEPT ![t].pc = "mark"]
    /\ UNCHANGED <<installed, owner, generation, torn, forked>>

MarkInstalled(t) ==
    /\ at[t].pc = "mark"
    /\ installed' = installed \cup {Lib(t)}
    /\ Step(t, "recheck")
    /\ UNCHANGED <<depth, patches, owner, generation, torn, forked>>

Unmoved(t) == generation = at[t].seen

\* the generation did not move: on to the next library, or out of the lock
NextLib(t) ==
    /\ at[t].pc = "recheck" /\ Unmoved(t)
    /\ IF at[t].lib < Len(Libs)
       THEN /\ at' = [at EXCEPT ![t].pc = "lib", ![t].lib = @ + 1]
            /\ owner' = owner
       ELSE Back(t) /\ owner' = Nobody
    /\ UNCHANGED <<depth, patches, installed, generation, torn, forked>>

\* an uninstall ran underneath: unwind what it could not see and stop
AbandonInstall(t) ==
    /\ at[t].pc = "recheck" /\ ~Unmoved(t)
    /\ Step(t, "restore")
    /\ UNCHANGED <<depth, patches, installed, owner, generation, torn, forked>>

(***************************************************************************)
(* uninstall_propagation, and the _restore_locked it shares with install   *)
(***************************************************************************)
BeginUninstall(t) ==
    /\ at[t].pc = "idle"
    /\ LockFree
    /\ generation < MaxUninstalls
    /\ owner' = t
    /\ generation' = generation + 1
    /\ torn' = TRUE
    /\ at' = [at EXCEPT ![t] = [Idle EXCEPT !.pc = "restore"]]
    /\ UNCHANGED <<depth, patches, installed, forked>>

RestoreSet(t) ==
    /\ at[t].pc = "restore"
    /\ depth' = RestoreRecords(depth, patches.recs)
    /\ patches' = [patches EXCEPT !.recs = <<>>]
    /\ Step(t, "drop")
    /\ UNCHANGED <<installed, owner, generation, torn, forked>>

DropSet(t) ==
    /\ at[t].pc = "drop"
    /\ patches' = NoSet
    /\ Step(t, "clear")
    /\ UNCHANGED <<depth, installed, owner, generation, torn, forked>>

ClearInstalled(t) ==
    /\ at[t].pc = "clear"
    /\ installed' = {}
    /\ owner' = Nobody
    /\ Back(t)
    /\ UNCHANGED <<depth, patches, generation, torn, forked>>

(***************************************************************************)
(* A signal handler's close() on the thread that holds the lock: the whole *)
(* of uninstall_propagation, reentrant, before the interrupted step goes   *)
(* on.  A set the install holds in a local is an orphan from here on.      *)
(***************************************************************************)
SignalUninstall(t) ==
    /\ owner = t
    /\ at[t].pc \in SignalPoints
    /\ generation < MaxUninstalls
    /\ generation' = generation + 1
    /\ depth' = RestoreRecords(depth, patches.recs)
    /\ patches' = NoSet
    /\ installed' = {}
    /\ torn' = TRUE
    /\ at' = [at EXCEPT ![t].live = FALSE]
    /\ UNCHANGED <<owner, forked>>

(***************************************************************************)
(* os.fork() on a thread outside the module, followed into the child: the  *)
(* other threads are gone wherever they stood, _at_fork_reinit replaces    *)
(* the lock, and the records are kept.                                     *)
(***************************************************************************)
LockAfterForkKept == owner
LockAfterFork == Nobody

ForkChild(t) ==
    /\ at[t].pc = "idle"
    /\ ~forked
    /\ forked' = TRUE
    /\ at' = [u \in Threads |-> IF u = t THEN Idle ELSE Gone]
    /\ owner' = LockAfterFork
    /\ torn' = (torn /\ LockFree)
    /\ UNCHANGED <<depth, patches, installed, generation>>

PropNext ==
    \E t \in Threads :
        \/ BeginInstall(t)
        \/ SkipLib(t)
        \/ CaptureOrig(t)
        \/ TakeSet(t)
        \/ Swap(t)
        \/ MarkInstalled(t)
        \/ NextLib(t)
        \/ AbandonInstall(t)
        \/ BeginUninstall(t)
        \/ RestoreSet(t)
        \/ DropSet(t)
        \/ ClearInstalled(t)
        \/ SignalUninstall(t)
        \/ ForkChild(t)

(***************************************************************************)
(* One outbound request.  The host's headers stand in two layers, the      *)
(* request's own and the session's defaults; httpx and requests have       *)
(* merged them by the time the wrapper runs, aiohttp merges them after it, *)
(* with the request's own winning.  A header is a <<name, writer>> pair.   *)
(***************************************************************************)
Named(layer, n) == \E h \in layer : h[1] = n
MergesLate(lib) == lib = "aiohttp"

Over(own, base) == own \cup {h \in base : ~Named(own, h[1])}

\* _headers_to_add: our traceparent gates everything, a host's tracestate only ours
HeadersToAdd(ours, all) ==
    IF Named(all, "traceparent") THEN {}
    ELSE {h \in ours : h[1] = "tracestate" => ~Named(all, "tracestate")}

\* the layers the library's own has_header predicate looks at
Visible(lib, own, defaults) == own \cup defaults

RECURSIVE Wrapped(_, _, _, _, _)
Wrapped(n, lib, ours, own, defaults) ==
    IF n = 0 THEN own
    ELSE Wrapped(n - 1, lib, ours, own \cup HeadersToAdd(ours, Visible(lib, own, defaults)), defaults)

Wire(lib, s, ours, own, defaults) ==
    IF MergesLate(lib)
    THEN Over(Wrapped(depth[s], lib, ours, own, defaults), defaults)
    ELSE Wrapped(depth[s], lib, ours, Over(own, defaults), {})

HostLayers == SUBSET {<<"traceparent", "host">>, <<"tracestate", "host">>}
OurHeaders == {{}, {<<"traceparent", "wardex">>},
               {<<"traceparent", "wardex">>, <<"tracestate", "wardex">>}}

(***************************************************************************)
(* Properties                                                              *)
(***************************************************************************)
\* Whatever a signal's close() interrupted and whoever was in the middle of
\* an install at a fork, once the latest decision was a teardown and nobody
\* is inside the module, every library is the host's own again
\* (install_propagation's unwind, _restore_locked, _at_fork_reinit).
TornIsClean == torn /\ owner = Nobody => \A s \in Attrs : depth[s] = 0

\* Two threads that install at once never wrap an attribute twice: a second
\* layer is one the teardown would leave behind (_install_lock).
OneLayer == ~forked => \A s \in Attrs : depth[s] <= 1

\* The idempotence record and the patches agree whenever the lock is free:
\* a library named in _installed but not patched would be skipped by every
\* later install (_installed, uninstall_propagation).
InstalledIsPatched ==
    ~forked /\ owner = Nobody =>
        \A l \in installed : \A i \in DOMAIN SlotsOf[l] : depth[SlotsOf[l][i]] > 0

\* A fork child's teardown never waits for a thread that did not cross the
\* fork (_at_fork_reinit replaces the lock, never acquires it).
HolderIsAlive == owner # Nobody => at[owner].pc \notin {"gone", "idle"}

\* Whatever is patched, a request leaves with every header the host put on
\* it, in either layer and as written, no header twice, and never wardex's
\* tracestate beside a host's traceparent (_headers_to_add, the wrappers).
HostHeadersKept ==
    \A l \in Range(Libs) : \A i \in DOMAIN SlotsOf[l] : depth[SlotsOf[l][i]] > 0 =>
        \A ours \in OurHeaders, own \in HostLayers, defaults \in HostLayers :
            LET wire == Wire(l, SlotsOf[l][i], ours, own, defaults)
            IN  /\ own \cup defaults \subseteq wire
                /\ \A g, h \in wire : g[1] = h[1] => g = h
                /\ <<"traceparent", "host">> \in wire => <<"tracestate", "wardex">> \notin wire

\* Whatever signal or fork falls into an install or its undo, what is patched, what is
\* recorded and what is marked installed agree, and the host's headers are its own.
InjectionIsWhole ==
  /\ TornIsClean
  /\ OneLayer
  /\ InstalledIsPatched
  /\ HolderIsAlive
  /\ HostHeadersKept

=============================================================================
