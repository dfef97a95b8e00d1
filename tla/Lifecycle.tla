----------------------------- MODULE Lifecycle -----------------------------
(***************************************************************************)
(* Runtime.install and Runtime.teardown with the two registries they       *)
(* drive: what init() puts into the host, part by part, and what close(),  *)
(* a re-init and atexit take back out.  Any part may raise, decline or be  *)
(* interrupted half-way through its install or its uninstall; an Exception *)
(* is swallowed by guard(), a BaseException (KeyboardInterrupt) leaves     *)
(* through init() or close() with everything else standing where it was.   *)
(*                                                                         *)
(* The runtime lock lets one call run at a time.  It is reentrant, so a    *)
(* signal handler that calls close() runs whole on the thread that is      *)
(* inside one.                                                             *)
(***************************************************************************)
EXTENDS Integers, Sequences, FiniteSets, SequencesExt

CONSTANTS
    Seams,         \* _INTERCEPTORS, in install order
    Adapters,      \* _ADAPTERS, in install order
    MaxClients,    \* bound on the init() calls
    ReentryPoints  \* the steps at which a signal's close() may land

VARIABLES
    client,        \* Runtime._client: the newest client, 0 before the first init()
    closed,        \* the clients whose close() has run
    seams,         \* InterceptorRegistry._installed, in insertion order
    adapters,      \* AdapterRegistry._installed, in insertion order
    statuses,      \* AdapterRegistry._statuses
    bound,         \* per part, the client its patches in the host speak to, 0 without patches
    attr,          \* one host attribute both adapters patch: whose wrappers stand on it
    prop,          \* whether the propagation patches are in
    job,           \* the call that holds the runtime lock
    late,          \* the parts whose closing spans met a closed client
    outcome        \* how the last call ended: "torn", "ready", "cut" or "none"

lifeVars == <<client, closed, seams, adapters, statuses, bound, attr, prop, job, late, outcome>>

Parts == Range(Seams) \cup Range(Adapters)
NoJob == [at |-> "idle", op |-> "none", want |-> {}, todo |-> <<>>, explicit |-> FALSE,
          inject |-> FALSE, deferred |-> FALSE]

LifeInit ==
    /\ client = 0
    /\ closed = {}
    /\ seams = <<>>
    /\ adapters = <<>>
    /\ statuses = [a \in Range(Adapters) |-> "none"]
    /\ bound = [p \in Parts |-> 0]
    /\ attr = <<>>
    /\ prop = FALSE
    /\ job = NoJob
    /\ late = {}
    /\ outcome = "none"

At(pc) == job.at = pc
Go(pc) == job' = [job EXCEPT !.at = pc]
Queue(pc, q) == job' = [job EXCEPT !.at = pc, !.todo = q]
Wanted(order) == SelectSeq(order, LAMBDA p : p \in job.want)
Leave(how) == job' = NoJob /\ outcome' = how

\* PatchSet: a wrapper comes off only while it is the one on top
OffAttr(stack, p) == IF stack # <<>> /\ Last(stack) = p THEN Front(stack) ELSE stack

\* closing spans reach the client the part was bound to, unless it is closed
Flushed(p) == late' = IF bound[p] \in closed THEN late \cup {p} ELSE late
TakeOut(p) ==
    /\ bound' = [bound EXCEPT ![p] = 0]
    /\ attr' = OffAttr(attr, p)

(***************************************************************************)
(* Runtime.teardown (close(), atexit) and the teardown of a re-init        *)
(***************************************************************************)
\* a re-init tears the previous client down first, in full
Start == IF client = 0 THEN "set" ELSE "seams"

Close ==
    /\ At("idle")
    /\ job' = [NoJob EXCEPT !.at = "seams", !.op = "close"]
    /\ outcome' = "none"
    /\ UNCHANGED <<client, closed, seams, adapters, statuses, bound, attr, prop, late>>

\* init(): enabled= names the adapters, or auto-detection finds some of them
Begin(want, explicit, inject) ==
    /\ At("idle")
    /\ client < MaxClients
    /\ job' = [NoJob EXCEPT !.at = Start, !.op = "init",
                            !.want = want, !.explicit = explicit, !.inject = inject]
    /\ outcome' = "none"
    /\ UNCHANGED <<client, closed, seams, adapters, statuses, bound, attr, prop, late>>

\* InterceptorRegistry.uninstall_all: oldest first, popped before it is asked
UninstallSeam(how) ==
    /\ At("seams") /\ seams # <<>>
    /\ LET p == Head(seams)
       IN  /\ seams' = Tail(seams)
           /\ IF how = "raise" THEN late' = late ELSE Flushed(p)
           /\ TakeOut(p)
    /\ IF how = "interrupt" THEN Leave("cut") ELSE UNCHANGED <<job, outcome>>
    /\ UNCHANGED <<client, closed, adapters, statuses, prop>>

\* AdapterRegistry._drain: every adapter popped, newest first, then swept
Drain(s) == Reverse(s)

\* the client closed before its adapters are asked
DrainAfterClose ==
    /\ At("seams") /\ seams = <<>>
    /\ adapters' = <<>>
    /\ closed' = closed \cup ({client} \ {0})
    /\ Queue("sweep", Drain(adapters))
    /\ UNCHANGED <<client, seams, statuses, bound, attr, prop, late, outcome>>

DrainAdapters ==
    /\ At("seams") /\ seams = <<>>
    /\ adapters' = <<>>
    /\ Queue("sweep", Drain(adapters))
    /\ UNCHANGED <<client, closed, seams, statuses, bound, attr, prop, late, outcome>>

\* AdapterRegistry._sweep: an interrupt is kept until the sweep is through
SweepAdapter(how) ==
    /\ At("sweep") /\ job.todo # <<>>
    /\ LET p == Head(job.todo)
       IN  IF how = "raise" THEN late' = late ELSE Flushed(p)
    /\ TakeOut(Head(job.todo))
    /\ job' = [job EXCEPT !.todo = Tail(@), !.deferred = @ \/ how = "interrupt"]
    /\ UNCHANGED <<client, closed, seams, adapters, statuses, prop, outcome>>

EndSweep ==
    /\ At("sweep") /\ job.todo = <<>>
    /\ IF job.deferred THEN Leave("cut") ELSE Go("prop") /\ outcome' = outcome
    /\ UNCHANGED <<client, closed, seams, adapters, statuses, bound, attr, prop, late>>

DropPropagation ==
    /\ At("prop")
    /\ prop' = FALSE
    /\ Go("close")
    /\ UNCHANGED <<client, closed, seams, adapters, statuses, bound, attr, late, outcome>>

\* client.close() of the client being replaced, or of the process client
CloseClient ==
    /\ At("close")
    /\ closed' = IF client = 0 THEN closed ELSE closed \cup {client}
    /\ IF job.op = "close" THEN Leave("torn") ELSE Go("set") /\ outcome' = outcome
    /\ UNCHANGED <<client, seams, adapters, statuses, bound, attr, prop, late>>

(***************************************************************************)
(* Runtime.install                                                         *)
(***************************************************************************)
SetClient ==
    /\ At("set")
    /\ client' = client + 1
    /\ Queue("install", Wanted(Seams))
    /\ UNCHANGED <<closed, seams, adapters, statuses, bound, attr, prop, late, outcome>>

\* filed before called, so that whatever a cut install patched can be found
Filed(table, p) == Append(table, p)

\* InterceptorRegistry.install: a name already filed is skipped; a failure is
\* rolled back; a BaseException leaves through init() with the name filed
InstallSeam(how) ==
    /\ At("install") /\ job.todo # <<>>
    /\ LET p == Head(job.todo)
           skip == p \in Range(seams)
       IN  /\ skip => how = "ok"
           /\ seams' = IF skip THEN seams
                       ELSE CASE how = "ok" -> Append(seams, p)
                              [] how = "raise" -> seams
                              [] how = "interrupt" -> Filed(seams, p)
           /\ bound' = IF skip \/ how = "raise" THEN bound ELSE [bound EXCEPT ![p] = client]
    /\ IF how = "interrupt"
       THEN Leave("cut")
       ELSE job' = [job EXCEPT !.todo = Tail(@)] /\ outcome' = outcome
    /\ UNCHANGED <<client, closed, adapters, statuses, attr, prop, late>>

\* registry.reset_statuses(), then the wanted adapters in turn
StartAdapters ==
    /\ At("install") /\ job.todo = <<>>
    /\ statuses' = [a \in Range(Adapters) |-> "none"]
    /\ Queue("adapt", Wanted(Adapters))
    /\ UNCHANGED <<client, closed, seams, adapters, bound, attr, prop, late, outcome>>

StatusOf(how) ==
    CASE how = "ok" -> "installed"
      [] how = "decline" -> "unsupported"
      [] how = "raise" -> "failed"

\* _framework_absence: what the probe finds decides before anything is
\* imported; a module without package metadata counts when enabled= names it
Frameworks == {"present", "shadowed", "bare", "missing"}
Absence(framework) ==
    CASE framework = "present" -> "here"
      [] framework = "shadowed" -> "shadowed"
      [] framework = "bare" -> IF job.explicit THEN "here" ELSE "absent"
      [] framework = "missing" -> "absent"

\* AdapterRegistry.install.  A name already filed is skipped, an absent
\* framework needs no undo; a raise and a decline are rolled back by
\* uninstall() and ctx.patches.restore_all(); an interrupt leaves it filed.
InstallAdapter(framework, how) ==
    /\ At("adapt") /\ job.todo # <<>>
    /\ LET p == Head(job.todo)
           skip == p \in Range(adapters)
           away == Absence(framework)
           tried == ~skip /\ away = "here"
           stays == tried /\ how \in {"ok", "interrupt"}
       IN  /\ ~tried => how = "ok"
           /\ adapters' = CASE stays /\ how = "ok" -> Append(adapters, p)
                            [] stays /\ how = "interrupt" -> Filed(adapters, p)
                            [] OTHER -> adapters
           /\ bound' = IF stays THEN [bound EXCEPT ![p] = client] ELSE bound
           /\ attr' = IF stays THEN Append(attr, p) ELSE attr
           /\ statuses' = CASE skip \/ how = "interrupt" -> statuses
                            [] ~skip /\ how # "interrupt" ->
                                 [statuses EXCEPT ![p] = IF tried THEN StatusOf(how) ELSE away]
    /\ IF how = "interrupt"
       THEN Leave("cut")
       ELSE job' = [job EXCEPT !.todo = Tail(@)] /\ outcome' = outcome
    /\ UNCHANGED <<client, closed, seams, prop, late>>

\* the adapters this init() never tried get a status too
RecordRest ==
    /\ At("adapt") /\ job.todo = <<>>
    /\ statuses' = [a \in Range(Adapters) |->
                      IF a \in job.want THEN statuses[a]
                      ELSE IF job.explicit THEN "disabled" ELSE "absent"]
    /\ Go("inject")
    /\ UNCHANGED <<client, closed, seams, adapters, bound, attr, prop, late, outcome>>

\* the drop is unconditional, then install_propagation() if it is enabled
Inject ==
    /\ At("inject")
    /\ prop' = job.inject
    /\ Leave("ready")
    /\ UNCHANGED <<client, closed, seams, adapters, statuses, bound, attr, late>>

(***************************************************************************)
(* A signal handler of the host's calls close() on the thread inside an    *)
(* init() or close(): a whole teardown of what the registries hold.        *)
(***************************************************************************)
SignalClose ==
    /\ job.at \in ReentryPoints
    /\ seams' = <<>>
    /\ adapters' = <<>>
    /\ bound' = [p \in Parts |-> IF p \in Range(seams) \cup Range(adapters) THEN 0 ELSE bound[p]]
    /\ attr' = FoldLeft(OffAttr, attr, Reverse(adapters))
    /\ late' = late \cup {p \in Range(seams) \cup Range(adapters) : bound[p] \in closed}
    /\ prop' = FALSE
    /\ closed' = IF client = 0 THEN closed ELSE closed \cup {client}
    /\ UNCHANGED <<client, statuses, job, outcome>>

Raises == {"ok", "raise", "interrupt"}

LifeNext ==
    \/ Close
    \/ \E want \in SUBSET Parts, explicit, inject \in BOOLEAN : Begin(want, explicit, inject)
    \/ \E how \in Raises : UninstallSeam(how)
    \/ DrainAdapters
    \/ \E how \in Raises : SweepAdapter(how)
    \/ EndSweep
    \/ DropPropagation
    \/ CloseClient
    \/ SetClient
    \/ \E how \in Raises : InstallSeam(how)
    \/ StartAdapters
    \/ \E framework \in Frameworks, how \in Raises \cup {"decline"} : InstallAdapter(framework, how)
    \/ RecordRest
    \/ Inject
    \/ SignalClose

(***************************************************************************)
(* Properties                                                              *)
(***************************************************************************)
Reached == Range(seams) \cup Range(adapters) \cup (IF At("sweep") THEN Range(job.todo) ELSE {})

\* After a close() that ran to its end, nothing of wardex is left in the host
\* and the client is closed, however many earlier calls were cut short and
\* whichever parts raised on the way (Runtime._teardown, both uninstall_all).
TeardownIsWhole ==
    At("idle") /\ outcome = "torn" =>
        /\ \A p \in Parts : bound[p] = 0
        /\ attr = <<>> /\ ~prop
        /\ client # 0 => client \in closed

\* No patch is ever in the host without a registry entry, or the sweep under
\* way, through which a later teardown still reaches it ("filed before
\* called", the deferred interrupt of AdapterRegistry._sweep).
PatchesReachable == \A p \in Parts : bound[p] # 0 => p \in Reached

\* Between calls every patch speaks to the process client and that client is
\* open: a re-init leaves none bound to the one it replaced.
BoundToLive ==
    At("idle") => \A p \in Parts : bound[p] # 0 => bound[p] = client /\ client \notin closed

\* After an init() that ran to its end the account diagnostics() gives is the
\* truth: an adapter is said to be installed exactly when it is in, bound to
\* this client, and every adapter has a status (AdapterRegistry.install,
\* install_configured_adapters).
StatusIsTrue ==
    At("idle") /\ outcome = "ready" =>
        \A a \in Range(Adapters) :
            /\ statuses[a] # "none"
            /\ statuses[a] = "installed" <=> bound[a] = client

\* The spans a part closes as it is taken out always meet an open client: the
\* uninstall order, interceptors, adapters, propagation, client.close().
ClosingSpansKept == late = {}

\* However init() and close() end, whole, cut or re-entered: what stands in the host is
\* known to its registry, speaks to a client that is open, and is all taken out in the end.
NothingLeftBehind ==
  /\ TeardownIsWhole
  /\ PatchesReachable
  /\ BoundToLive
  /\ StatusIsTrue
  /\ ClosingSpansKept

=============================================================================
