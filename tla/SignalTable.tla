---------------------------- MODULE SignalTable ----------------------------
(***************************************************************************)
(* One signal's entry in the process's signal table, shared by wardex's    *)
(* _handler and the host's own handlers: Runtime._install_signal_handlers, *)
(* _uninstall_signal_handlers and the chain handle_signal follows.  A host *)
(* handler may keep what it found in the table and call it, the way        *)
(* wardex's own does.                                                      *)
(***************************************************************************)
EXTENDS Integers, SequencesExt

CONSTANT
    Handlers       \* the host's handlers

VARIABLES
    entry,         \* the disposition in the table
    prev,          \* Runtime._prev_handlers for this signal
    on,            \* Runtime._signals_installed
    kept,          \* per host handler, the disposition it calls when it is done
    host,          \* the disposition the host last asked for
    misled         \* the host handlers that call wardex's, when it forgot whom it calls

sigVars == <<entry, prev, on, kept, host, misled>>

Default == "SIG_DFL"
Ours == "wardex"
None == "none"

SigInit ==
    /\ entry = Default
    /\ prev = None
    /\ on = FALSE
    /\ kept = [h \in Handlers |-> None]
    /\ host = Default
    /\ misled = {}

StillAssumed == TRUE
Still == entry = Ours

(***************************************************************************)
(* init(flush_on_signals=True).  signal.signal works on the main thread    *)
(* only, which is asked before anything is written.                        *)
(***************************************************************************)
AlreadyOn == on

InstallOn(main) ==
    /\ IF AlreadyOn \/ ~main
       THEN UNCHANGED <<entry, prev, on>>
       ELSE /\ prev' = entry
            /\ entry' = Ours
            /\ on' = TRUE
    /\ UNCHANGED <<kept, host, misled>>

(***************************************************************************)
(* Delivery: who runs, in order, when the signal arrives now               *)
(***************************************************************************)
\* handle_signal calls the disposition it chained over
CallsNext(d) == IF d = Ours THEN prev ELSE kept[d]

\* the handlers that run, in order; a chain longer than Longest comes back to itself
Longest == 2 * Cardinality(Handlers) + 2
RECURSIVE Runs(_, _)
Runs(d, n) ==
    IF n = 0 \/ d \in {Default, None} THEN <<d>> ELSE <<d>> \o Runs(CallsNext(d), n - 1)
Delivery == Runs(entry, Longest)

(***************************************************************************)
(* init(flush_on_signals=False): put back only what is still ours.  Off    *)
(* the main thread signal.signal raises before anything is written.        *)
(***************************************************************************)
InstallOff(main) ==
    /\ IF ~on
       THEN prev' = None /\ UNCHANGED <<entry, on, misled>>
       ELSE IF Still /\ ~main
            THEN UNCHANGED <<entry, prev, on, misled>>
            ELSE /\ entry' = IF Still THEN prev ELSE entry
                 /\ prev' = None
                 /\ on' = FALSE
                 /\ misled' = misled \cup {h \in Handlers : kept[h] = Ours /\ h \in ToSet(Delivery)}
    /\ UNCHANGED <<kept, host>>

\* the host sets a handler that keeps what it found and calls it, or one that
\* deals with the signal itself
HostSets(h, chains) ==
    /\ entry # h /\ kept[h] = None
    /\ kept' = [kept EXCEPT ![h] = IF chains THEN entry ELSE Default]
    /\ entry' = h
    /\ host' = h
    /\ UNCHANGED <<prev, on, misled>>

SigNext ==
    \/ \E main \in BOOLEAN : InstallOn(main) \/ InstallOff(main)
    \/ \E h \in Handlers, chains \in BOOLEAN : HostSets(h, chains)

\* A signal ends where it would have ended without wardex: the chain reaches the default
\* action, which wardex re-raises.  The one exception to the runtime's signal policy ("it
\* never swallows a signal") is a chain through a host handler that calls wardex's and
\* was in the table when init(flush_on_signals=False) cleared _prev_handlers: that call
\* ends in wardex's handler, or comes back to it after another init().
NeverSwallowed == Last(Delivery) = Default \/ misled \cap ToSet(Delivery) # {}

\* The handler the host asked for last is among those that run, with wardex's
\* installed over it, under it, or taken out again (handle_signal,
\* _uninstall_signal_handlers).
HostHandlerRuns == host \in ToSet(Delivery)

\* A signal that arrives now does what it would do without wardex: it reaches the host's
\* latest handler, and its chain ends in the default action (but see NeverSwallowed).
SignalsReachHost == NeverSwallowed /\ HostHandlerRuns

=============================================================================
