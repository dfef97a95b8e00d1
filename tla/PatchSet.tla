------------------------------ MODULE PatchSet ------------------------------
(***************************************************************************)
(* Patches and their restoration (_assembly/_patchset.py).  A slot is an   *)
(* attribute of a target's own namespace.  Several patch sets of the SDK   *)
(* and a library that is not the SDK's write the same slots; a target that *)
(* is an instance may be collected.  Each call holds its set's lock and is *)
(* one step.                                                               *)
(***************************************************************************)
EXTENDS Integers, Sequences, FiniteSets, SequencesExt

CONSTANTS
  PatchSets,     \* patch sets of the SDK
  Slots,         \* attributes the SDK patches
  SlotKind,      \* SlotKind[s]: "class", "instance", "refusing" or "unreadable"
  SlotHas,       \* SlotHas[s]: TRUE when the target has the name of its own
  MaxWrappers    \* bound: wrappers ever written

\* A slot's value: a wrapper's number, or one of these.
Missing == 0
HostValue == -1

VARIABLES
  own,        \* own[s]: what the target's own namespace holds under the name
  wrapper,    \* wrapper[w]: [by, slot, original], by a patch set or "other"
  records,    \* records[p]: the patches p has to restore, in order
  patchTally, \* patchTally[p]: [applied, restored, superseded, collected, unreadable]
  targetGone, \* slots whose target was collected
  barred,     \* slots that stopped answering reads
  touched     \* history: slots code that is not the SDK's wrote

patchVars == <<own, wrapper, records, patchTally, targetGone, barred, touched>>

By(v) == IF v <= 0 THEN "host" ELSE wrapper[v].by
Standing(s) == s \notin targetGone

\* _prune(): records of collected targets go, counted, before a patch is added.
Prune(p) == SelectSeq(records[p], LAMBDA r : Standing(r.slot))

\* _may_patch() and the read of the own value.
MayPatch(s) == SlotKind[s] \in {"class", "instance"} /\ s \notin barred

Patch(p, s) ==
  /\ Standing(s) /\ Len(wrapper) < MaxWrappers
  /\ LET w == Len(wrapper) + 1
         kept == Prune(p)
         pruned == Len(records[p]) - Len(kept)
     IN  \/ /\ MayPatch(s)
            /\ wrapper' = Append(wrapper, [by |-> p, slot |-> s, original |-> own[s]])
            /\ own' = [own EXCEPT ![s] = w]
            /\ records' = [records EXCEPT ![p] = Append(kept, [slot |-> s, wrapper |-> w, original |-> own[s]])]
            /\ patchTally' = [patchTally EXCEPT ![p].applied = @ + 1, ![p].collected = @ + pruned]
         \/ /\ ~MayPatch(s)
            /\ pruned > 0
            /\ records' = [records EXCEPT ![p] = kept]
            /\ patchTally' = [patchTally EXCEPT ![p].collected = @ + pruned]
            /\ UNCHANGED <<own, wrapper>>
  /\ UNCHANGED <<targetGone, barred, touched>>

(***************************************************************************)
(* _restore() of one record in the state st = [own, patchTally of the set].     *)
(***************************************************************************)
\* A restore that writes the original back over whatever stands there.
RestorePatchOver(st, r) ==
  IF ~Standing(r.slot) THEN [st EXCEPT !.n.collected = @ + 1]
  ELSE [st EXCEPT !.own[r.slot] = r.original, !.n.restored = @ + 1]

RestorePatch(st, r) ==
  IF ~Standing(r.slot) THEN [st EXCEPT !.n.collected = @ + 1]
  ELSE IF r.slot \in barred THEN [st EXCEPT !.n.unreadable = @ + 1]
  ELSE IF st.own[r.slot] # r.wrapper THEN [st EXCEPT !.n.superseded = @ + 1]
  ELSE [st EXCEPT !.own[r.slot] = r.original, !.n.restored = @ + 1]

\* Oldest first.
RestoreOrderFifo(p) == records[p]
\* restore_all() pops from the end.
RestoreOrder(p) == Reverse(records[p])

RestoreAll(p) ==
  /\ records[p] # <<>>
  /\ LET st == FoldLeft(RestorePatch, [own |-> own, n |-> patchTally[p]], RestoreOrder(p))
     IN  own' = st.own /\ patchTally' = [patchTally EXCEPT ![p] = st.n]
  /\ records' = [records EXCEPT ![p] = <<>>]
  /\ UNCHANGED <<wrapper, targetGone, barred, touched>>

(***************************************************************************)
(* Code that is not the SDK's: it wraps what it finds, takes its wrapper   *)
(* off again, or removes the name; the last reference to an instance goes; *)
(* an object begins to refuse reads.                                       *)
(***************************************************************************)
OtherPatches(s) ==
  /\ Standing(s) /\ Len(wrapper) < MaxWrappers /\ SlotKind[s] \in {"class", "instance"}
  /\ wrapper' = Append(wrapper, [by |-> "other", slot |-> s, original |-> own[s]])
  /\ own' = [own EXCEPT ![s] = Len(wrapper) + 1]
  /\ touched' = touched \union {s}
  /\ UNCHANGED <<records, patchTally, targetGone, barred>>

OtherRestores(s) ==
  /\ Standing(s) /\ By(own[s]) = "other"
  /\ own' = [own EXCEPT ![s] = wrapper[own[s]].original]
  /\ touched' = touched \union {s}
  /\ UNCHANGED <<wrapper, records, patchTally, targetGone, barred>>

OtherDeletes(s) ==
  /\ Standing(s) /\ own[s] # Missing
  /\ own' = [own EXCEPT ![s] = Missing]
  /\ touched' = touched \union {s}
  /\ UNCHANGED <<wrapper, records, patchTally, targetGone, barred>>

CollectTarget(s) ==
  /\ Standing(s) /\ SlotKind[s] = "instance"
  /\ targetGone' = targetGone \union {s}
  /\ UNCHANGED <<own, wrapper, records, patchTally, barred, touched>>

Bar(s) ==
  /\ Standing(s) /\ SlotKind[s] = "instance" /\ s \notin barred
  /\ barred' = barred \union {s}
  /\ UNCHANGED <<own, wrapper, records, patchTally, targetGone, touched>>

PatchInit ==
  /\ own = [s \in Slots |-> IF SlotHas[s] THEN HostValue ELSE Missing]
  /\ wrapper = <<>>
  /\ records = [p \in PatchSets |-> <<>>]
  /\ patchTally = [p \in PatchSets |-> [applied |-> 0, restored |-> 0, superseded |-> 0,
                                   collected |-> 0, unreadable |-> 0]]
  /\ targetGone = {} /\ barred = {} /\ touched = {}

PatchNext ==
  \/ \E p \in PatchSets, s \in Slots : Patch(p, s)
  \/ \E p \in PatchSets : RestoreAll(p)
  \/ \E s \in Slots : OtherPatches(s) \/ OtherRestores(s) \/ OtherDeletes(s) \/ CollectTarget(s) \/ Bar(s)

-----------------------------------------------------------------------------
\* Restoring touches only what the set wrote itself: what another library put there,
\* or took away, stays as it is.
OthersKept ==
  [][\A p \in PatchSets, s \in Slots :
       RestoreAll(p) /\ own'[s] # own[s] => By(own[s]) = p]_patchVars

\* The values the chain of wrappers in a slot goes through, the outermost first.
InChain(s, w) ==
  LET f[v \in 0 .. Len(wrapper)] ==
        IF v = 0 THEN {} ELSE {v} \union f[Max({wrapper[v].original, 0})]
  IN  w \in f[Max({own[s], 0})]

\* A wrapper that is still called after its set restored everything was reported:
\* no set reads as cleanly removed while its wrapper stands below somebody else's.
LeftoversSaid ==
  \A s \in Slots, w \in 1 .. Len(wrapper) :
    /\ Standing(s) /\ InChain(s, w) /\ wrapper[w].by # "other"
    /\ records[wrapper[w].by] = <<>>
    => patchTally[wrapper[w].by].superseded + patchTally[wrapper[w].by].unreadable > 0

\* Sets that report nothing left nothing: when no other library wrote the slot and no
\* set was superseded, the slot holds what the host had there, or no name of its own.
HostRestored ==
  \A s \in Slots :
    /\ Standing(s) /\ s \notin barred \union touched
    /\ \A p \in PatchSets : records[p] = <<>> /\ patchTally[p].superseded = 0
    => own[s] = IF SlotHas[s] THEN HostValue ELSE Missing

\* A set reports a supersession only when somebody else wrote a slot it patched, never
\* for patching the same name twice itself.
SupersededIsReal ==
  \A p \in PatchSets :
    patchTally[p].superseded > 0 =>
      touched # {} \/ \E w \in 1 .. Len(wrapper) : wrapper[w].by # p

\* After a restore the host has back what it had, or what is left of the SDK is reported,
\* and nothing is reported that did not happen.
RestoreIsHonest == LeftoversSaid /\ HostRestored /\ SupersededIsReal

=============================================================================
