--------------------------- MODULE Outbox_proofs ---------------------------
(***************************************************************************)
(* The client is an Outbox: each step of each of its frames is a step of   *)
(* the outbox, or leaves it as it is, as long as no signal has landed.     *)
(***************************************************************************)
EXTENDS Delivery_proofs

-----------------------------------------------------------------------------
(* Cutting a sequence.                                                     *)

\* The order in which three sequences are put together does not matter.
LEMMA Joined ==
  \A a, m, z \in Seq(Items) : (a \o m) \o z = a \o (m \o z) /\ (a \o m) \o z \in Seq(Items)
<1> SUFFICES ASSUME NEW a \in Seq(Items), NEW m \in Seq(Items), NEW z \in Seq(Items)
             PROVE  (a \o m) \o z = a \o (m \o z) /\ (a \o m) \o z \in Seq(Items)
  OBVIOUS
<1>1. a \o m \in Seq(Items)
  BY ConcatProperties
<1>2. (a \o m) \o z \in Seq(Items)
  BY <1>1, ConcatProperties
<1> QED  BY <1>2, ConcatAssociative

Between(q, i, j) == {q[n] : n \in i + 1 .. j}

\* What stands in a sequence of three parts.
LEMMA InThreeParts ==
  \A a, m, z, q \in Seq(Items) :
    q = (a \o m) \o z =>
      /\ Len(a) \in Nat /\ Len(m) \in Nat /\ Len(q) \in Nat /\ Len(a) + Len(m) <= Len(q)
      /\ SubSeq(q, 1, Len(a)) = a
      /\ SubSeq(q, Len(a) + Len(m) + 1, Len(q)) = z
      /\ Between(q, Len(a), Len(a) + Len(m)) = ToSet(m)
<1> SUFFICES ASSUME NEW a \in Seq(Items), NEW m \in Seq(Items), NEW z \in Seq(Items),
                    NEW q \in Seq(Items), q = (a \o m) \o z
             PROVE  /\ Len(a) \in Nat /\ Len(m) \in Nat /\ Len(q) \in Nat /\ Len(a) + Len(m) <= Len(q)
                    /\ SubSeq(q, 1, Len(a)) = a
                    /\ SubSeq(q, Len(a) + Len(m) + 1, Len(q)) = z
                    /\ Between(q, Len(a), Len(a) + Len(m)) = ToSet(m)
  OBVIOUS
<1> DEFINE i == Len(a)
           j == Len(a) + Len(m)
<1>1. /\ a \o m \in Seq(Items) /\ Len(a \o m) = j
      /\ \A n \in 1 .. j : (a \o m)[n] = IF n <= i THEN a[n] ELSE m[n - i]
  BY ConcatProperties
<1>2. /\ q \in Seq(Items) /\ Len(q) = j + Len(z)
      /\ \A n \in 1 .. j + Len(z) : q[n] = IF n <= j THEN (a \o m)[n] ELSE z[n - j]
  <2> DEFINE u == a \o m
  <2>1. u \in Seq(Items) /\ Len(u) = j
    BY <1>1
  <2> HIDE DEF u
  <2>2. u \o z \in Seq(Items) /\ Len(u \o z) = Len(u) + Len(z)
    BY <2>1, ConcatProperties
  <2>3. \A n \in 1 .. Len(u) + Len(z) : (u \o z)[n] = IF n <= Len(u) THEN u[n] ELSE z[n - Len(u)]
    BY <2>1, ConcatProperties
  <2> QED  BY <2>1, <2>2, <2>3 DEF u
<1>3. i \in Nat /\ Len(m) \in Nat /\ Len(z) \in Nat /\ j \in Nat
      /\ DOMAIN a = 1 .. i /\ DOMAIN m = 1 .. Len(m) /\ DOMAIN z = 1 .. Len(z)
  BY LenProperties
<1>4. /\ \A n \in 1 .. i : q[n] = a[n]
      /\ \A n \in 1 .. Len(m) : q[i + n] = m[n]
      /\ \A n \in 1 .. Len(z) : q[j + n] = z[n]
  <2>1. ASSUME NEW n \in 1 .. i  PROVE q[n] = a[n]
    <3>1. n \in 1 .. j /\ n \in 1 .. j + Len(z) /\ n <= j /\ n <= i
      BY <1>3
    <3> QED  BY <1>1, <1>2, <3>1
  <2>2. ASSUME NEW n \in 1 .. Len(m)  PROVE q[i + n] = m[n]
    <3>1. i + n \in 1 .. j /\ i + n \in 1 .. j + Len(z) /\ i + n <= j /\ ~ (i + n <= i) /\ (i + n) - i = n
      BY <1>3
    <3> QED  BY <1>1, <1>2, <3>1
  <2>3. ASSUME NEW n \in 1 .. Len(z)  PROVE q[j + n] = z[n]
    <3>1. j + n \in 1 .. j + Len(z) /\ ~ (j + n <= j) /\ (j + n) - j = n
      BY <1>3
    <3> QED  BY <1>2, <3>1
  <2> QED  BY <2>1, <2>2, <2>3
<1>5. \A n \in 1 .. Len(q) : q[n] \in Items
  BY <1>2, ElementOfSeq
<1>6. SubSeq(q, 1, i) = a
  <2>1. /\ SubSeq(q, 1, i) \in Seq(Items) /\ Len(SubSeq(q, 1, i)) = i
        /\ \A n \in 1 .. i : SubSeq(q, 1, i)[n] = q[n]
    <3>1. 1 \in Int /\ i \in Int /\ \A n \in 1 .. i : q[n] \in Items
      BY <1>2, <1>3, <1>5
    <3>2. /\ SubSeq(q, 1, i) \in Seq(Items)
          /\ Len(SubSeq(q, 1, i)) = IF 1 <= i THEN i - 1 + 1 ELSE 0
          /\ \A n \in 1 .. i - 1 + 1 : SubSeq(q, 1, i)[n] = q[1 + n - 1]
      BY <3>1, SubSeqProperties
    <3> HIDE DEF i
    <3> QED  BY <1>3, <3>2
  <2> QED  BY <1>3, <1>4, <2>1, SeqEqual
<1>7. SubSeq(q, j + 1, Len(q)) = z
  <2> DEFINE s == SubSeq(q, j + 1, Len(q))
  <2>1. j + 1 \in Int /\ Len(q) \in Int /\ Len(q) - (j + 1) + 1 = Len(z)
        /\ \A n \in j + 1 .. Len(q) : q[n] \in Items
    BY <1>2, <1>3, <1>5
  <2>2. /\ s \in Seq(Items)
        /\ Len(s) = IF j + 1 <= Len(q) THEN Len(q) - (j + 1) + 1 ELSE 0
        /\ \A n \in 1 .. Len(q) - (j + 1) + 1 : s[n] = q[(j + 1) + n - 1]
    BY <2>1, SubSeqProperties
  <2> HIDE DEF s, j
  <2>3. Len(s) = Len(z)
    BY <1>2, <1>3, <2>1, <2>2
  <2>4. \A n \in 1 .. Len(s) : s[n] = z[n]
    <3> SUFFICES ASSUME NEW n \in 1 .. Len(s)  PROVE s[n] = z[n]
      OBVIOUS
    <3>1. n \in 1 .. Len(z) /\ n \in 1 .. Len(q) - (j + 1) + 1 /\ (j + 1) + n - 1 = j + n
      BY <1>3, <2>1, <2>3
    <3>2. s[n] = q[(j + 1) + n - 1] /\ q[j + n] = z[n]
      BY <1>4, <2>2, <3>1
    <3> QED  BY <3>1, <3>2
  <2>5. s = z
    BY <2>2, <2>3, <2>4, SeqEqual
  <2> QED  BY <2>5 DEF s
<1>8. {q[n] : n \in i + 1 .. j} = ToSet(m)
  <2>1. \A n \in i + 1 .. j : n - i \in 1 .. Len(m) /\ q[n] = m[n - i]
    <3> SUFFICES ASSUME NEW n \in i + 1 .. j  PROVE n - i \in 1 .. Len(m) /\ q[n] = m[n - i]
      OBVIOUS
    <3>1. n - i \in 1 .. Len(m) /\ i + (n - i) = n
      BY <1>3
    <3> QED  BY <1>4, <3>1
  <2>2. \A n \in 1 .. Len(m) : i + n \in i + 1 .. j /\ q[i + n] = m[n]
    BY <1>3, <1>4
  <2>3. ToSet(m) = {m[n] : n \in 1 .. Len(m)}
    BY <1>3 DEF ToSet
  <2> DEFINE P == i + 1 .. j
             D == 1 .. Len(m)
  <2>4. \A n \in P : n - i \in D /\ q[n] = m[n - i]
    BY <2>1
  <2>5. \A n \in D : i + n \in P /\ q[i + n] = m[n]
    BY <2>2
  <2> HIDE DEF P, D, i, j
  <2>6. {q[n] : n \in P} = {m[n] : n \in D}
    <3>1. ASSUME NEW n \in P  PROVE q[n] \in {m[h] : h \in D}
      BY <2>4
    <3>2. ASSUME NEW n \in D  PROVE m[n] \in {q[h] : h \in P}
      BY <2>5
    <3> QED  BY <3>1, <3>2
  <2> QED  BY <2>3, <2>6 DEF P, D
<1> QED  BY <1>2, <1>3, <1>6, <1>7, <1>8 DEF Between

\* A sequence and either of its ends.
LEMMA BothEnds ==
  ASSUME NEW S, NEW s \in Seq(S), s # <<>>
  PROVE  /\ Head(s) \in S /\ Tail(s) \in Seq(S) /\ s = <<Head(s)>> \o Tail(s)
         /\ Last(s) \in S /\ Front(s) \in Seq(S) /\ s = Front(s) \o <<Last(s)>>
<1>1. Head(s) \in S /\ Tail(s) \in Seq(S) /\ s = <<Head(s)>> \o Tail(s)
  BY HeadTailProperties
<1>2. Last(s) \in S /\ Front(s) \in Seq(S) /\ Len(Front(s)) = Len(s) - 1
  BY OnceFront
<1>3. s = Front(s) \o <<Last(s)>>
  <2>1. Len(s) \in Nat \ {0} /\ 1 \in 1 .. Len(s) /\ Len(s) \in 1 .. Len(s)
    <3>1. Len(s) \in Nat \ {0}
      BY EmptySeq
    <3> QED  BY <3>1
  <2>2. SubSeq(s, 1, Len(s)) = SubSeq(s, 1, Len(s) - 1) \o <<s[Len(s)]>>
    BY <2>1, SubSeqRecursiveSecond
  <2>3. SubSeq(s, 1, Len(s)) = s
    BY SubSeqFull
  <2> QED  BY <2>2, <2>3 DEF Front, Last
<1> QED  BY <1>1, <1>2, <1>3

-----------------------------------------------------------------------------
(* What the outbox sees of the client.                                     *)

\* One frame at most has a batch, and it is in the export slot.
LEMMA Drainer ==
  ASSUME Empties, OneDrain, signals = 0, NEW f \in Frames
  PROVE  /\ \E d \in Frames : \A g \in Frames : g # d => batch[g] = Empty
         /\ InExport(f) => \A g \in Frames : g # f => batch[g] = Empty
<1>1. \A g \in Frames : batch[g] # Empty => InExport(g)
  BY DEF Empties, InExport
<1>2. \A g, h \in Frames : InExport(g) /\ InExport(h) => g = h
  BY DEF OneDrain
<1> QED  BY <1>1, <1>2

\* The queue is that batch, then the buffer.
LEMMA QueueIs ==
  ASSUME NEW d \in Frames, \A g \in Frames : g # d => batch[g] = Empty
  PROVE  Queue = [k \in Kinds |-> batch[d][k] \o buf[k]]
<1> DEFINE drains == {g \in Frames : batch[g] # Empty}
<1>1. CASE batch[d] = Empty
  <2>1. drains = {}
    BY <1>1
  <2>2. \A k \in Kinds : batch[d][k] = <<>>
    BY <1>1 DEF Empty
  <2> QED  BY <2>1, <2>2 DEF Queue
<1>2. CASE batch[d] # Empty
  <2>1. drains = {d}
    BY <1>2
  <2>2. (CHOOSE g \in drains : TRUE) = d
    BY <2>1
  <2> QED  BY <2>1, <2>2 DEF Queue
<1> QED  BY <1>1, <1>2

\* The same after a step.
LEMMA QueueWillBe ==
  ASSUME NEW d \in Frames, \A g \in Frames : g # d => batch'[g] = Empty
  PROVE  Queue' = [k \in Kinds |-> batch'[d][k] \o buf'[k]]
<1> DEFINE drains == {g \in Frames : batch'[g] # Empty}
<1>1. CASE batch'[d] = Empty
  <2>1. drains = {}
    BY <1>1
  <2>2. \A k \in Kinds : batch'[d][k] = <<>>
    BY <1>1 DEF Empty
  <2> QED  BY <2>1, <2>2 DEF Queue
<1>2. CASE batch'[d] # Empty
  <2>1. drains = {d}
    BY <1>2
  <2>2. (CHOOSE g \in drains : TRUE) = d
    BY <2>1
  <2> QED  BY <2>1, <2>2 DEF Queue
<1> QED  BY <1>1, <1>2

\* What is counted, or will be: what was lost, and what was popped.
LEMMA CountedIs == Counted = Lost \cup InPop /\ Counted' = Lost' \cup InPop'
<1>1. Counted = Lost \cup InPop
  <2>1. UNION {ToSet(old[f].items) : f \in {g \in Frames : pc[g] = "count"}} = InPop
    BY DEF InPop, Popped
  <2> QED  BY <2>1 DEF Counted, Lost
<1>2. Counted' = Lost' \cup InPop'
  <2>1. UNION {ToSet(old'[f].items) : f \in {g \in Frames : pc'[g] = "count"}} = InPop'
    BY DEF InPop, Popped, ToSet
  <2> QED  BY <2>1 DEF Counted, Lost, ToSet
<1> QED  BY <1>1, <1>2

\* What a record makes of what was lost.
LEMMA LostAfter ==
  ASSUME ledger \in [Items -> Seq(Reasons)], NEW lost \in SUBSET Items, NEW reason \in Reasons,
         Record(lost, reason)
  PROVE  Lost' = Lost \cup lost
<1>1. \A i \in Items : Append(ledger[i], reason) # <<>>
  BY AppendProperties
<1>2. \A i \in Items : ledger'[i] # <<>> <=> ledger[i] # <<>> \/ i \in lost
  BY <1>1 DEF Record
<1> QED  BY <1>2 DEF Lost

\* What a step of f makes of what is counted.
LEMMA CountedAfter ==
  ASSUME TypeOK, InHand, AllFiled, GivesBack, NestedLive, OldestIsThere, NestedCaptures,
      signals' = 0,
         NEW f \in Frames, Start(f) \/ Continue(f) \/ Export(f)
  PROVE  /\ pc[f] # "count" /\ pc'[f] # "count" /\ ledger' = ledger => Counted' = Counted
         /\ pc[f] # "count" /\ pc'[f] # "count" =>
              \A lost \in SUBSET Items, reason \in Reasons :
                Record(lost, reason) => Counted' = Counted \cup lost
         /\ PopSnapshot(f) /\ ~ old[f].stale => Counted' = Counted \cup {Head(buf["snapshot"])}
         /\ CountSnapshot(f) /\ ~ old[f].stale => Counted' = Counted
<1>1. /\ Counted = Lost \cup (OtherPops(f) \cup Popped(f))
      /\ Counted' = Lost' \cup (OtherPops(f) \cup Popped(f)')
  <2>1. OtherPops(f)' = OtherPops(f)
    BY OthersStep
  <2>2. InPop = OtherPops(f) \cup Popped(f)
    BY Holdings
  <2>3. InPop' = OtherPops(f)' \cup Popped(f)'
    BY HoldingsAfter
  <2> QED  BY <2>1, <2>2, <2>3, CountedIs
<1>2. Popped(f)' = IF pc'[f] = "count" THEN ToSet(old'[f].items) ELSE {}
  BY LocalAfter
<1>3. Popped(f) = IF pc[f] = "count" THEN ToSet(old[f].items) ELSE {}
  BY DEF Popped
<1>4. ledger' = ledger => Lost' = Lost
  BY DEF Lost
<1>5. ledger \in [Items -> Seq(Reasons)]
  BY DEF TypeOK
<1>6. ASSUME pc[f] # "count", pc'[f] # "count", NEW lost \in SUBSET Items, NEW reason \in Reasons,
             Record(lost, reason)
      PROVE  Counted' = Counted \cup lost
  <2>1. Lost' = Lost \cup lost
    BY <1>5, <1>6, LostAfter
  <2> QED  BY <1>1, <1>2, <1>3, <1>6, <2>1
<1>7. ASSUME PopSnapshot(f), ~ old[f].stale
      PROVE  Counted' = Counted \cup {Head(buf["snapshot"])}
  <2>1. pc[f] = "pop" /\ pc'[f] = "count" /\ ledger' = ledger
    BY <1>7, Labels DEF PopSnapshot, Goto, TypeOK
  <2>3. old'[f].items = <<Head(buf["snapshot"])>>
    <3>1. old' = [old EXCEPT ![f].items = <<Head(buf["snapshot"])>>]
      BY <1>7 DEF PopSnapshot
    <3>2. old \in [Frames -> [stale : BOOLEAN, items : Seq(Items)]]
      BY DEF TypeOK
    <3> HIDE DEF Items, Frames
    <3> QED  BY <3>1, <3>2
  <2>2. ToSet(old'[f].items) = {Head(buf["snapshot"])}
    <3>1. ToSet(<<Head(buf["snapshot"])>>) = {Head(buf["snapshot"])}
      BY DEF ToSet
    <3> QED  BY <2>3, <3>1
  <2> QED  BY <1>1, <1>2, <1>3, <1>4, <2>1, <2>2
<1>8. ASSUME CountSnapshot(f), ~ old[f].stale  PROVE Counted' = Counted
  <2>1. /\ pc[f] = "count" /\ pc'[f] = "append"
        /\ Record(ToSet(old[f].items), "queue_overflow") /\ "queue_overflow" \in Reasons
    BY <1>8, Labels DEF CountSnapshot, Goto, TypeOK, Reasons
  <2>2. ToSet(old[f].items) \subseteq Items
    <3>1. old[f].items \in Seq(Items)
      BY DEF TypeOK
    <3> QED  BY <3>1, ToSetSeq
  <2>3. Lost' = Lost \cup ToSet(old[f].items)
    BY <1>5, <2>1, <2>2, LostAfter
  <2> QED  BY <1>1, <1>2, <1>3, <2>1, <2>3
<1> QED  BY <1>1, <1>2, <1>3, <1>4, <1>6, <1>7, <1>8

-----------------------------------------------------------------------------
(* The steps of the outbox.                                                *)

Seen == <<captured, Queue, wire, Counted, filtered>>
Steps == Abstract!Next \/ UNCHANGED Seen

\* What the outbox sees nothing of.
LEMMA Unseen ==
  ASSUME captured' = captured, buf' = buf, batch' = batch, wire' = wire, filtered' = filtered,
         Counted' = Counted
  PROVE  Steps
<1>1. Queue' = Queue
  BY DEF Queue
<1> QED  BY <1>1 DEF Steps, Seen

\* The queue as two parts, and as three, each of them a sequence of either kind.
InTwo(a, z) == [k \in Kinds |-> a[k] \o z[k]]
InThree(a, m, z) == [k \in Kinds |-> (a[k] \o m[k]) \o z[k]]

\* What is lost between two parts of the queue.
LEMMA LosesQueued ==
  ASSUME NEW a \in [Kinds -> Seq(Items)], NEW m \in [Kinds -> Seq(Items)],
         NEW z \in [Kinds -> Seq(Items)],
         Queue = InThree(a, m, z), Queue' = InTwo(a, z),
         Counted' = Counted \cup InSeqs(m),
         captured' = captured, wire' = wire, filtered' = filtered
  PROVE  Steps
<1> USE DEF InTwo, InThree
<1> DEFINE from == [k \in Kinds |-> Len(a[k])]
           to   == [k \in Kinds |-> Len(a[k]) + Len(m[k])]
<1>1. ASSUME NEW k \in Kinds
      PROVE  /\ from[k] \in Nat /\ to[k] \in Nat /\ from[k] <= to[k] /\ to[k] <= Len(Queue[k])
             /\ Len(Queue[k]) \in Nat
             /\ SubSeq(Queue[k], 1, from[k]) = a[k]
             /\ SubSeq(Queue[k], to[k] + 1, Len(Queue[k])) = z[k]
             /\ {Queue[k][n] : n \in from[k] + 1 .. to[k]} = ToSet(m[k])
  <2> DEFINE x == a[k]
             y == m[k]
             w == z[k]
  <2>1. x \in Seq(Items) /\ y \in Seq(Items) /\ w \in Seq(Items)
    OBVIOUS
  <2>2. Queue[k] = (x \o y) \o w /\ from[k] = Len(x) /\ to[k] = Len(x) + Len(y)
    OBVIOUS
  <2> DEFINE q == Queue[k]
  <2> HIDE DEF x, y, w, from, to, q
  <2>3. /\ Len(x) \in Nat /\ Len(y) \in Nat /\ Len(q) \in Nat /\ Len(x) + Len(y) <= Len(q)
        /\ SubSeq(q, 1, Len(x)) = x
        /\ SubSeq(q, Len(x) + Len(y) + 1, Len(q)) = w
        /\ Between(q, Len(x), Len(x) + Len(y)) = ToSet(y)
    <3>1. q = (x \o y) \o w /\ q \in Seq(Items)
      BY <2>1, <2>2, Joined DEF q
    <3>2. /\ Len(x) \in Nat /\ Len(y) \in Nat /\ Len(q) \in Nat /\ Len(x) + Len(y) <= Len(q)
          /\ SubSeq(q, 1, Len(x)) = x
          /\ SubSeq(q, Len(x) + Len(y) + 1, Len(q)) = w
      BY ONLY <2>1, <3>1, InThreeParts
    <3>3. Between(q, Len(x), Len(x) + Len(y)) = ToSet(y)
      BY ONLY <2>1, <3>1, InThreeParts
    <3> QED  BY <3>2, <3>3
  <2>4. /\ from[k] \in Nat /\ to[k] \in Nat /\ from[k] <= to[k] /\ to[k] <= Len(Queue[k])
        /\ Len(Queue[k]) \in Nat
        /\ SubSeq(Queue[k], 1, from[k]) = x
        /\ SubSeq(Queue[k], to[k] + 1, Len(Queue[k])) = w
        /\ {Queue[k][n] : n \in from[k] + 1 .. to[k]} = ToSet(y)
    <3>1. /\ Len(x) \in Nat /\ Len(x) + Len(y) \in Nat /\ Len(x) <= Len(x) + Len(y)
          /\ Len(x) + Len(y) <= Len(q) /\ Len(q) \in Nat
      BY <2>3
    <3> QED  BY ONLY <2>2, <2>3, <3>1, Zenon DEF q, Between
  <2> QED  BY <2>4 DEF x, y, w
<1>2. from = [k \in Kinds |-> from[k]] /\ to = [k \in Kinds |-> to[k]]
  OBVIOUS
<1> HIDE DEF from, to
<1>3. Kinds = {"span", "snapshot"}
  BY DEF Kinds
<1>4. from \in Abstract!Places /\ to \in Abstract!Places
  <2>1. \A k \in Kinds : /\ from[k] \in 0 .. Len(Queue["span"]) + Len(Queue["snapshot"])
                         /\ to[k] \in 0 .. Len(Queue["span"]) + Len(Queue["snapshot"])
                         /\ from[k] <= Len(Queue[k]) /\ to[k] <= Len(Queue[k])
    <3>1. Len(Queue["span"]) \in Nat /\ Len(Queue["snapshot"]) \in Nat
      BY <1>1, <1>3
    <3> SUFFICES ASSUME NEW k \in Kinds
                 PROVE  /\ from[k] \in 0 .. Len(Queue["span"]) + Len(Queue["snapshot"])
                        /\ to[k] \in 0 .. Len(Queue["span"]) + Len(Queue["snapshot"])
                        /\ from[k] <= Len(Queue[k]) /\ to[k] <= Len(Queue[k])
      OBVIOUS
    <3>2. /\ from[k] \in Nat /\ to[k] \in Nat /\ from[k] <= to[k] /\ to[k] <= Len(Queue[k])
          /\ Len(Queue[k]) \in Nat
      BY <1>1
    <3>3. Len(Queue[k]) = Len(Queue["span"]) \/ Len(Queue[k]) = Len(Queue["snapshot"])
      BY <1>3
    <3> DEFINE L(j) == Len(Queue[j])
    <3> HIDE DEF L
    <3>4. /\ from[k] \in 0 .. L("span") + L("snapshot") /\ to[k] \in 0 .. L("span") + L("snapshot")
          /\ from[k] <= L(k)
      <4>1. L("span") \in Nat /\ L("snapshot") \in Nat /\ L(k) \in Nat /\ to[k] <= L(k)
            /\ (L(k) = L("span") \/ L(k) = L("snapshot"))
        BY <3>1, <3>2, <3>3 DEF L
      <4> QED  BY <3>2, <4>1
    <3> QED  BY <3>2, <3>4 DEF L
  <2>2. /\ from \in [Kinds -> 0 .. Len(Queue["span"]) + Len(Queue["snapshot"])]
        /\ to \in [Kinds -> 0 .. Len(Queue["span"]) + Len(Queue["snapshot"])]
    BY <1>2, <2>1
  <2> QED  BY <2>1, <2>2 DEF Abstract!Places
<1>5. UNION {{Queue[k][n] : n \in from[k] + 1 .. to[k]} : k \in Kinds} = InSeqs(m)
  <2>1. UNION {{Queue[k][n] : n \in from[k] + 1 .. to[k]} : k \in Kinds} = UNION {ToSet(m[k]) : k \in Kinds}
    <3> DEFINE F(k) == {Queue[k][n] : n \in from[k] + 1 .. to[k]}
    <3>1. \A k \in Kinds : F(k) = ToSet(m[k])
      BY <1>1
    <3> HIDE DEF F
    <3>2. UNION {F(k) : k \in Kinds} = UNION {ToSet(m[k]) : k \in Kinds}
      BY <3>1
    <3> QED  BY <3>2 DEF F
  <2>2. UNION {ToSet(m[k]) : k \in Kinds} = InSeqs(m)
    BY <1>3 DEF InSeqs
  <2> QED  BY <2>1, <2>2
<1>6. Queue' = [k \in Kinds |-> SubSeq(Queue[k], 1, from[k])
                                  \o SubSeq(Queue[k], to[k] + 1, Len(Queue[k]))]
  BY <1>1
<1>7. \A k \in Kinds : from[k] <= to[k]
  BY <1>1
<1>8. Abstract!LoseQueued(from, to)
  BY ONLY <1>5, <1>6, <1>7, Counted' = Counted \cup InSeqs(m), captured' = captured, wire' = wire,
          filtered' = filtered DEF Abstract!LoseQueued
<1> QED  BY <1>4, <1>8 DEF Steps, Abstract!Next

\* The front of one kind leaves the buffer, behind whatever a drain has in its batch.
LEMMA FrontIsLost ==
  ASSUME TypeOK, Empties, OneDrain, signals = 0, NEW f \in Frames, NEW k \in Kinds,
         NEW x \in Seq(Items), NEW rest \in Seq(Items), buf[k] = x \o rest,
         buf' = [buf EXCEPT ![k] = rest], batch' = batch, Counted' = Counted \cup ToSet(x),
         captured' = captured, wire' = wire, filtered' = filtered
  PROVE  Steps
<1> DEFINE m == [j \in Kinds |-> IF j = k THEN x ELSE <<>>]
<1>0. buf \in [Kinds -> Seq(Items)] /\ batch \in [Frames -> [Kinds -> Seq(Items)]]
      /\ Kinds = {"span", "snapshot"}
  BY DEF TypeOK, Kinds
<1>1. PICK d \in Frames : \A g \in Frames : g # d => batch[g] = Empty
  BY Drainer
<1>2. Queue = [j \in Kinds |-> batch[d][j] \o buf[j]]
  BY <1>1, QueueIs
<1>3. Queue' = [j \in Kinds |-> batch[d][j] \o buf'[j]]
  BY <1>1, QueueWillBe
<1>5. buf' \in [Kinds -> Seq(Items)] /\ buf'[k] = rest /\ \A j \in Kinds : j # k => buf'[j] = buf[j]
  BY <1>0
<1>6. m \in [Kinds -> Seq(Items)] /\ InSeqs(m) = ToSet(x)
  <2>1. <<>> \in Seq(Items) /\ ToSet(<<>>) = {}
    BY OnceEmpty
  <2>2. m \in [Kinds -> Seq(Items)]
    BY <2>1
  <2>3. InSeqs(m) = ToSet(m["span"]) \cup ToSet(m["snapshot"])
    BY DEF InSeqs
  <2> QED  BY <1>0, <2>1, <2>2, <2>3
<1>7. \A j \in Kinds : batch[d][j] \o buf[j] = (batch[d][j] \o m[j]) \o buf'[j]
  <2> SUFFICES ASSUME NEW j \in Kinds  PROVE batch[d][j] \o buf[j] = (batch[d][j] \o m[j]) \o buf'[j]
    OBVIOUS
  <2> DEFINE a == batch[d][j]
  <2>1. a \in Seq(Items) /\ m[j] \in Seq(Items) /\ buf'[j] \in Seq(Items) /\ buf[j] \in Seq(Items)
    BY <1>0, <1>5, <1>6
  <2>2. buf[j] = m[j] \o buf'[j]
    <3>1. CASE j = k
      BY <1>5, <3>1
    <3>2. CASE j # k
      <4>1. <<>> \o buf[j] = buf[j]
        BY <2>1, ConcatEmptySeq
      <4> QED  BY <1>5, <3>2, <4>1
    <3> QED  BY <3>1, <3>2
  <2> DEFINE p == m[j]
             c == buf'[j]
  <2> HIDE DEF a, m, p, c
  <2>3. (a \o p) \o c = a \o (p \o c)
    <3>1. a \in Seq(Items) /\ p \in Seq(Items) /\ c \in Seq(Items)
      BY <2>1 DEF p, c
    <3> QED  BY ONLY <3>1, Joined, Zenon
  <2>4. buf[j] = p \o c
    BY <2>2 DEF p, c
  <2> QED  BY <2>3, <2>4 DEF a, p, c
<1> HIDE DEF m
<1>8. Queue = InThree(batch[d], m, buf') /\ Queue' = InTwo(batch[d], buf')
  BY <1>2, <1>3, <1>7 DEF InTwo, InThree
<1>9. batch[d] \in [Kinds -> Seq(Items)] /\ Counted' = Counted \cup InSeqs(m)
  BY <1>0, <1>6
<1>10. m \in [Kinds -> Seq(Items)] /\ buf' \in [Kinds -> Seq(Items)]
  BY <1>5, <1>6
<1>11. captured' = captured /\ wire' = wire /\ filtered' = filtered
  OBVIOUS
<1> QED  BY ONLY <1>8, <1>9, <1>10, <1>11, LosesQueued

\* The oldest of one kind leaves the buffer.
LEMMA OldestIsLost ==
  ASSUME TypeOK, Empties, OneDrain, signals = 0, NEW f \in Frames, NEW k \in Kinds, buf[k] # <<>>,
         buf' = [buf EXCEPT ![k] = Tail(@)], batch' = batch,
         Counted' = Counted \cup {Head(buf[k])},
         captured' = captured, wire' = wire, filtered' = filtered
  PROVE  Steps
<1> DEFINE x == <<Head(buf[k])>>
           rest == Tail(buf[k])
<1>1. x \in Seq(Items) /\ rest \in Seq(Items) /\ buf[k] = x \o rest
  <2>1. buf[k] \in Seq(Items)
    BY DEF TypeOK
  <2> QED  BY <2>1, BothEnds
<1>2. ToSet(x) = {Head(buf[k])}
  BY DEF ToSet
<1>3. buf' = [buf EXCEPT ![k] = rest] /\ Counted' = Counted \cup ToSet(x)
  BY <1>2
<1> HIDE DEF x, rest
<1> QED  BY <1>1, <1>3, FrontIsLost

\* A whole batch is lost, or the newest of one kind, with the rest still behind it.
LEMMA BatchIsLost ==
  ASSUME TypeOK, Empties, OneDrain, signals = 0, NEW f \in Frames, InExport(f),
         buf' = buf, batch' = [batch EXCEPT ![f] = Empty],
         Counted' = Counted \cup InSeqs(batch[f]),
         captured' = captured, wire' = wire, filtered' = filtered
  PROVE  Steps
<1>0. buf \in [Kinds -> Seq(Items)] /\ batch \in [Frames -> [Kinds -> Seq(Items)]]
      /\ Empty \in [Kinds -> Seq(Items)] /\ \A k \in Kinds : Empty[k] = <<>>
  BY DEF TypeOK, Empty
<1>1. \A g \in Frames : g # f => batch[g] = Empty /\ batch'[g] = Empty
  BY <1>0, Drainer
<1>2. Queue = [k \in Kinds |-> batch[f][k] \o buf[k]]
  BY <1>1, QueueIs
<1>3. Queue' = [k \in Kinds |-> Empty[k] \o buf[k]]
  <2>1. Queue' = [k \in Kinds |-> batch'[f][k] \o buf'[k]]
    BY <1>1, QueueWillBe
  <2> QED  BY <1>0, <2>1
<1>4. Queue = [k \in Kinds |-> (Empty[k] \o batch[f][k]) \o buf[k]]
  <2>1. \A k \in Kinds : Empty[k] \o batch[f][k] = batch[f][k]
    BY <1>0, ConcatEmptySeq
  <2> QED  BY <1>2, <2>1
<1>5. batch[f] \in [Kinds -> Seq(Items)]
  BY <1>0
<1>6. Queue = InThree(Empty, batch[f], buf) /\ Queue' = InTwo(Empty, buf)
  BY <1>3, <1>4 DEF InTwo, InThree
<1>7. Counted' = Counted \cup InSeqs(batch[f]) /\ captured' = captured /\ wire' = wire /\ filtered' = filtered
  OBVIOUS
<1> QED  BY ONLY <1>0, <1>5, <1>6, <1>7, LosesQueued

\* One export takes the front of the queue.
LEMMA Sends ==
  ASSUME TypeOK, Empties, OneDrain, signals = 0, NEW f \in Frames, InExport(f),
         buf' = buf, batch' = [batch EXCEPT ![f] = Empty],
         \A k \in Kinds : sent[f][k] \in Subsequences(batch[f][k]),
         captured' = captured, filtered' = filtered \cup (InSeqs(batch[f]) \ InSeqs(sent[f])),
         \/ wire' = wire \o sent[f]["span"] \o sent[f]["snapshot"] /\ Counted' = Counted
         \/ wire' = wire /\ Counted' = Counted \cup InSeqs(sent[f])
  PROVE  Steps
<1> DEFINE b == batch[f]
           n == [k \in Kinds |-> Len(b[k])]
<1>0. buf \in [Kinds -> Seq(Items)] /\ batch \in [Frames -> [Kinds -> Seq(Items)]]
      /\ Empty \in [Kinds -> Seq(Items)] /\ (\A k \in Kinds : Empty[k] = <<>>)
      /\ Kinds = {"span", "snapshot"}
  BY DEF TypeOK, Empty, Kinds
<1>1. \A g \in Frames : g # f => batch[g] = Empty /\ batch'[g] = Empty
  BY <1>0, Drainer
<1>2. Queue = [k \in Kinds |-> b[k] \o buf[k]]
  BY <1>1, QueueIs
<1>3. Queue' = [k \in Kinds |-> buf[k]]
  <2>1. Queue' = [k \in Kinds |-> batch'[f][k] \o buf'[k]]
    BY <1>1, QueueWillBe
  <2>2. \A k \in Kinds : batch'[f][k] \o buf'[k] = buf[k]
    BY <1>0, ConcatEmptySeq
  <2> QED  BY <2>1, <2>2
<1>4. ASSUME NEW k \in Kinds
      PROVE  /\ n[k] \in Nat /\ n[k] <= Len(Queue[k]) /\ Len(Queue[k]) \in Nat
             /\ SubSeq(Queue[k], 1, n[k]) = b[k]
             /\ SubSeq(Queue[k], n[k] + 1, Len(Queue[k])) = buf[k]
  <2> DEFINE x == b[k]
             w == buf[k]
  <2>1. x \in Seq(Items) /\ <<>> \in Seq(Items) /\ w \in Seq(Items) /\ Len(<<>>) = 0
    BY <1>0
  <2> DEFINE q == Queue[k]
             o == <<>>
  <2>2. q = x \o w /\ n[k] = Len(x) /\ o \in Seq(Items) /\ Len(o) = 0
    BY <1>2, <2>1
  <2>3. x \o o = x
    BY <2>1, ConcatEmptySeq
  <2> HIDE DEF x, w, n, q, o
  <2>4. /\ Len(x) \in Nat /\ Len(q) \in Nat /\ Len(x) + Len(o) <= Len(q)
        /\ SubSeq(q, 1, Len(x)) = x
        /\ SubSeq(q, Len(x) + Len(o) + 1, Len(q)) = w
    <3>1. q = (x \o o) \o w /\ q \in Seq(Items)
      BY <2>1, <2>2, <2>3, Joined
    <3> QED  BY ONLY <2>1, <2>2, <3>1, InThreeParts
  <2>6. Len(x) + Len(o) = Len(x)
    BY <2>2, <2>4
  <2>5. /\ n[k] \in Nat /\ n[k] <= Len(Queue[k]) /\ Len(Queue[k]) \in Nat
        /\ SubSeq(Queue[k], 1, n[k]) = x
        /\ SubSeq(Queue[k], n[k] + 1, Len(Queue[k])) = w
    BY ONLY <2>2, <2>4, <2>6, Zenon DEF q
  <2> QED  BY <2>5 DEF x, w
<1>5. n = [k \in Kinds |-> n[k]]
  OBVIOUS
<1> HIDE DEF n
<1>6. n \in Abstract!Places
  <2>1. \A k \in Kinds : n[k] \in 0 .. Len(Queue["span"]) + Len(Queue["snapshot"])
    <3>1. Len(Queue["span"]) \in Nat /\ Len(Queue["snapshot"]) \in Nat
      BY <1>0, <1>4
    <3>2. \A k \in Kinds : n[k] \in Nat /\ n[k] <= Len(Queue[k]) /\ (k = "span" \/ k = "snapshot")
      BY <1>0, <1>4
    <3> DEFINE L(j) == Len(Queue[j])
    <3> HIDE DEF L
    <3>3. L("span") \in Nat /\ L("snapshot") \in Nat
      BY <3>1 DEF L
    <3>4. \A k \in Kinds : n[k] \in Nat /\ n[k] <= L(k) /\ (L(k) = L("span") \/ L(k) = L("snapshot"))
      BY <3>2 DEF L
    <3>5. \A k \in Kinds : n[k] \in 0 .. L("span") + L("snapshot")
      BY <3>3, <3>4
    <3> QED  BY <3>5 DEF L
  <2>2. n \in [Kinds -> 0 .. Len(Queue["span"]) + Len(Queue["snapshot"])]
    BY <1>5, <2>1
  <2> QED  BY <1>4, <2>2 DEF Abstract!Places
<1>7. /\ Abstract!First("span", n) = b["span"] /\ Abstract!First("snapshot", n) = b["snapshot"]
  BY <1>0, <1>4 DEF Abstract!First
<1>8. /\ sent[f]["span"] \in Abstract!Subsequences(Abstract!First("span", n))
      /\ sent[f]["snapshot"] \in Abstract!Subsequences(Abstract!First("snapshot", n))
  <2>1. \A s : Abstract!Subsequences(s) = Subsequences(s)
    BY DEF Abstract!Subsequences, Subsequences, Abstract!Picks, Picks
  <2> QED  BY <1>0, <1>7, <2>1
<1>9. Abstract!Export(n, sent[f]["span"], sent[f]["snapshot"])
  <2>1. Queue' = [k \in Kinds |-> SubSeq(Queue[k], n[k] + 1, Len(Queue[k]))]
    BY <1>3, <1>4
  <2>2. /\ InSeqs(b) = ToSet(b["span"]) \cup ToSet(b["snapshot"])
        /\ InSeqs(sent[f]) = ToSet(sent[f]["span"]) \cup ToSet(sent[f]["snapshot"])
    BY DEF InSeqs
  <2>3. filtered' = filtered \cup (InSeqs(b) \ InSeqs(sent[f])) /\ captured' = captured
        /\ \/ wire' = wire \o sent[f]["span"] \o sent[f]["snapshot"] /\ Counted' = Counted
           \/ wire' = wire /\ Counted' = Counted \cup InSeqs(sent[f])
    OBVIOUS
  <2> HIDE DEF b
  <2> QED  BY ONLY <1>7, <2>1, <2>2, <2>3 DEF Abstract!Export, Abstract!ToSet, ToSet
<1> QED  BY <1>6, <1>8, <1>9 DEF Steps, Abstract!Next

-----------------------------------------------------------------------------
(* What each action is to the outbox.                                      *)

\* What a frame has in its hands has not come as far as the queue.
LEMMA InHandIs ==
  ASSUME Held, Apart, Conserved, Empties, OneDrain, signals = 0, TypeOK,
         NEW f \in Frames, item[f] # Nothing
  PROVE  item[f] \in Items /\ item[f] \in Abstract!InHand
<1> DEFINE i == item[f]
<1>1. i \in Items /\ i \in captured /\ i \in Hands
  BY DEF TypeOK, Held, Hands
<1>2. i \notin Counted /\ i \notin filtered
  <2>1. i \in Kept
    BY <1>1 DEF Kept
  <2> QED  BY <2>1, CountedIs DEF Conserved
<1>3. i \notin Abstract!ToSet(wire)
  BY DEF Apart, Abstract!ToSet, ToSet
<1>4. PICK d \in Frames : \A g \in Frames : g # d => batch[g] = Empty
  BY Drainer
<1>5. Queue = [k \in Kinds |-> batch[d][k] \o buf[k]]
  BY <1>4, QueueIs
<1>6. ASSUME NEW k \in Kinds  PROVE i \notin Abstract!ToSet(Queue[k])
  <2>1. i \notin InSeqs(batch[d]) /\ i \notin InSeqs(buf) /\ (k = "span" \/ k = "snapshot")
    BY DEF Apart, Kinds
  <2>2. i \notin ToSet(batch[d][k]) /\ i \notin ToSet(buf[k])
    BY <2>1 DEF InSeqs
  <2> DEFINE a == batch[d][k]
             b == buf[k]
             q == Queue[k]
  <2>3. a \in Seq(Items) /\ b \in Seq(Items) /\ q = a \o b
    BY <1>5, SMTT(90) DEF TypeOK
  <2>4. ToSet(q) = ToSet(a) \cup ToSet(b)
    <3> HIDE DEF a, b, q
    <3> QED  BY <2>3, OnceConcat
  <2> QED  BY <2>2, <2>4 DEF Abstract!ToSet, ToSet
<1>7. i \notin Abstract!Queued
  BY <1>6 DEF Abstract!Queued
<1> QED  BY <1>1, <1>2, <1>3, <1>7 DEF Abstract!InHand

\* A capture call.
LEMMA Offers ==
  ASSUME NEW i \in Items, i \notin captured, captured' = captured \cup {i},
         buf' = buf, batch' = batch, wire' = wire, filtered' = filtered,
         Counted' \in {Counted, Counted \cup {i}}
  PROVE  Steps
<1>1. Queue' = Queue
  BY DEF Queue
<1>2. Abstract!Offer(i)
  BY <1>1 DEF Abstract!Offer
<1> QED  BY <1>2 DEF Steps, Abstract!Next

\* What is admitted when the client is drained.
LEMMA LosesInHand ==
  ASSUME NEW i \in Items, i \in Abstract!InHand, captured' = captured,
         buf' = buf, batch' = batch, wire' = wire, filtered' = filtered,
         Counted' = Counted \cup {i}
  PROVE  Steps
<1>1. Queue' = Queue
  BY DEF Queue
<1>2. Abstract!LoseInHand(i)
  BY <1>1 DEF Abstract!LoseInHand
<1> QED  BY <1>2 DEF Steps, Abstract!Next

\* An append to the buffer.
LEMMA Puts ==
  ASSUME TypeOK, Empties, OneDrain, signals = 0, NEW f \in Frames, NEW i \in Items,
         i \in Abstract!InHand, buf' = [buf EXCEPT ![Kind(i)] = Append(@, i)], batch' = batch,
         captured' = captured, wire' = wire, filtered' = filtered, Counted' = Counted
  PROVE  Steps
<1> DEFINE K == Kind(i)
<1>0. buf \in [Kinds -> Seq(Items)] /\ batch \in [Frames -> [Kinds -> Seq(Items)]] /\ K \in Kinds
  BY DEF TypeOK, Kind, Kinds
<1>1. PICK d \in Frames : \A g \in Frames : g # d => batch[g] = Empty
  BY Drainer
<1>2. Queue = [k \in Kinds |-> batch[d][k] \o buf[k]]
  BY <1>1, QueueIs
<1>3. Queue' = [k \in Kinds |-> batch[d][k] \o buf'[k]]
  BY <1>1, QueueWillBe
<1>4. batch[d][K] \o Append(buf[K], i) = Append(batch[d][K] \o buf[K], i)
  <2> DEFINE a == batch[d][K]
             b == buf[K]
             x == <<i>>
             u == a \o b
  <2>1. a \in Seq(Items) /\ b \in Seq(Items) /\ x \in Seq(Items)
    BY <1>0
  <2>2. Append(b, i) = b \o x
    BY <2>1, AppendIsConcat
  <2> HIDE DEF a, b, x
  <2>3. u \in Seq(Items) /\ u \o x = a \o (b \o x)
    BY <2>1, Joined, ConcatProperties
  <2>4. Append(u, i) = u \o x
    <3> HIDE DEF u
    <3> QED  BY <2>3, AppendIsConcat DEF x
  <2> QED  BY <2>2, <2>3, <2>4 DEF a, b
<1>5. buf'[K] = Append(buf[K], i) /\ \A k \in Kinds : k # K => buf'[k] = buf[k]
  BY <1>0
<1> HIDE DEF K
<1>6. Queue' = [Queue EXCEPT ![K] = Append(@, i)]
  BY <1>0, <1>2, <1>3, <1>4, <1>5
<1>7. [j \in Items |-> Kind(j)][i] = K
  BY DEF K
<1>8. Abstract!Put(i)
  BY <1>6, <1>7 DEF Abstract!Put
<1> QED  BY <1>8 DEF Steps, Abstract!Next

\* What a drain takes of one kind moves behind a batch that has none of it.
LEMMA Moves ==
  ASSUME TypeOK, Empties, OneDrain, signals = 0, NEW f \in Frames, InExport(f), NEW k \in Kinds,
         batch[f][k] = <<>>, buf' = [buf EXCEPT ![k] = <<>>],
         batch' = [batch EXCEPT ![f][k] = buf[k]],
         captured' = captured, wire' = wire, filtered' = filtered, Counted' = Counted
  PROVE  Steps
<1>0. buf \in [Kinds -> Seq(Items)] /\ batch \in [Frames -> [Kinds -> Seq(Items)]]
  BY DEF TypeOK
<1>1. \A g \in Frames : g # f => batch[g] = Empty /\ batch'[g] = Empty
  BY <1>0, Drainer
<1>2. Queue = [j \in Kinds |-> batch[f][j] \o buf[j]]
  BY <1>1, QueueIs
<1>3. Queue' = [j \in Kinds |-> batch'[f][j] \o buf'[j]]
  BY <1>1, QueueWillBe
<1>4. \A j \in Kinds : batch[f][j] \o buf[j] = batch'[f][j] \o buf'[j]
  <2> SUFFICES ASSUME NEW j \in Kinds  PROVE batch[f][j] \o buf[j] = batch'[f][j] \o buf'[j]
    OBVIOUS
  <2>1. CASE j = k
    <3>1. buf'[j] = <<>> /\ batch'[f][j] = buf[j] /\ buf[j] \in Seq(Items)
      BY <1>0, <2>1
    <3>2. <<>> \o buf[j] = buf[j] /\ buf[j] \o <<>> = buf[j]
      BY <3>1, ConcatEmptySeq
    <3> QED  BY <2>1, <3>1, <3>2
  <2>2. CASE j # k
    BY <1>0, <2>2
  <2> QED  BY <2>1, <2>2
<1>5. Queue' = Queue
  BY <1>2, <1>3, <1>4
<1> QED  BY <1>5 DEF Steps, Seen

\* The newest item of a batch stands right before the buffer.
LEMMA NextIs ==
  ASSUME AllFiled, batch \in [Frames -> [Kinds -> Seq(Items)]], NEW f \in Frames, batch[f] # Empty
  PROVE  /\ Kind(NextBack(f)) \in Kinds
         /\ WithoutNext(f)[f] \in [Kinds -> Seq(Items)]
         /\ \A k \in Kinds :
              batch[f][k] = IF k = Kind(NextBack(f)) THEN WithoutNext(f)[f][k] \o <<NextBack(f)>>
                                                     ELSE WithoutNext(f)[f][k]
<1> DEFINE b == batch[f]
           k == IF b["span"] # <<>> THEN "span" ELSE "snapshot"
<1>1. b[k] # <<>> /\ k \in Kinds /\ b \in [Kinds -> Seq(Items)]
  <2>1. b \in [Kinds -> Seq(Items)] /\ Empty \in [Kinds -> Seq(Items)] /\ \A j \in Kinds : Empty[j] = <<>>
    BY DEF Empty
  <2>2. \E j \in Kinds : b[j] # <<>>
    BY <2>1
  <2> QED  BY <2>1, <2>2 DEF Kinds
<1>2. NextBack(f) = Last(b[k])
  BY DEF NextBack
<1>3. Kind(Last(b[k])) = k
  <2>1. \A j \in Kinds : b[j] # <<>> => Kind(Last(b[j])) = j
    BY FiledWithout DEF AllFiled
  <2> HIDE DEF k
  <2> QED  BY <1>1, <2>1
<1>4. WithoutNext(f) \in [Frames -> [Kinds -> Seq(Items)]]
  BY NextLeaves
<1>5. b[k] = Front(b[k]) \o <<Last(b[k])>>
  BY <1>1, BothEnds
<1> HIDE DEF k
<1>6. WithoutNext(f) = [batch EXCEPT ![f][k] = Front(@)]
  BY <1>2, <1>3 DEF WithoutNext
<1>7. WithoutNext(f)[f][k] = Front(b[k]) /\ \A j \in Kinds : j # k => WithoutNext(f)[f][j] = b[j]
  BY <1>1, <1>6
<1> QED  BY <1>1, <1>2, <1>3, <1>4, <1>5, <1>7

\* An item goes back from the batch to the front of the buffer.
LEMMA GoesBack ==
  ASSUME TypeOK, AllFiled, Empties, OneDrain, signals = 0, NEW f \in Frames, InExport(f),
         batch[f] # Empty, batch' = WithoutNext(f),
         buf' = [buf EXCEPT ![Kind(NextBack(f))] = <<NextBack(f)>> \o @],
         captured' = captured, wire' = wire, filtered' = filtered, Counted' = Counted
  PROVE  Steps
<1> DEFINE x == NextBack(f)
           c == WithoutNext(f)[f]
<1>0. buf \in [Kinds -> Seq(Items)] /\ batch \in [Frames -> [Kinds -> Seq(Items)]] /\ x \in Items
  BY NextLeaves DEF TypeOK
<1>1. \A g \in Frames : g # f => batch[g] = Empty /\ batch'[g] = Empty
  BY <1>0, Drainer, NextLeaves
<1>2. Queue = [k \in Kinds |-> batch[f][k] \o buf[k]]
  BY <1>1, QueueIs
<1>3. Queue' = [k \in Kinds |-> c[k] \o buf'[k]]
  BY <1>1, QueueWillBe
<1>4. /\ c \in [Kinds -> Seq(Items)] /\ Kind(x) \in Kinds
      /\ \A k \in Kinds : batch[f][k] = IF k = Kind(x) THEN c[k] \o <<x>> ELSE c[k]
  BY <1>0, NextIs
<1> HIDE DEF c, x
<1>5. \A k \in Kinds : batch[f][k] \o buf[k] = c[k] \o buf'[k]
  <2> SUFFICES ASSUME NEW k \in Kinds  PROVE batch[f][k] \o buf[k] = c[k] \o buf'[k]
    OBVIOUS
  <2>1. CASE k = Kind(x)
    <3> DEFINE u == c[k]
               v == <<x>>
               w == buf[k]
    <3>1. u \in Seq(Items) /\ v \in Seq(Items) /\ w \in Seq(Items)
      BY <1>0, <1>4
    <3>2. batch[f][k] = u \o v /\ buf'[k] = v \o w
      BY <1>0, <1>4, <2>1 DEF x
    <3> HIDE DEF u, v, w
    <3>3. (u \o v) \o w = u \o (v \o w)
      BY ONLY <3>1, Joined, Zenon
    <3> QED  BY <3>2, <3>3 DEF u, w
  <2>2. CASE k # Kind(x)
    BY <1>0, <1>4, <2>2 DEF x
  <2> QED  BY <2>1, <2>2
<1>6. Queue' = Queue
  BY <1>2, <1>3, <1>5
<1> QED  BY <1>6 DEF Steps, Seen

\* An item of the batch that the buffer has no room for.
LEMMA NextIsLost ==
  ASSUME TypeOK, AllFiled, Empties, OneDrain, signals = 0, NEW f \in Frames, InExport(f),
         batch[f] # Empty, batch' = WithoutNext(f), buf' = buf,
         captured' = captured, wire' = wire, filtered' = filtered,
         Counted' = Counted \cup {NextBack(f)}
  PROVE  Steps
<1> DEFINE x == NextBack(f)
           c == WithoutNext(f)[f]
           m == [k \in Kinds |-> IF k = Kind(x) THEN <<x>> ELSE <<>>]
<1>0. buf \in [Kinds -> Seq(Items)] /\ batch \in [Frames -> [Kinds -> Seq(Items)]] /\ x \in Items
  BY NextLeaves DEF TypeOK
<1>1. \A g \in Frames : g # f => batch[g] = Empty /\ batch'[g] = Empty
  BY <1>0, Drainer, NextLeaves
<1>2. Queue = [k \in Kinds |-> batch[f][k] \o buf[k]]
  BY <1>1, QueueIs
<1>3. Queue' = [k \in Kinds |-> c[k] \o buf[k]]
  <2>1. Queue' = [k \in Kinds |-> batch'[f][k] \o buf'[k]]
    BY <1>1, QueueWillBe
  <2> QED  BY <2>1
<1>4. /\ c \in [Kinds -> Seq(Items)] /\ Kind(x) \in Kinds
      /\ \A k \in Kinds : batch[f][k] = IF k = Kind(x) THEN c[k] \o <<x>> ELSE c[k]
  BY <1>0, NextIs
<1>5. m \in [Kinds -> Seq(Items)] /\ InSeqs(m) = {x}
  <2>1. <<x>> \in Seq(Items) /\ <<>> \in Seq(Items) /\ ToSet(<<x>>) = {x} /\ ToSet(<<>>) = {}
    BY <1>0 DEF ToSet
  <2>2. Kinds = {"span", "snapshot"}
    BY DEF Kinds
  <2> QED  BY <1>4, <2>1, <2>2 DEF InSeqs
<1> HIDE DEF c, x
<1>6. \A k \in Kinds : batch[f][k] = c[k] \o m[k]
  <2> SUFFICES ASSUME NEW k \in Kinds  PROVE batch[f][k] = c[k] \o m[k]
    OBVIOUS
  <2>1. c[k] \o <<>> = c[k]
    BY <1>4, ConcatEmptySeq
  <2> QED  BY <1>4, <2>1
<1> HIDE DEF m
<1>7. Queue = [k \in Kinds |-> (c[k] \o m[k]) \o buf[k]]
  BY <1>2, <1>6
<1>8. Counted' = Counted \cup InSeqs(m)
  BY <1>5 DEF x
<1>9. Queue = InThree(c, m, buf) /\ Queue' = InTwo(c, buf)
  BY <1>3, <1>7 DEF InTwo, InThree
<1>10. captured' = captured /\ wire' = wire /\ filtered' = filtered
  OBVIOUS
<1> QED  BY ONLY <1>0, <1>4, <1>5, <1>8, <1>9, <1>10, LosesQueued

\* What close() abandons of one kind, behind a batch another thread is exporting.
LEMMA BufferIsLost ==
  ASSUME TypeOK, Empties, OneDrain, signals = 0, NEW f \in Frames, NEW k \in Kinds,
         buf' = [buf EXCEPT ![k] = <<>>], batch' = batch, captured' = captured, wire' = wire,
         filtered' = filtered, Counted' = Counted \cup ToSet(buf[k])
  PROVE  Steps
<1>1. buf[k] \in Seq(Items) /\ <<>> \in Seq(Items) /\ buf[k] = buf[k] \o <<>>
  <2>1. buf[k] \in Seq(Items)
    BY DEF TypeOK
  <2> QED  BY <2>1, ConcatEmptySeq
<1> QED  BY <1>1, FrontIsLost

\* The first step of a call.
LEMMA StepsAtStart ==
  ASSUME TypeOK, InHand, AllFiled, GivesBack, NestedLive, OldestIsThere, NestedCaptures,
      signals' = 0,
         NEW f \in Frames, Start(f)
  PROVE  Steps
<1>0. pc[f] = "idle"
  BY Labels
<1>1. /\ pc'[f] # "count" /\ ledger' = ledger => Counted' = Counted
      /\ pc'[f] # "count" => \A lost \in SUBSET Items, reason \in Reasons :
                               Record(lost, reason) => Counted' = Counted \cup lost
  BY <1>0, CountedAfter
<1>2. ASSUME NEW i \in Items, Capture(f, i) \/ (i \in Spans /\ CaptureDeferred(f, i))  PROVE Steps
  <2>1. pc' = pc \/ pc' = [pc EXCEPT ![f] = "admit"] \/ pc' = [pc EXCEPT ![f] = "snapshot"]
        \/ pc' = [pc EXCEPT ![f] = "submit"]
    BY <1>2 DEF Capture, CaptureDeferred, Goto
  <2>2. pc'[f] # "count"
    BY <1>0, <2>1 DEF TypeOK
  <2>3. /\ i \notin captured /\ captured' = captured \cup {i}
        /\ buf' = buf /\ batch' = batch /\ wire' = wire /\ filtered' = filtered
        /\ Record({i}, "after_close") \/ ledger' = ledger
    BY <1>2 DEF Capture, CaptureDeferred, drainer, outcomes
  <2>4. {i} \in SUBSET Items /\ "after_close" \in Reasons
    BY DEF Reasons
  <2>5. Counted' \in {Counted, Counted \cup {i}}
    BY <1>1, <2>2, <2>3, <2>4
  <2> QED  BY <2>3, <2>5, Offers
<1>3. ASSUME \/ \E i \in Spans : Parse(f, i)
             \/ Flush(f) \/ ShutdownFlush(f) \/ Periodic(f) \/ Close(f)
      PROVE  Steps
  <2>1. /\ captured' = captured /\ buf' = buf /\ batch' = batch
        /\ wire' = wire /\ filtered' = filtered /\ ledger' = ledger
        /\ \E label \in {"parse", "acquire", "stop", "admit"} : Goto(f, label)
    BY <1>3 DEF Parse, Flush, ShutdownFlush, Periodic, Close, Call, drainer, outcomes
  <2>2. pc'[f] # "count"
    BY <2>1 DEF Goto, TypeOK
  <2> QED  BY <1>1, <2>1, <2>2, Unseen
<1> QED
  <2>1. \A i \in Spans : i \in Items
    BY DEF Items
  <2> QED  BY <1>2, <1>3, <2>1 DEF Start

\* The steps of a capture.
LEMMA StepsInCapture ==
  ASSUME TypeOK, InHand, AllFiled, GivesBack, NestedLive, OldestIsThere, NestedCaptures, Held,
      Apart,
         Conserved, Empties, OneDrain, NothingStale, signals = 0, signals' = 0, NEW f \in Frames,
         \/ Submit(f) \/ Admit(f) \/ EnterBuffer(f) \/ Room(f) \/ Evict(f) \/ Append1(f)
         \/ EnterSnapshot(f) \/ PopSnapshot(f) \/ CountSnapshot(f)
  PROVE  Steps
<1>0. /\ pc[f] # "count" /\ pc'[f] # "count" /\ ledger' = ledger => Counted' = Counted
      /\ pc[f] # "count" /\ pc'[f] # "count" =>
           \A lost \in SUBSET Items, reason \in Reasons :
             Record(lost, reason) => Counted' = Counted \cup lost
      /\ PopSnapshot(f) => Counted' = Counted \cup {Head(buf["snapshot"])}
      /\ CountSnapshot(f) => Counted' = Counted
      /\ ~ old[f].stale
  <2>1. Continue(f) /\ ~ old[f].stale
    BY DEF Continue, NothingStale
  <2> QED  BY <2>1, CountedAfter
<1>1. CASE Submit(f)
  <2>1. /\ captured' = captured /\ buf' = buf /\ batch' = batch /\ wire' = wire
        /\ filtered' = filtered /\ ledger' = ledger /\ pc[f] = "submit"
    BY <1>1, Labels DEF Submit, drainer, outcomes
  <2>2. pc'[f] # "count"
    BY <1>1 DEF Submit, Goto, TypeOK
  <2> QED  BY <1>0, <2>1, <2>2, Unseen
<1>2. CASE Admit(f)
  <2>1. /\ captured' = captured /\ buf' = buf /\ batch' = batch /\ wire' = wire
        /\ filtered' = filtered /\ pc[f] = "admit"
    BY <1>2, Labels DEF Admit, drainer, outcomes
  <2>2. pc'[f] # "count"
    BY <1>2 DEF Admit, Admitted, Goto, TypeOK
  <2>3. item[f] \in Items /\ item[f] # Nothing
    BY <2>1, ClientAssumption DEF InHand, CarriesSpan, Items
  <2>4. CASE ~ drained
    <3>1. ledger' = ledger
      BY <1>2, <2>4 DEF Admit
    <3> QED  BY <1>0, <2>1, <2>2, <3>1, Unseen
  <2>5. CASE drained
    <3>1. Record({item[f]}, "shutdown_tail") /\ "shutdown_tail" \in Reasons /\ {item[f]} \in SUBSET Items
      BY <1>2, <2>3, <2>5 DEF Admit, Reasons
    <3>2. Counted' = Counted \cup {item[f]}
      BY <1>0, <2>1, <2>2, <3>1
    <3>3. item[f] \in Abstract!InHand
      BY <2>3, InHandIs
    <3> QED  BY <2>1, <2>3, <3>2, <3>3, LosesInHand
  <2> QED  BY <2>4, <2>5
<1>3. CASE EnterBuffer(f) \/ Room(f) \/ EnterSnapshot(f)
  <2>1. /\ captured' = captured /\ buf' = buf /\ batch' = batch
        /\ wire' = wire /\ filtered' = filtered /\ ledger' = ledger
        /\ \E label \in {"room", "append", "evict", "pop"} : Goto(f, label)
    BY <1>3 DEF EnterBuffer, Room, EnterSnapshot, drainer, outcomes
  <2>2. pc[f] # "count" /\ pc'[f] # "count"
    BY <1>3, <2>1, Labels DEF Goto, TypeOK
  <2> QED  BY <1>0, <2>1, <2>2, Unseen
<1>4. CASE Evict(f)
  <2> DEFINE x == Head(buf["span"])
  <2>1. /\ captured' = captured /\ batch' = batch /\ wire' = wire
        /\ filtered' = filtered /\ pc[f] # "count" /\ pc'[f] # "count"
        /\ Record({x}, "queue_overflow") /\ "queue_overflow" \in Reasons
        /\ buf' = [buf EXCEPT !["span"] = Tail(@)]
    BY <1>0, <1>4, Labels DEF Evict, Goto, TypeOK, drainer, outcomes, Reasons
  <2>2. buf["span"] # <<>> /\ "span" \in Kinds
    BY <1>0, <1>4, Finds DEF Kinds
  <2>3. x \in Items
    <3>1. buf["span"] \in Seq(Items)
      BY <2>2 DEF TypeOK
    <3> QED  BY <2>2, <3>1, BothEnds
  <2>4. Counted' = Counted \cup {x}
    BY <1>0, <2>1, <2>3
  <2> QED  BY <2>1, <2>2, <2>4, OldestIsLost
<1>5. CASE Append1(f)
  <2>1. /\ captured' = captured /\ batch' = batch /\ wire' = wire
        /\ filtered' = filtered /\ ledger' = ledger /\ pc[f] = "append"
        /\ buf' = [buf EXCEPT ![Kind(item[f])] = Append(@, item[f])]
    BY <1>0, <1>5, Labels DEF Append1, drainer, outcomes
  <2>2. pc'[f] # "count"
    BY <1>5 DEF Append1, Admitted, Goto, TypeOK
  <2>3. item[f] \in Items /\ item[f] # Nothing
    BY <2>1, ClientAssumption DEF InHand
  <2>4. item[f] \in Abstract!InHand /\ Counted' = Counted
    BY <1>0, <2>1, <2>2, <2>3, InHandIs
  <2> QED  BY <2>1, <2>3, <2>4, Puts
<1>6. CASE PopSnapshot(f)
  <2>1. /\ captured' = captured /\ batch' = batch /\ wire' = wire /\ filtered' = filtered
        /\ buf' = [buf EXCEPT !["snapshot"] = Tail(@)]
    BY <1>0, <1>6 DEF PopSnapshot, drainer, outcomes
  <2>2. buf["snapshot"] # <<>> /\ "snapshot" \in Kinds
    BY <1>0, <1>6, Finds DEF Kinds
  <2> QED  BY <1>0, <1>6, <2>1, <2>2, OldestIsLost
<1>7. CASE CountSnapshot(f)
  <2>1. captured' = captured /\ buf' = buf /\ batch' = batch /\ wire' = wire /\ filtered' = filtered
    BY <1>7 DEF CountSnapshot, drainer, outcomes
  <2> QED  BY <1>0, <1>7, <2>1, Unseen
<1> QED  BY <1>1, <1>2, <1>3, <1>4, <1>5, <1>6, <1>7

\* The steps of a drain, of close() and of drain_all.
LEMMA StepsInDrain ==
  ASSUME TypeOK, InHand, AllFiled, GivesBack, NestedLive, OldestIsThere, NestedCaptures,
         Empties, HandsFree, OneDrain, NothingStale, SentPart, signals = 0, signals' = 0, NEW f \in Frames,
         \/ StopWorkers(f) \/ (\E i \in Spans : ParseJob(f, i)) \/ ParsesDone(f)
         \/ Acquire(f) \/ Decline(f) \/ Swap(f) \/ StoreBy(f) \/ HookReturns(f) \/ HookDrops(f)
         \/ Undelivered(f) \/ GiveBack(f) \/ Prepend(f) \/ GivenBack(f)
         \/ Release(f) \/ Abandon(f) \/ CloseTransport(f) \/ Export(f)
  PROVE  Steps
<1>0. /\ pc[f] # "count" /\ pc'[f] # "count" /\ ledger' = ledger => Counted' = Counted
      /\ pc[f] # "count" /\ pc'[f] # "count" =>
           \A lost \in SUBSET Items, reason \in Reasons :
             Record(lost, reason) => Counted' = Counted \cup lost
      /\ ~ old[f].stale
  <2>1. (Continue(f) \/ Export(f)) /\ ~ old[f].stale
    BY DEF Continue, NothingStale, StoreBy, TakenBy
  <2> QED  BY <2>1, CountedAfter
<1>01. /\ batch \in [Frames -> [Kinds -> Seq(Items)]] /\ Filed(batch[f]) /\ Filed(buf)
       /\ InSeqs(batch[f]) \in SUBSET Items /\ InSeqs(buf) \in SUBSET Items
  BY FiledApart DEF TypeOK, AllFiled
<1>1. ASSUME \/ StopWorkers(f) \/ ParsesDone(f) \/ Acquire(f) \/ Decline(f) \/ HookReturns(f)
             \/ ExportDeclines(f) \/ Release(f) \/ CloseTransport(f) \/ Swap(f) \/ Abandon(f)
             \/ \E i \in Spans : ParseJob(f, i)
      PROVE  Steps
  <2>1. /\ captured' = captured /\ buf' = buf /\ batch' = batch
        /\ wire' = wire /\ filtered' = filtered /\ ledger' = ledger
        /\ \E label \in Pcs \ {"count"} : Goto(f, label)
    BY <1>1 DEF StopWorkers, ParsesDone, Acquire, Decline, HookReturns, ExportDeclines, Release,
                CloseTransport, ParseJob, Swap, Abandon, drainer, outcomes, Pcs
  <2>2. pc[f] # "count" /\ pc'[f] # "count"
    BY <1>1, <2>1, Labels DEF Goto, TypeOK, Export
  <2> QED  BY <1>0, <2>1, <2>2, Unseen
<1>2. ASSUME NEW k \in Kinds, Takes(f, k)  PROVE Steps
  <2>1. /\ captured' = captured /\ wire' = wire /\ filtered' = filtered /\ ledger' = ledger
        /\ batch' = [batch EXCEPT ![f][k] = buf[k]] /\ buf' = [buf EXCEPT ![k] = <<>>]
        /\ pc[f] = (IF k = "span" THEN "spans" ELSE "states")
    BY <1>0, <1>2, StoreStep DEF Takes, TakeSpans, TakeStates, Take, Store, Taken, outcomes
  <2>2. pc[f] # "count" /\ pc'[f] # "count"
    BY <1>2, <2>1 DEF Takes, TakeSpans, TakeStates, Goto, TypeOK
  <2>3. batch[f][k] = <<>> /\ InExport(f)
    BY <1>01, <2>1 DEF Empties, Empty, HandsFree, Kinds, InExport
  <2>4. Counted' = Counted
    BY <1>0, <2>1, <2>2
  <2> QED  BY <2>1, <2>3, <2>4, Moves
<1>3. CASE HookDrops(f) \/ (Undelivered(f) /\ pc' # [pc EXCEPT ![f] = "giveBack"])
  <2>1. /\ captured' = captured /\ buf' = buf /\ wire' = wire
        /\ filtered' = filtered /\ pc[f] \in {"hook", "undelivered"} /\ Disposed(f)
        /\ \E reason \in Reasons : Record(InSeqs(batch[f]), reason)
    BY <1>3, Labels DEF HookDrops, Undelivered, Reasons, outcomes, Goto
  <2>2. pc'[f] # "count" /\ InExport(f) /\ batch' = [batch EXCEPT ![f] = Empty]
    BY <2>1 DEF Disposed, Goto, TypeOK, InExport
  <2>3. Counted' = Counted \cup InSeqs(batch[f])
    BY <1>0, <1>01, <2>1, <2>2
  <2> QED  BY <2>1, <2>2, <2>3, BatchIsLost
<1>4. CASE Undelivered(f) /\ pc' = [pc EXCEPT ![f] = "giveBack"]
  <2>1. /\ captured' = captured /\ buf' = buf /\ wire' = wire
        /\ filtered' = filtered /\ pc[f] # "count" /\ pc'[f] = "giveBack"
    BY <1>4, Labels DEF Undelivered, outcomes, TypeOK
  <2>2. ~ Disposed(f)
    BY <2>1 DEF Disposed, Goto, TypeOK
  <2>3. batch' = batch /\ ledger' = ledger
    BY <1>4, <2>2 DEF Undelivered
  <2> QED  BY <1>0, <2>1, <2>3, Unseen
<1>5. CASE ExportDelivers(f) \/ ExportFails(f)
  <2>1. /\ captured' = captured /\ buf' = buf /\ pc[f] = "export" /\ Disposed(f)
        /\ filtered' = filtered \cup (InSeqs(batch[f]) \ InSeqs(sent[f]))
    BY <1>5, Labels DEF ExportDelivers, ExportFails, Export
  <2>2. pc'[f] # "count" /\ InExport(f) /\ batch' = [batch EXCEPT ![f] = Empty]
    BY <2>1 DEF Disposed, Goto, TypeOK, InExport
  <2>3. \A k \in Kinds : sent[f][k] \in Subsequences(batch[f][k])
    BY <2>1 DEF SentPart
  <2>4. \/ wire' = wire \o sent[f]["span"] \o sent[f]["snapshot"] /\ Counted' = Counted
        \/ wire' = wire /\ Counted' = Counted \cup InSeqs(sent[f])
    <3>1. CASE ExportDelivers(f)
      <4>1. ledger' = ledger /\ wire' = wire \o sent[f]["span"] \o sent[f]["snapshot"]
        BY <3>1 DEF ExportDelivers
      <4> QED  BY <1>0, <2>1, <2>2, <4>1
    <3>2. CASE ExportFails(f)
      <4>1. Record(InSeqs(sent[f]), "send_error") /\ "send_error" \in Reasons /\ wire' = wire
        BY <3>2 DEF ExportFails, Reasons
      <4>2. InSeqs(sent[f]) \in SUBSET Items
        <5>1. sent[f]["span"] \in Seq(Items) /\ sent[f]["snapshot"] \in Seq(Items)
          BY DEF TypeOK, Kinds
        <5>2. ToSet(sent[f]["span"]) \subseteq Items /\ ToSet(sent[f]["snapshot"]) \subseteq Items
          BY <5>1, ToSetSeq
        <5> QED  BY <5>2 DEF InSeqs
      <4> QED  BY <1>0, <2>1, <2>2, <4>1, <4>2
    <3> QED  BY <1>5, <3>1, <3>2
  <2> QED  BY <2>1, <2>2, <2>3, <2>4, Sends
<1>6. CASE GiveBack(f)
  <2> DEFINE x == NextBack(f)
  <2>1. /\ captured' = captured /\ buf' = buf /\ wire' = wire
        /\ filtered' = filtered /\ pc[f] = "giveBack" /\ batch[f] # Empty
        /\ pc' = pc \/ pc' = [pc EXCEPT ![f] = "prepend"]
    BY <1>6, Labels DEF GiveBack, outcomes, Goto
  <2>2. pc'[f] # "count" /\ InExport(f)
    BY <2>1 DEF TypeOK, InExport
  <2>3. CASE Fits(x)
    <3>1. batch' = batch /\ ledger' = ledger
      BY <1>6, <2>3 DEF GiveBack
    <3> QED  BY <1>0, <2>1, <2>2, <3>1, Unseen
  <2>4. CASE ~ Fits(x)
    <3>1. Record({x}, "queue_overflow") /\ "queue_overflow" \in Reasons /\ batch' = WithoutNext(f)
      BY <1>6, <2>4 DEF GiveBack, Reasons
    <3>2. {x} \in SUBSET Items
      BY <1>01, <2>1, NextLeaves
    <3>3. Counted' = Counted \cup {x}
      BY <1>0, <2>1, <2>2, <3>1, <3>2
    <3> QED  BY <2>1, <2>2, <3>1, <3>3, NextIsLost
  <2> QED  BY <2>3, <2>4
<1>7. CASE Prepend(f)
  <2>1. /\ captured' = captured /\ wire' = wire
        /\ filtered' = filtered /\ ledger' = ledger /\ pc[f] = "prepend" /\ batch[f] # Empty
        /\ pc'[f] = "giveBack" /\ batch' = WithoutNext(f)
        /\ buf' = [buf EXCEPT ![Kind(NextBack(f))] = <<NextBack(f)>> \o @]
    BY <1>0, <1>7, Labels DEF Prepend, outcomes, Goto, GivesBack, TypeOK
  <2>2. InExport(f) /\ Counted' = Counted
    BY <1>0, <2>1 DEF InExport
  <2> QED  BY <2>1, <2>2, GoesBack
<1>8. CASE GivenBack(f)
  <2>1. /\ captured' = captured /\ buf' = buf /\ wire' = wire /\ pc[f] # "count"
        /\ filtered' = filtered /\ ledger' = ledger /\ batch[f] = Empty /\ Disposed(f)
    BY <1>8, Labels DEF GivenBack, outcomes
  <2>2. batch' = batch /\ pc'[f] # "count"
    BY <1>01, <2>1 DEF Disposed, Goto, TypeOK
  <2> QED  BY <1>0, <2>1, <2>2, Unseen
<1>9. ASSUME NEW k \in Kinds, Stores(f, k), ~ Takes(f, k)  PROVE Steps
  <2>1. /\ captured' = captured /\ batch' = batch /\ wire' = wire
        /\ filtered' = filtered /\ buf' = [buf EXCEPT ![k] = <<>>]
        /\ Record(ToSet(buf[k]), "shutdown_tail") /\ "shutdown_tail" \in Reasons
    BY <1>0, <1>9, StoreStep DEF Takes, Stores, LeaveSpans, LeaveStates, Store, Taken, drainer,
                                 outcomes, Reasons, Kinds
  <2>2. pc[f] # "count" /\ pc'[f] # "count"
    BY <1>9, StoreLabels DEF Takes, Stores, LeaveSpans, LeaveStates, Goto, TypeOK
  <2>3. ToSet(buf[k]) \in SUBSET Items
    BY KindLeaves, <1>01
  <2>4. Counted' = Counted \cup ToSet(buf[k])
    BY <1>0, <2>1, <2>2, <2>3
  <2> QED  BY <2>1, <2>4, BufferIsLost
<1>10. StoreBy(f) => \E k \in Kinds : Stores(f, k)
  BY DEF StoreBy, TakenBy, Stores, Kinds
<1> QED  BY <1>1, <1>2, <1>3, <1>4, <1>5, <1>6, <1>7, <1>8, <1>9, <1>10 DEF Export

-----------------------------------------------------------------------------
\* The client starts as the outbox does.
LEMMA StartsAsOutbox == ASSUME Init  PROVE Abstract!Init
<1>1. buf = Empty /\ pc = [f \in Frames |-> "idle"] /\ batch = [f \in Frames |-> Empty]
      /\ captured = {} /\ wire = <<>> /\ filtered = {} /\ ledger = [i \in Items |-> <<>>]
  BY DEF Init
<1>2. \A f \in Frames : batch[f] = Empty
  BY <1>1
<1>3. Queue = [k \in Kinds |-> <<>>]
  <2>1. \A k \in Kinds : buf[k] = <<>>
    BY <1>1 DEF Empty
  <2>2. {f \in Frames : batch[f] # Empty} = {}
    BY <1>2
  <2>3. \A k \in Kinds : <<>> \o buf[k] = <<>>
    BY <2>1
  <2> QED  BY <2>2, <2>3 DEF Queue
<1>4. Counted = {}
  <2>1. Lost = {} /\ InPop = {}
    BY <1>1 DEF Lost, InPop, Popped
  <2> QED  BY <2>1, CountedIs
<1> QED  BY <1>1, <1>3, <1>4 DEF Abstract!Init

\* Each of its steps is a step of the outbox, or none.
LEMMA StepsAsOutbox ==
  ASSUME IInv, DInv, signals = 0, signals' = 0, [Next]_vars
  PROVE  [Abstract!Next]_Abstract!outbox
<1>1. /\ TypeOK /\ InHand /\ AllFiled /\ GivesBack /\ NestedLive /\ OldestIsThere /\ Held /\ Apart
      /\ NestedCaptures /\ Empties /\ HandsFree /\ NothingStale /\ Conserved /\ OneDrain /\ SentPart
  BY DEF IInv, DInv
<1>2. CASE UNCHANGED vars
  <2>1. /\ captured' = captured /\ buf' = buf /\ batch' = batch /\ wire' = wire
        /\ filtered' = filtered /\ ledger' = ledger /\ old' = old /\ pc' = pc
    BY <1>2 DEF vars
  <2>2. Counted' = Counted /\ Queue' = Queue
    BY <2>1 DEF Counted, Queue
  <2> QED  BY <2>1, <2>2 DEF Abstract!outbox
<1>3. ASSUME NEW f \in Frames, Start(f) \/ Continue(f) \/ Export(f)  PROVE Steps
  <2>1. CASE Start(f)
    BY <1>1, <2>1, StepsAtStart
  <2>2. CASE \/ Submit(f) \/ Admit(f) \/ EnterBuffer(f) \/ Room(f) \/ Evict(f) \/ Append1(f)
             \/ EnterSnapshot(f) \/ PopSnapshot(f) \/ CountSnapshot(f)
    BY <1>1, <2>2, StepsInCapture
  <2>3. CASE \/ StopWorkers(f) \/ (\E i \in Spans : ParseJob(f, i)) \/ ParsesDone(f)
             \/ Acquire(f) \/ Decline(f) \/ Swap(f) \/ StoreBy(f) \/ HookReturns(f) \/ HookDrops(f)
             \/ Undelivered(f) \/ GiveBack(f) \/ Prepend(f) \/ GivenBack(f)
             \/ Release(f) \/ Abandon(f) \/ CloseTransport(f) \/ Export(f)
    BY <1>1, <2>3, StepsInDrain
  <2> QED  BY <1>3, <2>1, <2>2, <2>3 DEF Continue, StoreBy, TakenBy
<1>4. Steps => [Abstract!Next]_Abstract!outbox
  BY DEF Steps, Seen, Abstract!outbox
<1> QED  BY <1>2, <1>3, <1>4 DEF Next

\* For any number of threads, items and nested frames, and any bounds of the buffer, the client
\* is one lossy queue that loses nothing in silence, as long as no signal's drain runs inside
\* another call.  (Such a drain does break it: it sends a span that the call it interrupted then
\* counts as evicted, see Evict.)
THEOREM ClientIsOutbox == Spec /\ [](signals = 0) => ImplementsOutbox
<1>1. Init => Abstract!Init
  BY StartsAsOutbox
<1>2. IInv /\ DInv /\ signals = 0 /\ (signals = 0)' /\ [Next]_vars => [Abstract!Next]_Abstract!outbox
  BY StepsAsOutbox
<1> QED  BY <1>1, <1>2, SpecDInv, PTL DEF Spec, ImplementsOutbox, Abstract!Spec
=============================================================================
