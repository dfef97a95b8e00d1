-------------------------- MODULE OpenSpans_proofs --------------------------
(***************************************************************************)
(* For any number of spans, clients and signals, any bounds and any hosts: *)
(* whatever competes for an entry of the table of open spans, no span is   *)
(* shipped twice or lost in silence (Accounted), what a shutdown leaves    *)
(* out is said (DueAreSaid), and it costs no span that had ended           *)
(* (CostsNoFinished).                                                      *)
(***************************************************************************)
EXTENDS OpenSpans, Collections

-----------------------------------------------------------------------------
(* The inductive invariant.                                                *)

Looping == {"begin", "interrupt", "pop", "count", "buffer", "uncount", "refused", "sweep", "sweeping",
            "report"}

\* Where a frame is in which call.
Doing ==
  \A f \in Frames :
    /\ op[f] = Nothing <=> pc[f] = "idle"
    /\ op[f] = "signal" <=> f = Handler /\ pc[f] # "idle"
    /\ op[f] = "end"    => pc[f] \in {"ended", "emit"}
    /\ op[f] = "init"   => pc[f] \in {"lock", "shut", "set"}
    /\ op[f] = "close"  => pc[f] \in Looping \cup {"lock", "shut"}
    /\ op[f] = "signal" => pc[f] \in Looping \cup {"state", "flush"}

\* What it has in its hands there.
WithKeys  == {"ended", "pop", "sweeping"}
WithChunk == {"emit", "pop", "count", "buffer", "uncount", "refused", "sweep", "sweeping", "report"}
Hands ==
  \A f \in Frames :
    /\ pc[f] = "ended" => Len(keys[f]) = 1
    /\ pc[f] \notin WithKeys => keys[f] = <<>>
    /\ pc[f] \notin WithChunk => chunk[f] = <<>>

\* The lock: one thread is inside of init() or close().
Inside(f) == op[f] \in {"init", "close"} /\ pc[f] # "lock"
OneInside == \A f, g \in Frames : Inside(f) /\ Inside(g) => f = g

\* Clients: only the current one may be open, and a buffer is an open client's.
Room == client + Bit(op[Base] = "init") + Bit(op[Beside] = "init") <= MaxClients
Current ==
  /\ \A c \in Clients : c < client => c \in closed
  /\ \A c \in Clients : c # client \/ c \in closed => buffer[c] = <<>>
  /\ \A f \in Frames : using[f] <= client
  /\ \A f \in Frames : op[f] = "init" /\ pc[f] = "shut" => using[f] = client
  /\ \A f \in Frames : op[f] = "init" /\ pc[f] = "set" => client \in closed

\* A span is in one place at most.
Distinct == (\A f \in Frames : Once(chunk[f])) /\ (\A c \in Clients : Once(buffer[c]))
Table == ToSet(open) \cup elsewhere
Copies(s) ==
  /\ ~ (s \in ToSet(open) /\ s \in elsewhere)
  /\ \A f, g \in Frames : s \in Held(f) /\ s \in Held(g) => f = g
  /\ \A f \in Frames : s \in Held(f) => s \notin Table /\ s \notin Buffered /\ shipped[s] = 0
  /\ s \in Table => s \notin Buffered /\ shipped[s] = 0
  /\ s \in Buffered => shipped[s] = 0
  /\ shipped[s] <= 1

\* Until a signal comes it is there, or was counted.
Somewhere(s) ==
  s \in Table \/ (\E f \in Frames : s \in Held(f)) \/ s \in Buffered \/ shipped[s] # 0
Single(s) ==
  signals = 0 /\ s \notin parents /\ block[s] # "new"
    => counted[s] <= 1 /\ (counted[s] = 0 <=> Somewhere(s))

\* A span that was not opened has left no trace.
Fresh(s) ==
  block[s] = "new" => /\ ~ Somewhere(s) /\ counted[s] = 0
                      /\ s \notin cut \cup due \cup parents
                      /\ \A f \in Frames : s \notin ToSet(chunk[f]) \cup ToSet(keys[f])

\* A child has a copy of a parent's span only by ending the block itself.
Childs(s) ==
  s \in parents => /\ s \notin ToSet(open)
                   /\ block[s] # "copied" => /\ s \notin Buffered /\ shipped[s] = 0 /\ counted[s] = 0
                                             /\ \A f \in Frames : s \notin ToSet(chunk[f])
                                             /\ \A f \in Frames : pc[f] = "ended" => Head(keys[f]) # s

\* A chunk that was buffered is cut off, or counted and nowhere.
Uncounted(s) ==
  \A f \in Frames : pc[f] = "uncount" /\ s \in ToSet(chunk[f]) => s \in cut \/ ~ Somewhere(s)

\* What a deadly signal's handler owes (DueAreShipped).
Owed(s) ==
  s \in due => /\ host.prev = "default" /\ pc[Handler] \in (Looping \ {"begin"}) \cup {"flush"}
               /\ s \notin elsewhere /\ s \notin Held(Base)
               /\ Somewhere(s) \/ counted[s] > 0
               /\ pc[Handler] = "sweeping" /\ s \in ToSet(open) => s \in ToSet(keys[Handler])
               /\ pc[Handler] \in {"report", "flush"} => s \notin ToSet(open)

Traced ==
  \A s \in Spans : Copies(s) /\ Single(s) /\ Fresh(s) /\ Childs(s) /\ Uncounted(s) /\ Owed(s)

Calm == /\ signals = 0 => pc[Handler] = "idle"
        /\ dead => pc[Handler] = "flush" /\ host.prev = "default"
        /\ host.prev # "default" => pc[Handler] \in {"idle", "state", "flush"}

\* Spans are opened in order, and stand in the table in that order.
Ascending(q) == \A m, n \in DOMAIN q : m < n => q[m] < q[n]
InTurn ==
  /\ \A s \in Spans : block[s] # "new" => s \in host.spans
  /\ \A r, s \in host.spans : r < s /\ block[s] # "new" => block[r] # "new"
  /\ Ascending(open)

\* The oldest are cut off first (RootsFirst).
OldestFirst ==
  signals = 0 =>
    /\ \A s \in ToSet(open), t \in cut : t < s
    /\ \A f \in Frames :
         /\ pc[f] = "pop" => \A s \in ToSet(open) \ ToSet(keys[f]), t \in ToSet(keys[f]) \cup ToSet(chunk[f]) : t < s
         /\ pc[f] \in {"count", "buffer"} => \A s \in ToSet(open), t \in ToSet(chunk[f]) : t < s

OInv ==
  /\ TypeOK /\ Doing /\ Hands /\ OneInside /\ Room /\ Current /\ Calm /\ Distinct
  /\ Traced /\ InTurn /\ OldestFirst /\ InFlightIsHeld

-----------------------------------------------------------------------------
(* Frames, and the sequences and counts of spans.                          *)

LEMMA ThreeFrames ==
  ASSUME OpenSpansAssumption
  PROVE  /\ Base # Handler /\ Base # Beside /\ Handler # Beside
         /\ Base[1] = Main /\ Handler[1] = Main /\ Beside[1] = Other /\ Main # Other
         /\ IsFiniteSet(Frames)
<1>1. Base # Handler /\ Base # Beside /\ Handler # Beside
  BY DEF OpenSpansAssumption, Base, Handler, Beside
<1>2. Base[1] = Main /\ Handler[1] = Main /\ Beside[1] = Other /\ Main # Other
  BY DEF OpenSpansAssumption, Base, Handler, Beside
<1>3. IsFiniteSet({}) /\ Frames = (({} \cup {Base}) \cup {Handler}) \cup {Beside}
  BY FS_EmptySet DEF Frames
<1> QED  BY <1>1, <1>2, <1>3, FS_AddElement

\* What stands in ascending order stands there once.
LEMMA AscendingOnce ==
  ASSUME NEW q \in Seq(Spans), Ascending(q)
  PROVE  Once(q)
<1>1. DOMAIN q = 1 .. Len(q) /\ \A n \in 1 .. Len(q) : q[n] \in Spans
  BY LenProperties, ElementOfSeq
<1> SUFFICES ASSUME NEW m \in 1 .. Len(q), NEW n \in 1 .. Len(q), m # n  PROVE q[m] # q[n]
  BY <1>1 DEF Once
<1>2. q[m] \in Nat /\ q[n] \in Nat
  BY <1>1 DEF Spans
<1>3. m < n \/ n < m
  OBVIOUS
<1> QED  BY <1>1, <1>2, <1>3 DEF Ascending

LEMMA AscendingAppend ==
  ASSUME NEW q \in Seq(Spans), Ascending(q), NEW s \in Spans, \A t \in ToSet(q) : t < s
  PROVE  Ascending(Append(q, s))
<1> DEFINE r == Append(q, s)
<1>1. /\ r \in Seq(Spans) /\ Len(r) = Len(q) + 1 /\ r[Len(q) + 1] = s
      /\ \A n \in 1 .. Len(q) : r[n] = q[n]
  BY AppendProperties
<1>2. DOMAIN q = 1 .. Len(q) /\ DOMAIN r = 1 .. Len(q) + 1 /\ Len(q) \in Nat
  BY <1>1, LenProperties
<1> HIDE DEF r
<1>3. \A n \in 1 .. Len(q) : q[n] < s
  BY <1>2 DEF ToSet
<1> SUFFICES ASSUME NEW m \in 1 .. Len(q) + 1, NEW n \in 1 .. Len(q) + 1, m < n  PROVE r[m] < r[n]
  BY <1>2 DEF Ascending, r
<1>4. m \in 1 .. Len(q)
  BY <1>2
<1>5. CASE n \in 1 .. Len(q)
  BY <1>1, <1>2, <1>4, <1>5 DEF Ascending
<1>6. CASE n = Len(q) + 1
  BY <1>1, <1>3, <1>4, <1>6
<1> QED  BY <1>2, <1>5, <1>6

\* The front of an ascending sequence is older than the rest.
LEMMA AscendingCut ==
  ASSUME NEW q \in Seq(Spans), Ascending(q), NEW k \in 0 .. Len(q), NEW s \in ToSet(q),
         s \notin ToSet(SubSeq(q, 1, k)), NEW t \in ToSet(SubSeq(q, 1, k))
  PROVE  t < s
<1> DEFINE r == SubSeq(q, 1, k)
<1>1. DOMAIN q = 1 .. Len(q) /\ Len(q) \in Nat /\ k \in Nat /\ k <= Len(q) /\ \A n \in 1 .. Len(q) : q[n] \in Spans
  BY LenProperties, ElementOfSeq
<1>2. r \in Seq(Spans) /\ Len(r) = k
  BY OnceCut
<1>3. \A n \in 1 .. k : r[n] = q[n]
  <2>1. 1 \in Int /\ k \in Int /\ \A n \in 1 .. k : q[n] \in Spans
    BY <1>1
  <2>2. \A n \in 1 .. k - 1 + 1 : r[n] = q[1 + n - 1]
    BY <2>1, SubSeqProperties
  <2> QED  BY <1>1, <2>2
<1>4. DOMAIN r = 1 .. k
  BY <1>2, LenProperties
<1> HIDE DEF r
<1>5. PICK m \in 1 .. k : t = q[m]
  BY <1>3, <1>4 DEF ToSet, r
<1>6. PICK n \in 1 .. Len(q) : s = q[n]
  BY <1>1 DEF ToSet
<1>7. n \notin 1 .. k
  BY <1>3, <1>4, <1>6 DEF ToSet, r
<1>8. m < n /\ m \in 1 .. Len(q)
  BY <1>1, <1>7
<1> QED  BY <1>1, <1>5, <1>6, <1>8 DEF Ascending

\* A table without one of its spans.
LEMMA WithoutSpan ==
  ASSUME NEW q \in Seq(Spans), NEW s
  PROVE  /\ Without(q, s) \in Seq(Spans) /\ Len(Without(q, s)) <= Len(q)
         /\ s \notin ToSet(q) => Without(q, s) = q
         /\ Ascending(q) => Ascending(Without(q, s)) /\ ToSet(Without(q, s)) = ToSet(q) \ {s}
<1>1. CASE s \notin ToSet(q)
  <2>1. Without(q, s) = q
    BY <1>1 DEF Without
  <2>2. Len(q) \in Nat
    BY LenProperties
  <2> QED  BY <1>1, <2>1, <2>2
<1>2. CASE s \in ToSet(q)
  <2> DEFINE k == CHOOSE n \in DOMAIN q : q[n] = s
             r == RemoveAt(q, k)
  <2>1. DOMAIN q = 1 .. Len(q) /\ Len(q) \in Nat /\ \A n \in 1 .. Len(q) : q[n] \in Spans
    BY LenProperties, ElementOfSeq
  <2>2. k \in 1 .. Len(q) /\ q[k] = s
    <3>1. \E n \in DOMAIN q : q[n] = s
      BY <1>2 DEF ToSet
    <3> QED  BY <2>1, <3>1
  <2>3. Without(q, s) = r
    BY <1>2 DEF Without
  <2> HIDE DEF k
  <2>4. /\ r \in Seq(Spans) /\ Len(r) = Len(q) - 1
        /\ \A n \in 1 .. Len(q) - 1 : r[n] = IF n < k THEN q[n] ELSE q[n + 1]
    BY <2>2, RemoveAtItems
  <2>5. DOMAIN r = 1 .. Len(q) - 1
    BY <2>4, LenProperties
  <2> HIDE DEF r
  <2> DEFINE up(n) == IF n < k THEN n ELSE n + 1
  <2>6. \A n \in 1 .. Len(q) - 1 : up(n) \in 1 .. Len(q) /\ up(n) # k /\ r[n] = q[up(n)]
    BY <2>1, <2>2, <2>4
  <2>7. \A m, n \in 1 .. Len(q) - 1 : m < n => up(m) < up(n)
    BY <2>1, <2>2
  <2>8. \A n \in 1 .. Len(q) : n # k => \E m \in 1 .. Len(q) - 1 : up(m) = n
    <3> SUFFICES ASSUME NEW n \in 1 .. Len(q), n # k  PROVE \E m \in 1 .. Len(q) - 1 : up(m) = n
      OBVIOUS
    <3>1. CASE n < k
      <4>1. n \in 1 .. Len(q) - 1 /\ up(n) = n
        BY <2>1, <2>2, <3>1
      <4> QED  BY <4>1
    <3>2. CASE n > k
      <4>1. n - 1 \in 1 .. Len(q) - 1 /\ up(n - 1) = n
        BY <2>1, <2>2, <3>2
      <4> QED  BY <4>1
    <3> QED  BY <2>1, <2>2, <3>1, <3>2
  <2> HIDE DEF up
  <2>9. ASSUME Ascending(q)  PROVE Ascending(r) /\ ToSet(r) = ToSet(q) \ {s}
    <3>1. Once(q)
      BY <2>9, AscendingOnce
    <3>2. Ascending(r)
      BY <2>1, <2>5, <2>6, <2>7, <2>9 DEF Ascending
    <3>3. ToSet(r) \subseteq ToSet(q) \ {s}
      <4> SUFFICES ASSUME NEW n \in 1 .. Len(q) - 1  PROVE r[n] \in ToSet(q) /\ r[n] # s
        BY <2>5 DEF ToSet
      <4>1. up(n) \in DOMAIN q /\ up(n) # k /\ r[n] = q[up(n)]
        BY <2>1, <2>6
      <4> QED  BY <2>1, <2>2, <3>1, <4>1 DEF Once, ToSet
    <3>4. ToSet(q) \ {s} \subseteq ToSet(r)
      <4> SUFFICES ASSUME NEW n \in 1 .. Len(q), q[n] # s  PROVE q[n] \in ToSet(r)
        BY <2>1 DEF ToSet
      <4>1. PICK m \in 1 .. Len(q) - 1 : up(m) = n
        BY <2>2, <2>8
      <4> QED  BY <2>5, <2>6, <4>1 DEF ToSet
    <3> QED  BY <3>2, <3>3, <3>4
  <2>10. Len(r) <= Len(q)
    BY <2>1, <2>4
  <2> QED  BY <1>2, <2>3, <2>4, <2>9, <2>10
<1> QED  BY <1>1, <1>2

\* What was added to the count of a span.
LEMMA AddOne ==
  ASSUME NEW n \in [Spans -> Nat], NEW items \in Seq(Spans)
  PROVE  /\ Add(n, items) \in [Spans -> Nat]
         /\ \A s \in Spans : Add(n, items)[s] = n[s] + Occurs(s, items) /\ Occurs(s, items) \in Nat
         /\ Once(items) => \A s \in Spans : Add(n, items)[s] = n[s] + Bit(s \in ToSet(items))
<1>1. \A s \in Spans : Occurs(s, items) \in Nat
  BY OccursNone
<1>2. Once(items) => \A s \in Spans : Occurs(s, items) = Bit(s \in ToSet(items))
  BY OccursBit
<1> QED  BY <1>1, <1>2 DEF Add

-----------------------------------------------------------------------------
(* What a step may change.                                                 *)

\* A step of frame f, but for those of a signal and of a fork.
Acts(f) ==
  \/ \E s \in Spans : Open(f, s) \/ End(f, s)
  \/ EndPop(f) \/ Emit(f)
  \/ \E what \in {"close", "init"} : Call(f, what)
  \/ Enter(f) \/ Interrupting(f) \/ Shut(f) \/ SetClient(f)

\* It leaves the process and the other frames as they are.
OnlyFrame(f) ==
  /\ dead' = dead /\ forked' = forked /\ signals' = signals /\ host' = host
  /\ unwound' = unwound /\ parents' = parents
  /\ \A g \in Frames \ {f} : /\ pc'[g] = pc[g] /\ op'[g] = op[g] /\ using'[g] = using[g]
                            /\ keys'[g] = keys[g] /\ chunk'[g] = chunk[g]

\* The smallest of some numbers.
LEMMA MinOf ==
  ASSUME NEW a \in Nat, NEW b \in Nat, NEW c \in Nat
  PROVE  /\ Min({a, b}) \in Nat /\ Min({a, b}) <= a /\ Min({a, b}) <= b
         /\ Min({a, b, c}) \in Nat /\ Min({a, b, c}) <= a /\ Min({a, b, c}) <= b /\ Min({a, b, c}) <= c
<1>1. \E x \in {a, b} : \A y \in {a, b} : x <= y
  <2>1. a <= b \/ b <= a
    OBVIOUS
  <2> QED  BY <2>1
<1>2. \E x \in {a, b, c} : \A y \in {a, b, c} : x <= y
  <2>1. \/ a <= b /\ a <= c
        \/ b <= a /\ b <= c
        \/ c <= a /\ c <= b
    OBVIOUS
  <2> QED  BY <2>1
<1>3. Min({a, b}) \in {a, b} /\ \A y \in {a, b} : Min({a, b}) <= y
  BY <1>1 DEF Min
<1>4. Min({a, b, c}) \in {a, b, c} /\ \A y \in {a, b, c} : Min({a, b, c}) <= y
  BY <1>2 DEF Min
<1> QED  BY <1>3, <1>4

\* A captured span takes the oldest one's place, when the buffer is full.
LEMMA CaptureKept ==
  ASSUME TypeOK, OpenSpansAssumption, NEW c \in Clients \ closed, NEW items \in Seq(Spans), Capture(c, items)
  PROVE  LET all == buffer[c] \o items
         IN  \E over \in 0 .. Len(all) :
               /\ buffer' = [buffer EXCEPT ![c] = SubSeq(all, over + 1, Len(all))]
               /\ counted' = Add(counted, SubSeq(all, 1, over))
               /\ Len(all) - over <= MaxBuffer
               /\ all \in Seq(Spans)
<1> DEFINE all == buffer[c] \o items
           over == IF Len(all) > MaxBuffer THEN Len(all) - MaxBuffer ELSE 0
<1>1. buffer[c] \in Seq(Spans)
  BY DEF TypeOK
<1>2. all \in Seq(Spans) /\ Len(all) \in Nat /\ MaxBuffer \in Nat \ {0}
  BY <1>1, ConcatProperties, LenProperties DEF OpenSpansAssumption
<1>3. /\ buffer' = [buffer EXCEPT ![c] = SubSeq(all, over + 1, Len(all))]
      /\ counted' = Add(counted, SubSeq(all, 1, over))
  BY DEF Capture
<1> HIDE DEF all
<1>4. over \in 0 .. Len(all) /\ Len(all) - over <= MaxBuffer
  BY <1>2
<1> HIDE DEF over
<1> QED  BY <1>2, <1>3, <1>4 DEF all

LEMMA CaptureTypes ==
  ASSUME TypeOK, OpenSpansAssumption, NEW c \in Clients, NEW items \in Seq(Spans), Capture(c, items)
  PROVE  /\ buffer' \in [Clients -> Seq(Spans)] /\ \A d \in Clients : Len(buffer'[d]) <= MaxBuffer
         /\ counted' \in [Spans -> Nat]
<1>1. CASE c \in closed
  BY <1>1, AddOne, ZenonT(60) DEF Capture, TypeOK
<1>2. CASE c \notin closed
  <2> DEFINE all == buffer[c] \o items
  <2>1. PICK over \in 0 .. Len(all) :
          /\ buffer' = [buffer EXCEPT ![c] = SubSeq(all, over + 1, Len(all))]
          /\ counted' = Add(counted, SubSeq(all, 1, over))
          /\ Len(all) - over <= MaxBuffer
          /\ all \in Seq(Spans)
    BY <1>2, CaptureKept
  <2> HIDE DEF all
  <2> DEFINE new == SubSeq(all, over + 1, Len(all))
             old == SubSeq(all, 1, over)
  <2>2. new \in Seq(Spans) /\ Len(new) = Len(all) - over /\ old \in Seq(Spans)
    BY <2>1, OnceCut
  <2>3. buffer' = [buffer EXCEPT ![c] = new] /\ counted' = Add(counted, old) /\ Len(new) <= MaxBuffer
    BY <2>1, <2>2
  <2> HIDE DEF new, old
  <2>4. counted' \in [Spans -> Nat]
    BY <2>2, <2>3, AddOne DEF TypeOK
  <2>5. buffer' \in [Clients -> Seq(Spans)] /\ \A d \in Clients : Len(buffer'[d]) <= MaxBuffer
    BY <2>2, <2>3 DEF TypeOK
  <2> QED  BY <2>4, <2>5
<1> QED  BY <1>1, <1>2

\* Of a chunk that returns to the buffer as much is kept as fits.
LEMMA BufferKept ==
  ASSUME TypeOK, OpenSpansAssumption, NEW f \in Frames, using[f] \notin closed, BufferChunk(f)
  PROVE  LET c == using[f]
             all == chunk[f]
         IN  \E k \in 0 .. Len(all) :
               /\ buffer' = [buffer EXCEPT ![c] = SubSeq(all, 1, k) \o buffer[c]]
               /\ counted' = Add(counted, SubSeq(all, k + 1, Len(all)))
               /\ cut' = cut \cup ToSet(SubSeq(all, 1, k))
               /\ k + Len(buffer[c]) <= MaxBuffer
               /\ pc' = [pc EXCEPT ![f] = "uncount"]
<1> DEFINE c == using[f]
           all == chunk[f]
           k == Min({Fits(c), Len(all)})
           kept == SubSeq(all, 1, k)
<1>1. c \in Clients /\ buffer[c] \in Seq(Spans) /\ all \in Seq(Spans) /\ MaxBuffer \in Nat \ {0} /\ Len(buffer[c]) <= MaxBuffer
  BY DEF TypeOK, OpenSpansAssumption
<1>2. Len(all) \in Nat /\ Len(buffer[c]) \in Nat
  BY <1>1, LenProperties
<1>3. Fits(c) \in Nat /\ Fits(c) + Len(buffer[c]) <= MaxBuffer
  <2>1. \A a, b \in Nat : a <= b => IF a < b THEN b - a \in Nat /\ b - a + a <= b ELSE 0 + a <= b
    OBVIOUS
  <2> DEFINE n == Len(buffer[c])
  <2>2. n \in Nat /\ n <= MaxBuffer /\ MaxBuffer \in Nat
    BY <1>1, <1>2
  <2>3. Fits(c) = IF n < MaxBuffer THEN MaxBuffer - n ELSE 0
    BY DEF Fits
  <2> HIDE DEF n
  <2>4. CASE n < MaxBuffer
    BY <2>1, <2>2, <2>3, <2>4 DEF n
  <2>5. CASE ~ (n < MaxBuffer)
    BY <2>1, <2>2, <2>3, <2>5 DEF n
  <2> QED  BY <2>4, <2>5
<1>4. k \in Nat /\ k <= Len(all) /\ k <= Fits(c)
  BY <1>2, <1>3, MinOf
<1>5. /\ buffer' = [buffer EXCEPT ![c] = kept \o buffer[c]]
      /\ counted' = Add(counted, SubSeq(all, Len(kept) + 1, Len(all)))
      /\ cut' = cut \cup ToSet(kept)
      /\ pc' = [pc EXCEPT ![f] = "uncount"]
  BY DEF BufferChunk, Goto
<1> HIDE DEF k, all, c
<1>6. Len(kept) = k
  BY <1>1, <1>2, <1>4, OnceCut
<1>7. k \in 0 .. Len(all) /\ k + Len(buffer[c]) <= MaxBuffer
  BY <1>1, <1>2, <1>3, <1>4
<1> QED  BY <1>5, <1>6, <1>7 DEF all, c

LEMMA BufferTypes ==
  ASSUME TypeOK, OpenSpansAssumption, NEW f \in Frames, BufferChunk(f)
  PROVE  /\ buffer' \in [Clients -> Seq(Spans)] /\ \A d \in Clients : Len(buffer'[d]) <= MaxBuffer
         /\ counted' \in [Spans -> Nat] /\ cut' \subseteq Spans
<1>1. CASE using[f] \in closed
  BY <1>1 DEF BufferChunk, TypeOK
<1>2. CASE using[f] \notin closed
  <2> DEFINE c == using[f]
             all == chunk[f]
             b == buffer[c]
  <2>1. PICK k \in 0 .. Len(all) :
          /\ buffer' = [buffer EXCEPT ![c] = SubSeq(all, 1, k) \o buffer[c]]
          /\ counted' = Add(counted, SubSeq(all, k + 1, Len(all)))
          /\ cut' = cut \cup ToSet(SubSeq(all, 1, k))
          /\ k + Len(buffer[c]) <= MaxBuffer
    BY <1>2, BufferKept
  <2>2. all \in Seq(Spans) /\ b \in Seq(Spans) /\ c \in Clients
    BY DEF TypeOK
  <2> DEFINE kept == SubSeq(all, 1, k)
             over == SubSeq(all, k + 1, Len(all))
             new == kept \o b
  <2> HIDE DEF all, c, b
  <2>3. kept \in Seq(Spans) /\ Len(kept) = k /\ over \in Seq(Spans)
    BY <2>2, OnceCut
  <2>4. buffer' = [buffer EXCEPT ![c] = new] /\ counted' = Add(counted, over) /\ cut' = cut \cup ToSet(kept)
        /\ k + Len(b) <= MaxBuffer
    BY <2>1 DEF b
  <2> HIDE DEF kept, over
  <2>5. new \in Seq(Spans) /\ Len(new) = Len(kept) + Len(b)
    BY <2>2, <2>3, ConcatProperties
  <2> HIDE DEF new
  <2>6. Len(new) <= MaxBuffer
    BY <2>3, <2>4, <2>5
  <2>7. counted' \in [Spans -> Nat]
    BY <2>3, <2>4, AddOne DEF TypeOK
  <2>8. buffer' \in [Clients -> Seq(Spans)] /\ \A d \in Clients : Len(buffer'[d]) <= MaxBuffer
    BY <2>2, <2>4, <2>5, <2>6 DEF TypeOK
  <2>9. cut' \subseteq Spans
    BY <2>3, <2>4, ToSetSeq DEF TypeOK
  <2> QED  BY <2>7, <2>8, <2>9
<1> QED  BY <1>1, <1>2

\* What is in flight, frame by frame (InFlightIsHeld).
Parts == [g \in Frames |-> IF pc[g] \in Midway THEN Len(chunk[g]) ELSE 0]

LEMMA FlightType ==
  ASSUME TypeOK, OpenSpansAssumption, InFlightIsHeld
  PROVE  /\ Parts \in [Frames -> Nat] /\ IsFiniteSet(Cells(Parts)) /\ in_flight = Total(Parts)
         /\ \A f \in Frames : pc[f] \in Midway => Len(chunk[f]) \in Nat /\ Len(chunk[f]) <= in_flight
<1>1. \A g \in Frames : Len(chunk[g]) \in Nat
  BY EmptyLen DEF TypeOK
<1>2. Parts \in [Frames -> Nat]
  BY <1>1 DEF Parts
<1>3. IsFiniteSet(Frames)
  BY ThreeFrames
<1>4. IsFiniteSet(Cells(Parts)) /\ in_flight = Total(Parts)
  BY <1>2, <1>3, TotalType DEF InFlightIsHeld, Parts
<1>5. ASSUME NEW f \in Frames, pc[f] \in Midway  PROVE Len(chunk[f]) <= in_flight
  <2>1. Parts[f] = Len(chunk[f])
    BY <1>5 DEF Parts
  <2>2. Parts[f] <= Total(Parts)
    BY <1>2, <1>4, TotalAtLeast
  <2> QED  BY <1>4, <2>1, <2>2
<1> QED  BY <1>1, <1>2, <1>4, <1>5

\* A buffer is drained, or stays.
LEMMA DrainTypes ==
  ASSUME TypeOK, NEW c \in Clients, Drain(c)
  PROVE  /\ buffer' \in [Clients -> Seq(Spans)] /\ \A d \in Clients : Len(buffer'[d]) <= MaxBuffer
         /\ shipped' \in [Spans -> Nat]
<1>1. CASE UNCHANGED <<buffer, shipped>>
  BY <1>1 DEF TypeOK
<1>2. CASE buffer' = [buffer EXCEPT ![c] = <<>>] /\ shipped' = Add(shipped, buffer[c])
  <2>1. <<>> \in Seq(Spans) /\ Len(<<>>) = 0 /\ buffer[c] \in Seq(Spans)
    BY DEF TypeOK
  <2>2. 0 <= MaxBuffer
    BY OpenSpansAssumption DEF OpenSpansAssumption
  <2>3. shipped' \in [Spans -> Nat]
    BY <1>2, <2>1, AddOne DEF TypeOK
  <2> QED  BY <1>2, <2>1, <2>2, <2>3 DEF TypeOK
<1> QED  BY <1>1, <1>2 DEF Drain

\* A frame takes one key after the other, and the span too if it is still in the table.
LEMMA PopTypes ==
  ASSUME TypeOK, NEW f \in Frames, NEW label \in Pcs, NEW next \in Pcs, Pop(f, label, next)
  PROVE  /\ open' \in Seq(Spans) /\ Len(open') <= Len(open) /\ pc' \in [Frames -> Pcs]
         /\ keys' \in [Frames -> Seq(Spans)] /\ chunk' \in [Frames -> Seq(Spans)]
         /\ \A g \in Frames \ {f} : pc'[g] = pc[g] /\ keys'[g] = keys[g] /\ chunk'[g] = chunk[g]
<1>1. CASE keys[f] = <<>>
  <2>1. Len(open) \in Nat
    BY EmptyLen DEF TypeOK
  <2>2. open' = open /\ keys' = keys /\ chunk' = chunk /\ pc' = [pc EXCEPT ![f] = next]
    BY <1>1 DEF Pop, Goto
  <2> QED  BY <2>1, <2>2 DEF TypeOK
<1>2. CASE keys[f] # <<>>
  <2> DEFINE s == Head(keys[f])
             more == IF s \in ToSet(open) THEN Append(chunk[f], s) ELSE chunk[f]
             rest == Tail(keys[f])
  <2>1. s \in Spans /\ rest \in Seq(Spans)
    BY <1>2, HeadTailProperties DEF TypeOK
  <2>2. open' = Without(open, s) /\ keys' = [keys EXCEPT ![f] = rest] /\ chunk' = [chunk EXCEPT ![f] = more] /\ pc' = pc
    BY <1>2 DEF Pop, Put, TypeOK
  <2>3. open' \in Seq(Spans) /\ Len(open') <= Len(open)
    BY <2>2, WithoutSpan DEF TypeOK
  <2>4. more \in Seq(Spans)
    BY <2>1, AppendProperties DEF TypeOK
  <2> HIDE DEF s, more, rest
  <2> QED  BY <2>1, <2>2, <2>3, <2>4 DEF TypeOK
<1> QED  BY <1>1, <1>2

\* The frames inside of init(), of which there are two at most.
LEMMA InitsCount ==
  ASSUME OpenSpansAssumption, Doing
  PROVE  Cardinality({g \in Frames : op[g] = "init"}) = Bit(op[Base] = "init") + Bit(op[Beside] = "init")
<1>0. op[Handler] # "init" /\ Base # Beside
  <2>1. Handler \in Frames
    BY DEF Frames
  <2> QED  BY <2>1, ThreeFrames DEF Doing
<1> DEFINE inits == {g \in Frames : op[g] = "init"}
<1>1. inits = {g \in {Base, Beside} : op[g] = "init"}
  BY <1>0 DEF Frames
<1>2. CASE op[Base] = "init" /\ op[Beside] = "init"
  <2>1. inits = {Base} \cup {Beside}
    BY <1>1, <1>2
  <2>2. IsFiniteSet({Base}) /\ Cardinality({Base}) = 1
    BY FS_Singleton
  <2>3. Cardinality({Base} \cup {Beside}) = Cardinality({Base}) + 1
    BY <1>0, <2>2, FS_AddElement
  <2> QED  BY <1>2, <2>1, <2>2, <2>3 DEF Bit
<1>3. CASE op[Base] = "init" /\ op[Beside] # "init"
  <2>1. inits = {Base}
    BY <1>1, <1>3
  <2> QED  BY <1>3, <2>1, FS_Singleton DEF Bit
<1>4. CASE op[Base] # "init" /\ op[Beside] = "init"
  <2>1. inits = {Beside}
    BY <1>1, <1>4
  <2> QED  BY <1>4, <2>1, FS_Singleton DEF Bit
<1>5. CASE op[Base] # "init" /\ op[Beside] # "init"
  <2>1. inits = {}
    BY <1>1, <1>5
  <2> QED  BY <1>5, <2>1, FS_EmptySet DEF Bit
<1> QED  BY <1>2, <1>3, <1>4, <1>5

\* The keys taken next are the oldest in the table, and there are some.
LEMMA NextKeysCut ==
  ASSUME TypeOK, OpenSpansAssumption, NEW c \in Clients
  PROVE  \E k \in 0 .. Len(open) : NextKeys(Fits(c)) = SubSeq(open, 1, k) /\ SubSeq(open, 1, k) \in Seq(Spans)
<1> DEFINE b == Len(buffer[c])
           room == Fits(c)
           n == Len(open)
           k == Min({room, Chunk, n})
<1>1. b \in Nat /\ MaxBuffer \in Nat /\ Chunk \in Nat /\ n \in Nat /\ open \in Seq(Spans)
  BY EmptyLen DEF TypeOK, OpenSpansAssumption
<1>2. room \in Nat
  <2>1. room = IF b < MaxBuffer THEN MaxBuffer - b ELSE 0
    BY DEF Fits
  <2> HIDE DEF room, b
  <2>2. CASE b < MaxBuffer
    BY <1>1, <2>1, <2>2
  <2>3. CASE ~ (b < MaxBuffer)
    BY <2>1, <2>3
  <2> QED  BY <2>2, <2>3
<1> HIDE DEF room
<1>3. k \in Nat /\ k <= n
  BY <1>1, <1>2, MinOf
<1>4. NextKeys(room) = SubSeq(open, 1, k)
  BY DEF NextKeys
<1> HIDE DEF k
<1>5. k \in 0 .. n
  BY <1>1, <1>3
<1>6. SubSeq(open, 1, k) \in Seq(Spans)
  BY <1>1, <1>5, OnceCut
<1> QED  BY <1>4, <1>5, <1>6 DEF room

\* A handler's report counts what it holds, and what it found in flight.
LEMMA ReportTypes ==
  ASSUME TypeOK, OpenSpansAssumption, NEW f \in Frames, Report(f)
  PROVE  /\ counted' \in [Spans -> Nat]
         /\ \A s \in Spans : /\ InFlight(s) \in Nat /\ Occurs(s, chunk[f]) \in Nat
                            /\ counted'[s] = counted[s] + Occurs(s, chunk[f]) + (IF Signalled(f) THEN InFlight(s) ELSE 0)
<1>1. ASSUME NEW s \in Spans  PROVE InFlight(s) \in Nat /\ Occurs(s, chunk[f]) \in Nat
  <2>1. \A g \in Frames : Occurs(s, chunk[g]) \in Nat
    BY OccursNone DEF TypeOK
  <2> DEFINE n == [g \in Frames |-> IF pc[g] \in Midway THEN Occurs(s, chunk[g]) ELSE 0]
  <2>2. n \in [Frames -> Nat] /\ IsFiniteSet(Frames)
    BY <2>1, ThreeFrames
  <2> HIDE DEF n
  <2>3. Total(n) \in Nat
    BY <2>2, TotalType
  <2> QED  BY <2>1, <2>3 DEF n, InFlight
<1>2. \A s \in Spans : counted'[s] = counted[s] + Occurs(s, chunk[f]) + (IF Signalled(f) THEN InFlight(s) ELSE 0)
  BY DEF Report
<1>3. ASSUME NEW s \in Spans  PROVE counted'[s] \in Nat
  <2>1. counted[s] \in Nat
    BY DEF TypeOK
  <2>2. CASE Signalled(f)
    BY <1>1, <1>2, <2>1, <2>2
  <2>3. CASE ~ Signalled(f)
    BY <1>1, <1>2, <2>1, <2>3
  <2> QED  BY <2>2, <2>3
<1>4. counted' = [s \in Spans |-> counted'[s]]
  BY DEF Report
<1>5. counted' \in [Spans -> Nat]
  BY ONLY <1>3, <1>4
<1> QED  BY <1>1, <1>2, <1>5

\* Every step of a frame keeps the types, and is that frame's.
LEMMA StepTypes ==
  ASSUME OpenSpansAssumption, TypeOK, Doing, Hands, Room, InFlightIsHeld, NEW f \in Frames, Acts(f)
  PROVE  TypeOK' /\ OnlyFrame(f)
<1> USE DEF Goto, Put, clients, blocks, calls, process, ghosts
<1>0. <<>> \in Seq(Spans)
  OBVIOUS
<1>1. ASSUME NEW s \in Spans, Open(f, s)  PROVE TypeOK' /\ OnlyFrame(f)
  <2>1. open' \in Seq(Spans) /\ Len(open') <= MaxOpen
    <3>1. CASE Len(open) >= MaxOpen
      BY <1>1, <3>1 DEF Open, TypeOK
    <3>2. CASE ~ (Len(open) >= MaxOpen)
      <4>1. Append(open, s) \in Seq(Spans) /\ Len(Append(open, s)) = Len(open) + 1
        BY AppendProperties DEF TypeOK
      <4>2. Len(open) \in Nat /\ MaxOpen \in Nat
        BY EmptyLen DEF TypeOK, OpenSpansAssumption
      <4>3. open' = Append(open, s)
        BY <1>1, <3>2 DEF Open
      <4> QED  BY <3>2, <4>1, <4>2, <4>3
    <3> QED  BY <3>1, <3>2
  <2>2. elsewhere' \subseteq Spans
    BY <1>1 DEF Open, TypeOK
  <2>3. block' \in [Spans -> {"new", "open", "ended", "copied"}]
    BY <1>1 DEF Open, TypeOK
  <2> QED  BY <1>1, <2>1, <2>2, <2>3 DEF Open, TypeOK, OnlyFrame
<1>2. ASSUME NEW s \in Spans, End(f, s)  PROVE TypeOK' /\ OnlyFrame(f)
  <2>1. block' \in [Spans -> {"new", "open", "ended", "copied"}]
    BY <1>2 DEF End, TypeOK
  <2>2. <<s>> \in Seq(Spans)
    OBVIOUS
  <2>3. using' \in [Frames -> Clients] /\ keys' \in [Frames -> Seq(Spans)]
    BY <1>2, <2>2 DEF End, TypeOK
  <2>4. pc' \in [Frames -> Pcs] /\ op' \in [Frames -> {Nothing, "end", "close", "init", "signal"}]
    BY <1>2 DEF End, TypeOK, Pcs
  <2>5. \A g \in Frames \ {f} : pc'[g] = pc[g] /\ op'[g] = op[g] /\ using'[g] = using[g] /\ keys'[g] = keys[g]
    BY <1>2 DEF End, TypeOK
  <2> QED  BY <1>2, <2>1, <2>3, <2>4, <2>5 DEF End, TypeOK, OnlyFrame
<1>3. CASE EndPop(f)
  <2> DEFINE s == Head(keys[f])
             mine == IF Takes(s) THEN <<s>> ELSE <<>>
  <2>1. s \in Spans
    <3>1. keys[f] \in Seq(Spans) /\ Len(keys[f]) = 1
      BY <1>3 DEF EndPop, At, Hands, TypeOK
    <3>2. keys[f] # <<>>
      BY <3>1, EmptyLen
    <3> QED  BY <3>1, <3>2, HeadTailProperties
  <2>2. mine \in Seq(Spans)
    BY <2>1
  <2>3. /\ open' = Without(open, s) /\ elsewhere' = elsewhere \ {s} /\ chunk' = [chunk EXCEPT ![f] = mine]
        /\ keys' = [keys EXCEPT ![f] = <<>>] /\ pc' = [pc EXCEPT ![f] = "emit"]
    BY <1>3 DEF EndPop
  <2> HIDE DEF s, mine
  <2>4. open' \in Seq(Spans) /\ Len(open') <= Len(open) /\ Len(open) <= MaxOpen
    BY <2>3, WithoutSpan DEF TypeOK
  <2>5. Len(open') <= MaxOpen
    <3>1. Len(open') \in Nat /\ Len(open) \in Nat /\ MaxOpen \in Nat
      BY <2>4, EmptyLen DEF TypeOK, OpenSpansAssumption
    <3> QED  BY <2>4, <3>1
  <2>6. /\ chunk' \in [Frames -> Seq(Spans)] /\ keys' \in [Frames -> Seq(Spans)] /\ pc' \in [Frames -> Pcs]
        /\ \A g \in Frames \ {f} : pc'[g] = pc[g] /\ keys'[g] = keys[g] /\ chunk'[g] = chunk[g]
    BY <1>0, <2>2, <2>3 DEF TypeOK, Pcs
  <2> QED  BY <1>3, <2>3, <2>4, <2>5, <2>6 DEF EndPop, TypeOK, OnlyFrame
<1>4. CASE Emit(f)
  <2>1. using[f] \in Clients /\ chunk[f] \in Seq(Spans) /\ Capture(using[f], chunk[f])
    BY <1>4 DEF Emit, TypeOK
  <2>2. /\ buffer' \in [Clients -> Seq(Spans)] /\ \A d \in Clients : Len(buffer'[d]) <= MaxBuffer
        /\ counted' \in [Spans -> Nat]
    BY <2>1, CaptureTypes
  <2>3. /\ chunk' \in [Frames -> Seq(Spans)] /\ pc' \in [Frames -> Pcs]
        /\ op' \in [Frames -> {Nothing, "end", "close", "init", "signal"}]
        /\ \A g \in Frames \ {f} : pc'[g] = pc[g] /\ op'[g] = op[g] /\ chunk'[g] = chunk[g]
    BY <1>0, <1>4 DEF Emit, Return, TypeOK, Pcs
  <2> QED  BY <1>4, <2>2, <2>3 DEF Emit, TypeOK, OnlyFrame
<1>5. ASSUME NEW what \in {"close", "init"}, Call(f, what)  PROVE TypeOK' /\ OnlyFrame(f)
  BY <1>5 DEF Call, TypeOK, OnlyFrame, Pcs
<1>6. CASE Enter(f)
  BY <1>6 DEF Enter, TypeOK, OnlyFrame, Pcs
<1>7. CASE Begin(f)
  <2>1. pc' \in [Frames -> Pcs] /\ \A g \in Frames \ {f} : pc'[g] = pc[g]
    BY <1>7 DEF Begin, After, TypeOK, Pcs
  <2>2. due' \subseteq Spans
    BY <1>7, ToSetSeq DEF Begin, TypeOK
  <2> QED  BY <1>7, <2>1, <2>2 DEF Begin, TypeOK, OnlyFrame
<1>8. CASE Interrupt(f)
  <2>1. pc' \in [Frames -> Pcs] /\ \A g \in Frames \ {f} : pc'[g] = pc[g]
    BY <1>8 DEF Interrupt, TypeOK, Pcs
  <2>2. /\ buffer' \in [Clients -> Seq(Spans)] /\ \A d \in Clients : Len(buffer'[d]) <= MaxBuffer
        /\ shipped' \in [Spans -> Nat]
    <3>1. using[f] \in Clients
      BY DEF TypeOK
    <3>2. Drain(using[f]) \/ UNCHANGED <<buffer, shipped>>
      BY <1>8 DEF Interrupt
    <3> QED  BY <3>1, <3>2, DrainTypes DEF TypeOK
  <2>3. keys' \in [Frames -> Seq(Spans)] /\ \A g \in Frames \ {f} : keys'[g] = keys[g]
    <3> DEFINE next == NextKeys(Fits(using[f]))
    <3>1. keys' = keys \/ keys' = [keys EXCEPT ![f] = next]
      BY <1>8 DEF Interrupt
    <3>2. next \in Seq(Spans)
      <4>1. using[f] \in Clients
        BY DEF TypeOK
      <4> QED  BY <4>1, NextKeysCut
    <3> HIDE DEF next
    <3> QED  BY <3>1, <3>2, ZenonT(60) DEF TypeOK
  <2> QED  BY <1>8, <2>1, <2>2, <2>3 DEF Interrupt, TypeOK, OnlyFrame
<1>9. CASE PopKey(f) \/ PopLeft(f)
  <2>1. PICK label \in Pcs, next \in Pcs : Pop(f, label, next)
    BY <1>9 DEF PopKey, PopLeft, Pcs
  <2>2. /\ open' \in Seq(Spans) /\ Len(open') <= Len(open) /\ pc' \in [Frames -> Pcs]
        /\ keys' \in [Frames -> Seq(Spans)] /\ chunk' \in [Frames -> Seq(Spans)]
        /\ \A g \in Frames \ {f} : pc'[g] = pc[g] /\ keys'[g] = keys[g] /\ chunk'[g] = chunk[g]
    BY <2>1, PopTypes
  <2>3. Len(open') <= MaxOpen
    <3>1. Len(open') \in Nat /\ Len(open) \in Nat /\ MaxOpen \in Nat /\ Len(open) <= MaxOpen
      BY <2>2, EmptyLen DEF TypeOK, OpenSpansAssumption
    <3> QED  BY <2>2, <3>1
  <2> QED  BY <2>1, <2>2, <2>3 DEF Pop, TypeOK, OnlyFrame
<1>10. CASE CountChunk(f)
  <2>1. in_flight + Len(chunk[f]) \in Nat
    BY EmptyLen DEF TypeOK
  <2> QED  BY <1>10, <2>1 DEF CountChunk, TypeOK, OnlyFrame, Pcs
<1>11. CASE BufferChunk(f)
  <2>1. /\ buffer' \in [Clients -> Seq(Spans)] /\ \A d \in Clients : Len(buffer'[d]) <= MaxBuffer
        /\ counted' \in [Spans -> Nat] /\ cut' \subseteq Spans
    BY <1>11, BufferTypes
  <2>2. pc' \in [Frames -> Pcs] /\ \A g \in Frames \ {f} : pc'[g] = pc[g]
    BY <1>11 DEF BufferChunk, TypeOK, Pcs
  <2> QED  BY <1>11, <2>1, <2>2 DEF BufferChunk, TypeOK, OnlyFrame
<1>12. CASE Uncount(f)
  <2>1. in_flight' \in Nat
    <3>1. Len(chunk[f]) \in Nat /\ Len(chunk[f]) <= in_flight /\ in_flight \in Nat
      BY <1>12, FlightType DEF Uncount, Midway, TypeOK
    <3>2. in_flight' = in_flight - Len(chunk[f])
      BY <1>12 DEF Uncount
    <3> QED  BY <3>1, <3>2
  <2>2. /\ pc' \in [Frames -> Pcs] /\ chunk' \in [Frames -> Seq(Spans)]
        /\ \A g \in Frames \ {f} : pc'[g] = pc[g] /\ chunk'[g] = chunk[g]
    <3>1. CASE pc[f] = "uncount"
      <4>1. chunk' = [chunk EXCEPT ![f] = <<>>] /\ pc' = [pc EXCEPT ![f] = "interrupt"]
        BY <1>12, <3>1 DEF Uncount
      <4> QED  BY <1>0, <4>1 DEF TypeOK, Pcs
    <3>2. CASE pc[f] # "uncount"
      BY <1>12, <3>2 DEF Uncount, TypeOK, Pcs
    <3> QED  BY <3>1, <3>2
  <2> QED  BY <1>12, <2>1, <2>2 DEF Uncount, TypeOK, OnlyFrame
<1>13. CASE Sweep(f)
  <2>1. counted' \in [Spans -> Nat]
    BY <1>13, AddOne DEF Sweep, TypeOK
  <2>2. /\ pc' \in [Frames -> Pcs] /\ chunk' \in [Frames -> Seq(Spans)] /\ keys' \in [Frames -> Seq(Spans)]
        /\ \A g \in Frames \ {f} : pc'[g] = pc[g] /\ chunk'[g] = chunk[g] /\ keys'[g] = keys[g]
    BY <1>0, <1>13 DEF Sweep, TypeOK, Pcs
  <2> QED  BY <1>13, <2>1, <2>2 DEF Sweep, TypeOK, OnlyFrame
<1>14. CASE Report(f)
  <2>1. counted' \in [Spans -> Nat]
    BY <1>14, ReportTypes
  <2>2. /\ pc' \in [Frames -> Pcs] /\ chunk' \in [Frames -> Seq(Spans)]
        /\ \A g \in Frames \ {f} : pc'[g] = pc[g] /\ chunk'[g] = chunk[g]
    BY <1>0, <1>14 DEF Report, After, TypeOK, Pcs
  <2> QED  BY <1>14, <2>1, <2>2 DEF Report, TypeOK, OnlyFrame
<1>15. CASE Shut(f)
  <2> DEFINE c == using[f]
             b == buffer[c]
  <2>1. c \in Clients /\ b \in Seq(Spans)
    BY DEF TypeOK
  <2>2. /\ closed' = closed \cup {c} /\ buffer' = [buffer EXCEPT ![c] = <<>>]
        /\ \/ shipped' = Add(shipped, b) /\ counted' = counted
           \/ counted' = Add(counted, b) /\ shipped' = shipped
    BY <1>15 DEF Shut
  <2> HIDE DEF c, b
  <2>3. shipped' \in [Spans -> Nat] /\ counted' \in [Spans -> Nat]
    <3>1. shipped \in [Spans -> Nat] /\ counted \in [Spans -> Nat]
      BY DEF TypeOK
    <3>2. Add(shipped, b) \in [Spans -> Nat] /\ Add(counted, b) \in [Spans -> Nat]
      BY <2>1, <3>1, AddOne
    <3> QED  BY <2>2, <3>1, <3>2
  <2>4. buffer' \in [Clients -> Seq(Spans)] /\ \A d \in Clients : Len(buffer'[d]) <= MaxBuffer
    <3>1. Len(<<>>) = 0 /\ 0 <= MaxBuffer
      BY DEF OpenSpansAssumption
    <3> QED  BY <1>0, <2>1, <2>2, <3>1 DEF TypeOK
  <2>5. closed' \subseteq Clients
    BY <2>1, <2>2 DEF TypeOK
  <2>6. /\ pc' \in [Frames -> Pcs] /\ op' \in [Frames -> {Nothing, "end", "close", "init", "signal"}]
        /\ \A g \in Frames \ {f} : pc'[g] = pc[g] /\ op'[g] = op[g]
    BY <1>15 DEF Shut, Return, TypeOK, Pcs
  <2> QED  BY <1>15, <2>3, <2>4, <2>5, <2>6 DEF Shut, TypeOK, OnlyFrame
<1>16. CASE SetClient(f)
  <2>1. client' \in Clients
    <3>1. op[f] = "init" /\ f # Handler /\ client \in Nat /\ client >= 1 /\ MaxClients \in Nat
      <4>1. pc[f] = "set"
        BY <1>16 DEF SetClient, At
      <4>2. op[f] \notin {Nothing, "signal", "end", "close"}
        BY <4>1 DEF Doing, Looping, Nothing
      <4>3. op[f] \in {Nothing, "end", "close", "init", "signal"}
        BY DEF TypeOK
      <4>4. f # Handler
        BY <4>1, <4>2 DEF Doing
      <4>5. client \in Nat /\ client >= 1 /\ MaxClients \in Nat
        BY DEF TypeOK, Clients, OpenSpansAssumption
      <4> QED  BY <4>2, <4>3, <4>4, <4>5
    <3>2. f = Base \/ f = Beside
      BY <3>1 DEF Frames
    <3>3. client + 1 <= MaxClients
      <4>1. Bit(op[Base] = "init") = 1 \/ Bit(op[Beside] = "init") = 1
        BY <3>1, <3>2 DEF Bit
      <4>2. Bit(op[Base] = "init") \in {0, 1} /\ Bit(op[Beside] = "init") \in {0, 1}
        BY DEF Bit
      <4> QED  BY <3>1, <4>1, <4>2 DEF Room
    <3> QED  BY <1>16, <3>1, <3>3 DEF SetClient, Clients
  <2>2. /\ pc' \in [Frames -> Pcs] /\ op' \in [Frames -> {Nothing, "end", "close", "init", "signal"}]
        /\ \A g \in Frames \ {f} : pc'[g] = pc[g] /\ op'[g] = op[g]
    BY <1>16 DEF SetClient, Return, TypeOK, Pcs
  <2> QED  BY <1>16, <2>1, <2>2 DEF SetClient, TypeOK, OnlyFrame
<1> QED  BY <1>1, <1>2, <1>3, <1>4, <1>5, <1>6, <1>7, <1>8, <1>9, <1>10, <1>11, <1>12, <1>13, <1>14, <1>15, <1>16
         DEF Acts, Interrupting

-----------------------------------------------------------------------------
(* Where each frame is, and what it has in its hands.                      *)

\* One frame's part of Doing and of Hands.
InOrder(f) ==
  /\ op[f] = Nothing <=> pc[f] = "idle"
  /\ op[f] = "signal" <=> f = Handler /\ pc[f] # "idle"
  /\ op[f] = "end"    => pc[f] \in {"ended", "emit"}
  /\ op[f] = "init"   => pc[f] \in {"lock", "shut", "set"}
  /\ op[f] = "close"  => pc[f] \in Looping \cup {"lock", "shut"}
  /\ op[f] = "signal" => pc[f] \in Looping \cup {"state", "flush"}
  /\ pc[f] = "ended" => Len(keys[f]) = 1
  /\ pc[f] \notin WithKeys => keys[f] = <<>>
  /\ pc[f] \notin WithChunk => chunk[f] = <<>>

LEMMA FramesInOrder ==
  Doing /\ Hands <=> \A f \in Frames : InOrder(f)
  BY DEF Doing, Hands, InOrder

\* In which call a frame is that stands somewhere.
LEMMA CallOf ==
  ASSUME TypeOK, Doing, NEW f \in Frames
  PROVE  /\ pc[f] \in Looping => IF f = Handler THEN op[f] = "signal" ELSE op[f] = "close"
         /\ pc[f] \in {"ended", "emit"} => op[f] = "end" /\ f # Handler
         /\ pc[f] = "lock" => op[f] \in {"init", "close"} /\ f # Handler
         /\ pc[f] = "shut" => op[f] \in {"init", "close"} /\ f # Handler
         /\ pc[f] = "set" => op[f] = "init" /\ f # Handler
         /\ pc[f] \in {"state", "flush"} => op[f] = "signal" /\ f = Handler
<1>1. op[f] \in {Nothing, "end", "close", "init", "signal"}
  BY DEF TypeOK
<1> QED  BY <1>1 DEF Doing, Looping, Nothing

\* After its step a frame's hands are what its place says.
LEMMA StepInOrder ==
  ASSUME OpenSpansAssumption, TypeOK, Doing, Hands, NEW f \in Frames, Acts(f), TypeOK'
  PROVE  InOrder(f)'
<1> USE DEF At, Goto, Return, Put, Looping, WithKeys, WithChunk, Nothing, clients, blocks, calls, process, ghosts
<1>0. InOrder(f)
  BY DEF InOrder, Doing, Hands
<1>a. pc \in [Frames -> Pcs] /\ op \in [Frames -> {Nothing, "end", "close", "init", "signal"}]
      /\ keys \in [Frames -> Seq(Spans)] /\ chunk \in [Frames -> Seq(Spans)]
  BY DEF TypeOK
<1>b. f = Handler => op[f] \in {"signal", Nothing}
  BY DEF Doing
<1>1. ASSUME NEW s \in Spans, Open(f, s)  PROVE InOrder(f)'
  BY <1>0, <1>1 DEF Open, InOrder
<1>2. ASSUME NEW s \in Spans, End(f, s)  PROVE InOrder(f)'
  <2>1. Len(<<s>>) = 1
    OBVIOUS
  <2> QED  BY <1>0, <1>a, <1>2, <2>1 DEF End, MayCall, InOrder
<1>3. CASE EndPop(f)
  <2>1. op[f] = "end" /\ f # Handler
    BY <1>3, CallOf DEF EndPop
  <2> QED  BY <1>0, <1>a, <1>3, <2>1 DEF EndPop, InOrder
<1>4. CASE Emit(f)
  <2>1. op[f] = "end" /\ f # Handler
    BY <1>4, CallOf DEF Emit
  <2> QED  BY <1>0, <1>a, <1>4, <2>1 DEF Emit, InOrder
<1>5. ASSUME NEW what \in {"close", "init"}, Call(f, what)  PROVE InOrder(f)'
  BY <1>0, <1>a, <1>5 DEF Call, MayCall, InOrder
<1>6. CASE Enter(f)
  <2>1. op[f] \in {"init", "close"} /\ f # Handler
    BY <1>6, CallOf DEF Enter
  <2> QED  BY <1>0, <1>a, <1>6, <2>1 DEF Enter, Interrupts, InOrder
<1>7. CASE Interrupting(f)
  <2>1. IF f = Handler THEN op[f] = "signal" ELSE op[f] = "close"
    <3>1. pc[f] \in Looping
      BY <1>7 DEF Interrupting, Begin, Interrupt, PopKey, CountChunk, BufferChunk, Uncount, Sweep, PopLeft, Report, Pop
    <3> QED  BY <3>1, CallOf
  <2>2. op' = op
    BY <1>7 DEF Interrupting, Begin, Interrupt, PopKey, CountChunk, BufferChunk, Uncount, Sweep, PopLeft, Report, Pop
  <2>3. pc'[f] \in Looping \cup {After(f)}
    <3>1. CASE Begin(f) \/ Interrupt(f) \/ CountChunk(f) \/ BufferChunk(f)
      BY <1>a, <3>1 DEF Begin, Interrupt, CountChunk, BufferChunk
    <3>2. CASE PopKey(f) \/ PopLeft(f) \/ Uncount(f)
      BY <1>a, <3>2 DEF PopKey, PopLeft, Pop, Uncount
    <3>3. CASE Sweep(f) \/ Report(f)
      BY <1>a, <3>3 DEF Sweep, Report
    <3> QED  BY <1>7, <3>1, <3>2, <3>3 DEF Interrupting
  <2>4. /\ pc'[f] \notin WithKeys => keys'[f] = <<>>
        /\ pc'[f] \notin WithChunk => chunk'[f] = <<>>
    <3>1. CASE Begin(f)
      BY <1>0, <1>a, <3>1 DEF Begin, After, InOrder
    <3>2. CASE Interrupt(f)
      BY <1>0, <1>a, <3>2 DEF Interrupt, InOrder
    <3>3. CASE PopKey(f) \/ PopLeft(f)
      BY <1>0, <1>a, <3>3 DEF PopKey, PopLeft, Pop, InOrder
    <3>4. CASE CountChunk(f) \/ BufferChunk(f)
      BY <1>0, <1>a, <3>4 DEF CountChunk, BufferChunk, InOrder
    <3>5. CASE Uncount(f)
      BY <1>0, <1>a, <3>5 DEF Uncount, InOrder
    <3>6. CASE Sweep(f) \/ Report(f)
      BY <1>0, <1>a, <3>6 DEF Sweep, Report, After, InOrder
    <3> QED  BY <1>7, <3>1, <3>2, <3>3, <3>4, <3>5, <3>6 DEF Interrupting
  <2>5. After(f) = IF f = Handler THEN "flush" ELSE "shut"
    BY DEF After, Signalled
  <2> QED  BY <2>1, <2>2, <2>3, <2>4, <2>5 DEF InOrder
<1>8. CASE Shut(f)
  <2>1. op[f] \in {"init", "close"} /\ f # Handler
    BY <1>8, CallOf DEF Shut
  <2> QED  BY <1>0, <1>a, <1>8, <2>1 DEF Shut, InOrder
<1>9. CASE SetClient(f)
  <2>1. op[f] = "init" /\ f # Handler
    BY <1>9, CallOf DEF SetClient
  <2> QED  BY <1>0, <1>a, <1>9, <2>1 DEF SetClient, InOrder
<1> QED  BY <1>1, <1>2, <1>3, <1>4, <1>5, <1>6, <1>7, <1>8, <1>9 DEF Acts

-----------------------------------------------------------------------------
(* What is in flight.                                                      *)

\* The number in flight goes with one frame's part of it.
LEMMA FlightParts ==
  ASSUME OpenSpansAssumption, TypeOK, TypeOK', InFlightIsHeld, NEW f \in Frames,
         \A g \in Frames \ {f} : Parts'[g] = Parts[g],
         in_flight' + Parts[f] = in_flight + Parts'[f]
  PROVE  InFlightIsHeld'
<1>1. Parts \in [Frames -> Nat] /\ IsFiniteSet(Cells(Parts)) /\ in_flight = Total(Parts)
  BY FlightType
<1>2. Parts' \in [Frames -> Nat]
  <2>1. \A g \in Frames : Len(chunk'[g]) \in Nat
    BY EmptyLen DEF TypeOK
  <2> QED  BY <2>1 DEF Parts
<1>3. \A g \in Frames : g # f => Parts'[g] = Parts[g]
  OBVIOUS
<1> DEFINE n == Parts
           m == Parts'
<1> HIDE DEF n, m
<1>4. Total(m) + n[f] = Total(n) + m[f] /\ IsFiniteSet(Cells(m))
  <2>1. n \in [Frames -> Nat] /\ m \in [Frames -> Nat] /\ IsFiniteSet(Cells(n)) /\ \A g \in Frames : g # f => m[g] = n[g]
    BY <1>1, <1>2, <1>3 DEF n, m
  <2> QED  BY ONLY <2>1, f \in Frames, TotalExcept
<1>5. in_flight' + n[f] = Total(n) + m[f] /\ in_flight' \in Nat
  <2>1. in_flight' \in Nat
    BY DEF TypeOK
  <2> QED  BY <1>1, <2>1 DEF n, m
<1>6. Total(m) \in Nat /\ Total(n) \in Nat /\ n[f] \in Nat /\ m[f] \in Nat
  <2>1. Total(m) \in Nat
    BY <1>4, FS_CardinalityType DEF Total
  <2>2. Total(n) \in Nat
    BY <1>1, FS_CardinalityType DEF Total, n
  <2> QED  BY <1>1, <1>2, <2>1, <2>2 DEF n, m
<1>7. in_flight' = Total(m)
  <2> DEFINE a == in_flight'
             b == Total(m)
             c == n[f]
             d == Total(n) + m[f]
  <2>1. a \in Nat /\ b \in Nat /\ c \in Nat /\ d \in Nat /\ a + c = d /\ b + c = d
    BY <1>4, <1>5, <1>6
  <2> HIDE DEF a, b, c, d
  <2>2. a = b
    BY ONLY <2>1
  <2> QED  BY <2>2 DEF a, b
<1> QED  BY <1>7 DEF m, Parts, InFlightIsHeld

LEMMA FlightFrame ==
  ASSUME OpenSpansAssumption, TypeOK, TypeOK', InFlightIsHeld, NEW f \in Frames,
         \A g \in Frames \ {f} : pc'[g] = pc[g] /\ chunk'[g] = chunk[g],
         in_flight' + Parts[f] = in_flight + Parts'[f]
  PROVE  InFlightIsHeld'
<1>1. \A g \in Frames \ {f} : Parts'[g] = Parts[g]
  BY DEF Parts
<1> QED  BY <1>1, FlightParts

LEMMA FlightStep ==
  ASSUME OpenSpansAssumption, TypeOK, TypeOK', InFlightIsHeld, NEW f \in Frames, Acts(f), OnlyFrame(f)
  PROVE  InFlightIsHeld'
<1> USE DEF At, Goto, Return, Put, Midway, clients, blocks, calls, process, ghosts
<1>0. /\ pc \in [Frames -> Pcs] /\ chunk \in [Frames -> Seq(Spans)] /\ in_flight \in Nat
      /\ Len(chunk[f]) \in Nat /\ Len(chunk'[f]) \in Nat
      /\ \A g \in Frames \ {f} : pc'[g] = pc[g] /\ chunk'[g] = chunk[g]
  BY EmptyLen DEF TypeOK, OnlyFrame
<1>1. ASSUME pc[f] \notin Midway, pc'[f] \notin Midway, in_flight' = in_flight  PROVE InFlightIsHeld'
  <2>1. Parts[f] = 0 /\ Parts'[f] = 0
    BY <1>1 DEF Parts
  <2>2. in_flight' + Parts[f] = in_flight + Parts'[f]
    BY <1>1, <2>1
  <2> QED  BY <1>0, <2>2, FlightFrame
<1>2. CASE (\E s \in Spans : Open(f, s) \/ End(f, s)) \/ EndPop(f) \/ Emit(f)
  <2>1. pc[f] \notin Midway /\ in_flight' = in_flight
    BY <1>2 DEF Open, End, EndPop, Emit, MayCall
  <2>2. pc'[f] \notin Midway
    BY <1>0, <1>2 DEF Open, End, EndPop, Emit, MayCall
  <2> QED  BY <1>1, <2>1, <2>2
<1>3. CASE (\E what \in {"close", "init"} : Call(f, what)) \/ Enter(f) \/ Shut(f) \/ SetClient(f)
  <2>1. pc[f] \notin Midway /\ in_flight' = in_flight
    BY <1>3 DEF Call, Enter, Shut, SetClient, MayCall
  <2>2. pc'[f] \notin Midway
    BY <1>0, <1>3 DEF Call, Enter, Shut, SetClient, MayCall
  <2> QED  BY <1>1, <2>1, <2>2
<1>4. CASE Begin(f) \/ Interrupt(f) \/ PopKey(f) \/ Sweep(f) \/ PopLeft(f) \/ Report(f)
  <2>1. pc[f] \notin Midway /\ in_flight' = in_flight
    BY <1>4 DEF Begin, Interrupt, PopKey, Sweep, PopLeft, Report, Pop
  <2>2. pc'[f] \notin Midway
    BY <1>0, <1>4 DEF Begin, Interrupt, PopKey, Sweep, PopLeft, Report, Pop, After
  <2> QED  BY <1>1, <2>1, <2>2
<1>5. CASE CountChunk(f)
  <2>1. /\ pc[f] = "count" /\ pc'[f] = "buffer" /\ chunk'[f] = chunk[f]
        /\ in_flight' = in_flight + Len(chunk[f])
    BY <1>0, <1>5 DEF CountChunk
  <2>2. Parts[f] = 0 /\ Parts'[f] = Len(chunk[f])
    BY <2>1 DEF Parts
  <2>3. in_flight' + Parts[f] = in_flight + Parts'[f]
    BY <1>0, <2>1, <2>2
  <2> QED  BY <1>0, <2>3, FlightFrame
<1>6. CASE BufferChunk(f)
  <2>1. /\ pc[f] = "buffer" /\ pc'[f] \in {"refused", "uncount"} /\ chunk'[f] = chunk[f]
        /\ in_flight' = in_flight
    BY <1>0, <1>6 DEF BufferChunk
  <2>2. Parts'[f] = Parts[f]
    BY <2>1 DEF Parts
  <2>3. in_flight' + Parts[f] = in_flight + Parts'[f]
    BY <2>1, <2>2
  <2> QED  BY <1>0, <2>3, FlightFrame
<1>7. CASE Uncount(f)
  <2>1. /\ pc[f] \in Midway /\ pc'[f] \notin Midway /\ in_flight' = in_flight - Len(chunk[f])
    BY <1>0, <1>7 DEF Uncount
  <2>2. Parts[f] = Len(chunk[f]) /\ Parts'[f] = 0
    BY <2>1 DEF Parts
  <2>3. in_flight' + Parts[f] = in_flight + Parts'[f]
    BY <1>0, <2>1, <2>2
  <2> QED  BY <1>0, <2>3, FlightFrame
<1> QED  BY <1>2, <1>3, <1>4, <1>5, <1>6, <1>7 DEF Acts, Interrupting

-----------------------------------------------------------------------------
(* The lock and the clients.                                               *)

\* What a frame's step does with the client and the buffers: ...
ClientsMove(f) ==
  /\ \/ client' = client
     \/ /\ pc[f] = "set" /\ client' = client + 1 /\ closed' = closed /\ buffer' = buffer
        /\ op'[f] = Nothing
  /\ \/ closed' = closed
     \/ closed' = closed \cup {using[f]} /\ buffer'[using[f]] = <<>> /\ client' = client
  /\ \A c \in Clients : \/ buffer'[c] = buffer[c] \/ buffer'[c] = <<>>
                        \/ c = using[f] /\ c \notin closed /\ closed' = closed /\ client' = client

\* ... with the client it works on, ...
UsingMoves(f) ==
  /\ using'[f] = using[f] \/ using'[f] = client
  /\ op'[f] = "init" /\ pc'[f] = "shut" => using'[f] = client /\ client' = client
  /\ op'[f] = "init" /\ pc'[f] = "set"
       => op[f] = "init" /\ pc[f] = "shut" /\ closed' = closed \cup {using[f]} /\ client' = client

\* ... and with the lock.
LockMoves(f) ==
  /\ Inside(f)' => Inside(f) \/ (pc[f] = "lock" /\ f # Handler /\ LockFree(f))
  /\ \/ op'[f] = "init" <=> op[f] = "init"
     \/ op'[f] # "init"
     \/ /\ client + Cardinality({g \in Frames : op[g] = "init"}) < MaxClients
        /\ op[f] # "init" /\ client' = client

LEMMA StepOfClients ==
  ASSUME OpenSpansAssumption, TypeOK, Doing, Hands, NEW f \in Frames, Acts(f), TypeOK'
  PROVE  ClientsMove(f) /\ UsingMoves(f) /\ LockMoves(f)
<1> USE DEF At, Goto, Return, Put, Nothing, clients, blocks, calls, process, ghosts, Inside
<1>0. /\ pc \in [Frames -> Pcs] /\ op \in [Frames -> {Nothing, "end", "close", "init", "signal"}]
      /\ using \in [Frames -> Clients] /\ buffer \in [Clients -> Seq(Spans)]
  BY DEF TypeOK
<1>1. ASSUME NEW s \in Spans, Open(f, s)  PROVE ClientsMove(f) /\ UsingMoves(f) /\ LockMoves(f)
  BY <1>0, <1>1 DEF Open, MayCall, ClientsMove, UsingMoves, LockMoves
<1>2. ASSUME NEW s \in Spans, End(f, s)  PROVE ClientsMove(f) /\ UsingMoves(f) /\ LockMoves(f)
  BY <1>0, <1>2 DEF End, MayCall, ClientsMove, UsingMoves, LockMoves
<1>3. CASE EndPop(f)
  BY <1>0, <1>3 DEF EndPop, ClientsMove, UsingMoves, LockMoves
<1>4. CASE Emit(f)
  <2>1. op'[f] = Nothing /\ pc'[f] = "idle" /\ using' = using
    BY <1>0, <1>4 DEF Emit
  <2>2. closed' = closed /\ client' = client
    BY <1>4 DEF Emit
  <2>3. ClientsMove(f)
    <3>1. buffer' = buffer \/ (using[f] \notin closed /\ \E x : buffer' = [buffer EXCEPT ![using[f]] = x])
      BY <1>4 DEF Emit, Capture
    <3> QED  BY <1>0, <2>2, <3>1 DEF ClientsMove
  <2> QED  BY <2>1, <2>2, <2>3 DEF UsingMoves, LockMoves
<1>5. ASSUME NEW what \in {"close", "init"}, Call(f, what)  PROVE ClientsMove(f) /\ UsingMoves(f) /\ LockMoves(f)
  <2>1. op[f] = Nothing
    BY <1>5 DEF Call, MayCall, Doing
  <2>2. ClientsMove(f)
    BY <1>5 DEF Call, ClientsMove
  <2>3. pc'[f] = "lock" /\ op'[f] = what /\ using' = using /\ client' = client
    BY <1>0, <1>5 DEF Call
  <2>4. what = "init" => client + Cardinality({g \in Frames : op[g] = "init"}) < MaxClients
    BY <1>5 DEF Call
  <2> QED  BY <2>1, <2>2, <2>3, <2>4 DEF UsingMoves, LockMoves
<1>6. CASE Enter(f)
  <2>1. f # Handler
    BY <1>6, CallOf DEF Enter
  <2>2. ClientsMove(f)
    BY <1>6 DEF Enter, ClientsMove
  <2>3. using'[f] = client /\ client' = client /\ op' = op /\ pc[f] = "lock" /\ LockFree(f)
    BY <1>0, <1>6 DEF Enter
  <2>4. pc'[f] \in {"begin", "shut"}
    BY <1>0, <1>6 DEF Enter
  <2> QED  BY <2>1, <2>2, <2>3, <2>4 DEF UsingMoves, LockMoves
<1>7. CASE Interrupting(f)
  <2>1. pc[f] \in Looping /\ op' = op /\ using' = using /\ client' = client /\ closed' = closed
    BY <1>7 DEF Interrupting, Begin, Interrupt, PopKey, CountChunk, BufferChunk, Uncount, Sweep, PopLeft, Report, Pop, Looping
  <2>2. op[f] # "init"
    BY <2>1, CallOf
  <2>3. \A c \in Clients : \/ buffer'[c] = buffer[c] \/ buffer'[c] = <<>>
                           \/ c = using[f] /\ c \notin closed
    <3>1. CASE Begin(f) \/ PopKey(f) \/ CountChunk(f) \/ Uncount(f) \/ Sweep(f) \/ PopLeft(f) \/ Report(f)
      BY <3>1 DEF Begin, PopKey, CountChunk, Uncount, Sweep, PopLeft, Report, Pop
    <3>2. CASE Interrupt(f)
      BY <1>0, <3>2 DEF Interrupt, Drain
    <3>3. CASE BufferChunk(f)
      <4>1. buffer' = buffer \/ (using[f] \notin closed /\ \E x : buffer' = [buffer EXCEPT ![using[f]] = x])
        BY <3>3 DEF BufferChunk
      <4> QED  BY <1>0, <4>1
    <3> QED  BY <1>7, <3>1, <3>2, <3>3 DEF Interrupting
  <2>4. pc[f] # "lock"
    BY <2>1 DEF Looping
  <2> QED  BY <2>1, <2>2, <2>3, <2>4 DEF ClientsMove, UsingMoves, LockMoves
<1>8. CASE Shut(f)
  <2>1. /\ closed' = closed \cup {using[f]} /\ buffer' = [buffer EXCEPT ![using[f]] = <<>>]
        /\ client' = client /\ using' = using /\ pc[f] = "shut"
    BY <1>8 DEF Shut
  <2>2. IF op[f] = "init" THEN op' = op /\ pc'[f] = "set" ELSE op'[f] = Nothing /\ pc'[f] = "idle"
    BY <1>0, <1>8 DEF Shut
  <2>3. ClientsMove(f)
    BY <1>0, <2>1 DEF ClientsMove
  <2> QED  BY <2>1, <2>2, <2>3 DEF UsingMoves, LockMoves
<1>9. CASE SetClient(f)
  BY <1>0, <1>9 DEF SetClient, ClientsMove, UsingMoves, LockMoves
<1> QED  BY <1>1, <1>2, <1>3, <1>4, <1>5, <1>6, <1>7, <1>8, <1>9 DEF Acts

LEMMA OneInsideStep ==
  ASSUME OpenSpansAssumption, Doing, OneInside, NEW f \in Frames, OnlyFrame(f), LockMoves(f)
  PROVE  OneInside'
<1>1. \A g \in Frames \ {f} : Inside(g)' <=> Inside(g)
  BY DEF OnlyFrame, Inside
<1>2. \A g \in Frames : Inside(g) => g # Handler
  BY DEF Inside, Doing, Nothing
<1>3. ASSUME Inside(f)', ~ Inside(f), NEW g \in Frames \ {f}  PROVE ~ Inside(g)
  <2>1. f # Handler /\ LockFree(f)
    BY <1>3 DEF LockMoves
  <2>2. g # Handler => g[1] # f[1]
    BY <2>1, ThreeFrames DEF Frames
  <2> QED  BY <1>2, <2>1, <2>2 DEF LockFree, Inside
<1>4. \A g \in Frames \ {f} : Inside(f)' => ~ Inside(g)'
  BY <1>1, <1>3 DEF OneInside
<1> QED  BY <1>1, <1>4 DEF OneInside

LEMMA RoomStep ==
  ASSUME OpenSpansAssumption, TypeOK, TypeOK', Doing, Room, NEW f \in Frames, OnlyFrame(f), ClientsMove(f), LockMoves(f)
  PROVE  Room'
<1> DEFINE a == Bit(op[Base] = "init")
           b == Bit(op[Beside] = "init")
           x == Bit(op'[Base] = "init")
           y == Bit(op'[Beside] = "init")
<1>1. /\ a \in Nat /\ b \in Nat /\ x \in Nat /\ y \in Nat /\ a <= 1 /\ b <= 1 /\ x <= 1 /\ y <= 1
      /\ client \in Nat /\ client' \in Nat /\ MaxClients \in Nat /\ client + a + b <= MaxClients
  BY DEF Bit, TypeOK, Clients, Room, OpenSpansAssumption
<1>2. Cardinality({g \in Frames : op[g] = "init"}) = a + b
  BY InitsCount
<1>3. pc[f] = "set" => op[f] = "init" /\ f # Handler
  BY CallOf
<1>4. /\ f # Base => x = a
      /\ f # Beside => y = b
      /\ Base # Beside /\ Base # Handler /\ Beside # Handler
  BY ThreeFrames DEF OnlyFrame, Frames
<1>5. CASE client' = client + 1 /\ op'[f] = Nothing /\ pc[f] = "set"
  <2>1. \/ f = Base /\ x = 0 /\ a = 1 /\ y = b
        \/ f = Beside /\ y = 0 /\ b = 1 /\ x = a
    BY <1>3, <1>4, <1>5 DEF Frames, Bit, Nothing
  <2> HIDE DEF a, b, x, y
  <2>2. client' + x + y <= MaxClients
    BY <1>1, <1>5, <2>1
  <2> QED  BY <2>2 DEF Room, x, y
<1>6. CASE client' = client
  <2>1. CASE op'[f] # "init" \/ (op'[f] = "init" <=> op[f] = "init")
    <3>1. x <= a /\ y <= b
      BY <1>1, <1>4, <2>1 DEF Bit
    <3> HIDE DEF a, b, x, y
    <3>2. client' + x + y <= MaxClients
      BY <1>1, <1>6, <3>1
    <3> QED  BY <3>2 DEF Room, x, y
  <2>2. CASE client + Cardinality({g \in Frames : op[g] = "init"}) < MaxClients /\ op[f] # "init"
    <3>1. \/ f = Base /\ a = 0 /\ y = b
          \/ f = Beside /\ b = 0 /\ x = a
          \/ x = a /\ y = b
      BY <1>4, <2>2 DEF Frames, Bit
    <3>2. client + (a + b) < MaxClients
      BY <1>2, <2>2
    <3> HIDE DEF a, b, x, y
    <3>3. client' + x + y <= MaxClients
      BY <1>1, <1>6, <3>1, <3>2
    <3> QED  BY <3>3 DEF Room, x, y
  <2> QED  BY <2>1, <2>2 DEF LockMoves
<1> QED  BY <1>5, <1>6 DEF ClientsMove

\* A client that is open is the current one.
LEMMA OpenIsCurrent ==
  ASSUME TypeOK, Current, NEW f \in Frames, using[f] \notin closed
  PROVE  using[f] = client
<1>1. using[f] \in Nat /\ client \in Nat /\ using[f] \in Clients
  BY DEF TypeOK, Clients
<1>2. ~ (using[f] < client) /\ using[f] <= client
  BY <1>1 DEF Current
<1> QED  BY <1>1, <1>2

LEMMA CurrentStep ==
  ASSUME OpenSpansAssumption, TypeOK, TypeOK', Doing, OneInside, Current, NEW f \in Frames, OnlyFrame(f),
         ClientsMove(f), UsingMoves(f)
  PROVE  Current'
<1>0. /\ client \in Nat /\ client' \in Nat /\ \A c \in Clients : c \in Nat
      /\ \A g \in Frames : using[g] \in Clients /\ using'[g] \in Clients
  <2>1. /\ client \in Clients /\ client' \in Clients
        /\ using \in [Frames -> Clients] /\ using' \in [Frames -> Clients]
    BY DEF TypeOK
  <2> QED  BY <2>1 DEF Clients
<1>1. closed \subseteq closed' /\ client <= client' /\ (client' # client => client' = client + 1 /\ client \in closed)
  <2>1. closed \subseteq closed' /\ client <= client' /\ (client' # client => client' = client + 1 /\ pc[f] = "set")
    BY <1>0 DEF ClientsMove
  <2>2. pc[f] = "set" => op[f] = "init"
    BY CallOf
  <2> QED  BY <2>1, <2>2 DEF Current
<1>2. \A c \in Clients : c < client' => c \in closed'
  <2> SUFFICES ASSUME NEW c \in Clients, c < client', c \notin closed'  PROVE FALSE
    OBVIOUS
  <2>1. c \notin closed /\ ~ (c < client)
    BY <1>1 DEF Current
  <2>2. client' = client + 1 /\ client \in closed
    BY <1>0, <1>1, <2>1
  <2>3. c = client
    BY <1>0, <2>1, <2>2
  <2> QED  BY <2>1, <2>2, <2>3
<1>3. \A c \in Clients : c # client' \/ c \in closed' => buffer'[c] = <<>>
  <2> SUFFICES ASSUME NEW c \in Clients, c # client' \/ c \in closed', buffer'[c] # <<>>  PROVE FALSE
    OBVIOUS
  <2>1. CASE c = using[f] /\ c \notin closed /\ closed' = closed /\ client' = client
    <3>1. c = client
      BY <2>1, OpenIsCurrent
    <3> QED  BY <2>1, <3>1
  <2>2. CASE buffer'[c] = buffer[c]
    <3>1. c = client /\ c \notin closed
      BY <2>2 DEF Current
    <3>2. client' = client
      BY <1>1, <3>1
    <3>3. c \in closed'
      BY <3>1, <3>2
    <3> QED  BY <3>1, <3>3 DEF ClientsMove
  <2> QED  BY <2>1, <2>2 DEF ClientsMove
<1>4. \A g \in Frames : using'[g] <= client'
  <2> SUFFICES ASSUME NEW g \in Frames  PROVE using'[g] <= client'
    OBVIOUS
  <2>1. using'[g] = using[g] \/ using'[g] = client
    BY DEF OnlyFrame, UsingMoves
  <2>2. using[g] <= client
    BY DEF Current
  <2>3. using[g] \in Nat /\ using'[g] \in Nat
    BY <1>0
  <2> QED  BY <1>0, <1>1, <2>1, <2>2, <2>3
<1>5. ASSUME NEW g \in Frames, op'[g] = "init", pc'[g] \in {"shut", "set"}
      PROVE  /\ pc'[g] = "shut" => using'[g] = client'
             /\ pc'[g] = "set" => client' \in closed'
  <2>1. CASE g = f
    <3>1. pc'[f] = "shut" => using'[f] = client'
      BY <1>5, <2>1 DEF UsingMoves
    <3>2. ASSUME pc'[f] = "set"  PROVE client' \in closed'
      <4>1. op[f] = "init" /\ pc[f] = "shut" /\ closed' = closed \cup {using[f]} /\ client' = client
        BY <1>5, <2>1, <3>2 DEF UsingMoves
      <4>2. using[f] = client
        BY <4>1 DEF Current
      <4> QED  BY <4>1, <4>2
    <3> QED  BY <2>1, <3>1, <3>2
  <2>2. CASE g # f
    <3>1. op[g] = "init" /\ pc[g] = pc'[g] /\ using'[g] = using[g]
      BY <1>5, <2>2 DEF OnlyFrame
    <3>2. Inside(g) /\ (pc[f] = "set" => Inside(f))
      BY <1>5, <3>1, CallOf DEF Inside
    <3>3. client' = client
      BY <2>2, <3>2 DEF OneInside, ClientsMove
    <3> QED  BY <1>1, <3>1, <3>3 DEF Current
  <2> QED  BY <2>1, <2>2
<1> QED  BY <1>2, <1>3, <1>4, <1>5 DEF Current

-----------------------------------------------------------------------------
(* Where the spans are.                                                    *)

TableStays(s)  == (s \in ToSet(open') <=> s \in ToSet(open)) /\ (s \in elsewhere' <=> s \in elsewhere)
OthersHold(s, f) == \A g \in Frames \ {f} : s \in Held(g)' <=> s \in Held(g)
HandsStay(s)   == \A g \in Frames : s \in Held(g)' <=> s \in Held(g)
BufferStays(s) == s \in Buffered' <=> s \in Buffered

\* What a frame's step does with a span: nothing, ...
Stays(s) ==
  TableStays(s) /\ HandsStay(s) /\ BufferStays(s) /\ shipped'[s] = shipped[s] /\ counted'[s] = counted[s]

\* ... it opens it, ...
Opened(s) ==
  /\ block[s] = "new" /\ block'[s] = "open" /\ (s \in ToSet(open') <=> s \notin elsewhere')
  /\ HandsStay(s) /\ BufferStays(s) /\ shipped'[s] = shipped[s] /\ counted'[s] = counted[s]

\* ... takes it out of the table, or of a block that ends, ...
Taken(s, f) ==
  /\ s \in ToSet(open) \/ (s \in elsewhere /\ pc[f] = "ended" /\ Head(keys[f]) = s)
  /\ s \notin ToSet(open') /\ s \notin elsewhere'
  /\ s \in Held(f)' /\ OthersHold(s, f) /\ BufferStays(s)
  /\ shipped'[s] = shipped[s] /\ counted'[s] = counted[s]

\* ... gives it from its hands to the buffer, ...
Returned(s, f) ==
  /\ s \in Held(f) /\ s \notin Held(f)' /\ OthersHold(s, f) /\ s \in Buffered'
  /\ TableStays(s) /\ shipped'[s] = shipped[s] /\ counted'[s] = counted[s]

\* ... or counts it from there, ...
Left(s, f) ==
  /\ s \in Held(f) /\ s \notin Held(f)' /\ OthersHold(s, f) /\ BufferStays(s)
  /\ TableStays(s) /\ shipped'[s] = shipped[s] /\ counted'[s] = counted[s] + 1

\* ... counts it from the buffer, to end a block or to close the client, ...
Evicted(s, f) ==
  /\ s \in Buffered /\ s \notin Buffered' /\ HandsStay(s) /\ TableStays(s)
  /\ shipped'[s] = shipped[s] /\ counted'[s] = counted[s] + 1
  /\ pc[f] \in {"emit", "shut"}

\* ... ships it, ...
Sent(s) ==
  /\ s \in Buffered /\ s \notin Buffered' /\ HandsStay(s) /\ TableStays(s)
  /\ shipped'[s] = shipped[s] + 1 /\ counted'[s] = counted[s]

\* ... or, as a handler, counts it with those in flight.
Reported(s, f) ==
  /\ f = Handler /\ pc[f] = "report" /\ \E g \in Frames : s \in ToSet(chunk[g]) /\ pc[g] \in Midway \cup {"report"}
  /\ \A g \in Frames : s \in Held(g)' => s \in Held(g)
  /\ TableStays(s) /\ BufferStays(s)
  /\ shipped'[s] = shipped[s] /\ counted'[s] > counted[s]

Moves(s, f) ==
  \/ Stays(s) \/ Opened(s) \/ Taken(s, f) \/ Returned(s, f) \/ Left(s, f) \/ Evicted(s, f) \/ Sent(s)
  \/ Reported(s, f)

\* A buffer is the current client's.
LEMMA BufferIs ==
  ASSUME TypeOK, Current
  PROVE  /\ Buffered = ToSet(buffer[client])
         /\ \A x : buffer' = [buffer EXCEPT ![client] = x] => Buffered' = ToSet(x)
<1>1. client \in Clients /\ ToSet(<<>>) = {} /\ \A c \in Clients : c # client => buffer[c] = <<>>
  BY OnceEmpty DEF TypeOK, Current
<1>2. \A c \in Clients : c # client => ToSet(buffer[c]) = {}
  BY <1>1
<1>3. Buffered = ToSet(buffer[client])
  BY <1>1, <1>2 DEF Buffered
<1>4. ASSUME NEW x, buffer' = [buffer EXCEPT ![client] = x]  PROVE Buffered' = ToSet(x)
  <2>1. buffer'[client] = x /\ \A c \in Clients : c # client => buffer'[c] = buffer[c]
    BY <1>1, <1>4 DEF TypeOK
  <2>2. \A c \in Clients : c # client => ToSet(buffer'[c]) = {}
    BY <1>2, <2>1
  <2>3. Buffered' = UNION {ToSet(buffer'[c]) : c \in Clients}
    BY DEF Buffered
  <2> QED  BY <1>1, <2>1, <2>2, <2>3
<1> QED  BY <1>3, <1>4

\* Other frames hold what they held.
LEMMA OthersStay ==
  ASSUME NEW f \in Frames, OnlyFrame(f)
  PROVE  /\ \A g \in Frames \ {f} : Held(g)' = Held(g)
         /\ \A s : OthersHold(s, f)
         /\ Held(f)' = Held(f) => \A s : HandsStay(s)
<1>1. \A g \in Frames \ {f} : Held(g)' = Held(g)
  BY DEF OnlyFrame, Held
<1> QED  BY <1>1 DEF OthersHold, HandsStay

\* A step that moves nothing.
LEMMA AllStay ==
  ASSUME NEW f \in Frames, OnlyFrame(f), Held(f)' = Held(f), UNCHANGED <<open, elsewhere, buffer, shipped, counted>>
  PROVE  \A s : Stays(s)
<1>1. Buffered' = Buffered
  BY DEF Buffered
<1> QED  BY <1>1, OthersStay DEF Stays, TableStays, BufferStays

\* A span has one place in the table, and none in a frame's hands if it is there.
LEMMA Apart ==
  ASSUME TypeOK, Traced, NEW s \in Spans
  PROVE  /\ s \in ToSet(open) => s \notin elsewhere
         /\ s \in ToSet(open) \cup elsewhere => s \notin Buffered /\ \A f \in Frames : s \notin Held(f)
         /\ \A f \in Frames : s \in Held(f) => s \notin Buffered
  BY DEF Traced, Copies, Table

LEMMA OpenMoves ==
  ASSUME TypeOK, Traced, NEW f \in Frames, OnlyFrame(f), NEW r \in Spans, Open(f, r)
  PROVE  \A s \in Spans : IF s = r THEN Opened(s) ELSE Stays(s)
<1>1. /\ UNCHANGED <<buffer, shipped, counted>> /\ Held(f)' = Held(f) /\ block[r] = "new" /\ block'[r] = "open"
      /\ \/ elsewhere' = elsewhere \cup {r} /\ open' = open
         \/ open' = Append(open, r) /\ elsewhere' = elsewhere
  BY DEF Open, calls, Held, TypeOK
<1>2. Buffered' = Buffered
  BY <1>1 DEF Buffered
<1>3. ToSet(Append(open, r)) = ToSet(open) \cup {r}
  BY OnceAppend DEF TypeOK
<1>4. r \notin ToSet(open) /\ r \notin elsewhere
  BY <1>1 DEF Traced, Fresh, Somewhere, Table
<1>5. \A s : HandsStay(s) /\ BufferStays(s)
  BY <1>1, <1>2, OthersStay DEF BufferStays
<1>6. Opened(r)
  <2>1. r \in ToSet(open') <=> r \notin elsewhere'
    BY <1>1, <1>3, <1>4
  <2> QED  BY <1>1, <1>5, <2>1 DEF Opened
<1>7. ASSUME NEW s \in Spans, s # r  PROVE Stays(s)
  <2>1. ToSet(open') = ToSet(open) \/ ToSet(open') = ToSet(open) \cup {r}
    BY <1>1, <1>3
  <2>2. elsewhere' = elsewhere \/ elsewhere' = elsewhere \cup {r}
    BY <1>1
  <2>3. TableStays(s)
    BY <1>7, <2>1, <2>2 DEF TableStays
  <2> QED  BY <1>1, <1>5, <2>3 DEF Stays
<1> QED  BY <1>6, <1>7

LEMMA EndPopMoves ==
  ASSUME TypeOK, Hands, Traced, InTurn, NEW f \in Frames, OnlyFrame(f), EndPop(f)
  PROVE  \A s \in Spans : Stays(s) \/ Taken(s, f)
<1> DEFINE r == Head(keys[f])
<1>1. /\ pc[f] = "ended" /\ pc'[f] = "emit" /\ chunk[f] = <<>>
      /\ open' = Without(open, r) /\ elsewhere' = elsewhere \ {r}
      /\ chunk'[f] = IF Takes(r) THEN <<r>> ELSE <<>>
      /\ UNCHANGED <<buffer, shipped, counted>>
  BY DEF EndPop, At, Goto, Put, TypeOK, Hands, WithChunk
<1>2. ToSet(open') = ToSet(open) \ {r}
  BY <1>1, WithoutSpan DEF TypeOK, InTurn
<1>3. Held(f) = {} /\ Held(f)' = IF Takes(r) THEN {r} ELSE {}
  <2>1. ToSet(<<r>>) = {r} /\ ToSet(<<>>) = {}
    BY DEF ToSet
  <2> HIDE DEF r
  <2> QED  BY <1>1, <2>1 DEF Held
<1>4. Buffered' = Buffered
  BY <1>1 DEF Buffered
<1> SUFFICES ASSUME NEW s \in Spans  PROVE Stays(s) \/ Taken(s, f)
  OBVIOUS
<1>5. OthersHold(s, f) /\ BufferStays(s)
  BY <1>4, OthersStay DEF BufferStays
<1>6. CASE s = r /\ Takes(r)
  BY <1>1, <1>2, <1>3, <1>5, <1>6 DEF Taken, Takes
<1>7. CASE ~ (s = r /\ Takes(r))
  <2>1. TableStays(s)
    BY <1>1, <1>2, <1>7 DEF TableStays, Takes
  <2>2. HandsStay(s)
    BY <1>3, <1>5, <1>7 DEF HandsStay, OthersHold
  <2> QED  BY <1>1, <1>5, <2>1, <2>2 DEF Stays
<1> QED  BY <1>6, <1>7

LEMMA PopMoves ==
  ASSUME TypeOK, Hands, Traced, InTurn, NEW f \in Frames, OnlyFrame(f), PopKey(f) \/ PopLeft(f)
  PROVE  \A s \in Spans : Stays(s) \/ (Taken(s, f) /\ s \in ToSet(open))
<1> DEFINE r == Head(keys[f])
<1>1. /\ pc[f] # "uncount" /\ pc'[f] # "uncount" /\ UNCHANGED <<elsewhere, buffer, shipped, counted>>
      /\ \/ open' = open /\ chunk' = chunk
         \/ /\ keys[f] # <<>> /\ open' = Without(open, r)
            /\ chunk'[f] = IF r \in ToSet(open) THEN Append(chunk[f], r) ELSE chunk[f]
  BY DEF PopKey, PopLeft, Pop, At, Goto, Put, TypeOK
<1>2. Held(f) = ToSet(chunk[f]) /\ Held(f)' = ToSet(chunk'[f])
  BY <1>1 DEF Held
<1>3. Buffered' = Buffered
  BY <1>1 DEF Buffered
<1>4. CASE open' = open /\ chunk' = chunk
  <2>1. Held(f)' = Held(f)
    BY <1>2, <1>4
  <2> QED  BY <1>1, <1>4, <2>1, AllStay
<1>5. CASE /\ keys[f] # <<>> /\ open' = Without(open, r)
           /\ chunk'[f] = IF r \in ToSet(open) THEN Append(chunk[f], r) ELSE chunk[f]
  <2>1. r \in Spans
    BY <1>5, HeadTailProperties DEF TypeOK
  <2>2. ToSet(open') = ToSet(open) \ {r}
    BY <1>5, WithoutSpan DEF TypeOK, InTurn
  <2>3. Held(f)' = IF r \in ToSet(open) THEN Held(f) \cup {r} ELSE Held(f)
    <3>1. ToSet(Append(chunk[f], r)) = ToSet(chunk[f]) \cup {r}
      BY <2>1, OnceAppend DEF TypeOK
    <3> QED  BY <1>2, <1>5, <3>1
  <2> SUFFICES ASSUME NEW s \in Spans  PROVE Stays(s) \/ (Taken(s, f) /\ s \in ToSet(open))
    OBVIOUS
  <2>4. OthersHold(s, f) /\ BufferStays(s)
    BY <1>3, OthersStay DEF BufferStays
  <2>5. CASE s = r /\ r \in ToSet(open)
    BY <1>1, <2>2, <2>3, <2>4, <2>5, Apart DEF Taken
  <2>6. CASE ~ (s = r /\ r \in ToSet(open))
    <3>1. TableStays(s)
      BY <1>1, <2>2, <2>6 DEF TableStays
    <3>2. HandsStay(s)
      BY <2>3, <2>4, <2>6 DEF HandsStay, OthersHold
    <3> QED  BY <1>1, <2>4, <3>1, <3>2 DEF Stays
  <2> QED  BY <2>5, <2>6
<1> QED  BY <1>1, <1>4, <1>5

\* What a frame holds is counted.
LEMMA HandLeaves ==
  ASSUME TypeOK, Distinct, NEW f \in Frames, OnlyFrame(f), Held(f) = ToSet(chunk[f]), Held(f)' = {},
         UNCHANGED <<open, elsewhere, buffer, shipped>>, counted' = Add(counted, chunk[f])
  PROVE  \A s \in Spans : Stays(s) \/ Left(s, f)
<1> SUFFICES ASSUME NEW s \in Spans  PROVE Stays(s) \/ Left(s, f)
  OBVIOUS
<1>1. counted'[s] = counted[s] + Bit(s \in ToSet(chunk[f])) /\ counted[s] \in Nat
  BY AddOne DEF TypeOK, Distinct
<1>2. OthersHold(s, f) /\ BufferStays(s) /\ TableStays(s) /\ shipped'[s] = shipped[s]
  BY OthersStay DEF BufferStays, Buffered, TableStays
<1>3. CASE s \in Held(f)
  <2>1. counted'[s] = counted[s] + 1
    BY <1>1, <1>3 DEF Bit
  <2> QED  BY <1>2, <1>3, <2>1 DEF Left
<1>4. CASE s \notin Held(f)
  <2>1. counted'[s] = counted[s]
    <3>1. Bit(s \in ToSet(chunk[f])) = 0
      BY <1>4 DEF Bit
    <3> QED  BY <1>1, <3>1
  <2>2. HandsStay(s)
    BY <1>2, <1>4 DEF HandsStay, OthersHold
  <2> QED  BY <1>2, <2>1, <2>2 DEF Stays
<1> QED  BY <1>3, <1>4

LEMMA SweepMoves ==
  ASSUME TypeOK, Distinct, NEW f \in Frames, OnlyFrame(f), Sweep(f)
  PROVE  \A s \in Spans : Stays(s) \/ Left(s, f)
<1>1. Held(f) = ToSet(chunk[f]) /\ Held(f)' = {}
  <2>1. pc[f] = "sweep" /\ pc'[f] = "sweeping" /\ chunk'[f] = <<>>
    BY DEF Sweep, At, Goto, Put, TypeOK
  <2> QED  BY <2>1, OnceEmpty DEF Held
<1>2. UNCHANGED <<open, elsewhere, buffer, shipped>> /\ counted' = Add(counted, chunk[f])
  BY DEF Sweep, blocks
<1> QED  BY <1>1, <1>2, HandLeaves

\* What is not in any frame's hands in flight is not found there.
LEMMA InFlightNone ==
  ASSUME TypeOK, NEW s \in Spans, \A g \in Frames : pc[g] \in Midway => s \notin ToSet(chunk[g])
  PROVE  InFlight(s) = 0
<1> DEFINE n == [g \in Frames |-> IF pc[g] \in Midway THEN Occurs(s, chunk[g]) ELSE 0]
<1>1. \A g \in Frames : s \notin ToSet(chunk[g]) => Occurs(s, chunk[g]) = 0
  BY OccursNone DEF TypeOK
<1>2. n \in [Frames -> Nat] /\ \A g \in Frames : n[g] = 0
  BY <1>1
<1> HIDE DEF n
<1>3. Total(n) = 0
  BY <1>2, TotalZero
<1> QED  BY <1>3 DEF InFlight, n

LEMMA ReportMoves ==
  ASSUME OpenSpansAssumption, TypeOK, Distinct, NEW f \in Frames, OnlyFrame(f), Report(f)
  PROVE  \A s \in Spans : Stays(s) \/ Left(s, f) \/ Reported(s, f)
<1>1. /\ pc[f] = "report" /\ Held(f) = ToSet(chunk[f]) /\ Held(f)' = {}
      /\ UNCHANGED <<open, elsewhere, buffer, shipped>>
  <2>1. pc[f] = "report" /\ pc'[f] # "uncount" /\ chunk'[f] = <<>>
    BY DEF Report, At, Goto, Put, After, TypeOK
  <2> QED  BY <2>1, OnceEmpty DEF Held, Report, blocks
<1>2. CASE ~ Signalled(f)
  <2>1. counted' = Add(counted, chunk[f])
    <3>1. \A s \in Spans : counted'[s] = counted[s] + Occurs(s, chunk[f])
      <4> SUFFICES ASSUME NEW s \in Spans  PROVE counted'[s] = counted[s] + Occurs(s, chunk[f])
        OBVIOUS
      <4>1. counted[s] \in Nat /\ Occurs(s, chunk[f]) \in Nat
        BY ReportTypes DEF TypeOK
      <4>2. counted'[s] = counted[s] + Occurs(s, chunk[f]) + 0
        BY <1>2, ReportTypes
      <4> QED  BY <4>1, <4>2
    <3>2. counted' = [s \in Spans |-> counted'[s]]
      BY DEF Report
    <3> HIDE DEF Report
    <3>3. counted' = [s \in Spans |-> counted[s] + Occurs(s, chunk[f])]
      BY ONLY <3>1, <3>2
    <3> QED  BY <3>3 DEF Add
  <2> QED  BY <1>1, <2>1, HandLeaves
<1>3. CASE Signalled(f)
  <2> SUFFICES ASSUME NEW s \in Spans  PROVE Stays(s) \/ Reported(s, f)
    OBVIOUS
  <2>1. /\ counted'[s] = counted[s] + Occurs(s, chunk[f]) + InFlight(s) /\ counted[s] \in Nat
        /\ InFlight(s) \in Nat /\ Occurs(s, chunk[f]) \in Nat
    BY <1>3, ReportTypes DEF TypeOK
  <2>2. OthersHold(s, f) /\ BufferStays(s) /\ TableStays(s) /\ shipped'[s] = shipped[s]
    BY <1>1, OthersStay DEF BufferStays, Buffered, TableStays
  <2>3. Occurs(s, chunk[f]) = 0 <=> s \notin ToSet(chunk[f])
    BY OccursNone DEF TypeOK
  <2>4. CASE Occurs(s, chunk[f]) = 0 /\ InFlight(s) = 0
    <3>1. counted'[s] = counted[s]
      BY <2>1, <2>4
    <3>2. HandsStay(s)
      BY <1>1, <2>2, <2>3, <2>4 DEF HandsStay, OthersHold
    <3> QED  BY <2>2, <3>1, <3>2 DEF Stays
  <2>5. CASE ~ (Occurs(s, chunk[f]) = 0 /\ InFlight(s) = 0)
    <3>1. counted'[s] > counted[s]
      BY <2>1, <2>5
    <3>2. \E g \in Frames : s \in ToSet(chunk[g]) /\ pc[g] \in Midway \cup {"report"}
      <4>1. CASE s \in ToSet(chunk[f])
        BY <1>1, <4>1
      <4>2. CASE InFlight(s) # 0
        BY <4>2, InFlightNone
      <4> QED  BY <2>3, <2>5, <4>1, <4>2
    <3>3. \A g \in Frames : s \in Held(g)' => s \in Held(g)
      BY <1>1, <2>2 DEF OthersHold
    <3> QED  BY <1>1, <1>3, <2>2, <3>1, <3>2, <3>3 DEF Reported, Signalled
  <2> QED  BY <2>4, <2>5
<1> QED  BY <1>2, <1>3

\* What becomes of a buffer that is given up, for each span.
LEMMA Drained ==
  ASSUME TypeOK, Current, Distinct, NEW c \in Clients, buffer' = [buffer EXCEPT ![c] = <<>>],
         NEW n \in [Spans -> Nat], NEW s \in Spans
  PROVE  \/ s \in Buffered /\ s \notin Buffered' /\ Add(n, buffer[c])[s] = n[s] + 1
         \/ BufferStays(s) /\ Add(n, buffer[c])[s] = n[s]
<1>1. buffer[c] \in Seq(Spans) /\ Once(buffer[c]) /\ ToSet(<<>>) = {} /\ n[s] \in Nat
  BY OnceEmpty DEF TypeOK, Distinct
<1>2. Add(n, buffer[c])[s] = n[s] + Bit(s \in ToSet(buffer[c]))
  BY <1>1, AddOne
<1>3. CASE s \in ToSet(buffer[c])
  <2>1. c = client
    BY <1>1, <1>3 DEF Current
  <2>2. Buffered = ToSet(buffer[c]) /\ Buffered' = {}
    BY <1>1, <2>1, BufferIs
  <2>3. Bit(s \in ToSet(buffer[c])) = 1
    BY <1>3 DEF Bit
  <2> QED  BY <1>2, <1>3, <2>2, <2>3
<1>4. CASE s \notin ToSet(buffer[c])
  <2>1. Bit(s \in ToSet(buffer[c])) = 0
    BY <1>4 DEF Bit
  <2>2. \A d \in Clients : s \in ToSet(buffer'[d]) <=> s \in ToSet(buffer[d])
    <3>1. \A d \in Clients : d # c => buffer'[d] = buffer[d]
      BY DEF TypeOK
    <3>2. buffer'[c] = <<>>
      BY DEF TypeOK
    <3> QED  BY <1>1, <1>4, <3>1, <3>2
  <2>3. BufferStays(s)
    BY <2>2 DEF BufferStays, Buffered
  <2> QED  BY <1>1, <1>2, <2>1, <2>3
<1> QED  BY <1>3, <1>4

LEMMA InterruptMoves ==
  ASSUME TypeOK, Current, Distinct, NEW f \in Frames, OnlyFrame(f), Interrupt(f)
  PROVE  \A s \in Spans : Stays(s) \/ Sent(s)
<1>1. /\ UNCHANGED <<open, elsewhere, counted, chunk>> /\ pc[f] = "interrupt" /\ pc'[f] # "uncount"
      /\ Drain(using[f]) \/ UNCHANGED <<buffer, shipped>>
  BY DEF Interrupt, blocks, At, Goto, TypeOK
<1>2. Held(f)' = Held(f)
  BY <1>1 DEF Held
<1>3. CASE UNCHANGED <<buffer, shipped>>
  BY <1>1, <1>2, <1>3, AllStay
<1>4. CASE buffer' = [buffer EXCEPT ![using[f]] = <<>>] /\ shipped' = Add(shipped, buffer[using[f]])
  <2> SUFFICES ASSUME NEW s \in Spans  PROVE Stays(s) \/ Sent(s)
    OBVIOUS
  <2>1. using[f] \in Clients /\ shipped \in [Spans -> Nat]
    BY DEF TypeOK
  <2>2. \/ s \in Buffered /\ s \notin Buffered' /\ shipped'[s] = shipped[s] + 1
        \/ BufferStays(s) /\ shipped'[s] = shipped[s]
    BY <1>4, <2>1, Drained
  <2>3. HandsStay(s) /\ TableStays(s) /\ counted'[s] = counted[s]
    BY <1>1, <1>2, OthersStay DEF TableStays
  <2> QED  BY <2>2, <2>3 DEF Stays, Sent
<1> QED  BY <1>1, <1>3, <1>4 DEF Drain

LEMMA ShutMoves ==
  ASSUME TypeOK, Current, Distinct, NEW f \in Frames, OnlyFrame(f), Shut(f)
  PROVE  \A s \in Spans : Stays(s) \/ Sent(s) \/ Evicted(s, f)
<1> DEFINE b == buffer[using[f]]
<1>1. /\ UNCHANGED <<open, elsewhere, chunk>> /\ pc[f] = "shut" /\ pc'[f] # "uncount"
      /\ buffer' = [buffer EXCEPT ![using[f]] = <<>>]
      /\ \/ shipped' = Add(shipped, b) /\ counted' = counted
         \/ counted' = Add(counted, b) /\ shipped' = shipped
  BY DEF Shut, blocks, At, Goto, Return, TypeOK
<1>2. Held(f)' = Held(f)
  BY <1>1 DEF Held
<1> SUFFICES ASSUME NEW s \in Spans  PROVE Stays(s) \/ Sent(s) \/ Evicted(s, f)
  OBVIOUS
<1>3. HandsStay(s) /\ TableStays(s)
  BY <1>1, <1>2, OthersStay DEF TableStays
<1>4. using[f] \in Clients /\ shipped \in [Spans -> Nat] /\ counted \in [Spans -> Nat]
  BY DEF TypeOK
<1>5. \A n \in [Spans -> Nat] : \/ s \in Buffered /\ s \notin Buffered' /\ Add(n, b)[s] = n[s] + 1
                                \/ BufferStays(s) /\ Add(n, b)[s] = n[s]
  BY <1>1, <1>4, Drained
<1> HIDE DEF b
<1>6. CASE shipped' = Add(shipped, b) /\ counted' = counted
  BY <1>3, <1>4, <1>5, <1>6 DEF Stays, Sent
<1>7. CASE counted' = Add(counted, b) /\ shipped' = shipped
  BY <1>1, <1>3, <1>4, <1>5, <1>7 DEF Stays, Evicted
<1> QED  BY <1>1, <1>6, <1>7

\* A capture into a full buffer costs the oldest.
LEMMA EmitMoves ==
  ASSUME OpenSpansAssumption, TypeOK, Current, Distinct, Traced, NEW f \in Frames, OnlyFrame(f), Emit(f)
  PROVE  \A s \in Spans : Stays(s) \/ Returned(s, f) \/ Left(s, f) \/ Evicted(s, f)
<1> DEFINE mine == chunk[f]
           c == using[f]
<1>1. /\ pc[f] = "emit" /\ Held(f) = ToSet(mine) /\ Held(f)' = {} /\ Capture(c, mine)
      /\ UNCHANGED <<open, elsewhere, shipped>>
  <2>1. pc[f] = "emit" /\ pc'[f] = "idle" /\ chunk'[f] = <<>> /\ Capture(c, mine)
    BY DEF Emit, At, Goto, Return, Put, TypeOK
  <2> QED  BY <2>1, OnceEmpty DEF Held, Emit, blocks
<1>2. mine \in Seq(Spans) /\ Once(mine) /\ c \in Clients
  BY DEF TypeOK, Distinct
<1>3. CASE c \in closed
  BY <1>1, <1>3, HandLeaves DEF Capture
<1>4. CASE c \notin closed
  <2> DEFINE b == buffer[c]
             all == b \o mine
  <2>0. c = client
    BY <1>4, OpenIsCurrent
  <2>1. PICK over \in 0 .. Len(all) :
          /\ buffer' = [buffer EXCEPT ![c] = SubSeq(all, over + 1, Len(all))]
          /\ counted' = Add(counted, SubSeq(all, 1, over))
    <3> HIDE DEF mine, c
    <3> QED  BY <1>1, <1>2, <1>4, CaptureKept
  <2> DEFINE new == SubSeq(all, over + 1, Len(all))
             old == SubSeq(all, 1, over)
  <2>2. b \in Seq(Spans) /\ Once(b)
    BY <1>2 DEF TypeOK, Distinct
  <2>3. Buffered = ToSet(b) /\ ToSet(b) \cap ToSet(mine) = {}
    <3>1. Buffered = ToSet(b)
      BY <2>0, BufferIs
    <3>2. \A s \in ToSet(mine) : s \in Spans /\ s \in Held(f)
      BY <1>1, <1>2, ToSetSeq
    <3> QED  BY <3>1, <3>2, Apart
  <2>4. all \in Seq(Spans) /\ ToSet(all) = ToSet(b) \cup ToSet(mine) /\ Once(all)
    <3> HIDE DEF b, mine
    <3> QED  BY <1>2, <2>2, <2>3, OnceConcat
  <2> HIDE DEF all
  <2>5. /\ old \in Seq(Spans) /\ Once(old) /\ ToSet(old) \cup ToSet(new) = ToSet(all) /\ ToSet(old) \cap ToSet(new) = {}
    BY <2>4, OnceCut
  <2>6. Buffered' = ToSet(new)
    BY <2>0, <2>1, BufferIs
  <2> HIDE DEF old, new
  <2>7. \A s \in Spans : counted'[s] = counted[s] + Bit(s \in ToSet(old)) /\ counted[s] \in Nat
    <3>1. counted' = Add(counted, old) /\ counted \in [Spans -> Nat]
      BY <2>1 DEF old, TypeOK
    <3> QED  BY <2>5, <3>1, AddOne
  <2> SUFFICES ASSUME NEW s \in Spans  PROVE Stays(s) \/ Returned(s, f) \/ Left(s, f) \/ Evicted(s, f)
    OBVIOUS
  <2>8. OthersHold(s, f) /\ TableStays(s) /\ shipped'[s] = shipped[s]
    BY <1>1, OthersStay DEF TableStays
  <2>9. s \notin Held(f) => HandsStay(s)
    BY <1>1, <2>8 DEF HandsStay, OthersHold
  <2>10. CASE s \in ToSet(old)
    <3>1. counted'[s] = counted[s] + 1
      BY <2>7, <2>10 DEF Bit
    <3>2. s \notin Buffered' /\ (s \in ToSet(b) \/ s \in ToSet(mine))
      BY <2>4, <2>5, <2>6, <2>10
    <3>3. CASE s \in ToSet(mine)
      <4>1. BufferStays(s) /\ s \in Held(f) /\ s \notin Held(f)'
        BY <1>1, <2>3, <3>2, <3>3 DEF BufferStays
      <4> QED  BY <2>8, <3>1, <4>1 DEF Left
    <3>4. CASE s \in ToSet(b) /\ s \notin ToSet(mine)
      BY <1>1, <2>3, <2>8, <2>9, <3>1, <3>2, <3>4 DEF Evicted
    <3> QED  BY <3>2, <3>3, <3>4
  <2>11. CASE s \notin ToSet(old)
    <3>1. counted'[s] = counted[s]
      <4>1. Bit(s \in ToSet(old)) = 0
        BY <2>11 DEF Bit
      <4> QED  BY <2>7, <4>1
    <3>2. s \in Buffered' <=> s \in ToSet(b) \/ s \in ToSet(mine)
      BY <2>4, <2>5, <2>6, <2>11
    <3>3. CASE s \in ToSet(mine)
      BY <1>1, <2>8, <3>1, <3>2, <3>3 DEF Returned
    <3>4. CASE s \notin ToSet(mine)
      <4>1. BufferStays(s)
        BY <2>3, <3>2, <3>4 DEF BufferStays
      <4> QED  BY <1>1, <2>8, <2>9, <3>1, <3>4, <4>1 DEF Stays
    <3> QED  BY <3>3, <3>4
  <2> QED  BY <2>10, <2>11
<1> QED  BY <1>3, <1>4

\* Of a chunk each span is in the buffer then, or counted.
LEMMA BufferMoves ==
  ASSUME OpenSpansAssumption, TypeOK, Current, Distinct, Traced, NEW f \in Frames, OnlyFrame(f), BufferChunk(f)
  PROVE  \A s \in Spans : \/ Stays(s) /\ (pc'[f] = "uncount" => s \notin ToSet(chunk[f]))
                          \/ Returned(s, f) /\ s \in cut'
                          \/ Left(s, f)
<1> DEFINE all == chunk[f]
           c == using[f]
<1>1. /\ pc[f] = "buffer" /\ Held(f) = ToSet(all) /\ chunk' = chunk
      /\ UNCHANGED <<open, elsewhere, shipped>>
  BY DEF BufferChunk, blocks, calls, At, Held
<1>2. all \in Seq(Spans) /\ Once(all) /\ c \in Clients
  BY DEF TypeOK, Distinct
<1>3. CASE c \in closed
  <2>1. pc'[f] = "refused" /\ UNCHANGED <<buffer, counted>>
    BY <1>3 DEF BufferChunk, Goto, TypeOK
  <2>2. Held(f)' = Held(f)
    BY <1>1, <2>1 DEF Held
  <2> QED  BY <1>1, <2>1, <2>2, AllStay
<1>4. CASE c \notin closed
  <2> DEFINE b == buffer[c]
  <2>0. c = client
    BY <1>4, OpenIsCurrent
  <2>1. PICK k \in 0 .. Len(all) :
          /\ buffer' = [buffer EXCEPT ![c] = SubSeq(all, 1, k) \o b]
          /\ counted' = Add(counted, SubSeq(all, k + 1, Len(all)))
          /\ cut' = cut \cup ToSet(SubSeq(all, 1, k))
          /\ pc' = [pc EXCEPT ![f] = "uncount"]
    BY <1>4, BufferKept
  <2> DEFINE kept == SubSeq(all, 1, k)
             over == SubSeq(all, k + 1, Len(all))
             new == kept \o b
  <2>2. b \in Seq(Spans) /\ pc'[f] = "uncount"
    BY <1>2, <2>1 DEF TypeOK
  <2>3. Buffered = ToSet(b) /\ ToSet(b) \cap ToSet(all) = {}
    <3>1. Buffered = ToSet(b)
      BY <2>0, BufferIs
    <3>2. \A s \in ToSet(all) : s \in Spans /\ s \in Held(f)
      BY <1>1, <1>2, ToSetSeq
    <3> QED  BY <3>1, <3>2, Apart
  <2>4. Held(f)' = {}
    BY <2>2 DEF Held
  <2> HIDE DEF all, c, b
  <2>5. /\ kept \in Seq(Spans) /\ over \in Seq(Spans) /\ Once(over)
        /\ ToSet(kept) \cup ToSet(over) = ToSet(all) /\ ToSet(kept) \cap ToSet(over) = {}
    BY <1>2, OnceCut
  <2>6. Buffered' = ToSet(new) /\ cut' = cut \cup ToSet(kept) /\ counted' = Add(counted, over)
    BY <2>0, <2>1, BufferIs
  <2> HIDE DEF kept, over
  <2>7. ToSet(new) = ToSet(kept) \cup ToSet(b)
    BY <2>2, <2>5, OnceConcat
  <2> HIDE DEF new
  <2>8. \A s \in Spans : counted'[s] = counted[s] + Bit(s \in ToSet(over)) /\ counted[s] \in Nat
    <3>1. counted \in [Spans -> Nat]
      BY DEF TypeOK
    <3> QED  BY <2>5, <2>6, <3>1, AddOne
  <2> SUFFICES ASSUME NEW s \in Spans
               PROVE  (Stays(s) /\ s \notin ToSet(all)) \/ (Returned(s, f) /\ s \in cut') \/ Left(s, f)
    BY DEF all
  <2>9. OthersHold(s, f) /\ TableStays(s) /\ shipped'[s] = shipped[s]
    BY <1>1, OthersStay DEF TableStays
  <2>10. CASE s \in ToSet(over)
    <3>1. counted'[s] = counted[s] + 1
      BY <2>8, <2>10 DEF Bit
    <3>2. s \in Held(f) /\ BufferStays(s)
      BY <1>1, <2>3, <2>5, <2>6, <2>7, <2>10 DEF BufferStays
    <3> QED  BY <2>4, <2>9, <3>1, <3>2 DEF Left
  <2>11. CASE s \notin ToSet(over)
    <3>1. counted'[s] = counted[s]
      <4>1. Bit(s \in ToSet(over)) = 0
        BY <2>11 DEF Bit
      <4> QED  BY <2>8, <4>1
    <3>2. CASE s \in ToSet(kept)
      <4>1. s \in Held(f) /\ s \in Buffered' /\ s \in cut'
        BY <1>1, <2>5, <2>6, <2>7, <3>2
      <4> QED  BY <2>4, <2>9, <3>1, <4>1 DEF Returned
    <3>3. CASE s \notin ToSet(kept)
      <4>1. BufferStays(s) /\ s \notin ToSet(all)
        BY <2>3, <2>5, <2>6, <2>7, <2>11, <3>3 DEF BufferStays
      <4>2. HandsStay(s)
        BY <1>1, <2>4, <2>9, <4>1 DEF HandsStay, OthersHold
      <4> QED  BY <2>9, <3>1, <4>1, <4>2 DEF Stays
    <3> QED  BY <3>2, <3>3
  <2> QED  BY <2>10, <2>11
<1> QED  BY <1>3, <1>4

\* A frame's step does one of these with each span.
LEMMA SpansMove ==
  ASSUME OpenSpansAssumption, TypeOK, TypeOK', Hands, Current, Distinct, Traced, InTurn, NEW f \in Frames, OnlyFrame(f),
         Acts(f)
  PROVE  \A s \in Spans : Moves(s, f)
<1>1. ASSUME NEW r \in Spans, Open(f, r)  PROVE \A s \in Spans : Moves(s, f)
  BY <1>1, OpenMoves DEF Moves
<1>2. CASE EndPop(f)
  BY <1>2, EndPopMoves DEF Moves
<1>3. CASE PopKey(f) \/ PopLeft(f)
  BY <1>3, PopMoves DEF Moves
<1>4. CASE Emit(f)
  BY <1>4, EmitMoves DEF Moves
<1>5. CASE BufferChunk(f)
  BY <1>5, BufferMoves DEF Moves
<1>6. CASE Sweep(f)
  BY <1>6, SweepMoves DEF Moves
<1>7. CASE Report(f)
  BY <1>7, ReportMoves DEF Moves
<1>8. CASE Interrupt(f)
  BY <1>8, InterruptMoves DEF Moves
<1>9. CASE Shut(f)
  BY <1>9, ShutMoves DEF Moves
<1>10. ASSUME UNCHANGED <<open, elsewhere, buffer, shipped, counted>>, Held(f)' = Held(f)
       PROVE  \A s \in Spans : Moves(s, f)
  BY <1>10, AllStay DEF Moves
<1>11. CASE (\E s \in Spans : End(f, s)) \/ (\E what \in {"close", "init"} : Call(f, what)) \/ Enter(f) \/ SetClient(f)
  <2>1. UNCHANGED <<open, elsewhere, buffer, shipped, counted, chunk>>
    BY <1>11 DEF End, Call, Enter, SetClient, blocks
  <2>2. pc[f] # "uncount" /\ pc'[f] # "uncount"
    BY <1>11, ZenonT(60) DEF End, Call, Enter, SetClient, MayCall, At, Goto, Return, TypeOK
  <2>3. Held(f)' = Held(f)
    BY <2>1, <2>2 DEF Held
  <2> QED  BY <1>10, <2>1, <2>3
<1>12. CASE Begin(f) \/ CountChunk(f)
  <2>1. UNCHANGED <<open, elsewhere, buffer, shipped, counted, chunk>>
    BY <1>12 DEF Begin, CountChunk, blocks, calls
  <2>2. pc[f] # "uncount" /\ pc'[f] # "uncount"
    BY <1>12 DEF Begin, CountChunk, At, Goto, After, TypeOK
  <2>3. Held(f)' = Held(f)
    BY <2>1, <2>2 DEF Held
  <2> QED  BY <1>10, <2>1, <2>3
<1>13. CASE Uncount(f)
  <2>1. UNCHANGED <<open, elsewhere, buffer, shipped, counted>>
    BY <1>13 DEF Uncount
  <2>2. \/ pc[f] = "uncount" /\ pc'[f] = "interrupt" /\ chunk'[f] = <<>>
        \/ pc[f] = "refused" /\ pc'[f] = "sweep" /\ chunk'[f] = chunk[f]
    BY <1>13 DEF Uncount, Goto, Put, TypeOK
  <2>3. Held(f)' = Held(f)
    BY <2>2, OnceEmpty DEF Held
  <2> QED  BY <1>10, <2>1, <2>3
<1> QED  BY <1>1, <1>2, <1>3, <1>4, <1>5, <1>6, <1>7, <1>8, <1>9, <1>11, <1>12, <1>13 DEF Acts, Interrupting

-----------------------------------------------------------------------------
(* What a frame has in its hands, and what is remembered of it.            *)

\* A chunk and a buffer hold a span once.
LEMMA DistinctStep ==
  ASSUME OpenSpansAssumption, TypeOK, TypeOK', Hands, Current, Distinct, Traced, NEW f \in Frames, OnlyFrame(f), Acts(f)
  PROVE  Distinct'
<1> USE DEF At, Goto, Return, Put, clients, blocks, calls, process, ghosts
<1>0. /\ pc \in [Frames -> Pcs] /\ chunk \in [Frames -> Seq(Spans)] /\ buffer \in [Clients -> Seq(Spans)]
      /\ Once(<<>>) /\ Once(chunk[f]) /\ \A c \in Clients : Once(buffer[c])
  BY OnceEmpty DEF TypeOK, Distinct
<1>1. ASSUME Once(chunk'[f]), \A c \in Clients : buffer'[c] = buffer[c] \/ Once(buffer'[c])  PROVE Distinct'
  <2>1. \A g \in Frames : Once(chunk'[g])
    BY <1>1 DEF OnlyFrame, Distinct
  <2>2. \A c \in Clients : Once(buffer'[c])
    BY <1>0, <1>1
  <2> QED  BY <2>1, <2>2 DEF Distinct
<1>2. CASE (\E s \in Spans : Open(f, s) \/ End(f, s)) \/ (\E what \in {"close", "init"} : Call(f, what)) \/ Enter(f) \/ SetClient(f)
  <2>1. chunk' = chunk /\ buffer' = buffer
    BY <1>2 DEF Open, End, Call, Enter, SetClient
  <2> QED  BY <1>0, <1>1, <2>1
<1>3. CASE EndPop(f)
  <2> DEFINE r == Head(keys[f])
  <2>1. buffer' = buffer /\ (chunk'[f] = <<>> \/ chunk'[f] = <<r>>)
    BY <1>0, <1>3 DEF EndPop
  <2>2. Once(<<r>>)
    BY DEF Once
  <2> HIDE DEF r
  <2> QED  BY <1>0, <1>1, <2>1, <2>2
<1>4. CASE Emit(f)
  <2> DEFINE mine == chunk[f]
             c == using[f]
  <2>1. chunk'[f] = <<>> /\ Capture(c, mine) /\ c \in Clients /\ mine \in Seq(Spans) /\ Once(mine)
        /\ Held(f) = ToSet(mine)
    BY <1>0, <1>4 DEF Emit, Held, TypeOK
  <2>2. CASE c \in closed
    BY <1>0, <1>1, <2>1, <2>2 DEF Capture
  <2>3. CASE c \notin closed
    <3> DEFINE b == buffer[c]
               all == b \o mine
    <3>1. PICK over \in 0 .. Len(all) : buffer' = [buffer EXCEPT ![c] = SubSeq(all, over + 1, Len(all))]
      <4> HIDE DEF mine, c
      <4> QED  BY <2>1, <2>3, CaptureKept
    <3>2. b \in Seq(Spans) /\ Once(b)
      BY <1>0, <2>1
    <3>3. ToSet(b) \cap ToSet(mine) = {}
      <4>1. c = client
        BY <2>3, OpenIsCurrent
      <4>2. Buffered = ToSet(b)
        BY <4>1, BufferIs
      <4>3. \A s \in ToSet(mine) : s \in Spans /\ s \in Held(f)
        BY <2>1, ToSetSeq
      <4> QED  BY <4>2, <4>3, Apart
    <3>4. all \in Seq(Spans) /\ Once(all)
      <4> HIDE DEF b, mine
      <4> QED  BY <2>1, <3>2, <3>3, OnceConcat
    <3> HIDE DEF all
    <3>5. Once(SubSeq(all, over + 1, Len(all)))
      BY <3>4, OnceCut
    <3> QED  BY <1>0, <1>1, <2>1, <3>1, <3>5
  <2> QED  BY <2>2, <2>3
<1>5. CASE PopKey(f) \/ PopLeft(f)
  <2> DEFINE r == Head(keys[f])
  <2>1. /\ buffer' = buffer /\ pc[f] # "uncount"
        /\ \/ chunk'[f] = chunk[f]
           \/ keys[f] # <<>> /\ r \in ToSet(open) /\ chunk'[f] = Append(chunk[f], r)
    BY <1>0, <1>5 DEF PopKey, PopLeft, Pop
  <2>2. CASE chunk'[f] = chunk[f]
    BY <1>0, <1>1, <2>1, <2>2
  <2>3. CASE keys[f] # <<>> /\ r \in ToSet(open) /\ chunk'[f] = Append(chunk[f], r)
    <3>1. r \in Spans /\ chunk[f] \in Seq(Spans)
      BY <2>3, HeadTailProperties DEF TypeOK
    <3>2. r \notin ToSet(chunk[f])
      <4>1. r \notin Held(f)
        BY <2>3, <3>1, Apart
      <4> QED  BY <2>1, <4>1 DEF Held
    <3>3. Once(Append(chunk[f], r))
      BY <1>0, <3>1, <3>2, OnceAppend
    <3> QED  BY <1>0, <1>1, <2>1, <2>3, <3>3
  <2> QED  BY <2>1, <2>2, <2>3
<1>6. CASE BufferChunk(f)
  <2> DEFINE mine == chunk[f]
             c == using[f]
  <2>1. chunk' = chunk /\ c \in Clients /\ mine \in Seq(Spans) /\ Once(mine) /\ Held(f) = ToSet(mine)
    BY <1>0, <1>6 DEF BufferChunk, Held, TypeOK
  <2>2. CASE c \in closed
    BY <1>0, <1>1, <1>6, <2>1, <2>2 DEF BufferChunk
  <2>3. CASE c \notin closed
    <3> DEFINE b == buffer[c]
    <3>1. PICK k \in 0 .. Len(mine) : buffer' = [buffer EXCEPT ![c] = SubSeq(mine, 1, k) \o b]
      BY <1>6, <2>3, BufferKept
    <3> DEFINE kept == SubSeq(mine, 1, k)
    <3>2. b \in Seq(Spans) /\ Once(b)
      BY <1>0, <2>1
    <3>3. ToSet(b) \cap ToSet(mine) = {}
      <4>1. c = client
        BY <2>3, OpenIsCurrent
      <4>2. Buffered = ToSet(b)
        BY <4>1, BufferIs
      <4>3. \A s \in ToSet(mine) : s \in Spans /\ s \in Held(f)
        BY <2>1, ToSetSeq
      <4> QED  BY <4>2, <4>3, Apart
    <3> HIDE DEF mine, b, c
    <3>4. kept \in Seq(Spans) /\ Once(kept) /\ ToSet(kept) \subseteq ToSet(mine)
      BY <2>1, OnceCut
    <3> HIDE DEF kept
    <3>5. Once(kept \o b)
      BY <3>2, <3>3, <3>4, OnceConcat
    <3> QED  BY <1>0, <1>1, <2>1, <3>1, <3>5 DEF kept
  <2> QED  BY <2>2, <2>3
<1>7. CASE Uncount(f) \/ Sweep(f) \/ Report(f) \/ Begin(f) \/ CountChunk(f)
  <2>1. buffer' = buffer /\ (chunk'[f] = chunk[f] \/ chunk'[f] = <<>>)
    BY <1>0, <1>7 DEF Uncount, Sweep, Report, Begin, CountChunk
  <2> QED  BY <1>0, <1>1, <2>1
<1>8. CASE Interrupt(f) \/ Shut(f)
  <2>1. chunk' = chunk /\ (buffer' = buffer \/ buffer' = [buffer EXCEPT ![using[f]] = <<>>])
    BY <1>8 DEF Interrupt, Shut, Drain
  <2>2. \A c \in Clients : buffer'[c] = buffer[c] \/ buffer'[c] = <<>>
    BY <1>0, <2>1
  <2> QED  BY <1>0, <1>1, <2>1, <2>2
<1> QED  BY <1>2, <1>3, <1>4, <1>5, <1>6, <1>7, <1>8 DEF Acts, Interrupting

\* A frame's chunk grows by what it takes only, ...
ChunkMoves(s, f) ==
  s \in ToSet(chunk'[f]) => \/ s \in ToSet(chunk[f]) \/ s \in ToSet(open)
                            \/ s \in elsewhere /\ pc[f] = "ended" /\ Head(keys[f]) = s

\* ... its keys are of blocks that were opened, ...
KeysMove(s, f) ==
  s \in ToSet(keys'[f]) => s \in ToSet(keys[f]) \/ s \in ToSet(open) \/ block[s] # "new"

\* ... and a block is opened and ended once.
BlockMoves(s, f) ==
  \/ block'[s] = block[s]
  \/ Opened(s) /\ s \in host.spans /\ \A r \in host.spans : r < s => block[r] # "new"
  \/ Stays(s) /\ block[s] = "open" /\ block'[s] = IF s \in parents THEN "copied" ELSE "ended"

LEMMA ChunkStep ==
  ASSUME TypeOK, Hands, NEW f \in Frames, Acts(f)
  PROVE  \A s \in Spans : ChunkMoves(s, f)
<1> USE DEF At, Goto, Return, Put, clients, blocks, calls, process, ghosts
<1> SUFFICES ASSUME NEW s \in Spans, s \in ToSet(chunk'[f]), s \notin ToSet(chunk[f])
             PROVE  s \in ToSet(open) \/ (s \in elsewhere /\ pc[f] = "ended" /\ Head(keys[f]) = s)
  BY DEF ChunkMoves
<1>0. chunk'[f] # chunk[f] /\ chunk'[f] # <<>> /\ chunk \in [Frames -> Seq(Spans)]
  BY OnceEmpty DEF TypeOK
<1>1. CASE (\E r \in Spans : Open(f, r) \/ End(f, r)) \/ (\E what \in {"close", "init"} : Call(f, what)) \/ Enter(f) \/ SetClient(f)
  BY <1>0, <1>1 DEF Open, End, Call, Enter, SetClient
<1>2. CASE EndPop(f)
  <2> DEFINE r == Head(keys[f])
  <2>1. pc[f] = "ended" /\ Takes(r) /\ chunk'[f] = <<r>>
    BY <1>0, <1>2 DEF EndPop
  <2>2. ToSet(<<r>>) = {r}
    BY DEF ToSet
  <2> HIDE DEF r
  <2>3. s = r
    BY <2>1, <2>2
  <2> QED  BY <2>1, <2>3 DEF Takes, r
<1>3. CASE PopKey(f) \/ PopLeft(f)
  <2> DEFINE r == Head(keys[f])
  <2>1. keys[f] # <<>> /\ r \in ToSet(open) /\ chunk'[f] = Append(chunk[f], r)
    BY <1>0, <1>3 DEF PopKey, PopLeft, Pop
  <2>2. r \in Spans /\ chunk[f] \in Seq(Spans)
    BY <2>1, HeadTailProperties DEF TypeOK
  <2>3. ToSet(Append(chunk[f], r)) = ToSet(chunk[f]) \cup {r}
    BY <2>2, OnceAppend
  <2> QED  BY <2>1, <2>3
<1>4. CASE BufferChunk(f) \/ Interrupt(f) \/ Shut(f) \/ Begin(f) \/ CountChunk(f)
  BY <1>0, <1>4 DEF BufferChunk, Interrupt, Shut, Begin, CountChunk
<1>5. CASE Emit(f) \/ Uncount(f) \/ Sweep(f) \/ Report(f)
  BY <1>0, <1>5 DEF Emit, Uncount, Sweep, Report
<1> QED  BY <1>1, <1>2, <1>3, <1>4, <1>5 DEF Acts, Interrupting

LEMMA KeysStep ==
  ASSUME OpenSpansAssumption, TypeOK, NEW f \in Frames, Acts(f)
  PROVE  \A s \in Spans : KeysMove(s, f)
<1> USE DEF At, Goto, Return, Put, clients, blocks, calls, process, ghosts
<1> SUFFICES ASSUME NEW s \in Spans, s \in ToSet(keys'[f]), s \notin ToSet(keys[f]), s \notin ToSet(open)
             PROVE  block[s] # "new"
  BY DEF KeysMove
<1>0. keys'[f] # keys[f] /\ keys'[f] # <<>> /\ keys \in [Frames -> Seq(Spans)]
  BY OnceEmpty DEF TypeOK
<1>1. ASSUME NEW r \in Spans, Open(f, r)  PROVE FALSE
  BY <1>0, <1>1 DEF Open
<1>2. ASSUME NEW r \in Spans, End(f, r)  PROVE block[s] # "new"
  <2>1. keys'[f] = <<r>> /\ block[r] = "open" /\ ToSet(<<r>>) = {r}
    BY <1>0, <1>2 DEF End, ToSet
  <2> QED  BY <2>1
<1>3. CASE (\E what \in {"close", "init"} : Call(f, what)) \/ Enter(f) \/ SetClient(f) \/ EndPop(f) \/ Emit(f) \/ Shut(f)
  BY <1>0, <1>3 DEF Call, Enter, SetClient, EndPop, Emit, Shut
<1>4. CASE PopKey(f) \/ PopLeft(f)
  <2>1. keys[f] # <<>> /\ keys'[f] = Tail(keys[f]) /\ keys[f] \in Seq(Spans)
    BY <1>0, <1>4 DEF PopKey, PopLeft, Pop
  <2>2. ToSet(Tail(keys[f])) \subseteq ToSet(keys[f])
    BY <2>1, OnceTail
  <2> QED  BY <2>1, <2>2
<1>5. CASE Interrupt(f)
  <2>1. keys'[f] = NextKeys(Fits(using[f])) /\ using[f] \in Clients
    BY <1>0, <1>5 DEF Interrupt, TypeOK
  <2>2. PICK k \in 0 .. Len(open) : keys'[f] = SubSeq(open, 1, k)
    BY <2>1, NextKeysCut
  <2>3. ToSet(SubSeq(open, 1, k)) \subseteq ToSet(open)
    BY OnceCut DEF TypeOK
  <2> QED  BY <2>2, <2>3
<1>6. CASE Sweep(f)
  BY <1>0, <1>6 DEF Sweep
<1>7. CASE Uncount(f) \/ Report(f) \/ Begin(f) \/ CountChunk(f) \/ BufferChunk(f)
  BY <1>0, <1>7 DEF Uncount, Report, Begin, CountChunk, BufferChunk
<1> QED  BY <1>1, <1>2, <1>3, <1>4, <1>5, <1>6, <1>7 DEF Acts, Interrupting

LEMMA BlockStep ==
  ASSUME TypeOK, TypeOK', Hands, Traced, NEW f \in Frames, OnlyFrame(f), Acts(f)
  PROVE  \A s \in Spans : BlockMoves(s, f)
<1>1. ASSUME NEW r \in Spans, Open(f, r), NEW s \in Spans  PROVE BlockMoves(s, f)
  <2>1. CASE s = r
    <3>1. Opened(s)
      BY <1>1, <2>1, OpenMoves
    <3> QED  BY <1>1, <2>1, <3>1 DEF Open, BlockMoves
  <2>2. CASE s # r
    BY <1>1, <2>2 DEF Open, BlockMoves, TypeOK
  <2> QED  BY <2>1, <2>2
<1>2. ASSUME NEW r \in Spans, End(f, r), NEW s \in Spans  PROVE BlockMoves(s, f)
  <2>1. /\ block' = [block EXCEPT ![r] = IF r \in parents THEN "copied" ELSE "ended"] /\ block[r] = "open"
        /\ UNCHANGED <<open, elsewhere, buffer, shipped, counted, chunk>> /\ pc[f] # "uncount" /\ pc'[f] # "uncount"
    BY <1>2 DEF End, MayCall, At, Goto, TypeOK
  <2>2. Held(f)' = Held(f)
    BY <2>1 DEF Held
  <2>3. Stays(s)
    BY <2>1, <2>2, AllStay
  <2> QED  BY <2>1, <2>3 DEF BlockMoves, TypeOK
<1>3. ASSUME block' = block, NEW s \in Spans  PROVE BlockMoves(s, f)
  BY <1>3 DEF BlockMoves
<1>4. CASE EndPop(f) \/ Emit(f) \/ (\E what \in {"close", "init"} : Call(f, what)) \/ Enter(f) \/ Shut(f) \/ SetClient(f)
  BY <1>3, <1>4 DEF EndPop, Emit, Call, Enter, Shut, SetClient, blocks
<1>5. CASE Interrupting(f)
  BY <1>3, <1>5 DEF Interrupting, Begin, Interrupt, PopKey, CountChunk, BufferChunk, Uncount, Sweep, PopLeft, Report, Pop,
                    blocks
<1> QED  BY <1>1, <1>2, <1>4, <1>5 DEF Acts

\* What a shutdown puts into the buffer it had in its hands.
LEMMA CutStep ==
  ASSUME OpenSpansAssumption, TypeOK, NEW f \in Frames, Acts(f)
  PROVE  /\ cut \subseteq cut' /\ cut' \subseteq cut \cup ToSet(chunk[f])
         /\ pc[f] # "buffer" => cut' = cut
<1>1. CASE BufferChunk(f)
  <2>1. pc[f] = "buffer"
    BY <1>1 DEF BufferChunk, At
  <2>2. CASE using[f] \in closed
    BY <1>1, <2>1, <2>2 DEF BufferChunk
  <2>3. CASE using[f] \notin closed
    <3>1. PICK k \in 0 .. Len(chunk[f]) : cut' = cut \cup ToSet(SubSeq(chunk[f], 1, k))
      BY <1>1, <2>3, BufferKept
    <3>2. ToSet(SubSeq(chunk[f], 1, k)) \subseteq ToSet(chunk[f])
      BY OnceCut DEF TypeOK
    <3> QED  BY <2>1, <3>1, <3>2
  <2> QED  BY <2>2, <2>3
<1>2. CASE ~ BufferChunk(f)
  <2>1. cut' = cut
    BY <1>2 DEF Acts, Open, End, EndPop, Emit, Call, Enter, Shut, SetClient, Interrupting, Begin, Interrupt, PopKey,
                CountChunk, Uncount, Sweep, PopLeft, Report, Pop, ghosts
  <2> QED  BY <2>1
<1> QED  BY <1>1, <1>2

\* What a frame is on the way to.
LEMMA PlaceStep ==
  ASSUME TypeOK, Doing, NEW f \in Frames, Acts(f)
  PROVE  /\ pc'[f] = "ended" => \E r \in Spans : keys'[f] = <<r>> /\ (r \in parents => block'[r] = "copied")
         /\ pc'[f] = "uncount" => BufferChunk(f) /\ chunk' = chunk
         /\ f = Handler => Interrupting(f)
         /\ f = Base => pc[Handler] = "idle"
         /\ ~ dead
         /\ Begin(f) \/ due' = due
<1> USE DEF At, Goto, Return, Put, clients, blocks, calls, process, ghosts
<1>1. ASSUME NEW r \in Spans, Open(f, r)
      PROVE  pc'[f] = "idle" /\ f # Handler /\ Runs(f) /\ due' = due
  BY <1>1 DEF Open, MayCall
<1>2. ASSUME NEW r \in Spans, End(f, r)
      PROVE  /\ pc'[f] = "ended" /\ keys'[f] = <<r>> /\ (r \in parents => block'[r] = "copied")
             /\ f # Handler /\ Runs(f) /\ due' = due
  BY <1>2 DEF End, MayCall, TypeOK
<1>3. CASE EndPop(f) \/ Emit(f) \/ (\E what \in {"close", "init"} : Call(f, what)) \/ Enter(f) \/ Shut(f) \/ SetClient(f)
  <2>1. pc'[f] \notin {"ended", "uncount"} /\ Runs(f) /\ due' = due
    BY <1>3 DEF EndPop, Emit, Call, Enter, Shut, SetClient, MayCall, TypeOK
  <2>2. f # Handler
    <3>1. pc[f] \in {"ended", "emit", "lock", "shut", "set"} \/ f # Handler
      BY <1>3 DEF EndPop, Emit, Call, Enter, Shut, SetClient, MayCall
    <3> QED  BY <3>1, CallOf
  <2> QED  BY <2>1, <2>2 DEF Runs
<1>4. CASE Interrupting(f)
  <2>1. Runs(f) /\ pc'[f] # "ended"
    BY <1>4 DEF Interrupting, Begin, Interrupt, PopKey, CountChunk, BufferChunk, Uncount, Sweep, PopLeft, Report, Pop, After, TypeOK
  <2>2. Begin(f) \/ due' = due
    BY <1>4 DEF Interrupting, Interrupt, PopKey, CountChunk, BufferChunk, Uncount, Sweep, PopLeft, Report, Pop
  <2>3. pc'[f] = "uncount" => BufferChunk(f) /\ chunk' = chunk
    BY <1>4 DEF Interrupting, Begin, Interrupt, PopKey, CountChunk, BufferChunk, Uncount, Sweep, PopLeft, Report, Pop, After, TypeOK
  <2> QED  BY <1>4, <2>1, <2>2, <2>3 DEF Runs
<1> QED  BY <1>1, <1>2, <1>3, <1>4 DEF Acts, Runs

-----------------------------------------------------------------------------
(* A span is in one place.                                                 *)

\* A span that was not opened yet is nowhere.
LEMMA FreshNowhere ==
  ASSUME NEW s, Fresh(s), block[s] = "new"
  PROVE  /\ s \notin ToSet(open) /\ s \notin elsewhere /\ s \notin Buffered /\ shipped[s] = 0 /\ counted[s] = 0
         /\ \A g \in Frames : s \notin Held(g)
  BY DEF Fresh, Somewhere, Table

LEMMA CopiesStep ==
  ASSUME TypeOK, NEW f \in Frames, NEW s \in Spans, Copies(s), Fresh(s), Moves(s, f)
  PROVE  Copies(s)'
<1>0. shipped[s] \in Nat
  BY DEF TypeOK
<1>1. CASE Stays(s)
  BY <1>1 DEF Stays, TableStays, HandsStay, BufferStays, Copies, Table
<1>2. CASE Opened(s)
  <2>1. /\ s \notin Buffered' /\ shipped'[s] = 0 /\ (s \in ToSet(open') <=> s \notin elsewhere')
        /\ \A g \in Frames : s \notin Held(g)'
    BY <1>2, FreshNowhere DEF Opened, HandsStay, BufferStays
  <2> QED  BY <2>1 DEF Copies, Table
<1>3. CASE Taken(s, f)
  <2>1. s \in Table
    BY <1>3 DEF Taken, Table
  <2>2. /\ s \notin Buffered' /\ shipped'[s] = 0 /\ s \notin ToSet(open') /\ s \notin elsewhere'
        /\ \A g \in Frames : s \in Held(g)' => g = f
    BY <1>3, <2>1 DEF Taken, Copies, OthersHold, BufferStays
  <2> QED  BY <2>2 DEF Copies, Table
<1>4. CASE Returned(s, f)
  <2>1. /\ shipped'[s] = 0 /\ s \notin ToSet(open') /\ s \notin elsewhere'
        /\ \A g \in Frames : s \notin Held(g)'
    BY <1>4 DEF Returned, Copies, Table, OthersHold, TableStays
  <2> QED  BY <2>1 DEF Copies, Table
<1>5. CASE Left(s, f)
  <2>1. /\ shipped'[s] = 0 /\ s \notin ToSet(open') /\ s \notin elsewhere' /\ s \notin Buffered'
        /\ \A g \in Frames : s \notin Held(g)'
    BY <1>5 DEF Left, Copies, Table, OthersHold, TableStays, BufferStays
  <2> QED  BY <2>1 DEF Copies, Table
<1>6. CASE Evicted(s, f) \/ Sent(s)
  <2>1. /\ s \notin ToSet(open') /\ s \notin elsewhere' /\ s \notin Buffered' /\ shipped'[s] <= 1
        /\ \A g \in Frames : s \notin Held(g)'
    BY <1>0, <1>6 DEF Evicted, Sent, Copies, Table, HandsStay, TableStays
  <2> QED  BY <2>1 DEF Copies, Table
<1>7. CASE Reported(s, f)
  BY <1>7 DEF Reported, TableStays, BufferStays, Copies, Table
<1> QED  BY <1>1, <1>2, <1>3, <1>4, <1>5, <1>6, <1>7 DEF Moves

\* A span that is nowhere is found again by nobody.
LEMMA NowhereStep ==
  ASSUME NEW f \in Frames, NEW s \in Spans, ~ Somewhere(s), Moves(s, f), ~ Opened(s)
  PROVE  ~ Somewhere(s)'
<1>1. Stays(s) \/ Reported(s, f)
  BY DEF Moves, Taken, Returned, Left, Evicted, Sent, Somewhere, Table
<1> QED  BY <1>1 DEF Stays, Reported, TableStays, HandsStay, BufferStays, Somewhere, Table

LEMMA SingleStep ==
  ASSUME TypeOK, Calm, NEW f \in Frames, NEW s \in Spans, OnlyFrame(f), Copies(s), Single(s), Fresh(s),
         Moves(s, f), BlockMoves(s, f)
  PROVE  Single(s)'
<1> SUFFICES ASSUME signals = 0, s \notin parents, block'[s] # "new"
             PROVE  counted'[s] <= 1 /\ (counted'[s] = 0 <=> Somewhere(s)')
  BY DEF Single, OnlyFrame
<1>0. counted[s] \in Nat /\ shipped[s] \in Nat
  BY DEF TypeOK
<1>1. CASE Opened(s)
  <2>1. counted'[s] = 0
    BY <1>1, FreshNowhere DEF Opened
  <2>2. Somewhere(s)'
    BY <1>1 DEF Opened, Somewhere, Table
  <2> QED  BY <2>1, <2>2
<1>2. CASE ~ Opened(s)
  <2>1. counted[s] <= 1 /\ (counted[s] = 0 <=> Somewhere(s))
    BY <1>2 DEF BlockMoves, Single
  <2>2. CASE Stays(s)
    BY <2>1, <2>2 DEF Stays, TableStays, HandsStay, BufferStays, Somewhere, Table
  <2>3. CASE Taken(s, f)
    BY <2>1, <2>3 DEF Taken, Somewhere, Table
  <2>4. CASE Returned(s, f)
    BY <2>1, <2>4 DEF Returned, Somewhere, Table
  <2>5. CASE Left(s, f)
    <3>1. counted'[s] = 1
      <4>1. counted[s] = 0
        BY <2>1, <2>5 DEF Left, Somewhere
      <4> QED  BY <2>5, <4>1 DEF Left
    <3>2. ~ Somewhere(s)'
      BY <2>5 DEF Left, Copies, Table, OthersHold, TableStays, BufferStays, Somewhere
    <3> QED  BY <3>1, <3>2
  <2>6. CASE Evicted(s, f)
    <3>1. counted'[s] = 1
      <4>1. counted[s] = 0
        BY <2>1, <2>6 DEF Evicted, Somewhere
      <4> QED  BY <2>6, <4>1 DEF Evicted
    <3>2. ~ Somewhere(s)'
      BY <2>6 DEF Evicted, Copies, Table, HandsStay, TableStays, Somewhere
    <3> QED  BY <3>1, <3>2
  <2>7. CASE Sent(s)
    <3>1. counted'[s] = 0 /\ shipped'[s] # 0
      BY <1>0, <2>1, <2>7 DEF Sent, Somewhere
    <3> QED  BY <3>1 DEF Somewhere
  <2>8. CASE Reported(s, f)
    BY <2>8 DEF Reported, Calm
  <2> QED  BY <1>2, <2>2, <2>3, <2>4, <2>5, <2>6, <2>7, <2>8 DEF Moves
<1> QED  BY <1>1, <1>2

LEMMA FreshStep ==
  ASSUME TypeOK, OpenSpansAssumption, Doing, NEW f \in Frames, NEW s \in Spans, Acts(f), OnlyFrame(f), Fresh(s), Moves(s, f), BlockMoves(s, f),
         ChunkMoves(s, f), KeysMove(s, f)
  PROVE  Fresh(s)'
<1> SUFFICES ASSUME block'[s] = "new"  PROVE Fresh(s)'
  BY DEF Fresh
<1>1. block[s] = "new"
  BY DEF BlockMoves, Opened
<1>2. ~ Opened(s)
  BY DEF Opened
<1>3. /\ ~ Somewhere(s) /\ counted[s] = 0 /\ s \notin cut \cup due \cup parents
      /\ \A g \in Frames : s \notin ToSet(chunk[g]) /\ s \notin ToSet(keys[g])
      /\ s \notin ToSet(open) /\ s \notin elsewhere
  BY <1>1, FreshNowhere DEF Fresh
<1>4. ~ Somewhere(s)'
  BY <1>2, <1>3, NowhereStep
<1>5. counted'[s] = 0
  BY <1>2, <1>3 DEF Moves, Stays, Taken, Returned, Left, Evicted, Sent, Reported, Somewhere, Table
<1>6. s \notin cut'
  BY <1>3, CutStep
<1>7. s \notin due'
  <2>1. Begin(f) => due' = due \/ due' = ToSet(open)
    BY DEF Begin
  <2> QED  BY <1>3, <2>1, PlaceStep
<1>8. s \notin parents'
  BY <1>3 DEF OnlyFrame
<1>9. \A g \in Frames : s \notin ToSet(chunk'[g]) \cup ToSet(keys'[g])
  <2>1. s \notin ToSet(chunk'[f]) /\ s \notin ToSet(keys'[f])
    BY <1>1, <1>3 DEF ChunkMoves, KeysMove
  <2> QED  BY <1>3, <2>1 DEF OnlyFrame
<1> QED  BY <1>4, <1>5, <1>6, <1>7, <1>8, <1>9 DEF Fresh

LEMMA ChildsStep ==
  ASSUME TypeOK, Doing, NEW f \in Frames, NEW s \in Spans, Acts(f), OnlyFrame(f), Fresh(s), Childs(s), Moves(s, f), BlockMoves(s, f),
         ChunkMoves(s, f)
  PROVE  Childs(s)'
<1> SUFFICES ASSUME s \in parents  PROVE Childs(s)'
  BY DEF Childs, OnlyFrame
<1>1. block[s] # "new" /\ ~ Opened(s)
  BY DEF Fresh, Opened
<1>2. s \notin ToSet(open')
  BY <1>1 DEF Childs, Moves, Stays, Taken, Returned, Left, Evicted, Sent, Reported, TableStays
<1> SUFFICES ASSUME block'[s] # "copied"
             PROVE  /\ s \notin Buffered' /\ shipped'[s] = 0 /\ counted'[s] = 0
                    /\ \A g \in Frames : s \notin ToSet(chunk'[g])
                    /\ \A g \in Frames : pc'[g] = "ended" => Head(keys'[g]) # s
  BY <1>2 DEF Childs
<1>3. block[s] # "copied"
  BY DEF BlockMoves, Opened
<1>4. /\ s \notin ToSet(open) /\ s \notin Buffered /\ shipped[s] = 0 /\ counted[s] = 0
      /\ \A g \in Frames : s \notin ToSet(chunk[g])
      /\ \A g \in Frames : pc[g] = "ended" => Head(keys[g]) # s
  BY <1>3 DEF Childs
<1>5. \A g \in Frames : s \notin ToSet(chunk'[g])
  <2>1. s \notin ToSet(chunk'[f])
    BY <1>4 DEF ChunkMoves
  <2> QED  BY <1>4, <2>1 DEF OnlyFrame
<1>6. \A g \in Frames : pc'[g] = "ended" => Head(keys'[g]) # s
  <2>1. ASSUME pc'[f] = "ended"  PROVE Head(keys'[f]) # s
    <3>1. PICK r \in Spans : keys'[f] = <<r>> /\ (r \in parents => block'[r] = "copied")
      BY <2>1, PlaceStep
    <3>2. Head(<<r>>) = r
      OBVIOUS
    <3> QED  BY <3>1, <3>2
  <2> QED  BY <1>4, <2>1 DEF OnlyFrame
<1>7. s \notin Buffered' /\ shipped'[s] = 0 /\ counted'[s] = 0
  <2>1. \A g \in Frames : s \notin Held(g)
    BY <1>4 DEF Held
  <2>2. Stays(s)
    BY <1>1, <1>4, <2>1 DEF Moves, Taken, Returned, Left, Evicted, Sent, Reported
  <2> QED  BY <1>4, <2>2 DEF Stays, BufferStays
<1> QED  BY <1>5, <1>6, <1>7

LEMMA UncountedStep ==
  ASSUME OpenSpansAssumption, TypeOK, Doing, Current, Distinct, Traced, NEW f \in Frames, NEW s \in Spans, Acts(f), OnlyFrame(f), Moves(s, f)
  PROVE  Uncounted(s)'
<1>0. Uncounted(s) /\ Fresh(s) /\ Copies(s)
  BY DEF Traced
<1> SUFFICES ASSUME NEW g \in Frames, pc'[g] = "uncount", s \in ToSet(chunk'[g])
             PROVE  s \in cut' \/ ~ Somewhere(s)'
  BY DEF Uncounted
<1>1. CASE g # f
  <2>1. pc[g] = "uncount" /\ s \in ToSet(chunk[g])
    BY <1>1 DEF OnlyFrame
  <2>2. ~ Opened(s)
    BY <1>0, <2>1 DEF Opened, Fresh
  <2>3. s \in cut \/ ~ Somewhere(s)
    BY <1>0, <2>1 DEF Uncounted
  <2> QED  BY <2>2, <2>3, CutStep, NowhereStep
<1>2. CASE g = f
  <2>1. BufferChunk(f) /\ s \in ToSet(chunk[f])
    BY <1>2, PlaceStep
  <2>2. (Returned(s, f) /\ s \in cut') \/ Left(s, f)
    BY <1>2, <2>1, BufferMoves
  <2>3. ASSUME Left(s, f)  PROVE ~ Somewhere(s)'
    BY <1>0, <2>3 DEF Left, Copies, Table, OthersHold, TableStays, BufferStays, Somewhere
  <2> QED  BY <2>2, <2>3
<1> QED  BY <1>1, <1>2

-----------------------------------------------------------------------------
(* What a deadly signal's handler owes.                                    *)

\* Where the handler goes from where it is.
LEMMA HandlerGoes ==
  ASSUME TypeOK, Doing, Acts(Handler)
  PROVE  /\ pc[Handler] \in Looping /\ pc'[Handler] \in (Looping \ {"begin"}) \cup {"flush"}
         /\ Begin(Handler) => /\ pc[Handler] = "begin" /\ open' = open
                              /\ due' = due \/ (due' = ToSet(open) /\ pc'[Handler] = "interrupt")
         /\ pc[Handler] # "begin" /\ pc'[Handler] = "flush" => pc[Handler] = "report" /\ open' = open
         /\ pc'[Handler] = "report" => pc[Handler] = "sweeping" /\ keys[Handler] = <<>> /\ open' = open
         /\ pc'[Handler] = "sweeping" => \/ keys'[Handler] = open /\ open' = open
                                         \/ PopLeft(Handler) /\ pc[Handler] = "sweeping" /\ keys[Handler] # <<>>
<1> USE DEF At, Goto, Put, After, Signalled, Looping
<1>0. Interrupting(Handler) /\ pc \in [Frames -> Pcs] /\ Handler \in Frames /\ keys \in [Frames -> Seq(Spans)]
  BY PlaceStep DEF Frames, TypeOK
<1>1. CASE Begin(Handler)
  <2>1. /\ pc[Handler] = "begin" /\ open' = open /\ pc'[Handler] \in {"flush", "interrupt"}
        /\ due' = due \/ (due' = ToSet(open) /\ pc'[Handler] = "interrupt")
    BY <1>0, <1>1 DEF Begin, blocks
  <2> QED  BY <2>1
<1>2. CASE Interrupt(Handler) \/ CountChunk(Handler) \/ BufferChunk(Handler) \/ Uncount(Handler)
  <2>1. /\ pc[Handler] \in {"interrupt", "count", "buffer", "uncount", "refused"}
        /\ pc'[Handler] \in {"interrupt", "sweep", "pop", "buffer", "uncount", "refused"}
    BY <1>0, <1>2 DEF Interrupt, CountChunk, BufferChunk, Uncount
  <2> QED  BY <2>1 DEF Begin
<1>3. CASE PopKey(Handler)
  <2>1. pc[Handler] = "pop" /\ pc'[Handler] \in {"pop", "count"}
    BY <1>0, <1>3 DEF PopKey, Pop
  <2> QED  BY <2>1 DEF Begin
<1>4. CASE Sweep(Handler)
  <2>1. pc[Handler] = "sweep" /\ pc'[Handler] = "sweeping" /\ keys'[Handler] = open /\ open' = open
    BY <1>0, <1>4 DEF Sweep, blocks
  <2> QED  BY <2>1 DEF Begin
<1>5. CASE PopLeft(Handler)
  <2>1. /\ pc[Handler] = "sweeping"
        /\ \/ pc'[Handler] = "report" /\ keys[Handler] = <<>> /\ open' = open
           \/ pc'[Handler] = "sweeping" /\ keys[Handler] # <<>>
    BY <1>0, <1>5 DEF PopLeft, Pop
  <2> QED  BY <1>5, <2>1 DEF Begin
<1>6. CASE Report(Handler)
  <2>1. pc[Handler] = "report" /\ pc'[Handler] = "flush" /\ open' = open
    BY <1>0, <1>6 DEF Report, blocks
  <2> QED  BY <2>1 DEF Begin
<1> QED  BY <1>0, <1>1, <1>2, <1>3, <1>4, <1>5, <1>6 DEF Interrupting

\* A span that was opened is never nowhere without being counted.
LEMMA SaidStep ==
  ASSUME TypeOK, TypeOK', NEW f \in Frames, NEW s \in Spans, Moves(s, f), Somewhere(s) \/ counted[s] > 0
  PROVE  Somewhere(s)' \/ counted'[s] > 0
<1>0. counted[s] \in Nat /\ shipped[s] \in Nat
  BY DEF TypeOK
<1>1. CASE Stays(s)
  BY <1>1 DEF Stays, TableStays, HandsStay, BufferStays, Somewhere, Table
<1>2. CASE Opened(s)
  BY <1>2 DEF Opened, Somewhere, Table
<1>3. CASE Taken(s, f)
  BY <1>3 DEF Taken, Somewhere
<1>4. CASE Returned(s, f) \/ Sent(s)
  BY <1>0, <1>4 DEF Returned, Sent, Somewhere
<1>5. CASE Left(s, f) \/ Evicted(s, f) \/ Reported(s, f)
  <2>1. counted'[s] > counted[s] /\ counted'[s] \in Nat
    <3>1. counted'[s] \in Nat
      BY DEF TypeOK
    <3>2. counted'[s] = counted[s] + 1 \/ counted'[s] > counted[s]
      BY <1>5 DEF Left, Evicted, Reported
    <3> QED  BY <1>0, <3>1, <3>2
  <2>2. counted'[s] > 0
    BY <1>0, <2>1
  <2> QED  BY <2>2
<1> QED  BY <1>1, <1>2, <1>3, <1>4, <1>5 DEF Moves

\* Nobody but who opens a span puts it into the table.
LEMMA TableShrinks ==
  ASSUME NEW f \in Frames, NEW s \in Spans, Moves(s, f), ~ Opened(s)
  PROVE  (s \in ToSet(open') => s \in ToSet(open)) /\ (s \in elsewhere' => s \in elsewhere)
  BY DEF Moves, Stays, Taken, Returned, Left, Evicted, Sent, Reported, TableStays

LEMMA OwedStep ==
  ASSUME OpenSpansAssumption, TypeOK, TypeOK', Doing, Calm, Traced, InTurn, NEW f \in Frames, NEW s \in Spans, Acts(f), OnlyFrame(f), Moves(s, f)
  PROVE  Owed(s)'
<1> USE DEF Looping
<1>0. Owed(s) /\ Fresh(s) /\ Copies(s) /\ Handler \in Frames /\ Base \in Frames /\ Beside \in Frames
  BY DEF Traced, Frames
<1> SUFFICES ASSUME s \in due'  PROVE Owed(s)'
  BY DEF Owed
<1>1. CASE due' = due
  <2>1. /\ host.prev = "default" /\ pc[Handler] \in (Looping \ {"begin"}) \cup {"flush"}
        /\ s \notin elsewhere /\ s \notin Held(Base)
        /\ Somewhere(s) \/ counted[s] > 0
        /\ pc[Handler] = "sweeping" /\ s \in ToSet(open) => s \in ToSet(keys[Handler])
        /\ pc[Handler] \in {"report", "flush"} => s \notin ToSet(open)
    BY <1>0, <1>1 DEF Owed
  <2>2. f # Base
    BY <2>1, PlaceStep
  <2>3. ~ Opened(s)
    BY <1>0, <1>1 DEF Fresh, Opened
  <2>4. (s \in ToSet(open') => s \in ToSet(open)) /\ (s \in elsewhere' => s \in elsewhere)
    BY <2>3, TableShrinks
  <2>5. Held(Base)' = Held(Base)
    BY <1>0, <2>2, OthersStay
  <2>6. Somewhere(s)' \/ counted'[s] > 0
    BY <2>1, SaidStep
  <2>7. host' = host
    BY DEF OnlyFrame
  <2>8. CASE f # Handler
    <3>1. pc'[Handler] = pc[Handler] /\ keys'[Handler] = keys[Handler]
      BY <1>0, <2>8 DEF OnlyFrame
    <3> QED  BY <2>1, <2>4, <2>5, <2>6, <2>7, <3>1 DEF Owed
  <2>9. CASE f = Handler
    <3> HIDE DEF Looping
    <3>1. pc'[Handler] \in (Looping \ {"begin"}) \cup {"flush"}
      BY <2>9, HandlerGoes
    <3>2. pc'[Handler] = "sweeping" /\ s \in ToSet(open') => s \in ToSet(keys'[Handler])
      <4> SUFFICES ASSUME pc'[Handler] = "sweeping", s \in ToSet(open')  PROVE s \in ToSet(keys'[Handler])
        OBVIOUS
      <4>1. CASE keys'[Handler] = open /\ open' = open
        BY <4>1
      <4>2. CASE PopLeft(Handler) /\ pc[Handler] = "sweeping" /\ keys[Handler] # <<>>
        <5> DEFINE q == keys[Handler]
        <5>1. q \in Seq(Spans) /\ q # <<>> /\ keys'[Handler] = Tail(q) /\ open' = Without(open, Head(q))
          BY <1>0, <4>2 DEF PopLeft, Pop, Put, TypeOK
        <5>2. s # Head(q) /\ s \in ToSet(q)
          <6>1. ToSet(open') = ToSet(open) \ {Head(q)}
            BY <5>1, WithoutSpan DEF TypeOK, InTurn
          <6> QED  BY <2>1, <4>2, <6>1
        <5> HIDE DEF q
        <5>3. s \in ToSet(Tail(q))
          <6> DEFINE h == Head(q)
                     r == Tail(q)
                     one == <<h>>
          <6>1. q = one \o r /\ h \in Spans /\ r \in Seq(Spans)
            BY <5>1, HeadTailProperties
          <6>2. one \in Seq(Spans) /\ ToSet(one) = {h}
            BY <6>1 DEF ToSet
          <6> HIDE DEF one, r, h
          <6>3. ToSet(one \o r) = ToSet(one) \cup ToSet(r)
            BY <6>1, <6>2, OnceConcat
          <6>4. s \in ToSet(r)
            BY <5>2, <6>1, <6>2, <6>3 DEF h
          <6> QED  BY <6>4 DEF r
        <5> QED  BY <5>1, <5>3
      <4> QED  BY <2>9, <4>1, <4>2, HandlerGoes
    <3>3. pc'[Handler] = "report" => s \notin ToSet(open')
      <4> SUFFICES ASSUME pc'[Handler] = "report"  PROVE s \notin ToSet(open')
        OBVIOUS
      <4>1. pc[Handler] = "sweeping" /\ keys[Handler] = <<>> /\ open' = open
        BY <2>9, HandlerGoes
      <4> QED  BY <2>1, <4>1, OnceEmpty
    <3>4. pc'[Handler] = "flush" => s \notin ToSet(open')
      <4>1. pc'[Handler] = "flush" => pc[Handler] = "report" /\ open' = open
        <5>1. pc[Handler] # "begin"
          BY <2>1 DEF Looping
        <5> QED  BY <2>9, <5>1, HandlerGoes
      <4> QED  BY <2>1, <4>1
    <3> QED  BY <2>1, <2>4, <2>5, <2>6, <2>7, <3>1, <3>2, <3>3, <3>4 DEF Owed
  <2> QED  BY <2>8, <2>9
<1>2. CASE due' # due
  <2>1. Begin(f)
    BY <1>2, PlaceStep
  <2>2. f = Handler
    BY <1>2, <2>1 DEF Begin, Signalled
  <2>3. pc[Handler] = "begin" /\ open' = open /\ due' = ToSet(open) /\ pc'[Handler] = "interrupt"
    BY <1>2, <2>1, <2>2, HandlerGoes
  <2>4. /\ s \notin elsewhere /\ s \notin Held(Base) /\ Somewhere(s)
    BY <1>0, <2>3 DEF Copies, Table, Somewhere
  <2>5. host.prev = "default" /\ host' = host
    BY <2>3 DEF Calm, OnlyFrame
  <2>6. elsewhere' = elsewhere /\ Held(Base)' = Held(Base)
    <3>1. elsewhere' = elsewhere
      BY <2>1 DEF Begin, blocks
    <3> QED  BY <1>0, <2>2, <3>1, OthersStay, ThreeFrames
  <2>7. Somewhere(s)' \/ counted'[s] > 0
    BY <2>4, SaidStep
  <2> QED  BY <2>3, <2>4, <2>5, <2>6, <2>7 DEF Owed
<1> QED  BY <1>1, <1>2

LEMMA CalmStep ==
  ASSUME OpenSpansAssumption, TypeOK, Doing, Calm, NEW f \in Frames, Acts(f), OnlyFrame(f)
  PROVE  Calm'
<1>1. ~ dead /\ dead' = dead /\ signals' = signals /\ host' = host
  BY PlaceStep DEF OnlyFrame
<1>2. CASE f # Handler
  <2>1. pc'[Handler] = pc[Handler]
    BY <1>2 DEF OnlyFrame, Frames
  <2> QED  BY <1>1, <2>1 DEF Calm
<1>3. CASE f = Handler
  <2>1. pc[Handler] \in Looping
    BY <1>3, HandlerGoes
  <2>2. host.prev = "default" /\ signals # 0
    BY <2>1 DEF Calm, Looping
  <2> QED  BY <1>1, <2>2 DEF Calm
<1> QED  BY <1>2, <1>3

-----------------------------------------------------------------------------
(* The order the spans were opened in.                                     *)

\* What a step does with the table: it opens a newest span, or takes some.
TableGoes(f) ==
  \/ open' = open
  \/ \E r \in Spans : Open(f, r) /\ Opened(r) /\ open' = Append(open, r)
  \/ \E r : open' = Without(open, r)

LEMMA TableStep ==
  ASSUME TypeOK, Traced, NEW f \in Frames, OnlyFrame(f), Acts(f)
  PROVE  TableGoes(f)
<1>1. ASSUME NEW r \in Spans, Open(f, r)  PROVE TableGoes(f)
  <2>1. Opened(r)
    BY <1>1, OpenMoves
  <2>2. open' = open \/ open' = Append(open, r)
    BY <1>1 DEF Open
  <2> QED  BY <1>1, <2>1, <2>2 DEF TableGoes
<1>2. CASE EndPop(f)
  <2>1. open' = Without(open, Head(keys[f]))
    BY <1>2 DEF EndPop
  <2> QED  BY <2>1 DEF TableGoes
<1>3. CASE PopKey(f) \/ PopLeft(f)
  <2>1. open' = open \/ open' = Without(open, Head(keys[f]))
    BY <1>3 DEF PopKey, PopLeft, Pop
  <2> QED  BY <2>1 DEF TableGoes
<1>4. ASSUME open' = open  PROVE TableGoes(f)
  BY <1>4 DEF TableGoes
<1>5. CASE (\E s \in Spans : End(f, s)) \/ Emit(f) \/ (\E what \in {"close", "init"} : Call(f, what)) \/ Enter(f) \/ Shut(f) \/ SetClient(f)
  BY <1>4, <1>5 DEF End, Emit, Call, Enter, Shut, SetClient, blocks
<1>6. CASE Begin(f) \/ Interrupt(f) \/ CountChunk(f) \/ BufferChunk(f) \/ Uncount(f) \/ Sweep(f) \/ Report(f)
  BY <1>4, <1>6 DEF Begin, Interrupt, CountChunk, BufferChunk, Uncount, Sweep, Report, blocks
<1> QED  BY <1>1, <1>2, <1>3, <1>5, <1>6 DEF Acts, Interrupting

\* A span that is opened is newer than all that were.
LEMMA Newest ==
  ASSUME TypeOK, InTurn, NEW f \in Frames, NEW r \in Spans, Open(f, r), NEW t \in Spans, block[t] # "new"
  PROVE  t < r
<1>1. t \in host.spans /\ r \in host.spans /\ block[r] = "new" /\ t \in Nat /\ r \in Nat
  BY DEF InTurn, Open, Spans
<1>2. ~ (r < t) /\ t # r
  BY <1>1 DEF InTurn
<1> QED  BY <1>1, <1>2

\* What left a trace was opened.
LEMMA Begun ==
  ASSUME Traced, NEW s \in Spans,
         \/ s \in ToSet(open) \/ s \in cut
         \/ \E g \in Frames : s \in ToSet(chunk[g]) \/ s \in ToSet(keys[g])
  PROVE  block[s] # "new"
  BY DEF Traced, Fresh, Somewhere, Table

LEMMA InTurnStep ==
  ASSUME OpenSpansAssumption, TypeOK, TypeOK', Traced, InTurn, NEW f \in Frames, OnlyFrame(f), Acts(f),
         \A s \in Spans : BlockMoves(s, f)
  PROVE  InTurn'
<1>1. ASSUME NEW s \in Spans, block'[s] # "new"  PROVE s \in host.spans
  BY <1>1 DEF BlockMoves, InTurn
<1>2. ASSUME NEW r \in host.spans, NEW s \in host.spans, r < s, block'[s] # "new"  PROVE block'[r] # "new"
  <2>1. r \in Spans /\ s \in Spans
    BY DEF TypeOK, OpenSpansAssumption
  <2>2. block[r] # "new"
    BY <1>2, <2>1 DEF BlockMoves, InTurn
  <2> QED  BY <2>1, <2>2 DEF BlockMoves, Opened
<1>3. Ascending(open')
  <2>1. ASSUME NEW r \in Spans, Open(f, r), open' = Append(open, r)  PROVE Ascending(open')
    <3>1. open \in Seq(Spans) /\ ToSet(open) \subseteq Spans /\ Ascending(open)
      BY ToSetSeq DEF TypeOK, InTurn
    <3>2. \A t \in ToSet(open) : t < r
      BY <2>1, <3>1, Begun, Newest
    <3> QED  BY <2>1, <3>1, <3>2, AscendingAppend
  <2>2. ASSUME NEW r, open' = Without(open, r)  PROVE Ascending(open')
    BY <2>2, WithoutSpan DEF TypeOK, InTurn
  <2>3. CASE open' = open
    BY <2>3 DEF InTurn
  <2> QED  BY <2>1, <2>2, <2>3, TableStep DEF TableGoes
<1>4. host' = host
  BY DEF OnlyFrame
<1> QED  BY <1>1, <1>2, <1>3, <1>4 DEF InTurn

\* Older than what is in the table, once the table loses some and gets a newest.
LEMMA OlderStays ==
  ASSUME TypeOK, Traced, InTurn, NEW f \in Frames, OnlyFrame(f), Acts(f),
         NEW s \in ToSet(open'), NEW t \in Spans, block[t] # "new"
  PROVE  s \in ToSet(open) \/ t < s
<1>1. open \in Seq(Spans) /\ Ascending(open)
  BY DEF TypeOK, InTurn
<1>2. ASSUME NEW r \in Spans, Open(f, r), open' = Append(open, r)  PROVE s \in ToSet(open) \/ t < s
  <2>1. s \in ToSet(open) \/ s = r
    BY <1>1, <1>2, OnceAppend
  <2>2. t < r
    BY <1>2, Newest
  <2> QED  BY <2>1, <2>2
<1>3. ASSUME NEW r, open' = Without(open, r)  PROVE s \in ToSet(open)
  BY <1>1, <1>3, WithoutSpan
<1> QED  BY <1>2, <1>3, TableStep DEF TableGoes

\* How a frame gets to what it takes, and what it took.
LEMMA TakesStep ==
  ASSUME OpenSpansAssumption, TypeOK, Hands, InTurn, NEW f \in Frames, Acts(f)
  PROVE  /\ pc'[f] = "pop" =>
              \/ /\ chunk'[f] = <<>> /\ open' = open
                 /\ \E k \in 0 .. Len(open) : keys'[f] = SubSeq(open, 1, k)
              \/ /\ pc[f] = "pop" /\ ToSet(open') \ ToSet(keys'[f]) \subseteq ToSet(open) \ ToSet(keys[f])
                 /\ ToSet(keys'[f]) \cup ToSet(chunk'[f]) \subseteq ToSet(keys[f]) \cup ToSet(chunk[f])
         /\ pc'[f] \in {"count", "buffer"} =>
              \/ pc[f] = "pop" /\ keys[f] = <<>> /\ open' = open /\ chunk' = chunk
              \/ pc[f] = "count" /\ open' = open /\ chunk' = chunk
<1> USE DEF At, Goto, Return, Put, clients, blocks, calls, process, ghosts
<1>0. pc \in [Frames -> Pcs] /\ keys \in [Frames -> Seq(Spans)] /\ chunk \in [Frames -> Seq(Spans)]
  BY DEF TypeOK
<1>1. CASE PopKey(f)
  <2>1. CASE keys[f] = <<>>
    <3>1. pc[f] = "pop" /\ pc'[f] = "count" /\ open' = open /\ chunk' = chunk
      BY <1>0, <1>1, <2>1 DEF PopKey, Pop
    <3> QED  BY <2>1, <3>1
  <2>2. CASE keys[f] # <<>>
    <3> DEFINE q == keys[f]
               h == Head(q)
               r == Tail(q)
               one == <<h>>
               d == chunk[f]
    <3>1. /\ pc[f] = "pop" /\ pc'[f] = "pop" /\ open' = Without(open, h) /\ keys'[f] = r
          /\ chunk'[f] = d \/ chunk'[f] = Append(d, h)
      BY <1>0, <1>1, <2>2 DEF PopKey, Pop
    <3>2. q \in Seq(Spans) /\ q = one \o r /\ h \in Spans /\ r \in Seq(Spans) /\ d \in Seq(Spans)
      BY <1>0, <2>2, HeadTailProperties
    <3>3. one \in Seq(Spans) /\ ToSet(one) = {h}
      BY <3>2 DEF ToSet
    <3> HIDE DEF q, h, r, one, d
    <3>4. ToSet(q) = {h} \cup ToSet(r)
      <4>1. ToSet(one \o r) = ToSet(one) \cup ToSet(r)
        BY <3>2, <3>3, OnceConcat
      <4> QED  BY <3>2, <3>3, <4>1
    <3>5. ToSet(open') = ToSet(open) \ {h}
      BY <3>1, WithoutSpan DEF TypeOK, InTurn
    <3>6. ToSet(chunk'[f]) \subseteq ToSet(d) \cup {h}
      <4>1. ToSet(Append(d, h)) = ToSet(d) \cup {h}
        BY <3>2, OnceAppend
      <4> QED  BY <3>1, <4>1
    <3>7. /\ ToSet(open') \ ToSet(keys'[f]) \subseteq ToSet(open) \ ToSet(q)
          /\ ToSet(keys'[f]) \cup ToSet(chunk'[f]) \subseteq ToSet(q) \cup ToSet(d)
      BY <3>1, <3>4, <3>5, <3>6
    <3> QED  BY <3>1, <3>7 DEF q, d
  <2> QED  BY <2>1, <2>2
<1>2. CASE Interrupt(f)
  <2>1. pc[f] = "interrupt" /\ chunk[f] = <<>> /\ chunk' = chunk /\ open' = open
    BY <1>2 DEF Interrupt, Hands, WithChunk
  <2>2. pc'[f] \in {"pop", "sweep", "interrupt"} /\ (pc'[f] = "pop" => keys'[f] = NextKeys(Fits(using[f])))
    BY <1>0, <1>2 DEF Interrupt
  <2>3. pc'[f] = "pop" => \E k \in 0 .. Len(open) : keys'[f] = SubSeq(open, 1, k)
    <3>1. using[f] \in Clients
      BY DEF TypeOK
    <3> QED  BY <2>2, <3>1, NextKeysCut
  <2> QED  BY <2>1, <2>2, <2>3
<1>3. CASE CountChunk(f)
  <2>1. pc[f] = "count" /\ pc'[f] = "buffer" /\ open' = open /\ chunk' = chunk
    BY <1>0, <1>3 DEF CountChunk
  <2> QED  BY <2>1
<1>4. CASE (\E s \in Spans : Open(f, s) \/ End(f, s)) \/ EndPop(f) \/ Emit(f) \/ (\E what \in {"close", "init"} : Call(f, what))
  <2>1. pc'[f] \notin {"pop", "count", "buffer"}
    BY <1>0, <1>4 DEF Open, End, EndPop, Emit, Call, MayCall
  <2> QED  BY <2>1
<1>5. CASE Enter(f) \/ Shut(f) \/ SetClient(f)
  <2>1. pc'[f] \notin {"pop", "count", "buffer"}
    BY <1>0, <1>5 DEF Enter, Shut, SetClient
  <2> QED  BY <2>1
<1>6. CASE Begin(f) \/ BufferChunk(f) \/ Uncount(f) \/ Sweep(f) \/ PopLeft(f) \/ Report(f)
  <2>1. pc'[f] \notin {"pop", "count", "buffer"}
    BY <1>0, <1>6 DEF Begin, BufferChunk, Uncount, Sweep, PopLeft, Pop, Report, After
  <2> QED  BY <2>1
<1> QED  BY <1>1, <1>2, <1>3, <1>4, <1>5, <1>6 DEF Acts, Interrupting

LEMMA OldestFirstStep ==
  ASSUME OpenSpansAssumption, TypeOK, TypeOK', Hands, Traced, InTurn, OldestFirst, NEW f \in Frames, OnlyFrame(f), Acts(f)
  PROVE  OldestFirst'
<1> SUFFICES ASSUME signals = 0  PROVE OldestFirst'
  BY DEF OldestFirst, OnlyFrame
<1>0. /\ ToSet(open') \subseteq Spans /\ cut \subseteq Spans
      /\ \A g \in Frames : ToSet(chunk[g]) \subseteq Spans /\ ToSet(keys[g]) \subseteq Spans
  <2>1. open' \in Seq(Spans) /\ cut \subseteq Spans /\ \A g \in Frames : chunk[g] \in Seq(Spans) /\ keys[g] \in Seq(Spans)
    BY DEF TypeOK
  <2> QED  BY <2>1, ToSetSeq
<1>1. \A s \in ToSet(open'), t \in cut' : t < s
  <2> SUFFICES ASSUME NEW s \in ToSet(open'), NEW t \in cut'  PROVE t < s
    OBVIOUS
  <2>1. CASE t \in cut
    <3>1. t \in Spans /\ block[t] # "new"
      BY <1>0, <2>1, Begun
    <3>2. s \in ToSet(open) \/ t < s
      BY <3>1, OlderStays
    <3> QED  BY <2>1, <3>2 DEF OldestFirst
  <2>2. CASE t \notin cut
    <3>1. pc[f] = "buffer" /\ t \in ToSet(chunk[f])
      BY <2>2, CutStep
    <3>2. t \in Spans /\ block[t] # "new"
      BY <1>0, <3>1, Begun
    <3>3. s \in ToSet(open) \/ t < s
      BY <3>2, OlderStays
    <3> QED  BY <3>1, <3>3 DEF OldestFirst
  <2> QED  BY <2>1, <2>2
<1>2. ASSUME NEW g \in Frames, pc'[g] = "pop", NEW s \in ToSet(open') \ ToSet(keys'[g]), NEW t \in ToSet(keys'[g]) \cup ToSet(chunk'[g])
      PROVE  t < s
  <2>1. CASE g # f
    <3>1. pc[g] = "pop" /\ keys'[g] = keys[g] /\ chunk'[g] = chunk[g]
      BY <1>2, <2>1 DEF OnlyFrame
    <3>2. t \in Spans /\ block[t] # "new"
      BY <1>0, <3>1, Begun
    <3>3. s \in ToSet(open) \/ t < s
      BY <3>2, OlderStays
    <3> QED  BY <3>1, <3>3 DEF OldestFirst
  <2>2. CASE g = f
    <3>1. CASE /\ chunk'[f] = <<>> /\ open' = open
               /\ \E k \in 0 .. Len(open) : keys'[f] = SubSeq(open, 1, k)
      <4>1. PICK k \in 0 .. Len(open) : keys'[f] = SubSeq(open, 1, k)
        BY <3>1
      <4>2. s \in ToSet(open) /\ s \notin ToSet(SubSeq(open, 1, k)) /\ t \in ToSet(SubSeq(open, 1, k))
        BY <2>2, <3>1, <4>1, OnceEmpty
      <4> QED  BY <4>2, AscendingCut DEF TypeOK, InTurn
    <3>2. CASE /\ pc[f] = "pop" /\ ToSet(open') \ ToSet(keys'[f]) \subseteq ToSet(open) \ ToSet(keys[f])
               /\ ToSet(keys'[f]) \cup ToSet(chunk'[f]) \subseteq ToSet(keys[f]) \cup ToSet(chunk[f])
      BY <2>2, <3>2 DEF OldestFirst
    <3> QED  BY <1>2, <2>2, <3>1, <3>2, TakesStep
  <2> QED  BY <2>1, <2>2
<1>3. ASSUME NEW g \in Frames, pc'[g] \in {"count", "buffer"}, NEW s \in ToSet(open'), NEW t \in ToSet(chunk'[g])
      PROVE  t < s
  <2>1. CASE g # f
    <3>1. pc[g] \in {"count", "buffer"} /\ chunk'[g] = chunk[g]
      BY <1>3, <2>1 DEF OnlyFrame
    <3>2. t \in Spans /\ block[t] # "new"
      BY <1>0, <3>1, Begun
    <3>3. s \in ToSet(open) \/ t < s
      BY <3>2, OlderStays
    <3> QED  BY <3>1, <3>3 DEF OldestFirst
  <2>2. CASE g = f
    <3>1. CASE pc[f] = "pop" /\ keys[f] = <<>> /\ open' = open /\ chunk' = chunk
      BY <2>2, <3>1, OnceEmpty DEF OldestFirst
    <3>2. CASE pc[f] = "count" /\ open' = open /\ chunk' = chunk
      BY <2>2, <3>2 DEF OldestFirst
    <3> QED  BY <1>3, <2>2, <3>1, <3>2, TakesStep
  <2> QED  BY <2>1, <2>2
<1> QED  BY <1>1, <1>2, <1>3 DEF OldestFirst

-----------------------------------------------------------------------------
(* The invariant, step by step.                                            *)

LEMMA TracedStep ==
  ASSUME OpenSpansAssumption, OInv, TypeOK', NEW f \in Frames, OnlyFrame(f), Acts(f), \A s \in Spans : Moves(s, f) /\ BlockMoves(s, f)
  PROVE  Traced'
<1>0. TypeOK /\ Doing /\ Hands /\ Current /\ Calm /\ Distinct /\ Traced /\ InTurn
  BY DEF OInv
<1> SUFFICES ASSUME NEW s \in Spans
             PROVE  Copies(s)' /\ Single(s)' /\ Fresh(s)' /\ Childs(s)' /\ Uncounted(s)' /\ Owed(s)'
  BY DEF Traced
<1>1. Copies(s) /\ Single(s) /\ Fresh(s) /\ Childs(s) /\ Uncounted(s) /\ Owed(s)
  BY <1>0 DEF Traced
<1>2. Moves(s, f) /\ BlockMoves(s, f) /\ ChunkMoves(s, f) /\ KeysMove(s, f)
  BY <1>0, ChunkStep, KeysStep
<1>3. Copies(s)' /\ Single(s)'
  BY <1>0, <1>1, <1>2, CopiesStep, SingleStep
<1>4. Fresh(s)' /\ Childs(s)'
  BY <1>0, <1>1, <1>2, FreshStep, ChildsStep
<1>5. Uncounted(s)' /\ Owed(s)'
  BY <1>0, <1>2, UncountedStep, OwedStep
<1> QED  BY <1>3, <1>4, <1>5

LEMMA OInvActs ==
  ASSUME OpenSpansAssumption, OInv, NEW f \in Frames, Acts(f)
  PROVE  OInv' /\ OnlyFrame(f) /\ \A s \in Spans : Moves(s, f)
<1>0. /\ TypeOK /\ Doing /\ Hands /\ OneInside /\ Room /\ Current /\ Calm /\ Distinct
      /\ Traced /\ InTurn /\ OldestFirst /\ InFlightIsHeld
  BY DEF OInv
<1>1. TypeOK' /\ OnlyFrame(f)
  BY <1>0, StepTypes
<1>2. Doing' /\ Hands'
  <2>1. InOrder(f)'
    BY <1>0, <1>1, StepInOrder
  <2>2. \A g \in Frames : InOrder(g)
    BY <1>0, FramesInOrder
  <2>3. \A g \in Frames : InOrder(g)'
    BY <1>1, <2>1, <2>2 DEF OnlyFrame, InOrder
  <2> QED  BY <2>3 DEF Doing, Hands, InOrder
<1>3. InFlightIsHeld'
  BY <1>0, <1>1, FlightStep
<1>4. ClientsMove(f) /\ UsingMoves(f) /\ LockMoves(f)
  BY <1>0, <1>1, StepOfClients
<1>5. OneInside' /\ Room' /\ Current'
  BY <1>0, <1>1, <1>4, OneInsideStep, RoomStep, CurrentStep
<1>6. \A s \in Spans : Moves(s, f) /\ BlockMoves(s, f)
  BY <1>0, <1>1, SpansMove, BlockStep
<1>7. Distinct' /\ Calm'
  BY <1>0, <1>1, DistinctStep, CalmStep
<1>8. Traced'
  BY <1>1, <1>6, TracedStep
<1>9. InTurn' /\ OldestFirst'
  BY <1>0, <1>1, <1>6, InTurnStep, OldestFirstStep
<1> QED  BY <1>1, <1>2, <1>3, <1>5, <1>6, <1>7, <1>8, <1>9 DEF OInv

\* While its handler is not at work, nothing is due.
LEMMA NothingDue ==
  ASSUME Traced, pc[Handler] \in {"idle", "state", "begin"} \/ host.prev # "default"
  PROVE  \A s \in Spans : s \notin due
  BY DEF Traced, Owed, Looping

\* A handler starts, and finds its client.
LEMMA OInvStarts ==
  ASSUME OpenSpansAssumption, OInv, Signal \/ State
  PROVE  OInv' /\ UNCHANGED <<buffer, counted, cut>>
<1> USE DEF clients, blocks, calls, process, ghosts
<1>0. /\ TypeOK /\ Doing /\ Hands /\ OneInside /\ Room /\ Current /\ Calm /\ Distinct
      /\ Traced /\ InTurn /\ OldestFirst /\ InFlightIsHeld
      /\ Handler \in Frames /\ Base # Handler /\ Beside # Handler
  BY ThreeFrames DEF OInv, Frames
<1>1. /\ UNCHANGED <<client, closed, buffer, open, in_flight, block, elsewhere, keys, chunk, dead, forked, host, shipped, counted,
                     unwound, cut, due, parents>>
      /\ pc[Handler] \in {"idle", "state"} /\ pc'[Handler] \in {"state", "begin", "flush"} /\ op'[Handler] = "signal"
      /\ \A g \in Frames \ {Handler} : pc'[g] = pc[g] /\ op'[g] = op[g] /\ using'[g] = using[g]
      /\ using'[Handler] = using[Handler] \/ using'[Handler] = client
      /\ signals' # 0 /\ ~ dead
      /\ pc'[Handler] = "begin" => host.prev = "default"
  <2>1. CASE Signal
    <3>1. signals \in Nat /\ signals' = signals + 1
      BY <1>0, <2>1 DEF Signal, TypeOK, OpenSpansAssumption
    <3>2. signals' # 0
      BY <3>1
    <3> QED  BY <1>0, <2>1, <3>2 DEF Signal, Goto, Put, TypeOK
  <2>2. CASE State
    <3>1. pc[Handler] = "state" /\ op[Handler] = "signal" /\ signals # 0
      BY <1>0, <2>2 DEF State, At, Doing, Calm
    <3> QED  BY <1>0, <2>2, <3>1 DEF State, At, Runs, Goto, Put, TypeOK
  <2> QED  BY <2>1, <2>2
<1>2. TypeOK'
  <2>1. /\ pc' \in [Frames -> Pcs] /\ op' \in [Frames -> {Nothing, "end", "close", "init", "signal"}]
        /\ using' \in [Frames -> Clients] /\ signals' \in 0 .. MaxSignals
    <3>1. CASE Signal
      <4>1. signals' \in 0 .. MaxSignals
        BY <1>0, <3>1 DEF Signal, TypeOK, OpenSpansAssumption
      <4> QED  BY <1>0, <3>1, <4>1 DEF Signal, Goto, Put, TypeOK, Pcs
    <3>2. CASE State
      BY <1>0, <3>2 DEF State, Goto, Put, TypeOK, Pcs
    <3> QED  BY <3>1, <3>2
  <2> QED  BY <1>0, <1>1, <2>1 DEF TypeOK
<1>3. Doing' /\ Hands'
  <2>1. \A g \in Frames : InOrder(g)
    BY <1>0, FramesInOrder
  <2>2. keys[Handler] = <<>> /\ chunk[Handler] = <<>>
    BY <1>0, <1>1 DEF Hands, WithKeys, WithChunk
  <2>3. InOrder(Handler)'
    BY <1>1, <2>2 DEF InOrder, Looping, Nothing
  <2>4. \A g \in Frames : InOrder(g)'
    BY <1>1, <2>1, <2>3 DEF InOrder
  <2> QED  BY <2>4 DEF Doing, Hands, InOrder
<1>4. OneInside'
  <2>1. \A g \in Frames : Inside(g)' => Inside(g)
    BY <1>1 DEF Inside
  <2> QED  BY <1>0, <2>1 DEF OneInside
<1>5. Room'
  <2>1. op'[Base] = op[Base] /\ op'[Beside] = op[Beside] /\ client' = client
    BY <1>0, <1>1 DEF Frames
  <2> QED  BY <1>0, <2>1 DEF Room
<1>6. Current'
  <2>1. \A g \in Frames : using'[g] <= client'
    <3>1. client \in Nat
      BY <1>0 DEF TypeOK, Clients
    <3> QED  BY <1>0, <1>1, <3>1 DEF Current
  <2>2. \A g \in Frames : op'[g] = "init" => g # Handler
    BY <1>1
  <2> QED  BY <1>0, <1>1, <2>1, <2>2 DEF Current
<1>7. Distinct' /\ InTurn' /\ Calm' /\ OldestFirst'
  BY <1>0, <1>1 DEF Distinct, InTurn, Calm, OldestFirst
<1>8. InFlightIsHeld'
  <2>1. Parts'[Handler] = 0 /\ Parts[Handler] = 0 /\ \A g \in Frames \ {Handler} : Parts'[g] = Parts[g]
    BY <1>0, <1>1 DEF Parts, Midway
  <2>2. in_flight' + Parts[Handler] = in_flight + Parts'[Handler]
    BY <1>1, <2>1
  <2> QED  BY <1>0, <1>2, <2>1, <2>2, FlightParts
<1>9. Traced'
  <2>1. \A g \in Frames : Held(g)' = Held(g)
    BY <1>1 DEF Held
  <2>2. Buffered' = Buffered /\ Table' = Table
    BY <1>1 DEF Buffered, Table
  <2> SUFFICES ASSUME NEW s \in Spans
               PROVE  Copies(s)' /\ Single(s)' /\ Fresh(s)' /\ Childs(s)' /\ Uncounted(s)' /\ Owed(s)'
    BY DEF Traced
  <2>3. Copies(s) /\ Fresh(s) /\ Childs(s) /\ Uncounted(s) /\ s \notin due
    BY <1>0, <1>1, NothingDue DEF Traced
  <2>4. Somewhere(s)' <=> Somewhere(s)
    BY <1>1, <2>1, <2>2 DEF Somewhere
  <2>5. Copies(s)'
    BY <1>1, <2>1, <2>2, <2>3 DEF Copies
  <2>6. Fresh(s)' /\ Childs(s)'
    BY <1>1, <2>2, <2>3, <2>4 DEF Fresh, Childs
  <2>7. Uncounted(s)'
    BY <1>1, <2>3, <2>4 DEF Uncounted
  <2>8. Single(s)' /\ Owed(s)'
    BY <1>1, <2>3 DEF Single, Owed
  <2> QED  BY <2>5, <2>6, <2>7, <2>8
<1> QED  BY <1>1, <1>2, <1>3, <1>4, <1>5, <1>6, <1>7, <1>8, <1>9 DEF OInv

\* What the flush drains was shipped.
LEMMA DrainMoves ==
  ASSUME TypeOK, Current, Distinct, NEW c \in Clients, Drain(c)
  PROVE  /\ \A s \in Spans : \/ BufferStays(s) /\ shipped'[s] = shipped[s]
                             \/ s \in Buffered /\ s \notin Buffered' /\ shipped'[s] = shipped[s] + 1
         /\ \A d \in Clients : buffer'[d] = buffer[d] \/ buffer'[d] = <<>>
<1>1. CASE UNCHANGED <<buffer, shipped>>
  BY <1>1 DEF BufferStays, Buffered
<1>2. CASE buffer' = [buffer EXCEPT ![c] = <<>>] /\ shipped' = Add(shipped, buffer[c])
  <2>1. \A d \in Clients : buffer'[d] = buffer[d] \/ buffer'[d] = <<>>
    BY <1>2 DEF TypeOK
  <2>2. shipped \in [Spans -> Nat]
    BY DEF TypeOK
  <2>3. \A s \in Spans : \/ BufferStays(s) /\ shipped'[s] = shipped[s]
                         \/ s \in Buffered /\ s \notin Buffered' /\ shipped'[s] = shipped[s] + 1
    BY <1>2, <2>2, Drained
  <2> QED  BY <2>1, <2>3
<1> QED  BY <1>1, <1>2 DEF Drain

\* The end of a handler: the process dies, or what the handler was on top of is
\* unwound, or it goes on.
LEMMA OInvFlush ==
  ASSUME OpenSpansAssumption, OInv, Flush
  PROVE  OInv' /\ counted' = counted /\ cut' = cut
<1> USE DEF clients, blocks, calls, process, ghosts
<1>0. /\ TypeOK /\ Doing /\ Hands /\ OneInside /\ Room /\ Current /\ Calm /\ Distinct
      /\ Traced /\ InTurn /\ OldestFirst /\ InFlightIsHeld
      /\ Handler \in Frames /\ Base \in Frames /\ Beside \in Frames /\ Base # Handler /\ Beside # Handler /\ Base # Beside
  BY ThreeFrames DEF OInv, Frames
<1>1. /\ pc[Handler] = "flush" /\ ~ dead /\ op[Handler] = "signal" /\ signals # 0
      /\ keys[Handler] = <<>> /\ chunk[Handler] = <<>>
  BY <1>0 DEF Flush, At, Runs, Doing, Hands, Calm, WithKeys, WithChunk
<1>2. /\ UNCHANGED <<client, closed, open, block, elsewhere, using, forked, signals, host, counted, cut, due, parents>>
      /\ Drain(using[Handler]) /\ using[Handler] \in Clients
  BY <1>0 DEF Flush, TypeOK
\* What becomes of the frames.
<1> DEFINE Dies == /\ host.prev = "default" /\ dead' = TRUE
                   /\ UNCHANGED <<pc, op, keys, chunk, in_flight, unwound>>
           Unwinds == host.prev = "raises" /\ Unwind /\ dead' = dead
           Returns == /\ host.prev = "returns" /\ Return(Handler)
                      /\ UNCHANGED <<dead, keys, chunk, in_flight, unwound>>
<1>3. Dies \/ Unwinds \/ Returns
  BY <1>2 DEF Flush
<1>4. /\ pc \in [Frames -> Pcs] /\ op \in [Frames -> {Nothing, "end", "close", "init", "signal"}]
      /\ keys \in [Frames -> Seq(Spans)] /\ chunk \in [Frames -> Seq(Spans)] /\ <<>> \in Seq(Spans)
  BY <1>0 DEF TypeOK
<1>5. /\ \A g \in Frames : \/ pc'[g] = pc[g] /\ op'[g] = op[g] /\ keys'[g] = keys[g] /\ chunk'[g] = chunk[g]
                           \/ pc'[g] = "idle" /\ op'[g] = Nothing /\ keys'[g] = <<>> /\ chunk'[g] = <<>>
      /\ pc'[Handler] = "idle" \/ (Dies /\ pc'[Handler] = "flush")
      /\ Dies \/ (host.prev # "default" /\ dead' = dead)
      /\ pc' \in [Frames -> Pcs] /\ op' \in [Frames -> {Nothing, "end", "close", "init", "signal"}]
      /\ keys' \in [Frames -> Seq(Spans)] /\ chunk' \in [Frames -> Seq(Spans)]
      /\ dead' \in BOOLEAN
  <2>1. CASE Dies
    BY <1>1, <1>4, <2>1
  <2>2. CASE Unwinds
    BY <1>0, <1>1, <1>4, <2>2 DEF Unwind, Put, Pcs, TypeOK
  <2>3. CASE Returns
    BY <1>0, <1>1, <1>4, <2>3 DEF Return, Goto, Pcs, TypeOK
  <2> QED  BY <1>3, <2>1, <2>2, <2>3
<1>6. /\ in_flight' \in Nat /\ in_flight' + Parts[Base] = in_flight + Parts'[Base]
      /\ \A g \in Frames \ {Base} : Parts'[g] = Parts[g]
  <2>1. in_flight \in Nat /\ Parts \in [Frames -> Nat] /\ \A g \in Frames : pc[g] \in Midway => Len(chunk[g]) \in Nat /\ Len(chunk[g]) <= in_flight
    BY <1>0, FlightType DEF TypeOK
  <2>2. Parts[Handler] = 0 /\ Parts'[Handler] = 0
    BY <1>0, <1>1, <1>5 DEF Parts, Midway
  <2>3. CASE Unwinds
    <3>1. /\ pc'[Base] = "idle" /\ pc'[Beside] = pc[Beside] /\ chunk'[Beside] = chunk[Beside]
          /\ in_flight' = IF pc[Base] \in Midway THEN in_flight - Len(chunk[Base]) ELSE in_flight
      BY <1>0, <1>4, <2>3 DEF Unwind, Put
    <3>2. Parts'[Base] = 0 /\ Parts'[Beside] = Parts[Beside]
      BY <1>0, <3>1 DEF Parts, Midway
    <3>3. CASE pc[Base] \in Midway
      <4>1. Parts[Base] = Len(chunk[Base]) /\ in_flight' = in_flight - Len(chunk[Base])
        BY <1>0, <3>1, <3>3 DEF Parts
      <4>2. in_flight' \in Nat /\ in_flight' + Parts[Base] = in_flight + Parts'[Base]
        BY <1>0, <2>1, <3>2, <3>3, <4>1
      <4> QED  BY <2>2, <3>2, <4>2 DEF Frames
    <3>4. CASE pc[Base] \notin Midway
      <4>1. Parts[Base] = 0 /\ in_flight' = in_flight
        BY <1>0, <3>1, <3>4 DEF Parts
      <4> QED  BY <2>1, <2>2, <3>2, <4>1 DEF Frames
    <3> QED  BY <3>3, <3>4
  <2>4. CASE ~ Unwinds
    <3>1. in_flight' = in_flight /\ chunk' = chunk /\ pc'[Base] = pc[Base] /\ pc'[Beside] = pc[Beside]
      BY <1>0, <1>3, <1>4, <2>4 DEF Return, Goto
    <3>2. Parts'[Base] = Parts[Base] /\ Parts'[Beside] = Parts[Beside]
      BY <1>0, <3>1 DEF Parts
    <3> QED  BY <2>1, <2>2, <3>1, <3>2 DEF Frames
  <2> QED  BY <2>3, <2>4
<1>7. unwound' \subseteq Spans
  <2>1. CASE Unwinds
    <3>1. ToSet(chunk[Base]) \subseteq Spans
      BY <1>0, <1>4, ToSetSeq
    <3> QED  BY <1>0, <2>1, <3>1 DEF Unwind, TypeOK
  <2>2. CASE ~ Unwinds
    BY <1>0, <1>3, <2>2 DEF TypeOK
  <2> QED  BY <2>1, <2>2
<1> HIDE DEF Dies, Unwinds, Returns
<1>8. TypeOK'
  <2>1. buffer' \in [Clients -> Seq(Spans)] /\ (\A d \in Clients : Len(buffer'[d]) <= MaxBuffer) /\ shipped' \in [Spans -> Nat]
    BY <1>0, <1>2, DrainTypes
  <2> QED  BY <1>0, <1>2, <1>5, <1>6, <1>7, <2>1 DEF TypeOK
<1>9. InFlightIsHeld'
  BY <1>0, <1>6, <1>8, FlightParts
<1>10. Doing' /\ Hands'
  <2>1. \A g \in Frames : InOrder(g)
    BY <1>0, FramesInOrder
  <2>2. ASSUME NEW g \in Frames  PROVE InOrder(g)'
    <3>1. CASE pc'[g] = pc[g] /\ op'[g] = op[g] /\ keys'[g] = keys[g] /\ chunk'[g] = chunk[g]
      BY <2>1, <3>1 DEF InOrder
    <3>2. CASE pc'[g] = "idle" /\ op'[g] = Nothing /\ keys'[g] = <<>> /\ chunk'[g] = <<>>
      BY <3>2 DEF InOrder, Nothing
    <3> QED  BY <1>5, <3>1, <3>2
  <2> QED  BY <2>2 DEF Doing, Hands, InOrder
<1>11. OneInside'
  <2>1. \A g \in Frames : Inside(g)' => Inside(g)
    BY <1>5 DEF Inside, Nothing
  <2> QED  BY <1>0, <2>1 DEF OneInside
<1>12. Room'
  <2> DEFINE a == Bit(op[Base] = "init")
             b == Bit(op[Beside] = "init")
             x == Bit(op'[Base] = "init")
             y == Bit(op'[Beside] = "init")
  <2>1. /\ a \in Nat /\ b \in Nat /\ x \in Nat /\ y \in Nat /\ client \in Nat /\ client' = client /\ MaxClients \in Nat
        /\ client + a + b <= MaxClients
    BY <1>0, <1>2 DEF Bit, TypeOK, Clients, Room, OpenSpansAssumption
  <2>2. x <= a /\ y <= b
    BY <1>0, <1>5, <2>1 DEF Bit, Nothing
  <2> HIDE DEF a, b, x, y
  <2>3. client' + x + y <= MaxClients
    BY <2>1, <2>2
  <2> QED  BY <2>3 DEF Room, x, y
<1>13. (\A d \in Clients : buffer'[d] = buffer[d] \/ buffer'[d] = <<>>)
       /\ \A s \in Spans : \/ BufferStays(s) /\ shipped'[s] = shipped[s]
                           \/ s \in Buffered /\ s \notin Buffered' /\ shipped'[s] = shipped[s] + 1
  BY <1>0, <1>2, DrainMoves
<1>14. Current'
  <2>1. \A g \in Frames : op'[g] = "init" => op[g] = "init" /\ pc'[g] = pc[g]
    BY <1>5 DEF Nothing
  <2> QED  BY <1>0, <1>2, <1>13, <2>1 DEF Current
<1>15. Distinct'
  BY <1>0, <1>5, <1>13, OnceEmpty DEF Distinct
<1>16. Calm' /\ InTurn' /\ OldestFirst'
  <2>1. Calm'
    <3>1. Dies => host.prev = "default" /\ pc' = pc
      BY DEF Dies
    <3> QED  BY <1>1, <1>2, <1>5, <3>1 DEF Calm
  <2> QED  BY <1>0, <1>1, <1>2, <2>1 DEF InTurn, OldestFirst
<1>17. Traced'
  <2>1. \A g \in Frames : Held(g)' = Held(g) \/ Held(g)' = {}
    BY <1>5, OnceEmpty DEF Held
  <2> SUFFICES ASSUME NEW s \in Spans
               PROVE  Copies(s)' /\ Single(s)' /\ Fresh(s)' /\ Childs(s)' /\ Uncounted(s)' /\ Owed(s)'
    BY DEF Traced
  <2>2. Copies(s) /\ Fresh(s) /\ Childs(s) /\ Uncounted(s) /\ Owed(s) /\ shipped[s] \in Nat
    BY <1>0 DEF Traced, TypeOK
  <2>3. \/ BufferStays(s) /\ shipped'[s] = shipped[s]
        \/ s \in Buffered /\ s \notin Buffered' /\ shipped'[s] = shipped[s] + 1
    BY <1>13
  <2>4. Copies(s)'
    <3>1. CASE BufferStays(s) /\ shipped'[s] = shipped[s]
      BY <1>2, <2>1, <2>2, <3>1 DEF Copies, Table, BufferStays
    <3>2. CASE s \in Buffered /\ s \notin Buffered' /\ shipped'[s] = shipped[s] + 1
      <4>1. /\ shipped'[s] <= 1 /\ s \notin Table /\ \A g \in Frames : s \notin Held(g)
        BY <2>2, <3>2 DEF Copies
      <4>2. s \notin Table' /\ \A g \in Frames : s \notin Held(g)'
        BY <1>2, <2>1, <4>1 DEF Table
      <4> QED  BY <3>2, <4>1, <4>2 DEF Copies, Table
    <3> QED  BY <2>3, <3>1, <3>2
  <2>5. Somewhere(s)' => Somewhere(s)
    BY <1>2, <2>1, <2>3 DEF Somewhere, Table, BufferStays
  <2>6. \A g \in Frames : (s \in ToSet(chunk'[g]) => s \in ToSet(chunk[g])) /\ (s \in ToSet(keys'[g]) => s \in ToSet(keys[g]))
    BY <1>5, OnceEmpty
  <2>7. Fresh(s)'
    BY <1>2, <2>2, <2>5, <2>6 DEF Fresh
  <2>8. Childs(s)'
    <3> SUFFICES ASSUME s \in parents  PROVE Childs(s)'
      BY <1>2 DEF Childs
    <3>1. s \notin ToSet(open')
      BY <1>2, <2>2 DEF Childs
    <3>2. ASSUME block'[s] # "copied"
          PROVE  /\ s \notin Buffered' /\ shipped'[s] = 0 /\ counted'[s] = 0
                 /\ \A g \in Frames : s \notin ToSet(chunk'[g])
                 /\ \A g \in Frames : pc'[g] = "ended" => Head(keys'[g]) # s
      <4>1. /\ s \notin Buffered /\ shipped[s] = 0 /\ counted[s] = 0
            /\ \A g \in Frames : s \notin ToSet(chunk[g])
            /\ \A g \in Frames : pc[g] = "ended" => Head(keys[g]) # s
        BY <1>2, <2>2, <3>2 DEF Childs
      <4>2. s \notin Buffered' /\ shipped'[s] = 0 /\ counted'[s] = 0
        BY <1>2, <2>3, <4>1 DEF BufferStays
      <4>3. \A g \in Frames : pc'[g] = "ended" => Head(keys'[g]) # s
        BY <1>5, <4>1
      <4> QED  BY <2>6, <4>1, <4>2, <4>3
    <3> QED  BY <3>1, <3>2 DEF Childs
  <2>9. Uncounted(s)'
    <3>1. \A g \in Frames : pc'[g] = "uncount" => pc[g] = "uncount"
      BY <1>5
    <3> QED  BY <1>2, <2>2, <2>5, <2>6, <3>1 DEF Uncounted
  <2>10. Single(s)'
    BY <1>1, <1>2 DEF Single
  <2>11. Owed(s)'
    <3> SUFFICES ASSUME s \in due  PROVE Owed(s)'
      BY <1>2 DEF Owed
    <3>1. Dies
      BY <1>0, <1>5, NothingDue
    <3>2. /\ host.prev = "default" /\ s \notin elsewhere /\ s \notin Held(Base) /\ s \notin ToSet(open)
          /\ Somewhere(s) \/ counted[s] > 0
      BY <1>1, <2>2 DEF Owed
    <3>3. pc' = pc /\ chunk' = chunk
      BY <3>1 DEF Dies
    <3>4. Somewhere(s)' \/ counted[s] > 0
      <4>1. \A g \in Frames : Held(g)' = Held(g)
        BY <3>3 DEF Held
      <4> QED  BY <1>2, <2>2, <2>3, <3>2, <4>1 DEF Somewhere, Table, BufferStays
    <3>5. s \notin Held(Base)'
      BY <3>2, <3>3 DEF Held
    <3> QED  BY <1>1, <1>2, <3>2, <3>3, <3>4, <3>5 DEF Owed, Looping
  <2> QED  BY <2>4, <2>7, <2>8, <2>9, <2>10, <2>11
<1> QED  BY <1>2, <1>8, <1>9, <1>10, <1>11, <1>12, <1>14, <1>15, <1>16, <1>17 DEF OInv

\* The child of a fork starts with nothing in its table, its buffer or its hands.
LEMMA OInvFork ==
  ASSUME OpenSpansAssumption, OInv, Fork
  PROVE  OInv' /\ (\A s \in Spans : counted'[s] = 0) /\ cut' = cut
<1> USE DEF clients, blocks, calls, process, ghosts, Put
<1>0. /\ TypeOK /\ Doing /\ Hands /\ OneInside /\ Room /\ Current /\ Calm /\ Distinct
      /\ Traced /\ InTurn /\ OldestFirst /\ InFlightIsHeld
      /\ Handler \in Frames /\ Base \in Frames /\ Beside \in Frames /\ Base # Handler /\ Beside # Handler /\ Base # Beside
  BY ThreeFrames DEF OInv, Frames
<1>1. /\ pc[Base] = "idle" /\ pc[Handler] = "idle" /\ ~ dead
      /\ UNCHANGED <<client, closed, block, using, dead, signals, host, unwound, cut, due>>
      /\ forked' = TRUE /\ open' = <<>> /\ in_flight' = 0 /\ elsewhere' = elsewhere \cup ToSet(open)
      /\ buffer' = [c \in Clients |-> IF c = client THEN <<>> ELSE buffer[c]]
      /\ parents' = {s \in Spans : block[s] # "new"}
      /\ pc' = [pc EXCEPT ![Beside] = "idle"] /\ op' = [op EXCEPT ![Beside] = Nothing]
      /\ keys' = [keys EXCEPT ![Beside] = <<>>] /\ chunk' = [chunk EXCEPT ![Beside] = <<>>]
      /\ shipped' = [s \in Spans |-> 0] /\ counted' = [s \in Spans |-> 0]
  BY DEF Fork, Reinit, MayCall, At, Runs
<1>2. \A g \in Frames : pc'[g] = "idle" /\ op'[g] = Nothing /\ keys'[g] = <<>> /\ chunk'[g] = <<>>
  <2>1. \A g \in {Base, Handler} : op[g] = Nothing /\ keys[g] = <<>> /\ chunk[g] = <<>>
    BY <1>0, <1>1 DEF Doing, Hands, WithKeys, WithChunk
  <2> QED  BY <1>0, <1>1, <2>1 DEF TypeOK, Frames
<1>3. \A c \in Clients : buffer'[c] = <<>>
  BY <1>0, <1>1 DEF Current
<1>4. <<>> \in Seq(Spans) /\ Len(<<>>) = 0 /\ ToSet(<<>>) = {} /\ Once(<<>>)
  BY OnceEmpty
<1>5. TypeOK'
  <2>1. buffer' \in [Clients -> Seq(Spans)] /\ \A c \in Clients : Len(buffer'[c]) <= MaxBuffer
    <3>1. buffer' \in [Clients -> Seq(Spans)]
      BY <1>0, <1>1, <1>4 DEF TypeOK
    <3> QED  BY <1>3, <1>4, <3>1 DEF OpenSpansAssumption
  <2>2. open' \in Seq(Spans) /\ Len(open') <= MaxOpen /\ in_flight' \in Nat
    BY <1>1, <1>4 DEF OpenSpansAssumption
  <2>3. elsewhere' \subseteq Spans
    <3>1. ToSet(open) \subseteq Spans
      BY <1>0, ToSetSeq DEF TypeOK
    <3> QED  BY <1>0, <1>1, <3>1 DEF TypeOK
  <2>4. /\ pc' \in [Frames -> Pcs] /\ op' \in [Frames -> {Nothing, "end", "close", "init", "signal"}]
        /\ keys' \in [Frames -> Seq(Spans)] /\ chunk' \in [Frames -> Seq(Spans)]
    BY <1>0, <1>1, <1>4 DEF TypeOK, Pcs
  <2>5. shipped' \in [Spans -> Nat] /\ counted' \in [Spans -> Nat]
    BY <1>1
  <2>6. unwound' \cup cut' \cup due' \cup parents' \subseteq Spans
    BY <1>0, <1>1 DEF TypeOK
  <2>7. {dead', forked'} \subseteq BOOLEAN
    BY <1>0, <1>1 DEF TypeOK
  <2> QED  BY <1>0, <1>1, <2>1, <2>2, <2>3, <2>4, <2>5, <2>6, <2>7 DEF TypeOK
<1>6. Doing' /\ Hands'
  BY <1>2 DEF Doing, Hands, WithKeys, WithChunk, Nothing
<1>7. OneInside' /\ Current'
  <2>1. \A g \in Frames : ~ Inside(g)' /\ op'[g] # "init"
    BY <1>2 DEF Inside, Nothing
  <2> QED  BY <1>0, <1>1, <1>3, <2>1 DEF OneInside, Current
<1>8. Room'
  <2> DEFINE a == Bit(op[Base] = "init")
             b == Bit(op[Beside] = "init")
  <2>1. /\ a \in Nat /\ b \in Nat /\ client \in Nat /\ client' = client /\ MaxClients \in Nat
        /\ client + a + b <= MaxClients
    BY <1>0, <1>1 DEF Bit, TypeOK, Clients, Room, OpenSpansAssumption
  <2>2. Bit(op'[Base] = "init") = 0 /\ Bit(op'[Beside] = "init") = 0
    BY <1>0, <1>2 DEF Bit, Nothing
  <2> HIDE DEF a, b
  <2>3. client' <= MaxClients /\ client' + 0 + 0 = client'
    BY <2>1
  <2> QED  BY <2>2, <2>3 DEF Room
<1>9. Calm' /\ Distinct'
  BY <1>0, <1>1, <1>2, <1>3, <1>4 DEF Calm, Distinct
<1>10. InTurn' /\ OldestFirst'
  <2>1. Ascending(open') /\ ToSet(open') = {}
    <3>1. DOMAIN <<>> = {}
      OBVIOUS
    <3> QED  BY <1>1, <1>4, <3>1 DEF Ascending
  <2> QED  BY <1>0, <1>1, <1>2, <2>1 DEF InTurn, OldestFirst
<1>11. InFlightIsHeld'
  <2> DEFINE n == Parts'
  <2>1. n \in [Frames -> Nat] /\ \A g \in Frames : n[g] = 0
    BY <1>2 DEF Parts, Midway
  <2> HIDE DEF n
  <2>2. Total(n) = 0
    BY <2>1, TotalZero
  <2> QED  BY <1>1, <2>2 DEF n, Parts, InFlightIsHeld
<1>12. Traced'
  <2>1. (\A g \in Frames : Held(g)' = {}) /\ Buffered' = {} /\ Table' = elsewhere \cup ToSet(open) /\ ToSet(open') = {}
    BY <1>1, <1>2, <1>3, <1>4 DEF Held, Buffered, Table
  <2> SUFFICES ASSUME NEW s \in Spans
               PROVE  Copies(s)' /\ Single(s)' /\ Fresh(s)' /\ Childs(s)' /\ Uncounted(s)' /\ Owed(s)'
    BY DEF Traced
  <2>2. Fresh(s) /\ s \notin due /\ shipped'[s] = 0 /\ counted'[s] = 0
    BY <1>0, <1>1, NothingDue DEF Traced
  <2>3. Copies(s)'
    BY <1>1, <2>1, <2>2 DEF Copies
  <2>4. Single(s)'
    BY <1>1 DEF Single
  <2>5. Fresh(s)'
    <3> SUFFICES ASSUME block[s] = "new"  PROVE Fresh(s)'
      BY <1>1 DEF Fresh
    <3>1. s \notin Table /\ s \notin cut \cup due \cup parents
      BY <2>2 DEF Fresh, Somewhere
    <3>2. ~ Somewhere(s)'
      BY <2>1, <2>2, <3>1 DEF Somewhere, Table
    <3> QED  BY <1>1, <1>2, <1>4, <2>2, <3>1, <3>2 DEF Fresh
  <2>6. Childs(s)'
    BY <1>2, <1>4, <2>1, <2>2 DEF Childs
  <2>7. Uncounted(s)' /\ Owed(s)'
    BY <1>1, <1>2, <2>2 DEF Uncounted, Owed
  <2> QED  BY <2>3, <2>4, <2>5, <2>6, <2>7
<1> QED  BY <1>1, <1>5, <1>6, <1>7, <1>8, <1>9, <1>10, <1>11, <1>12 DEF OInv

LEMMA OInvStutters ==
  ASSUME OInv, UNCHANGED vars
  PROVE  OInv' /\ counted' = counted
<1>1. /\ UNCHANGED <<client, closed, buffer, open, in_flight, block, elsewhere, pc, op, using, keys, chunk>>
      /\ UNCHANGED <<dead, forked, shipped, counted, unwound, cut, due, parents, signals, host>>
  BY DEF vars, clients, blocks, calls, process, ghosts
<1>2. /\ TypeOK /\ Doing /\ Hands /\ OneInside /\ Room /\ Current /\ Calm /\ Distinct
      /\ Traced /\ InTurn /\ OldestFirst /\ InFlightIsHeld
  BY DEF OInv
<1>3. TypeOK' /\ InFlightIsHeld'
  BY <1>1, <1>2 DEF TypeOK, InFlightIsHeld
<1>4. Doing' /\ Hands' /\ Room'
  BY <1>1, <1>2 DEF Doing, Hands, Room
<1>5. OneInside' /\ Current'
  BY <1>1, <1>2 DEF OneInside, Inside, Current
<1>6. Calm' /\ Distinct' /\ InTurn' /\ OldestFirst'
  BY <1>1, <1>2 DEF Calm, Distinct, InTurn, OldestFirst
<1>7. Traced'
  <2>1. (\A g \in Frames : Held(g)' = Held(g)) /\ Buffered' = Buffered /\ Table' = Table
    BY <1>1 DEF Held, Buffered, Table
  <2> SUFFICES ASSUME NEW s \in Spans
               PROVE  Copies(s)' /\ Single(s)' /\ Fresh(s)' /\ Childs(s)' /\ Uncounted(s)' /\ Owed(s)'
    BY DEF Traced
  <2>2. Copies(s) /\ Single(s) /\ Fresh(s) /\ Childs(s) /\ Uncounted(s) /\ Owed(s)
    BY <1>2 DEF Traced
  <2>3. Somewhere(s)' <=> Somewhere(s)
    BY <1>1, <2>1 DEF Somewhere
  <2>4. Copies(s)' /\ Single(s)'
    BY <1>1, <2>1, <2>2, <2>3 DEF Copies, Single
  <2>5. Fresh(s)' /\ Childs(s)'
    BY <1>1, <2>1, <2>2, <2>3 DEF Fresh, Childs
  <2>6. Uncounted(s)' /\ Owed(s)'
    <3>1. s \in Held(Base)' <=> s \in Held(Base)
      BY <1>1 DEF Held
    <3> QED  BY <1>1, <2>2, <2>3, <3>1 DEF Uncounted, Owed
  <2> QED  BY <2>4, <2>5, <2>6
<1> QED  BY <1>1, <1>3, <1>4, <1>5, <1>6, <1>7 DEF OInv

LEMMA OInvInit ==
  ASSUME OpenSpansAssumption, Init
  PROVE  OInv
<1>0. /\ <<>> \in Seq(Spans) /\ Len(<<>>) = 0 /\ ToSet(<<>>) = {} /\ Once(<<>>) /\ DOMAIN <<>> = {}
      /\ Handler \in Frames
  BY OnceEmpty DEF Frames
<1>1. \A g \in Frames : pc[g] = "idle" /\ op[g] = Nothing /\ keys[g] = <<>> /\ chunk[g] = <<>> /\ using[g] = 1
  BY DEF Init
<1>2. TypeOK
  <2>1. /\ client \in Clients /\ closed \subseteq Clients /\ using \in [Frames -> Clients]
        /\ signals \in 0 .. MaxSignals /\ host \in Scenarios
    BY DEF Init, Clients, OpenSpansAssumption
  <2>2. buffer \in [Clients -> Seq(Spans)] /\ \A c \in Clients : Len(buffer[c]) <= MaxBuffer
    BY <1>0 DEF Init, OpenSpansAssumption
  <2>3. open \in Seq(Spans) /\ Len(open) <= MaxOpen /\ in_flight \in Nat /\ elsewhere \subseteq Spans
    BY <1>0 DEF Init, OpenSpansAssumption
  <2>4. /\ block \in [Spans -> {"new", "open", "ended", "copied"}]
        /\ pc \in [Frames -> Pcs] /\ op \in [Frames -> {Nothing, "end", "close", "init", "signal"}]
    BY DEF Init, Pcs
  <2>5. keys \in [Frames -> Seq(Spans)] /\ chunk \in [Frames -> Seq(Spans)]
    BY <1>0 DEF Init
  <2>6. /\ {dead, forked} \subseteq BOOLEAN /\ shipped \in [Spans -> Nat] /\ counted \in [Spans -> Nat]
        /\ unwound \cup cut \cup due \cup parents \subseteq Spans
    BY DEF Init
  <2> QED  BY <2>1, <2>2, <2>3, <2>4, <2>5, <2>6 DEF TypeOK
<1>3. Doing /\ Hands
  BY <1>1 DEF Doing, Hands, Nothing
<1>4. OneInside
  BY <1>1 DEF OneInside, Inside, Nothing
<1>5. Room
  <2>1. Bit(op[Base] = "init") = 0 /\ Bit(op[Beside] = "init") = 0
    BY <1>1 DEF Bit, Nothing, Frames
  <2>2. client = 1 /\ MaxClients \in Nat \ {0} /\ 1 + 0 + 0 = 1
    BY DEF Init, OpenSpansAssumption
  <2> QED  BY <2>1, <2>2 DEF Room
<1>6. Current
  <2>1. client = 1 /\ (\A c \in Clients : c \in Nat /\ c >= 1) /\ \A c \in Clients : buffer[c] = <<>>
    BY DEF Init, Clients
  <2> QED  BY <1>1, <2>1 DEF Current, Nothing
<1>7. Calm /\ Distinct
  BY <1>0, <1>1 DEF Calm, Distinct, Init
<1>8. InTurn /\ OldestFirst
  BY <1>0, <1>1 DEF Init, InTurn, Ascending, OldestFirst
<1>9. InFlightIsHeld
  <2> DEFINE n == Parts
  <2>1. n \in [Frames -> Nat] /\ \A g \in Frames : n[g] = 0
    BY <1>1 DEF Parts, Midway
  <2> HIDE DEF n
  <2>2. Total(n) = 0 /\ in_flight = 0
    BY <2>1, TotalZero DEF Init
  <2> QED  BY <2>2 DEF n, Parts, InFlightIsHeld
<1>10. Traced
  <2>1. (\A g \in Frames : Held(g) = {}) /\ Buffered = {} /\ Table = {}
    BY <1>0, <1>1 DEF Init, Held, Buffered, Table
  <2> SUFFICES ASSUME NEW s \in Spans
               PROVE  Copies(s) /\ Single(s) /\ Fresh(s) /\ Childs(s) /\ Uncounted(s) /\ Owed(s)
    BY DEF Traced
  <2>2. /\ shipped[s] = 0 /\ counted[s] = 0 /\ block[s] = "new" /\ s \notin cut \cup due \cup parents
        /\ open = <<>> /\ elsewhere = {}
    BY DEF Init
  <2>3. ~ Somewhere(s)
    BY <2>1, <2>2 DEF Somewhere
  <2>4. Copies(s)
    BY <1>0, <2>1, <2>2 DEF Copies
  <2>5. Fresh(s)
    BY <1>0, <1>1, <2>2, <2>3 DEF Fresh
  <2>6. Single(s) /\ Childs(s) /\ Uncounted(s) /\ Owed(s)
    BY <1>1, <2>2 DEF Single, Childs, Uncounted, Owed
  <2> QED  BY <2>4, <2>5, <2>6
<1> QED  BY <1>2, <1>3, <1>4, <1>5, <1>6, <1>7, <1>8, <1>9, <1>10 DEF OInv

-----------------------------------------------------------------------------
(* The theorems.                                                           *)

\* A step is one frame's, or a signal's, the handler's or a fork's.
LEMMA NextIs ==
  ASSUME Next
  PROVE  (\E f \in Frames : Acts(f)) \/ Signal \/ State \/ Flush \/ Fork
<1>1. Base \in Frames /\ Handler \in Frames /\ Beside \in Frames
  BY DEF Frames
<1>2. ASSUME NEW f \in {Base, Beside},
             \/ \E s \in Spans : Open(f, s) \/ End(f, s)
             \/ EndPop(f) \/ Emit(f)
             \/ \E what \in {"close", "init"} : Call(f, what)
             \/ Enter(f) \/ Interrupting(f) \/ Shut(f) \/ SetClient(f)
      PROVE  \E g \in Frames : Acts(g)
  BY <1>1, <1>2 DEF Acts
<1>3. ASSUME Interrupting(Handler)  PROVE Acts(Handler)
  BY <1>3 DEF Acts
<1> QED  BY <1>1, <1>2, <1>3 DEF Next, Handling

LEMMA OInvNext ==
  ASSUME OpenSpansAssumption, OInv, [Next]_vars
  PROVE  OInv'
<1>1. ASSUME NEW f \in Frames, Acts(f)  PROVE OInv'
  BY <1>1, OInvActs
<1>2. CASE Signal \/ State
  BY <1>2, OInvStarts
<1>3. CASE Flush
  BY <1>3, OInvFlush
<1>4. CASE Fork
  BY <1>4, OInvFork
<1>5. CASE UNCHANGED vars
  BY <1>5, OInvStutters
<1> QED  BY <1>1, <1>2, <1>3, <1>4, <1>5, NextIs

LEMMA SpecOInv == Spec => []OInv
<1>1. Init => OInv
  BY OpenSpansAssumption, OInvInit
<1>2. OInv /\ [Next]_vars => OInv'
  BY OpenSpansAssumption, OInvNext
<1> QED  BY <1>1, <1>2, PTL DEF Spec

\* How many of the buffers hold a span: the current client's, or none.
LEMMA BufferBits ==
  ASSUME TypeOK, Current, Distinct, NEW s \in Spans
  PROVE  /\ Total([c \in Clients |-> Occurs(s, buffer[c])]) = Bit(s \in Buffered)
         /\ Cardinality({c \in Clients : s \in ToSet(buffer[c])}) = Bit(s \in Buffered)
<1>1. \A c \in Clients : Occurs(s, buffer[c]) = Bit(s \in ToSet(buffer[c]))
  BY OccursBit DEF Distinct
<1>2. \A c \in Clients : s \in ToSet(buffer[c]) => c = client
  BY OnceEmpty DEF Current
<1>3. s \in Buffered <=> \E c \in Clients : s \in ToSet(buffer[c])
  BY DEF Buffered
<1>4. Total([c \in Clients |-> Occurs(s, buffer[c])]) = Bit(s \in Buffered)
  <2> DEFINE n == [c \in Clients |-> Occurs(s, buffer[c])]
  <2>1. \A c \in Clients : n[c] = Bit(s \in ToSet(buffer[c]))
    BY <1>1
  <2>2. n \in [Clients -> Nat] /\ (\A c \in Clients : n[c] \in {0, 1}) /\ \A c \in Clients : n[c] = 1 <=> s \in ToSet(buffer[c])
    BY <2>1 DEF Bit
  <2> HIDE DEF n
  <2>3. Total(n) = Bit(\E c \in Clients : n[c] = 1)
    <3>1. \A c, d \in Clients : n[c] = 1 /\ n[d] = 1 => c = d
      BY <1>2, <2>2
    <3> QED  BY ONLY <2>2, <3>1, TotalBit
  <2>4. Bit(\E c \in Clients : n[c] = 1) = Bit(s \in Buffered)
    BY <1>3, <2>2 DEF Bit
  <2>5. Total(n) = Bit(s \in Buffered)
    BY <2>3, <2>4
  <2> QED  BY <2>5 DEF n
<1>5. Cardinality({c \in Clients : s \in ToSet(buffer[c])}) = Bit(s \in Buffered)
  <2> DEFINE S == {c \in Clients : s \in ToSet(buffer[c])}
  <2>1. (\A c, d \in S : c = d) /\ (S # {} <=> s \in Buffered)
    BY <1>2, <1>3
  <2> HIDE DEF S
  <2>2. Cardinality(S) = Bit(S # {})
    BY <2>1, AtMostOne
  <2> QED  BY <2>1, <2>2 DEF S
<1> QED  BY <1>4, <1>5

\* Whatever blocks, shutdowns, signals and forks do to the table, its buffers and each
\* other's hands (Accounted): no span has two copies, while no signal comes each is in one
\* place, and a fork's child ships and counts nothing of its parent's.
THEOREM SpansAreAccounted == Spec => []Accounted
<1>1. OInv => Accounted
  <2> SUFFICES ASSUME OInv  PROVE Accounted
    OBVIOUS
  <2>0. TypeOK /\ Current /\ Distinct /\ Traced
    BY DEF OInv
  <2>1. OneCopy
    <3> SUFFICES ASSUME NEW s \in Spans  PROVE shipped[s] + Total([c \in Clients |-> Occurs(s, buffer[c])]) <= 1
      BY DEF OneCopy
    <3>1. shipped[s] \in Nat /\ shipped[s] <= 1 /\ (s \in Buffered => shipped[s] = 0)
      BY <2>0 DEF Traced, Copies, TypeOK
    <3>2. shipped[s] + Bit(s \in Buffered) <= 1
      BY <3>1 DEF Bit
    <3> QED  BY <2>0, <3>2, BufferBits
  <2>2. OnePlace
    <3> SUFFICES ASSUME signals = 0, NEW s \in Spans \ parents, block[s] # "new"  PROVE Places(s) = 1
      BY DEF OnePlace
    <3> DEFINE H == {f \in Frames : s \in Held(f)}
               h == Bit(\E f \in Frames : s \in Held(f))
               b == Bit(s \in Buffered)
               t == Bit(s \in Table)
               n == shipped[s]
               m == counted[s]
    <3>1. Copies(s) /\ Single(s) /\ n \in Nat /\ m \in Nat
      BY <2>0 DEF Traced, TypeOK
    <3>2. Cardinality(H) = h
      <4>1. (\A f, g \in H : f = g) /\ (H # {} <=> \E f \in Frames : s \in Held(f))
        BY <3>1 DEF Copies
      <4> HIDE DEF H
      <4>2. Cardinality(H) = Bit(H # {})
        BY <4>1, AtMostOne
      <4> QED  BY <4>1, <4>2
    <3>3. Cardinality({c \in Clients : s \in ToSet(buffer[c])}) = b
      BY <2>0, BufferBits
    <3>4. Places(s) = h + b + t + n + m
      BY <3>2, <3>3 DEF Places, Table, Bit
    <3>5. m <= 1 /\ (m = 0 <=> Somewhere(s)) /\ n <= 1
      BY <3>1 DEF Single, Copies
    <3>6. /\ Somewhere(s) => \/ h = 1 /\ b = 0 /\ t = 0 /\ n = 0
                             \/ h = 0 /\ b = 1 /\ t = 0 /\ n = 0
                             \/ h = 0 /\ b = 0 /\ t = 1 /\ n = 0
                             \/ h = 0 /\ b = 0 /\ t = 0 /\ n # 0
          /\ ~ Somewhere(s) => h = 0 /\ b = 0 /\ t = 0 /\ n = 0
      BY <3>1 DEF Copies, Somewhere, Bit
    <3> HIDE DEF H, h, b, t, n, m
    <3>7. h + b + t + n + m = 1
      BY <3>1, <3>5, <3>6
    <3> QED  BY <3>4, <3>7
  <2>3. ChildLeavesParents
    <3> SUFFICES ASSUME NEW s \in parents, block[s] # "copied"  PROVE s \notin Buffered /\ shipped[s] + counted[s] = 0
      BY DEF ChildLeavesParents
    <3>1. s \in Spans
      BY <2>0 DEF TypeOK
    <3>2. s \notin Buffered /\ shipped[s] = 0 /\ counted[s] = 0
      BY <2>0, <3>1 DEF Traced, Childs
    <3> QED  BY <3>2
  <2> QED  BY <2>0, <2>1, <2>2, <2>3 DEF Accounted
<1> QED  BY <1>1, SpecOInv, PTL

\* What a shutdown leaves behind is said (DueAreSaid): what a deadly signal found is shipped,
\* counted or held, what is in flight is what calls hold, and the oldest go first.
THEOREM DueSpansAreSaid == Spec => []DueAreSaid
<1>1. OInv => DueAreSaid
  <2> SUFFICES ASSUME OInv  PROVE DueAreSaid
    OBVIOUS
  <2>0. TypeOK /\ Hands /\ Calm /\ Traced /\ OldestFirst /\ InFlightIsHeld
    BY DEF OInv
  <2>1. DueAreShipped
    <3> SUFFICES ASSUME dead, NEW s \in due  PROVE s \in Buffered \cup Held(Beside) \/ shipped[s] + counted[s] > 0
      BY DEF DueAreShipped
    <3>1. s \in Spans /\ pc[Handler] = "flush"
      BY <2>0 DEF TypeOK, Calm
    <3>2. s \notin elsewhere /\ s \notin Held(Base) /\ s \notin ToSet(open) /\ (Somewhere(s) \/ counted[s] > 0)
      BY <2>0, <3>1 DEF Traced, Owed
    <3>3. s \notin Held(Handler)
      <4>1. chunk[Handler] = <<>>
        BY <2>0, <3>1 DEF Hands, WithChunk, Frames
      <4> QED  BY <4>1, OnceEmpty DEF Held
    <3>4. s \in Buffered \/ s \in Held(Beside) \/ shipped[s] # 0 \/ counted[s] > 0
      BY <3>2, <3>3 DEF Somewhere, Table, Frames
    <3>5. shipped[s] \in Nat /\ counted[s] \in Nat
      BY <2>0, <3>1 DEF TypeOK
    <3> QED  BY <3>4, <3>5
  <2>2. RootsFirst
    BY <2>0 DEF OldestFirst, RootsFirst
  <2> QED  BY <2>0, <2>1, <2>2 DEF DueAreSaid
<1> QED  BY <1>1, SpecOInv, PTL

\* Interrupting open spans costs no finished span (CostsNoFinished): what a buffer held, and no
\* shutdown had put there, is counted by a capture or by the close itself.
THEOREM ShutdownCostsNothing == Spec => CostsNoFinished
<1> DEFINE Costs == \A s \in Buffered \ cut : counted'[s] > counted[s] =>
                      \E f \in Frames : pc[f] \in {"emit", "shut"} /\ pc'[f] # pc[f]
<1>1. OInv /\ [Next]_vars => Costs
  <2> SUFFICES ASSUME OInv, [Next]_vars, NEW s \in Buffered \ cut, counted'[s] > counted[s]
               PROVE  \E f \in Frames : pc[f] \in {"emit", "shut"} /\ pc'[f] # pc[f]
    OBVIOUS
  <2>0. TypeOK /\ Doing /\ Traced
    BY DEF OInv
  <2>1. s \in Spans /\ counted[s] \in Nat
    <3>1. \A c \in Clients : ToSet(buffer[c]) \subseteq Spans
      BY <2>0, ToSetSeq DEF TypeOK
    <3> QED  BY <2>0, <3>1 DEF Buffered, TypeOK
  <2>2. Copies(s) /\ Uncounted(s) /\ Somewhere(s)
    BY <2>0, <2>1 DEF Traced, Somewhere
  <2>3. ASSUME NEW f \in Frames, Acts(f)  PROVE pc[f] \in {"emit", "shut"} /\ pc'[f] # pc[f]
    <3>1. Moves(s, f)
      BY <2>1, <2>3, OInvActs, OpenSpansAssumption
    <3>2. counted'[s] # counted[s]
      BY <2>1
    <3>3. ~ Left(s, f)
      BY <2>2 DEF Left, Copies
    <3>4. ~ Reported(s, f)
      <4> SUFFICES ASSUME NEW g \in Frames, s \in ToSet(chunk[g]), pc[g] \in Midway \cup {"report"}  PROVE FALSE
        BY DEF Reported
      <4>1. s \in cut \/ s \in Held(g)
        BY <2>2 DEF Uncounted, Held
      <4> QED  BY <2>2, <4>1 DEF Copies
    <3>5. pc[f] \in {"emit", "shut"}
      BY <3>1, <3>2, <3>3, <3>4 DEF Moves, Stays, Opened, Taken, Returned, Sent, Evicted
    <3>6. pc'[f] # pc[f]
      <4>1. Emit(f) \/ Shut(f)
        BY <2>3, <3>5 DEF Acts, Open, End, EndPop, Call, Enter, SetClient, MayCall, At, Interrupting, Begin, Interrupt, PopKey,
                          CountChunk, BufferChunk, Uncount, Sweep, PopLeft, Report, Pop
      <4> QED  BY <2>0, <3>5, <4>1 DEF Emit, Shut, Goto, Return, TypeOK
    <3> QED  BY <3>5, <3>6
  <2>4. CASE Signal \/ State
    <3>1. counted' = counted
      BY <2>4, OInvStarts, OpenSpansAssumption
    <3> QED  BY <2>1, <3>1
  <2>5. CASE Flush
    BY <2>1, <2>5, OInvFlush, OpenSpansAssumption
  <2>6. CASE Fork
    BY <2>1, <2>6, OInvFork, OpenSpansAssumption
  <2>7. CASE UNCHANGED vars
    BY <2>1, <2>7, OInvStutters
  <2> QED  BY <2>3, <2>4, <2>5, <2>6, <2>7, NextIs
<1>2. Spec => []OInv
  BY SpecOInv
<1> QED  BY <1>1, <1>2, PTL DEF Spec, CostsNoFinished
=============================================================================
