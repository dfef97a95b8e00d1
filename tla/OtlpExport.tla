----------------------------- MODULE OtlpExport -----------------------------
(***************************************************************************)
(* One batch through the OTLP/HTTP transport: encoded and split at         *)
(* max_otlp_request_bytes (wardex-codec/src/otlp/split.rs), posted body by *)
(* body under one deadline (transport/_otlp_http.py), handed back when     *)
(* nothing of it went on the wire.  A span is [id, meta, load, ok]: the    *)
(* size of what must stay, of its payload, and whether it marshals.        *)
(***************************************************************************)
EXTENDS Integers, Sequences, FiniteSets, SequencesExt, FiniteSetsExt

CONSTANTS
  Batches,       \* sequences of spans a run exports
  RequestCaps,   \* values of max_otlp_request_bytes
  Envelope,      \* size of a request around its spans
  MaxAttempts    \* bound: drains that try this batch

MarkSize == 1
SizeOf(s) == s.meta + s.load
Encoded(spans) == Envelope + FoldLeft(LAMBDA acc, s : acc + SizeOf(s), 0, spans)

\* gzip: halves what is long, adds its frame to what is short.
Gzip(n) == IF n > 4 THEN n \div 2 ELSE n + 1

\* fit(): 0 when a receiver would take the request, else its size.
Over(spans, cap, compress) ==
  LET raw == Encoded(spans)
  IN  IF raw > cap THEN raw
      ELSE IF compress /\ Gzip(raw) > cap THEN Gzip(raw) ELSE 0

\* drop_payload_attributes()
WithoutLoad(s) == IF s.load = 0 THEN s ELSE [s EXCEPT !.meta = @ + MarkSize, !.load = 0]

Ceil(a, b) == (a + b - 1) \div b
Clamp(n, lo, hi) == IF n < lo THEN lo ELSE IF n > hi THEN hi ELSE n

NoRequests == [bodies |-> <<>>, dropped |-> {}, unloaded |-> {}]

EmitOne(s, cap, compress, out) ==
  LET light == WithoutLoad(s)
  IN  IF Over(<<light>>, cap, compress) # 0 THEN [out EXCEPT !.dropped = @ \union {s.id}]
      ELSE [out EXCEPT !.bodies = Append(@, <<light>>),
                       !.unloaded = IF s.load = 0 THEN @ ELSE @ \union {s.id}]

Parts(spans, k) ==
  [i \in 1 .. Ceil(Len(spans), k) |-> SubSeq(spans, (i - 1) * k + 1, Clamp(i * k, 1, Len(spans)))]

RECURSIVE Emit(_, _, _, _)
Emit(spans, cap, compress, out) ==
  LET over == Over(spans, cap, compress)
      n == Clamp(Ceil(over, Clamp(cap, 1, over)), 2, Len(spans))
  IN  IF spans = <<>> THEN out
      ELSE IF over = 0 THEN [out EXCEPT !.bodies = Append(@, spans)]
      ELSE IF Len(spans) = 1 THEN EmitOne(spans[1], cap, compress, out)
      ELSE FoldLeft(LAMBDA acc, part : Emit(part, cap, compress, acc), out, Parts(spans, Ceil(Len(spans), n)))

EncodeRequests(spans, cap, compress) == Emit(SelectSeq(spans, LAMBDA s : s.ok), cap, compress, NoRequests)

(***************************************************************************)
(* The transport.                                                          *)
(***************************************************************************)
VARIABLES
  batch, cap, compress,
  fate,       \* "held", "posting", "taken"
  attempt,    \* attempts begun
  enc,        \* what the encode of this attempt returned
  at,         \* bodies answered in this attempt
  spent,      \* the deadline has passed
  backend,    \* ids the backend answered for, and those it may hold besides
  lostSpans, lostRequests, unmarshalled, tooLarge, unloadedSaid   \* counted

otlpVars == <<batch, cap, compress, fate, attempt, enc, at, spent, backend,
              lostSpans, lostRequests, unmarshalled, tooLarge, unloadedSaid>>
counts == <<lostSpans, lostRequests, unmarshalled, tooLarge, unloadedSaid>>

Bad == {i \in DOMAIN batch : ~batch[i].ok}

\* _report_encode(): once per batch, where its fate is decided.
CountEncodeReports(e) ==
  /\ unmarshalled' = unmarshalled + Cardinality(Bad)
  /\ tooLarge' = tooLarge + Cardinality(e.dropped)
  /\ unloadedSaid' = unloadedSaid + Cardinality(e.unloaded)

ReportsLater(e) == UNCHANGED counts

\* _send_batch() to the first body: no budget, nothing to post, or a deadline that
\* starts before the encode.
BeginExport ==
  /\ fate = "held" /\ attempt < MaxAttempts
  /\ attempt' = attempt + 1 /\ spent' = FALSE /\ at' = 0
  /\ enc' = EncodeRequests(batch, cap, compress)
  /\ IF enc'.bodies = <<>>
     THEN /\ fate' = "taken" /\ CountEncodeReports(enc') /\ UNCHANGED <<lostSpans, lostRequests>>
     ELSE fate' = "posting" /\ ReportsLater(enc')
  /\ UNCHANGED <<batch, cap, compress, backend>>

\* A budget already spent when export() is entered.
DeclineSpent ==
  /\ fate = "held" /\ attempt < MaxAttempts /\ attempt' = attempt + 1
  /\ UNCHANGED <<batch, cap, compress, fate, enc, at, spent, backend, counts>>

TimePasses ==
  /\ fate = "posting" /\ ~spent /\ spent' = TRUE
  /\ UNCHANGED <<batch, cap, compress, fate, attempt, enc, at, backend, counts>>

Ids(spans) == {spans[i].id : i \in DOMAIN spans}

\* A deadline seen after a body went out that hands the batch back.
HandBackAlways == fate' = "held" /\ UNCHANGED counts

\* The deadline is seen before a body: nothing sent, the batch goes back; else the rest
\* is counted, in requests.
SeeDeadline ==
  IF at = 0 THEN fate' = "held" /\ UNCHANGED counts
  ELSE /\ fate' = "taken"
       /\ lostRequests' = lostRequests + Len(enc.bodies) - at
       /\ UNCHANGED <<lostSpans, unmarshalled, tooLarge, unloadedSaid>>

OutOfBudget ==
  /\ fate = "posting" /\ spent /\ at < Len(enc.bodies)
  /\ SeeDeadline
  /\ UNCHANGED <<batch, cap, compress, attempt, enc, at, spent, backend>>

PostAccepted ==
  /\ fate = "posting" /\ ~spent /\ at < Len(enc.bodies)
  /\ backend' = [backend EXCEPT !.has = @ \o <<Ids(enc.bodies[at + 1])>>]
  /\ at' = at + 1
  /\ fate' = IF at + 1 = Len(enc.bodies) THEN "taken" ELSE fate
  /\ IF at = 0 THEN CountEncodeReports(enc) /\ UNCHANGED <<lostSpans, lostRequests>> ELSE UNCHANGED counts
  /\ UNCHANGED <<batch, cap, compress, attempt, enc, spent>>

LostFirst(e) == Len(batch) - Cardinality(Bad) - Cardinality(e.dropped)

\* A POST fails, kept by the backend or not; the rest of the batch is not tried.
PostFails(kept) ==
  /\ fate = "posting" /\ ~spent /\ at < Len(enc.bodies)
  /\ backend' = IF kept THEN [backend EXCEPT !.maybe = @ \union Ids(enc.bodies[at + 1])] ELSE backend
  /\ fate' = "taken"
  /\ IF at = 0
     THEN CountEncodeReports(enc) /\ lostSpans' = lostSpans + LostFirst(enc) /\ UNCHANGED lostRequests
     ELSE /\ lostRequests' = lostRequests + Len(enc.bodies) - at
          /\ UNCHANGED <<lostSpans, unmarshalled, tooLarge, unloadedSaid>>
  /\ UNCHANGED <<batch, cap, compress, attempt, enc, at, spent>>

OtlpInit ==
  /\ batch \in Batches /\ cap \in RequestCaps /\ compress \in BOOLEAN
  /\ fate = "held" /\ attempt = 0 /\ enc = NoRequests /\ at = 0 /\ spent = FALSE
  /\ backend = [has |-> <<>>, maybe |-> {}]
  /\ lostSpans = 0 /\ lostRequests = 0 /\ unmarshalled = 0 /\ tooLarge = 0 /\ unloadedSaid = 0

OtlpNext ==
  \/ BeginExport \/ DeclineSpent \/ TimePasses \/ OutOfBudget \/ PostAccepted
  \/ \E kept \in BOOLEAN : PostFails(kept)

-----------------------------------------------------------------------------
Marshalled == SelectSeq(batch, LAMBDA s : s.ok)
AloneFits(s) == Over(<<s>>, cap, compress) = 0

\* Every body a batch was split into is one a receiver takes, on the wire and unpacked.
BodiesFit ==
  \A i \in DOMAIN enc.bodies :
    /\ Encoded(enc.bodies[i]) <= cap
    /\ compress => Gzip(Encoded(enc.bodies[i])) <= cap

\* The bodies hold the batch's spans in order and once, short only of the ones that do
\* not fit alone without their payload; a payload goes only where it would not fit, and
\* a batch that fits whole is one request.
SplitIsExact ==
  enc # NoRequests =>
    LET sent == FoldLeft(LAMBDA acc, b : acc \o b, <<>>, enc.bodies)
        fits == SelectSeq(Marshalled, LAMBDA s : AloneFits(s) \/ AloneFits(WithoutLoad(s)))
    IN  /\ sent = [i \in DOMAIN fits |-> IF AloneFits(fits[i]) THEN fits[i] ELSE WithoutLoad(fits[i])]
        /\ enc.dropped = Ids(Marshalled) \ Ids(fits)
        /\ enc.unloaded = {s.id : s \in {fits[i] : i \in {j \in DOMAIN fits : ~AloneFits(fits[j]) /\ fits[j].load > 0}}}
        /\ Over(Marshalled, cap, compress) = 0 => Len(enc.bodies) = 1

\* A batch that is handed back was not sent and not counted, in any part: the attempt
\* after it can neither duplicate a span at the backend nor count a loss twice.
HeldIsWhole ==
  fate = "held" => /\ backend = [has |-> <<>>, maybe |-> {}]
                   /\ {lostSpans, lostRequests, unmarshalled, tooLarge, unloadedSaid} = {0}

\* A batch that was taken is accounted to the span: what could not be marshalled and what
\* fits no request are counted once each, and the rest was answered for by the backend or
\* is in a body counted as lost, by its spans if it was the first and else by itself.
TakenIsAccounted ==
  fate = "taken" =>
    /\ unmarshalled = Cardinality(Bad) /\ tooLarge = Cardinality(enc.dropped)
    /\ unloadedSaid = Cardinality(enc.unloaded)
    /\ Len(backend.has) + lostRequests = IF lostSpans > 0 THEN 0 ELSE Len(enc.bodies)
    /\ lostSpans \in {0, FoldLeft(LAMBDA acc, b : acc + Len(b), 0, enc.bodies)}

\* From the split to the last POST: every span is in one body under the cap, handed back
\* with its whole batch, or counted as lost, and only one of these.
BatchAccounted ==
  /\ BodiesFit
  /\ SplitIsExact
  /\ HeldIsWhole
  /\ TakenIsAccounted

=============================================================================
