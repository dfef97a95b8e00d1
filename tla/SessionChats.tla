----------------------------- MODULE SessionChats -----------------------------
(***************************************************************************)
(* The chat spans of one Claude Agent SDK session: SessionAssembler's      *)
(* _emit_chat, _open_chat, _ship_chat and _on_prompt_submit                *)
(* (_adapters/_assembler.py) over _Session's open_chats, threads,          *)
(* evicted_chats and pending_prompt (_adapters/_session_state.py).         *)
(*                                                                         *)
(* The CLI sends a response as several lines under one message id, on the  *)
(* main thread or on a sub-agent's.  A response's span is held until the   *)
(* response is over; a full table ships the oldest one early and must then *)
(* recognise its later lines, or one request is priced twice.  A session   *)
(* whose root the registry evicts, or that the bound on sessions puts out, *)
(* goes on as a fresh one that remembers none of this.                     *)
(***************************************************************************)
EXTENDS Naturals, Sequences, FiniteSets, SequencesExt

CONSTANTS
    Tasks,         \* the Task calls whose sub-agents speak on threads of their own
    Main,          \* the main thread
    Responses,     \* the responses' identities, 1 .. n, in the order they start
    Nameless,      \* the responses whose lines name no message id
    Prompts,       \* the user's prompts, 1 .. n, in the order they are written
    MaxEntries,    \* max_session_entries
    MaxEvictions   \* bound: how often the session is put out under its CLI

AllThreads == Tasks \cup {Main}
None == 0

ASSUME ChatConstants ==
    /\ Main \notin Tasks
    /\ Responses = 1 .. Cardinality(Responses)
    /\ Prompts = 1 .. Cardinality(Prompts)
    /\ Nameless \subseteq Responses
    /\ MaxEntries \in Nat \ {0}
    /\ MaxEvictions \in Nat

VARIABLES
    openChats,     \* _Session.open_chats, oldest first
    threads,       \* _Session.threads: the sub-agent threads with a record
    closedEarly,   \* _Thread.closed_early, None where nothing is remembered
    evictedChats,  \* _Session.evicted_chats, oldest first
    forgot,        \* _Session.forgot_early_close
    pendingPrompt, \* pending_prompt, its source and pending_prompt_hook_seen
    clean,         \* how many unmarked spans each response has shipped (at most 3 are told apart)
    marked,        \* the responses with a shipped span that carries SESSION_ENTRY_TABLE_FULL
    \* The CLI and the host.
    mode,          \* are the hooks installed, or does only the stream observe?
    responding,    \* the response each thread is sending, None between two
    started,       \* how many responses have started
    overThreads,   \* the threads whose Task call has returned
    written,       \* how many prompts the host has written
    taken,         \* how many of them the CLI has taken up
    turn,          \* the prompt the CLI is answering, OwnTurn when it woke by itself, None when idle
    askedBy,       \* the prompt each response was the first to answer
    session,       \* "live", "dead" (its root was evicted, and nothing came since), "absent", "closed"
    \* History.
    cut,           \* how often each response was being sent when the session was put out
    mixed,         \* the prompts that another prompt was written beside, or that waited out a turn
    lost,          \* the prompts that pended, or whose hook came, when the session was out
    evictions,     \* how often the session was put out
    unasked        \* the responses of turns the CLI started by itself

chatVars == <<openChats, threads, closedEarly, evictedChats, forgot, pendingPrompt, clean, marked,
              mode, responding, started, overThreads, written, taken, turn, askedBy, session,
              cut, mixed, lost, evictions, unasked>>

cliVars == <<mode, responding, started, overThreads, written, taken, turn, askedBy, cut, mixed, lost, evictions, unasked>>
heldVars == <<openChats, threads, closedEarly, evictedChats, forgot, clean, marked>>

OwnTurn == Cardinality(Prompts) + 1
QueuedPrompts == {q \in Prompts : taken < q /\ q <= written}

NoPrompt == [source |-> "none", prompt |-> None, hookSeen |-> FALSE]

\* The message id a response's lines carry.
MessageId(r) == IF r \in Nameless THEN None ELSE r

ThreadsOf(table) == {table[i].th : i \in DOMAIN table}

(***************************************************************************)
(* What one operation reads and changes, as one record.                    *)
(***************************************************************************)
Held == [open |-> openChats, threads |-> threads, early |-> closedEarly, evicted |-> evictedChats,
         forgot |-> forgot, clean |-> clean, marked |-> marked]

Becomes(s) ==
    /\ openChats' = s.open
    /\ threads' = s.threads
    /\ closedEarly' = s.early
    /\ evictedChats' = s.evicted
    /\ forgot' = s.forgot
    /\ clean' = s.clean
    /\ marked' = s.marked

\* thread(): a sub-agent's record is made on first sight, and refused by a full table.
Record(s, th) ==
    IF th \in Tasks \ s.threads /\ Cardinality(s.threads) < MaxEntries
    THEN [s EXCEPT !.threads = @ \cup {th}] ELSE s

\* tracked_thread() is not None.
Tracked(s, th) == th = Main \/ th \in s.threads

\* _ship_chat: the span leaves; one closed early, or opened as a possible repeat, is marked.
ShipChat(s, chat, early) ==
    IF early \/ chat.repeat
    THEN [s EXCEPT !.marked = @ \cup {chat.resp}]
    ELSE [s EXCEPT !.clean[chat.resp] = IF @ < 3 THEN @ + 1 ELSE @]

ShipAll(s, chats) == FoldLeft(LAMBDA acc, c : ShipChat(acc, c, FALSE), s, chats)

\* end_chats and _close_chats for one thread: what ends its response also forgets its early close.
CloseChat(s, th) ==
    LET ended == SelectSeq(s.open, LAMBDA c : c.th = th)
    IN ShipAll([s EXCEPT !.open = SelectSeq(@, LAMBDA c : c.th # th),
                         !.evicted = SelectSeq(@, LAMBDA c : c.th # th \/ th = Main),
                         !.early[th] = IF Tracked(s, th) THEN None ELSE @], ended)

\* _close_chats with no thread named: every response, and every memory.
CloseAllChats(s) ==
    ShipAll([s EXCEPT !.open = <<>>, !.evicted = <<>>, !.forgot = FALSE,
                      !.early = [th \in AllThreads |-> None]], s.open)

\* shipped_early: a later line of the response the bound shipped from its thread.
ShippedEarly(s, th, id) ==
    /\ id # None
    /\ \/ Tracked(s, th) /\ s.early[th] = id
       \/ th # Main /\ \E i \in DOMAIN s.evicted : s.evicted[i] = [th |-> th, id |-> id]

MayRepeatNever(s, th) == FALSE

\* may_repeat: a new response that cannot be told from a forgotten one's next line.
MayRepeat(s, th) ==
    /\ s.forgot
    /\ th # Main
    /\ th \notin ThreadsOf(s.open) \cup ThreadsOf(s.evicted)
    /\ th \in s.threads => s.early[th] = None

\* remember_early_close: on the thread's record, or in the bounded table that can push one out.
RememberEarlyClose(s, th, id) ==
    IF id = None THEN s
    ELSE IF Tracked(s, th) THEN [s EXCEPT !.early[th] = id]
    ELSE LET full == Len(s.evicted) >= MaxEntries
             rest == SelectSeq(IF full THEN Tail(s.evicted) ELSE s.evicted, LAMBDA c : c.th # th)
         IN [s EXCEPT !.evicted = Append(rest, [th |-> th, id |-> id]),
                      !.forgot = @ \/ full]

\* The tail of _emit_chat: room for the opened chat, at the expense of the oldest.
FileChat(s, chat) ==
    IF Len(s.open) < MaxEntries THEN [s EXCEPT !.open = Append(@, chat)]
    ELSE LET oldest == s.open[1]
             shipped == ShipChat([s EXCEPT !.open = Tail(@)], oldest, TRUE)
             remembered == RememberEarlyClose(shipped, oldest.th, oldest.id)
         IN [remembered EXCEPT !.open = Append(@, chat)]

\* continues and fold: the line belongs to the response its thread holds, whose draft it updates.
Continues(s, th, id) == id # None /\ \E i \in DOMAIN s.open : s.open[i].th = th /\ s.open[i].id = id

\* _emit_chat: fold the line in, recognise an early-shipped response's, or open a new chat.
\* `input` is the prompt a new chat consumes.
EmitChat(s, th, r, input) ==
    LET id == MessageId(r)
        chat == [th |-> th, id |-> id, resp |-> r, input |-> input, repeat |-> MayRepeat(s, th)]
    IN IF Continues(s, th, id) \/ ShippedEarly(s, th, id) THEN Record(s, th)
       ELSE FileChat(Record(CloseChat(s, th), th), chat)

\* Does this line open a chat that consumes the pending prompt?
Consumes(s, pending, th, r) ==
    LET id == MessageId(r)
    IN /\ th = Main
       /\ pending.source # "none"
       /\ ~ShippedEarly(s, th, id)
       /\ ~Continues(s, th, id)

(***************************************************************************)
(* The session's record.  What the stream or a write brings finds it, or   *)
(* retires one whose root is dead and begins a fresh one (_ensure_session).*)
(***************************************************************************)
Fresh(s) == [CloseAllChats(s) EXCEPT !.threads = {}]

Ensured == IF session = "live" THEN Held ELSE Fresh(Held)
Pending == IF session = "live" THEN pendingPrompt ELSE NoPrompt
SessionEnsured == session # "closed" /\ session' = "live"

\* The record leaves the table, with every response it held shipped.
RetireSession == Becomes(Fresh(Held)) /\ pendingPrompt' = NoPrompt /\ session' = "absent"

\* What is lost with a record.
PutOut ==
    /\ cut' = [r \in Responses |-> IF \E th \in AllThreads : responding[th] = r THEN cut[r] + 1 ELSE cut[r]]
    /\ lost' = lost \cup ({pendingPrompt.prompt} \ {None})
    /\ evictions < MaxEvictions /\ evictions' = evictions + 1
    /\ UNCHANGED <<mode, responding, started, overThreads, written, taken, turn, askedBy, mixed, unasked>>

\* The registry evicts the session's root: nothing tells the session.
RootEvicted ==
    /\ session = "live" /\ session' = "dead"
    /\ PutOut
    /\ UNCHANGED <<heldVars, pendingPrompt>>

\* Another session is opened over the bound: this one, the oldest, is finalized.
MakeRoom ==
    /\ session \in {"live", "dead"}
    /\ RetireSession
    /\ IF session = "live" THEN PutOut ELSE UNCHANGED cliVars

(***************************************************************************)
(* The stream.                                                             *)
(***************************************************************************)
\* An assistant line of the response the thread is sending.
AssistantTurn(th, r) ==
    LET used == Consumes(Ensured, Pending, th, r)
    IN /\ SessionEnsured
       /\ Becomes(EmitChat(Ensured, th, r, IF used THEN Pending.prompt ELSE None))
       /\ pendingPrompt' = IF used THEN NoPrompt ELSE Pending

\* A line that starts a response: on the main thread, the first of a turn answers the prompt.
FirstLine(th) ==
    LET r == started + 1
    IN /\ r \in Responses /\ th \notin overThreads
       /\ th = Main => turn # None
       /\ AssistantTurn(th, r)
       /\ started' = r
       /\ responding' = [responding EXCEPT ![th] = r]
       /\ askedBy' = [askedBy EXCEPT ![r] =
                        IF th = Main /\ turn \in Prompts \ {askedBy[q] : q \in Responses} THEN turn ELSE None]
       /\ unasked' = IF th = Main /\ turn = OwnTurn THEN unasked \cup {r} ELSE unasked
       /\ UNCHANGED <<mode, overThreads, written, taken, turn, cut, mixed, lost, evictions>>

NextLine(th) ==
    /\ responding[th] # None
    /\ AssistantTurn(th, responding[th])
    /\ UNCHANGED cliVars

\* A partial-message line: it only makes the thread known.
StreamDelta(th) ==
    /\ th \notin overThreads
    /\ session = "live" => Record(Held, th) # Held
    /\ SessionEnsured
    /\ Becomes(Record(Ensured, th)) /\ pendingPrompt' = Pending
    /\ UNCHANGED cliVars

\* A Task call's result, or the notification that ends a background one, ends its thread; a
\* session that is idle by then may be woken by it, and starts a turn nobody asked for.
ThreadEnds(th) ==
    /\ th \in Tasks \ overThreads
    /\ SessionEnsured
    /\ Becomes([CloseChat(Ensured, th) EXCEPT !.threads = @ \ {th}, !.early[th] = None])
    /\ pendingPrompt' = Pending
    /\ overThreads' = overThreads \cup {th}
    /\ responding' = [responding EXCEPT ![th] = None]
    /\ \/ UNCHANGED <<turn, mixed>>
       \/ turn = None /\ turn' = OwnTurn /\ mixed' = mixed \cup QueuedPrompts
    /\ UNCHANGED <<mode, started, written, taken, askedBy, cut, lost, evictions, unasked>>

\* The main thread's turn ends in a result, answered or not.
SessionResult ==
    /\ turn # None
    /\ SessionEnsured
    /\ Becomes(CloseChat(Ensured, Main)) /\ pendingPrompt' = Pending
    /\ turn' = None
    /\ responding' = [responding EXCEPT ![Main] = None]
    /\ UNCHANGED <<mode, started, overThreads, written, taken, askedBy, cut, mixed, lost, evictions, unasked>>

\* The transport closes, or the adapter is torn down: a record that is still there is
\* finalized or retired, and every response it held ships.
CloseSession ==
    /\ session # "closed" /\ session' = "closed"
    /\ Becomes(CloseAllChats(Held))
    /\ UNCHANGED <<pendingPrompt, cliVars>>

(***************************************************************************)
(* Prompts: the host's write passes through the tee, then the CLI takes it *)
(* up and, where hooks are installed, reports it before it answers.  The   *)
(* host may write while a turn is running, one that it asked for or not.   *)
(***************************************************************************)
\* on_outbound: the tee saw the write, or (with hooks to fall back on) its line did not parse.
HostWrites(seen) ==
    LET p == written + 1
    IN /\ session # "closed" /\ p \in Prompts
       /\ written' = p
       /\ IF seen
          THEN /\ SessionEnsured /\ Becomes(Ensured)
               /\ pendingPrompt' = [source |-> "stream", prompt |-> p, hookSeen |-> FALSE]
          ELSE mode = "hooks" /\ UNCHANGED <<heldVars, pendingPrompt, session>>
       /\ mixed' = IF turn = None /\ QueuedPrompts = {} THEN mixed
                   ELSE mixed \cup {p} \cup QueuedPrompts \cup ({turn} \cap Prompts)
       /\ UNCHANGED <<mode, responding, started, overThreads, taken, turn, askedBy, cut, lost, evictions, unasked>>

\* _on_prompt_submit: corroborate an uncorroborated stream prompt, or stand in for a missed write.
OnPromptSubmit(p) ==
    IF pendingPrompt.source = "stream" /\ ~pendingPrompt.hookSeen
    THEN [pendingPrompt EXCEPT !.hookSeen = TRUE]
    ELSE [source |-> "hook", prompt |-> p, hookSeen |-> TRUE]

\* A hook begins no session: it is dropped, and retires one whose root is dead if it names it.
CliTakesPrompt ==
    LET p == taken + 1
    IN /\ session # "closed" /\ turn = None /\ p <= written
       /\ taken' = p
       /\ turn' = p
       /\ \/ /\ mode = "hooks" => session # "live"
             /\ UNCHANGED <<heldVars, pendingPrompt, session>>
          \/ mode = "hooks" /\ session = "dead" /\ RetireSession
          \/ /\ mode = "hooks" /\ session = "live"
             /\ pendingPrompt' = OnPromptSubmit(p)
             /\ UNCHANGED <<heldVars, session>>
       /\ lost' = IF session = "live" THEN lost ELSE lost \cup {p}
       /\ UNCHANGED <<mode, responding, started, overThreads, written, askedBy, cut, mixed, evictions, unasked>>

ChatInit ==
    /\ openChats = <<>> /\ evictedChats = <<>> /\ threads = {}
    /\ closedEarly = [th \in AllThreads |-> None]
    /\ forgot = FALSE
    /\ pendingPrompt = NoPrompt
    /\ clean = [r \in Responses |-> 0]
    /\ marked = {}
    /\ mode \in {"hooks", "stream"}
    /\ responding = [th \in AllThreads |-> None]
    /\ started = 0 /\ overThreads = {} /\ written = 0 /\ taken = 0 /\ turn = None
    /\ askedBy = [r \in Responses |-> None]
    /\ session = "live"
    /\ cut = [r \in Responses |-> 0] /\ mixed = {} /\ lost = {} /\ unasked = {} /\ evictions = 0

ChatNext ==
    \/ \E th \in AllThreads : FirstLine(th) \/ NextLine(th) \/ StreamDelta(th)
    \/ \E th \in Tasks : ThreadEnds(th)
    \/ SessionResult
    \/ CloseSession
    \/ RootEvicted \/ MakeRoom
    \/ \E seen \in BOOLEAN : HostWrites(seen)
    \/ CliTakesPrompt

(***************************************************************************)
(* Properties                                                              *)
(***************************************************************************)
\* A response with an id is one clean span, or every span of it carries the bound's mark: its
\* tokens are never counted twice unmarked, whatever the bound evicted and forgot on the way
\* (_OpenChat, _Thread.closed_early, may_repeat).  What it cannot outlive is its session: each
\* time that was put out while the response was being sent, one more span may price it, and
\* no more than one.
PricedOnce ==
    \A r \in Responses \ Nameless :
        LET held == SelectSeq(openChats, LAMBDA c : c.resp = r)
            unmarked == Len(SelectSeq(held, LAMBDA c : ~c.repeat))
        IN /\ clean[r] + Len(held) <= 1 + cut[r]
           /\ r \in marked => clean[r] + unmarked <= cut[r]

\* Every response that sent a line has a span, shipped or still held, and after the session is
\* closed a shipped one: the bound closes the oldest early and never drops it (_emit_chat).
ResponsesShip ==
    \A r \in 1 .. started :
        \/ clean[r] > 0 \/ r \in marked
        \/ session # "closed" /\ \E i \in DOMAIN openChats : openChats[i].resp = r

\* The prompt on a chat span is the one its turn answers, and only the turn's first response
\* carries it, whether the stream, the hook or both reported it (_on_prompt_submit, _open_chat).
\* Nothing in the stream says which turn a prompt belongs to: one that was written beside
\* another, or that waited out a turn, may be taken by another turn's response, and a turn the
\* CLI started by itself takes whatever pends.
PromptIsOwn ==
    \A i \in DOMAIN openChats :
        LET c == openChats[i]
        IN c.input \in {None, askedBy[c.resp]} \cup mixed \/ c.resp \in unasked

\* With hooks or a complete stream, a turn's first response does carry its prompt, unless the
\* prompt pended beside another's, or while the session was put out.
PromptIsKept ==
    \A i \in DOMAIN openChats :
        LET c == openChats[i]
            p == askedBy[c.resp]
        IN p \in Prompts \ (mixed \cup lost) /\ c.resp \notin Nameless \cup marked /\ cut[c.resp] = 0
             => c.input = p

\* Under a table too small for its responses: each is shipped and priced once, with the
\* prompt it answered, but for what a session put out, a queued prompt or a turn nobody
\* asked for can do to it.
ChatsAccounted ==
    /\ PricedOnce
    /\ ResponsesShip
    /\ PromptIsOwn
    /\ PromptIsKept

=============================================================================
