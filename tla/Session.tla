------------------------------ MODULE Session ------------------------------
(***************************************************************************)
(* The connections of one account to the interactive shell                 *)
(* (moo/shell/prompt.py and the session half of moo/shell/server.py).      *)
(* `embed` runs two coroutines for a connection: process_commands sets the *)
(* session up, reads lines, runs the editor, pager, input prompt or window *)
(* a verb asked for, and tears the session down; process_messages drains   *)
(* what Celery tasks published for the account.  Every call wrapped in     *)
(* sync_to_async runs on the one worker thread of the server process, so   *)
(* all connections share the FIFO `thread`.  A coroutine that is cancelled *)
(* drops a call that has not started; a started one still takes effect.    *)
(***************************************************************************)
EXTENDS Naturals, Sequences, FiniteSets, SequencesExt

CONSTANTS Session,   \* connections, numbered in the order they come
          Setups     \* the situations of an instance, see SetupType

Nobody == 0

ASSUME SessionAssumption == IsFiniteSet(Session) /\ Session = 1..Cardinality(Session)

\* What a task can publish for a player (moo/sdk/output.py).
Request == {"editor", "paginator", "input", "window_open"}

Kind == Request \cup {"text", "setting", "disconnect", "window_close"}

(***************************************************************************)
(* mode: rich or raw; mud: the client speaks telnet options; kinds: what   *)
(* the tasks publish; flush: .flush is typed; slow: the 8 s waits can run  *)
(* out; overlap: a connection may begin before the last is over; faults:   *)
(* setup calls can raise; crash: the server process can die.  The numbers  *)
(* bound the connections, messages and typed lines.                        *)
(***************************************************************************)
SetupType ==
    [mode : {"rich", "raw"}, mud : BOOLEAN, kinds : SUBSET Kind, flush : BOOLEAN,
     slow : BOOLEAN, overlap : BOOLEAN, faults : BOOLEAN, crash : BOOLEAN,
     sessions : Session, messages : Nat, lines : Nat]

ASSUME SetupsAssumption == Setups \subseteq SetupType

VARIABLES setup,      \* the situation, chosen once
          hungUp,     \* the connections whose SSH channel is closing
          embed,      \* embed[s]: how far interact/embed has come
          commands,   \* commands[s]: process_commands, or the call it awaits
          messages,   \* messages[s]: process_messages, likewise
          thread,     \* calls queued on the worker thread, the running one first
          log,        \* log[i]: the i-th message published, and in which connection
          held,       \* messages in the account's queue, no consumer yet
          consumers,  \* connections whose session buffer is open
          inbox,      \* inbox[s]: delivered to s's buffer, not drained
          batch,      \* batch[s]: drained by process_messages, not handled
          burst,      \* burst[s]: _pending_connect_output
          shown,      \* shown[s]: texts on the screen, in order
          drained,    \* connections with startup_drain_complete set
          ready,      \* connections with prompt_app_ready set
          exiting,    \* connections with is_exiting and disconnect_event set
          queue,      \* queue[s][k]: the asyncio queues
          current,    \* current[s]: the request being handled, or 0
          want,       \* want[s]: the event a command announced, or "none"
          window,     \* window[s]: the window Application
          local,      \* _session_settings[user]: by whom set
          mirror,     \* the same keys in the Django cache
          connected,  \* moo:connected
          told,       \* told[s]: telnet answers the client has given
          invoked,    \* invoked[i]: callbacks run for message i
          typed       \* lines typed so far

broker == <<log, held, consumers, inbox>>
screen == <<batch, burst, shown>>
flags == <<drained, ready, exiting>>
requests == <<queue, current, want, window, invoked>>
shared == <<local, mirror, connected>>
client == <<setup, hungUp, told, typed>>
tasks == <<embed, commands, messages>>

vars == <<client, tasks, thread, broker, screen, flags, requests, shared>>

-----------------------------------------------------------------------------
\* Settings, shared by all connections of the account.

NoSettings == [mode |-> Nobody, quiet |-> Nobody, iac |-> {}, edits |-> {}]

\* The keys that are copied to the cache.
NoCopies == [mode |-> Nobody, quiet |-> Nobody, iac |-> {}]

IsRaw == setup.mode = "raw" /\ local.mode # Nobody

-----------------------------------------------------------------------------
\* The worker thread.

Call(s, c) == [session |-> s, call |-> c]

Calls(s, c) == thread # <<>> /\ Head(thread) = Call(s, c)

\* The call at the head returns; the coroutine that awaited it, if any still
\* does, resumes at `next` and submits `more`.
Return(pc, s, c, more) ==
    IF pc[s] = c THEN thread' = Tail(thread) \o more
                 ELSE thread' = Tail(thread)

Resumed(pc, s, c, next) == IF pc[s] = c THEN [pc EXCEPT ![s] = next] ELSE pc

\* Cancelling s's coroutine withdraws its calls; one that has started runs on.
Withdrawn(s, cs) ==
    LET mine(c) == c.session = s /\ c.call \in cs
    IN  {SelectSeq(thread, LAMBDA c : ~ mine(c))} \cup
        (IF thread # <<>> /\ mine(Head(thread))
         THEN {<<Head(thread)>> \o SelectSeq(Tail(thread), LAMBDA c : ~ mine(c))}
         ELSE {})

-----------------------------------------------------------------------------
\* Publishing (_publish_to_player): to one of the account's consumers, or kept
\* in the queue the producer declares.

Deliver(m) ==
    \/ /\ consumers = {}
       /\ held' = Append(held, m)
       /\ UNCHANGED inbox
    \/ \E s \in consumers :
          /\ inbox' = [inbox EXCEPT ![s] = Append(@, m)]
          /\ UNCHANGED held

Newest == CHOOSE s \in Session \cup {Nobody} :
             /\ s = Nobody \/ embed[s] # "off"
             /\ \A r \in Session : embed[r] # "off" => r <= s

\* Mutant of Publish: what the task published is not recorded for its callback.
PublishUnrecorded(kind) ==
    /\ kind \in setup.kinds
    /\ Len(log) < setup.messages
    /\ log' = Append(log, [kind |-> kind, by |-> Newest])
    /\ UNCHANGED <<invoked, consumers>>
    /\ Deliver(Len(log) + 1)

Publish(kind) ==
    /\ kind \in setup.kinds
    /\ Len(log) < setup.messages
    /\ log' = Append(log, [kind |-> kind, by |-> Newest])
    /\ invoked' = Append(invoked, 0)
    /\ Deliver(Len(log) + 1)
    /\ UNCHANGED consumers

Elsewhere == UNCHANGED <<client, tasks, thread, screen, flags, queue, current, want, window>>

Write == Publish("text") /\ Elsewhere /\ UNCHANGED shared

OpenEditor == Publish("editor") /\ Elsewhere /\ UNCHANGED shared

OpenPaginator == Publish("paginator") /\ Elsewhere /\ UNCHANGED shared

OpenInput == Publish("input") /\ Elsewhere /\ UNCHANGED shared

OpenWindow == Publish("window_open") /\ Elsewhere /\ UNCHANGED shared

CloseWindow == Publish("window_close") /\ Elsewhere /\ UNCHANGED shared

BootPlayer == Publish("disconnect") /\ Elsewhere /\ UNCHANGED shared

\* The cache at once, the dictionary of the server once it drains the message.
SetSessionSetting ==
    /\ Publish("setting")
    /\ mirror' = [mirror EXCEPT !.quiet = Newest]
    /\ Elsewhere
    /\ UNCHANGED <<local, connected>>

Publishers ==
    \/ Write \/ OpenEditor \/ OpenPaginator \/ OpenInput
    \/ OpenWindow \/ CloseWindow \/ BootPlayer \/ SetSessionSetting

-----------------------------------------------------------------------------
\* Draining: _drain_session_buffer, then _route_event for what is not a text.

Of(k, ms) == SelectSeq(ms, LAMBDA i : log[i].kind = k)

Has(k, ms) == Of(k, ms) # <<>>

Taken(s) == inbox' = [inbox EXCEPT ![s] = <<>>]

\* session_setting messages are applied as they are drained.
Settled(ms) ==
    LET set == Of("setting", ms)
    IN  IF set = <<>> THEN local ELSE [local EXCEPT !.quiet = log[Last(set)].by]

\* The GMCP handoff of an editor request, when the client offers "Editor".
HandsOff == "packages" \in local.iac

\* What of ms goes to queue k: nothing while a window is open; in raw mode
\* pages are written out and windows ignored.
Enqueued(s, k, ms) ==
    IF \/ window[s] # "none"
       \/ k = "editor" /\ HandsOff
       \/ k \in {"paginator", "window_open"} /\ IsRaw
    THEN <<>> ELSE Of(k, ms)

RouteWindowEvent(s, ms) ==
    window' = IF window[s] = "open" /\ Has("window_close", ms) /\ ~ IsRaw
              THEN [window EXCEPT ![s] = "closing"] ELSE window

\* _route_event for each event of ms.
RouteEvents(s, ms, settings) ==
    /\ queue' = [queue EXCEPT ![s] = [k \in Request |-> @[k] \o Enqueued(s, k, ms)]]
    /\ RouteWindowEvent(s, ms)
    /\ local' = IF HandsOff /\ window[s] = "none"
                THEN [settings EXCEPT !.edits = @ \cup ToSet(Of("editor", ms))]
                ELSE settings
    /\ UNCHANGED <<current, invoked, mirror, connected>>

\* The `disconnect` arm in front of it.
HearDisconnect(s, ms) ==
    exiting' = IF Has("disconnect", ms) THEN exiting \cup {s} ELSE exiting

-----------------------------------------------------------------------------
\* A connection begins.

\* session_started: a client without telnet options has the cached ones cleared.
SessionStarted(s) ==
    /\ embed[s] = "off"
    /\ s <= setup.sessions
    /\ \A r \in Session : r < s => IF setup.overlap THEN embed[r] # "off" ELSE embed[r] = "over"
    /\ embed' = [embed EXCEPT ![s] = "picking"]
    /\ IF setup.mud THEN UNCHANGED <<local, mirror>>
                    ELSE /\ local' = [local EXCEPT !.iac = {}]
                         /\ mirror' = [mirror EXCEPT !.iac = {}]
    /\ UNCHANGED <<client, commands, messages, thread, broker, screen, flags, requests, connected>>

Live(s) == embed[s] \in {"picking", "running", "gather", "close_again"} /\ s \notin hungUp

\* The client's answers in turn: an option accepted, its GMCP packages, its
\* terminal type.  data_received copies the negotiator's flags ...
MirrorCapabilities(s) ==
    /\ setup.mud /\ Live(s)
    /\ told[s] \in {0, 2}
    /\ told' = [told EXCEPT ![s] = @ + 1]
    /\ LET caps == {"flags"} \cup (local.iac \cap {"packages"})
       IN  /\ local' = [local EXCEPT !.iac = caps]
           /\ mirror' = [mirror EXCEPT !.iac = caps]
    /\ UNCHANGED <<setup, hungUp, typed, tasks, thread, broker, screen, flags, requests, connected>>

\* ... and records the packages in the settings' own record.
RecordGmcpSupports(s) ==
    /\ setup.mud /\ Live(s)
    /\ told[s] = 1
    /\ told' = [told EXCEPT ![s] = 2]
    /\ LET caps == local.iac \cup {"packages"}
       IN  /\ local' = [local EXCEPT !.iac = caps]
           /\ mirror' = [mirror EXCEPT !.iac = caps]
    /\ UNCHANGED <<setup, hungUp, typed, tasks, thread, broker, screen, flags, requests, connected>>

\* interact: no universe, or the user leaves the picker.
PickNothing(s) ==
    /\ embed[s] = "picking"
    /\ embed' = [embed EXCEPT ![s] = "over"]
    /\ UNCHANGED <<client, commands, messages, thread, broker, screen, flags, requests, shared>>

\* embed starts the coroutines; process_commands runs up to the first await of
\* _repl_setup.
Embed(s) ==
    /\ embed[s] = "picking"
    /\ embed' = [embed EXCEPT ![s] = "running"]
    /\ commands' = [commands EXCEPT ![s] = "mark_connected"]
    /\ messages' = [messages EXCEPT ![s] = "waiting"]
    /\ thread' = Append(thread, Call(s, "mark_connected"))
    /\ local' = [NoSettings EXCEPT !.mode = s]
    /\ mirror' = [mirror EXCEPT !.mode = s]
    /\ UNCHANGED <<client, broker, screen, flags, requests, connected>>

-----------------------------------------------------------------------------
\* process_commands: _repl_setup.

MarkConnected(s) ==
    /\ Calls(s, "mark_connected")
    /\ connected' = TRUE
    /\ Return(commands, s, "mark_connected", <<Call(s, "open_buffer")>>)
    /\ commands' = Resumed(commands, s, "mark_connected", "open_buffer")
    /\ UNCHANGED <<client, embed, messages, broker, screen, flags, requests, local, mirror>>

\* The queue's backlog goes to its first consumer.
OpenSessionBuffer(s) ==
    /\ Calls(s, "open_buffer")
    /\ consumers' = consumers \cup {s}
    /\ inbox' = [inbox EXCEPT ![s] = @ \o held]
    /\ held' = <<>>
    /\ Return(commands, s, "open_buffer", <<Call(s, "fire_confunc")>>)
    /\ commands' = Resumed(commands, s, "open_buffer", "fire_confunc")
    /\ UNCHANGED <<client, embed, messages, log, screen, flags, requests, shared>>

FireConfunc(s) ==
    /\ Calls(s, "fire_confunc")
    /\ Return(commands, s, "fire_confunc", <<Call(s, "await_tasks")>>)
    /\ commands' = Resumed(commands, s, "fire_confunc", "await_tasks")
    /\ UNCHANGED <<client, embed, messages, broker, screen, flags, requests, shared>>

AwaitTasks(s) ==
    /\ Calls(s, "await_tasks")
    /\ Return(commands, s, "await_tasks", <<Call(s, "startup_drain")>>)
    /\ commands' = Resumed(commands, s, "await_tasks", "startup_drain")
    /\ UNCHANGED <<client, embed, messages, broker, screen, flags, requests, shared>>

\* A call of the setup raises (no broker, no avatar): outside of the try block,
\* so nothing is torn down here.
SetupRaises(s) ==
    /\ setup.faults
    /\ \E c \in {"open_buffer", "fire_confunc"} : Calls(s, c) /\ commands[s] = c
    /\ thread' = Tail(thread)
    /\ commands' = [commands EXCEPT ![s] = "done"]
    /\ UNCHANGED <<client, embed, messages, broker, screen, flags, requests, shared>>

StartupDrain(s) ==
    /\ Calls(s, "startup_drain")
    /\ Taken(s)
    /\ Return(commands, s, "startup_drain", <<>>)
    /\ commands' = Resumed(commands, s, "startup_drain", "startup_pause")
    /\ IF commands[s] = "startup_drain"
       THEN /\ burst' = [burst EXCEPT ![s] = @ \o Of("text", inbox[s])]
            /\ RouteEvents(s, inbox[s], Settled(inbox[s]))
            /\ HearDisconnect(s, inbox[s])
       ELSE /\ local' = Settled(inbox[s])
            /\ UNCHANGED <<burst, queue, current, invoked, window, exiting, mirror, connected>>
    /\ UNCHANGED <<client, embed, messages, log, held, consumers, batch, shown,
                   drained, ready, want>>

StartupAgain(s) ==
    /\ commands[s] = "startup_pause"
    /\ inbox[s] # <<>>
    /\ commands' = [commands EXCEPT ![s] = "startup_drain"]
    /\ thread' = Append(thread, Call(s, "startup_drain"))
    /\ UNCHANGED <<client, embed, messages, broker, screen, flags, requests, shared>>

\* The head of the loop, `while not self.is_exiting`; the finally block behind
\* it starts _repl_teardown.
Turn(s) == IF s \in exiting THEN "fire_disfunc" ELSE "prompt"

TurnCalls(s) == IF s \in exiting THEN <<Call(s, "fire_disfunc")>> ELSE <<>>

NextTurn(s) ==
    /\ commands' = [commands EXCEPT ![s] = Turn(s)]
    /\ thread' = thread \o TurnCalls(s)

\* Three empty passes or the 2 s deadline.  Raw mode writes the burst at once.
StartupDone(s) ==
    /\ commands[s] = "startup_pause"
    /\ drained' = drained \cup {s}
    /\ IF setup.mode = "raw"
       THEN /\ shown' = [shown EXCEPT ![s] = @ \o burst[s]]
            /\ burst' = [burst EXCEPT ![s] = <<>>]
            /\ ready' = ready \cup {s}
       ELSE UNCHANGED <<shown, burst, ready>>
    /\ NextTurn(s)
    /\ UNCHANGED <<client, embed, messages, broker, batch, exiting, requests, shared>>

-----------------------------------------------------------------------------
\* process_commands: the loop.

\* pre_run of the prompt application, the first thing its task does: the burst
\* goes out before anything else can happen at the prompt.
PreRun(s) ==
    /\ commands[s] = "prompt"
    /\ s \notin ready
    /\ shown' = [shown EXCEPT ![s] = @ \o burst[s]]
    /\ burst' = [burst EXCEPT ![s] = <<>>]
    /\ ready' = ready \cup {s}
    /\ UNCHANGED <<client, tasks, thread, broker, batch, drained, exiting, requests, shared>>

Got(s) == {k \in Request : queue[s][k] # <<>>}

\* asyncio.wait returned: every getter that has completed took its item, and
\* only the first by priority is looked at; the items of the others are gone.
Race(s) ==
    LET got == Got(s)
        first == IF "editor" \in got THEN "editor"
                 ELSE IF "paginator" \in got THEN "paginator"
                 ELSE IF "input" \in got THEN "input" ELSE "window_open"
    IN  /\ commands[s] = "prompt"
        /\ s \in ready /\ s \notin exiting
        /\ got # {}
        /\ queue' = [queue EXCEPT ![s] = [k \in Request |-> IF k \in got THEN Tail(@[k]) ELSE @[k]]]
        /\ IF setup.mode = "raw" /\ first \in {"editor", "paginator"}
           THEN UNCHANGED <<commands, current, window>>  \* refused; dumped
           ELSE /\ commands' = [commands EXCEPT ![s] = first]
                /\ current' = [current EXCEPT ![s] = Head(queue[s][first])]
                /\ window' = IF first = "window_open" THEN [window EXCEPT ![s] = "open"] ELSE window
        /\ UNCHANGED <<client, embed, messages, thread, broker, screen, flags, want, invoked, shared>>

\* The disconnect event is set, or the prompt returns ^D or the end of input.
Leave(s) ==
    /\ commands[s] = "prompt"
    /\ s \in ready
    /\ exiting' = exiting \cup {s}
    /\ commands' = [commands EXCEPT ![s] = "fire_disfunc"]
    /\ thread' = Append(thread, Call(s, "fire_disfunc"))
    /\ UNCHANGED <<client, embed, messages, broker, screen, drained, ready, requests, shared>>

Disconnected(s) == s \in exiting /\ Leave(s)

ReadLine(s, call) ==
    /\ commands[s] = "prompt"
    /\ s \in ready /\ s \notin exiting /\ s \notin hungUp
    /\ Got(s) = {}
    /\ typed < setup.lines
    /\ typed' = typed + 1
    /\ commands' = [commands EXCEPT ![s] = call]
    /\ thread' = Append(thread, Call(s, call))
    /\ UNCHANGED <<setup, hungUp, told, embed, messages, broker, screen, flags, requests, shared>>

TypeCommand(s) == ReadLine(s, "command")

TypeFlush(s) == setup.flush /\ ReadLine(s, "flush")

\* handle_command: the verb may ask for an editor, pager or input prompt, which
\* the task's list of published events announces.
HandleCommand(s) ==
    /\ Calls(s, "command")
    /\ LET after == IF setup.mode = "raw" THEN "async_drain" ELSE Turn(s)
           calls == IF setup.mode = "raw" THEN <<Call(s, "async_drain")>> ELSE TurnCalls(s)
       IN  \/ /\ Return(commands, s, "command", calls)
              /\ commands' = Resumed(commands, s, "command", after)
              /\ UNCHANGED <<broker, invoked, want>>
           \/ \E k \in Request \ {"window_open"} :
                 /\ Publish(k)
                 /\ Return(commands, s, "command", <<>>)
                 /\ commands' = Resumed(commands, s, "command", "pending")
                 /\ want' = IF commands[s] = "command" THEN [want EXCEPT ![s] = k] ELSE want
    /\ UNCHANGED <<client, embed, messages, screen, flags, queue, current, window, shared>>

\* A lookup raises (no avatar, the caller of a request is gone): logged, and the
\* finally block behind the loop tears the session down.
CommandRaises(s) ==
    /\ setup.faults
    /\ \/ Calls(s, "command") /\ commands[s] = "command"
          /\ thread' = Append(Tail(thread), Call(s, "fire_disfunc"))
       \/ commands[s] \in {"editor", "input"}
          /\ thread' = Append(thread, Call(s, "fire_disfunc"))
    /\ commands' = [commands EXCEPT ![s] = "fire_disfunc"]
    /\ current' = [current EXCEPT ![s] = 0]
    /\ exiting' = exiting \cup {s}
    /\ UNCHANGED <<client, embed, messages, broker, screen, drained, ready, queue, want, window,
                   invoked, shared>>

\* _dispatch_pending_event, and in raw mode the drain after it.
AfterCommand(s) ==
    /\ want' = [want EXCEPT ![s] = "none"]
    /\ IF setup.mode = "raw" /\ want[s] # "none"
       THEN /\ commands' = [commands EXCEPT ![s] = "async_drain"]
            /\ thread' = Append(thread, Call(s, "async_drain"))
       ELSE NextTurn(s)

\* Mutant of DispatchPending: the request stays in its queue.
DispatchPendingByPeek(s) ==
    /\ commands[s] = "pending"
    /\ queue[s][want[s]] # <<>>
    /\ commands' = [commands EXCEPT ![s] = want[s]]
    /\ current' = [current EXCEPT ![s] = Head(queue[s][want[s]])]
    /\ UNCHANGED <<client, embed, messages, thread, broker, screen, flags, queue, want,
                   window, invoked, shared>>

DispatchPending(s) ==
    /\ commands[s] = "pending"
    /\ queue[s][want[s]] # <<>>
    /\ commands' = [commands EXCEPT ![s] = want[s]]
    /\ current' = [current EXCEPT ![s] = Head(queue[s][want[s]])]
    /\ queue' = [queue EXCEPT ![s][want[s]] = Tail(@)]
    /\ UNCHANGED <<client, embed, messages, thread, broker, screen, flags, want,
                   window, invoked, shared>>

\* The event did not arrive within 2 s.
PendingTimesOut(s) ==
    /\ commands[s] = "pending"
    /\ AfterCommand(s)
    /\ UNCHANGED <<client, embed, messages, broker, screen, flags, queue, current,
                   window, invoked, shared>>

Flush(s) ==
    /\ Calls(s, "flush")
    /\ Taken(s)
    /\ Return(commands, s, "flush", TurnCalls(s))
    /\ commands' = Resumed(commands, s, "flush", Turn(s))
    /\ IF commands[s] = "flush"
       THEN /\ shown' = [shown EXCEPT ![s] = @ \o Of("text", inbox[s])]
            /\ RouteEvents(s, inbox[s], Settled(inbox[s]))
       ELSE /\ local' = Settled(inbox[s])
            /\ UNCHANGED <<shown, queue, current, invoked, window, mirror, connected>>
    /\ UNCHANGED <<client, embed, messages, log, held, consumers, batch, burst,
                   flags, want>>

DrainAsyncTellOutput(s) ==
    /\ Calls(s, "async_drain")
    /\ Taken(s)
    /\ Return(commands, s, "async_drain", <<>>)
    /\ commands' = Resumed(commands, s, "async_drain", "async_pause")
    /\ IF commands[s] = "async_drain"
       THEN /\ shown' = [shown EXCEPT ![s] = @ \o Of("text", inbox[s])]
            /\ RouteEvents(s, inbox[s], Settled(inbox[s]))
            /\ HearDisconnect(s, inbox[s])
       ELSE /\ local' = Settled(inbox[s])
            /\ UNCHANGED <<shown, queue, current, invoked, window, exiting, mirror, connected>>
    /\ UNCHANGED <<client, embed, messages, log, held, consumers, batch, burst,
                   drained, ready, want>>

\* Two empty passes or the 0.15 s deadline.
AsyncPause(s) ==
    /\ commands[s] = "async_pause"
    /\ \/ /\ inbox[s] # <<>>
          /\ commands' = [commands EXCEPT ![s] = "async_drain"]
          /\ thread' = Append(thread, Call(s, "async_drain"))
       \/ NextTurn(s)
    /\ UNCHANGED <<client, embed, messages, broker, screen, flags, requests, shared>>

-----------------------------------------------------------------------------
\* process_commands: what a verb asked for.

\* The caller of the request is still a wizard, or is not.
Invoke(s) ==
    \/ invoked' = [invoked EXCEPT ![current[s]] = @ + 1]
    \/ UNCHANGED invoked

\* run_editor_session: saved with the callback, or cancelled.
EditorSession(s) ==
    /\ commands[s] = "editor"
    /\ Invoke(s)
    /\ current' = [current EXCEPT ![s] = 0]
    /\ AfterCommand(s)
    /\ UNCHANGED <<client, embed, messages, broker, screen, flags, queue, window, shared>>

PaginatorSession(s) ==
    /\ commands[s] = "paginator"
    /\ current' = [current EXCEPT ![s] = 0]
    /\ AfterCommand(s)
    /\ UNCHANGED <<client, embed, messages, broker, screen, flags, queue, window, invoked, shared>>

\* run_input_session: an answer invokes the callback and waits 2 s for a further
\* prompt; ^C, ^D or a demoted caller return.
InputSession(s) ==
    /\ commands[s] = "input"
    /\ current' = [current EXCEPT ![s] = 0]
    /\ \/ /\ invoked' = [invoked EXCEPT ![current[s]] = @ + 1]
          /\ commands' = [commands EXCEPT ![s] = "input_more"]
          /\ UNCHANGED <<thread, want>>
       \/ AfterCommand(s) /\ UNCHANGED invoked
    /\ UNCHANGED <<client, embed, messages, broker, screen, flags, queue, window, shared>>

InputMore(s) ==
    /\ commands[s] = "input_more"
    /\ \/ /\ queue[s]["input"] # <<>>
          /\ commands' = [commands EXCEPT ![s] = "input"]
          /\ current' = [current EXCEPT ![s] = Head(queue[s]["input"])]
          /\ queue' = [queue EXCEPT ![s]["input"] = Tail(@)]
          /\ UNCHANGED <<thread, want>>
       \/ /\ AfterCommand(s)
          /\ UNCHANGED <<current, queue>>
    /\ UNCHANGED <<client, embed, messages, broker, screen, flags, window, invoked, shared>>

\* A line typed into the window: its command runs, its events go unannounced.
WindowLine(s) ==
    /\ window[s] = "open"
    /\ typed < setup.lines
    /\ typed' = typed + 1
    /\ thread' = Append(thread, Call(s, "window_line"))
    /\ UNCHANGED <<setup, hungUp, told, tasks, broker, screen, flags, requests, shared>>

HandleWindowLine(s) ==
    /\ Calls(s, "window_line")
    /\ thread' = Tail(thread)
    /\ \/ UNCHANGED <<broker, invoked>>
       \/ \E k \in Request : Publish(k)
    /\ UNCHANGED <<client, tasks, screen, flags, queue, current, want, window, shared>>

\* run_window_session ends, for ^D with the session.  The application cancels
\* the lines still at work.
EndWindowSession(s, eof) ==
    /\ commands[s] = "window_open"
    /\ exiting' = IF eof THEN exiting \cup {s} ELSE exiting
    /\ \E rest \in Withdrawn(s, {"window_line"}) :
          IF eof \/ s \in exiting
          THEN /\ commands' = [commands EXCEPT ![s] = "fire_disfunc"]
               /\ thread' = Append(rest, Call(s, "fire_disfunc"))
          ELSE /\ commands' = [commands EXCEPT ![s] = "prompt"]
               /\ thread' = rest
    /\ Invoke(s)
    /\ window' = [window EXCEPT ![s] = "none"]
    /\ current' = [current EXCEPT ![s] = 0]
    /\ UNCHANGED <<client, embed, messages, broker, screen, drained, ready, queue, want, shared>>

\* By a window_close, or the watcher of the disconnect event.
WindowCloses(s) == (window[s] = "closing" \/ s \in exiting) /\ EndWindowSession(s, FALSE)

\* By the close key, or ^D.
LeaveWindow(s) == \E eof \in BOOLEAN : EndWindowSession(s, eof)

-----------------------------------------------------------------------------
\* process_commands: _repl_teardown.

FireDisfunc(s) ==
    /\ Calls(s, "fire_disfunc")
    /\ Return(commands, s, "fire_disfunc", <<Call(s, "mark_disconnected")>>)
    /\ commands' = Resumed(commands, s, "fire_disfunc", "mark_disconnected")
    /\ UNCHANGED <<client, embed, messages, broker, screen, flags, requests, shared>>

\* The avatar is gone: the rest of the teardown is skipped.
TeardownRaises(s) ==
    /\ setup.faults
    /\ Calls(s, "fire_disfunc") /\ commands[s] = "fire_disfunc"
    /\ thread' = Tail(thread)
    /\ commands' = [commands EXCEPT ![s] = "done"]
    /\ UNCHANGED <<client, embed, messages, broker, screen, flags, requests, shared>>

\* When it returns, the settings and their copies in the cache are dropped.
MarkDisconnected(s) ==
    /\ Calls(s, "mark_disconnected")
    /\ connected' = FALSE
    /\ Return(commands, s, "mark_disconnected", <<Call(s, "close_buffer")>>)
    /\ commands' = Resumed(commands, s, "mark_disconnected", "close_buffer")
    /\ IF commands[s] = "mark_disconnected"
       THEN local' = NoSettings /\ mirror' = NoCopies
       ELSE UNCHANGED <<local, mirror>>
    /\ UNCHANGED <<client, embed, messages, broker, screen, flags, requests>>

\* Messages delivered to the consumer go with it.
CloseConsumer(s) ==
    /\ consumers' = consumers \ {s}
    /\ inbox' = [inbox EXCEPT ![s] = <<>>]
    /\ UNCHANGED <<log, held>>

CloseSessionBuffer(s) ==
    /\ Calls(s, "close_buffer")
    /\ CloseConsumer(s)
    /\ Return(commands, s, "close_buffer", <<>>)
    /\ commands' = Resumed(commands, s, "close_buffer", "done")
    /\ UNCHANGED <<client, embed, messages, screen, flags, requests, shared>>

-----------------------------------------------------------------------------
\* process_messages.

\* Mutant of StartMessages: the loop starts at once.
StartMessagesAtOnce(s) ==
    /\ messages[s] = "waiting"
    /\ messages' = [messages EXCEPT ![s] = "poll"]
    /\ UNCHANGED <<client, embed, commands, thread, broker, screen, flags, requests, shared>>

\* The startup is over and the prompt is up, or 8 s have passed for each.
StartMessages(s) ==
    /\ messages[s] = "waiting"
    /\ (s \in drained /\ s \in ready) \/ setup.slow
    /\ messages' = [messages EXCEPT ![s] = "poll"]
    /\ UNCHANGED <<client, embed, commands, thread, broker, screen, flags, requests, shared>>

\* Mutant of StopMessages: the channel is not polled.
StopMessagesWhenTold(s) ==
    /\ messages[s] = "poll"
    /\ s \in exiting
    /\ messages' = [messages EXCEPT ![s] = "done"]
    /\ UNCHANGED <<client, embed, commands, thread, broker, screen, flags, requests, shared>>

\* is_exiting, or the channel is closing.
StopMessages(s) ==
    /\ messages[s] = "poll"
    /\ s \in exiting \cup hungUp
    /\ messages' = [messages EXCEPT ![s] = "done"]
    /\ exiting' = exiting \cup {s}
    /\ UNCHANGED <<client, embed, commands, thread, broker, screen, drained, ready,
                   requests, shared>>

\* A poll that finds nothing changes nothing; a burst is coalesced.
DrainAgain(s) ==
    /\ \/ messages[s] = "poll" /\ s \notin exiting \cup hungUp
       \/ messages[s] = "coalesce"
    /\ inbox[s] # <<>>
    /\ messages' = [messages EXCEPT ![s] = "drain"]
    /\ thread' = Append(thread, Call(s, "drain"))
    /\ UNCHANGED <<client, embed, commands, broker, screen, flags, requests, shared>>

\* Mutant of DrainSessionBuffer: a further drain replaces what was drained.
DrainSessionBufferAfresh(s) ==
    /\ Calls(s, "drain")
    /\ Taken(s)
    /\ local' = Settled(inbox[s])
    /\ Return(messages, s, "drain", <<>>)
    /\ messages' = Resumed(messages, s, "drain", "coalesce")
    /\ batch' = IF messages[s] = "drain" THEN [batch EXCEPT ![s] = inbox[s]] ELSE batch
    /\ UNCHANGED <<client, embed, commands, log, held, consumers, burst, shown, flags,
                   requests, mirror, connected>>

DrainSessionBuffer(s) ==
    /\ Calls(s, "drain")
    /\ Taken(s)
    /\ local' = Settled(inbox[s])
    /\ Return(messages, s, "drain", <<>>)
    /\ messages' = Resumed(messages, s, "drain", "coalesce")
    /\ batch' = IF messages[s] = "drain" THEN [batch EXCEPT ![s] = @ \o inbox[s]] ELSE batch
    /\ UNCHANGED <<client, embed, commands, log, held, consumers, burst, shown, flags,
                   requests, mirror, connected>>

\* The events are routed; the texts go to the open window or the raw channel at
\* once, and wait for run_in_terminal otherwise.
RouteBatch(s) ==
    /\ messages[s] = "coalesce"
    /\ RouteEvents(s, batch[s], local)
    /\ HearDisconnect(s, batch[s])
    /\ LET texts == Of("text", batch[s])
       IN  IF window[s] # "none" \/ IsRaw \/ texts = <<>>
           THEN /\ shown' = [shown EXCEPT ![s] = @ \o texts]
                /\ batch' = [batch EXCEPT ![s] = <<>>]
                /\ messages' = [messages EXCEPT ![s] = "poll"]
           ELSE /\ batch' = [batch EXCEPT ![s] = texts]
                /\ messages' = [messages EXCEPT ![s] = "write"]
                /\ UNCHANGED shown
    /\ UNCHANGED <<client, embed, commands, thread, broker, burst, drained, ready, want>>

WriteBatch(s) ==
    /\ messages[s] = "write"
    /\ shown' = [shown EXCEPT ![s] = @ \o batch[s]]
    /\ batch' = [batch EXCEPT ![s] = <<>>]
    /\ messages' = [messages EXCEPT ![s] = "poll"]
    /\ UNCHANGED <<client, embed, commands, thread, broker, burst, flags, requests, shared>>

-----------------------------------------------------------------------------
\* embed: the first coroutine to end takes the other with it.

Setup == {"mark_connected", "open_buffer", "fire_confunc", "await_tasks",
          "startup_drain", "startup_pause"}

Teardown == {"fire_disfunc", "mark_disconnected", "close_buffer"}

Loop == Request \cup {"prompt", "command", "pending", "flush", "async_drain",
                      "async_pause", "input_more"}

CancelMessages(s) ==
    /\ commands[s] = "done"
    /\ messages' = [messages EXCEPT ![s] = "done"]
    /\ thread' \in Withdrawn(s, {"drain"})
    /\ batch' = [batch EXCEPT ![s] = <<>>]
    /\ UNCHANGED <<commands, window>>

\* In the loop the except clause catches the cancellation and the teardown
\* follows; in the setup and in the teardown nothing more is run.
CancelCommands(s) ==
    /\ commands[s] # "done" /\ messages[s] = "done"
    /\ IF commands[s] \in Loop
       THEN /\ commands' = [commands EXCEPT ![s] = "fire_disfunc"]
            /\ \E rest \in Withdrawn(s, Loop \cup {"window_line"}) :
                  thread' = Append(rest, Call(s, "fire_disfunc"))
       ELSE /\ commands' = [commands EXCEPT ![s] = "done"]
            /\ thread' \in Withdrawn(s, Setup \cup Teardown)
    /\ window' = [window EXCEPT ![s] = "none"]
    /\ UNCHANGED <<messages, batch>>

Cancel(s) ==
    /\ embed[s] = "running"
    /\ embed' = [embed EXCEPT ![s] = "gather"]
    /\ exiting' = exiting \cup {s}
    /\ CancelMessages(s) \/ CancelCommands(s)
    /\ UNCHANGED <<client, broker, burst, shown, drained, ready, queue, current, want,
                   invoked, shared>>

\* Mutant of Gathered: the safety close is left out.
GatheredAndOver(s) ==
    /\ embed[s] = "gather"
    /\ commands[s] = "done" /\ messages[s] = "done"
    /\ embed' = [embed EXCEPT ![s] = "over"]
    /\ UNCHANGED <<client, commands, messages, thread, broker, screen, flags, requests, shared>>

Gathered(s) ==
    /\ embed[s] = "gather"
    /\ commands[s] = "done" /\ messages[s] = "done"
    /\ embed' = [embed EXCEPT ![s] = "close_again"]
    /\ thread' = Append(thread, Call(s, "close_again"))
    /\ UNCHANGED <<client, commands, messages, broker, screen, flags, requests, shared>>

SafetyClose(s) ==
    /\ Calls(s, "close_again")
    /\ CloseConsumer(s)
    /\ thread' = Tail(thread)
    /\ embed' = [embed EXCEPT ![s] = "over"]
    /\ UNCHANGED <<client, commands, messages, screen, flags, requests, shared>>

-----------------------------------------------------------------------------
\* The client and the server process.

\* The SSH channel starts to close: the client left, or keepalives went unanswered.
HangUp(s) ==
    /\ Live(s)
    /\ hungUp' = hungUp \cup {s}
    /\ UNCHANGED <<setup, told, typed, tasks, thread, broker, screen, flags, requests, shared>>

TakeEdit(s) ==
    /\ Live(s)
    /\ \E i \in local.edits : local' = [local EXCEPT !.edits = @ \ {i}]
    /\ UNCHANGED <<client, tasks, thread, broker, screen, flags, requests, mirror, connected>>

\* The client saves an edit that was handed to it.  The edit is taken; the query
\* for its caller is made on the event loop and raises before the callback.
EditorSave(s) == TakeEdit(s)

EditorCancel(s) == TakeEdit(s)

\* The process dies: what it held is gone, the cache and the queues are not.
Crash ==
    /\ setup.crash
    /\ \E s \in Session : embed[s] \notin {"off", "over"}
    /\ embed' = [s \in Session |-> IF embed[s] = "off" THEN "off" ELSE "over"]
    /\ commands' = [s \in Session |-> IF embed[s] = "off" THEN "off" ELSE "done"]
    /\ messages' = [s \in Session |-> IF embed[s] = "off" THEN "off" ELSE "done"]
    /\ thread' = <<>>
    /\ consumers' = {}
    /\ inbox' = [s \in Session |-> <<>>]
    /\ local' = NoSettings
    /\ window' = [s \in Session |-> "none"]
    /\ UNCHANGED <<client, log, held, screen, flags, queue, current, want, invoked,
                   mirror, connected>>

-----------------------------------------------------------------------------

Init ==
    /\ setup \in Setups
    /\ hungUp = {}
    /\ embed = [s \in Session |-> "off"]
    /\ commands = [s \in Session |-> "off"]
    /\ messages = [s \in Session |-> "off"]
    /\ thread = <<>>
    /\ log = <<>>
    /\ held = <<>>
    /\ consumers = {}
    /\ inbox = [s \in Session |-> <<>>]
    /\ batch = [s \in Session |-> <<>>]
    /\ burst = [s \in Session |-> <<>>]
    /\ shown = [s \in Session |-> <<>>]
    /\ drained = {} /\ ready = {} /\ exiting = {}
    /\ queue = [s \in Session |-> [k \in Request |-> <<>>]]
    /\ current = [s \in Session |-> 0]
    /\ want = [s \in Session |-> "none"]
    /\ window = [s \in Session |-> "none"]
    /\ local = NoSettings
    /\ mirror = NoCopies
    /\ connected = FALSE
    /\ told = [s \in Session |-> 0]
    /\ invoked = <<>>
    /\ typed = 0

\* What the server does of itself.
SetupStep(s) ==
    \/ MarkConnected(s) \/ OpenSessionBuffer(s) \/ FireConfunc(s) \/ AwaitTasks(s)
    \/ SetupRaises(s) \/ StartupDrain(s) \/ StartupAgain(s) \/ StartupDone(s)

CommandStep(s) ==
    \/ PreRun(s) \/ Race(s) \/ Disconnected(s) \/ HandleCommand(s) \/ CommandRaises(s)
    \/ DispatchPending(s) \/ PendingTimesOut(s) \/ Flush(s)
    \/ DrainAsyncTellOutput(s) \/ AsyncPause(s) \/ InputMore(s)
    \/ HandleWindowLine(s) \/ WindowCloses(s)

TeardownStep(s) ==
    \/ FireDisfunc(s) \/ TeardownRaises(s) \/ MarkDisconnected(s) \/ CloseSessionBuffer(s)

MessageStep(s) ==
    \/ StartMessages(s) \/ StopMessages(s) \/ DrainAgain(s) \/ DrainSessionBuffer(s)
    \/ RouteBatch(s) \/ WriteBatch(s)

EmbedStep(s) == Cancel(s) \/ Gathered(s) \/ SafetyClose(s)

ServerStep(s) ==
    SetupStep(s) \/ CommandStep(s) \/ TeardownStep(s) \/ MessageStep(s) \/ EmbedStep(s)

\* What the client and its user do.
ClientStep(s) ==
    \/ SessionStarted(s) \/ PickNothing(s) \/ Embed(s)
    \/ MirrorCapabilities(s) \/ RecordGmcpSupports(s) \/ EditorSave(s) \/ EditorCancel(s)
    \/ TypeCommand(s) \/ TypeFlush(s) \/ WindowLine(s) \/ Leave(s) \/ HangUp(s)
    \/ EditorSession(s) \/ PaginatorSession(s) \/ InputSession(s) \/ LeaveWindow(s)

Next ==
    \/ \E s \in Session : ServerStep(s) \/ ClientStep(s)
    \/ Publishers \/ Crash

Spec == Init /\ [][Next]_vars

\* The event loop and the worker thread run what can run; calls return (a
\* command within 30 s, a task's result within 10 s) and timers fire.  Nobody
\* has to type, answer a prompt, or hang up.
FairSpec == Spec /\ \A s \in Session : WF_vars(ServerStep(s))

-----------------------------------------------------------------------------
\* Properties.

\* The variables hold values of their kinds.
TypeOK ==
    /\ setup \in Setups
    /\ hungUp \subseteq Session
    /\ embed \in [Session -> {"off", "picking", "running", "gather", "close_again", "over"}]
    /\ commands \in [Session -> {"off", "done"} \cup Setup \cup Loop \cup Teardown]
    /\ messages \in [Session -> {"off", "waiting", "poll", "drain", "coalesce", "write", "done"}]
    /\ consumers \subseteq Session
    /\ drained \subseteq Session /\ ready \subseteq Session /\ exiting \subseteq Session
    /\ log \in Seq([kind : Kind, by : Session \cup {Nobody}])
    /\ Len(invoked) = Len(log)
    /\ want \in [Session -> Request \cup {"none"}]
    /\ window \in [Session -> {"none", "open", "closing"}]
    /\ connected \in BOOLEAN

\* When a connection is over its consumer is closed and no call can open it
\* again, wherever in setup, loop or teardown the coroutines were cut off: no
\* zombie splits the messages of the next connection (shell-internals.md,
\* "Teardown"; the safety close of embed).
ConsumersClose ==
    \A s \in Session : embed[s] = "over" =>
        /\ s \notin consumers
        /\ \A i \in DOMAIN thread : thread[i] # Call(s, "open_buffer")

Increasing(q) == \A i, j \in DOMAIN q : i < j => q[i] < q[j]

TextsOf(s) ==
    UNION {ToSet(q) : q \in {held, inbox[s], batch[s], burst[s], shown[s]}}

\* In a rich session whose startup is not late and that uses no .flush, texts
\* appear in the order they were published and none twice; and while the only
\* connection lives, none is lost on the way through queue, buffer, burst,
\* batch and screen: whichever of the two coroutines drains, it is alone.
TextsArrive ==
    \A s \in Session :
        /\ setup.mode = "rich" /\ ~ setup.flush /\ ~ setup.slow => Increasing(shown[s])
        /\ setup.sessions = 1 /\ embed[s] = "running" /\ s \notin exiting =>
              \A i \in DOMAIN log : log[i].kind = "text" => i \in TextsOf(s)

\* A request of a verb runs its callback at most once, whether the loop's race,
\* the direct dispatch or the chain of input prompts picks it up, and an edit
\* handed to the client is not opened here as well.
RequestsOnce ==
    /\ \A i \in DOMAIN invoked : invoked[i] <= 1
    /\ \A s \in Session : \A i \in local.edits :
          current[s] # i /\ i \notin ToSet(queue[s]["editor"])

\* What verbs send to a session is shown or acted upon as it was sent: texts in
\* order, none twice and none lost, requests not twice.
MessagesArrive == TextsArrive /\ RequestsOnce

Ending(s) ==
    \/ s \in exiting
    \/ s \in hungUp /\ embed[s] = "running"
    \/ ~ setup.flush /\ Has("disconnect", inbox[s])

\* A connection whose channel closes, whose loop is told to stop or that is
\* booted comes to its end, even out of a full-screen editor, a page or a
\* window, and its consumer with it.
SessionsEnd == \A s \in Session : Ending(s) ~> embed[s] = "over"

\* The capabilities the server's dictionary holds are those the Celery workers
\* read from the cache (shell-internals.md, "IAC Subnegotiation").
CapabilitiesAgree ==
    ~ setup.overlap => \A s \in Session : commands[s] = "prompt" => local.iac = mirror.iac
=============================================================================
