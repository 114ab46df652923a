--------------------------- MODULE PriceNoticeBot ---------------------------
(***************************************************************************)
(* TelegramInteractiveBot of src/bot/price_notice_bot.py: the update       *)
(* handler and the auto-push loop tasks, cooperatively scheduled on one    *)
(* asyncio event loop and sharing auto_push_running, _auto_push_task,      *)
(* data_reader and received_messages.                                      *)
(*                                                                         *)
(* A step is the code between two suspension points (an await that can    *)
(* yield).  python-telegram-bot runs one update handler at a time, so the  *)
(* handler is a single actor whose in-flight command is hpc; each loop     *)
(* task is an actor whose position is pc[t].  Replies are abstracted to    *)
(* their recipient and kind.                                               *)
(***************************************************************************)
EXTENDS DataSource, ChannelSender, HistoryBuffer, FiniteSets

CONSTANTS
    Users,            \* identities that send updates
    Admins,           \* config.admin_user_ids ({} = no restriction)
    TaskIds,          \* identities of asyncio tasks running _auto_push_loop
    Interval,         \* config.interval (one tick = one asyncio.sleep(1))
    MaxReceived,      \* bound on the number of inbound messages
    AutoPushDefault,  \* config.auto_push
    None              \* a model value: no task / no reader / nobody

ASSUME /\ Admins \subseteq Users
       /\ Interval \in Nat \ {0}
       /\ MaxReceived \in Nat
       /\ AutoPushDefault \in BOOLEAN

Handler == "handler"
Actors == TaskIds \cup {Handler}

\* Positions of a loop task: "start" (created, not yet run), "fetch"
\* (inside get_data), "send" (inside send_to_channel), "wait" (the
\* one-second ticks), "backoff" (asyncio.sleep(5) after an exception),
\* "closing" (DataReader.__aexit__ suspended in session.close(), which
\* happens only while the session pools a connection), "done".
LoopPcs == {"start", "fetch", "send", "wait", "backoff", "closing", "done"}

\* The handler: not yet polling (run_polling still initialising), idle,
\* or suspended inside toggle_autopush_command after the reply and before
\* the task check, or inside manual_push_command.
HandlerPcs == {"polling_start", "idle", "autopush_spawn", "push_fetch", "push_send"}

ReplyKinds == {"none", "reject", "info", "ack", "error", "autoreply"}

VARIABLES
    autoPushRunning,  \* self.auto_push_running
    pc,               \* pc[t]: where loop task t is
    ticks,            \* ticks[t]: the index i of the wait loop
    autoTask,         \* self._auto_push_task (None before the first)
    readerOwner,      \* self.data_reader: the task whose DataReader it is
    readerOpen,       \* whether that DataReader's session is still open
    pooled,           \* pooled[t]: t's session keeps an idle URL connection
    pushOrigin,       \* origin of the manual push's payload, and urlUp
    send,             \* send[a]: a's send_to_channel in progress or last
    hpc,              \* the handler's position
    lastReply,        \* recipient (the caller) and kind of the last reply
    history,          \* self.received_messages (arrival numbers)
    received,         \* how many inbound messages have arrived
    stopped           \* start_bot has left run_polling

vars == <<autoPushRunning, pc, ticks, autoTask, readerOwner, readerOpen, pooled,
          pushOrigin, send, hpc, lastReply, history, received, stopped>>

loopVars == <<pc, ticks, autoTask, readerOwner, readerOpen, pooled>>

NoFetch == [origin |-> "none", urlUp |-> FALSE]

TypeOK ==
    /\ autoPushRunning \in BOOLEAN
    /\ pc \in [TaskIds -> LoopPcs]
    /\ ticks \in [TaskIds -> 0..Interval]
    /\ autoTask \in TaskIds \cup {None}
    /\ readerOwner \in TaskIds \cup {None}
    /\ readerOpen \in BOOLEAN
    /\ pooled \in [TaskIds -> BOOLEAN]
    /\ pushOrigin \in [origin : Origins \cup {"none"}, urlUp : BOOLEAN]
    /\ send \in [Actors -> SendRecords]
    /\ hpc \in HandlerPcs
    /\ lastReply \in [to : Users \cup {None}, kind : ReplyKinds]
    /\ history \in Seq(1..MaxReceived)
    /\ received \in 0..MaxReceived
    /\ stopped \in BOOLEAN

\* _is_admin: an empty admin list lets everybody through.
IsAdmin(u) == Admins = {} \/ u \in Admins

LoopAlive(t) == pc[t] # "done"

-----------------------------------------------------------------------------
(* start_bot after the startup message: auto push starts if configured    *)
(* (create_task: the loop runs when the event loop gets to it), then       *)
(* run_polling starts; it handles no update before its initialisation.     *)
Init ==
    /\ autoPushRunning = AutoPushDefault
    /\ \E t0 \in TaskIds :
          /\ pc = [t \in TaskIds |-> IF AutoPushDefault /\ t = t0 THEN "start" ELSE "done"]
          /\ autoTask = IF AutoPushDefault THEN t0 ELSE None
    /\ ticks = [t \in TaskIds |-> 0]
    /\ readerOwner = None
    /\ readerOpen = FALSE
    /\ pooled = [t \in TaskIds |-> FALSE]
    /\ pushOrigin = NoFetch
    /\ send = [a \in Actors |-> NoSend]
    /\ hpc = "polling_start"
    /\ lastReply = [to |-> None, kind |-> "none"]
    /\ history = <<>>
    /\ received = 0
    /\ stopped = FALSE

-----------------------------------------------------------------------------
(* _auto_push_loop, one action per stretch between suspension points.      *)

\* Leaving the `async with`: __aexit__ calls session.close(), which marks
\* the session closed at once and suspends only to close a pooled
\* connection; with none it returns without yielding.  A pooled
\* connection may already have been closed by the connector's cleanup
\* (keepalive_timeout), so after a URL answer both are possible.
ExitTo(t) == IF pooled[t] THEN {"closing", "done"} ELSE {"done"}

\* The `while self.auto_push_running` test, reached with no await after
\* it: either get_data starts or the loop leaves the `async with`.
WhileCheck(t) == IF autoPushRunning THEN {"fetch"} ELSE ExitTo(t)

\* Task t moves to one of the positions in ps.
MoveTo(t, ps) == \E p \in ps : pc' = [pc EXCEPT ![t] = p]

\* Once task t has left the loop its session is closed (data_reader's
\* too, if it is t's), and an ended task's session pools nothing.
SessionClosedOnExit(t) ==
    /\ readerOpen' = (readerOpen /\ ~(readerOwner = t /\ pc'[t] \in {"closing", "done"}))
    /\ pooled' = [pooled EXCEPT ![t] = @ /\ pc'[t] # "done"]

\* Mutant: the loop enters its first cycle without the while test.
LoopStartNoCheck(t) ==
    /\ pc[t] = "start"
    /\ readerOwner' = t
    /\ readerOpen' = TRUE
    /\ pc' = [pc EXCEPT ![t] = "fetch"]
    /\ UNCHANGED <<autoPushRunning, ticks, autoTask, pooled, pushOrigin, send,
                   hpc, lastReply, history, received, stopped>>

\* `async with DataReader(...)` opens a session, data_reader points at
\* it, and the while test runs (a loop started with the flag already
\* clear closes the fresh session again).
LoopStart(t) ==
    /\ pc[t] = "start"
    /\ readerOwner' = t
    /\ readerOpen' = autoPushRunning
    /\ MoveTo(t, WhileCheck(t))
    /\ UNCHANGED <<autoPushRunning, ticks, autoTask, pooled, pushOrigin, send,
                   hpc, lastReply, history, received, stopped>>

\* reader.get_data() on the loop's own reader, whose session is open.
\* The journal's exception is caught by the loop and leads to the
\* backoff; otherwise the URL is tried, and a server that answered
\* leaves its keep-alive connection in the session's pool.  The payload
\* itself changes nothing else in the state.
LoopFetch(t) ==
    /\ pc[t] = "fetch"
    /\ \E journalErr, answered \in BOOLEAN, n \in 1..MaxChunks :
          IF JournalRaises(journalErr)
          THEN /\ pc' = [pc EXCEPT ![t] = "backoff"]
               /\ UNCHANGED <<pooled, send>>
          ELSE /\ pooled' = [pooled EXCEPT ![t] = @ \/ (UrlConfigured /\ answered)]
               /\ send' = [send EXCEPT ![t] = BeginSend(n)]
               /\ pc' = [pc EXCEPT ![t] = "send"]
    /\ UNCHANGED <<autoPushRunning, ticks, autoTask, readerOwner, readerOpen,
                   pushOrigin, hpc, lastReply, history, received, stopped>>

\* Mutant: the wait loop runs one index too many (range(interval + 1)).
WaitFromInclusive(t, i) ==
    IF i <= Interval /\ autoPushRunning THEN {"wait"} ELSE WhileCheck(t)

\* Where the wait loop `for i in range(interval)` goes at index i: it
\* tests the flag before each sleep; when it breaks or runs out, control
\* is back at the while test.
WaitFrom(t, i) ==
    IF i < Interval /\ autoPushRunning THEN {"wait"} ELSE WhileCheck(t)

\* One chunk of the loop's send_to_channel; after the last one the result
\* is logged and the wait loop starts at i = 0 with no await in between.
\* A task that ends here drops its locals.
LoopSendChunk(t) ==
    /\ pc[t] = "send"
    /\ \E delivered \in BOOLEAN :
          LET s == SendChunk(send[t], delivered) IN
          /\ IF s.phase = "done"
             THEN /\ MoveTo(t, WaitFrom(t, 0))
                  /\ ticks' = [ticks EXCEPT ![t] = 0]
             ELSE UNCHANGED <<pc, ticks>>
          /\ send' = [send EXCEPT ![t] = IF pc'[t] = "done" THEN NoSend ELSE s]
    /\ SessionClosedOnExit(t)
    /\ UNCHANGED <<autoPushRunning, autoTask, readerOwner, pushOrigin,
                   hpc, lastReply, history, received, stopped>>

\* asyncio.sleep(1) returns; the next index tests the flag again.  The
\* finished send's locals are no longer looked at.
LoopTick(t) ==
    /\ pc[t] = "wait"
    /\ ticks' = [ticks EXCEPT ![t] = @ + 1]
    /\ MoveTo(t, WaitFrom(t, ticks[t] + 1))
    /\ send' = [send EXCEPT ![t] = NoSend]
    /\ SessionClosedOnExit(t)
    /\ UNCHANGED <<autoPushRunning, autoTask, readerOwner, pushOrigin,
                   hpc, lastReply, history, received, stopped>>

\* Mutant: after the backoff the loop retries get_data without the while
\* test.
LoopBackoffRefetch(t) ==
    /\ pc[t] = "backoff"
    /\ pc' = [pc EXCEPT ![t] = "fetch"]
    /\ UNCHANGED <<autoPushRunning, ticks, autoTask, readerOwner, readerOpen,
                   pooled, pushOrigin, send, hpc, lastReply, history, received,
                   stopped>>

\* asyncio.sleep(5) after a caught exception returns to the while test.
LoopBackoff(t) ==
    /\ pc[t] = "backoff"
    /\ MoveTo(t, WhileCheck(t))
    /\ SessionClosedOnExit(t)
    /\ UNCHANGED <<autoPushRunning, ticks, autoTask, readerOwner,
                   pushOrigin, send, hpc, lastReply, history, received, stopped>>

\* session.close() has closed the pooled connection and __aexit__
\* returns; the task ends.  data_reader is not reset, so if it still
\* points at this reader it holds a closed one.
LoopClose(t) ==
    /\ pc[t] = "closing"
    /\ pc' = [pc EXCEPT ![t] = "done"]
    /\ pooled' = [pooled EXCEPT ![t] = FALSE]
    /\ send' = [send EXCEPT ![t] = NoSend]
    /\ UNCHANGED <<autoPushRunning, ticks, autoTask, readerOwner, readerOpen,
                   pushOrigin, hpc, lastReply, history, received, stopped>>

LoopStep(t) ==
    \/ LoopStart(t)
    \/ LoopFetch(t)
    \/ LoopSendChunk(t)
    \/ LoopTick(t)
    \/ LoopBackoff(t)
    \/ LoopClose(t)

-----------------------------------------------------------------------------
(* The update handler.  Each command handler starts with _is_admin; every  *)
(* state change it makes happens before its first await.                   *)

HandlerIdle == hpc = "idle" /\ ~stopped

\* run_polling awaits the bot's initialisation (network calls) before it
\* fetches the first update, so the loop task created just before it has
\* entered its `async with` and run to its first suspension by then.
PollingStarted ==
    /\ hpc = "polling_start" /\ ~stopped
    /\ \A t \in TaskIds : pc[t] # "start"
    /\ hpc' = "idle"
    /\ UNCHANGED <<autoPushRunning, loopVars, pushOrigin, send, lastReply,
                   history, received, stopped>>

\* The commands whose handler begins with the _is_admin check.
CheckedCommands == {"start", "stop", "status", "push", "autopush", "messages"}

\* A checked command from a non-admin: the fixed rejection, nothing else.
RejectCommand(u, c) ==
    /\ HandlerIdle
    /\ c \in CheckedCommands
    /\ ~IsAdmin(u)
    /\ lastReply' = [to |-> u, kind |-> "reject"]
    /\ UNCHANGED <<autoPushRunning, loopVars, pushOrigin, send, hpc, history,
                   received, stopped>>

\* start_command: the welcome text.
StartCommand(u) ==
    /\ HandlerIdle
    /\ IsAdmin(u)
    /\ lastReply' = [to |-> u, kind |-> "info"]
    /\ UNCHANGED <<autoPushRunning, loopVars, pushOrigin, send, hpc, history,
                   received, stopped>>

\* status_command: a report of the flag, the data source, the interval
\* and len(received_messages).
StatusCommand(u) ==
    /\ HandlerIdle
    /\ IsAdmin(u)
    /\ lastReply' = [to |-> u, kind |-> "info"]
    /\ UNCHANGED <<autoPushRunning, loopVars, pushOrigin, send, hpc, history,
                   received, stopped>>

\* show_messages_command: "No messages" or the last 5 of history, truncated.
ShowMessagesCommand(u) ==
    /\ HandlerIdle
    /\ IsAdmin(u)
    /\ lastReply' = [to |-> u, kind |-> "info"]
    /\ UNCHANGED <<autoPushRunning, loopVars, pushOrigin, send, hpc, history,
                   received, stopped>>

\* help_command: has no _is_admin check; replies to anyone.
HelpCommand(u) ==
    /\ HandlerIdle
    /\ lastReply' = [to |-> u, kind |-> "info"]
    /\ UNCHANGED <<autoPushRunning, loopVars, pushOrigin, send, hpc, history,
                   received, stopped>>

\* Mutant: stop_command without its _is_admin check.
StopCommandNoAdminCheck(u) ==
    /\ HandlerIdle
    /\ autoPushRunning' = FALSE
    /\ lastReply' = [to |-> u, kind |-> "ack"]
    /\ UNCHANGED <<loopVars, pushOrigin, send, hpc, history, received, stopped>>

\* stop_command: clears the flag; the loop notices at its next test.
StopCommand(u) ==
    /\ HandlerIdle
    /\ IsAdmin(u)
    /\ autoPushRunning' = FALSE
    /\ lastReply' = [to |-> u, kind |-> "ack"]
    /\ UNCHANGED <<loopVars, pushOrigin, send, hpc, history, received, stopped>>

\* toggle_autopush_command up to its reply: clears a set flag, or sets a
\* clear one and suspends in reply_text before the task check.
ToggleAutopushCommand(u) ==
    /\ HandlerIdle
    /\ IsAdmin(u)
    /\ autoPushRunning' = ~autoPushRunning
    /\ hpc' = IF autoPushRunning THEN "idle" ELSE "autopush_spawn"
    /\ lastReply' = [to |-> u, kind |-> "ack"]
    /\ UNCHANGED <<loopVars, pushOrigin, send, history, received, stopped>>

\* Mutant: create_task without looking at the previous task.
AutoTaskAlwaysFinished == TRUE

\* The `_auto_push_task.done()` test of toggle_autopush_command.
AutoTaskFinished == autoTask = None \/ pc[autoTask] = "done"

\* toggle_autopush_command after the reply: create_task only if there is
\* no task or the last one has finished.
AutopushSpawn ==
    /\ hpc = "autopush_spawn" /\ ~stopped
    /\ IF AutoTaskFinished
       THEN \E t \in TaskIds :
               /\ pc[t] = "done"
               /\ pc' = [pc EXCEPT ![t] = "start"]
               /\ ticks' = [ticks EXCEPT ![t] = 0]
               /\ autoTask' = t
       ELSE UNCHANGED <<pc, ticks, autoTask>>
    /\ hpc' = "idle"
    /\ UNCHANGED <<autoPushRunning, readerOwner, readerOpen, pooled, pushOrigin, send,
                   lastReply, history, received, stopped>>

\* manual_push_command up to its first reply ("Pushing data manually").
ManualPushCommand(u) ==
    /\ HandlerIdle
    /\ IsAdmin(u)
    /\ hpc' = "push_fetch"
    /\ lastReply' = [to |-> u, kind |-> "ack"]
    /\ UNCHANGED <<autoPushRunning, loopVars, pushOrigin, send, history,
                   received, stopped>>

\* get_data on self.data_reader if it is set (whatever state its session
\* is in), else on a fresh DataReader with an open session.  An exception
\* is caught and reported to the caller as "Push failed".  A URL answer
\* on the loop's open session leaves a connection in that session's pool.
PushFetch ==
    /\ hpc = "push_fetch" /\ ~stopped
    /\ LET sessionOpen == readerOwner = None \/ readerOpen IN
       \E urlUp, fileOk, journalErr \in BOOLEAN, n \in 1..MaxChunks :
          IF JournalRaises(journalErr)
          THEN /\ hpc' = "idle"
               /\ lastReply' = [to |-> lastReply.to, kind |-> "error"]
               /\ UNCHANGED <<pushOrigin, send, pooled>>
          ELSE /\ pushOrigin' = [origin |-> GetData(sessionOpen, urlUp, fileOk),
                                  urlUp |-> urlUp]
               /\ pooled' = IF readerOwner # None /\ ReadFromUrl(readerOpen, urlUp)
                            THEN [pooled EXCEPT ![readerOwner] = TRUE]
                            ELSE pooled
               /\ send' = [send EXCEPT ![Handler] = BeginSend(n)]
               /\ hpc' = "push_send"
               /\ UNCHANGED lastReply
    /\ UNCHANGED <<autoPushRunning, pc, ticks, autoTask, readerOwner, readerOpen,
                   history, received, stopped>>

\* One chunk of the manual push; after the last, the caller is told
\* whether send_to_channel succeeded.
PushSendChunk ==
    /\ hpc = "push_send" /\ ~stopped
    /\ \E delivered \in BOOLEAN :
          send' = [send EXCEPT ![Handler] = SendChunk(@, delivered)]
    /\ IF send'[Handler].phase = "done"
       THEN /\ hpc' = "idle"
            /\ lastReply' = [to |-> lastReply.to, kind |-> "ack"]
       ELSE UNCHANGED <<hpc, lastReply>>
    /\ UNCHANGED <<autoPushRunning, loopVars, pushOrigin, history,
                   received, stopped>>

\* handle_message: store the message, keep the last HistoryCap, and reply
\* automatically if the text has a keyword (a failed reply is only logged).
HandleMessage(u) ==
    /\ HandlerIdle
    /\ received < MaxReceived
    /\ received' = received + 1
    /\ history' = AppendMessage(history, received + 1)
    /\ \E keyword \in BOOLEAN :
          lastReply' = IF keyword THEN [to |-> u, kind |-> "autoreply"] ELSE lastReply
    /\ UNCHANGED <<autoPushRunning, loopVars, pushOrigin, send, hpc, stopped>>

\* run_polling returns: the finally block cancels the auto push task;
\* cancellation unwinds through DataReader.__aexit__, closing its session.
Shutdown ==
    /\ ~stopped
    /\ stopped' = TRUE
    /\ pc' = [t \in TaskIds |-> "done"]
    /\ readerOpen' = FALSE
    /\ pooled' = [t \in TaskIds |-> FALSE]
    /\ hpc' = "idle"
    /\ UNCHANGED <<autoPushRunning, ticks, autoTask, readerOwner,
                   pushOrigin, send, lastReply, history, received>>

\* The process has exited; nothing happens any more.
Terminated == stopped /\ UNCHANGED vars

HandlerStep ==
    \/ \E u \in Users, c \in CheckedCommands : RejectCommand(u, c)
    \/ \E u \in Users :
          \/ StartCommand(u)
          \/ StatusCommand(u)
          \/ ShowMessagesCommand(u)
          \/ HelpCommand(u)
          \/ StopCommand(u)
          \/ ToggleAutopushCommand(u)
          \/ ManualPushCommand(u)
          \/ HandleMessage(u)
    \/ PollingStarted
    \/ AutopushSpawn
    \/ PushFetch
    \/ PushSendChunk

Next ==
    \/ \E t \in TaskIds : LoopStep(t)
    \/ HandlerStep
    \/ Shutdown
    \/ Terminated

\* The event loop runs every ready task and every sleep ends, so each loop
\* task, the start of polling and the handler's own continuations are
\* weakly fair.  Updates from users and the shutdown are not: nobody has
\* to send anything.
Fairness ==
    /\ \A t \in TaskIds : WF_vars(LoopStep(t))
    /\ WF_vars(PollingStarted)
    /\ WF_vars(AutopushSpawn)
    /\ WF_vars(PushFetch)
    /\ WF_vars(PushSendChunk)

Spec == Init /\ [][Next]_vars /\ Fairness

-----------------------------------------------------------------------------
(* The refinement mapping to AutoPush.  A task is a running loop until it  *)
(* has left the while loop (closing or done); a cycle is in flight while   *)
(* the task is inside get_data or send_to_channel.                         *)

LoopRunning == \E t \in TaskIds : pc[t] \in {"start", "fetch", "send", "wait", "backoff"}

CycleInFlight == \E t \in TaskIds : pc[t] \in {"fetch", "send"}

AP == INSTANCE AutoPush WITH
        enabled <- autoPushRunning,
        running <- LoopRunning,
        pushing <- CycleInFlight,
        halted  <- stopped

-----------------------------------------------------------------------------
(* Properties.                                                             *)

\* At most one _auto_push_loop is alive at any time: toggle_autopush only
\* calls create_task when _auto_push_task is done, even when the flag is
\* flipped off and on while the old loop is still in its wait or send.
AtMostOneLoop == Cardinality({t \in TaskIds : LoopAlive(t)}) <= 1

\* send_to_channel reports success exactly when every chunk of the report
\* was delivered, for the loop and for the manual push alike, and a
\* failed chunk does not stop the later ones from being tried.
DeliveryVerdict ==
    \A a \in Actors :
        send[a].phase = "done" =>
            /\ send[a].sent = send[a].n
            /\ send[a].ok <=> send[a].delivered = send[a].n

\* handle_message's append-then-trim keeps exactly the last HistoryCap
\* messages that arrived, oldest first, whatever the interleaving with
\* the other commands.
HistoryIsLastArrivals ==
    /\ Len(history) = IF received < HistoryCap THEN received ELSE HistoryCap
    /\ \A i \in 1..Len(history) : history[i] = received - Len(history) + i

\* Only an admin's update can flip auto_push_running, start a manual push
\* or get an auto push task created (the _is_admin gate of each command).
OnlyAdminsControl ==
    [][ ( \/ autoPushRunning' # autoPushRunning
          \/ hpc = "idle" /\ hpc' = "push_fetch"
          \/ \E t \in TaskIds : pc[t] = "done" /\ pc'[t] = "start" )
        => IsAdmin(lastReply'.to) ]_vars

\* Once auto push is switched off (and stays off), every loop task ends:
\* the wait loop tests the flag every tick and the while test after a
\* backoff or a send ends the loop.
DisableStopsLoop ==
    ~autoPushRunning ~> (autoPushRunning \/ \A t \in TaskIds : ~LoopAlive(t))

\* Once auto push is switched on (and stays on), some loop task fetches
\* data again: /autopush promises "Auto push enabled!" and the status
\* command then reports ON.
AutoPushServed ==
    (autoPushRunning /\ ~stopped)
        ~> (~autoPushRunning \/ stopped \/ \E t \in TaskIds : pc[t] = "fetch")

\* The payload of a manual push comes from the first origin that can
\* deliver: when the URL is configured and answering, neither the file nor
\* the sample is used (spec 4.1: the first successful non-empty result).
\* manual_push_command reuses self.data_reader, which the last loop task
\* may already have closed.
FirstAvailableOrigin ==
    (UrlConfigured /\ pushOrigin.origin \in {"file", "sample"}) => ~pushOrigin.urlUp

\* A caller who is not an admin only ever gets the rejection (or the
\* keyword auto-reply to a plain message), never command output.
OnlyAdminsAnswered ==
    (lastReply.to \in Users /\ ~IsAdmin(lastReply.to))
        => lastReply.kind \in {"reject", "autoreply"}

\* The bot implements the AutoPush scheduler: a cycle (get_data and
\* send_to_channel) starts only at a while test that saw the flag set,
\* never while another loop's cycle is in flight; a loop leaves only at a
\* test that saw it clear; a new loop is created only when no loop is
\* running; and, given the event loop resumes the task, an enabled loop
\* keeps cycling and a disabled one ends.
ImplementsAutoPush == AP!Spec

\* While one send_to_channel is between two of its chunks, no other
\* sender makes a send_message call: the auto-push loop and /push each
\* hand their report to the channel as one contiguous run of chunks.
ReportsNotInterleaved ==
    [][\A a, b \in Actors :
          (a # b /\ send'[b].sent > send[b].sent)
              => ~(send[a].phase = "sending" /\ send[a].sent > 0)]_vars

\* get_data never fails (spec 4.1: acquisition is total, no caller-visible
\* error path), so /push never answers "Push failed" because of the data
\* source; read_from_journal calls the journal binding outside any try.
AcquisitionIsTotal == lastReply.kind # "error"
=============================================================================
