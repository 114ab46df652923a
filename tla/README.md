# TLA+ models of the price-notice Telegram bot

This directory holds TLA+ models of `src/bot/price_notice_bot.py`. That file
is a Telegram bot: it reads a market-data record from one of several origins,
formats the record, splits it into chunks that fit Telegram's limit, and
sends them to a channel. It does this when an administrator asks, and
periodically while auto push is on. Every module is written from that source
file; `PROJECT.json` maps each definition to the lines it models.

## 1. Inventory

### Components and their state

| Component | Code | State |
|---|---|---|
| DataSource | `JournalReader`, `DataReader` (17-141) | the aiohttp `session`, opened by `__aenter__` and closed by `__aexit__`; the optional journal reader |
| MessageFormatter | `_format_data_message`, `_get_data_source` (358-392) | none (pure) |
| MessageChunker | `_split_message` (429-443) | locals `text`, `messages` |
| ChannelSender | `send_to_channel` (394-427) | per call: the chunks, how many were sent, `success` |
| AutoPushScheduler | `_auto_push_loop` (445-473), `auto_push_running`, `_auto_push_task`, `data_reader` | the flag, the task handle, the reader the loop created |
| CommandDispatcher | `_setup_handlers`, `_is_admin`, seven `*_command` handlers, `handle_message` (157-356) | none beyond the shared fields |
| HistoryBuffer | `received_messages` (339-343) | the last 50 incoming texts |
| Bootstrap | `BotConfig`, `start_bot`, `stop_bot`, `BotManager`, `main` (33-44, 475-588) | the Application; the configuration |

### Operations and how they interact

Everything runs on one asyncio event loop. python-telegram-bot's
`run_polling` handles one update at a time, and each update runs to
completion before the next one starts. So the command handlers form a
single actor. The auto-push loop is a separate asyncio task. Tasks switch
only at an `await`, so one model step is the code between two awaits.

The two actors share three things:
- `auto_push_running`: written by `/stop` and `/autopush`, read by the loop at
  the `while` test (452) and at each one-second wait tick (465).
- `_auto_push_task`: created by `start_bot` (497) and by `/autopush` (273),
  but only when the previous task is `done()` (272).
- `data_reader`: set by the loop when it starts (450), and used by `/push`
  whenever it is set (240-244). It is never cleared, even after the loop's
  `async with` has closed its session.

Both actors send through `send_to_channel`. It sends chunk by chunk, sleeps
0.5 s between chunks, records a failure when a chunk raises `TelegramError`,
and reports success only when every chunk was delivered.

`get_data` tries the origins in a fixed order: journal, URL, file, then a
generated sample. An exception from the journal is not caught inside
`get_data`. Failures of the URL or the file are caught and logged, and
`get_data` moves on to the next origin.

### Hard behaviours

- `/stop` or `/autopush` can run while the loop is suspended at any of its
  awaits: the fetch, a chunk send, the pacing sleep, a wait tick, the
  backoff, or the session close in `__aexit__`.
- `/autopush` and `/push` await their own reply (`reply_text`) before they
  do their real work. The state they then read may have changed during
  that await.
- Shutdown cancels the loop task at whatever await it is suspended in
  (506-509).
- Fetches from the origins can fail, and so can each chunk send.
- `_split_message` does Python index arithmetic. Negative bounds count from
  the end of the text and are then clamped.

### What makes each component correct

- **AutoPushScheduler:**
  - at most one loop runs;
  - once auto push is off, the loop ends;
  - while auto push is on, a loop exists (spec 4.5).
- **DataSource:**
  - the first origin that answers is used;
  - acquisition never fails (spec 4.1).
- **MessageFormatter with the chunker:** every chunk sent with
  `parse_mode=HTML` is well-formed HTML.
- **ChannelSender:** the verdict is true exactly when every chunk was
  delivered (spec 4.4).
- **MessageChunker:**
  - every chunk fits the limit;
  - only newlines at the cuts are lost;
  - spec 8's round-trip law.
- **CommandDispatcher:** only admins change the push state, and only admins
  get answers (spec 4.6).
- **HistoryBuffer:** it holds the last 50 messages in arrival order.

## 2. Modules

| Module | Models | Composed by |
|---|---|---|
| `DataSource` | `get_data`'s fallback order and the journal exception | `PriceNoticeBot` (EXTENDS) |
| `ChannelSender` | `send_to_channel`, one step per chunk | `PriceNoticeBot` (EXTENDS) |
| `HistoryBuffer` | the append-then-trim in `handle_message` | `PriceNoticeBot` (EXTENDS) |
| `PriceNoticeBot` | the handler actor, the loop tasks, shutdown | `MCPriceNoticeBot` |
| `Chunker` | `_split_message`, one step per loop iteration | `MCChunker` |
| `AutoPush` | the scheduler's promise (spec 4.5), abstract | `PriceNoticeBot` (INSTANCE ... WITH) |
| `ReportPipeline` | `_format_data_message` feeding `_split_message` | `MCReportPipeline`; it instantiates `Chunker` |

### AutoPush and the refinement

`AutoPush` has four variables:
- `enabled`: the push flag;
- `running`: a scheduler loop exists;
- `pushing`: one of its cycles is in flight;
- `halted`: the process has shut down.

Its actions:
- `Enable` and `Disable` flip the flag.
- `Spawn` starts a loop, only when none exists.
- `BeginCycle` starts a cycle, only while the flag is on.
- `EndCycle` ends a cycle; the loop may end with it if the flag is off.
- `Exit` ends the loop, only when the flag is off and no cycle is in
  flight.
- `Halt` abandons everything at shutdown.

The cycle and exit steps are weakly fair. `Spawn` is not, because whether a
loop is started depends on the operator's commands.

`PriceNoticeBot` instantiates the module as `AP` with this mapping:
- `enabled <- autoPushRunning`;
- `running <- LoopRunning`: some task is at `start`, `fetch`, `send`,
  `wait` or `backoff`;
- `pushing <- CycleInFlight`: some task is at `fetch` or `send`;
- `halted <- stopped`.

A task that is `closing` has already left the while loop, so it counts as
not running. The run `bot_refines_autopush` checks `AP!Spec` as a property.

### ReportPipeline

A report is modelled as a sequence of tokens:
- `"x"`: any ordinary character;
- `NL`: a newline;
- `OpenPre`: the whole opening markup, `<pre><code class="language-json">`
  (or just `<pre>` in the raw branch);
- `ClosePre`: the matching closing markup;
- `RawLt`: a `<` of the payload.

`FormatDataMessage(data)` builds the report as header, then payload, then
footer, the way both branches of `_format_data_message` lay it out. The
inline `<b>`, `<code>` and `<i>` tags open and close on their own line, so
they are folded into `"x"`.

The module instantiates `Chunker` as `C`. It reuses the chunker's variables
and `Next`, and its `Init` chooses a payload and formats it.
`ChunksParseAsHtml` requires every chunk to pass three checks:
- every opened `<pre>` is closed;
- nothing is closed before it is opened;
- no `<` is left unescaped.

### PriceNoticeBot

**Actors.** The handler is a single actor with its program counter in
`hpc`. Each loop task `t` in `TaskIds` has its own program counter
`pc[t]`, which goes through these values:

| `pc[t]` | Meaning | Code |
|---|---|---|
| `start` | the task has been created | |
| `fetch` | at the `while` body | 452-454 |
| `send` | in `send_to_channel` | 456 |
| `wait` | at a one-second tick | 464-467 |
| `backoff` | in `except` | 469-471 |
| `closing` | in `__aexit__`, `session.close()` closing a pooled connection | 449 / 58-60 |
| `done` | the task has finished | |

**Session close.** `pooled[t]` records that task `t`'s aiohttp session
keeps an idle keep-alive connection. A loop fetch whose URL answered sets
it, and so does a `/push` that uses the loop's open reader. When the task
leaves the while loop, `session.close()` marks the session closed at once,
so `readerOpen` is FALSE from that step on. The close suspends (`closing`,
then `LoopClose`) only if a connection is pooled; otherwise the task goes
straight to `done`. Because the connector may already have dropped an idle
connection (`keepalive_timeout`), a task with `pooled[t]` may also go
straight to `done` (`ExitTo`). A task that ends also drops its send locals.

**Start of polling.** The handler starts at `polling_start`. It handles no
update until the task created by `start_bot` has taken its first step
(`PollingStarted`), because `run_polling` awaits the bot's initialisation
before it fetches updates.

A new task takes an id whose `pc` is `done`. With two ids, the model can
have two live loops at once, which is the state `AtMostOneLoop` forbids.

**Handler actions.** Each handler is one action:
- `StartCommand`, `StatusCommand`, `ShowMessagesCommand`, `HelpCommand`,
  `StopCommand` and `HandleMessage` run to completion in one step.
- `ToggleAutopushCommand` sets the flag and suspends at its reply.
  `AutopushSpawn` then does the `done()` test and may create a task.
- `ManualPushCommand` replies and suspends. Then `PushFetch` runs
  `get_data` on the loop's reader if one exists, otherwise on a fresh
  reader, and `PushSendChunk` sends each chunk.
- `RejectCommand` is the `_is_admin` early return.

**Abstracted data.**
- A report is abstracted to its number of chunks (1..`MaxChunks`).
- A fetch is abstracted to the origin it came from.
- A reply is abstracted to its recipient and kind.
- Incoming texts are abstracted to their arrival number.

**Not enumerated.** The origins' answers in a loop fetch are not
enumerated, because no property reads the loop's origin. The manual push
does enumerate them (`urlUp`, `fileOk`).

## 3. Runs

| Run | Config | Expect | Shows |
|---|---|---|---|
| `bot` | `MCPriceNoticeBot.cfg` | pass | `TypeOK`, `AtMostOneLoop`, `DeliveryVerdict`, `HistoryIsLastArrivals`, `OnlyAdminsControl` and `DisableStopsLoop` hold over every interleaving of the handler and two loop tasks |
| `bot_autopush_served` | `MCPriceNoticeBot_served.cfg` | violation | `AutoPushServed` fails: after a fetch whose URL answered, /stop, then /autopush while the old loop awaits `session.close()` on the pooled connection, leaves auto push ON and no loop |
| `bot_manual_push_origin` | `MCPriceNoticeBot_origin.cfg` | violation | `FirstAvailableOrigin` fails: /push after the loop stopped uses its closed session and skips a working URL |
| `bot_help_unauthorized` | `MCPriceNoticeBot_help.cfg` | violation | `OnlyAdminsAnswered` fails: /help answers a non-admin |
| `bot_refines_autopush` | `MCPriceNoticeBot_refines.cfg` | pass | `ImplementsAutoPush`: the bot refines `AutoPush`, fairness included. A cycle starts only at a while test that saw the flag set. A loop leaves only at a test that saw it clear. A loop is created only when none runs. An enabled loop keeps cycling. Auto push starts off, so the first loop comes from `/autopush` through the no-task branch of the `done()` test |
| `bot_reports_interleave` | `MCPriceNoticeBot_interleave.cfg` | violation | `ReportsNotInterleaved` fails: while `/push` sleeps between its two chunks, the loop delivers its report in between |
| `bot_journal_error` | `MCPriceNoticeBot_journal.cfg` | violation | `AcquisitionIsTotal` fails: a journal exception escapes `get_data` and `/push` answers "Push failed" |
| `chunker` | `MCChunker.cfg` | pass | `ChunkWithinLimit`, `OnlyCutNewlinesLost` for every text up to 9 characters |
| `chunker_roundtrip` | `MCChunker_roundtrip.cfg` | violation | spec 8's round trip fails on `"xxx\n\nx"` because of `lstrip` |
| `chunker_small_limit` | `MCChunker_smalllimit.cfg` | violation | a limit smaller than the margin of 100 gives a chunk longer than the limit |
| `report_split_in_markup` | `MCReportPipeline_split.cfg` | violation | a long report is cut at a payload newline inside `<pre>`, leaving the chunk's tag unclosed |
| `report_unescaped_payload` | `MCReportPipeline_escape.cfg` | violation | a payload `<` goes into the HTML unescaped, even in a one-chunk report |

In the counterexample behind `bot_autopush_served`, the startup task
first fetches, sends and waits, and then polling starts. /stop ends that
task at its next tick. It has no pooled connection, so its close does not
suspend. /autopush creates a second task, whose fetch gets a URL answer,
so the connection is pooled. After a send and a tick, /stop comes in. At
the next tick the task leaves the loop and suspends in `session.close()`.
Then /autopush is handled, and its `done()` test sees the task still
alive. The task then ends, and no task is left. The trace needs
`session.close()` to yield, which aiohttp does only while a connection is
pooled; the model lets it yield only then. It also needs the /autopush
reply to return before the close ends. Neither the model nor the code
orders those two awaits.

### Bounds

**`bot`** (about 670k distinct states, under two minutes):
- two users: one admin and one guest;
- two task ids, enough to create a second live loop;
- `Interval` = 2 ticks: one tick to wait and one to recheck;
- `MaxChunks` = 2, so a report can be partly delivered;
- `HistoryCap` = 2 and `MaxReceived` = 3, so the trim happens;
- auto push is on at start;
- every origin is configured.

**The violation runs and `bot_refines_autopush`** use `MaxReceived` = 1. The history plays no part in those properties. The refinement run has about 320k states and takes about a minute. It starts with `AutoPushDefault` = FALSE, while `bot` starts with it TRUE. Between them, both branches of `start_bot`'s auto-push start and both branches of the `done()` test are reached.

**Chunker runs:**
- limit 5 with margin 2 is the ordinary case, where the margin is smaller
  than the limit;
- limit 2 with margin 3 is the case where the margin exceeds the limit.
- Texts of up to 9 characters allow two cuts, blank lines at a cut, and
  texts without newlines.

**ReportPipeline runs:**
- limit 14 with margin 2, against a header of 8 tokens and a footer of 4.
  As in the real 4096/100 case, the header ends well before
  `limit - margin`, so the cut can fall in the payload or at a header
  newline.
- The `split` run uses payloads of up to 6 tokens of `x` and newline.
- The `escape` run uses payloads of up to 2 tokens that may include `<`.
  Those reports fit in one chunk.

### Fairness

- **Loop tasks:** each task `t` gets weak fairness on its step `LoopStep(t)`,
  because asyncio resumes a ready task.
- **Handler continuations:** `PollingStarted`, `AutopushSpawn`,
  `PushFetch` and `PushSendChunk` get weak fairness, because once the
  handler is suspended, its await returns.
- **No fairness** for user commands, incoming messages or `Shutdown`.
  These come from outside, and nothing forces them to happen.
- **Chunker:** weak fairness on its steps, because the function runs to
  its end.

These fairness assumptions need every await to return. Two library
defaults guarantee this:
- `aiohttp.ClientSession()` is created without a timeout argument, so it
  uses aiohttp's default total timeout of 300 s;
- `aiofiles` reads a local file in a worker thread.

A slow origin therefore delays the handler or the loop but does not block
it forever. The model does not represent the length of such a delay.

### Mutants

Each property of a passing run has a mutant: a plausible bug in the code
that the property catches (`PROJECT.json` "mutants"). The mutants are:
- an inclusive wait bound;
- a `done()` test that always says done;
- a verdict taken from the last chunk only;
- an off-by-one trim;
- `/stop` without the admin gate;
- a backoff that refetches without testing the flag;
- a loop that starts its first cycle without the while test;
- an unbounded `rfind`;
- a remainder that skips one character at the cut.

## 4. Not modelled

- The formatter's wording: the timestamp, the emoji and `_get_data_source`'s
  label are left out. `ReportPipeline` keeps only the report's line and
  markup structure, and `PriceNoticeBot` counts a report's chunks.
- The Telegram transport, beyond "a send succeeds or raises".
- The startup message and `BotManager`'s checks: they run before polling
  starts.
- `stop_bot`: it is reached only on `KeyboardInterrupt`.
- The journal's record contents.
- `src/tests/binance_trade_demo.py` and `src/tradeview/test_app.py`: they
  are straight-line scripts outside the bot.

### Interface assumption

The model assumes what spec section 5 describes: `run_polling` serves
updates while the loop task runs on the same event loop.

`start_bot` awaits `self.application.run_polling(...)`. In
python-telegram-bot 20 and later, which have `Application`,
`run_polling` is a synchronous method that runs the event loop itself.
Called from inside a running loop, it would raise. `start_bot` would then
log the error, cancel the loop task in its `finally` and return. The repository
pins no version, so this depends on the library rather than on code a
model can check.

## 5. Status and open ends

Modelled and checked:
- the scheduler and the handler, with its abstract spec and refinement;
- the data-source chain;
- delivery;
- the chunker, on its own and composed with the formatter;
- the authorization gate;
- the history buffer.

Left open, with the reason for each:
1. **A variant of `AutoPush` with `Spawn` weakly fair**, which is what
   spec 4.5 promises. The bot fails it on the same trace as
   `bot_autopush_served`.
2. **The startup sequence of `start_bot`.** `get_me` can fail, and the
   startup message is sent before any task exists. Nothing else runs at that
   point. The only effect is that the process ends with nothing started,
   and the model's `Shutdown` already covers that. `stop_bot` is left out
   too: it only clears flags after `start_bot`'s `finally` has cancelled
   the task.
3. **The journal records read and dropped at line 67.** Their content is
   not modelled. The spec lists this path as an open question, not as
   intended behaviour.
4. **The length of a slow fetch** (hazard at line 77). Weak fairness
   assumes each fetch ends, which aiohttp's default timeout guarantees.
   How long the handler stays unresponsive is not a state the model
   distinguishes.
