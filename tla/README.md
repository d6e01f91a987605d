# TLA+ models of pi-feishu-lark

pi-feishu-lark connects Feishu/Lark chats to the Pi coding agent: a gateway
process holds the event connection, every chat (or thread) is a conversation
with a Pi session of its own, and answers are streamed into interactive cards.
This directory models its control flow in TLA+: TLC checks small instances, and
TLAPS proves every safety property that the passing runs check, for every value of
the constants.

## 1. Inventory

All sources are under `src/.pi/extensions/feishu/`.

| component | state it keeps | operations | what makes it correct |
|---|---|---|---|
| **conversation manager** (`conversation-manager.ts`) | per-key promise queue, session cache, active-run registry, `state.json` (session file, model, workspace per key), `CHILD_SESSION_ENV` while a session is created | prompt, /new, /workspace, resume, model choice, stop, /status | turns of a key run one at a time in order; a run is registered exactly while it is prompted; a prompt uses the session of the current choice; text and aborts reach only the run they belong to |
| **reply card** (`reply-card.ts`, `card-builder.ts`) | status, body, process timeline | start, append, updateFromEvent, stopImmediately, completeWithAnswer, finish | the first conclusion wins; no card is left spinning |
| **CardKit stream** (`cardkit-stream.ts`) | card id, sequence, last text sent, `putting`, `closed`, tenant token | start, append, updateProcess, tick, close | at most one PUT in flight, sequences increase, the last text shown is the answer |
| **gateway lock** (`gateway-lock.ts`) | one record (`LOCK_KEY`) in the user's `locks.json`, an inter-process lock directory, a heartbeat per owner | acquire, heartbeat, update, release, stale detection | no two processes hold the event connection; a process that lost the record stops; nobody removes another's record |
| **daemon control** (`index.ts`) | spawn lock, daemon processes, transport | setup, start, stop, restart, reset, autostart, reaping, launching | at most one daemon is connected; a stop reaches every daemon; a start ends with a connected one |
| **deduplication** (`dedupe-store.ts`, `message-handler.ts`) | `dedupe.json` with a status and time per message, an inter-process file lock, the handler's `seen` set | claim, mark, prune | a message is handled at most once, across processes and redeliveries |
| **message handler** (`message-handler.ts`, `messages.ts`, `attachments.ts`) | `seen`, `recentContent` | handle, commands, attachments, prompt text | every accepted message is answered or reported as failed, and its record says which; nothing but repetitions is dropped |
| **transport** (`transport.ts`, `group-trigger.ts`, `retry.ts`) | outbound message memory, copy sources | dispatch, group trigger, reply, send in parts, retry | a topic's messages share a key; the parts of a text are sent in order, and none is left out |
| **job bridge** (`bridge-runtime.ts`, `bridge-store.ts`, `delivery.ts`) | sessions that answer Feishu, pending scheduled jobs, `bridge.json` (session and job bindings, sent marks) | message-end routing, job capture, deliver once | a scheduled result reaches its conversation, what is marked as sent was sent, jobs keep their route |
| **runtime configuration** (`config.ts`, `runtime-config.ts`) | `config.json`, `runtime-overrides.json`, environment | load, parse, set, clear, apply | a setting is what it was last set to, through setup, autostart and reset |
| **rich text** (`rich-text.ts`) | none | choose mode, split | chunks respect the limit and lose nothing |
| **setup** (`setup.ts`) | `config.json` | two writes with a question between them | as for the configuration |
| cards and builders (`cards.ts`, `interactive-card.ts`, `card-builder.ts`) | none | JSON of cards | layout only |
| debug log, webhook server, types | a log file, an HTTP server | | I/O only |

**Interactions.** transport calls the handler for a message and index.ts for a
card action; the handler claims the message, creates a reply card and calls the
conversation manager; the manager queues the turn, prompts Pi, and routes Pi's
events back into the card and the bridge. The gateway lock decides which process
runs a transport at all. All of this runs in one JavaScript thread per process, so
interleavings arise at every `await`, between processes through the files under
the state directory, and with Feishu and Pi through requests and events.

**Hard behaviours.** Two turns of a conversation that overlap after a queue
timeout; a stop that races the end of its run, the next turn and a second stop;
sessions replaced while a command, `/status` or a resume still uses the old one;
a gateway that stalls, crashes in the locked section or starts slowly; card
updates that are delayed, refused, overtaken or lost; a message delivered twice
to two processes, one of which crashes; a scheduled result that comes while
another is being sent; files that several processes read and rewrite as a whole;
a stop or a second start while a daemon is being launched. `PROJECT.json` lists
them one by one under `hazards`, each at its line, with the properties that
cover it; five name no property, and a note says why. Where the code goes wrong, a
property excuses what it does there, and the note says so.

## 2. Modules

| module | models | composed with |
|---|---|---|
| `TurnQueue` | what the queue of a conversation promises, and nothing of how | abstract specification, instantiated by `Conversation` |
| `Conversation` | `conversation-manager.ts`, the status of `reply-card.ts`, the stop callback of `index.ts` | refines `TurnQueue` |
| `GatewayLock` | `gateway-lock.ts` and the life of a daemon in `index.ts` | |
| `CardStream` | `cardkit-stream.ts`, its callers in `reply-card.ts`, `withRetry` around `start` | |
| `Dedupe` | `dedupe-store.ts`: the shared message records | |
| `Inbound` | `message-handler.ts`, acceptance and keys of `transport.ts`, `group-trigger.ts` | extends `Dedupe`: the handler claims and marks in its records |
| `Bridge` | `bridge-runtime.ts`, `bridge-store.ts`, `delivery.ts`, sending in parts of `transport.ts`, `retry.ts` | |
| `Settings` | `config.ts`, `runtime-config.ts`, `setup.ts` | |
| `Daemon` | the commands of `index.ts` and the daemons they launch and stop | extends `Settings`: what a daemon loads decides what it does |
| `*_proofs` | theorems about the module of that name; `Session_proofs` is about the sessions of `Conversation`, `Delivery_proofs` about what `Bridge` posts and has pending, `Daemon_proofs` about `Settings` and `Daemon` | extend the module and `TLAPS`; `Session_proofs` extends `Conversation_proofs`, `Delivery_proofs` extends `Bridge_proofs` |
| `MC*` | the modules that TLC runs; the values of the constants are in the `.cfg` files | extend the module |

In every module an action is the code between two `await`s of one asynchronous
function, or, where processes share files, one access to a file. The program
counter of a function (`pc`, `stopPc`, `step`, `startPc`, `closePc`, `op`) names
the `await` it is suspended at. The entry of every definition under `map` in
`PROJECT.json` gives the lines it stands for. Operators whose comment calls them
mutants are plausible mistakes in the operator that follows them; nothing uses
them, and each shows that one property would notice the mistake.

### 2.1 Conversation

*State.* Turns are numbered in the order in which they are queued. `queues`,
`sessions` and `activeRuns` are the three maps of `ConversationManager`; `file`,
`workspaces` and `models` are the entries of `state.json`; `sState`,
`sWorkspace`, `sModel` and `sFile` describe a Pi session: being created, ready,
disposed or failed, and what it was created with. `card` is `ReplyCard.status`,
`body` the card's text (`ensureFinal` replaces it by the answer or the error, also
when the status is final), `shown` what a reader of the card sees, `stopped` is
`run.stopped`, `pi` what Pi makes of a prompt, which need not be what the manager
believes.

*Actions.* A prompt is `Enqueue`, `StartPrompt` (the wait of `previousTurn` is
over; the cached session is taken or one is created), `RunPrompt` or
`SessionRejected`, `Delta`s, `PromptReturns` or `PromptTimeout`, and
`CardClosed`. A command is `Enqueue`, `StartCommand` or `StartResume`,
`LookedUp`, `Dispose` and `Replied`. A session that is being created becomes
ready or fails in `SessionCreated` and `SessionFailed`, and `/status` may create
one outside the queue (`Status`). A stop is `StopRequest`, `StopCardClosed`,
`StopAbort`, `StopRespond`; the card it closes shows the text as it was or,
since `close` reads it again before each request, as `ensureFinal` has left it
meanwhile. `OrphanEnds` is the end of a prompt that nobody waits for since its
timeout.

*Abstracted.* The text of prompts and answers, model lists, the reading of the
session directory (only "the file was written" counts), the process block. A
`/resume` takes the workspace of the session it found. Card requests are awaited
as a whole: `CardStream` models what happens inside.

### 2.2 GatewayLock

*State.* `owner` and `hbAge` are the record of `locks.json`; `lockDir` and
`lockAge` the lock directory; `mode` is the stage of a daemon's life, `step` the
stage of its current access to the file. Timestamps are ages, capped where a
comparison no longer depends on them. `lapses` is a history variable: whether
some process has stalled (left due work undone while time passed), has started
too slowly, or has crashed within the locked section.

*Actions.* `MakeDir`, `SeeStaleDir`, `BreakDir`, `GiveUp`, `Read`, `Write`,
`Leave` are the stages of `withLocksFileLock` and the access inside: `SeeStaleDir`
and `BreakDir` are apart because another process may replace the directory
between `stat` and `rm`, and `GiveUp` goes on without the lock as the code does.
`Launch`, `Connected`, `StartFails`, `Beat`, `Stop`, `Lost` are the life of a
daemon. `Crash` may come at any point. `Tick` is the passage of time.

*Abstracted.* Reads and writes of the file are single steps (a reader without
the lock could see half a file: see `hazards`). The accesses of one process do
not overlap, and `session_shutdown` is not modelled while a start is running.
`force` is left out because no
caller of `start` asks for a take-over (a restart first ends the old daemon and
then launches one that does not). A pid is not
reused.

### 2.3 CardStream

*State.* The fields of `CardKitStream` under their names, a program counter for
`start`, `close` and each of the two streaming updates, the request each has
sent, and what Feishu holds of every card: sequence, text, process block and
final status. A text is the number of the change that produced it. `answer` is the
text with which `close` began. It, `renewed`, `missed`, `processLost` and `lost` are
history variables with which the
properties say which failures they exclude.

*Actions.* `Append`, `TextStart`, `UpdateProcess` and `Close` are the calls of
`ReplyCard`, and `LateFinal` its `ensureFinal` once the stream is closed: after
a stop whose run goes on, or after an answer whose plain reply threw.
`StartToken`, `CreateAnswered`, `ReplyAnswered` are `start` under `withRetry`;
`Tick` and `ProcessTimer` begin updates and `TickAnswered`, `ProcessAnswered`
end them; `CloseContent` to `FallbackAnswered` is the closing sequence;
`TokenAnswered` and `CloseTokenFails` are requests that need a new token first.
The server (external) applies a request only if its sequence is higher than the
last one, may refuse any request, and any answer may be lost after the request
took effect.

*Abstracted.* A failed conclusion of the card differs from a stopped one only in
wording, so `Close` has one of them. The token is renewed at most once in a
behaviour (it lives two hours, a card minutes).

### 2.4 Dedupe and Inbound

*State.* `store` is `dedupe.json`, `old` the records not touched for
`MESSAGE_TTL_MS`, `torn` says that the file has been emptied and not yet written;
`lockDir` is the maker of the lock directory. A call of `Dedupe` is one
`claimFeishuMessage` or `markFeishuMessage` at work; in `Inbound` a call is the
handling of one event, which claims and marks one after the other, and `at` is
the place in `handle` it has reached. `seen` and `recent` are the handler's two
caches. `handled`, `shown`, `dropped` and `passed` are history.

*Actions.* `MakeDir` to `Leave` are `withStoreLock` with the access inside.
`Arrive` is `handleRawMessage` up to the group trigger, `Dispatch` the lookup of
the chat mode and the question whether the message was seen, `Claimed`,
`Refused`, `Quote`, `IgnoreEmpty`, `RunCommand`, `DropDuplicate`, `PassContent`,
`ProcessFiles`, `Replied` are the stretches of `handle`, and `Throws`,
`FailureMarked`, `Sorry` its `catch`. `Unshown` is a prompt that could show its
sender neither a card nor a plain reply, `CommandUnlinked` a command without a
transport: both end as if they had replied. `AnswerLost` is a reply that was
sent though its request failed, and `Sorry` may fail to be sent. `Crash` kills a
process at any point; `DayPasses` lets records expire.

*Abstracted.* A message is a record of what the code asks about it: chat,
thread, sender, how it was triggered, what it holds. Prompts and commands reply,
cannot, or throw: `Conversation` is about what they do. Whether a repetition
comes within `CONTENT_DEDUPE_TTL_MS` is left open.

### 2.5 Bridge

*State.* `file` is `bridge.json` with its routes, jobs and sent marks; `op` what
each process is writing to it; `arrays` and `pending` the map `pendingBySession`,
in which a deleted entry's array can still be held by a delivery; `task` the
deliveries under way with the part and the try they have reached. `runs`,
`added` and `posted` are history.

*Actions.* `BindConversation` and `AddJob` are `bindConversation` and
`captureCreatedJobs`; `Marker` and `Subagent` are `handleScheduledMarker`;
a run's end, `RunEnds`, is `handleAssistantResult` up to its `await`: `Assistant`
with a text, `Silent` without one, `Unexpected` with nothing pending; `PartPosted`,
`PartRetried`, `SendFails`, `MarkSent` are `deliverOnce` with the transport or
`delivery.ts`; `Open` and `Fill` are a write of the file, with which a delivery
ends, and `WriteFails` one that fails before or after the file was emptied. `Crash`
takes what a process has pending with it.

*Abstracted.* The text of a run is its number. A long text of a job is cards or a
single message, as `chooseMessageMode` decides.

### 2.6 Settings and Daemon

*State.* `config` and `overrides` are the two files, `fromEnv` says that the
credentials are in the environment. A run is one execution of a command; `draft`
is what it is writing. `dmn` is the life of each daemon: the shell that will
become Pi, Pi loading, idle, starting, connected, terminated, dead. `owner` is
the gateway record and `spawnLock` the run that made its directory. `want`,
`intended`, `baked` and `since` are history.

*Actions.* `Set`, `Clear`, `Autostart`, `Setup`, `Confirm` begin writes and
`Open`, `Fill` carry them out. `BeginStart` to `Settle` are `startDaemon` between
its sleeps, `BeginStop` and `EndStop` are `stopDaemon` with what restart and
reset add. `Exec`, `Boot`, `Connect`, `ConnectFails`, `End`, `Crash` are a daemon.

*Abstracted.* A setting is one of a few values, of which some are invalid.
The record has a punctual owner, since `GatewayLock` is about the others. A
`sleep` ends before or after what it waits for, and the latter is a lapse. A reset
that removes `config.json` while another run has it open takes with it what that
run goes on to write (`Unlinked`), and counts as a write at the same time.

### 2.7 Lapses

The last three models, and `GatewayLock`, record in `lapses` what has gone wrong
in a behaviour. A property that the code keeps only as long as some of these do
not happen names them. To keep the instances small, one behaviour of the runs
has one kind of lapse (`Scenarios` and `Cases`), so that every property is
checked against each kind that it does not name.

## 3. Runs

| run | instance | shows |
|---|---|---|
| `conversation_serial` | 2 conversations, 3 turns of any kind, 1 stop, no timeouts | turns run in order; a prompt runs in the live cached session; the stored file lies in the stored workspace; registry and bridge name exactly the prompting turns; each card gets its own text |
| `conversation_live` | 2 conversations, 2 turns, 1 `/status`, 1 stop, prompt timeouts, `FairSpec` | the manager implements `TurnQueue`; every turn ends; a prompt runs in a session made for the current choice |
| `conversation_timeouts` | 1 conversation, 2 turns of any kind, 2 stops, both timeouts, `TimerSpec` | the first conclusion of a card wins; a stop alone settles its card; no card is left running; overlapping turns keep their hands off each other's registration; nothing blocks a queued turn |
| `gateway_lock` | 2 daemons; `LOCK_STALE_MS` two units, heartbeat, patience and start one; `FairSpec` | no two connections and no stolen record while processes keep time; duplicates end once they do so again |
| `card_stream` | 1 change of the text and the final one, 2 of the process block, 2 attempts, ticks up to sequence 3, and an `ensureFinal` after `close`; `FairSpec` | updates exclude each other; the latest block is shown; the answer reaches the reader; a finished card stands; `close` ends |
| `inbound` | 2 messages in 4 settings, each with a few kinds of faults, 2 calls, 2 processes, 2 tries for the lock, one seen message; `FairSpec` | a message is handled once; its record says what its sender got; an answered message is not reported as failed; only repetitions are dropped; a topic has one key; handling ends |
| `bridge` | 2 jobs of 2 conversations, one of eight things going wrong, 2 runs in the first conversation's session or another Pi process's, texts of 1 and 2 parts, 1 retry, 2 deliveries at a time; `FairSpec` | routes are kept; results go to their conversation, their parts in order; what is marked was posted; the queue is exact; results arrive |
| `control` | 3 commands in 27 combinations with a kind of lapse each; 2 settings of 2 values; `FairSpec` | settings hold; a stop reaches every daemon; a start ends with one connected daemon |
| `conversation_stop_aborts`, `gateway_duplicates`, `card_stream_fallback`, `clear` | small | counterexamples: see section 5 |

*Why the bounds are enough.* Three turns of one conversation are the least in
which a turn waits for one that waits itself, and in which a command can stand
between two prompts; two conversations show that they neither wait for each
other nor share entries. Two workspaces and models are enough to be wrong about
the choice. Two stops meet each other, an abort that fails and the run after.
Two daemons suffice for every race of the record: it has one owner and each rule
mentions one process besides it; the ratio of the periods keeps the order of the
code (a second of tries, a heartbeat every 5 s, stale after 30 s), in which only the
order matters. Two attempts of `start` give a lost answer and the card that
replaces it; sequence 3 lets a tick or a process update be on its way when
`close` begins, and a tick be repeated. Two calls meet at the records, as two
deliveries of one message or as two messages; a second try is where waiting
differs from giving up; one seen message is where the set is emptied. Two runs
of one session overlap in the queue of pending results; two parts and one retry
show a part that is sent twice and one that follows it. Three commands are a
start, what interferes with it and a third that meets both, or a setting made,
written elsewhere and taken back.

*Deadlock* is not checked: every instance stops when its turns, events, runs or
processes are used up.

*Fairness.* `Conversation!FairSpec`: the event loop runs what is due, timers
fire, and requests to Feishu, to the disk and for a new session settle. Pi need
not end a prompt when prompts time out. `Conversation!TimerSpec` asks only for
the timers of `previousTurn`; everything else a turn awaits may hang for ever.
`GatewayLock!FairSpec`: time goes on and a process resumes after any stall; no
fairness of `Launch`, `Stop` or `Crash`. `DuplicatesEnd` adds in its premise that
processes eventually keep time: without it two stalled processes may stay
connected as long as the stall lasts. `CardStream!FairSpec`: a request is
answered or fails; the timers of the streaming updates need no fairness, since
`close` does not wait for them. `Inbound!FairSpec`: the steps of a call, which
include the end of what it awaits. `Bridge!FairSpec`: a write of the file that
has begun ends (its two halves are one synchronous call in the code);
strong fairness of the deliveries and of a session's answers, since others' writes
disable them again and again without keeping the event loop from them for ever.
`Daemon!FairSpec`: commands under way and processes go on; users need not give
any command.

*Antecedents.* `TimelyExclusion` and `RecordRespected` speak of `lapses = {}`;
crashes outside the locked section, failed starts, stops and dead owners are all
within it. `StoppedStaysStopped` allows an answer or an error on a stopped card
only after a second stop of the same run whose abort failed (section 5).
`AnswerReaches` is about the text with which `close` began, or the one that
`ensureFinal` put in its place. It excludes a refusal of the very last update
and an error of the plain reply, upon which the code does nothing (the first is
`FallbackOnFailure` below), but no failure before them. It and `FinalCardStands`
exclude a request that waited for a new token: the text is read before that wait
and the sequence taken after it, so an old text can overtake the final card.
`HandledOnce` excuses a call that went on without the lock directory, or lost
it, and a file emptied by a process that died, but neither crashes elsewhere nor
expiry; `AnsweredNotFailed` also a record that could not be written, and a reply
whose answer was lost. `RecordsTrue` holds where nothing but the chat mode and
requests to Feishu failed; it says which untruths these can bring about:
"replied" of a message for which nothing could be sent, and "failed" of one
whose reply's answer was lost. After a crash a record stays `processing`, after
an expiry there is none, and so on. `DroppedHasTwin` speaks of messages that
hold something: an empty one can be dropped for the picture it quoted, be
delivered again when its record has expired, and then quote nothing.
`ResultToItsChat` and `PendingExact` excuse a second result while one is being
sent, a text that is no result, and a run that ends without a text, with each of
which the code misroutes (section 5), but neither crashes nor overwritten or
torn files; `ResultsArrive` excuses those and failing writes too, `JobsKept`
only concurrent writes and a death in one. `SettingsHold` excuses the same two,
a reset during a write being one of them, and a setting that was baked into
`config.json` and cleared (`ClearReverts` below). `StopReaches` excuses a start
under way and a slow launch, `StartConnects` later stops, crashes and failed
connections, autostart off, processes slower than the code's sleeps, and a
restart that died between its two halves.

## 4. Proofs

All theorems hold for all values of the constants that satisfy the named
assumptions of the modules: a nonempty set of keys, natural bounds, defaults
among the choices; for the gateway, `HeartbeatEvery <= StaleAfter` and
`StartWithin <= StaleAfter`; for the bridge, that jobs are made in conversations
of the gateway; for the inbound messages, that the message which opened a thread is
in the same chat and is no reply (`ThreadAssumption`); a `None` that is none of the
values. Those that assume `~QueueTimeouts` say so: prompt timeouts, stops and
`/status` are within them. `CardsShowOwnText` assumes `~PromptTimeouts` as well,
without which it is false (section 5).

| theorem | statement | argument |
|---|---|---|
| `Conversation_proofs!TypeCorrect` | `Spec => []TypeOK` | `TypeInv` adds what the local variables of a turn hold at each step |
| `ConversationsAreSerial` | without queue timeouts `Spec => []TurnsInOrder` | see below |
| `QueueRefinesTurnQueue` | without queue timeouts every behaviour's steps are those of `TurnQueue`, or stutter | the same invariant; the step of a turn maps to `Accept`, `Start`, `Finish` or a stutter (`MappedStep`) |
| `NoCardSpins`, `StoppedCardsStand` | `Spec => []NoCardLeftRunning`, `Spec => []StoppedStaysStopped` | `CardInv` for the first: a stopped run has a final card, and one that is being closed got its status from its own turn; see below for the second |
| `ConclusionsAreFinal` | `Spec => FirstConclusionWins` | whoever changes a status has found the card running, in the same step |
| `RegistryIsSound`, `RegistrationsAreKept` | `Spec => []RegisteredIsPrompting`, `Spec => OwnRegistration` | how a step may change the registry (`Registration`), with the fact that a key's turn keeps its key |
| `Session_proofs!PromptsHaveTheirSession`, `PromptsFollowTheChoice`, `FilesFollowTheWorkspace`, `RegistersAreExact` | without queue timeouts `Spec => []` `PromptedSessionLive`, `PromptUsesChoice`, `FileInWorkspace`, `RegistryExact` | see below |
| `CardsShowOwnText` | without queue and prompt timeouts `Spec => []OwnDeltas` | `RunsArePrompted`: Pi runs no prompt that its turn has stopped waiting for; the registered run is then the one that streams |
| `NoDuplicateConnections` | `Spec => []TimelyExclusion` | see below |
| `OwnersKeepTheRecord` | `Spec => RecordRespected` | the same invariant; the write of another process needs a stale or absent owner |
| `UpdatesAreSerial` | `Spec => []StreamUpdatesSerial` | inductive beside the types |
| `FinishedCardStands` | `Spec => FinalCardStands` | see below |
| `LatestProcessIsShown`, `TheAnswerReaches` | `Spec => []LatestProcessShown`, `Spec => []AnswerReaches` | see below |
| `MessagesAreHandledOnce` | `Spec => []HandledOnce` | see below |
| `AnswersAreNotFailed`, `RecordsAreTrue`, `DroppedHaveTwins` | `Spec => []` `AnsweredNotFailed`, `RecordsTrue`, `DroppedHasTwin` | see below |
| `TopicsStayTogether` | `Spec => []TopicTogether` | the key of a call is the one its own message has, but for a chat mode that was missed (`KeyOK`) |
| `SentMeansPosted` | `Spec => []SentIsPosted` | see below |
| `JobRoutesAreKept` | `Spec => []JobsKept` | see below |
| `PostsAreInOrder`, `PendingIsExact`, `ResultsReachTheirChat` | `Spec => []` `PostedInOrder`, `PendingExact`, `ResultToItsChat` | see below |
| `SettingsTyped`, `SettingsAreKept` | `Spec => []TypeOK`, `Spec => []SettingsHold` | see below |
| `StopsReachEveryDaemon` | `Spec => []StopReaches` | see below |

`TypeCorrect` is proved for `GatewayLock`, `CardStream`, `Inbound` and `Bridge` as
well; `SettingsTyped` is its counterpart for `Settings` and `Daemon`.

*ConversationsAreSerial.* `TurnsInOrder` alone is not inductive: that a turn's
predecessor is done says nothing about the turns before that. `ChainOK`
describes the promise chain: the tail of a key's queue is its last turn, and
every turn waits for the last turn of its key before it. With it, a turn that
starts has a predecessor that is done, and that one had started itself, so that
every earlier turn is done by `TurnsInOrder`. The proof goes through `Progress`,
which says how any step moves a program counter, so that the actions are
examined once (`StepProgress`) and not once per invariant.

*StoppedCardsStand.* The answer can come onto a stopped card only if the prompt
returns while a stop is closing that card, with the run not marked as stopped.
`StopsOK` says that whoever closes the card of a run that is no longer marked has
a second stop of the run beside it, whose abort failed; `TextOK` that the text of a
card whose status is "stopped" is that of the stream until then, and what is shown
follows it. That a run which can be stopped is still prompted
(`RegisteredIsPrompting`) excludes that its text has been settled before.

*The sessions.* `SessionInv` has five parts: a session lies in one key's cache
from its creation until it is disposed, and a turn that uses one uses that of
the cache (`CacheOK`); stored files are files of sessions that were created
(`FilesOK`); file and workspace belong together; the cached session is one of
the current choice, but for a model that a turn about to dispose it has changed
(`ChoiceOK`); and the registers name the prompting turns (`RegisterOK`). That at
most one turn of a key is under way (`OneAtATime`, from `TurnsInOrder`) is what
makes it inductive: nobody disposes a session, nor chooses another workspace, under
a turn that has taken the cached one. The end of a prompt takes its session out of
the bridge's set, and since sessions belong to one key no other prompt uses it.

*NoDuplicateConnections.* The invariant `IInv` says something only while
processes have kept time: the lock directory is held exactly by the process in
its section and the section takes no time (`DirOK`); a starting or live process
owns the record, and the outcome of an access stays true until it is acted upon
(`OwnerOK`); the record of such a process is not stale (`FreshOK`), because its
age is bounded by the time since the owner's last heartbeat, or since its start.
Two connections would need two owners.

*FinishedCardStands.* While nobody waited for a token, requests carry sequences
in the order in which they were sent and those of `close` are the last
(`OrderOK`); so a card that shows its final status has seen a sequence that no
request still on its way exceeds (`FinalOK`), and the server drops them.

*MessagesAreHandledOnce.* As long as nobody went on without the directory and no
crash emptied the file (`Orderly`): a call within the section holds the
directory, so that what it has read is what the file still holds when it writes;
a claim that was answered with "claimed" and not yet taken up has made the
message known and is the only one of the message (`ClaimOK`); and a message that
was handled is known, so that no other claim succeeds (`OnceOK`). Expiry resets
both sides at once, as it comes when no call is at work.

*SentMeansPosted* needs no excuse: marks come only from deliveries whose last part
has been posted, and a write that overwrites another's can lose a mark or bring an
old file back, but not make a mark. `SentInv` says this of the file, of every
write under way and of every delivery that is about to mark.

*JobRoutesAreKept.* While processes have written one at a time and none died in
it (`Apart`), a write under way extends what is in the file (`WriterOK`).

*The process block and the answer.* `BlockOK` says where the last change of the
block is: the card was created with it, shows it, has it on its way, or waits for a
timer that will send it. That a request may still go to a card that `start` has
given up is why it needs `StartOK`: such cards are older than the one `start` works
on, so that they cannot stand in for it. `AnswerOK` follows `close` through its
requests: each is for the card that was sent as a reply, with a sequence that this
card has not reached, and what `close` ends with is the whole text, or what
`ensureFinal` has made of it since, unless that was lost. It rests on the
invariant of `FinishedCardStands`.

*The records.* `OwnerOK` says that a message has one call at a time between its
claim and its mark, and `ShownOK` that this call has sent nothing before, and no
reply when it fails, unless the answer to one was lost. Hence an answer and an
apology come from the same call, which sends one of them. `RecordsAreTrue` adds,
while nothing but chat modes and requests failed, that a call writes what the
file holds but for its own message (`ViewOK`), that its mark is what the sender
got or could not be sent (`CallTrue`), and that messages at rest have a true
record (`Truth`): a write of the whole file by another call changes no record
but its own.

*DroppedHaveTwins.* `TwinInv` says what `recentContent` remembers: the content of a
message that this process let through, which has been handled and which no call is
deciding about. Therefore a call that finds its content there repeats another
message and not its own, and a restart, which empties the cache, does no harm.

*The deliveries.* `RunsOK` says that a run's text is delivered by one task at
most, and `OrderOK` that its posts end with the part before the task's next one,
or with that part if an answer was lost. `QueueInv` is about the arrays that the
sessions' entries and the deliveries share: while sessions end each run with a
text, say nothing else and send one result at a time, a delivery under way holds
the array that its session's entry has, whose head is its text, and the rest is
what the session has not answered. So the head that is removed at the end is the
result that was sent. With `RoutesOK` (a route leads to the job's own
conversation or nowhere, in the file and in every write) it follows that a
result goes to the conversation of its job (`ChatOK`). None of it depends on the
processes: a crash takes a session's entry and its deliveries together.

*SettingsAreKept.* While no two runs write at once and none dies, one run at most
has a file open (`WriterOK`); what it is about to write is what the file holds, but
for what it changes (`DraftOK`); and the files hold what was asked for (`WishOK`).
Looking for the invariant showed that a reset which removes `config.json` during
another run's write is such a write itself.

*StopsReachEveryDaemon.* While nothing is slow and no run dies, a daemon is a shell
only as long as the run that launched it settles (`ShellOK`); so a stop that begins
when no start is under way, and meets none, finds no shell, which the reaper would
miss, and ends all that it finds (`StopOK`).

*Only model-checked* is liveness (`EveryTurnEnds`, `NeverBlocked`, `DuplicatesEnd`,
`CloseEnds`, `EveryEventEnds`, `ResultsArrive`, `StartConnects`, and the fairness
of `TurnQueue` in `ImplementsTurnQueue`): it rests on fairness and with it on
ENABLED, which is beyond the prover.

## 5. Where the code and its texts disagree

1. **A stop can abort the next turn** (`StopAbortsOnlyItsRun`).
   `stopConversation` checks that its run is current, then awaits the card's
   closing requests; meanwhile the run can end and the next turn of the key can
   start on the same cached session, which the stop then aborts.
2. **A slow start duplicates the connection** (`SlowStartExclusion`). The
   heartbeat begins only after `transport.start()`, so a start that takes longer
   than `LOCK_STALE_MS` loses the record to a second daemon, and both connect.
   The first one finds out in its first update.
3. **A refused card has no fallback** (`FallbackOnFailure`). Only exceptions lead
   to the plain reply; a final update that Feishu refuses is logged.
4. **A cleared override does not revert** (`ClearReverts`). `/feishu autostart`
   saves what `loadConfig` returns, with the overrides merged, as `config.json`
   (`index.ts:439-445`); an override that is cleared afterwards stays, against
   the promise of `feishu_config_clear` (`index.ts:680`).

Met while modelling, without a run of their own:

*Turns and cards.*

- A click that is handled as the run ends returns a card with "nothing is
  running" in place of the answer (`index.ts:184`), against the comment above it.
- A process block that changes between the request that creates the card and its
  answer is kept but not sent (`cardkit-stream.ts:226`).
- When a prompt times out nobody aborts it. Pi goes on, and its deltas go to the
  card of the run that is registered next for the key
  (`conversation-manager.ts:466`), although the field is described as the
  callback of the current turn (line 25). For the counterexample, let turn 1 time
  out, turn 2 of the same key be registered, and Pi write one more delta for turn
  1: `mixed` becomes `{2}`. This is why `OwnDeltas` belongs to the run without
  timeouts.
- If `abort` fails, the run is marked as not stopped again
  (`conversation-manager.ts:205`), but its card already has the status
  `stopped`: the prompt goes on, and its answer is not shown. With a second stop
  it may be: while the first one still closes the card, the second one's abort
  fails, the prompt returns, `ensureFinal` (`reply-card.ts:375-379`, which does
  not ask for the status) writes the answer into the stream, and the `close`
  under way, which reads the text again (`cardkit-stream.ts:299-375`), puts it
  on the stopped card.
- A session whose creation was rejected stays cached
  (`conversation-manager.ts:408`): prompts of the key fail until a command
  disposes it.
- "At most one CardKit PUT in flight" (`cardkit-stream.ts:37`) holds among the
  streaming updates, as proved, but the updates of `close` do not wait for one
  that is on its way.
- If `close` begins while `start` runs, `start` arms the interval after `close`
  cleared it (`cardkit-stream.ts:133-135`), and nothing clears it again. A retry
  of `start` whose first answer was lost creates a second card (line 86).
- The plain reply always has the status `done` (`reply-card.ts:178`), also for a
  stopped or failed turn.

*Messages.*

- A process that dies between claim and mark leaves the record `processing`: the
  message is not handled again for 24 hours, and each redelivery renews them.
- A message that failed and is sent again within five seconds, and a second reply
  of the same words to another message, count as repetitions and are dropped: the
  quoted text and the first one's fate are no part of the comparison.
- A chat mode that cannot be asked for makes a topic a plain group for one
  message: if its event does not name the thread, it goes to another conversation.
- A prompt whose card could not be created, and whose plain reply fails as well,
  resolves all the same (`conversation-manager.ts:135-145`): its message is recorded
  as replied (`message-handler.ts:153`), though the sender got nothing.
- A reply that was sent, but whose answer was lost, throws
  (`transport.ts:477-486` for cards, which are not tried again): a command that was
  answered is recorded as failed, and its sender gets an error as well.
- A death in the midst of a write empties `dedupe.json`: what was handled may be
  handled again.

*Scheduled results.*

- `handleAssistantResult` looks at the head of the queue, awaits the delivery and
  then removes the head (`bridge-runtime.ts:86-101`): a second result meanwhile goes
  to the first one's conversation, and the next is dropped. Any assistant text of
  the session, an interim remark or the answer to a user, counts as the result.
- A run that ends without a text (an error, or nothing but tools) returns before
  its entry is removed (`bridge-runtime.ts:97-98`): every later result of the
  session goes to the job before its own, until the process ends.
- A request that fails for good is logged and the result is forgotten. The
  gateway's posts are not retried at all (`transport.ts:451-475`), the texts and
  cards beside them are.
- Results without an id are known by their output: a job that reports the same
  words twice is heard once, for ever.
- `bridge.json` is rewritten without a lock by all Pi processes; a lost update can
  take a job's route, and a death in a write all routes.

*Settings and daemons.*

- With autostart off, a daemon launched by `/feishu start` stays idle
  (`index.ts:464`), though its user is told that the connection has been started.
- The spawn lock is waited for one second and held for at least one and a half
  (`index.ts:586`), so the second of two starts goes on without it.
- The reaper does not recognise a daemon whose shell has not become Pi yet
  (`index.ts:559`); a stop in that moment misses it. The shell and its
  `tail -f /dev/null` (line 270) stay behind when a daemon ends.
- An owner that takes longer than 800 ms to end makes the next daemon exit, or a
  start answer that one is running; no daemon is left.
- With the credentials in the environment `/feishu autostart` changes nothing
  that is read, and writes the secret to `config.json`. `/feishu reset` leaves
  `runtime-overrides.json` (`index.ts:395-399`), which the next setup inherits.
- Two settings changed at once by two processes can lose one
  (`runtime-config.ts:171-176`).

## 6. Not modelled

- Cards and builders, debug log, types and the webhook server: layout without
  state, input and output.
- Formatting and splitting of texts (`rich-text.ts`, `splitText` in
  `transport.ts`), parsing of messages, cards and setting values: pure functions
  on strings, here represented by their outcomes.
- `CHILD_SESSION_ENV` while sessions are loaded: whether it matters depends on
  when Pi evaluates an extension, which this repository does not show.
- `resetMemory` and what reset removes besides `config.json`; the launcher
  processes beside a daemon; the status line and the cards of choices; downloads
  and the memory of outbound messages.
- Crashes of the gateway within `Conversation`: `state.json` is what survives
  one, and `FileInWorkspace` is about it.
- Partial reads of `locks.json` (`gateway-lock.ts:175`).

## 7. What is left

The modules of the first plan are written. What would add most to them:

- `resetMemory` and `attachSession` as actions of `Conversation`, with creations in
  flight.
- The composition of `Inbound`, `Conversation` and `CardStream` for one message:
  what `Inbound` takes for a reply is a card that was closed or its fallback.
- The composition of `Daemon` with `GatewayLock`, in which an owner may stall.
- Theorems: no safety property of a passing run lacks one. Open are those of the
  compositions above, and the gateway's other half: that a process which lost the
  record notices it in its next access.
