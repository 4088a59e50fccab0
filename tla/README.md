# ForgePilot Studio: a TLA+ verification project

TLA+ models of ForgePilot Studio (the Python backend under `src/openhands` and
the hosted server under `src/enterprise`): the event stream of a conversation
and the loop that runs an agent on it; the managers that start, share, move and
close conversations; the shell, the condensers, the execution harness and the
web hooks around them; and the accounts of the hosted server. TLC checks the
models on small instances; TLAPS proves theorems about every one of them for
every value of their parameters: each safety property the passing runs check is
also stated by a theorem. `PROJECT.json` lists the runs, the source lines each
definition models, the hazards, the findings and the theorems.

## 1. The system

A conversation is one *event stream* (a durable, numbered log of actions and
observations, with subscribers) and the components that subscribe to it:

| Component | State | Operations | Talks to |
|---|---|---|---|
| Event stream (`events/stream.py`, `events/event_store.py`, `storage/local.py`) | `_cur_id`, write page, event files, cache pages, queue, subscribers and their pools | `add_event`, `search_events`, `subscribe`, `unsubscribe`, `close`, queue thread | file store; calls every subscriber's callback on its own single-worker pool |
| Agent controller (`controller/agent_controller.py`, `controller/state/*`) | agent state, pending action, history, last error, delegate, iteration and budget flags | `on_event`, `_step`, `set_agent_state_to`, `_reset`, `start_delegate`, `end_delegate` | the stream (events in, events out), the LLM (a blocking call), the session (status callback) |
| Runtime (`runtime/base.py`) | the action it executes | `on_event`, `_handle_action`, `run_action` | the stream, the sandbox, the session (status errors) |
| Memory (`memory/memory.py`) | microagents | `_on_event` (recalls) | the stream, the session |
| Web session (`server/session/*.py`) | event loop, agent session, starting and closed flags, runtime, controller | `dispatch`, `_send_status_message`, `start`, `close` | the client; sets the controller's state from another thread |
| Standalone manager (`server/conversation_manager/standalone_*`) | sessions by id, connections, active and detached conversations | join, evict, close, attach, detach, clean-up | sessions, sockets |
| Clustered manager (`enterprise/server/clustered_*`) | the same, on several servers; keys with an expiry and messages in Redis | start if the key can be set, refresh, recover, close | the other servers, through Redis |
| Nested manager (`enterprise/server/saas_nested_*`) | a starting key per conversation, runtimes | start in the background, make room | the runtime API |
| V1 conversations (`app_server/app_conversation`, `app_server/sandbox`, `event_callback`) | start tasks, conversation rows, sandboxes | start, web hook, delete, pause, resume | agent servers in sandboxes |
| Pending messages (`app_server/pending_messages`) | queued rows under the task's id or the conversation's | queue, rename, post, delete | the start task, the client |
| Harness (`forgepilot/harness`) | tokens, audit | evaluate, issue, consume, execute | nothing calls it from the runtime yet |
| Condensers and `View` (`memory/condenser`, `memory/view.py`) | none (functions of the history) | `View.from_events`, `condense` | the agent's step |
| Bash session (`runtime/utils/bash.py`) | last status, last output, the tmux pane | `execute` | the shell and what runs in it |
| Batched web hook (`storage/batched_web_hook.py`) | batch, size, timer | `write`, `delete`, `flush`, timer, sender | the receiver in `event_webhook.py` |
| Device flow (`enterprise/.../oauth_device.py`) | device codes, API keys | authorize, verify, poll | two users' browsers and a device |
| Organizations (`org_member_service.py`, `org_invitation_service.py`) | roles, selection, invitations, the LiteLLM team | remove, change, invite, accept, switch | the database, LiteLLM |
| Billing (`routes/billing.py`) | bills, budgets | checkout, success, cancel | Stripe, LiteLLM |
| Port locks (`runtime/utils/port_lock.py`, `docker_runtime.py`) | a lock file per port, its flock | find and lock a port, check it, run a container on it, close, fall back | the file system, Docker, other processes |
| Provider tokens (`auth_token_store.py`) | a row with its lock | load, refresh, store | the identity provider |

What is hard: `add_event` does most of its work outside its lock, and a crash
may fall between any two of its steps; each subscriber has a thread of its own;
the controller's callback blocks for the whole LLM call while the session's
event loop sets states; observations of actions that were given up arrive late;
parent and delegate share one subscription, one set of limits and the stream.
In the servers every `await` lets another request in between a check and the
write that relies on it; what spans two stores (database and LiteLLM, database
and sandbox, Redis and memory) may fail in the middle; keys expire while their
owner is busy. What makes the parts correct:

- stream: what was delivered is on disk and stays there; ids are never reused;
  all subscribers see one order; reading through pages equals reading files;
  everything added is delivered; the queue thread survives;
- controller: what needs confirmation does not run before it; every release of
  an action the user was asked about has a confirmation of its own, and a repeated
  answer releases nothing; the agent never waits for something nobody will do; limits hold across
  delegation and resumption; a delegation is answered once; the agent comes to rest;
- managers: a session that closes releases what it created, none is lost; what
  a request attached to stays connected; one loop per conversation in the
  cluster, which comes back after a crash; limits hold;
- V1: what a READY task names exists; no queued message vanishes or overtakes;
- harness: a confirmation is for one action and one execution; every return is audited;
- shell and condensers: one command at a time, its own exit code, output once;
  a condensation settles, keeps what it has not seen and the task;
- accounts: a key for a code that was authorized; an owner remains; who has
  access is a member; credits are paid for; a refresh token is used once.

## 2. Modules

| Module | Models |
|---|---|
| `EventStream` | the event stream over a local file store, with writers, readers, subscribers, failing writes and crashes |
| `EventLog` | abstract: one durable log that subscribers read |
| `MCEventStream` | subscriber names, their sorted order and the symmetry sets for TLC |
| `EventStreamProofs` | theorems about `EventStream` |
| `EventLogProofs` | that `EventStream` implements `EventLog` |
| `AgentController` | controller, delegate, control flags, runtime, memory, status errors and user, over the stream's promise |
| `AgentControllerProofs` | theorems about `AgentController` |
| `Sessions` | agent sessions under the standalone manager: join, evict, start, close, clean-up |
| `Conversations` | one conversation's attached, detached and cleaned-up `ServerConversation`s beside its session |
| `Cluster` | agent loops, clients and Redis on several servers that crash |
| `NestedConversations` | the starting key, the limit and the background start of nested servers |
| `AppConversations` | start, web hook and deletion of V1 conversations in shared sandboxes |
| `PendingMessages` | the queue of messages for a conversation that is not ready |
| `Permits` | abstract: permits granted for a subject and spent at most once |
| `Harness`, `HarnessProofs` | policy, tokens and executions; theorems, and that it implements `Permits` |
| `Places` | a selection from a list, in order: the comprehensions of `View` and of the shell |
| `Condensing` | the view of a history and three condensers, while events arrive |
| `BashSession` | a shell in a pane, driven by calls that time out |
| `PortLocks` | Docker runtimes that lock, check, use and release a port |
| `WebHooks` | the batch, its timer, its senders and the receiver |
| `DeviceFlow`, `Orgs`, `Billing`, `ProviderTokens` | the accounts of the hosted server |
| `ConversationsProofs` | theorems about `Sessions`, `Conversations`, `AppConversations` and `PendingMessages` |
| `ClusterProofs` | theorems about `Cluster` and `NestedConversations` |
| `AccountsProofs` | theorems about `ProviderTokens`, `DeviceFlow`, `Orgs` and `Billing` |
| `RuntimeProofs` | theorems about `PortLocks`, `WebHooks`, `Condensing` and `BashSession` |
| `MCAgent`, `MCLiveness`, `MCServer`, `MCServices` | the instances TLC checks (section 3) |

### EventStream

`AssignId` is the block under the lock; `BeginWrite`/`FinishWrite` are the
temporary file and its rename; `StoreCachePage` writes the page the event was
appended to when it is full; `PutOnQueue` ends `add_event`. `WriteRaises` is the
exception path of both writes. The queue thread is `Dequeue`, one `Dispatch` per
callback, `DispatchDone`; `RunCallback` is the single worker of a pool.
`subscribe` has two steps because the callback is registered before its pool,
`unsubscribe` two because `pool.shutdown()` refuses work at once and waits for
the work it has; `close` joins the thread, cleans up one callback after the
other and clears the queue. `SearchStep` is one index of `search_events`.
`BeginCalculate`/`EndCalculate` is the unlocked first computation of `cur_id`;
only the readers in `EarlyReaders` may run it. `Crash` keeps `files`, `pages`
and leftover temporary files (`orphans`), and restarts. Event contents are model values; filters,
limits of a search and secrets are left out. A subscriber has one callback.

`EventLog` is what the stream promises: events are kept under identifiers of their own,
posted once to one log after they are kept, and read in that order by everyone, without
gaps by those that stay; a restart begins a new log. `EventStream` is mapped to
it by the event files (what is kept) and by what the first subscriber got, has in its
pool, is about to be given, and what is queued (the log). Two subscribers that come to
different orders, an event delivered before it is written, or twice, and an identifier
used again have no counterpart there. `AgentController` takes its stream
from this promise.

### AgentController

The stream is taken at its promise: one log `stream` and a cursor per
subscriber. Handlers are functions on a record of the state they read and write
(`World`), composed the way the methods call each other: `OnEvent` is `on_event`
with `_on_event`, the handler, the state change it causes and `_step` up to the
LLM call; `LlmReturns` is the rest of `_step` with its exception handling.
Everything else may happen between the two. `act` stands for
`tool_call_metadata`, the number of the LLM call. `RunEvent` models the copy `add_event` makes of an
action: only classes that declare `confirmation_state` keep it. `RuntimeTakes`
and `MemoryAnswers` go straight to the next event their callback reacts to.
Free choices: what `agent.step` does (`Outcomes`), whether the stuck detector
fires, whether a recall finds something, whether an action raises.
Abstractions: the handlers of the controller's thread and `ApplyStatusError` on
the event loop are atomic with respect to each other except at the LLM call; one
LLM call costs one unit of budget; the model is the web session
(`headless_mode=False`, a status callback); agents started as delegates do not delegate.
The client lags: once a state was shown the user may send what it offers, at any
later time and any number of times (stop after RUNNING, confirm and reject after
AWAITING_USER_CONFIRMATION, also one after the other), since `dispatch` checks nothing
and an answer names no action. A delegate is set RUNNING only if its action has a
task (`delegateIdle` is the action without one).

### Sessions and Conversations

A session is a record that says how far its start and its close are; sessions
are numbered as they are created, and the table maps a conversation to one.
A step of a model is what runs between two `await`s: `JoinConversation` up to the first
eviction, one `EvictOne` per victim, `FinishJoin`; `BeginStart` (which makes the
runtime: nothing suspends before that), what connecting it comes to, and
`CreateController` for `AgentSession.start`; `DisconnectOne`
per client, `TakeSession`, `MarkClosed`, `FinishClose` for a close. Whether
`close` waits for the start is the code's comparison of times, which ends the wait
after one interval: `hasty` marks the sessions whose close overtook their start.
`CloseFails` is the close whose `save_state` raises; it leaves controller and
runtime as they are (`unsaved`).
In `Conversations` the manager's lock is a variable, because `connect` is awaited under it; the
session is reduced to its stream and runtime, which an attached conversation
may share.

### Cluster and NestedConversations

Redis is a set of keys, each of which may expire once nobody refreshes it, and
one queue of messages per server that listens; a message to a server that is
down is lost. `TryStart` is `SET NX`; `Register` ends `_start_agent_loop`;
`PopSession`, `DeleteKeys` and `AnnounceClosing` are the close; `BuildRefresh`
and `ExecuteRefresh` are apart, because the pipeline is built from the table and executed
later; `FindStopped` is the periodic look for conversations nobody runs.
`SlowStarts` says whether a key may expire during a start or a close. In
`NestedConversations` the key is read, the runtime is asked for and the key is set in
three steps, as in the code. What counts against the limit are the running
conversations whose row was updated in the past week (`recent`, `WeekPasses`,
`RowUpdated`): the query of `get_running_agent_loops` sees no others.

### AppConversations and PendingMessages

A start goes through the states of its task; each is a step, since each is saved
and yielded. `HookReads` and `HookSaves` are the two transactions of the web
hook. A conversation may be started as a sub-conversation of another. Deletion
reads which sub-conversations there are, asks the agent server and deletes the rows of each
of them and then of the conversation itself, counts what is left in
the sandbox and removes it; `DeleteAborted` is a step of it that raises. The rows of the queue are a set; messages are
numbered as they are accepted, and the smallest number is the oldest
`created_at`. Variables that only the exceptions of properties
read (`half`, `overtaken`, and in the other modules `hasty`, `unsaved`, `late`,
`unsettled`, `crowded`, `forgotten`, `crossed`, `leftovers`, `muddled`, `stale`,
`overwritten`, `keyless`, `disturbed`, `stray`, `truncated`, `torn`) record that a
behaviour went through a race or a failure the code does nothing about; the comment
of each property says which one it leaves out, and why.

### Harness and Permits

`Permits` knows no clock, no pruning and no audit: a permit is granted for a
subject, may end, and is spent by one holder for that subject. `Harness` is
mapped to it by what was ever issued, what of it has expired, and which call
ran with which token. The policy's answers are computed from the action's kind,
target and permission; executors succeed, raise or are cancelled.

### The others

`BashSession` keeps the pane as a sequence of prompts, echoes and pieces of
output; the shell and the program run between any two polls. `Condensing` has a
history of events with their causes and translates `View.from_events` and the
arithmetic of each condenser. Both select from a list with `Places!Pick`, which
puts the member of rank n among the selected places at place n: the same list a
filter gives, in a form that can be proved about without induction. `Billing`
adds up by counting units for the same reason. `PortLocks` tells a file from the name it bears, since
`release` unlocks the file and then removes the name, and `acquire` opens the file before it locks it;
a port that is taken by another program, or that Docker only seems to use, is a
free choice. `WebHooks` has a timer that may have fired and be
waiting for the lock; the receiver answers at once and applies a batch later, operation by
operation, in a background task (`tasks`, `Process`) that may skip what it cannot
authenticate or place (`Skip`). In `BashSession` a poll may come before the terminal has
read what was typed. In `ProviderTokens` a login stores the pair Keycloak keeps
(`kept`), which a refresh may have spent meanwhile, and a load without a callback
returns what is stored. In `Billing` the budget of a team that LiteLLM does not
know the user in is read as zero. In `Orgs` an acceptance may fail after it has put
the user into the team (`leftovers`). `DeviceFlow`, `Orgs`, `Billing` and `ProviderTokens` have one step per
transaction or external call, and any number of requests at once; a transaction that
fails, a provider that does not answer and a clock that passes an expiry are
actions.

## 3. Runs

| Run | Checks | Bounds |
|---|---|---|
| `es_crash` | `TypeOK`, `DeliveredIsDurable`, `DurableEventsNeverOverwritten`, `ImplementsEventLog` | 2 writers, 3 events, pages of 2, 2 crashes, 1 failing write, a subscriber that comes and goes, close |
| `es_search` | `ImplementsEventLog`, `CachePageTransparent`, `SearchFindsDelivered` | 2 writers, 3 events, one reader in either direction, a failing write |
| `agent` | `TypeOK`, `NoUnconfirmedExecution`, `ReleasedOncePerAnswer`, `IterationsPaidFor`, `DelegationsSettled` of `AgentController`, in two settings | confirmation: 2 iterations per message, 2 inputs (with a fault, one of them a stop), or 3 answers and no fault; delegation: 3 iterations, 1 input (at the start, during an LLM call or while there is a delegate), budget, stuck detector |
| `liveness` | `NoLostWakeup`; `AddedEventuallyDelivered`, `ComesToRest`, `ClientEventuallyServed` | 2 writers and a reader that races the first `cur_id`; 2 iterations, 1 input, 1 fault, no delegation; 2 servers, 1 client, 1 crash |
| `server` | `ServerTypeOK`; of `Sessions`: `TableHoldsOpenSessions`, `ClosedReleasesRuntime`; of `Conversations`: `AttachmentsKept`; of `Cluster`: `OneLoopPerConversation`; of `NestedConversations`: `StartsAreControlled`; of `AppConversations`: `ReadyKeepsPromise`; of `PendingMessages`: `QueueIsFaithful` | two of everything that can race, one running conversation permitted, one crash |
| `services` | `ServicesTypeOK`; of `Harness`: `NoUnconfirmedRun`, `TokenSpentOnce`, `EveryReturnAudited`, `ImplementsPermits`; of `DeviceFlow`: `KeysMatchCodes`; of `Orgs`: `OwnerRemains`, `AccessIsMembership`; of `Billing`: `BooksBalance`; of `ProviderTokens`: `RefreshedOnce`; of `WebHooks`: `UpdatesArrive`; of `BashSession`: `ReportsAreOwn`; of `Condensing`: `CondensationSettles`, `NothingNeededForgotten`; of `PortLocks`: `LockIsExclusive` | two concurrent requests each, three members, three commands, histories of ten events, two runtimes that want one port, one of them killed |
| `es_stale_page` | violation of `CachePageTransparent` | one crash |
| `es_unsubscribe` | violation of `QueueThreadSurvives` | one subscriber that leaves |
| `agent_ungated` | violation of `NoUnconfirmedExecution` | 1 iteration |
| `agent_delegate_stall` | violation of `NoLostWakeup` | 3 iterations, 1 message |
| `sessions_left_behind` | violation of `NoControllerLeftBehind` | 1 conversation, 1 client |
| `ports_allocated_twice` | violation of `NoPortAllocatedTwice` | two runtimes, one port |

`MCAgent` runs the controller with two sets of constants, which a variable tells apart;
the properties are those of `AgentController`, evaluated in both (with the larger
limit, that of the delegation, in `IterationsPaidFor`). `NoLostWakeup` is false with
delegation and is checked in `liveness`, with one input; its theorem has no bound.
`MCLiveness`, `MCServer` and `MCServices` put parts that share no state into one
run: a variable chosen at the start says which part a behaviour exercises, and
the others stay in their initial states. The states are those of the separate
parts, side by side, not their product. Most of their properties are conjunctions
of named parts, defined and commented one by one in the module: what
`OneLoopPerConversation` asks, for example, is one host, a key for every loop and no
message dispatched twice.

Why the bounds are enough for the interesting cases: with pages of two events
and three events, a page is filled by two writers that may finish in either
order, the third event starts a new page or, after a crash, reuses the place of a
lost one; two crashes give a restart of a restarted process. Two inputs and two
iterations give: an answer repeated before the first is handled, a confirmation
of one action that is handled while the next one waits, a stop followed
by a message while the stopped action still runs (its observation arrives during
the next LLM call), and a status error applied after the user resumed; a third
answer gives confirm, reject, confirm about one action. Three
iterations with one message give a delegation, a late observation that starts
an extra step, and a delegate that hits the shared limit. In the servers the
races are between two requests, or a request and a background task, for one
thing, and a limit of one makes the second request evict the first; three
requests attach to one conversation so that one leaves while two hold it; four
calls on an organization give a removal, an invitation, an acceptance and a
switch in any order. A pane of five items loses its first prompt within one
command; ten events fill a view of six and condense it twice.

No run checks deadlock: with a bounded number of events, inputs, requests and
faults every behaviour ends. Symmetry is used only in runs without liveness.

**Fairness.** `EventStream`: weak fairness of each writer's next step, the queue
thread and the pools (threads the operating system schedules); no fairness of
failing writes, crashes, searches, subscriptions or close. `AgentController`: weak fairness of the
controller's callback, the LLM call (the client has a timeout and a bounded
number of retries), the event loop, the runtime (actions have a timeout) and the
memory; none of the user. `ComesToRest` is checked without delegation: with it, it
is false, for the reason `agent_delegate_stall` shows. `Cluster`: weak fairness
of every server's tasks, its listener and its periodic look for stopped
conversations (they run in loops of their own), and of the expiry of a key that nobody
refreshes (Redis); none of clients, crashes, stops or closes.

## 4. Findings

1. **A cache page can survive an event that was lost** (`es_stale_page`). Page
   `[0, 1]` is stored by the writer of event 0 while the writer of event 1 has its id and no file; crash; id 1
   is given to another event; reads through the page return the lost one.
2. **Unsubscribing can end the queue thread** (`es_unsubscribe`): the callback is
   still registered when its pool refuses work.
3. **File, browse and MCP actions are executed while confirmation is asked for**
   (`agent_ungated`): their classes do not declare `confirmation_state`, so the
   copy that goes into the stream does not carry it.
4. **A message that arrives while the LLM decides to delegate stalls the parent**
   (`agent_delegate_stall`): its recall is answered to the delegate.
5. **A session closed while it starts leaves its controller behind**
   (`sessions_left_behind`): `AgentSession.close` compares the time the wrong way
   round and stops waiting for the start after one interval; the start goes on,
   and the controller it then creates is never closed.
6. **Two runtimes can lock one port** (`ports_allocated_twice`): a lock file is
   removed by name after it was unlocked, so that a runtime that had it open locks
   a file without a name while the next one creates and locks another.

Other behaviours met on the way, most of them in the hazards of `PROJECT.json` with a
note: a confirmation that arrives late releases the action that is then pending, or
the same one again after it was rejected; a delegate that is given no task waits for a
message of the user; a close whose `save_state` raises leaves the runtime open; a
running conversation that was not updated for a week is not counted against the
limit; a sub-conversation whose parent is deleted while it starts may end READY
without a row; a login may store a refresh token that was spent; a
user without a LiteLLM membership who pays has the budget of the team replaced; an
acceptance that fails after the team was changed leaves the user in the team; the
first poll of a command may see the old prompt and report the exit code of the
command before; the receiver of web hooks may skip updates it has
acknowledged; the user whom a second verification of a device code replaces keeps a key; a
delegate that hit the iteration limit once and finishes later is never ended; the
event that ends a delegate is dropped, even a user's message; an action replaced
by a message and failed by the runtime gets no observation; a device code whose key could
not be created stays authorized, because the clean-up denies pending codes only;
two owners who demote each other at once leave an organization without one; a
success page loaded twice at once credits twice; overlapping requests start a
nested conversation twice; a web hook that read a conversation before its start
was saved overwrites it; a condensation requested for a short view raises, because nothing is left
to forget and `min()` gets an empty set.

## 5. Proofs

Each theorem holds for every value of the constants of its module: any number of
threads, servers, requests or users, any page size, limit or lifetime. A safety
theorem rests on an inductive invariant `I`: initial states satisfy it, every
action preserves it (one lemma or step per action), and it implies the property.
The properties alone are not inductive, because a step relies on what the same
thread or request saw earlier; what each invariant adds is said below.
Constants are restricted only by the named assumptions of the modules (bounds
are naturals, limits and sizes are positive, markers such as `NoEvent`, `"free"`
or `"nobody"` are not members of the sets they stand beside, sets that are
counted are finite), which TLC evaluates in the runs.

### Event stream

- `TypeCorrect`: `Spec => []TypeOK`. A search indexes into a page, so `PagesFull`
  (every page on disk is empty or full) and `SearchInRange` are needed beside it.
- `DeliveredStaysDurable` (`DeliveredIsDurable`) and `FilesNeverOverwritten`
  (`DurableEventsNeverOverwritten`), with failing writes and crashes, from
  `DurabilityInv`: every id on disk, in flight or left by a temporary file is
  below `cur_id` once that is known (`IdsBelow`), no id is in flight while it is
  not (`NoneInFlight`), writers in flight hold different ids (`InFlightDistinct`),
  a writer past its write finds its event in its file (`WriterState`), and so
  does everything on the queue, in the dispatcher's hand and in the pools
  (`QueuedOnDisk`). The step that matters is `AssignId` after a crash: `cur_id`
  is the largest listed id plus one, and `LargestExists` gives that largest id by
  well-foundedness of the order on a bounded set of naturals.
- `PagesTransparent` (`CachePageTransparent`), from `PageInv`: the write pages
  number their entries without gaps up to `cur_id` (`MemNumbered`), an id is on the
  pages once (`PagedOnce`), what a page says of an id is what that id's file
  holds or its writer is about to write (`PagedAsFiled`), and a page on disk is
  full (`StoredAreFull`).
- `SearchesFindDelivered` (`SearchFindsDelivered`), from `SearchInv`: what a
  search has found so far is in order and without repetition, and covers
  everything delivered before it began on the part of the range it has passed.
- `StreamImplementsLog`: `Spec => ImplementsEventLog` (module `EventLogProofs`).
  The initial state maps to an empty log and every action to a step of
  `EventLog` or a stutter: `FinishWrite` keeps an event, `PutOnQueue` posts it,
  `RunCallback` reads it, `Crash` restarts, a close that clears the queue cuts
  what nobody was given, and `Dequeue` and `Dispatch` only move an entry along
  `delivered \o inbox \o InHand \o queue`. The invariant `LogInv` says that the
  queue thread meets those that stay subscribed once per event and the first one
  first (`DispOK`), that what is in the log is on disk, has left `add_event` and
  is there once (`LogFresh`), that an event object has one identifier
  (`EventOnce`), and how far the others are behind the first subscriber
  (`Handed`: those that stay have the same entries but for the one being handed
  out; those that come and go have some of them, in that order).

All but `TypeCorrect` assume `EarlyReaders = {}`: a search that computes
`cur_id` for the first time while a writer takes an id can set it back, and then
they fail. `PagesTransparent` and `SearchesFindDelivered` also assume
`MaxCrashes = 0`: after a crash a page may be stale, which is finding 1.
`StreamImplementsLog` allows crashes and assumes that the order in which
callbacks are called (`sorted(self._subscribers)`) lists everybody who stays,
nobody twice, and begins with one who stays (`OrderIsComplete`): the log is read
off that subscriber. In a conversation the agent controller sorts first; it
subscribes when it is created and leaves when it is closed, so the theorem is
about the stream between the two, while the others may come and go.
The instances of `es_crash` and `es_search` satisfy these assumptions.

### Agent controller

The handlers are functions on worlds (the record of all the state they touch). The
proofs first say what world each handler leads to (`SetStateFacts`,
`HandleByKind`, `StepFacts`, `ProduceCases`), then of each action that it takes
the present world to such a world (`OnEventFacts` and its siblings). Five
inductive invariants rest on these, each on the ones before it:

- `TypeInv`: the types, and that a pending action is an event of the log with
  the same kind and call. Gives `TypeCorrect`.
- `DelegInv`: the delegate actions in the log bear the numbers of different LLM
  calls (`Numbered`); there is at most one report on a delegation and it comes after it
  (`ReportsOn`); and there is a delegate exactly while the last delegation has
  no report (`Open`). A delegate that is done, and whose limit was not hit, is
  ended by the event that is still to be handled. It gives `DelegationsAreSettled`.
- `PaidInv`: nothing is called before the first message of the user was handled
  (`NotStarted`), the one request to be RUNNING that nobody paid for is the
  session's own at the start (`OneStart`), and the limit is at most
  `max_iterations` for each request (`IterationsArePaidFor`).
- `WakeInv`, without delegation: for a RUNNING parent, whatever it waits for is
  on its way (`OnWay`): an LLM call, an event that will wake it, a thought the
  runtime has yet to answer, the command that runs or will be taken, the
  recall the memory has yet to answer, or an error that will stop it. That a
  pending command of a RUNNING parent is `confirmed`, and that the session's first
  request to be RUNNING cannot put an idle controller to work (`Starting`), are
  what makes it inductive (`NoWakeupIsLost`).
- `AskInv`, without actions that lose their confirmation state: of an action the
  user was asked about, and of any that was in the log before, each release has a
  confirmation of its own, handled before it (`PaidUp`, a comparison of two
  cardinalities for every prefix of the log); what was asked about is in the log
  before it is released (`AskedFirst`); and after a release the agent has left
  USER_CONFIRMED before the next one of the same action (`LeftSince`, `LeftBetween`). It
  gives `NoExecutionUnconfirmed` and `RepeatedAnswersReleaseNothing`. The
  answers themselves are unrestricted: any number, in any order, at any time.

`TypeCorrect`, `DelegationsAreSettled` and `IterationsArePaidFor` are for every
configuration. The hypotheses of the others, `WithoutDelegation` for `NoWakeupIsLost` and
`"askUngated" \notin Outcomes` for the two about confirmation, are where
the properties hold at all: findings 4 and 3 are behaviours that break them
otherwise. Both settings of `agent` satisfy the second, and `liveness` the first. As the code is,
delegation is rare: the only tool call that is turned into an
`AgentDelegateAction` is `delegate_to_browsing_agent`
(`agenthub/codeact_agent/function_calling.py`), a tool the agent does not offer.

### Conversation managers

- `SessionsCorrect` (`TableHoldsOpenSessions`, `ClosedReleasesRuntime`): a session in
  the table is not being closed; a close owns the session it took out, alone
  (`ClosersOwn`); and how far its start and its close are determines whether its
  stream, its runtime and its controller are open (`Settled`). `hasty` sessions,
  whose close did not wait (finding 5), release their runtime and may keep a
  controller; a close that ended with the exception of `save_state` (`unsaved`)
  releases neither, as in the property.
- `ConversationsCorrect` (`AttachmentsKept`): the lock is held exactly by the
  request that connects, under it there is no conversation but the one being connected (`LockedIsNew`),
  the count of the active conversation is the number of requests attached to it
  (`ActiveIsHeld`, where the cardinality lemmas come in), and an object that will
  close the session's stream was made before the session had its runtime
  (`BorrowedEarly`).
- `AppCorrect` (`ReadyKeepsPromise`): whatever knows a conversation (its row, a
  web hook that read the row, a deletion) knows it in the sandbox of its start
  (`WhereStarted`), READY is the last state a start saves (`ReadyIsLast`), the
  agent server keeps the conversation (`AgentHas`), and its row is stored with its
  metadata (`RowIsStored`) unless it, or its parent, is being deleted, or a
  deletion met its start or was aborted (`half`).
- `PendingTypes` and `TheQueueIsFaithful` (`QueueIsFaithful`): rows and requests
  that were let in count together against the limit (`Limited`), each message
  has one row (`RowsDistinct`), only the renaming makes rows of the conversation
  (`Renamed`), what it does not find is late (`OthersLate`), and what was read is
  still to be posted, in order after what was, or is settled (`WorkedOff`).
- `ClusterCorrect` (`OneLoopPerConversation`): a conversation has one claimant, a
  task that starts it or is about to delete its key, or the server that hosts it,
  and its key is set (`OneClaim`); an event is once in each channel
  (`MessagesOnce`), and once an event was dispatched the host of its
  conversation has no message of it left (`DispatchedIsGone`). The property is about starts and closes
  that are faster than the key expires (`~SlowStarts`).
- `NestedCorrect` (`StartsAreControlled`): of a settled conversation, one call
  asks or starts (`OneAsks`, `OneStarts`), its key is there exactly while one
  starts (`KeyIsStart`), and unless starts overlap, what is left running and
  counted once the one start has closed what it chose is below the limit
  (`RoomToStart`); what runs without being recent is `forgotten`, and so not
  counted (`OldForgotten`).

### Harness

- `HarnessTypeCorrect`, `HarnessConfirms` (`NoUnconfirmedRun`) and
  `HarnessSpendsOnce` (`TokenSpentOnce`), from one invariant: what the store
  holds was minted with the same subject and expiry and one identifier names
  one token; a token in the store that is not consumed was used by nobody, and
  a call's token was minted for its subject. Pruning is the step that needs it: a
  token that is gone from the store must not come back under its identifier.
- `HarnessAudits` (`EveryReturnAudited`), which is inductive together with the types.
- `GateImplementsPermits`: `HarnessSpec => ImplementsPermits`. Issuing is a
  grant, the clock ends permits, running with a token spends one, and pruning,
  refusals, ends, cancellations and the audit change nothing.

### Accounts

- `ProviderCorrect` (`RefreshedOnce`): whoever holds the row's lock has the row's
  own token (`LoadsSeeRow`), a token that was not issued was not presented
  (`UnissuedUnspent`), and a successor that a refresh is about to store is unspent
  (`SuccessorsUnspent`). A login may store a spent token, which is then `stale`.
- `DeviceCorrect` (`KeysMatchCodes`): a verification that creates a key is that of the
  user written into the code, unless a second one has replaced the user
  (`KeyAfterClaim`), and an authorized code without its
  key, unless creating it failed, has a verification that is about to create it (`KeyOnItsWay`).
- `OrgsCorrect` (`OwnerRemains`, `AccessIsMembership`): while a change relies on
  its check of the last owner, another owner is left or the crossing was recorded
  (`OwnerLeft`); who is being added is in the team already (`JoinersInTeam`); who
  is left there by a failure is in `leftovers`.
- `BillingTypes` and `TheBooksBalance` (`BooksBalance`): budgets may fall back
  when two callbacks overlap, so they cannot be compared with the credits one by
  one. The invariant has, for each team, the number of times its budget was
  raised (`Ledger`): these add up to the credits, a budget is at most its
  number, and a callback is about to write at most one more. As long as
  callbacks come one after another, do not fail half-way and can read the budget,
  what a callback read is still so (`InTurn`).

### Port locks, web hooks, condensers and shell

- `PortsCorrect` (`LockIsExclusive`): who holds a lock owns the flock of the file
  it opened (`HoldersOwn`), and a file that is open bears its port's name as
  long as no release tore the name off (`OpenIsNamed`). Without that proviso
  the step of `Unlink` fails, which is finding 6.
- `WebHooksCorrect` (`UpdatesArrive`): the last update of an undisturbed path is
  with one writer, in the batch, in the one batch under way (sent, or being
  applied by the receiver), or applied (`LatestTraced`); one
  flush at a time holds the lock (`OneFlush`); timers that were started are
  bounded by the writes (`TimersPaidFor`). The type invariant includes that the
  running size is the number of writes in the batch, below the limit.
- `CondensingTypesHold`, `ACondensationSettles` (`CondensationSettles`) and
  `NothingNeededIsForgotten` (`NothingNeededForgotten`): a view is as long as
  the set of what is kept, and one more with a summary, so that the arithmetic of
  the condensers is about cardinalities: what a planned condensation will leave
  is short enough (`WillFit`), and so is the view once it is in the history
  (`ViewFits`). A plan names nothing that is not in the history or arrived
  after it was made (`OnlyPast`), and never the first message (`TaskKept`). The lemmas
  about `Pick` and `InOrder` (ranks are one to one and grow with the place) take the
  place of an induction over the list. The attempt to prove `CondensationSettles`
  as it stood at first failed for a good reason: where the window of a pipeline answers a
  request, the view may still be too long for the condenser after it, in
  histories longer than those of the run (a limit of 4, eight messages of the
  user); the property now says so.
- `BashTypesHold` and `ReportsAreTheirOwn` (`ReportsAreOwn`): the end of the
  pane tells whether the shell waits (`PaneTellsShell`), a typed command that is not yet read
  is the last and finds the shell waiting (`CommandIsLast`), and the poll
  sees no new prompt while its command runs (`NoPromptYet`). For the output: what
  was reported, followed by what of the pane was not, is all the output there
  was, in order (`PaneIsWhole`), as long as no line was lost
  (`truncated`). All of this ends with the first poll that saw the old prompt and ended
  the call before the terminal had read its command (`hasty`), and with input that was
  read by the shell instead of its program (`stray`).

The exceptions that the properties name are the recorded races and failures of
section 2; the theorems say that nothing else can break the property.

### Only model-checked

- All liveness (`AddedEventuallyDelivered`, `ComesToRest`,
  `ClientEventuallyServed`): fairness and `ENABLED` are out of the prover's reach.
- `ServerTypeOK` and `ServicesTypeOK` as such: they are the conjunctions of the
  components' type invariants, for the instances that `MCServer` and `MCServices`
  put side by side. Each component's own types are part of its inductive
  invariant, and so proved.
- Wake-ups with delegation and confirmation with ungated actions: there the
  properties fail, as the violation runs show.

Nothing is proved by induction over data: what a list comprehension, a sum or a
search computes is stated by ranks, cardinalities or well-foundedness of the
order on the naturals.

## 6. Plan

1. *Done*: `EventStream`, `AgentController`, the managers, the V1 server, the harness with
   its abstract specification, the services and accounts; the theorems of section 5,
   one for every safety property of the runs, with two refinements.
2. Further parts: the start and retries of the remote runtime, maintenance tasks
   of the hosted server.

## 7. Not modelled, and why

Container and sandbox implementations, object stores, LLM clients, MCP clients,
git providers and chat integrations, and the frontend (except which inputs it
offers) are I/O or thin layers over external services, with no state of their own
that two actors share. Most of the V1 server and of the hosted server is routes
that read or write one row in one transaction, settings, secrets, migrations and
translations between formats: there is no interleaving to explore and a property
would restate the query. The stuck detector and the security analyzers are
predicates on data the model does not carry; their answers are free choices. The
tool registry, control plane, orchestration, audit, delivery, teamspace and
platform packages of ForgePilot are data classes and pure decisions on one
value. The Docker variant of the nested manager is the development form of the
one modelled. Of the controller: replay, saving and restoring state, loop
recovery, metrics. Of the port locks, the containers of other runtimes that a
failing start may stop; of the condensers, the message of the user that resumes an agent
after an exception, and a summary that itself exceeds the context window; of
the stream, errors of serialization under its lock. For these reasons the map covers a small share of the
repository's lines: the models are of the parts where several actors, failures
or long sequences meet.

## 8. Running

    tlc -workers 2 -config Agent.cfg MCAgent
    tlc -workers 2 -config Server.cfg MCServer
    tlapm HarnessProofs.tla
    tlapm AgentControllerProofs.tla
    tlapm EventLogProofs.tla
