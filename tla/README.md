# agent-augury in TLA+

agent-augury runs a team of LLM agents that talk on shared message threads and
go through a protocol of five phases (explore, split, execute, review, submit).
A phase is left when the whole team agrees: everybody says `READY:` in P1, and
in P2 to P5 a *consensus gate* counts `APPROVE:` messages for a draft. A human
follows from a terminal, a browser or a chat, writes, answers questions,
approves tool calls and interrupts. This directory holds models of the parts of
the runtime where agreement, scheduling, consent and recovery are decided, the
TLC configurations that check them, and TLAPS proofs about each: one gate, the
protocol, the turn, the approval of tool calls, the gateway, the resume after a
crash, the conversation with a model, the chat channel and the sign-in. Every
safety property that a passing run checks on a small instance is proved for all.

Paths below are relative to `src/agent_augury/` of the repository unless they
start with `docs/` or `fronts/`.

## 1. Inventory

| component | state it keeps | operations | what makes it correct |
|---|---|---|---|
| consensus gate, `core/protocol/approval.py` | quorum, approvals, draft author, proposal flag, human-pending flag, open flag | `on_message`, `bind_to_thread`, `set_participants`, `reset_for_round`, `restore_state` | opens exactly on a complete quorum; votes belong to one draft; never complete yet closed |
| collaboration protocol, `core/protocol/collaboration.py` (+ `phases`, `assignments`, `signals`) | phase, mode, roster, READY set, four gates, fired callbacks, committed split | `_on_message`, `advance`, `_handle_gate_open`, `_commit_p2_draft`, `set_roster`, `begin_round` | phases in order, left by agreement; one roster everywhere; somebody always owes the next word |
| session, `core/session.py` | agent tasks, parked set, step count, nudges, interrupt and deadlock flags, checkpoint task | `run`, `human_send`, `request_interrupt`, parking and D12, `resolve_approval`, `checkpoint`, `_setup` | a turn ends for a reason, and only then; nothing unread is lost; budget respected |
| message server, `core/server.py` | message log, index, threads with participants, inboxes, subscribers, SQLite rows | `send_message`, `human_send`, `drain_inbox`, `set_thread_participants`, `drop_inbox_from`, `inject_agent_notice`, load and restore | delivery to every participant once; log order = subscriber order; disk agrees with memory |
| agent loop, `core/agent/loop.py`; attention, `core/attention.py`; compaction, `core/compact.py` | conversation, step views copied at step start | `step` and its tool bodies, classification of what was drained, compaction by rule or by a model | a provider accepts the conversation; what is addressed to the agent is read |
| tool approval, `core/agent/approval.py`, `policy.py` | approval tokens and their state | `request_or_join`, `resolve`, `expire_due`, `mark_executed`, export and import | a call runs once per consent, and never without; nobody is asked twice, no request is forgotten |
| checkpoint, `core/checkpoint.py` | files of a session directory | save, load, `LATEST` | a resume never loses what the last checkpoint had |
| gateway, `gateway/*.py` | mailboxes, pending questions and approvals, running flag, queue of turns | publish, `handle_command`, the loops of the stdio and headless runners | what was accepted is heard once; a quit closes |
| chat channels, `channels/**` | per bot an outbox, per channel a gate, a memory of messages seen | enqueue, send with retry, inbound dispatch | each message in once; posts out in order, paced, none lost but with a warning |
| sign-in, `auth/`, `backend/nous_portal_oauth.py` | token in memory, shared token file, lock of the session | device flow, refresh, renewal after a 401 | a refresh token is used once; an expired token fails no call; every call ends |
| team planner, `planner.py` | dialogue before there is a session | `plan_first`, `plan_team`, `classify_answer` | (part of the gateway process) |
| web front, `fronts/web/src/bff` | replay ring, tabs, gateway process | connect, replay, command | a reconnecting client misses nothing silently |
| tools, prompts, backends' HTTP, CLI, configuration, user interfaces | none shared | - | - |

The runtime is one asyncio event loop, so code between two `await`s is atomic.
The places where other code gets in are what the models are about:

* `MessageServer.send_message` appends to the log, awaits the SQLite `INSERT`,
  and only then fills inboxes and calls the subscribers, one of which is the
  protocol. Several messages can be in that window.
* `AgentLoop.step` takes copies of the phase and the gate when it starts, then
  awaits a model call, then runs its tools one by one; an interrupt cancels it
  at any of these awaits.
* agents that have nothing to do *park* and poll every 50 ms; a turn ends when
  the protocol completes, when the step budget is gone, on an interrupt, when
  the loops have ended, or when the detector D12 sees that everybody is parked.
* the P2 draft may change the team in the middle of the message that opens the
  gate: `set_roster` touches the protocol, four gates, the threads, the inboxes
  and the set of running loops.
* a tool call that needs a human is refused at once and its request lives on in
  a store, a list of the bridge, prompts in chats and a checkpoint file; the
  answer comes in a task of its own, turns or restarts later.
* the bridge decides by a *running* flag whether what a human says is the next
  prompt or a message, while turns begin, end and are set up.
* the bots share a channel with one gate, the backends a token with one lock;
  holders sleep, are refused or are cancelled.
* `Checkpoint.save` replaces its files one by one, and a model may summarise a
  conversation while its agent goes on.

`PROJECT.json` lists under "hazards" each place where this can go wrong, with
the property that covers it or the reason why none does.

## 2. The modules

```
GateRules                the rules by which one gate counts, as operators
 |- ConsensusGate        one gate with agents, human, server and set_roster
 |    `- UnanimousVote         what a gate promises
 |- Collaboration        the whole protocol: four gates, roster, phases, loops
 |    `- AgreedPhases          what the protocol promises
 |- GateRulesProofs      lemmas about the rules
 |    |- ConsensusGateProofs   theorems about one gate
 |    `- CollaborationProofs   theorems about the protocol
SessionRun               one turn after another: loops, parking, D12, budget;
 |                       reads of the protocol what AgreedPhases promises
 |- SessionProofs        theorems about the turn and the sign-in
ToolApproval             requests, surfaces, answers, expiry, crash, resume
 |- Consent                    what the approval of tool calls promises
 `- ToolApprovalProofs
Conversation             one agent's conversation with its model
 |- DialogueProofs       theorems about the conversation and the chat channel
Recovery                 memory, database and checkpoint files
 `- RecoveryProofs
Gateway                  the process around a session: turns and commands
 `- GatewayProofs
Chat                     events out to a chat channel, messages in from it
 `- DialogueProofs       (see Conversation)
SignIn                   tokens of a portal, shared by backends and sessions
 `- SessionProofs        (see SessionRun)
MCConsensusGate, MCCollaboration, MCToolApproval, MCConversation, MCRecovery,
MCSignIn                 instances for TLC
```

Where one module stops the next begins: ConsensusGate is checked against
UnanimousVote, Collaboration composes four gates with the same rules and is
checked against AgreedPhases, SessionRun takes the steps of AgreedPhases when a
message is sent. What a turn does with a message is SessionRun's, how the
message got to the turn is Gateway's, how it got from a chat to a command is
Chat's; what an agent keeps of it is Conversation's, and what of all that
outlives the process is Recovery's. ToolApproval cuts through agent, store,
session, bridge and chat.

**GateRules** translates `approval.py` method by method on a record that is one
`ConsensusGate` object. `OnMessage` is `on_message`, with `BindByName` for the
binding of an unbound gate, `OnHumanStage` for the second stage, `OnDraft` and
`OnApprove` for the two kinds of vote. A message is its author and the first
signal `has_signal` finds. Both modules that have gates count with these
definitions, so what the lemmas of GateRulesProofs say holds for both.

**ConsensusGate** lets agents with stale views, the human and roster changes
loose on one gate. `inflight` is the window of `send_message`; it is a FIFO
because aiosqlite serves one connection from one worker thread, in the order of
the requests. `view` is what a step was given at its start: the copy
`gate_needs_signal` and the draft read. `current` and `tally` are history: the
number of the draft that is voted on, and for which draft each vote was counted
and cast.

**Collaboration** is `collaboration.py` and the parts of `session.py` that drive
it. Handling a message (`Hear`) is the whole chain the code runs without an
await: READY watcher or gate, the opened gate's callback, the commit of the P2
draft, `set_roster`, spawning, `advance` and the set-up of the next gate.
`StepStart`/`StepEnd` bracket a step with its copied view, `Allowed` is what the
tool layer lets through, `StartRun`/`LoopEnds`/`RunEnds`/`Interrupt` are `run()`.

**SessionRun** is `_run_impl`: `Engage` is the top of a loop to its first await,
`Park`, `Wake`, `GiveUp` and `Detect` are `_wait_for_gate_wakeup`, `QuietStep`
has the one-shot nudges, `ToolStep` the messages with everything they cause. A
message goes to all who hold its thread or to any few of them, as its text
mentions; `passedBy` is history: those asleep in the team whom a message to
others passed by, though it moved the phase or dropped their vote.
Instead of four gates it has the three variables of AgreedPhases, whose steps it
takes when a message is sent (`Speak`); that Collaboration implements
AgreedPhases is what makes this sound.

**ToolApproval** follows one token from the gate before a tool's body
(`ExecuteTool`: policy, normalisation, `request_or_join`) over the surfaces that
list it (`HandleApprovalResolve` for the bridge, buttons and typed answers of a
chat) to the task that resolves it (`ResolveApproval`), runs the call and tells
the agent (`FinishRun`) or dies with a call that raises (`FailRun`), and over
`FlushCheckpoint`, `Crash` and `RepublishPendingApprovals`. Tokens are numbered
as they are created and live equally long, so time is the number of tokens whose
time is over.

**Conversation** is a step of `AgentLoop` in full: what was drained is scored and
heard, skimmed or left (`attention.py`), the model is asked, the assistant turn
is appended with all its calls, the calls run one by one; around it compaction
(`compact.py`), backends that fail, interrupts, checkpoints and resumes.
`Acceptable` is what the providers take: for the one API turn by turn
(`OpenAITakes`), for the other after the turns were merged into alternating ones
(`AnthropicTakes`, with `Begins` and `ResultsFrom` for where a merged turn begins
and which results it has).

**Recovery** is what survives a crash. `log`, `inbox`, `conv` and `heard` are
the memory of the message server, the agents and the protocol; `rows` are the
INSERTs the database thread has not committed, `db` the table, `files` the
session directory with the number of the checkpoint each file is from. `Post`
and `Publish` are the two halves of `send_message`; `Flush`, `Interrupt` and
`SummaryEnds` take the snapshot that `WriteFile` writes, one `os.replace` at a
time, while the event loop stands still and only the database thread goes on.
`Resume` is `_load_from_db` and `_apply_resume_payload`, `StartOver` a session
asked for by its id that has no `meta.json`. `kept`, `torn` and `blurred` are
history.

**Gateway** has the loops of both runners (`SetupEnds`, `TakeTurn`, `TurnEnds`,
`AfterRun`, `Close`), the commands the bridge takes at any moment (`HumanSend`,
`HumanAnswer`, `SessionStart`, `InterruptCommand`, `QuitCommand`, `EofOrSignal`),
the tasks in which it sends (`Post`), and the planner that may come before
(`PlanFirst`). A message of the human is its number, wherever it is.

**Chat** takes an event from the bus's mailbox (`DrainMailbox`) to the outbox of
its bot and, chunk by chunk, through the gate of the channel (`Send` with its
waits, 429s and retries) into the channel; and a message of the human from every
bot that sees it to the one that takes it. `Routed` is what an event puts into a
bot's outbox, `Enqueued` the outbox after all events of the mailbox.

**SignIn** is `NousPortalOAuthBackend.complete` place by place: the token in
memory or in the file, the lock, the refresh in a thread, the device flow with
its polls, the renewal after a 401; with `CancelTasks` for cancelled tasks, whose
threads go on (`OrphanEnds`), and with a token file that may refuse a write:
after a refresh the backend then signs in again (`RefreshUnsaved`), after a
sign-in its call fails with the token in memory (`ApprovedUnsaved`). The portal
rotates refresh tokens or not and tells their expiry or not.

Two modules of proofs are about two components each, so the names these share
carry a prefix in one of them: `ChatInit`, `ChatNext` and `ChatSpec` beside
those of Conversation, `SignInInit` and so on beside those of SessionRun.

**UnanimousVote**, **AgreedPhases** and **Consent** are the abstract
specifications: what the gate promises its protocol, what the protocol promises
the session, and what approval promises the human.

### Abstractions

* A message's text is its signal and, for a P2 draft, who is assigned, who
  submits and whether it says `SPLIT: none`. The order of ASSIGN lines matters
  only when the roster is cut to `roster_max`; `RostersOf` allows every cut.
* In ConsensusGate and Collaboration `seq` numbers and timestamps are left out,
  and so is the phase REJECTED: no call advances to it.
* In SessionRun an inbox is the set of threads it has unread messages of, since
  only emptiness and what `drop_inbox_from` removes are ever asked. A step
  sends at most one message. A team is never empty and every run has a prompt.
  `max_steps` 0 (no budget) is excluded: the budget is then no bound.
* In ToolApproval a call is its agent, its class, whether it is dangerous, its
  text and whether its arguments are still as the model wrote them; the list of
  the bridge, a deque in the order of the tokens, is a set.
* In Conversation a turn keeps its role, the calls it makes or answers, the
  messages it quotes in full and its size; attention is in hundredths, as the
  code's scores are decimals. The turn that a new run's prompt appends
  (`core/session.py:1243`) is left out: it quotes no radio message and is a user
  turn like any digest, so neither property tells it from one, and with it the
  instance has some six million states.
* In Recovery the protocol is the set of messages its subscribers have heard,
  and a conversation the messages read and the sends known to have returned:
  what the gates make of the messages is GateRules' business. Rosters, threads,
  the human's inbox and `approvals.json` are left out.
* In Gateway all threads are one, and a turn's inner life is "reads its
  inboxes, asks". A turn a quit ends may go by `AfterRun` or straight to the end,
  as only the first one of an automatic run does the former
  (`gateway/session_stdio.py:348`).
* In Chat a text is its number of chunks, and time is in ticks. Messages without
  text, which are noted as seen and dropped (`channels/discord/bot.py:176`), and
  the second call of a handler without `message_id` (`bot.py:185`), which the
  installed one is not, are left out.
* In SignIn tokens are numbered as they are issued and live equally long. A
  backend has one call at a time; one beside it, such as a summary beside a step,
  is a call of another backend of the session, but shares no token in memory.
* What models say and which messages humans write is nondeterministic, within
  what the tool layer and the surfaces let through.

## 3. The runs

| run | module, instance | distinct states | question |
|---|---|---|---|
| `GateVotes` | MCConsensusGate, 3 agents, database, human stage, 2 drafts, 1 rejection, 1 roster change, 1 round | 122 000 | do votes belong to the draft, does the gate open exactly on unanimity, does it implement UnanimousVote? |
| `TeamSplit` | MCCollaboration, 2 agents (1 on the bench), 3 drafts, database, failures and interrupts, runs with and without a prompt | 975 000 | do roster, gates, threads and phase stay consistent under every interleaving and fault, and does the protocol implement AgreedPhases? |
| `TeamLive` | MCCollaboration, 3 agents (1 on the bench), human stage in P3, willing team | 39 000 | does every round complete? |
| `Turn` | SessionRun, 2 agents, budget 5, 1 retry, with and without a surface, failures, interrupts, 1 human message, messages to all or to any | 317 000 | is the budget kept, does a turn end, and for a reason, is every message read? |
| `Recovery` | MCRecovery, 2 agents, 2 messages or notices, 2 checkpoints, 2 crashes, model summaries | 3 520 000 | what may a resume lose, repeat or contradict? |
| `Approval` | MCToolApproval, 2 calls of 2 agents, 2 tokens, 3 answers from 3 surfaces, calls that raise, 1 crash | 667 000 | does a call run by consent only and once per consent, is a request forgotten or repeated, does an answer arrive? |
| `Conversation` | MCConversation, 2 messages of several kinds, 2 replies, 2 calls, 1 checkpoint, 1 cut | 1 474 000 | does a provider accept the conversation, is what is addressed read? |
| `Gateway` | both runners, 3 messages, 2 questions, 1 start, 2 interrupts | 525 000 | is what was accepted heard once, does a quit close? |
| `Chat` | 2 bots, mailbox of 2, 2 retries, 2 chunks, 3 events and messages | 596 000 | does a channel read in order and paced, is each message taken once, is what is queued sent? |
| `SignIn` | 2 backends in one or two sessions, 3 tokens, 3 calls, 1 interrupt, a file that may refuse a write | 557 000 | are refresh tokens used once, does expiry alone fail a call, does every call end? |
| `TurnBench`, `ConversationCut` | SessionRun, MCConversation | - | disagreements of code and documents, section 5 |

Every property of a passing run has a mutant in `PROJECT.json`: a definition
next to the one it mutates ("Mutated form of ..."), with which TLC finds the
property violated.

What the properties say, beyond the type invariant of each module:

* *ConsensusGate*: `VotesAreForTheCurrentDraft`; `NeverStuckUnanimous` (a
  complete quorum is open or before the human); `OpensOnUnanimity`;
  `VotesLostOnlyWithTheirDraft`; the refinement `ImplementsVote`.
* *Collaboration*: `RosterIsEverywhere`; `GatesFollowPhase`, which is
  `GateMovesPhase` (a gate that opens moves the phase once, and nobody sits in a
  phase with an open gate) and `NothingCountedAhead`; `SomebodyStillOwes` (never
  does everybody park for good); `RosterSettledBeforeHuman`; the refinement
  `ImplementsAgreedPhases`; and the liveness property `EventuallyCompletes`.
* *SessionRun*: `OverrunIsBounded` (by the steps already under way);
  `TurnEndsForItsReason`, which is `FadesOutOnlyByFailure`, `DeadlockIsReal` (when
  D12 fires, everybody in the team sleeps in the current phase and was counted or
  reminded in it, but for those a message passed by) and `BroadcastsPassNobodyBy`
  (only a message addressed to others passes somebody by); `EveryTurnEnds`;
  `EveryMessageIsRead`.
* *ToolApproval*: `NoRequestIsForgotten`, `OneOpenRequestPerCall`, the
  refinement `ImplementsConsent`, and `AnswerReachesAgent` (it is carried out and
  told, unless it comes too late, the process ends or the granted call raises).
* *Conversation*: `RefusedOnlyAfterACut` (no compaction, tombstone, summary or
  nudge makes a conversation a provider refuses; a cut is never mended, so one
  excuses all that is refused after it); `AddressedIsRead` (what a
  human, an urgent signal or a mention says is quoted in full or in a summary,
  unless a summary overwrote a conversation that had gone on).
* *Recovery*: `ResumeIsFaithful`, which is `TornSaveLosesNothing` (the order of
  the files in `save()` is what makes it true: an inbox written before the
  conversation it was drained into would lose the message), `NothingReadTwice`
  and `WhatWasSaidWasHeard` (both false after a torn checkpoint, hence their
  condition); `LogIsNumbered`, which is `SeqOrdersTheLog` (true as long as no
  restart has forgotten a notice, which had a `seq` but no row) and
  `IdsNameOneMessage`.
* *Gateway*: `NothingSaidIsLost` (an accepted message is in exactly one place:
  queue, task, prompt, inbox or read); `QuitCloses`.
* *Chat*: `ChannelReadsWell`, which is `PostsInOrder` (gaps only with a warning)
  and `PacedPosts`; `TakenOnce`; `QueuedIsSent`.
* *SignIn*: `RefreshTokensWorkOnce`, `ExpiryAloneEndsNoCall` (of the calls that
  met nothing but expired tokens: one whose renewal failed has another reason for
  its authentication error), `CallsEnd`.

`SetRoster` of ConsensusGate is guarded by `~gate.pending`; that is the
environment the protocol gives a gate, and `RosterSettledBeforeHuman` of
Collaboration checks it. It is limited to unfinished protocols because a message
that reaches a P2 gate between rounds may still be counted; there gates may open
that lead nowhere, and `set_roster` may meet a gate that waits for the human.

### Bounds, and why they are enough

Two drafts are the least with which a vote can be for the wrong one; one
rejection, one roster change and one round, each combined with everything else,
let every reset follow every other action. Three agents give a gate a voter, a
late voter and one who leaves. In TeamSplit two agents suffice for a bench, a
promotion and a demotion; TeamLive has three and a human stage, and the theorems
hold for any number. Messages in flight are bounded by the rule that a step
awaits its own sends, one per author. A budget of 5 steps for 2 agents lets the
team park, be nudged, pass a phase and still run out in the middle of a step.
The next phase of SessionRun is taken from `Route`, which skips phases that
behave alike. `Turn` has no bench (with one, `TurnBench` shows that the turn may
not end) and a model slower than the polls.

Two tokens are a request and its repetition, or the requests of two agents;
three answers let each of them be answered twice. Two messages and two replies
with two calls let a conversation be compacted between a call and its result,
and a cut come at each place. Three messages of the human reach a prompt, a
message and an answer; two interrupts hit a set-up and a turn.

Chat's mailbox holds 2 events where the code's holds 256: it overflows when more
is published before the drain scheduled with `call_soon` runs than fits, and the
bound makes that happen with 3. The channel's pause is 2 ticks, the memory for
duplicates 1, a 429 at most 1. In SignIn a call tries twice, and three tokens are
one that expires, its successor and a race for the next. A device code is polled
for once, and the interval it starts with is the longest (`MaxPoll`), so that a
poll told to slow down stays as it was; the theorems hold for longer ones.

Recovery's two messages are a notice and a message, or a message read and one
unread; two checkpoints are what a torn one needs, and the second crash comes
after a resume whose log has gone on. Every message goes to everybody but its
author. The condition of `SeqOrdersTheLog` bites from the third message on (a
notice and a message, a restart, a message); `Recovery.cfg` with
`Agents = {a1}`, `MaxMessages = 3` and no symmetry passes too, and fails without
the condition. With two agents three messages are too many.

Deadlock checking is on in `Chat`, where time can always go on. It is off
elsewhere: drafts, tokens, calls and messages are bounded, a session may be over,
and nobody has to speak. What must go on is said by the liveness properties.

### Fairness

Weak fairness of what the event loop does by itself, and none of what humans and
models decide:

* SessionRun: of each loop. asyncio schedules every ready task, sleeps end, and
  a model call returns (the backends have timeouts).
* ToolApproval: of `ResolveApproval`, of `FinishRun` or `FailRun` (every gated
  tool has a time limit, so a call returns or raises) and of
  `RepublishPendingApprovals`.
* Gateway: of `SetupEnds` (connecting has time limits), `TakeTurn`, `AfterRun`,
  `Close`, and of `TurnEnds` for an interrupted turn only: another one may wait
  for a human for ever.
* Chat: of draining, of time, and of each bot's start and sender. Discord
  answers every request, but may refuse each of them.
* SignIn: of each backend's thread of control; a portal answers or a request
  times out. The human need not ever look at the device code.

`WillingTeam` of Collaboration is an assumption about the agents, stated for
`EventuallyCompletes`: a team that keeps saying READY:, drafts when there is no
draft and votes when it is not counted, a human who answers what waits for him,
and, in the property itself, that rejections and redrafts stop. Strong fairness
is needed where a message in flight or the end of a step disables an answer
again and again. Nothing makes a model do this; the property says the *runtime*
never stands in the way of a team that does, which is where a bench agent
without a loop, a leftover vote or an unarmed callback would show.

`EveryTurnEnds` is weakened by "or a loop was lost to a backend": D12 waits for
the inbox of the lost loop, which nobody reads (`core/session.py:1646-1650`).

## 4. What is proved

For every set of agents, every configuration and every bound. The assumptions
are the named ASSUMEs of the modules, which TLC evaluates in the runs:

* `AuthorsDistinct`: the human and "nobody" are no agents.
* `GateConstants`, `CollaborationConstants`, `SessionConstants`,
  `GatewayConstants`, `RecoveryConstants`, `ChatConstants`: types of the
  constants, at least one agent in a team.
* `ApprovalConstants`: besides, the calls contain the normal form of each.
* `ConversationConstants`: besides, scores and thresholds are in 0..100 with
  ignore <= skim <= mention, as `config.py` demands of a configuration.
* `SignInConstants`: besides, the interval a poll starts with is at most the one
  it slows down to.

One theorem has a hypothesis of its own: `ExpiredTokensEndNoCall` needs
`MaxAttempts > 1`, as with one attempt the renewal after a 401 is followed by
none; the code has 3.

| theorem | says |
|---|---|
| `ConsensusGateProofs!TypeCorrect` | `Spec => []TypeOK` |
| `NeverStuck` | `Spec => []NeverStuckUnanimous` |
| `UnanimousOpening` | `Spec => OpensOnUnanimity` |
| `VotesBelongToTheDraft` | `Spec => []VotesAreForTheCurrentDraft` |
| `NoVoteIsLost` | `Spec => VotesLostOnlyWithTheirDraft` |
| `GateImplementsVote` | `Spec => ImplementsVote` |
| `CollaborationProofs!ProtocolTyped` | `Spec => []TypeOK` |
| `RosterHolds` | `Spec => []RosterIsEverywhere` |
| `GatesAndPhaseMoveTogether` | `Spec => []GatesFollowPhase` |
| `NeverEverybodyWaits` | `Spec => []SomebodyStillOwes` |
| `RosterSettles` | `Spec => RosterSettledBeforeHuman` |
| `PhasesAreAgreed` | `Spec => ImplementsAgreedPhases` |
| `SessionProofs!TurnTyped` | `Spec => []TypeOK` |
| `BudgetHolds` | `Spec => []OverrunIsBounded` |
| `TurnsDoNotFade` | `Spec => FadesOutOnlyByFailure` |
| `TurnsEndForTheirReason` | `Spec => TurnEndsForItsReason` |
| `TokensTypeCorrect` | `SignInSpec => []SignInTypeOK` |
| `LocksAreServed` | `SignInSpec => []LockServed` |
| `OneUseOfARefreshToken` | `SignInSpec => []RefreshTokensWorkOnce` |
| `ExpiredTokensEndNoCall` | `SignInSpec => []ExpiryAloneEndsNoCall`, if `MaxAttempts > 1` |
| `ToolApprovalProofs!ApprovalTyped` | `Spec => []TypeOK` |
| `RequestsAreNotForgotten` | `Spec => []NoRequestIsForgotten` |
| `RequestsAreNotRepeated` | `Spec => []OneOpenRequestPerCall` |
| `ApprovalKeepsConsent` | `Spec => ImplementsConsent` |
| `GatewayProofs!GatewayTyped` | `Spec => []TypeOK` |
| `SaidIsKept` | `Spec => []NothingSaidIsLost` |
| `RecoveryProofs!RecoveryTyped` | `Spec => []TypeOK` |
| `LogStaysNumbered` | `Spec => []LogIsNumbered` |
| `CrashesLoseNothing` | `Spec => []ResumeIsFaithful` |
| `DialogueProofs!ConversationTypeCorrect` | `Spec => []TypeOK` |
| `AddressedMessagesAreRead` | `Spec => []AddressedIsRead` |
| `RefusalsFollowACut` | `Spec => []RefusedOnlyAfterACut` |
| `ChatTypeCorrect` | `ChatSpec => []ChatTypeOK` |
| `ChannelIsPaced` | `ChatSpec => PacedPosts` |
| `PostsKeepTheirOrder` | `ChatSpec => ChannelReadsWell` |
| `MessagesAreTakenOnce` | `ChatSpec => []TakenOnce` |
| `TheLineMoves` | `ChatSpec => []LineMoves` |

*One gate.* `NeverStuckUnanimous` is not inductive: a vote taken without a
draft, or a gate that was never bound but has votes, would break it in the next
step. `GateInv` strengthens it by `DraftedBeforeVoted` (a gate that requires a
proposal holds no vote without one, and knows its author) and `UnboundIsBlank`.
`OnMessageKeeps`, `SetParticipantsKeeps` and `ResetKeeps` show, on one gate
record and for every message, that each rule preserves `GateInv`; the theorems
lift them to the actions. `MaybeOpenFrame` and `VotesAfterMessage` say what a
message may do to the votes: keep them, drop them all, or leave only those that
are for the draft then current; with `Numbered` (`current` is 0 exactly without a
proposal, each vote's `tally` is `current`) they give `VotesBelongToTheDraft`.
`NoVoteIsLost` needs besides that drafts in flight are newer than the current one
in the order they come (`Newer`). `GateImplementsVote` maps each message to a
Vote, a Withdraw, a Decide, a Convene or a stutter by the same case split.

*The protocol.* Its properties hold together or not at all, so `TeamInv` carries
them at once: each gate is bound, holds only what is about a draft
(`AboutADraft`) and, until the protocol completes, keeps `GateInv`; the roster is
everywhere; gates follow the phase; only gates of earlier phases have fired
(`Round`); and the copies of a step and the
messages in flight are not ahead of the phase they were made in (`StepsInTime`,
`MessagesInTime`). The last two are why `NothingCountedAhead` is inductive:
without them a vote for a later gate could be in flight. `Hear` is split as the
code is: what a message does to its gate (from the lemmas of GateRulesProofs),
what an opened gate does to the phase, and what the commit of a draft does to the
roster. `RosterSettles` needs all of it too: in a round only the P2 gate can move
the roster, it does so as it opens, so it waits for nobody, and no vote is
counted at the gates to come (`OnlyItsPhaseOpens`). `NeverEverybodyWaits` follows from `TeamInv` in one state;
`PhasesAreAgreed` maps each message to an Agree, a Retract, a Leave or a stutter.

*The turn.* `OverrunIsBounded` is not inductive, as the steps under way do not
show in the count. `Budgeted` says that there is budget left, or the steps taken
and the calls being answered come to no more than the budget and one for each
other agent; a loop adds itself to the calls only while there is budget left, and
moves to the steps when its call returns. `LoopExplained` shows which steps of a
loop can leave nobody running. That D12 is right when it fires rests on what is
known of those who sleep (`SleepersSettled`): a parked member of the team with
nothing to read, whom no message passed by, fell asleep in the current phase and
has agreed or was reminded in it. A message that disturbs this either reaches the
sleeper or passes it by, which is what `Remember` writes down; what is special
about messages to all is `BroadcastsPassNobodyBy`, for which nobody off the team
may have a loop before the split (`NoBenchBeforeTheSplit`): who joins the team is
then spawned, or was in it and holds the thread.

*The sign-in.* `SignInTyped` has, besides types, the line of each session's lock
(`LockServed`): exactly its backends that wait or work under it, once each, the
working one first. `RefreshInv` says of each refresh token somebody still goes
by, in memory, in a request or in the file, that it is unspent, or `Lost`:
forfeited by a cancelled task, a lost answer or a file that could not be written,
or contested by two sessions, which a lock each cannot keep apart. That two requests of one session never
have the same token is `LockServed` again. For `ExpiryInv` a call that met no
other failure is followed (`OnceExpired`): only a token from memory can be
refused for its age, after that there is none in memory until the backend has
the lock, and what it gets under it is good and is not paused over.

*Tool approval.* `SafeInv` adds to the two safety properties
`OneSavedRequestPerCall`: the tokens a checkpoint would restore never ask twice
for one call, else a crash could restore what only the living store excludes.
`FewerOpen` is the step all answers and expiries share: they leave no more
requests open and no more saved. `ApprovalKeepsConsent` then goes action by
action; a crash maps to the one step of Consent that may reopen a request, and a
call that raises (`FailRun`) settles its own.

*The gateway.* `NothingSaidIsLost` says where a message is, not where else it
could be read from, so `GatewayInv` adds `Known` (queue, tasks, prompt, inbox
and what was read hold accepted messages only, and the planner leaves no prompt
behind) and `EachInOne` (each accepted message is in exactly one place until the
loop of turns is over, also while no session can be asked). The places are a
function `Spots` of the variables; `SlotsGrow` and `SlotsShrink` say what an
append and a tail do to the slots of a sequence, and each action then moves one
message or none: `TakeTurnKeeps` from the queue to the prompt, `SetupKeeps` from
the prompt, `PostKeeps` from a task to the inbox, `SayKeeps` from nowhere.

*The resume.* The invariant is built in two layers. `LogInv` is about the log and
its table: ids and numbers are given once (`Numbered`), what waits for its INSERT
comes after what is in the table, in order (`Queued`), and a seq is a place in
the log (`Ranked`); a restart that forgets no notice therefore keeps a beginning of
the log, and its length is the next seq. `RecoveryInv` adds what a crash depends on:
a message that is still being sent is known to nobody and in no file (`NotYet`);
a summary is of a conversation that has only grown since (`Behind`); a checkpoint
at work holds what the memory holds, and the files it has written are newer than
those it has not (`Written`); what was kept and is unread is in the inbox file
(`KeptUnread`), which is why the inbox may be written after the conversations and
not before; files with one version fit together (`FitTogether`), which is what a
resume that is not torn starts from. `GreatestExists` (the id after the last one is
well defined) is proved by counting, as no induction is at hand.

*The conversation.* `ConvInv` types the conversation, the saved copy and the
summary under way with one predicate, `Talk`, over the calls and messages there
are: what is quoted has been read, what is unread has not. `ReadInv` adds that
what was read and is addressed to the agent is quoted or gone with a summary, in
the memory and in the saved copy (`Kept`), which needs `AddressedEngages`: one
addressed message lifts a batch above the thresholds of every policy.
`PairInv` says, as long as nothing has been cut, that every call has its result
right behind its turn (`Paired`), or that all results of the last turn are still
to come (`OpenEnded`), of which some are at hand (`Halfway`); a summary under
way has the same shape on both sides (`Sides`), as the agent may go on while it
is made. That a compaction keeps this, wherever it splits, is shown on the
sequences: the tail does not open with a result, and what is replaced in the
head keeps roles and calls. From `Paired` both providers' conditions follow, for
the second by what merging does to the turns.

*The chat channel.* Posts are paced because who paces or sends holds the gate alone
(`OneHolder`: a bot stands in the gate at most once, and past waiting only at its
head) and because what is left of its sleep and what has passed since the last post
make up the interval (`WaitsLongEnough`). `TheLineMoves` adds that who has a post in
hand does stand in the gate. The order of posts (`OrderInv`) is an order along the
whole way: an outbox rises and the post in hand comes before it (`LinedUp`), both
hold the bot's own posts only (`OwnPosts`), what is in the channel is earlier than
what waits, and that than what is in the mailbox (`Later`); and every post of an
event is in the mailbox, waits, was shown or is known as lost (`Accounted`), which
is why a gap has a cause. `DrainedPosts` says what flattening the mailbox gives.
A message is taken once because the memory of a sight is never older than the sight
(`Remembers`).

*Induction.* The library's induction rules take an operator and are of no use
here, so where a number of steps matters the least counterexample is taken
(`LeastExists`, from the library's theorem that `<` on Nat is well-founded). `UpTo`
puts it as an induction over a set, `FlattenAdds` uses it for the recursive function
in `FlattenSeq`.

*Only model-checked.* Liveness (`EveryTurnEnds`, `EveryMessageIsRead`,
`EventuallyCompletes`, `AnswerReachesAgent`, `QuitCloses`, `QueuedIsSent`,
`CallsEnd`), which the prover has no rules for: it has neither ENABLED nor
fairness. What these rest on, that never everybody waits for something nobody
owes, is proved for three of them: `NeverEverybodyWaits` for `EventuallyCompletes`,
`TheLineMoves` for `QueuedIsSent`, `LocksAreServed` for `CallsEnd`.

## 5. Where code and documents disagree

Two are shown by a run that TLC ends with a counterexample.

* **D12 and the bench** (`TurnBench`). Messages to the human thread fill the
  inboxes of agents that have no loop; D12 (`core/session.py:1659`) waits for
  these to be empty, and the turn of a session without a surface never ends.
  `docs/architecture/DYNAMIC_ROSTER_DESIGN.md:331` says D12 needs no change as
  there are no such messages then.
* **An interrupted turn** (`ConversationCut`). An interrupt between two tool
  calls of one answer leaves calls without results in the saved conversation
  (`core/agent/loop.py:383`), and the provider refuses every request from then
  on. `docs/architecture/SESSION_RESUME_DESIGN.md:394` (T2) says the context of
  assistant and tools is kept. A bad `$thread:n` reference (`loop.py:387`, outside
  the `try` around a call) and a checkpoint taken while the tools run cut it too.

Seven more have a definition that states the document and that the code does not
keep. TLC finds each violated with a configuration of its reader's, made from
one that is here:

* **Votes on a replaced draft** (`OpensOnTheDraftVotersRead`, with the constants
  of `GateVotes.cfg`). The comment at `core/protocol/approval.py:56` and
  `docs/architecture/PHASE_MACHINE_ROUTING_AND_CHECKING_DESIGN.md:443` (S2) say
  votes belong to a specific draft. A vote cast after reading draft 1 and handled
  after draft 2 counts for draft 2 (`approval.py:161`). It takes only an agent
  that replaces its draft while a colleague is inside the step that votes.
* **Submitter off the roster** (`SubmitterOnRoster`, `TeamLive.cfg` with `Spec`,
  `HumanPhases = {}` and `Plans <- SubmitterOnlyPlans`). A draft that names a
  submitter from the bench and has neither ASSIGN lines nor `SPLIT: none` changes
  no roster (`core/protocol/collaboration.py:333`), so the team waits for a
  submitter that has no vote and no loop. `DYNAMIC_ROSTER_DESIGN.md:326` says a
  submitter is always on the roster.
* **The committed split** (`CommitsTheApprovedDraft`, `TeamLive.cfg` with `Spec`
  and both `HumanPhases` and `HumanThreads` set to `{"P2_SPLIT"}`).
  `_commit_p2_draft` reads the author's last `PROPOSE:` in the log
  (`collaboration.py:313`), which may be one the gate ignored while it waited for
  the human; `PHASE_MACHINE_ROUTING_AND_CHECKING_DESIGN.md:444` (S3) wants the
  approved one.
* **Torn checkpoints** (`ResumesOneCheckpoint`, with the constants of
  `Recovery.cfg`). `SESSION_RESUME_DESIGN.md:177` keeps the complete previous
  snapshot when a crash interrupts a save; `save()` replaces the files one by one
  (`core/checkpoint.py:277`), and a resume takes the mix.
* **Expiry is not told** (`ExpiryIsTold`, with the constants of `Approval.cfg`).
  `docs/architecture/TOOL_HUMAN_APPROVAL_DESIGN.md:177-179` has the agent told
  that its request expired. Nothing calls `Session.expire_approvals`; a token is
  found expired when a late answer arrives, whose task then raises before it
  tells anybody.
* **A granted call that raises is not told** (`GrantIsTold`, with the constants of
  `Approval.cfg`). `TOOL_HUMAN_APPROVAL_DESIGN.md:65` has the result of a granted
  call put into the inbox. `resolve_approval` awaits the call outside any `try`
  (`core/session.py:304`), and it may raise (`core/agent/tools.py:572`, `:584`):
  nothing is marked, told or cleared. An ordinary call is caught
  (`core/agent/loop.py:395`).
* **D12 while somebody would wake** (`DeadlockWakesNobody`, with the constants of
  `Turn.cfg`). The comment at `core/session.py:1645` has D12 fire when nothing is
  left to wake the parked agents. A message that moves the phase but is addressed
  to others leaves a member of the team asleep with an empty inbox, who would see
  the new phase at its next poll. If its author parks before that poll, D12 fires
  first.

## 6. Behaviours worth knowing

What the models show besides, without a document against it:

* *Turns.* D12 fires when the attention policy ignored the only message that
  would have moved its reader, since parked agents are not nudged twice. A
  `REJECT:` addressed to others drops the vote of a sleeper who is not told.
* *Interrupts.* One that arrives while `_setup` connects the bots is cleared when
  `_run_impl` begins (`core/session.py:1207`): the turn runs, and the bridge takes
  the session to be idle. This is the condition `deaf` of `QuitCloses`.
* *Commands.* An answer to a question given after its turn ended goes to the
  inboxes and starts no turn, and so does a message sent as a turn ends; both are
  read in the next turn. A failed `_setup` ends the loop. Lines typed while
  the planner's model works are taken for the answer to its next question.
* *Approval.* `normalize_args` changes what is executed, not only what is
  compared. A granted call that raises keeps its token granted: the request is
  open for nobody and told to nobody. A notice of an outcome is lost in a restart. A crash after a grant
  opens its token again, as no checkpoint is taken in between; that
  `already_executed` is kept, as the design has it, is not implemented.
* *Conversations.* A summary by a model replaces a conversation that has gone on
  while it was made: the agent forgets what it read meanwhile, and a result may
  lose its call, although the code at `core/compact.py:145-148` says it never
  does. `llm_summary` is off by default.
* *Recovery.* An unread notice (the result of an approved tool) has no row, so a
  resume drops it; the next message after the resume may get its id and its
  `seq`.
* *Chat.* A 429 sleep holds the gate of the channel, so all bots wait with it. A
  bot whose channel cannot be looked up stops sending without a word. What is in
  an outbox when the bots are stopped is lost. The bot that sees a message of the
  human first decides whom it mentions; a bare number answers the oldest question.
* *Sign-in.* A token in memory has no expiry and is used until a 401, other than
  the docstring says (`backend/nous_portal_oauth.py:37-38`). A 401 on the last
  attempt fails the call although the token was renewed. With a portal that tells
  no expiry, a dead token in the file is taken for valid each time, and every call
  fails. A task cancelled during a refresh throws the rotated refresh token away,
  and its device flow polls on in its thread while another may start. The lock is
  of one session, the file of all of them. When the file cannot be written, the
  spent refresh token stays in it, and the human is asked to sign in again.

## 7. Not modelled

* *A restart inside the protocol*: `CollaborationProtocol.restore` and
  `ConsensusGate.restore_state` are assignments from a file; Recovery keeps of
  them only which messages the protocol had heard. The rows of threads, written
  by background tasks, are not in Recovery either.
* `LATEST`, quarantine and the listing of sessions: files written once and read
  by the command line.
* *Web front and user interfaces*: processes of their own around sockets, in
  TypeScript.
* *Slack* is a mirror in one direction, without questions or retries.
* *Tools*: their effects on files, shells and the web are outside the program.
* *Prompts, bindings, configuration, command line, wizard*: sequential code
  without shared state. `PKCEFlow` is used by nothing, and
  `wizard._try_refresh_oauth_token` is called by nothing; the wizard's sign-in is
  what SignIn has as a backend of another session.
* *HTTP protocols of the model providers*: external; the models keep the outcomes
  a call can have, and Conversation what a provider accepts.
