---------------------------- MODULE Conversation ----------------------------
(***************************************************************************)
(* The conversation of one agent with its model: what a step reads from    *)
(* the radio and how attentively (core/agent/loop.py, core/attention.py),  *)
(* the reply, its tool calls and their results, what compaction leaves of  *)
(* it (core/compact.py, core/session.py) and in which shape a provider     *)
(* sees it (backend/anthropic.py), under failing models, interrupts,       *)
(* crashes and resumes.                                                    *)
(*                                                                         *)
(* A turn of the conversation keeps its role, the calls it makes, the call *)
(* it answers, the radio messages it quotes in full and its size; the      *)
(* system prompt, which no operation here moves, is left out.  Calls and   *)
(* messages are numbered as they come.  Attention is in hundredths.        *)
(***************************************************************************)
EXTENDS Naturals, Sequences, FiniteSets, Functions

CONSTANTS
    Kinds,          \* messages: [human, urgent, inner, mention, member, recent]
    Policies,       \* attention: [on, digest, mention, member, recent, ignore,
                    \* skim, floor], floor by Situation, and checkpoint.compact's
                    \* llm_summary as llm
    SoftLimit, KeepTailChars, KeepTailMessages,     \* checkpoint.compact
    MaxRetries,     \* MAX_BACKEND_RETRIES
    None,
    MaxMessages,    \* bound: radio messages ever
    MaxReplies,     \* bound: model replies ever
    MaxCalls,       \* bound: tool calls of one reply
    MaxSaves,       \* bound: checkpoints begun
    MaxCuts         \* bound: interrupts and crashes

Situation == {"near_gate", "p1_ready_pending", "default"}

ASSUME ConversationConstants ==
    /\ {SoftLimit, KeepTailChars, KeepTailMessages, MaxRetries} \subseteq Nat
    /\ {MaxMessages, MaxReplies, MaxCalls, MaxSaves, MaxCuts} \subseteq Nat
    /\ \A k \in Kinds : {k.human, k.urgent, k.inner, k.mention, k.member, k.recent}
                            \subseteq BOOLEAN
    /\ \A p \in Policies : /\ {p.on, p.digest, p.llm} \subseteq BOOLEAN
                           /\ {p.mention, p.member, p.recent, p.ignore, p.skim} \subseteq 0..100
                           /\ p.ignore <= p.skim /\ p.skim <= p.mention
                           /\ p.floor \in [Situation -> 0..100]

VARIABLES
    policy,     \* configuration
    conv,       \* agent.conversation
    pc,         \* "idle", "calling" (in complete), "tools" (in a tool) or "stopped"
    sent,       \* while calling: whether any provider can accept the request
    todo,       \* while in a tool: the calls of the reply left, the running one first
    results,    \* while in a tool: the results so far, tool_results
    retries,    \* backend_retries
    inbox,      \* unread messages, in order
    kind,       \* the messages that ever came, by number
    read,       \* messages drained so far
    summarised, \* messages that were in a turn now replaced by a summary
    calls,      \* tool calls ever made
    summary,    \* the compaction that awaits its model: [base, new], or None
    saved,      \* the checkpoint of the agent
    replies, saves, cuts,   \* bounded counters
    severed,    \* history: calls parted from their results by a cut, or by a
                \* summary that replaced a longer conversation
    overwritten,\* history: messages lost to such a summary
    refused     \* history: the provider refused a request as malformed

step == <<pc, sent, todo, results, retries>>
radio == <<inbox, kind, read>>
disk == <<summary, saved>>
counters == <<replies, saves, cuts>>
history == <<severed, overwritten, refused>>
vars == <<policy, conv, step, radio, summarised, calls, disk, counters, history>>

Turn(role, made, answers, heard, size) ==
    [role |-> role, calls |-> made, answers |-> answers, heard |-> heard, size |-> size]
UserTurn(heard) == Turn("user", {}, 0, heard, 1)
ToolTurn(call, size) == Turn("tool", {}, call, {}, size)

CallsOf(c) == UNION {c[i].calls : i \in DOMAIN c}
AnswersOf(c) == {c[i].answers : i \in DOMAIN c} \ {0}
HeardIn(c) == UNION {c[i].heard : i \in DOMAIN c}
Open(c) == CallsOf(c) \ AnswersOf(c)
InFlight == Range(todo) \cup AnswersOf(results)
-----------------------------------------------------------------------------
\* Attention: how relevant a message is, and what a batch of them deserves.

Most(S) == CHOOSE n \in S : \A m \in S : m <= n
Least(S) == CHOOSE n \in S : \A m \in S : n <= m

ScoreMessage(k) ==
    IF k.human \/ k.urgent THEN 100
    ELSE Least({100, (IF k.mention THEN Most({policy.mention, policy.skim}) ELSE 0)
                     + (IF k.member THEN policy.member ELSE 0)
                     + (IF k.recent THEN policy.recent ELSE 0)})

\* Mutated form of ScoreBatch: the last message speaks for the batch.
ScoreLast(ms) == ScoreMessage(kind[ms[Len(ms)]])

\* score_batch, and the maximum decide takes of it.
ScoreBatch(ms) == Most({ScoreMessage(kind[ms[i]]) : i \in DOMAIN ms})

\* decide, with the floor of the agent's situation (_compute_phase_floor) and
\* the agent's own.
Tier(ms, situation) ==
    LET r == Most({ScoreBatch(ms), policy.floor[situation], policy.floor["default"]})
    IN IF r < policy.ignore THEN "ignore" ELSE IF r < policy.skim THEN "skim" ELSE "engage"

NeedsModelReply(ms) == \E i \in DOMAIN ms : kind[ms[i]].inner \/ kind[ms[i]].mention

\* The block a step adds for what it drained: everything in full, the latest
\* in full, or a count of what it skipped.
RadioBlock(ms, tier) ==
    CASE ms = <<>> -> <<>>
      [] ms # <<>> /\ tier = "engage" -> <<UserTurn(Range(ms))>>
      [] ms # <<>> /\ tier = "skim" -> <<UserTurn({ms[Len(ms)]})>>
      [] ms # <<>> /\ tier = "ignore" -> IF policy.digest THEN <<UserTurn({})>> ELSE <<>>
-----------------------------------------------------------------------------
\* Compaction.

ApproxChars(c) ==
    LET n[i \in 0..Len(c)] == IF i = 0 THEN 0 ELSE n[i - 1] + c[i].size IN n[Len(c)]

\* Mutated form of TailStart: the tail may open with a tool result.
TailStartAnywhere(c) ==
    Least({i \in 1..Len(c) : /\ i > Len(c) - Most({1, KeepTailMessages})
                             /\ i = Len(c) \/ ApproxChars(SubSeq(c, i, Len(c))) <= KeepTailChars})

\* _split_head_tail: where the tail begins.  It holds the last turns, fewer if
\* they are large but at least one, and gives the head every tool result it
\* would open with.
TailStart(c) ==
    LET start == Least({i \in 1..Len(c) :
                     /\ i > Len(c) - Most({1, KeepTailMessages})
                     /\ i = Len(c) \/ ApproxChars(SubSeq(c, i, Len(c))) <= KeepTailChars})
    IN Least({i \in start..(Len(c) + 1) : i > Len(c) \/ c[i].role # "tool"})

HeadOf(c) == SubSeq(c, 1, TailStart(c) - 1)

TooLong(c) == SoftLimit > 0 /\ ApproxChars(c) > SoftLimit /\ TailStart(c) > 1

\* _assemble: a summary of the head, then the tail without its large results.
Tombstone(turn) == IF turn.role = "tool" THEN [turn EXCEPT !.size = 1] ELSE turn
Assemble(c) ==
    LET tail == SubSeq(c, TailStart(c), Len(c))
    IN <<UserTurn({})>> \o [i \in DOMAIN tail |-> Tombstone(tail[i])]

\* compact_conversation, and what it summarises away.
Compacted(c) == IF TooLong(c) THEN Assemble(c) ELSE c
Dropped(c) == IF TooLong(c) THEN HeardIn(HeadOf(c)) ELSE {}
-----------------------------------------------------------------------------
\* What a provider sees and what it takes (external): the results of a turn's
\* calls follow it at once, in as many messages as there are calls for
\* OpenAI's API, in one user turn for Anthropic's.

OpenAITakes(c) ==
    \A i \in DOMAIN c :
        /\ \A call \in c[i].calls :
               \E j \in (i + 1)..Least({Len(c), i + Cardinality(c[i].calls)}) : c[j].answers = call
        /\ c[i].role = "tool" =>
               \E j \in 1..(i - 1) : /\ c[i].answers \in c[j].calls
                                     /\ \A m \in (j + 1)..i : c[m].role = "tool"

\* _to_anthropic_messages: which turns begin a turn of the API.  An assistant
\* turn that says and calls nothing (size 0) is left out, consecutive results
\* share one user turn, and the user turn added at the end has none.
Begins(c) ==
    {i \in DOMAIN c : /\ c[i].role = "tool" => i = 1 \/ c[i - 1].role # "tool"
                      /\ c[i].role = "assistant" => c[i].size > 0 \/ c[i].calls # {}}
ResultsFrom(c, i) ==
    {c[j].answers : j \in {j \in i..Len(c) : \A m \in i..j : c[m].role = "tool"}}

AnthropicTakes(c) ==
    \A i \in Begins(c) :
        LET after == {j \in Begins(c) : j > i}
            before == {j \in Begins(c) : j < i}
        IN /\ c[i].calls # {} => after # {} /\ ResultsFrom(c, Least(after)) = c[i].calls
           /\ ResultsFrom(c, i) # {} => before # {} /\ c[Most(before)].calls = ResultsFrom(c, i)

Acceptable(c) == OpenAITakes(c) /\ AnthropicTakes(c)
-----------------------------------------------------------------------------
\* A message reaches the agent's inbox.
Arrive(k) ==
    /\ Len(kind) < MaxMessages
    /\ kind' = Append(kind, k)
    /\ inbox' = Append(inbox, Len(kind) + 1)
    /\ UNCHANGED <<policy, conv, step, read, summarised, calls, disk, counters, history>>

\* step up to the await of the model: drain, then read in full when the agent
\* has signalled and waits at its gate (D5), or as attentively as the batch
\* deserves.  A step without a model call ends here.
Step(situation, protocolDone) ==
    LET attends == ~protocolDone /\ policy.on /\ inbox # <<>>
        tier == IF attends THEN Tier(inbox, situation) ELSE "engage"
        skips == \/ protocolDone /\ ~NeedsModelReply(inbox)
                 \/ attends /\ tier = "ignore"
    IN /\ pc = "idle"
       /\ protocolDone => inbox # <<>>
       /\ conv' = conv \o RadioBlock(inbox, tier)
       /\ read' = read \cup Range(inbox)
       /\ inbox' = <<>>
       /\ \/ /\ skips
             /\ retries' = 0
             /\ UNCHANGED <<pc, sent>>
          \/ /\ ~skips /\ replies < MaxReplies
             /\ pc' = "calling" /\ sent' = Acceptable(conv')
             /\ UNCHANGED retries
       /\ UNCHANGED <<policy, todo, results, kind, summarised, calls, disk, counters,
                      history>>

\* classify_http, network_error and what complete raises: whether a failure
\* is worth another try.
Failure == {"auth", "model_not_found", "upstream_busy", "rate_limit", "too_long",
            "server_error", "network", "unreadable"}
Retryable(f) == f \notin {"auth", "model_not_found", "unreadable"}

\* Mutated form of TriesAgain: one retry too many.
TriesOnceMore(f) == Retryable(f) /\ retries <= MaxRetries

\* run_agent backs off and steps again.
TriesAgain(f) == Retryable(f) /\ retries < MaxRetries

\* complete fails, after its own three attempts where they apply.  Nothing
\* enters the conversation; the loop tries again or ends.
ModelFails(f) ==
    /\ pc = "calling"
    /\ IF TriesAgain(f)
       THEN pc' = "idle" /\ retries' = retries + 1
       ELSE pc' = "stopped" /\ UNCHANGED retries
    /\ UNCHANGED <<policy, conv, sent, todo, results, radio, summarised, calls, disk,
                   counters, history>>

\* HTTP 400, bad_request, which no retry mends.
Refuse ==
    /\ pc = "calling" /\ ~sent
    /\ refused' = TRUE
    /\ pc' = "stopped"
    /\ UNCHANGED <<policy, conv, sent, todo, results, retries, radio, summarised, calls,
                   disk, counters, severed, overwritten>>

\* _unsent_signal_nudge: a signal that the reply only wrote, while the protocol
\* is under way, is pointed out.
UnsentSignalNudge(c) ==
    {<<>>} \cup (IF c[Len(c)].size > 0 THEN {<<UserTurn({})>>} ELSE {})

\* _resolve_refs, outside the handler of the call: an argument $thread:n that
\* names no thread ends the loop, and the reply's calls have no results.
UnresolvedRef(made) ==
    /\ pc' = "stopped" /\ todo' = <<>> /\ results' = <<>>
    /\ severed' = severed \cup made

\* The rest of a step once the calls in "left" remain and "done" holds the
\* results so far, which enter the conversation together after the last call.
Proceed(c, made, left, done) ==
    \/ /\ left = <<>>
       /\ \E nudge \in UnsentSignalNudge(c) : conv' = c \o done \o nudge
       /\ pc' = "idle" /\ todo' = <<>> /\ results' = <<>>
       /\ UNCHANGED severed
    \/ /\ left # <<>>
       /\ pc' = "tools" /\ todo' = left /\ results' = done
       /\ conv' = c
       /\ UNCHANGED severed
    \/ left # <<>> /\ UnresolvedRef(made) /\ conv' = c

\* The model replies.
Reply(n, size) ==
    LET made == (calls + 1)..(calls + n)
    IN /\ pc = "calling" /\ sent
       /\ size = 0 => n = 0
       /\ retries' = 0
       /\ calls' = calls + n
       /\ replies' = replies + 1
       /\ Proceed(Append(conv, Turn("assistant", made, 0, {}, size)), made,
                  [i \in 1..n |-> calls + i], <<>>)
       /\ UNCHANGED <<policy, sent, radio, summarised, disk, saves, cuts, overwritten, refused>>

\* A call that returns, is denied or fails leaves a result either way.
ToolResult(call, size) == <<ToolTurn(call, size)>>

\* The running call ends.
ToolReturns(size) ==
    /\ pc = "tools"
    /\ Proceed(conv, InFlight, Tail(todo), results \o ToolResult(todo[1], size))
    /\ UNCHANGED <<policy, sent, retries, radio, summarised, calls, disk, counters,
                   overwritten, refused>>

\* A new run gives the agent a loop again.  Its prompt, a turn that quotes no
\* message of the radio like the digest of a step, is left out.
NewRun ==
    /\ pc = "stopped"
    /\ pc' = "idle" /\ retries' = 0
    /\ UNCHANGED <<policy, conv, sent, todo, results, radio, summarised, calls, disk,
                   counters, history>>
-----------------------------------------------------------------------------
Save == saved' = [conv |-> conv', inbox |-> inbox', read |-> read', summarised |-> summarised']

\* A checkpoint, after a step or at an interval, at any await of the agent:
\* conversations over the limit are compacted by rule, then everything saved.
FlushCheckpoint ==
    /\ ~(policy.llm /\ TooLong(conv)) /\ summary = None
    /\ conv' = Compacted(conv)
    /\ summarised' = summarised \cup Dropped(conv)
    /\ UNCHANGED radio
    /\ Save
    /\ saved' # saved
    /\ saves < MaxSaves /\ saves' = saves + 1
    /\ UNCHANGED <<policy, step, calls, replies, summary, cuts, history>>

\* llm_based_summary: what it reads of a copy, and what is put together once it
\* answers, or fails and leaves it to the rules.
LlmBasedSummary(c) == [base |-> c, new |-> Assemble(c), dropped |-> Dropped(c)]

\* With a model to summarise, the conversation is copied and the model awaited,
SummaryStarts ==
    /\ policy.llm /\ TooLong(conv) /\ summary = None
    /\ summary' = LlmBasedSummary(conv)
    /\ saves < MaxSaves /\ saves' = saves + 1
    /\ UNCHANGED <<policy, conv, step, radio, summarised, calls, replies, saved, cuts, history>>

\* and the copy, summarised, replaces whatever the conversation is by then.
SummaryEnds ==
    /\ summary # None
    /\ summary' = None
    /\ conv' = summary.new
    /\ summarised' = summarised \cup summary.dropped
    /\ severed' = severed \cup (CallsOf(conv) \ CallsOf(summary.base))
                          \cup (AnswersOf(conv) \ AnswersOf(summary.base))
                          \cup (Open(summary.new) \ InFlight)
    /\ overwritten' = overwritten \cup (HeardIn(conv) \ HeardIn(summary.base))
    /\ UNCHANGED radio
    /\ Save
    /\ UNCHANGED <<policy, step, calls, counters, refused>>

\* The next step's checkpoint cancels the one that waits.
SummaryCancelled ==
    /\ summary # None
    /\ summary' = None
    /\ UNCHANGED <<policy, conv, step, radio, summarised, calls, saved, counters, history>>

\* request_interrupt: the step is cancelled where it waits, and the checkpoint
\* is written at once, compacted by rule.
Interrupt ==
    /\ cuts < MaxCuts
    /\ cuts' = cuts + 1
    /\ severed' = severed \cup InFlight
    /\ pc' = "stopped" /\ todo' = <<>> /\ results' = <<>>
    /\ conv' = Compacted(conv)
    /\ summarised' = summarised \cup Dropped(conv)
    /\ UNCHANGED radio
    /\ Save
    /\ UNCHANGED <<policy, sent, retries, calls, replies, saves, summary, overwritten, refused>>

\* The process dies and the session is resumed from its checkpoint.
CrashAndResume ==
    /\ cuts < MaxCuts
    /\ cuts' = cuts + 1
    /\ conv' = saved.conv /\ inbox' = saved.inbox /\ read' = saved.read
    /\ summarised' = saved.summarised
    /\ severed' = severed \cup Open(saved.conv)
    /\ summary' = None
    /\ pc' = "stopped" /\ todo' = <<>> /\ results' = <<>>
    /\ UNCHANGED <<policy, sent, retries, kind, calls, replies, saves, saved, overwritten, refused>>
-----------------------------------------------------------------------------
Init ==
    /\ policy \in Policies
    /\ conv = <<>> /\ pc = "idle" /\ sent = TRUE /\ todo = <<>> /\ results = <<>>
    /\ retries = 0
    /\ inbox = <<>> /\ kind = <<>> /\ read = {} /\ summarised = {}
    /\ calls = 0 /\ replies = 0 /\ saves = 0 /\ cuts = 0
    /\ summary = None
    /\ saved = [conv |-> <<>>, inbox |-> <<>>, read |-> {}, summarised |-> {}]
    /\ severed = {} /\ overwritten = {} /\ refused = FALSE

Next ==
    \/ \E k \in Kinds : Arrive(k)
    \/ \E s \in Situation, done \in BOOLEAN : Step(s, done)
    \/ \E f \in Failure : ModelFails(f)
    \/ Refuse
    \/ \E n \in 0..MaxCalls, size \in 0..1 : Reply(n, size)
    \/ \E size \in 1..2 : ToolReturns(size)
    \/ NewRun
    \/ FlushCheckpoint
    \/ SummaryStarts
    \/ SummaryEnds
    \/ SummaryCancelled
    \/ Interrupt
    \/ CrashAndResume

Spec == Init /\ [][Next]_vars
-----------------------------------------------------------------------------
Turns == [role : {"user", "assistant", "tool"}, calls : SUBSET (1..calls),
          answers : 0..calls, heard : SUBSET DOMAIN kind, size : 0..2]

TypeOK ==
    /\ policy \in Policies
    /\ conv \in Seq(Turns) /\ saved.conv \in Seq(Turns)
    /\ pc \in {"idle", "calling", "tools", "stopped"} /\ sent \in BOOLEAN
    /\ todo \in Seq(1..calls) /\ results \in Seq(Turns)
    /\ pc = "tools" <=> todo # <<>>
    /\ retries \in 0..MaxRetries
    /\ kind \in Seq(Kinds) /\ inbox \in Seq(DOMAIN kind)
    /\ read \subseteq DOMAIN kind /\ summarised \subseteq read
    /\ Range(inbox) \cap read = {}
    /\ severed \subseteq 1..calls /\ overwritten \subseteq DOMAIN kind

\* As long as no call was parted from its result, no provider refuses the
\* conversation as malformed, in the shape the backend gives it.
RefusedOnlyAfterACut == refused => severed # {}

\* A message of the human, an URGENT one and one that mentions the agent was
\* read in full once it left the inbox: the attention policy, a failing model
\* and compaction by rule lose none.
Addressed(k) == k.human \/ k.urgent \/ k.mention
AddressedIsRead ==
    \A m \in read : Addressed(kind[m]) => m \in HeardIn(conv) \cup summarised \cup overwritten

\* SESSION_RESUME_DESIGN, test T2: an interrupted agent goes on, in the next
\* run or after a resume, with the calls and results it had; its provider must
\* take them.
InterruptedAgentGoesOn == [][Interrupt /\ severed = {} => Acceptable(saved'.conv)]_vars
=============================================================================
