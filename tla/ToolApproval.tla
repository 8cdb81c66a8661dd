---------------------------- MODULE ToolApproval ----------------------------
(***************************************************************************)
(* Tool calls a human must approve: the gate before a tool's body          *)
(* (core/agent/loop.py, core/agent/policy.py), the tokens of the approval  *)
(* store (core/agent/approval.py), the session that resolves them and runs *)
(* what was granted (core/session.py), the bridge that lists them for the  *)
(* surfaces (gateway/bridge.py), and the prompts with buttons in a chat    *)
(* (channels/discord/approval.py, inbound.py), over crashes and resumes.   *)
(*                                                                         *)
(* Tokens are numbered in the order they are created and live equally      *)
(* long, so time is the number of tokens whose time is over.  The bridge's *)
(* deque holds tokens in that same order, and is a set here; its head is   *)
(* the least.                                                              *)
(***************************************************************************)
EXTENDS Naturals, Sequences

CONSTANTS
    Calls,        \* tool calls: [agent, class, dangerous, text, raw]
    Policies,     \* configured tools.approval: [mode, bypass]
    Nothing,
    MaxTokens,    \* bound: tokens ever
    MaxQueue,     \* bound: answers given and not yet handled
    MaxAnswers,   \* bound: answers ever given
    MaxCrashes    \* bound: crashes

Class == {"shell", "file_write", "web", "ungated"}
Mode == {"off", "require", "dangerous"}

ASSUME ApprovalConstants ==
    /\ MaxTokens \in Nat /\ MaxQueue \in Nat /\ MaxAnswers \in Nat
    /\ MaxCrashes \in Nat
    /\ \A c \in Calls : /\ DOMAIN c = {"agent", "class", "dangerous", "text", "raw"}
                        /\ c.class \in Class
                        /\ c.dangerous \in BOOLEAN /\ c.raw \in BOOLEAN
    /\ \A c \in Calls : [c EXCEPT !.raw = FALSE] \in Calls
    /\ Policies \subseteq [mode : [Class \ {"ungated"} -> Mode], bypass : BOOLEAN]
    /\ Nothing \notin Calls

VARIABLES
    stage,      \* "down", "starting" (_setup has bots up) or "up"
    policy,     \* the ToolPolicy
    interact,   \* an interact surface is attached
    issued,     \* tokens created ever
    lapsed,     \* tokens 1..lapsed have expired
    call,       \* per token, the call it was created for, args_snapshot
    state,      \* per token, its state in the store, "none" if it has none
    asked,      \* the bridge's _pending_approvals
    restored,   \* _restored_pending_approvals
    prompts,    \* prompts in the chat that still show their buttons
    tasks,      \* scheduled calls of resolve_approval
    running,    \* tokens whose granted call is being run
    notice,     \* per token, the notice of its outcome: none, inbox or read
    disk,       \* [pending, read]: approvals.json, the saved conversations
    answers, crashes,   \* bounded counters
    consents,   \* history: per token, grants a human gave and the store took
    ran         \* history: per token, how often its call was run

Token == 1..MaxTokens
Decision == {"granted", "denied"}
Task == [token : Token, decision : Decision]
State == {"none", "pending", "granted", "denied", "expired", "executed"}
Notice == {"none", "inbox", "read"}

session == <<stage, interact>>
surfaces == <<asked, restored, prompts>>
counters == <<answers, crashes>>
history == <<consents, ran>>
vars == <<session, policy, issued, lapsed, call, state, surfaces, tasks,
          running, notice, disk, counters, history>>

Live(t) == state[t] = "pending" /\ t > lapsed
Queued == {tasks[i].token : i \in DOMAIN tasks}
-----------------------------------------------------------------------------
\* ToolPolicy.requires_approval and what it reads.
ApprovalModeFor(c) == IF c.class = "ungated" THEN "off" ELSE policy.mode[c.class]

RequiresApproval(c) ==
    /\ ~policy.bypass
    /\ \/ ApprovalModeFor(c) = "require"
       \/ ApprovalModeFor(c) = "dangerous" /\ (c.class = "web" \/ c.dangerous)

\* normalize_args: every "\" becomes "/" and a trailing "/" is cut off; the
\* token keeps the normalised arguments, and calls that differ in nothing
\* else have one digest.
Normalize(c) == [c EXCEPT !.raw = FALSE]

\* Mutated form of FindPending: an imported token has no digest to match.
FindPendingNew(c) ==
    {t \in Token : Live(t) /\ call[t] = Normalize(c) /\ t \notin disk.pending}

\* ApprovalStore.find_pending
FindPending(c) == {t \in Token : Live(t) /\ call[t] = Normalize(c)}

\* _on_approval_request: every attached surface shows the request and the
\* bridge lists it, once.
Show(ts) ==
    /\ asked' = asked \cup ts
    /\ prompts' = IF interact THEN prompts \cup ts ELSE prompts

\* Mutated form of ClearApproval: the oldest goes, whoever was answered.
ClearOldest(t) == asked' = {u \in asked : \E v \in asked : v < u}

\* clear_approval by id.
ClearApproval(t) == asked' = asked \ {t}
-----------------------------------------------------------------------------
\* A call passes the gate: it runs at once, is refused for want of a surface,
\* joins a token that is pending for the same call, or asks for a new one.
\* Only the last changes anything here.
ExecuteTool(c) ==
    /\ stage = "up"
    /\ RequiresApproval(c) /\ interact /\ FindPending(c) = {}
    /\ issued < MaxTokens
    /\ issued' = issued + 1
    /\ call' = [call EXCEPT ![issued + 1] = Normalize(c)]
    /\ state' = [state EXCEPT ![issued + 1] = "pending"]
    /\ Show({issued + 1})
    /\ UNCHANGED <<session, policy, lapsed, restored, tasks, running, notice,
                   disk, counters, history>>

\* A token's time is over.
TimePasses ==
    /\ lapsed < issued
    /\ lapsed' = lapsed + 1
    /\ UNCHANGED <<session, policy, issued, call, state, surfaces, tasks,
                   running, notice, disk, counters, history>>

\* approval.resolve reaches the bridge, which answers "queued": the token
\* leaves its list, and a task will resolve it.
HandleApprovalResolve(t, d) ==
    /\ Len(tasks) < MaxQueue /\ answers < MaxAnswers
    /\ answers' = answers + 1
    /\ ClearApproval(t)
    /\ tasks' = Append(tasks, [token |-> t, decision |-> d])

\* A button is pressed, on a prompt of this process or of one that is gone.
\* Its message is edited and loses its buttons, which a second press may
\* outrun, or another bot's copy of the prompt keep.
Press(t, d) ==
    /\ stage # "down" /\ interact
    /\ t \in prompts
    /\ \E left \in {prompts, prompts \ {t}} : prompts' = left
    /\ HandleApprovalResolve(t, d)
    /\ UNCHANGED <<session, policy, issued, lapsed, call, state, restored,
                   running, notice, disk, crashes, history>>

\* A chat message that reads as a decision answers the oldest request.  Any
\* other text is refused while the bridge lists a request.
DispatchDiscordInbound(d) ==
    /\ stage # "down" /\ interact
    /\ \E t \in asked : /\ \A u \in asked : t <= u
                        /\ HandleApprovalResolve(t, d)
    /\ UNCHANGED <<session, policy, issued, lapsed, call, state, restored,
                   prompts, running, notice, disk, crashes, history>>

\* Mutated form of MayResolve: only an unknown or an overdue token is refused.
MayResolveAgain(t) == state[t] # "none" /\ t > lapsed

\* ApprovalStore.resolve accepts a decision.
MayResolve(t) == Live(t)

\* Mutated form of Told: the outcome of a retried call is not repeated.
ToldOnce(t) ==
    notice' = [notice EXCEPT ![t] = IF \E u \in Token \ {t} : call[u] = call[t]
                                    THEN @ ELSE "inbox"]

\* inject_agent_notice puts the outcome into the agent's inbox.
Told(t) == notice' = [notice EXCEPT ![t] = "inbox"]

\* resolve_approval refuses the answer: a token the process does not know,
\* one no longer pending, or one that is overdue and expires now.
ResolveRefused(t) ==
    /\ ~MayResolve(t)
    /\ state' = IF state[t] = "pending" THEN [state EXCEPT ![t] = "expired"] ELSE state
    /\ UNCHANGED <<asked, running, notice, history>>

\* resolve_approval denies: the agent has the notice and the bridge forgets.
ResolveDenied(t) ==
    /\ MayResolve(t)
    /\ state' = [state EXCEPT ![t] = "denied"]
    /\ Told(t)
    /\ ClearApproval(t)
    /\ UNCHANGED <<running, history>>

\* resolve_approval grants, up to the await of the tool's body.
ResolveGranted(t) ==
    /\ MayResolve(t)
    /\ state' = [state EXCEPT ![t] = "granted"]
    /\ running' = running \cup {t}
    /\ consents' = [consents EXCEPT ![t] = @ + 1]
    /\ ran' = [ran EXCEPT ![t] = @ + 1]
    /\ UNCHANGED <<asked, notice>>

\* The next scheduled task runs resolve_approval.
ResolveApproval ==
    /\ stage # "down"
    /\ tasks # <<>>
    /\ tasks' = Tail(tasks)
    /\ LET t == Head(tasks).token
       IN \/ ResolveRefused(t)
          \/ Head(tasks).decision = "denied" /\ ResolveDenied(t)
          \/ Head(tasks).decision = "granted" /\ ResolveGranted(t)
    /\ UNCHANGED <<session, policy, issued, lapsed, call, restored, prompts,
                   disk, counters>>

\* The granted call returns: mark_executed, the notice, the bridge.
FinishRun(t) ==
    /\ stage # "down"
    /\ t \in running /\ state[t] = "granted"
    /\ running' = running \ {t}
    /\ state' = [state EXCEPT ![t] = "executed"]
    /\ Told(t)
    /\ ClearApproval(t)
    /\ UNCHANGED <<session, policy, issued, lapsed, call, restored, prompts,
                   tasks, disk, counters, history>>

\* The granted call raises: no handler is around it here, as there is around a
\* call that needed nobody, so the task ends with the token still granted.
FailRun(t) ==
    /\ stage # "down"
    /\ t \in running /\ state[t] = "granted"
    /\ running' = running \ {t}
    /\ UNCHANGED <<session, policy, issued, lapsed, call, state, surfaces, tasks,
                   notice, disk, counters, history>>

\* An agent's step drains its inbox.
DrainInbox(a) ==
    LET mine == {t \in Token : call[t] # Nothing /\ call[t].agent = a /\ notice[t] = "inbox"}
    IN /\ stage = "up"
       /\ mine # {}
       /\ notice' = [t \in Token |-> IF t \in mine THEN "read" ELSE notice[t]]
       /\ UNCHANGED <<session, policy, issued, lapsed, call, state, surfaces,
                      tasks, running, disk, counters, history>>
-----------------------------------------------------------------------------
\* Mutated form of ExportPending: whatever is not overdue is written.
ExportUndue == {t \in Token : t > lapsed}

\* flush_checkpoint_sync with export_pending: at an interval, after a run,
\* at an interrupt and at close.  A notice has no row in the database, so
\* only one that was read outlives the process.
ExportPending == {t \in Token : Live(t)}

FlushCheckpoint ==
    /\ stage = "up"
    /\ disk' = [pending |-> ExportPending, read |-> {t \in Token : notice[t] = "read"}]
    /\ disk' # disk
    /\ UNCHANGED <<session, policy, issued, lapsed, call, state, surfaces,
                   tasks, running, notice, counters, history>>

\* The process ends, by a crash or for good; what was scheduled or running
\* ends with it.
Crash ==
    /\ stage # "down" /\ crashes < MaxCrashes
    /\ crashes' = crashes + 1
    /\ stage' = "down"
    /\ state' = [t \in Token |-> "none"]
    /\ asked' = {} /\ restored' = {} /\ tasks' = <<>> /\ running' = {}
    /\ notice' = [t \in Token |-> IF t \in disk.read THEN "read" ELSE "none"]
    /\ UNCHANGED <<interact, policy, issued, lapsed, call, prompts, disk,
                   answers, history>>

\* The session is resumed, with or without a surface that can answer, up to
\* where its bots are connected: _apply_resume_payload has imported the saved
\* tokens, those whose time is over as expired.
ImportPending ==
    /\ stage = "down"
    /\ stage' = "starting"
    /\ interact' \in BOOLEAN
    /\ state' = [t \in Token |->
                    CASE t \notin disk.pending -> "none"
                      [] t \in disk.pending /\ t <= lapsed -> "expired"
                      [] OTHER -> "pending"]
    /\ restored' = {t \in disk.pending : t > lapsed}
    /\ UNCHANGED <<policy, issued, lapsed, call, asked, prompts, tasks,
                   running, notice, disk, counters, history>>

\* _setup ends by asking again for every token it imported, whatever became
\* of it since, and the agents start.
RepublishPendingApprovals ==
    /\ stage = "starting"
    /\ stage' = "up"
    /\ Show(restored)
    /\ restored' = {}
    /\ UNCHANGED <<interact, policy, issued, lapsed, call, state, tasks,
                   running, notice, disk, counters, history>>
-----------------------------------------------------------------------------
Init ==
    /\ stage = "up" /\ policy \in Policies /\ interact \in BOOLEAN
    /\ issued = 0 /\ lapsed = 0
    /\ call = [t \in Token |-> Nothing]
    /\ state = [t \in Token |-> "none"]
    /\ asked = {} /\ restored = {} /\ prompts = {}
    /\ tasks = <<>> /\ running = {}
    /\ notice = [t \in Token |-> "none"]
    /\ disk = [pending |-> {}, read |-> {}]
    /\ answers = 0 /\ crashes = 0
    /\ consents = [t \in Token |-> 0] /\ ran = [t \in Token |-> 0]

Next ==
    \/ \E c \in Calls : ExecuteTool(c)
    \/ TimePasses
    \/ \E t \in Token, d \in Decision : Press(t, d)
    \/ \E d \in Decision : DispatchDiscordInbound(d)
    \/ ResolveApproval
    \/ \E t \in Token : FinishRun(t) \/ FailRun(t)
    \/ \E a \in {c.agent : c \in Calls} : DrainInbox(a)
    \/ FlushCheckpoint
    \/ Crash
    \/ ImportPending
    \/ RepublishPendingApprovals

Spec == Init /\ [][Next]_vars

\* The event loop runs what is scheduled, a tool returns or raises (every gated
\* tool has a time limit), and a setup that began ends.
Fairness == /\ WF_vars(ResolveApproval)
            /\ \A t \in Token : WF_vars(FinishRun(t) \/ FailRun(t))
            /\ WF_vars(RepublishPendingApprovals)

FairSpec == Spec /\ Fairness
-----------------------------------------------------------------------------
Unissued(t) == call[t] = Nothing /\ state[t] = "none" /\ notice[t] = "none"

TypeOK ==
    /\ stage \in {"down", "starting", "up"}
    /\ policy \in Policies /\ interact \in BOOLEAN
    /\ issued \in 0..MaxTokens /\ lapsed \in 0..issued
    /\ call \in [Token -> Calls \cup {Nothing}]
    /\ state \in [Token -> State]
    /\ asked \subseteq 1..issued /\ restored \subseteq 1..issued
    /\ prompts \subseteq 1..issued
    /\ tasks \in Seq(Task)
    /\ running \subseteq Token
    /\ notice \in [Token -> Notice]
    /\ disk \in [pending : SUBSET (1..issued), read : SUBSET (1..issued)]
    /\ answers \in 0..MaxAnswers /\ crashes \in 0..MaxCrashes
    /\ consents \in [Token -> Nat] /\ ran \in [Token -> Nat]
    /\ \A t \in Token : t > issued => Unissued(t)
    /\ stage = "down" => \A t \in Token : state[t] = "none"

\* A request that can still be granted is never lost from sight: the bridge
\* lists it, will list it, or has its answer in a task, whichever request a
\* button, a typed answer or an expiry took off the list meanwhile.
NoRequestIsForgotten ==
    \A t \in Token : Live(t) => t \in asked \cup restored \cup Queued

\* A human is never asked twice for one call at a time: no two tokens can
\* still be granted for the same call of the same agent, however often it
\* was retried and whatever a resume brought back.
OneOpenRequestPerCall ==
    \A t, u \in Token : Live(t) /\ Live(u) /\ call[t] = call[u] => t = u

\* The store, the session and the bridge keep what Consent promises: a call
\* runs once for each consent to its own request, and what was settled is
\* settled until a crash.
StandingOf(t) ==
    CASE t > issued -> "unasked"
      [] t <= issued /\ stage = "down" ->
             IF t \in disk.pending THEN "open" ELSE "settled"
      [] t <= issued /\ stage # "down" ->
             CASE state[t] = "pending" -> "open"
               [] state[t] = "granted" /\ t \in running -> "running"
               [] OTHER -> "settled"
Standing == [t \in Token |-> StandingOf(t)]
Promise == INSTANCE Consent WITH Request <- Token, standing <- Standing, runs <- ran
ImplementsConsent == Promise!Spec

\* The run that a grant began has raised.
RunFailed(t) == state[t] = "granted" /\ t \notin running

\* An answer that reaches the bridge in time is carried out and its agent
\* told, unless the time of the request runs out first, the process ends, the
\* call raises, or it had been settled already.  A denial is always told.
AnswerReachesAgent ==
    \A t \in Token :
        (t \in Queued /\ state[t] = "pending") ~>
            \/ notice[t] # "none"
            \/ state[t] = "expired" \/ RunFailed(t)
            \/ stage = "down"

\* TOOL_HUMAN_APPROVAL_DESIGN 2: what a granted call gave is put into the inbox
\* of its agent.  The code does not keep this: see README, "Where code and
\* documents disagree".
GrantIsTold ==
    \A t \in Token : state[t] = "granted" ~> (notice[t] # "none" \/ stage = "down")

\* TOOL_HUMAN_APPROVAL_DESIGN 4.3: the agent whose request expires is told.
\* The code does not keep this: see README, "Where code and documents disagree".
ExpiryIsTold ==
    \A t \in Token :
        (state[t] = "pending" /\ t <= lapsed) ~>
            (notice[t] # "none" \/ stage = "down")
=============================================================================
