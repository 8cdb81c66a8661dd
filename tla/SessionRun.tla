----------------------------- MODULE SessionRun -----------------------------
(***************************************************************************)
(* One Session.run() after another (core/session.py, _run_impl): an agent  *)
(* loop per roster member under a shared step budget, parking at a closed  *)
(* gate, the polls that wake a parked loop, the one-shot nudges, bench     *)
(* agents spawned by a roster change, and D12, which ends the turn when    *)
(* every live loop is parked and every inbox is empty.                     *)
(*                                                                         *)
(* The loops read of the protocol what AgreedPhases promises, which        *)
(* Collaboration implements: the phase, the team and who is counted.  An   *)
(* inbox is reduced to the threads it holds unread messages of.  No phase  *)
(* asks for the human, and every turn has a prompt.                        *)
(***************************************************************************)
EXTENDS Naturals, FiniteSets

CONSTANTS Agents,
          Roster,      \* pool[:roster_start]
          Attention,   \* agents have an attention policy
          MaxSteps,    \* max_steps
          MaxRetries,  \* max_backend_retries
          Surfaces,    \* bound: has_interact_surface, TRUE and FALSE
          Route,       \* bound: the phases the team goes through
          SlowModel,   \* a model call outlasts the sleep between two polls
          Faulty,      \* bound: backends fail and runs are interrupted
          MaxTurns,    \* bound: calls of run()
          MaxPokes     \* bound: messages of the human

ASSUME SessionConstants ==
    /\ Roster \subseteq Agents /\ Roster # {} /\ IsFiniteSet(Agents)
    /\ Surfaces \cup {Attention, SlowModel, Faulty} \subseteq BOOLEAN
    /\ MaxSteps \in Nat \ {0} /\ MaxRetries \in Nat
    /\ MaxTurns \in Nat /\ MaxPokes \in Nat

VARIABLES
    phase, team, agreed,  \* the protocol
    pc,                   \* where each loop is; "none": no live task
    phase0,               \* the phase a loop parked in
    inbox,                \* per agent, the threads it has unread messages of
    retries,              \* backend_retries
    nudged,               \* _ready_nudged and _gate_thread_nudged
    steps,                \* total_steps
    deadlock,             \* _gate_deadlock
    interrupted,          \* _interrupt
    turns, pokes,         \* bounded counters
    interact,             \* a surface for the human is attached
    died,                 \* history: loops this turn lost to a backend
    passedBy              \* history: sleepers who missed a message they needed

protocolVars == <<phase, team, agreed>>
turnVars == <<deadlock, interrupted, turns, pokes>>
vars == <<protocolVars, pc, phase0, inbox, retries, nudged, steps, turnVars,
          interact, died, passedBy>>

Protocol == INSTANCE AgreedPhases WITH Members <- Agents

Phases == DOMAIN Protocol!Follows

TypeOK ==
    /\ phase \in Phases /\ agreed \subseteq team
    /\ team \subseteq Agents /\ team # {}
    /\ pc \in [Agents -> {"none", "top", "model", "backoff", "parked"}]
    /\ phase0 \in [Agents -> Phases]
    /\ inbox \in [Agents -> SUBSET {"chat", "gate"}]
    /\ retries \in [Agents -> 0..MaxRetries]
    /\ nudged \subseteq Agents \X Phases
    /\ steps \in Nat
    /\ deadlock \in BOOLEAN /\ interrupted \in BOOLEAN
    /\ turns \in 0..MaxTurns /\ pokes \in 0..MaxPokes
    /\ interact \in BOOLEAN /\ died \subseteq Agents /\ passedBy \subseteq Agents

Init ==
    /\ phase = "P1_EXPLORE" /\ team = Roster /\ agreed = {}
    /\ pc = [a \in Agents |-> "none"]
    /\ phase0 = [a \in Agents |-> "P1_EXPLORE"]
    /\ inbox = [a \in Agents |-> {}]
    /\ retries = [a \in Agents |-> 0]
    /\ nudged = {} /\ steps = 0
    /\ deadlock = FALSE /\ interrupted = FALSE
    /\ turns = 0 /\ pokes = 0
    /\ interact \in Surfaces
    /\ died = {} /\ passedBy = {}
----------------------------------------------------------------------------
(* What a loop looks at. *)

Live(a) == pc[a] # "none"
Active == \E a \in Agents : Live(a)

\* _is_gate_waiting: a phase below COMPLETED has a closed gate (property
\* GatesFollowPhase of Collaboration).
GateWaiting == phase # "COMPLETED"

\* is_agent_done, as protocol_done.
ProtocolDone(a) == GateWaiting /\ (a \notin team \/ a \in agreed)

\* Mutated form of AllParked: unread messages are not looked at.
AllParkedUnread(a) ==
    /\ ~interact
    /\ \A b \in Agents \ {a} : pc[b] \in {"none", "parked"}

\* The D12 condition as loop a sees it, itself parked.
AllParked(a) ==
    /\ ~interact
    /\ \A b \in Agents \ {a} : pc[b] \in {"none", "parked"}
    /\ \A b \in Agents : inbox[b] = {}

\* _wait_for_gate_wakeup up to its first sleep, n being the steps done.
Park(a, n) ==
    /\ deadlock' = (deadlock \/ (n < MaxSteps /\ AllParked(a)))
    /\ pc' = [pc EXCEPT ![a] =
                 IF deadlock' \/ n >= MaxSteps THEN "none" ELSE "parked"]
    /\ phase0' = [phase0 EXCEPT ![a] = phase]

\* Draining the inbox into the conversation and calling the model.  A loop
\* that is done answers only what addresses it; an attention policy may ignore
\* what was drained (T0).
Step(a) ==
    /\ inbox' = [inbox EXCEPT ![a] = {}]
    /\ \/ pc' = [pc EXCEPT ![a] = "model"]
       \/ /\ inbox[a] # {} /\ (ProtocolDone(a) \/ Attention)
          /\ pc' = [pc EXCEPT ![a] = "top"]
    /\ UNCHANGED <<phase0, deadlock>>

\* Mutated form of Engage: the budget is not checked before the step.
EngageUnbudgeted(a) ==
    IF phase = "COMPLETED"
    THEN pc' = [pc EXCEPT ![a] = "none"] /\ UNCHANGED <<phase0, inbox, deadlock>>
    ELSE IF ProtocolDone(a) /\ inbox[a] = {}
         THEN Park(a, steps) /\ UNCHANGED inbox
         ELSE Step(a)

\* From the top of the loop to its first await: leave, park or step.
Engage(a) ==
    IF steps >= MaxSteps \/ phase = "COMPLETED"
    THEN pc' = [pc EXCEPT ![a] = "none"] /\ UNCHANGED <<phase0, inbox, deadlock>>
    ELSE IF ProtocolDone(a) /\ inbox[a] = {}
         THEN Park(a, steps) /\ UNCHANGED inbox
         ELSE Step(a)

Begin(a) ==
    /\ pc[a] = "top"
    /\ Engage(a)
    /\ UNCHANGED <<protocolVars, retries, nudged, steps, interrupted, turns,
                   pokes, died>>
----------------------------------------------------------------------------
(* The polls of a parked loop, in their order. *)

GivesUp == deadlock \/ steps >= MaxSteps

\* Mutated form of WakesUp: the inbox is not polled.
WakesUpOnPhase(a) == phase # phase0[a] \/ ~GateWaiting

WakesUp(a) == inbox[a] # {} \/ phase # phase0[a] \/ ~GateWaiting

\* The model's answer to a comes, after the others have looked up from their
\* sleep if it took that long.
Answered(a) ==
    /\ pc[a] = "model"
    /\ SlowModel => \A b \in Agents : pc[b] = "parked" => ~WakesUp(b)

GiveUp(a) ==
    /\ pc[a] = "parked"
    /\ GivesUp
    /\ pc' = [pc EXCEPT ![a] = "none"]
    /\ UNCHANGED <<protocolVars, phase0, inbox, retries, nudged, steps,
                   turnVars, died>>

Wake(a) ==
    /\ pc[a] = "parked"
    /\ ~GivesUp /\ WakesUp(a)
    /\ Engage(a)
    /\ UNCHANGED <<protocolVars, retries, nudged, steps, interrupted, turns,
                   pokes, died>>

Detect(a) ==
    /\ pc[a] = "parked"
    /\ ~GivesUp /\ ~WakesUp(a) /\ AllParked(a)
    /\ deadlock' = TRUE
    /\ pc' = [pc EXCEPT ![a] = "none"]
    /\ UNCHANGED <<protocolVars, phase0, inbox, retries, nudged, steps,
                   interrupted, turns, pokes, died>>
----------------------------------------------------------------------------
(* The model's answer. *)

\* What a's message does to the protocol: a vote, READY: in P1, counts a and
\* may complete the phase; a draft replaced leaves only its author counted; a
\* REJECT: uncounts everybody; anything else changes nothing.
Speak(a) ==
    \/ /\ a \in team \ agreed
       /\ IF team \subseteq agreed \cup {a}
          THEN Protocol!Leave /\ phase' \in Route
          ELSE agreed' = agreed \cup {a} /\ UNCHANGED <<phase, team>>
    \/ /\ a \in team /\ phase # "P1_EXPLORE"
       /\ \/ team # {a} /\ agreed' = {a} /\ UNCHANGED <<phase, team>>
          \/ Protocol!Retract
          \/ UNCHANGED protocolVars

\* READY: goes to the human thread, which holds the whole pool; gate threads
\* hold the team.  A message that mentions nobody goes to all who hold its
\* thread but its author, another one to those of them it mentions, which may
\* be nobody, or its author too.
Thread == IF phase = "P1_EXPLORE" THEN "chat" ELSE "gate"
Participants == IF Thread = "chat" THEN Agents ELSE team
Peers(a) == Participants \ {a}

\* The inboxes before the subscribers, and drop_inbox_from for the agents the
\* roster change of this message removes.
Deliver(to) ==
    inbox' = [b \in Agents |->
                 (IF b \in to THEN inbox[b] \cup {Thread} ELSE inbox[b])
                 \ (IF b \in team \ team' THEN {"gate"} ELSE {})]

\* _spawn_roster: whoever joins the team without a live loop gets one.
Spawned(a) ==
    {b \in Agents \ {a} : team' # team /\ b \in team' /\ ~Live(b)}

\* A step with tool calls, one of which may send a message.
ToolStep(a) ==
    /\ Answered(a)
    /\ steps' = steps + 1
    /\ \/ UNCHANGED <<protocolVars, inbox>>
       \/ \E to \in SUBSET Participants : GateWaiting /\ Speak(a) /\ Deliver(to)
    /\ pc' = [b \in Agents |-> IF b \in {a} \cup Spawned(a) THEN "top"
                               ELSE pc[b]]
    /\ retries' = [b \in Agents |-> IF b \in {a} \cup Spawned(a) THEN 0
                                    ELSE retries[b]]
    /\ UNCHANGED <<phase0, nudged, turnVars, died>>

\* _maybe_nudge_ready: once per agent and session.
NudgesReady(a) ==
    phase = "P1_EXPLORE" /\ a \notin agreed /\ <<a, phase>> \notin nudged

\* _maybe_nudge_gate_thread: once per agent and phase, if the gate has not
\* counted it.
NudgesGateThread(a) ==
    /\ phase \notin {"P1_EXPLORE", "COMPLETED"}
    /\ a \in team \ agreed /\ <<a, phase>> \notin nudged

\* A step without tool calls: what came in meanwhile is read first; at a
\* closed gate an agent it has not counted is reminded once, then parks.
QuietStep(a) ==
    /\ Answered(a)
    /\ steps' = steps + 1
    /\ retries' = [retries EXCEPT ![a] = 0]
    /\ IF inbox[a] # {}
       THEN /\ pc' = [pc EXCEPT ![a] = "top"]
            /\ UNCHANGED <<nudged, deadlock, phase0>>
       ELSE IF ~GateWaiting
       THEN /\ pc' \in {[pc EXCEPT ![a] = "none"], [pc EXCEPT ![a] = "top"]}
            /\ UNCHANGED <<nudged, deadlock, phase0>>
       ELSE IF NudgesReady(a) \/ NudgesGateThread(a)
       THEN /\ nudged' = nudged \cup {<<a, phase>>}
            /\ pc' = [pc EXCEPT ![a] = "top"]
            /\ UNCHANGED <<deadlock, phase0>>
       ELSE Park(a, steps') /\ UNCHANGED nudged
    /\ UNCHANGED <<protocolVars, inbox, interrupted, turns, pokes, died>>

\* Mutated form of ModelFails: one retry too many.
ModelFailsOnce(a) ==
    /\ Faulty
    /\ Answered(a)
    /\ \/ /\ retries[a] <= MaxRetries
          /\ retries' = [retries EXCEPT ![a] = @ + 1]
          /\ pc' = [pc EXCEPT ![a] = "backoff"]
          /\ UNCHANGED died
       \/ /\ pc' = [pc EXCEPT ![a] = "none"]
          /\ died' = died \cup {a}
          /\ UNCHANGED retries
    /\ UNCHANGED <<protocolVars, phase0, inbox, nudged, steps, turnVars>>

\* A retryable error backs off; another one, or one too many, ends the loop.
ModelFails(a) ==
    /\ Faulty
    /\ Answered(a)
    /\ \/ /\ retries[a] < MaxRetries
          /\ retries' = [retries EXCEPT ![a] = @ + 1]
          /\ pc' = [pc EXCEPT ![a] = "backoff"]
          /\ UNCHANGED died
       \/ /\ pc' = [pc EXCEPT ![a] = "none"]
          /\ died' = died \cup {a}
          /\ UNCHANGED retries
    /\ UNCHANGED <<protocolVars, phase0, inbox, nudged, steps, turnVars>>

BackoffEnds(a) ==
    /\ pc[a] = "backoff"
    /\ pc' = [pc EXCEPT ![a] = "top"]
    /\ UNCHANGED <<protocolVars, phase0, inbox, retries, nudged, steps,
                   turnVars, died>>
----------------------------------------------------------------------------
(* The run. *)

\* run(prompt): flags and counters restart, a finished protocol starts a
\* round (set_roster drops what the removed agents have not read), and the
\* roster's loops are spawned.  The nudges are not forgotten.
Run ==
    /\ ~Active
    /\ turns < MaxTurns
    /\ turns' = turns + 1
    /\ IF phase = "COMPLETED"
       THEN phase' = "P1_EXPLORE" /\ team' = Roster /\ agreed' = {}
       ELSE UNCHANGED protocolVars
    /\ inbox' = [b \in Agents |-> IF b \in team \ team'
                                  THEN inbox[b] \ {"gate"} ELSE inbox[b]]
    /\ pc' = [a \in Agents |-> IF a \in team' THEN "top" ELSE "none"]
    /\ retries' = [a \in Agents |-> 0]
    /\ steps' = 0
    /\ deadlock' = FALSE /\ interrupted' = FALSE /\ died' = {}
    /\ UNCHANGED <<phase0, nudged, pokes>>

\* request_interrupt cancels every task.
Interrupt ==
    /\ Faulty /\ Active
    /\ interrupted' = TRUE
    /\ pc' = [a \in Agents |-> "none"]
    /\ UNCHANGED <<protocolVars, phase0, inbox, retries, nudged, steps,
                   deadlock, turns, pokes, died>>

\* The human writes to the human thread, mentioning some agents or nobody.
Poke(to) ==
    /\ interact
    /\ pokes < MaxPokes
    /\ pokes' = pokes + 1
    /\ inbox' = [b \in Agents |-> IF b \in to THEN inbox[b] \cup {"chat"}
                                  ELSE inbox[b]]
    /\ UNCHANGED <<protocolVars, pc, phase0, retries, nudged, steps, deadlock,
                   interrupted, turns, died>>

Loop(a) ==
    Begin(a) \/ GiveUp(a) \/ Wake(a) \/ Detect(a) \/ ToolStep(a)
    \/ QuietStep(a) \/ ModelFails(a) \/ BackoffEnds(a)

\* Whom a message passes by: it moves the phase, or drops the vote, of somebody
\* in the team who sleeps, and leaves him nothing to wake up to read.  He is
\* passed by until he stops sleeping.
Missed(b) ==
    /\ b \in team' /\ inbox'[b] = {}
    /\ phase' # phase \/ b \in agreed \ agreed'

Remember ==
    passedBy' = {b \in Agents : /\ pc[b] = "parked" /\ pc'[b] = "parked"
                                /\ b \in passedBy \/ Missed(b)}

\* Surfaces are attached before the session starts.
Next ==
    /\ \/ \E a \in Agents : Loop(a)
       \/ Run
       \/ Interrupt
       \/ \E to \in (SUBSET Agents) \ {{}} : Poke(to)
    /\ UNCHANGED interact
    /\ Remember

Spec == Init /\ [][Next]_vars

\* Every task is scheduled, every sleep ends and every model call returns.
FairSpec == Spec /\ \A a \in Agents : WF_vars(Loop(a) /\ UNCHANGED interact /\ Remember)
----------------------------------------------------------------------------
(* What makes a run correct. *)

\* The budget may be overrun, but only by the steps that were under way when
\* it ran out: one per loop other than the one that took the last.
OverrunIsBounded == steps <= MaxSteps + Cardinality(Agents) - 1

\* turn_done's reason, derived after run() returned.
TurnDoneReason ==
    CASE interrupted                                        -> "interrupted"
      [] ~interrupted /\ phase = "COMPLETED"          -> "protocol_completed"
      [] ~interrupted /\ phase # "COMPLETED" /\ deadlock   -> "gate_deadlock"
      [] ~interrupted /\ phase # "COMPLETED" /\ ~deadlock
            /\ steps >= MaxSteps                               -> "max_steps"
      [] OTHER                                                      -> "idle"

\* A run under a closed gate does not just fade out: when its last loop ends
\* and nothing else explains it, a backend has failed.
FadesOutOnlyByFailure ==
    [][Active /\ ~Active' /\ TurnDoneReason' = "idle" => died' # {}]_vars

\* D12 ends a turn only when nothing is under way: whoever is in the team sleeps
\* in the current phase, and the gate has counted him or he was reminded that it
\* has not, unless the message that moved the phase or dropped his vote was
\* addressed to others.
DeadlockIsReal ==
    [][~deadlock /\ deadlock' =>
         \A a \in team \ passedBy :
            /\ pc[a] = "parked" => phase0[a] = phase
            /\ Live(a) => a \in agreed \/ <<a, phase>> \in nudged]_vars

\* The comment at core/session.py:1645: D12 fires when nothing is left to wake
\* any of the parked agents.  The code does not keep this: see README, "Where
\* code and documents disagree".
DeadlockWakesNobody ==
    [][~deadlock /\ deadlock' => \A a \in Agents : pc[a] = "parked" => ~WakesUp(a)]_vars

\* Only a message that mentions somebody passes somebody by: one that goes to
\* all who hold its thread reaches whoever in the team it concerns, also those
\* whom it brings into the team.
BroadcastsPassNobodyBy ==
    [][\A a \in Agents : ToolStep(a) /\ Deliver(Peers(a)) => passedBy' \subseteq passedBy]_vars

\* A turn ends for the reason that turn_done gives the human.
TurnEndsForItsReason == FadesOutOnlyByFailure /\ DeadlockIsReal /\ BroadcastsPassNobodyBy

\* A turn nobody attends comes to an end, unless it lost a loop to a backend:
\* D12 then waits for an inbox that nobody reads.
EveryTurnEnds == Active /\ ~interact ~> ~Active \/ died # {}

\* No message is lost on a loop that lives on: it is read, or its thread's
\* roster dropped it, or the loop ends.
EveryMessageIsRead ==
    \A a \in Agents : Live(a) /\ inbox[a] # {} ~> inbox[a] = {} \/ ~Live(a)
============================================================================
