--------------------------- MODULE Collaboration ---------------------------
(***************************************************************************)
(* The P1-P5 protocol (core/protocol/collaboration.py) with the session    *)
(* that runs it: four gates pre-bound to their threads, the READY set of   *)
(* P1, the roster that the winning P2 draft commits, the gate-open         *)
(* callbacks that advance the phase, and the agent loops, each step of     *)
(* which acts on the copies it was given when it began.                    *)
(*                                                                         *)
(* Messages reach the subscribers through the same window as in            *)
(* ConsensusGate: inflight is what was appended to the log and awaits its  *)
(* INSERT.  REJECTED is left out: nothing advances to it.                  *)
(***************************************************************************)
EXTENDS GateRules, Naturals, Sequences, FiniteSets

CONSTANTS InitialRoster,  \* pool[:roster_start]
          RosterMax,      \* roster_max
          HumanPhases,    \* phases configured with human_approval
          FirstMode,      \* protocol.mode
          Persist,        \* the server has a db_path
          Plans,          \* bound: what a P2 draft may say
          HumanThreads,   \* bound: the gate threads the human writes to
          Prompts,        \* bound: TRUE, runs with a prompt; FALSE, without
          Faulty          \* bound: loops end early, runs are interrupted

GatePhases == {"P2_SPLIT", "P3_EXECUTE", "P4_REVIEW", "P5_SUBMIT"}
Phases == GatePhases \cup {"P1_EXPLORE", "COMPLETED"}

\* A P2 draft, reduced to its ASSIGN, SUBMITTER and SPLIT: none lines.
Plan == [assigned : SUBSET Agents, submitter : Agents \cup {Nobody},
         split : BOOLEAN]
NoPlan == [assigned |-> {}, submitter |-> Nobody, split |-> FALSE]

ASSUME CollaborationConstants ==
    /\ InitialRoster \subseteq Agents /\ InitialRoster # {}
    /\ RosterMax \in Nat \ {0}
    /\ HumanPhases \subseteq GatePhases
    /\ FirstMode \in {"full", "light"}
    /\ Persist \in BOOLEAN /\ Faulty \in BOOLEAN
    /\ Plans \subseteq Plan
    /\ HumanThreads \subseteq GatePhases
    /\ Prompts \subseteq BOOLEAN

\* _PHASE_GATE_ENTRY and the human_approval map.
RequiresProposal(p) == p \in {"P2_SPLIT", "P5_SUBMIT"}
EntrySignal(p) == IF p = "P5_SUBMIT" THEN "FINAL" ELSE "PROPOSE"
ConfigOf(p) == [requireProposal |-> RequiresProposal(p),
                awaitHuman |-> p \in HumanPhases]

VARIABLES
    phase, mode, roster,
    ready,       \* _ready_states
    gates,       \* _gates
    threads,     \* participants of the four gate threads
    armed,       \* phases whose gate has an on_open callback
    fired,       \* _gate_open_fired
    plan,        \* _assignments, submitter_id, split_none
    log,         \* per author, the last P2 draft in the message log
    inflight,    \* appended messages awaiting their INSERT
    view,        \* per agent, the copies of the step it is in, or Idle
    running,     \* running_ids of the current run
    active,      \* a run is in progress (its roster callback is set)
    spent,       \* protocol_spent
    voted        \* history: the P2 draft the P2 gate took last

teamVars == <<phase, mode, roster, ready, gates, threads, armed, fired, plan,
              voted>>
runVars == <<view, running, active, spent>>
vars == <<teamVars, runVars, log, inflight>>

MessageSignals == {"READY", "PROPOSE", "FINAL", "APPROVE", "REJECT"}
Message == [author : Authors, thread : GatePhases \cup {"chat"},
            signal : MessageSignals, plan : Plan]

View == [phase : Phases, open : BOOLEAN, needs : BOOLEAN]
Idle == [phase |-> "COMPLETED", open |-> FALSE, needs |-> FALSE]

TypeOK ==
    /\ phase \in Phases /\ mode \in {"full", "light"}
    /\ roster \subseteq Agents /\ roster # {}
    /\ ready \subseteq roster
    /\ gates \in [GatePhases -> Gate]
    /\ threads \in [GatePhases -> SUBSET Agents]
    /\ armed \subseteq GatePhases /\ fired \subseteq armed
    /\ plan \in Plan /\ voted \in Plan
    /\ log \in [Authors -> Plan]
    /\ inflight \in Seq(Message)
    /\ view \in [Agents -> View]
    /\ running \subseteq Agents
    /\ active \in BOOLEAN /\ spent \in BOOLEAN

\* Session._setup on a fresh session.
Init ==
    /\ phase = "P1_EXPLORE" /\ mode = FirstMode
    /\ roster = InitialRoster
    /\ ready = {}
    /\ gates = [p \in GatePhases |-> BindToThread(NewGate, InitialRoster)]
    /\ threads = [p \in GatePhases |-> InitialRoster]
    /\ armed = {} /\ fired = {}
    /\ plan = NoPlan /\ voted = NoPlan
    /\ log = [x \in Authors |-> NoPlan]
    /\ inflight = <<>>
    /\ view = [a \in Agents |-> Idle]
    /\ running = {} /\ active = FALSE /\ spent = FALSE
----------------------------------------------------------------------------
(* Phases and roster. *)

ValidTransitions(p) ==
    IF mode = "light"
    THEN CASE p = "P1_EXPLORE" -> {"P5_SUBMIT"}
           [] p = "P5_SUBMIT"  -> {"COMPLETED"}
           [] OTHER            -> {}
    ELSE CASE p = "P1_EXPLORE" -> {"P2_SPLIT"}
           [] p = "P2_SPLIT"   -> {"P3_EXECUTE", "P5_SUBMIT"}
           [] p = "P3_EXECUTE" -> {"P4_REVIEW"}
           [] p = "P4_REVIEW"  -> {"P5_SUBMIT"}
           [] p = "P5_SUBMIT"  -> {"COMPLETED"}
           [] OTHER            -> {}

NextPhaseAfterP1 == IF mode = "light" THEN "P5_SUBMIT" ELSE "P2_SPLIT"

\* Empty when the gate leads nowhere.
NextPhaseAfterGate(p, pl) ==
    IF mode = "light" THEN IF p = "P5_SUBMIT" THEN {"COMPLETED"} ELSE {}
    ELSE CASE p = "P2_SPLIT" /\ pl.split /\ pl.assigned = {} -> {"P5_SUBMIT"}
           [] p = "P2_SPLIT" /\ ~(pl.split /\ pl.assigned = {}) -> {"P3_EXECUTE"}
           [] p = "P3_EXECUTE" -> {"P4_REVIEW"}
           [] p = "P4_REVIEW"  -> {"P5_SUBMIT"}
           [] p = "P5_SUBMIT"  -> {"COMPLETED"}

\* An invalid target raises before anything changes.
Advance(targets) ==
    LET to == targets \cap ValidTransitions(phase)
    IN  /\ phase' \in (IF to = {} THEN {phase} ELSE to)
        /\ armed' = armed \cup (to \cap GatePhases)

\* Mutated form of SetRoster: only the current phase's gate is told.
SetRosterHere(gs, rd, ps) ==
    /\ roster' = ps
    /\ ready' = rd \cap ps
    /\ gates' = [p \in GatePhases |->
                    IF p = phase THEN SetParticipants(ConfigOf(p), gs[p], ps)
                    ELSE gs[p]]
    /\ threads' = [p \in GatePhases |-> ps]

\* set_roster, gs being the gates and rd the READY set it finds.
SetRoster(gs, rd, ps) ==
    /\ roster' = ps
    /\ ready' = rd \cap ps
    /\ gates' = [p \in GatePhases |-> SetParticipants(ConfigOf(p), gs[p], ps)]
    /\ threads' = [p \in GatePhases |-> ps]

\* Mutated form of SpawnRoster: agents from the bench get no task.
SpawnNobody(ps) == running' = running

\* The session's roster callback, registered while a run is in progress.
SpawnRoster(ps) == running' = IF active THEN running \cup ps ELSE running

\* Mutated form of RostersOf: ASSIGN lines suffice, without a SUBMITTER.
RostersOfAssigned(pl) ==
    LET S == IF pl.assigned # {} THEN {pl.submitter} \cup pl.assigned
             ELSE IF pl.split THEN {pl.submitter} ELSE {}
    IN  IF S = {} THEN {} ELSE {S}

\* The rosters a committed draft may lead to: the submitter and the assigned
\* agents in the draft's order, cut to RosterMax.  None: set_roster is not
\* called.
RostersOf(pl) ==
    LET S == IF pl.assigned # {} THEN {pl.submitter} \cup pl.assigned
             ELSE IF pl.split THEN {pl.submitter} ELSE {}
    IN  IF pl.submitter = Nobody THEN {}
        ELSE {R \in SUBSET S : /\ pl.submitter \in R
                               /\ Cardinality(R) <= RosterMax
                               /\ R = S \/ Cardinality(R) = RosterMax}

\* _commit_p2_draft: the draft is read back from the log.
CommitP2Draft(gs) ==
    LET pl == log[gs["P2_SPLIT"].author]
    IN  /\ plan' = pl
        /\ IF RostersOf(pl) = {}
           THEN gates' = gs /\ UNCHANGED <<roster, ready, threads, running>>
           ELSE \E R \in RostersOf(pl) : SetRoster(gs, ready, R) /\ SpawnRoster(R)

\* _handle_gate_open for gate p, gs being the gates with p just opened.
HandleGateOpen(p, gs) ==
    /\ fired' = fired \cup {p}
    /\ IF p = "P2_SPLIT" THEN CommitP2Draft(gs)
       ELSE gates' = gs /\ UNCHANGED <<plan, roster, ready, threads, running>>
    /\ Advance(NextPhaseAfterGate(p, plan'))
----------------------------------------------------------------------------
(* The subscribers: the protocol's READY watcher and the thread's gate. *)

\* finish_p1, once everybody is ready.
FinishP1 == ready' = {} /\ Advance({NextPhaseAfterP1})

\* Mutated form of HearReady: the last READY: is not seen to be the last.
HearReadyLate(m) ==
    LET all == ready \cup {m.author}
    IN  /\ IF phase # "P1_EXPLORE" \/ m.author \notin roster
           THEN UNCHANGED <<phase, armed, ready>>
           ELSE IF roster \subseteq ready
                THEN FinishP1
                ELSE ready' = all /\ UNCHANGED <<phase, armed>>
        /\ UNCHANGED <<mode, roster, gates, threads, fired, plan, voted,
                       running>>

\* _on_message.
HearReady(m) ==
    LET all == ready \cup {m.author}
    IN  /\ IF phase # "P1_EXPLORE" \/ m.author \notin roster
           THEN UNCHANGED <<phase, armed, ready>>
           ELSE IF roster \subseteq all
                THEN FinishP1
                ELSE ready' = all /\ UNCHANGED <<phase, armed>>
        /\ UNCHANGED <<mode, roster, gates, threads, fired, plan, voted,
                       running>>

\* A message as the gate of its thread reads it.
Heard(m) ==
    [author |-> m.author,
     signal |-> CASE m.signal = EntrySignal(m.thread) -> "entry"
                  [] m.signal = "APPROVE"             -> "approve"
                  [] m.signal = "REJECT"              -> "reject"
                  [] OTHER                            -> "other"]

HearVote(m) ==
    LET p  == m.thread
        g  == gates[p]
        h  == OnMessage(ConfigOf(p), g, Heard(m), threads[p])
        gs == [gates EXCEPT ![p] = h]
    IN  /\ IF ~g.open /\ h.open /\ p \in armed \ fired
           THEN HandleGateOpen(p, gs)
           ELSE gates' = gs /\ UNCHANGED <<phase, armed, fired, plan, roster,
                                           ready, threads, running>>
        /\ voted' = IF /\ p = "P2_SPLIT" /\ Heard(m).signal = "entry"
                       /\ ~g.open /\ ~g.pending /\ h.author = m.author
                    THEN m.plan ELSE voted
        /\ UNCHANGED mode

Hear(m) == IF m.signal = "READY" THEN HearReady(m) ELSE HearVote(m)

\* send_message / human_send.
Send(m) ==
    /\ log' = IF m.thread = "P2_SPLIT" /\ m.signal = "PROPOSE"
              THEN [log EXCEPT ![m.author] = m.plan] ELSE log
    /\ IF Persist
       THEN inflight' = Append(inflight, m) /\ UNCHANGED <<teamVars, running>>
       ELSE Hear(m) /\ UNCHANGED inflight

Publish ==
    /\ inflight # <<>>
    /\ Hear(Head(inflight))
    /\ inflight' = Tail(inflight)
    /\ UNCHANGED <<log, view, active, spent>>

Sending(x) == \E i \in DOMAIN inflight : inflight[i].author = x
----------------------------------------------------------------------------
(* The agents. *)

\* _inject_protocol_gate_state.  Idle is a COMPLETED view that is not open,
\* which no step is given.
FreshView ==
    IF phase \in GatePhases
    THEN [phase |-> phase, open |-> gates[phase].open,
          needs |-> RequiresProposal(phase) /\ ~gates[phase].proposal]
    ELSE [phase |-> phase, open |-> phase = "COMPLETED", needs |-> FALSE]

\* The loop ends at its top once this run's protocol has completed.
StepStart(a) ==
    /\ a \in running
    /\ view[a] = Idle
    /\ phase = "COMPLETED" => spent
    /\ view' = [view EXCEPT ![a] = FreshView]
    /\ UNCHANGED <<teamVars, running, active, spent, log, inflight>>

StepEnd(a) ==
    /\ view[a] # Idle
    /\ ~Sending(a)
    /\ view' = [view EXCEPT ![a] = Idle]
    /\ UNCHANGED <<teamVars, running, active, spent, log, inflight>>

\* Mutated form of Allowed: a closed gate does not bind the agents to its thread.
AllowedAnywhere(a, t, s) ==
    LET v == view[a]
        g == gates[v.phase]
    IN  /\ v # Idle
        /\ v.phase \in GatePhases =>
               /\ s = EntrySignal(v.phase) =>
                      ~g.open /\ g.author \in {Nobody, a}
               /\ s = "APPROVE" =>
                      ~v.needs /\ (t # v.phase \/ a \notin g.approvals)
        /\ s = "READY" => v.phase = "P1_EXPLORE" /\ a \notin ready

\* Neither denied by _duplicate_signal_denied, which reads the view's gate
\* live but its needs as a copy, nor by gate_closed.
Allowed(a, t, s) ==
    LET v == view[a]
        g == gates[v.phase]
    IN  /\ v # Idle
        /\ ~v.open => IF v.phase = "P1_EXPLORE" THEN s = "READY" ELSE t = v.phase
        /\ v.phase \in GatePhases =>
               /\ s = EntrySignal(v.phase) =>
                      ~g.open /\ g.author \in {Nobody, a}
               /\ s = "APPROVE" =>
                      ~v.needs /\ (v.open \/ a \notin g.approvals)
        /\ s = "READY" => v.phase = "P1_EXPLORE" /\ a \notin ready

Post(a, t, s, pl) ==
    /\ ~Sending(a)
    /\ t \in GatePhases => a \in threads[t]
    /\ Allowed(a, t, s)
    /\ Send([author |-> a, thread |-> t, signal |-> s, plan |-> pl])
    /\ UNCHANGED <<view, active, spent>>

PostReady(a) == Post(a, "chat", "READY", NoPlan)

PostDraft(a, t) ==
    \E pl \in (IF t = "P2_SPLIT" THEN Plans ELSE {NoPlan}) :
        Post(a, t, EntrySignal(t), pl)

PostApprove(a, t) == Post(a, t, "APPROVE", NoPlan)

PostReject(a, t) == Post(a, t, "REJECT", NoPlan)

\* The human passes no tool layer and writes to any thread.
HumanPost(t, s) ==
    /\ ~Sending(Human)
    /\ \E pl \in (IF t = "P2_SPLIT" /\ s = "PROPOSE" THEN Plans ELSE {NoPlan}) :
          Send([author |-> Human, thread |-> t, signal |-> s, plan |-> pl])
    /\ UNCHANGED <<view, active, spent>>
----------------------------------------------------------------------------
(* The session: run(), its end, and request_interrupt. *)

\* Mutated form of BeginRound: _gate_open_fired is not cleared.
BeginRoundKeepsFired ==
    /\ mode' = "light"
    /\ phase' = "P1_EXPLORE"
    /\ fired' = fired /\ plan' = NoPlan
    /\ SetRoster([p \in GatePhases |-> ResetForRound(gates[p])], {},
                 InitialRoster)

\* begin_round(mode="light").
BeginRound ==
    /\ mode' = "light"
    /\ phase' = "P1_EXPLORE"
    /\ fired' = {} /\ plan' = NoPlan
    /\ SetRoster([p \in GatePhases |-> ResetForRound(gates[p])], {},
                 InitialRoster)

\* A prompt on a finished protocol opens a round; without one the agents
\* collaborate free-form under the spent protocol.
StartRun(prompt) ==
    /\ ~active
    /\ IF prompt /\ phase = "COMPLETED"
       THEN BeginRound /\ spent' = FALSE
       ELSE /\ UNCHANGED <<mode, phase, ready, fired, plan, roster, gates,
                           threads>>
            /\ spent' = (phase = "COMPLETED")
    /\ active' = TRUE
    /\ running' = roster'
    /\ UNCHANGED <<armed, voted, log, inflight, view>>

\* An agent loop ends: the protocol completed, or (Faulty) a backend error,
\* the step budget or an exhausted script.
LoopEnds(a) ==
    /\ a \in running
    /\ view[a] = Idle
    /\ phase = "COMPLETED" \/ Faulty
    /\ running' = running \ {a}
    /\ UNCHANGED <<teamVars, view, active, spent, log, inflight>>

RunEnds ==
    /\ active /\ running = {}
    /\ active' = FALSE
    /\ UNCHANGED <<teamVars, running, view, spent, log, inflight>>

\* The cancelled loops unwind from wherever they wait; a send that awaits its
\* INSERT ends there, with its message in the log and no subscriber called.
\* The human, who sends no second message meanwhile, is not interrupted.
Interrupt ==
    /\ Faulty /\ running # {}
    /\ running' = {}
    /\ view' = [a \in Agents |-> Idle]
    /\ IF Sending(Human)
       THEN \E i \in DOMAIN inflight : /\ inflight[i].author = Human
                                      /\ inflight' = <<inflight[i]>>
       ELSE inflight' = <<>>
    /\ UNCHANGED <<teamVars, active, spent, log>>

Next ==
    \/ \E a \in Agents :
          \/ StepStart(a) \/ StepEnd(a) \/ PostReady(a)
          \/ \E t \in GatePhases :
                PostDraft(a, t) \/ PostApprove(a, t) \/ PostReject(a, t)
          \/ LoopEnds(a)
    \/ \E t \in HumanThreads, s \in {"PROPOSE", "FINAL", "APPROVE", "REJECT"} :
          HumanPost(t, s)
    \/ Publish
    \/ \E prompt \in Prompts : StartRun(prompt)
    \/ RunEnds
    \/ Interrupt

Spec == Init /\ [][Next]_vars

\* run() is called, its loops step their agents again and again, and a willing
\* team answers: everybody says READY:, somebody drafts where there is no
\* draft, who is not counted votes, and the human approves what waits for it.
\* Sends in flight and the ends of steps disable the answers for a while,
\* hence strong fairness.  Nothing makes anybody reject or redraft.
WillingTeam ==
    /\ WF_vars(Publish) /\ WF_vars(RunEnds \/ StartRun(TRUE))
    /\ \A a \in Agents :
          /\ SF_vars(\/ StepStart(a) \/ StepEnd(a)
                     \/ phase = "COMPLETED" /\ LoopEnds(a))
          /\ SF_vars(PostReady(a) \/ \E t \in GatePhases : PostApprove(a, t))
    /\ SF_vars(\E a \in Agents, t \in GatePhases :
                  gates[t].author = Nobody /\ PostDraft(a, t))
    /\ WF_vars(\E t \in GatePhases : gates[t].pending /\ HumanPost(t, "APPROVE"))

FairSpec == Spec /\ WillingTeam
----------------------------------------------------------------------------
(* What makes the protocol correct. *)

\* The roster is the quorum of every gate and the participants of every gate
\* thread, and nobody off the roster is ever counted: a demoted agent's vote
\* neither lingers nor is waited for.
RosterIsEverywhere ==
    \A p \in GatePhases :
        /\ gates[p].participants = roster /\ threads[p] = roster
        /\ gates[p].approvals \subseteq roster

\* A gate that opens moves the phase, once: the team never sits in a phase
\* whose gate is open, a gate is open exactly when its opening was handled,
\* and a complete quorum never leaves a gate closed.
GateMovesPhase ==
    /\ phase \in GatePhases => phase \in armed /\ ~gates[phase].open
    /\ phase # "COMPLETED" =>
          \A p \in GatePhases : /\ gates[p].open <=> p \in fired
                                /\ Settled(ConfigOf(p), gates[p])

\* No vote is counted at a gate before its phase: a vote cast early would
\* open a gate whose opening nobody handles yet.
NothingCountedAhead ==
    phase # "COMPLETED" =>
        \A p \in GatePhases \ (fired \cup {phase}) :
            gates[p].approvals = {} /\ ~gates[p].pending

\* The gates and the phase move together.
GatesFollowPhase == GateMovesPhase /\ NothingCountedAhead

\* is_agent_done: the agent parks instead of stepping.
IsAgentDone(a) ==
    \/ a \notin roster
    \/ phase = "P1_EXPLORE" /\ a \in ready
    \/ /\ phase \in GatePhases
       /\ ~gates[phase].open
       /\ RequiresProposal(phase) => gates[phase].proposal
       /\ a \in gates[phase].approvals

\* Never does everybody park: until the protocol completes, some member of
\* the roster still owes the gate something, or the human does.
SomebodyStillOwes ==
    phase # "COMPLETED" =>
        \/ \E a \in roster : ~IsAgentDone(a)
        \/ phase \in GatePhases /\ gates[phase].pending

\* Until the protocol completes, set_roster never runs while a gate goes on
\* waiting for the human, where the unchanged human_pending would outlive the
\* quorum it was based on.
RosterSettledBeforeHuman ==
    [][phase # "COMPLETED" /\ roster' # roster =>
         \A p \in GatePhases : ~gates'[p].pending]_vars

\* The protocol implements phases left by agreement of the whole team.
AgreedSoFar ==
    CASE phase = "P1_EXPLORE"  -> ready
      [] phase \in GatePhases -> gates[phase].approvals
      [] phase = "COMPLETED"   -> {}
Promise == INSTANCE AgreedPhases WITH Members <- Agents, team <- roster,
                                      agreed <- AgreedSoFar
ImplementsAgreedPhases == Promise!Spec

\* A vote is lost or a draft withdrawn or replaced within a phase.
Disturbed ==
    /\ phase' = phase
    /\ \E p \in GatePhases :
          \/ ~(gates[p].approvals \subseteq gates'[p].approvals)
          \/ gates[p].author \notin {Nobody, gates'[p].author}

\* Every round completes once the team stops rejecting and redrafting,
\* whoever P2 brought from the bench or sent there.
EventuallyCompletes ==
    <>[][~Disturbed]_vars => []<>(phase = "COMPLETED")

\* DYNAMIC_ROSTER_DESIGN.md:326: the submitter is on the roster.  The code does
\* not keep this: see README, "Where code and documents disagree".
SubmitterOnRoster ==
    phase # "P2_SPLIT" /\ plan.submitter # Nobody => plan.submitter \in roster

\* PHASE_MACHINE_ROUTING_AND_CHECKING_DESIGN.md:444: the split that is recorded
\* is the split of the approved draft.  The code does not keep this: see README,
\* "Where code and documents disagree".
CommitsTheApprovedDraft ==
    [][phase = "P2_SPLIT" /\ phase' # phase => plan' = voted']_vars
============================================================================
