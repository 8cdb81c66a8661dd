------------------------ MODULE CollaborationProofs ------------------------
(***************************************************************************)
(* Proofs about Collaboration: types, the roster that every gate and every *)
(* thread knows, gates and phase that move together, a team that never     *)
(* waits for nobody, and the implementation of AgreedPhases.               *)
(***************************************************************************)
EXTENDS Collaboration, GateRulesProofs

\* The gate phases a team in phase p may have left in this round.
Earlier(p) ==
    CASE p \in {"P1_EXPLORE", "P2_SPLIT"} -> {}
      [] p = "P3_EXECUTE" -> {"P2_SPLIT"}
      [] p = "P4_REVIEW"  -> {"P2_SPLIT", "P3_EXECUTE"}
      [] p = "P5_SUBMIT"  -> {"P2_SPLIT", "P3_EXECUTE", "P4_REVIEW"}
      [] p = "COMPLETED"  -> GatePhases

\* Where the gates of a round that goes on may be.
Round ==
    phase # "COMPLETED" =>
        /\ fired \subseteq Earlier(phase)
        /\ mode = "light" => phase \in {"P1_EXPLORE", "P5_SUBMIT"}
        /\ phase = "P1_EXPLORE" => ~(roster \subseteq ready)
        /\ \A p \in GatePhases : GateInv(ConfigOf(p), gates[p])

\* What a step that began in this round may send: nothing to a gate ahead.
StepsInTime ==
    \A a \in Agents : view[a] # Idle =>
        /\ a \in running /\ active
        /\ phase # "COMPLETED" =>
              ~view[a].open /\ view[a].phase \in {"P1_EXPLORE", phase} \cup fired

\* And what it has sent.
InTime(m) ==
    m.signal # "READY" =>
        /\ m.thread \in GatePhases
        /\ m.author # Human /\ phase # "COMPLETED" => m.thread \in fired \cup {phase}
MessagesInTime ==
    \A i \in DOMAIN inflight :
        /\ InTime(inflight[i])
        /\ inflight[i].author # Human => view[inflight[i].author] # Idle

\* What the subscribers keep.
TeamKept ==
    /\ \A p \in GatePhases : gates[p].bound /\ AboutADraft(ConfigOf(p), gates[p])
    /\ RosterIsEverywhere
    /\ GatesFollowPhase
    /\ Round

TeamTyped ==
    /\ phase \in Phases /\ mode \in {"full", "light"}
    /\ roster \subseteq Agents /\ roster # {}
    /\ ready \subseteq roster
    /\ gates \in [GatePhases -> Gate]
    /\ threads \in [GatePhases -> SUBSET Agents]
    /\ armed \subseteq GatePhases /\ fired \subseteq armed
    /\ plan \in Plan /\ voted \in Plan
    /\ running \subseteq Agents

\* A round only goes on, and loops only join a run.
Onward ==
    /\ phase = "COMPLETED" => phase' = "COMPLETED"
    /\ phase' # "COMPLETED" =>
          (fired \cup {phase}) \ {"P1_EXPLORE"} \subseteq fired' \cup {phase'}
    /\ running' # {} => running # {} \/ active
    /\ running \subseteq running'

\* A step of the abstract protocol, or a stutter.
Promised == [Promise!Next]_(Promise!phaseVars)

\* A roster that changes in a round leaves no gate waiting for the human.
Settling == phase # "COMPLETED" /\ roster' # roster => \A p \in GatePhases : ~gates'[p].pending

TeamInv ==
    /\ TypeOK
    /\ TeamKept
    /\ running # {} => active
    /\ StepsInTime
    /\ MessagesInTime
----------------------------------------------------------------------------
(* Gates, threads and messages. *)

LEMMA ConfigTyped ==
  ASSUME NEW p \in GatePhases
  PROVE  ConfigOf(p) \in GateConfig
  BY DEF ConfigOf, GateConfig, RequiresProposal

LEMMA HeardTyped ==
  ASSUME NEW m \in Message
  PROVE  /\ Heard(m).author \in Authors /\ Heard(m).author = m.author
         /\ Heard(m).signal \in Signals
  BY DEF Heard, Message, Signals

----------------------------------------------------------------------------
(* The parts a handler is made of. *)

\* advance goes to a target that is valid from here, and arms its gate, or
\* nowhere.
LEMMA AdvanceGoes ==
  ASSUME NEW T, T \subseteq Phases, phase \in Phases, armed \subseteq GatePhases, Advance(T)
  PROVE  /\ phase' \in Phases /\ armed' \subseteq GatePhases /\ armed \subseteq armed'
         /\ phase' = phase \/ phase' \in T \cap ValidTransitions(phase)
         /\ T \cap ValidTransitions(phase) # {} =>
               /\ phase' \in T \cap ValidTransitions(phase)
               /\ phase' \in GatePhases => phase' \in armed'
  BY DEF Advance

\* The rosters a plan may lead to are teams.
LEMMA RostersAreTeams ==
  ASSUME NEW pl \in Plan, NEW R \in RostersOf(pl)
  PROVE  R \subseteq Agents /\ R # {}
<1>1. pl.submitter \in Agents /\ R \subseteq {pl.submitter} \cup pl.assigned /\ pl.submitter \in R
  BY DEF RostersOf, Plan
<1>2. QED
  BY <1>1 DEF Plan

\* set_roster leaves the roster everywhere, opens no gate nobody voted at,
\* and closes none.
LEMMA SetRosterKeeps ==
  ASSUME NEW gs \in [GatePhases -> Gate], \A p \in GatePhases : gs[p].bound,
         NEW rd, NEW ps, ps \subseteq Agents, ps # {}, SetRoster(gs, rd, ps)
  PROVE  /\ roster' = ps /\ ready' = rd \cap ps
         /\ gates' \in [GatePhases -> Gate] /\ threads' \in [GatePhases -> SUBSET Agents]
         /\ RosterIsEverywhere'
         /\ \A p \in GatePhases :
               /\ gates'[p].bound
               /\ AboutADraft(ConfigOf(p), gs[p]) => AboutADraft(ConfigOf(p), gates'[p])
               /\ gates'[p].approvals = gs[p].approvals \cap ps
               /\ gs[p].open => gates'[p].open /\ gates'[p].pending = gs[p].pending
               /\ gs[p].approvals = {} =>
                     gates'[p].open = gs[p].open /\ gates'[p].pending = gs[p].pending
               /\ GateInv(ConfigOf(p), gs[p]) /\ ~gs[p].pending =>
                     GateInv(ConfigOf(p), gates'[p])
<1>1. /\ roster' = ps /\ ready' = rd \cap ps
      /\ gates' = [p \in GatePhases |-> SetParticipants(ConfigOf(p), gs[p], ps)]
      /\ threads' = [p \in GatePhases |-> ps]
  BY DEF SetRoster
<1>2. ASSUME NEW p \in GatePhases
      PROVE  /\ gates'[p] \in Gate /\ gates'[p].participants = ps /\ gates'[p].bound
             /\ AboutADraft(ConfigOf(p), gs[p]) => AboutADraft(ConfigOf(p), gates'[p])
             /\ gates'[p].approvals = gs[p].approvals \cap ps
             /\ gs[p].open => gates'[p].open /\ gates'[p].pending = gs[p].pending
             /\ gs[p].approvals = {} =>
                   gates'[p].open = gs[p].open /\ gates'[p].pending = gs[p].pending
             /\ GateInv(ConfigOf(p), gs[p]) /\ ~gs[p].pending =>
                   GateInv(ConfigOf(p), gates'[p])
  <2>1. gs[p] \in Gate /\ ConfigOf(p) \in GateConfig /\ gs[p].bound /\ ps \in SUBSET Agents
    BY ConfigTyped
  <2>2. gates'[p] = SetParticipants(ConfigOf(p), gs[p], ps)
    BY <1>1
  <2>3. QED
    BY <2>1, <2>2, SetParticipantsTyped, SetParticipantsFrame, SetParticipantsKeeps,
       RosterIsAboutADraft
<1>3. RosterIsEverywhere'
  BY <1>1, <1>2 DEF RosterIsEverywhere
<1>4. gates' \in [GatePhases -> Gate] /\ threads' \in [GatePhases -> SUBSET Agents]
  BY <1>1, <1>2
<1>5. QED
  BY <1>1, <1>2, <1>3, <1>4
----------------------------------------------------------------------------
(* What a subscriber makes of a message. *)

LEMMA HearReadyKeeps ==
  ASSUME TypeOK, TeamKept, NEW m \in Message, HearReady(m)
  PROVE  TeamTyped' /\ TeamKept' /\ Onward /\ Promised
<1>1. /\ UNCHANGED <<mode, roster, gates, threads, fired, plan, voted, running>>
      /\ TeamTyped
  BY DEF HearReady, TypeOK, TeamTyped
<1>2. /\ \A p \in GatePhases : gates'[p].bound
      /\ \A p \in GatePhases : AboutADraft(ConfigOf(p), gates'[p])
      /\ RosterIsEverywhere'
  BY <1>1 DEF TeamKept, RosterIsEverywhere
<1>3. CASE phase # "P1_EXPLORE" \/ m.author \notin roster
  <2>1. UNCHANGED <<phase, armed, ready>>
    BY <1>3 DEF HearReady
  <2>2. Promised
    BY <1>1, <2>1 DEF Promised, Promise!phaseVars, AgreedSoFar
  <2>3. QED
    BY <1>1, <1>2, <2>1, <2>2
    DEF TeamKept, TeamTyped, Onward, GatesFollowPhase, GateMovesPhase,
        NothingCountedAhead, Round, Settled, Unanimous
<1>4. CASE phase = "P1_EXPLORE" /\ m.author \in roster /\ ~(roster \subseteq ready \cup {m.author})
  <2>1. UNCHANGED <<phase, armed>> /\ ready' = ready \cup {m.author}
    BY <1>4 DEF HearReady
  <2>2. Promise!Agree(m.author) /\ m.author \in Agents
    <3>1. AgreedSoFar = ready /\ AgreedSoFar' = ready'
      BY <1>4, <2>1 DEF AgreedSoFar, GatePhases
    <3>2. QED
      BY <1>1, <1>4, <2>1, <3>1 DEF Promise!Agree, TeamTyped
  <2>3. QED
    BY <1>1, <1>2, <1>4, <2>1, <2>2
    DEF Promised, Promise!Next, TeamKept, TeamTyped, Onward, GatesFollowPhase, GateMovesPhase,
        NothingCountedAhead, Round, Settled, Unanimous
<1>5. CASE phase = "P1_EXPLORE" /\ m.author \in roster /\ roster \subseteq ready \cup {m.author}
  <2>1. ready' = {} /\ Advance({NextPhaseAfterP1})
    BY <1>5 DEF HearReady, FinishP1
  <2>2. /\ {NextPhaseAfterP1} \cap ValidTransitions(phase) # {}
        /\ {NextPhaseAfterP1} \subseteq Phases
        /\ NextPhaseAfterP1 \in {"P2_SPLIT", "P5_SUBMIT"}
        /\ mode = "light" => NextPhaseAfterP1 = "P5_SUBMIT"
    BY <1>5 DEF NextPhaseAfterP1, ValidTransitions, Phases, GatePhases
  <2>3. /\ phase' = NextPhaseAfterP1 /\ phase' \in armed'
        /\ armed' \subseteq GatePhases /\ armed \subseteq armed'
    BY <1>1, <2>1, <2>2, AdvanceGoes DEF TeamTyped, GatePhases
  <2>4. phase # "COMPLETED" /\ fired = {}
    BY <1>5 DEF TeamKept, Round, Earlier
  <2>5. TeamTyped'
    BY <1>1, <2>1, <2>2, <2>3 DEF TeamTyped, Phases, GatePhases
  <2>6. GatesFollowPhase'
    BY <1>1, <1>5, <2>3, <2>4
    DEF TeamKept, GatesFollowPhase, GateMovesPhase, NothingCountedAhead, Settled, Unanimous,
        GatePhases
  <2>7. Round'
    BY <1>1, <1>5, <2>2, <2>3, <2>4 DEF TeamKept, Round
  <2>8. Onward
    BY <1>1, <1>5, <2>4 DEF Onward
  <2>9. AgreedSoFar = ready /\ AgreedSoFar' = {}
    BY <1>1, <1>5, <2>2, <2>3, <2>4
    DEF AgreedSoFar, TeamKept, GatesFollowPhase, NothingCountedAhead, GatePhases
  <2>10. Promise!Leave
    BY <1>1, <1>5, <2>2, <2>3, <2>4, <2>9 DEF Promise!Leave, Promise!Follows, TeamTyped
  <2>11. QED
    BY <1>2, <2>5, <2>6, <2>7, <2>8, <2>10 DEF TeamKept, Promised, Promise!Next
<1>6. QED
  BY <1>3, <1>4, <1>5

\* An opened gate has a phase to go to, and its own does not come back.
LEMMA GateLeadsOn ==
  ASSUME mode \in {"full", "light"}, phase \in GatePhases,
         mode = "light" => phase = "P5_SUBMIT",
         NEW pl, NEW q \in NextPhaseAfterGate(phase, pl)
  PROVE  /\ q \in Phases \cap ValidTransitions(phase)
         /\ q # "P1_EXPLORE" /\ q # phase
         /\ Earlier(phase) \cup {phase} \subseteq Earlier(q)
         /\ q \notin Earlier(q)
         /\ mode = "light" => q = "COMPLETED"
         /\ q \in Promise!Follows[phase]
  BY DEF NextPhaseAfterGate, ValidTransitions, Earlier, Phases, GatePhases, Promise!Follows

LEMMA GateLeadsSomewhere ==
  ASSUME mode \in {"full", "light"}, phase \in GatePhases,
         mode = "light" => phase = "P5_SUBMIT", NEW pl
  PROVE  NextPhaseAfterGate(phase, pl) # {}
  BY DEF NextPhaseAfterGate, GatePhases

LEMMA CommitTyped ==
  ASSUME TypeOK, NEW gs \in [GatePhases -> Gate], \A p \in GatePhases : gs[p].bound,
         gs["P2_SPLIT"].author \in Authors, CommitP2Draft(gs)
  PROVE  /\ plan' \in Plan /\ roster' \subseteq Agents /\ roster' # {}
         /\ \/ gates' = gs /\ UNCHANGED <<roster, ready, threads, running>>
            \/ /\ SetRoster(gs, ready, roster')
               /\ running' = IF active THEN running \cup roster' ELSE running
  BY RostersAreTeams DEF CommitP2Draft, SpawnRoster, SetRoster, TypeOK

LEMMA GateOpenKeeps ==
  ASSUME TypeOK, TeamKept, phase \in GatePhases,
         NEW gs \in [GatePhases -> Gate],
         \A p \in GatePhases : /\ gs[p].bound /\ AboutADraft(ConfigOf(p), gs[p])
                               /\ GateInv(ConfigOf(p), gs[p])
                               /\ gs[p].participants = roster
                               /\ gs[p].approvals \subseteq roster
                               /\ p # phase => gs[p] = gates[p],
         gs[phase].open, HandleGateOpen(phase, gs),
         \E a \in Agents : roster \subseteq gates[phase].approvals \cup {a},
         voted' \in Plan, mode' = mode
  PROVE  TeamTyped' /\ TeamKept' /\ Onward /\ Promised
<1>1. /\ phase # "COMPLETED" /\ phase # "P1_EXPLORE"
      /\ phase \in armed /\ ~gates[phase].open /\ phase \notin fired
      /\ fired \subseteq Earlier(phase)
      /\ mode \in {"full", "light"} /\ (mode = "light" => phase = "P5_SUBMIT")
  BY DEF TypeOK, TeamKept, GatesFollowPhase, GateMovesPhase, Round, GatePhases
<1>2. /\ fired' = fired \cup {phase}
      /\ Advance(NextPhaseAfterGate(phase, plan'))
  BY DEF HandleGateOpen
<1>3. /\ phase' \in NextPhaseAfterGate(phase, plan')
      /\ armed' \subseteq GatePhases /\ armed \subseteq armed'
      /\ phase' \in GatePhases => phase' \in armed'
  <2>1. NextPhaseAfterGate(phase, plan') # {}
    BY <1>1, GateLeadsSomewhere
  <2>2. NextPhaseAfterGate(phase, plan') \subseteq Phases \cap ValidTransitions(phase)
    BY <1>1, GateLeadsOn
  <2>3. QED
    BY <1>2, <2>1, <2>2, AdvanceGoes DEF TypeOK
<1>4. /\ phase' \in Phases /\ phase' # "P1_EXPLORE" /\ phase' # phase
      /\ fired' \subseteq Earlier(phase') /\ phase' \notin fired'
      /\ mode = "light" => phase' = "COMPLETED"
      /\ phase' \in Promise!Follows[phase]
  <2>1. /\ phase' \in Phases /\ phase' # "P1_EXPLORE" /\ phase' # phase
        /\ Earlier(phase) \cup {phase} \subseteq Earlier(phase')
        /\ phase' \notin Earlier(phase')
        /\ mode = "light" => phase' = "COMPLETED"
        /\ phase' \in Promise!Follows[phase]
    BY <1>1, <1>3, GateLeadsOn
  <2>2. QED
    BY <1>1, <1>2, <2>1
\* What the roster the draft may commit makes of the gates.
<1>5. /\ gates' \in [GatePhases -> Gate] /\ threads' \in [GatePhases -> SUBSET Agents]
      /\ roster' \subseteq Agents /\ roster' # {} /\ ready' \subseteq roster'
      /\ plan' \in Plan /\ RosterIsEverywhere'
      /\ phase = "P2_SPLIT" \/ roster' = roster
      /\ running' = running \/ (active /\ running' = running \cup roster')
      /\ \A p \in GatePhases :
            /\ gates'[p].bound /\ AboutADraft(ConfigOf(p), gates'[p])
            /\ GateInv(ConfigOf(p), gates'[p])
            /\ p \in fired' => gates'[p].open
            /\ p \notin fired' => /\ gates'[p].approvals = {}
                                  /\ ~gates'[p].open /\ ~gates'[p].pending
  <2>1. \A p \in GatePhases :
           /\ p \in fired' => gs[p].open
           /\ p \notin fired' => gs[p].approvals = {} /\ ~gs[p].open /\ ~gs[p].pending
    BY <1>1, <1>2 DEF TeamKept, GatesFollowPhase, GateMovesPhase, NothingCountedAhead
  <2>2. CASE gates' = gs /\ UNCHANGED <<roster, ready, threads, running>> /\ plan' \in Plan
    BY <2>1, <2>2 DEF TypeOK, TeamKept, RosterIsEverywhere
  <2>3. CASE phase = "P2_SPLIT"
    <3>1. CommitP2Draft(gs)
      BY <2>3 DEF HandleGateOpen
    <3>2. gs["P2_SPLIT"].author \in Authors
      BY <2>3 DEF AboutADraft, ConfigOf, RequiresProposal, Gate
    <3>3. /\ plan' \in Plan /\ roster' \subseteq Agents /\ roster' # {}
          /\ \/ gates' = gs /\ UNCHANGED <<roster, ready, threads, running>>
             \/ /\ SetRoster(gs, ready, roster')
                /\ running' = IF active THEN running \cup roster' ELSE running
      BY <3>1, <3>2, CommitTyped
    <3>4. CASE /\ SetRoster(gs, ready, roster')
               /\ running' = IF active THEN running \cup roster' ELSE running
      <4>1. \A p \in GatePhases : ~gs[p].pending
        <5>1. ~gs[phase].pending
          BY DEF GateInv, Settled
        <5>2. fired' = {phase}
          BY <1>1, <1>2, <2>3 DEF Earlier
        <5>3. QED
          BY <2>1, <5>1, <5>2
      <4>2. /\ roster' \subseteq Agents /\ roster' # {} /\ ready' = ready \cap roster'
            /\ gates' \in [GatePhases -> Gate] /\ threads' \in [GatePhases -> SUBSET Agents]
            /\ RosterIsEverywhere'
            /\ \A p \in GatePhases :
                  /\ gates'[p].bound
                  /\ AboutADraft(ConfigOf(p), gs[p]) => AboutADraft(ConfigOf(p), gates'[p])
                  /\ gates'[p].approvals = gs[p].approvals \cap roster'
                  /\ gs[p].open => gates'[p].open /\ gates'[p].pending = gs[p].pending
                  /\ gs[p].approvals = {} =>
                        gates'[p].open = gs[p].open /\ gates'[p].pending = gs[p].pending
                  /\ GateInv(ConfigOf(p), gs[p]) /\ ~gs[p].pending =>
                        GateInv(ConfigOf(p), gates'[p])
        BY <3>3, <3>4, SetRosterKeeps
      <4>3. QED
        BY <2>1, <2>3, <3>3, <3>4, <4>1, <4>2
    <3>5. QED
      BY <2>2, <3>3, <3>4
  <2>4. CASE phase # "P2_SPLIT"
    BY <2>2, <2>4 DEF HandleGateOpen, TypeOK
  <2>5. QED
    BY <2>3, <2>4
<1>6. TeamTyped'
  BY <1>1, <1>2, <1>3, <1>4, <1>5 DEF TeamTyped, TypeOK
<1>7. GatesFollowPhase'
  BY <1>3, <1>4, <1>5 DEF GatesFollowPhase, GateMovesPhase, NothingCountedAhead, GateInv
<1>8. Round'
  BY <1>4, <1>5 DEF Round
<1>9. Onward
  BY <1>1, <1>2, <1>5 DEF Onward
<1>10. AgreedSoFar = gates[phase].approvals /\ AgreedSoFar' = {}
  BY <1>4, <1>5 DEF AgreedSoFar, Phases, GatePhases
<1>11. Promise!Leave
  BY <1>1, <1>4, <1>5, <1>10 DEF Promise!Leave
<1>12. QED
  BY <1>5, <1>6, <1>7, <1>8, <1>9, <1>11 DEF TeamKept, Promised, Promise!Next

\* In a round no message moves a gate ahead of its phase, and only the gate of
\* the phase can open.
LEMMA OnlyItsPhaseOpens ==
  ASSUME TypeOK, TeamKept, phase # "COMPLETED", NEW m \in Message, m.signal # "READY", InTime(m),
         NEW h, h = OnMessage(ConfigOf(m.thread), gates[m.thread], Heard(m), threads[m.thread])
  PROVE  /\ m.thread \notin fired \cup {phase} => h.approvals = {} /\ ~h.pending /\ ~h.open
         /\ m.thread \in fired => h.open
         /\ GateInv(ConfigOf(m.thread), h)
<1> DEFINE d == m.thread
<1>1. /\ d \in GatePhases /\ ConfigOf(d) \in GateConfig
      /\ Heard(m).author = m.author /\ Heard(m).author \in Authors /\ Heard(m).signal \in Signals
      /\ gates[d] \in Gate /\ threads[d] \in SUBSET Agents /\ gates[d].bound
      /\ gates[d].participants = roster /\ roster # {}
  BY ConfigTyped, HeardTyped DEF InTime, TypeOK, TeamKept, RosterIsEverywhere
<1> HIDE DEF d
<1>2. GateInv(ConfigOf(d), h)
  BY <1>1, OnMessageKeeps DEF TeamKept, Round, d
<1>3. CASE d \notin fired \cup {phase}
  <2>1. Heard(m).author = Human
    BY <1>1, <1>3 DEF InTime, d
  <2>2. /\ gates[d].approvals = {} /\ ~gates[d].pending /\ ~gates[d].open
        /\ gates[d].participants # {}
    BY <1>1, <1>3 DEF TeamKept, GatesFollowPhase, GateMovesPhase, NothingCountedAhead
  <2>3. QED
    BY <1>1, <1>2, <1>3, <2>1, <2>2, HumanDoesNotVote
    DEF TeamKept, GatesFollowPhase, GateMovesPhase, d
<1>4. CASE d \in fired
  BY <1>1, <1>2, <1>4 DEF OnMessage, TeamKept, GatesFollowPhase, GateMovesPhase, d
<1>5. CASE d = phase
  BY <1>1, <1>2, <1>5 DEF TeamKept, GatesFollowPhase, GateMovesPhase, d
<1>6. QED
  BY <1>2, <1>3, <1>4, <1>5 DEF d

LEMMA HearVoteKeeps ==
  ASSUME TypeOK, TeamKept, NEW m \in Message, m.signal # "READY", InTime(m), HearVote(m)
  PROVE  TeamTyped' /\ TeamKept' /\ Onward /\ Promised
<1>0. PICK d, h, gs : /\ d = m.thread
                     /\ h = OnMessage(ConfigOf(d), gates[d], Heard(m), threads[d])
                     /\ gs = [gates EXCEPT ![d] = h]
  OBVIOUS
<1>1. /\ d \in GatePhases /\ ConfigOf(d) \in GateConfig
      /\ Heard(m).author = m.author /\ Heard(m).author \in Authors /\ Heard(m).signal \in Signals
      /\ gates[d] \in Gate /\ threads[d] \in SUBSET Agents
      /\ gates[d].bound /\ AboutADraft(ConfigOf(d), gates[d])
      /\ gates[d].participants = roster /\ roster # {}
      /\ gates[d].approvals \subseteq roster
  BY <1>0, ConfigTyped, HeardTyped DEF InTime, TypeOK, TeamKept, RosterIsEverywhere
<1>2. /\ h \in Gate /\ h.bound /\ AboutADraft(ConfigOf(d), h)
      /\ h.participants = roster /\ h.approvals \subseteq roster
  BY <1>0, <1>1, OnMessageTyped, OnMessageKeepsRoster, MessageIsAboutADraft
<1>3. voted' \in Plan /\ mode' = mode
  BY DEF HearVote, TypeOK, Message
<1>4. /\ gs \in [GatePhases -> Gate] /\ gs[d] = h
      /\ \A q \in GatePhases : q # d => gs[q] = gates[q]
  BY <1>0, <1>1, <1>2 DEF TypeOK
<1>4a. \A q \in GatePhases :
         /\ gs[q].bound /\ AboutADraft(ConfigOf(q), gs[q])
         /\ gs[q].participants = roster /\ gs[q].approvals \subseteq roster
  BY <1>2, <1>4 DEF TeamKept, RosterIsEverywhere
<1>5. \/ /\ ~gates[d].open /\ h.open /\ d \in armed \ fired
         /\ HandleGateOpen(d, gs)
      \/ /\ ~(~gates[d].open /\ h.open /\ d \in armed \ fired)
         /\ gates' = gs
         /\ UNCHANGED <<phase, armed, fired, plan, roster, ready, threads, running>>
  BY <1>0 DEF HearVote
<1>6. CASE phase # "COMPLETED"
  <2>1. /\ d \notin fired \cup {phase} => h.approvals = {} /\ ~h.pending /\ ~h.open
        /\ d \in fired => h.open
        /\ GateInv(ConfigOf(d), h)
    BY <1>0, <1>6, OnlyItsPhaseOpens
  <2>2. GateInv(ConfigOf(d), h) /\ \A q \in GatePhases : GateInv(ConfigOf(q), gs[q])
    BY <1>4, <1>4a, <1>6, <2>1 DEF TeamKept, Round
  <2>3. CASE ~gates[d].open /\ h.open /\ d \in armed \ fired /\ HandleGateOpen(d, gs)
    <3>1. d = phase
      BY <2>1, <2>3
    <3>2. h.approvals \subseteq gates[phase].approvals \cup {m.author}
      BY <1>0, <1>1, <3>1, OnMessageVotes
    <3>3. roster \subseteq h.approvals
      BY <1>2, <2>2, <1>0, <1>1, <1>6, <2>3, OnMessageKeeps
      DEF OpenedRightly, Unanimous, TeamKept, Round
    <3>4. \E a \in Agents : roster \subseteq gates[phase].approvals \cup {a}
      <4>1. CASE m.author \in Agents
        BY <3>2, <3>3, <4>1
      <4>2. CASE m.author \notin Agents
        <5>1. PICK a \in roster : TRUE
          BY <1>1
        <5>2. roster \subseteq Agents /\ roster \subseteq gates[phase].approvals
          BY <3>2, <3>3, <4>2 DEF TypeOK
        <5>3. QED
          BY <5>1, <5>2
      <4>3. QED
        BY <4>1, <4>2
    <3>5. QED
      BY <1>1, <1>3, <1>4, <1>4a, <2>2, <2>3, <3>1, <3>4, GateOpenKeeps
  <2>4. CASE /\ ~(~gates[d].open /\ h.open /\ d \in armed \ fired)
             /\ gates' = gs
             /\ UNCHANGED <<phase, armed, fired, plan, roster, ready, threads, running>>
    <3>1. /\ d = phase => ~h.open
      BY <1>6, <1>1, <2>4 DEF TeamKept, GatesFollowPhase, GateMovesPhase
    <3>2. TeamTyped'
      BY <1>3, <1>4, <1>4a, <2>4 DEF TeamTyped, TypeOK
    <3>3. RosterIsEverywhere'
      BY <1>4, <1>4a, <2>4 DEF TeamKept, RosterIsEverywhere
    <3>4. GateMovesPhase'
      BY <1>4, <1>4a, <1>6, <2>1, <2>2, <2>4, <3>1
      DEF TeamKept, GatesFollowPhase, GateMovesPhase, GateInv
    <3>5. NothingCountedAhead'
      BY <1>4, <1>4a, <1>6, <2>1, <2>4 DEF TeamKept, GatesFollowPhase, NothingCountedAhead
    <3>6. Round'
      BY <1>3, <1>6, <2>2, <2>4 DEF TeamKept, Round
    <3>7. Onward
      BY <2>4 DEF Onward
    <3>8. Promised
      <4>1. CASE d # phase
        BY <1>4, <2>4, <4>1 DEF Promised, Promise!phaseVars, AgreedSoFar
      <4>2. CASE d = phase
        <5>1. /\ AgreedSoFar = gates[d].approvals /\ AgreedSoFar' = h.approvals
              /\ phase' = phase /\ roster' = roster
          BY <1>1, <1>4, <2>4, <4>2 DEF AgreedSoFar, GatePhases
        <5>2. \/ h.approvals \in {gates[d].approvals, {}}
              \/ /\ m.author \in Agents
                 /\ h.approvals \in {gates[d].approvals \cup {m.author}, {m.author}}
          BY <1>0, <1>1, OnMessageVotes DEF TypeOK
        <5>3. QED
          BY <1>6, <5>1, <5>2
          DEF Promised, Promise!phaseVars, Promise!Next, Promise!Agree, Promise!Retract
      <4>3. QED
        BY <4>1, <4>2
    <3>9. QED
      BY <3>8, <1>4, <1>4a, <2>4, <3>2, <3>3, <3>4, <3>5, <3>6, <3>7 DEF TeamKept, GatesFollowPhase
  <2>5. QED
    BY <1>5, <2>3, <2>4
\* Between rounds gates may open that lead nowhere.
<1>7. CASE phase = "COMPLETED"
  <2>1. CASE ~gates[d].open /\ h.open /\ d \in armed \ fired /\ HandleGateOpen(d, gs)
    <3>1. /\ fired' = fired \cup {d} /\ Advance(NextPhaseAfterGate(d, plan'))
      BY <2>1 DEF HandleGateOpen
    <3>2. phase' = "COMPLETED" /\ armed' = armed
      BY <1>7, <3>1 DEF Advance, ValidTransitions
    <3>3. /\ gates' \in [GatePhases -> Gate] /\ threads' \in [GatePhases -> SUBSET Agents]
          /\ roster' \subseteq Agents /\ roster' # {} /\ ready' \subseteq roster'
          /\ plan' \in Plan /\ RosterIsEverywhere'
          /\ running' = running \/ (active /\ running' = running \cup roster')
          /\ \A q \in GatePhases :
                gates'[q].bound /\ AboutADraft(ConfigOf(q), gates'[q])
      <4>1. CASE gates' = gs /\ UNCHANGED <<roster, ready, threads, running>> /\ plan' \in Plan
        BY <1>4, <1>4a, <4>1 DEF TypeOK, TeamKept, RosterIsEverywhere
      <4>2. CASE d = "P2_SPLIT"
        <5>1. CommitP2Draft(gs) /\ gs["P2_SPLIT"].open
          BY <1>4, <1>4a, <2>1, <4>2 DEF HandleGateOpen
        <5>2. gs["P2_SPLIT"].author \in Authors
          BY <1>4, <1>4a, <5>1 DEF AboutADraft, ConfigOf, RequiresProposal, Gate, GatePhases
        <5>3. /\ plan' \in Plan /\ roster' \subseteq Agents /\ roster' # {}
              /\ \/ gates' = gs /\ UNCHANGED <<roster, ready, threads, running>>
                 \/ /\ SetRoster(gs, ready, roster')
                    /\ running' = IF active THEN running \cup roster' ELSE running
          BY <1>4, <1>4a, <5>1, <5>2, CommitTyped
        <5>4. CASE /\ SetRoster(gs, ready, roster')
                   /\ running' = IF active THEN running \cup roster' ELSE running
          BY <1>4, <1>4a, <5>3, <5>4, SetRosterKeeps
        <5>5. QED
          BY <4>1, <5>3, <5>4
      <4>3. CASE d # "P2_SPLIT"
        BY <2>1, <4>1, <4>3 DEF HandleGateOpen, TypeOK
      <4>4. QED
        BY <4>2, <4>3
    <3>4. TeamTyped'
      BY <1>3, <2>1, <3>1, <3>2, <3>3 DEF TeamTyped, TypeOK, Phases
    <3>5. Promise!Rest
      BY <1>7, <3>2, <3>3 DEF Promise!Rest, AgreedSoFar, GatePhases
    <3>6. QED
      BY <1>7, <3>2, <3>3, <3>4, <3>5
      DEF Promised, Promise!Next, TeamKept, GatesFollowPhase, GateMovesPhase, NothingCountedAhead,
          Round, Onward, GatePhases
  <2>2. CASE /\ gates' = gs
             /\ UNCHANGED <<phase, armed, fired, plan, roster, ready, threads, running>>
    <3>1. TeamTyped'
      BY <1>3, <1>4, <1>4a, <2>2 DEF TeamTyped, TypeOK
    <3>2. Promised
      BY <1>7, <2>2 DEF Promised, Promise!phaseVars, AgreedSoFar, GatePhases
    <3>3. QED
      BY <1>4, <1>4a, <1>7, <2>2, <3>1, <3>2
      DEF TeamKept, RosterIsEverywhere, GatesFollowPhase, GateMovesPhase, NothingCountedAhead,
          Round, Onward, GatePhases
  <2>3. QED
    BY <1>5, <2>1, <2>2
<1>8. QED
  BY <1>6, <1>7

\* Who changes the roster in a round, the draft that was agreed on, does so
\* while no gate waits for the human, and no gate comes to wait for it.
LEMMA RosterMovesQuietly ==
  ASSUME TypeOK, TeamKept, phase # "COMPLETED", NEW m \in Message, InTime(m), Hear(m),
         roster' # roster
  PROVE  \A p \in GatePhases : ~gates'[p].pending
<1>1. m.signal # "READY" /\ HearVote(m)
  BY DEF Hear, HearReady
<1>2. PICK d, h, gs : /\ d = m.thread
                     /\ h = OnMessage(ConfigOf(d), gates[d], Heard(m), threads[d])
                     /\ gs = [gates EXCEPT ![d] = h]
  OBVIOUS
<1>3. /\ d \in GatePhases /\ ConfigOf(d) \in GateConfig
      /\ Heard(m).author \in Authors /\ Heard(m).signal \in Signals
      /\ gates[d] \in Gate /\ threads[d] \in SUBSET Agents
      /\ gates[d].bound /\ AboutADraft(ConfigOf(d), gates[d])
      /\ gates[d].approvals \subseteq gates[d].participants
  BY <1>1, <1>2, ConfigTyped, HeardTyped DEF InTime, TypeOK, TeamKept, RosterIsEverywhere
<1>4. h \in Gate /\ h.bound /\ AboutADraft(ConfigOf(d), h) /\ GateInv(ConfigOf(d), h)
  <2>1. h \in Gate /\ h.bound /\ AboutADraft(ConfigOf(d), h)
    BY <1>2, <1>3, OnMessageTyped, OnMessageKeepsRoster, MessageIsAboutADraft
  <2>2. GateInv(ConfigOf(d), h)
    BY <1>1, <1>2, OnlyItsPhaseOpens
  <2>3. QED
    BY <2>1, <2>2
<1>5. ~gates[d].open /\ h.open /\ d \in armed \ fired /\ HandleGateOpen(d, gs)
  BY <1>1, <1>2 DEF HearVote
<1>6. d = "P2_SPLIT" /\ CommitP2Draft(gs)
  BY <1>5 DEF HandleGateOpen
<1>7. phase = d /\ fired = {}
  <2>1. d = phase
    BY <1>1, <1>2, <1>5, OnlyItsPhaseOpens
  <2>2. QED
    BY <1>6, <2>1 DEF TeamKept, Round, Earlier
<1>8. gs \in [GatePhases -> Gate] /\ gs[d] = h /\ \A q \in GatePhases : q # d => gs[q] = gates[q]
  BY <1>2, <1>3, <1>4 DEF TypeOK
<1>9. \A p \in GatePhases : gs[p].bound
  BY <1>4, <1>8 DEF TeamKept
<1>10. SetRoster(gs, ready, roster') /\ roster' \subseteq Agents /\ roster' # {}
  <2>1. gs["P2_SPLIT"].author \in Authors
    BY <1>4, <1>5, <1>6, <1>8 DEF AboutADraft, ConfigOf, RequiresProposal, Gate, GatePhases
  <2>2. QED
    BY <1>6, <1>8, <1>9, <2>1, CommitTyped
<1>11. ASSUME NEW p \in GatePhases PROVE ~gs[p].pending /\ (gs[p].open \/ gs[p].approvals = {})
  <2>1. CASE p = d
    BY <1>4, <1>5, <1>8, <2>1 DEF GateInv, Settled
  <2>2. CASE p # d
    BY <1>7, <1>8, <2>2 DEF TeamKept, GatesFollowPhase, NothingCountedAhead
  <2>3. QED
    BY <2>1, <2>2
<1>12. QED
  BY <1>8, <1>9, <1>10, <1>11, SetRosterKeeps

LEMMA HearKeeps ==
  ASSUME TypeOK, TeamKept, NEW m \in Message, InTime(m), Hear(m)
  PROVE  TeamTyped' /\ TeamKept' /\ Onward /\ Promised /\ Settling
<1>1. TeamTyped' /\ TeamKept' /\ Onward /\ Promised
  BY HearReadyKeeps, HearVoteKeeps DEF Hear
<1>2. Settling
  BY RosterMovesQuietly DEF Settling
<1>3. QED
  BY <1>1, <1>2
----------------------------------------------------------------------------
(* The actions. *)

\* What was begun and sent in time stays in time while the round goes on.
LEMMA OnwardKeeps ==
  ASSUME TypeOK, StepsInTime, MessagesInTime, running # {} => active, Onward,
         active' = active, view' = view,
         \A j \in DOMAIN inflight' : \E i \in DOMAIN inflight : inflight'[j] = inflight[i]
  PROVE  StepsInTime' /\ MessagesInTime' /\ (running' # {} => active')
<1>1. running' # {} => active'
  BY DEF Onward
<1>2. StepsInTime'
  BY DEF StepsInTime, Onward
<1>3. ASSUME NEW m, InTime(m) PROVE InTime(m)'
  BY <1>3 DEF InTime, Onward, GatePhases
<1>4. MessagesInTime'
  <2> SUFFICES ASSUME NEW m, NEW j \in DOMAIN inflight', m = inflight'[j]
               PROVE  InTime(m)' /\ (m.author # Human => view'[m.author] # Idle)
    BY DEF MessagesInTime, InTime
  <2>1. InTime(m) /\ (m.author # Human => view[m.author] # Idle)
    BY DEF MessagesInTime
  <2>2. QED
    BY <1>3, <2>1
<1>5. QED
  BY <1>1, <1>2, <1>4

LEMMA TypedAgain ==
  ASSUME TeamTyped', log' \in [Authors -> Plan], inflight' \in Seq(Message),
         view' \in [Agents -> View], active' \in BOOLEAN, spent' \in BOOLEAN
  PROVE  TypeOK'
  BY DEF TeamTyped, TypeOK

LEMMA TeamStutters ==
  ASSUME UNCHANGED teamVars
  PROVE  Promised /\ Settling
  BY DEF teamVars, Promised, Promise!phaseVars, AgreedSoFar, Settling

LEMMA SendKeeps ==
  ASSUME TeamInv, NEW m \in Message, InTime(m),
         m.author # Human => view[m.author] # Idle,
         Send(m), UNCHANGED <<view, active, spent>>
  PROVE  TeamInv' /\ Promised /\ Settling
<1>1. log' \in [Authors -> Plan]
  BY DEF Send, TeamInv, TypeOK, Message
<1>2. CASE Persist
  <2>1. inflight' = Append(inflight, m) /\ UNCHANGED <<teamVars, running>>
    BY <1>2 DEF Send
  <2>2. /\ inflight \in Seq(Message) /\ inflight' \in Seq(Message)
        /\ DOMAIN inflight' = 1..(Len(inflight) + 1) /\ DOMAIN inflight = 1..Len(inflight)
        /\ Len(inflight) \in Nat
        /\ \A i \in 1..Len(inflight) : inflight'[i] = inflight[i]
        /\ inflight'[Len(inflight) + 1] = m
    BY <2>1 DEF TeamInv, TypeOK
  <2>3. TypeOK'
    BY <1>1, <2>1, <2>2 DEF TeamInv, TypeOK, teamVars
  <2>4. TeamKept' /\ StepsInTime' /\ (running' # {} => active')
    BY <2>1 DEF TeamInv, teamVars, TeamKept, RosterIsEverywhere, GatesFollowPhase,
                GateMovesPhase, NothingCountedAhead, Round, StepsInTime
  <2>5. \A x \in Message : InTime(x) => InTime(x)'
    BY <2>1 DEF InTime, teamVars
  <2>6. MessagesInTime'
    <3> SUFFICES ASSUME NEW x, NEW j \in DOMAIN inflight', x = inflight'[j]
                 PROVE  InTime(x)' /\ (x.author # Human => view'[x.author] # Idle)
      BY DEF MessagesInTime, InTime
    <3>1. x \in Message /\ InTime(x) /\ (x.author # Human => view[x.author] # Idle)
      BY <2>2 DEF TeamInv, MessagesInTime
    <3>2. QED
      BY <2>5, <3>1
  <2>7. QED
    BY <2>1, <2>3, <2>4, <2>6, TeamStutters DEF TeamInv
<1>3. CASE ~Persist
  <2>1. Hear(m) /\ UNCHANGED inflight
    BY <1>3 DEF Send
  <2>2. TeamTyped' /\ TeamKept' /\ Onward /\ Promised /\ Settling
    BY <2>1, HearKeeps DEF TeamInv
  <2>3. TypeOK'
    BY <1>1, <2>1, <2>2, TypedAgain DEF TeamInv, TypeOK
  <2>4. StepsInTime' /\ MessagesInTime' /\ (running' # {} => active')
    BY <2>1, <2>2, OnwardKeeps DEF TeamInv
  <2>5. QED
    BY <2>2, <2>3, <2>4 DEF TeamInv
<1>4. QED
  BY <1>2, <1>3

LEMMA PublishKeeps ==
  ASSUME TeamInv, Publish
  PROVE  TeamInv' /\ Promised /\ Settling
<1>1. /\ inflight \in Seq(Message) /\ inflight # <<>> /\ inflight' = Tail(inflight)
      /\ Hear(Head(inflight)) /\ UNCHANGED <<log, view, active, spent>>
  BY DEF Publish, TeamInv, TypeOK
<1>2. /\ Head(inflight) = inflight[1] /\ 1 \in DOMAIN inflight /\ Head(inflight) \in Message
      /\ inflight' \in Seq(Message)
      /\ \A j \in DOMAIN inflight' : j + 1 \in DOMAIN inflight /\ inflight'[j] = inflight[j + 1]
  BY <1>1
<1>3. InTime(Head(inflight))
  BY <1>2 DEF TeamInv, MessagesInTime
<1>4. TeamTyped' /\ TeamKept' /\ Onward /\ Promised /\ Settling
  BY <1>1, <1>2, <1>3, HearKeeps DEF TeamInv
<1>5. TypeOK'
  BY <1>1, <1>2, <1>4, TypedAgain DEF TeamInv, TypeOK
<1>6. StepsInTime' /\ MessagesInTime' /\ (running' # {} => active')
  BY <1>1, <1>2, <1>4, OnwardKeeps DEF TeamInv
<1>7. QED
  BY <1>4, <1>5, <1>6 DEF TeamInv

LEMMA PostKeeps ==
  ASSUME TeamInv, NEW a \in Agents, NEW t \in GatePhases \cup {"chat"},
         NEW s \in MessageSignals, NEW pl \in Plan,
         s # "READY" => t \in GatePhases, Post(a, t, s, pl)
  PROVE  TeamInv' /\ Promised /\ Settling
<1>0. PICK m : m = [author |-> a, thread |-> t, signal |-> s, plan |-> pl]
  OBVIOUS
<1>1. m \in Message /\ m.author = a /\ m.thread = t /\ m.signal = s
  BY <1>0 DEF Message, Authors
<1>2. Allowed(a, t, s) /\ Send(m) /\ UNCHANGED <<view, active, spent>>
  BY <1>0 DEF Post
<1>3. InTime(m)
  <2> SUFFICES ASSUME s # "READY", phase # "COMPLETED"
               PROVE  t \in fired \cup {phase}
    BY <1>1 DEF InTime
  <2>1. /\ view[a] # Idle /\ ~view[a].open
        /\ view[a].phase \in {"P1_EXPLORE", phase} \cup fired
    BY <1>2 DEF Allowed, TeamInv, StepsInTime
  <2>2. view[a].phase # "P1_EXPLORE" /\ t = view[a].phase
    BY <1>2, <2>1 DEF Allowed
  <2>3. QED
    BY <2>1, <2>2
<1>4. view[m.author] # Idle
  BY <1>1, <1>2 DEF Allowed
<1>5. QED
  BY <1>1, <1>2, <1>3, <1>4, SendKeeps

LEMMA HumanPostKeeps ==
  ASSUME TeamInv, NEW t \in HumanThreads, NEW s \in {"PROPOSE", "FINAL", "APPROVE", "REJECT"},
         HumanPost(t, s)
  PROVE  TeamInv' /\ Promised /\ Settling
<1>1. PICK pl \in Plan : Send([author |-> Human, thread |-> t, signal |-> s, plan |-> pl])
  BY CollaborationConstants DEF HumanPost, NoPlan, Plan
<1>2. PICK m : m = [author |-> Human, thread |-> t, signal |-> s, plan |-> pl]
  OBVIOUS
<1>3. m \in Message /\ m.author = Human /\ InTime(m)
  BY <1>2, CollaborationConstants DEF Message, MessageSignals, Authors, InTime
<1>4. UNCHANGED <<view, active, spent>>
  BY DEF HumanPost
<1>5. QED
  BY <1>1, <1>2, <1>3, <1>4, SendKeeps

LEMMA StepKeeps ==
  ASSUME TeamInv, NEW a \in Agents, StepStart(a) \/ StepEnd(a)
  PROVE  TeamInv' /\ Promised /\ Settling
<1>1. UNCHANGED <<teamVars, running, active, spent, log, inflight>>
  BY DEF StepStart, StepEnd
<1>2. TeamKept' /\ (running' # {} => active')
  BY <1>1 DEF TeamInv, teamVars, TeamKept, RosterIsEverywhere, GatesFollowPhase,
              GateMovesPhase, NothingCountedAhead, Round
<1>3. /\ view' \in [Agents -> View]
      /\ \A b \in Agents \ {a} : view'[b] = view[b]
  <2>1. Idle \in View
    BY DEF Idle, View, Phases
  <2>2. FreshView \in View
    <3>1. phase \in Phases /\ (phase \in GatePhases => gates[phase].open \in BOOLEAN
                                                  /\ gates[phase].proposal \in BOOLEAN)
      BY DEF TeamInv, TypeOK, Gate
    <3>2. QED
      BY <3>1 DEF FreshView, View, RequiresProposal
  <2>3. view' \in {[view EXCEPT ![a] = FreshView], [view EXCEPT ![a] = Idle]}
    BY DEF StepStart, StepEnd
  <2>4. QED
    BY <2>1, <2>2, <2>3 DEF TeamInv, TypeOK
<1>4. TypeOK'
  BY <1>1, <1>3 DEF TeamInv, TypeOK, teamVars
<1>5. StepsInTime'
  <2>1. CASE StepStart(a)
    <3>1. /\ a \in running /\ active /\ view'[a] = FreshView
      BY <2>1 DEF StepStart, TeamInv, TypeOK
    <3>2. phase # "COMPLETED" => ~FreshView.open /\ FreshView.phase = phase
      BY DEF FreshView, TeamInv, TeamKept, GatesFollowPhase, GateMovesPhase
    <3>3. QED
      BY <1>1, <1>3, <3>1, <3>2 DEF StepsInTime, TeamInv, teamVars
  <2>2. CASE StepEnd(a)
    <3>1. view'[a] = Idle
      BY <2>2 DEF StepEnd, TeamInv, TypeOK
    <3>2. QED
      BY <1>1, <1>3, <3>1 DEF StepsInTime, TeamInv, teamVars
  <2>3. QED
    BY <2>1, <2>2
<1>6. MessagesInTime'
  <2>1. ASSUME NEW i \in DOMAIN inflight, inflight[i].author # Human
        PROVE  inflight[i].author \in Agents \ {a}
    <3>1. inflight[i].author \in Agents /\ view[inflight[i].author] # Idle
      <4>1. inflight[i] \in Message
        BY DEF TeamInv, TypeOK
      <4>2. QED
        BY <2>1, <4>1 DEF TeamInv, MessagesInTime, Message, Authors
    <3>2. view[a] = Idle \/ ~Sending(a)
      BY DEF StepStart, StepEnd
    <3>3. QED
      BY <3>1, <3>2 DEF Sending
  <2>2. QED
    BY <1>1, <1>3, <2>1 DEF MessagesInTime, InTime, TeamInv, teamVars
<1>7. QED
  BY <1>1, <1>2, <1>4, <1>5, <1>6, TeamStutters DEF TeamInv

\* Nobody is in a step, or sending, when no loop runs.
LEMMA AllIdle ==
  ASSUME TeamInv, running = {}
  PROVE  /\ \A a \in Agents : view[a] = Idle
         /\ \A i \in DOMAIN inflight : inflight[i].author = Human
<1>1. \A a \in Agents : view[a] = Idle
  BY DEF TeamInv, StepsInTime
<1>2. \A i \in DOMAIN inflight : inflight[i] \in Message
  BY DEF TeamInv, TypeOK
<1>3. QED
  BY <1>1, <1>2 DEF TeamInv, MessagesInTime, Message, Authors

LEMMA LoopsEndKeeps ==
  ASSUME TeamInv, (\E a \in Agents : LoopEnds(a)) \/ RunEnds
  PROVE  TeamInv' /\ Promised /\ Settling
<1>1. /\ UNCHANGED <<teamVars, view, spent, log, inflight>>
      /\ running' \subseteq running /\ active' \in BOOLEAN
      /\ \A a \in Agents : view[a] # Idle => a \in running' /\ active'
      /\ running' # {} => active'
  BY AllIdle DEF LoopEnds, RunEnds, TeamInv, TypeOK, StepsInTime
<1>2. TypeOK'
  BY <1>1 DEF TeamInv, TypeOK, teamVars
<1>3. TeamKept'
  BY <1>1 DEF TeamInv, teamVars, TeamKept, RosterIsEverywhere, GatesFollowPhase,
              GateMovesPhase, NothingCountedAhead, Round
<1>4. StepsInTime' /\ MessagesInTime'
  BY <1>1 DEF TeamInv, StepsInTime, MessagesInTime, InTime, teamVars
<1>5. QED
  BY <1>1, <1>2, <1>3, <1>4, TeamStutters DEF TeamInv

LEMMA InterruptKeeps ==
  ASSUME TeamInv, Interrupt
  PROVE  TeamInv' /\ Promised /\ Settling
<1>1. /\ UNCHANGED <<teamVars, active, spent, log>> /\ running' = {}
      /\ view' = [a \in Agents |-> Idle]
  BY DEF Interrupt
<1>2. /\ inflight' \in Seq(Message)
      /\ \A j \in DOMAIN inflight' :
            /\ inflight'[j].author = Human
            /\ \E i \in DOMAIN inflight : inflight'[j] = inflight[i]
  <2>1. CASE Sending(Human)
    <3>1. PICK i \in DOMAIN inflight : inflight[i].author = Human /\ inflight' = <<inflight[i]>>
      BY <2>1 DEF Interrupt
    <3>2. inflight[i] \in Message /\ DOMAIN inflight' = {1} /\ inflight'[1] = inflight[i]
      BY <3>1 DEF TeamInv, TypeOK
    <3>3. QED
      BY <3>1, <3>2
  <2>2. CASE ~Sending(Human)
    <3>1. inflight' = <<>>
      BY <2>2 DEF Interrupt
    <3>2. QED
      BY <3>1
  <2>3. QED
    BY <2>1, <2>2
<1>3. TypeOK'
  BY <1>1, <1>2 DEF TeamInv, TypeOK, teamVars, Idle, View, Phases
<1>4. TeamKept'
  BY <1>1 DEF TeamInv, teamVars, TeamKept, RosterIsEverywhere, GatesFollowPhase,
              GateMovesPhase, NothingCountedAhead, Round
<1>5. StepsInTime'
  BY <1>1 DEF StepsInTime
<1>6. MessagesInTime'
  <2> SUFFICES ASSUME NEW m, NEW j \in DOMAIN inflight', m = inflight'[j]
               PROVE  InTime(m)' /\ m.author = Human
    BY DEF MessagesInTime, InTime
  <2>1. InTime(m) /\ m.author = Human
    BY <1>2 DEF TeamInv, MessagesInTime
  <2>2. QED
    BY <1>1, <2>1 DEF InTime, teamVars
<1>7. QED
  BY <1>1, <1>3, <1>4, <1>5, <1>6, TeamStutters DEF TeamInv

\* begin_round makes every gate a new one.
LEMMA BeginRoundKeeps ==
  ASSUME TypeOK, TeamKept, BeginRound
  PROVE  /\ TeamKept' /\ phase' \in Phases /\ mode' \in {"full", "light"}
         /\ roster' = InitialRoster /\ ready' \subseteq roster'
         /\ gates' \in [GatePhases -> Gate] /\ threads' \in [GatePhases -> SUBSET Agents]
         /\ fired' = {} /\ plan' \in Plan
<1>0. PICK gs : gs = [p \in GatePhases |-> ResetForRound(gates[p])]
  OBVIOUS
<1>1. /\ mode' = "light" /\ phase' = "P1_EXPLORE" /\ fired' = {} /\ plan' = NoPlan
      /\ SetRoster(gs, {}, InitialRoster)
  BY <1>0 DEF BeginRound
<1>2. ASSUME NEW p \in GatePhases
      PROVE  /\ gs[p] \in Gate /\ gs[p].bound /\ gs[p].approvals = {}
             /\ ~gs[p].open /\ ~gs[p].pending /\ ~gs[p].proposal
             /\ GateInv(ConfigOf(p), gs[p])
  <2>1. gates[p] \in Gate /\ gates[p].bound /\ ConfigOf(p) \in GateConfig
    BY ConfigTyped DEF TypeOK, TeamKept
  <2>2. gs[p] = ResetForRound(gates[p])
    BY <1>0
  <2>3. QED
    BY <2>1, <2>2, ResetFrame, ResetKeeps
<1>3. gs \in [GatePhases -> Gate]
  BY <1>0, <1>2
<1>4. \A p \in GatePhases : AboutADraft(ConfigOf(p), gs[p])
  BY <1>2 DEF AboutADraft
<1>5. InitialRoster \subseteq Agents /\ InitialRoster # {}
  BY CollaborationConstants
<1>6. /\ roster' = InitialRoster /\ ready' = {}
      /\ gates' \in [GatePhases -> Gate] /\ threads' \in [GatePhases -> SUBSET Agents]
      /\ RosterIsEverywhere'
      /\ \A p \in GatePhases :
            /\ gates'[p].bound /\ AboutADraft(ConfigOf(p), gates'[p])
            /\ gates'[p].approvals = {} /\ ~gates'[p].open /\ ~gates'[p].pending
            /\ GateInv(ConfigOf(p), gates'[p])
  BY <1>1, <1>2, <1>3, <1>4, <1>5, SetRosterKeeps
<1>7. GatesFollowPhase'
  BY <1>1, <1>6 DEF GatesFollowPhase, GateMovesPhase, NothingCountedAhead, GateInv, GatePhases
<1>8. Round'
  BY <1>1, <1>5, <1>6 DEF Round, Earlier
<1>9. QED
  BY <1>1, <1>6, <1>7, <1>8 DEF TeamKept, Phases, NoPlan, Plan

LEMMA StartRunKeeps ==
  ASSUME TeamInv, NEW prompt \in Prompts, StartRun(prompt)
  PROVE  TeamInv' /\ Promised /\ Settling
<1>1. /\ active' = TRUE /\ running' = roster' /\ UNCHANGED <<armed, voted, log, inflight, view>>
      /\ spent' \in BOOLEAN
  BY DEF StartRun
<1>2. \A a \in Agents : view[a] = Idle
  BY AllIdle DEF StartRun, TeamInv
<1>3. \A i \in DOMAIN inflight : inflight[i].author = Human
  BY AllIdle DEF StartRun, TeamInv
<1>4. /\ TeamKept' /\ phase' \in Phases /\ mode' \in {"full", "light"}
      /\ roster' \subseteq Agents /\ roster' # {} /\ ready' \subseteq roster'
      /\ gates' \in [GatePhases -> Gate] /\ threads' \in [GatePhases -> SUBSET Agents]
      /\ fired' \subseteq armed' /\ plan' \in Plan
  <2>1. CASE BeginRound
    BY <1>1, <2>1, BeginRoundKeeps, CollaborationConstants DEF TeamInv
  <2>2. CASE UNCHANGED <<mode, phase, ready, fired, plan, roster, gates, threads>>
    BY <1>1, <2>2 DEF TeamInv, TypeOK, TeamKept, RosterIsEverywhere, GatesFollowPhase,
              GateMovesPhase, NothingCountedAhead, Round
  <2>3. QED
    BY <2>1, <2>2 DEF StartRun
<1>5. TypeOK'
  BY <1>1, <1>4 DEF TeamInv, TypeOK
<1>6. StepsInTime' /\ MessagesInTime'
  BY <1>1, <1>2, <1>3 DEF TeamInv, StepsInTime, MessagesInTime, InTime
<1>7. Promised
  <2>1. CASE BeginRound /\ phase = "COMPLETED"
    <3>1. AgreedSoFar' = ready' /\ ready' = {} /\ phase' = "P1_EXPLORE"
      BY <2>1 DEF BeginRound, SetRoster, AgreedSoFar, GatePhases
    <3>2. Promise!Rest
      BY <1>4, <2>1, <3>1 DEF Promise!Rest
    <3>3. QED
      BY <3>2 DEF Promised, Promise!Next
  <2>2. CASE UNCHANGED <<phase, roster, ready, gates>>
    BY <2>2 DEF Promised, Promise!phaseVars, AgreedSoFar
  <2>3. QED
    BY <2>1, <2>2 DEF StartRun
<1>8. Settling
  BY DEF StartRun, Settling
<1>9. QED
  BY <1>1, <1>4, <1>5, <1>6, <1>7, <1>8 DEF TeamInv

LEMMA TeamInvInit == Init => TeamInv
<1> SUFFICES ASSUME Init PROVE TeamInv
  OBVIOUS
<1>1. /\ InitialRoster \subseteq Agents /\ InitialRoster # {} /\ FirstMode \in {"full", "light"}
  BY CollaborationConstants
<1>2. PICK g : g = BindToThread(NewGate, InitialRoster)
  OBVIOUS
<1>3. /\ g \in Gate /\ g.bound /\ g.participants = InitialRoster /\ g.approvals = {}
      /\ ~g.open /\ ~g.pending /\ ~g.proposal
  BY <1>1, <1>2 DEF BindToThread, NewGate, Gate
<1>4. \A p \in GatePhases : GateInv(ConfigOf(p), g) /\ AboutADraft(ConfigOf(p), g)
  BY <1>1, <1>2, <1>3, ConfigTyped, NewGateKeeps DEF AboutADraft
<1>5. gates = [p \in GatePhases |-> g]
  BY <1>2 DEF Init
<1>6. TypeOK
  <2>1. NoPlan \in Plan /\ Idle \in View /\ "P1_EXPLORE" \in Phases
    BY DEF NoPlan, Plan, Idle, View, Phases
  <2>2. gates \in [GatePhases -> Gate]
    BY <1>3, <1>5
  <2>3. inflight \in Seq(Message)
    BY DEF Init
  <2>4. QED
    BY <1>1, <2>1, <2>2, <2>3 DEF Init, TypeOK
<1>7. TeamKept
  BY <1>1, <1>3, <1>4, <1>5
  DEF Init, TeamKept, RosterIsEverywhere, GatesFollowPhase, GateMovesPhase, NothingCountedAhead,
      Round, GateInv, GatePhases, Earlier
<1>8. StepsInTime /\ MessagesInTime /\ (running # {} => active)
  BY DEF Init, StepsInTime, MessagesInTime
<1>9. QED
  BY <1>6, <1>7, <1>8 DEF TeamInv

LEMMA TeamInvNext ==
  ASSUME TeamInv, [Next]_vars
  PROVE  TeamInv' /\ Promised /\ Settling
<1>1. CASE UNCHANGED vars
  BY <1>1 DEF TeamInv, TypeOK, vars, teamVars, runVars, TeamKept, RosterIsEverywhere,
              GatesFollowPhase, GateMovesPhase, NothingCountedAhead, Round, StepsInTime,
              MessagesInTime, InTime, Promised, Promise!phaseVars, AgreedSoFar, Settling
<1>2. ASSUME NEW a \in Agents, StepStart(a) \/ StepEnd(a)
      PROVE  TeamInv' /\ Promised /\ Settling
  BY <1>2, StepKeeps
<1>3. ASSUME NEW a \in Agents, PostReady(a)
      PROVE  TeamInv' /\ Promised /\ Settling
  BY <1>3, PostKeeps DEF PostReady, MessageSignals, NoPlan, Plan
<1>4. ASSUME NEW a \in Agents, NEW t \in GatePhases,
             PostDraft(a, t) \/ PostApprove(a, t) \/ PostReject(a, t)
      PROVE  TeamInv' /\ Promised /\ Settling
  <2>1. NoPlan \in Plan /\ Plans \subseteq Plan
    BY CollaborationConstants DEF NoPlan, Plan
  <2>2. PICK s \in MessageSignals, pl \in Plan : s # "READY" /\ Post(a, t, s, pl)
    BY <1>4, <2>1 DEF PostDraft, PostApprove, PostReject, MessageSignals, EntrySignal
  <2>3. QED
    BY <2>2, PostKeeps
<1>5. ASSUME NEW t \in HumanThreads, NEW s \in {"PROPOSE", "FINAL", "APPROVE", "REJECT"},
             HumanPost(t, s)
      PROVE  TeamInv' /\ Promised /\ Settling
  BY <1>5, HumanPostKeeps
<1>6. CASE Publish
  BY <1>6, PublishKeeps
<1>7. ASSUME NEW prompt \in Prompts, StartRun(prompt)
      PROVE  TeamInv' /\ Promised /\ Settling
  BY <1>7, StartRunKeeps
<1>8. CASE (\E a \in Agents : LoopEnds(a)) \/ RunEnds
  BY <1>8, LoopsEndKeeps
<1>9. CASE Interrupt
  BY <1>9, InterruptKeeps
<1>10. QED
  BY <1>1, <1>2, <1>3, <1>4, <1>5, <1>6, <1>7, <1>8, <1>9 DEF Next

LEMMA TeamInvariant == Spec => []TeamInv
  BY TeamInvInit, TeamInvNext, PTL DEF Spec
----------------------------------------------------------------------------
\* The protocol's state keeps its types, whatever the drafts make of the team.
THEOREM ProtocolTyped == Spec => []TypeOK
  BY TeamInvariant, PTL DEF TeamInv

\* In every round, run and phase the roster is the quorum of every gate and
\* the audience of every gate thread, and nobody off it is counted.
THEOREM RosterHolds == Spec => []RosterIsEverywhere
<1>1. TeamInv => RosterIsEverywhere
  BY DEF TeamInv, TeamKept
<1>2. QED
  BY <1>1, TeamInvariant, PTL

\* A gate that opens moves the phase, once, and no gate is voted at ahead of
\* its phase, however late the copies and the messages of the agents are.
THEOREM GatesAndPhaseMoveTogether == Spec => []GatesFollowPhase
<1>1. TeamInv => GatesFollowPhase
  BY DEF TeamInv, TeamKept
<1>2. QED
  BY <1>1, TeamInvariant, PTL

\* A team never waits for nobody: until the protocol completes, some member
\* owes its phase an answer or the human does.
THEOREM NeverEverybodyWaits == Spec => []SomebodyStillOwes
<1>1. ASSUME TeamInv, phase # "COMPLETED"
      PROVE  \/ \E a \in roster : ~IsAgentDone(a)
             \/ phase \in GatePhases /\ gates[phase].pending
  <2>1. CASE phase = "P1_EXPLORE"
    <3>1. PICK a \in roster : a \notin ready
      BY <1>1, <2>1 DEF TeamInv, TeamKept, Round
    <3>2. QED
      BY <2>1, <3>1 DEF IsAgentDone, GatePhases
  <2>2. CASE phase \in GatePhases
    <3>1. /\ ~gates[phase].open /\ gates[phase].participants = roster /\ roster # {}
          /\ Settled(ConfigOf(phase), gates[phase])
      BY <1>1, <2>2
      DEF TeamInv, TypeOK, TeamKept, GatesFollowPhase, GateMovesPhase, RosterIsEverywhere
    <3>2. CASE \E a \in roster : a \notin gates[phase].approvals
      BY <2>2, <3>2 DEF IsAgentDone, GatePhases
    <3>3. CASE RequiresProposal(phase) /\ ~gates[phase].proposal
      BY <2>2, <3>1, <3>3 DEF IsAgentDone, GatePhases
    <3>4. CASE /\ roster \subseteq gates[phase].approvals
               /\ RequiresProposal(phase) => gates[phase].proposal
      BY <2>2, <3>1, <3>4 DEF Settled, Unanimous, ConfigOf
    <3>5. QED
      BY <3>2, <3>3, <3>4
  <2>3. QED
    BY <1>1, <2>1, <2>2 DEF TeamInv, TypeOK, Phases
<1>2. TeamInv => SomebodyStillOwes
  BY <1>1 DEF SomebodyStillOwes
<1>3. QED
  BY <1>2, TeamInvariant, PTL

\* As long as a round goes on the roster changes only while no gate waits for
\* the human (_commit_p2_draft, set_roster): what the human is asked about has
\* the consent of everybody it needs.
THEOREM RosterSettles == Spec => RosterSettledBeforeHuman
<1>1. TeamInv /\ [Next]_vars =>
          [phase # "COMPLETED" /\ roster' # roster =>
               \A p \in GatePhases : ~gates'[p].pending]_vars
  BY TeamInvNext DEF Settling
<1>2. QED
  BY <1>1, TeamInvariant, PTL DEF Spec, RosterSettledBeforeHuman

\* Whatever agents, human, database and interrupts do, the protocol goes
\* through its phases in order and leaves each by agreement of the whole team,
\* which nobody but the split changes.
THEOREM PhasesAreAgreed == Spec => ImplementsAgreedPhases
<1>1. Init => Promise!Init
  BY CollaborationConstants DEF Init, Promise!Init, AgreedSoFar, GatePhases
<1>2. TeamInv /\ [Next]_vars => Promised
  BY TeamInvNext
<1>3. QED
  BY <1>1, <1>2, TeamInvariant, PTL DEF Spec, ImplementsAgreedPhases, Promised, Promise!Spec
============================================================================
