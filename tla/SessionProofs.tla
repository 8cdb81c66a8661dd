--------------------------- MODULE SessionProofs ---------------------------
(***************************************************************************)
(* Proofs about what a session does for its agents: the turns they take    *)
(* (SessionRun), for every set of agents, every roster, every budget and   *)
(* every bound, and the tokens their backends sign in with (SignIn), for   *)
(* every set of backends and sessions, every portal and every bound.       *)
(***************************************************************************)
EXTENDS SessionRun, SignIn, FiniteSetTheorems, TLAPS

(***************************************************************************)
(* Type correctness.                                                       *)
(***************************************************************************)

LEMMA PhasesKnown ==
  /\ {"P1_EXPLORE", "COMPLETED"} \subseteq Phases
  /\ \A p \in Phases : Protocol!Follows[p] \subseteq Phases
  BY DEF Phases, Protocol!Follows

LEMMA SpeakTyped ==
  ASSUME TypeOK, NEW a \in Agents, Speak(a)
  PROVE  /\ phase' \in Phases /\ agreed' \subseteq team'
         /\ team' \subseteq Agents /\ team' # {}
<1>1. CASE Protocol!Leave
  BY <1>1, PhasesKnown DEF Protocol!Leave, TypeOK
<1>2. CASE ~Protocol!Leave
  BY <1>2 DEF Speak, Protocol!Retract, protocolVars, TypeOK
<1>3. QED
  BY <1>1, <1>2

LEMMA EngageTyped ==
  ASSUME TypeOK, NEW a \in Agents, Engage(a)
  PROVE  /\ pc' \in [Agents -> {"none", "top", "model", "backoff", "parked"}]
         /\ phase0' \in [Agents -> Phases]
         /\ inbox' \in [Agents -> SUBSET {"chat", "gate"}]
         /\ deadlock' \in BOOLEAN
<1>1. CASE /\ pc' = [pc EXCEPT ![a] = "none"]
           /\ UNCHANGED <<phase0, inbox, deadlock>>
  BY <1>1 DEF TypeOK
<1>2. CASE Park(a, steps) /\ UNCHANGED inbox
  BY <1>2 DEF Park, TypeOK
<1>3. CASE Step(a)
  BY <1>3 DEF Step, TypeOK
<1>4. QED
  BY <1>1, <1>2, <1>3 DEF Engage

LEMMA InitTyped == Init => TypeOK
<1> SUFFICES ASSUME Init PROVE TypeOK
  OBVIOUS
<1>1. /\ phase \in Phases /\ agreed \subseteq team
      /\ team \subseteq Agents /\ team # {}
      /\ phase0 \in [Agents -> Phases]
  BY SessionConstants, PhasesKnown DEF Init
<1>2. /\ retries \in [Agents -> 0..MaxRetries]
      /\ turns \in 0..MaxTurns /\ pokes \in 0..MaxPokes
  BY SessionConstants DEF Init
<1>3. interact \in BOOLEAN
  BY SessionConstants DEF Init
<1>4. QED
  BY <1>1, <1>2, <1>3 DEF Init, TypeOK

LEMMA LoopTyped ==
  ASSUME TypeOK, NEW a \in Agents, Loop(a), UNCHANGED interact, passedBy' \subseteq Agents
  PROVE  TypeOK'
<1>1. CASE Begin(a)
  BY <1>1, EngageTyped DEF Begin, protocolVars, TypeOK
<1>2. CASE Wake(a)
  BY <1>2, EngageTyped DEF Wake, protocolVars, TypeOK
<1>3. CASE GiveUp(a) \/ BackoffEnds(a)
  BY <1>3 DEF GiveUp, BackoffEnds, protocolVars, turnVars, TypeOK
<1>4. CASE Detect(a)
  BY <1>4 DEF Detect, protocolVars, TypeOK
<1>5. CASE ModelFails(a)
  BY <1>5, SessionConstants DEF ModelFails, protocolVars, turnVars, TypeOK
<1>6. CASE QuietStep(a)
  <2>1. /\ pc' \in [Agents -> {"none", "top", "model", "backoff", "parked"}]
        /\ phase0' \in [Agents -> Phases] /\ nudged' \subseteq Agents \X Phases
        /\ deadlock' \in BOOLEAN
    <3>1. CASE Park(a, steps') /\ UNCHANGED nudged
      BY <3>1 DEF Park, TypeOK
    <3>2. CASE /\ \E s \in {"top", "none"} : pc' = [pc EXCEPT ![a] = s]
               /\ nudged' \in {nudged, nudged \cup {<<a, phase>>}}
               /\ UNCHANGED <<phase0, deadlock>>
      BY <3>2 DEF TypeOK
    <3>3. QED
      BY <1>6, <3>1, <3>2 DEF QuietStep
  <2>2. /\ steps' \in Nat /\ retries' \in [Agents -> 0..MaxRetries]
        /\ UNCHANGED <<phase, team, agreed, inbox, interrupted, turns, pokes, died>>
    BY <1>6, SessionConstants DEF QuietStep, protocolVars, TypeOK
  <2>3. QED
    BY <2>1, <2>2 DEF TypeOK
<1>7. CASE ToolStep(a)
  <2>1. /\ pc' \in [Agents -> {"none", "top", "model", "backoff", "parked"}]
        /\ steps' \in Nat /\ retries' \in [Agents -> 0..MaxRetries]
        /\ UNCHANGED <<phase0, nudged, deadlock, interrupted, turns, pokes, died>>
    BY <1>7, SessionConstants DEF ToolStep, turnVars, TypeOK
  <2>2. CASE UNCHANGED <<protocolVars, inbox>>
    BY <2>1, <2>2 DEF protocolVars, TypeOK
  <2>3. ASSUME NEW to, Speak(a), Deliver(to) PROVE TypeOK'
    <3>1. inbox' \in [Agents -> SUBSET {"chat", "gate"}]
      BY <2>3 DEF Deliver, Thread, TypeOK
    <3>2. QED
      BY <2>1, <2>3, <3>1, SpeakTyped DEF TypeOK
  <2>4. QED
    BY <1>7, <2>2, <2>3 DEF ToolStep
<1>8. QED
  BY <1>1, <1>2, <1>3, <1>4, <1>5, <1>6, <1>7 DEF Loop

LEMMA NextTyped == TypeOK /\ [Next]_vars => TypeOK'
<1> SUFFICES ASSUME TypeOK, [Next]_vars PROVE TypeOK'
  OBVIOUS
<1>1. ASSUME NEW a \in Agents, Loop(a), UNCHANGED interact, Remember PROVE TypeOK'
  BY <1>1, LoopTyped DEF Remember
<1>2. CASE Run /\ UNCHANGED interact /\ Remember
  <2>1. /\ phase' \in Phases /\ agreed' \subseteq team'
        /\ team' \subseteq Agents /\ team' # {}
    BY <1>2, SessionConstants, PhasesKnown DEF Run, protocolVars, TypeOK
  <2>2. /\ pc' \in [Agents -> {"none", "top", "model", "backoff", "parked"}]
        /\ inbox' \in [Agents -> SUBSET {"chat", "gate"}]
    BY <1>2 DEF Run, TypeOK
  <2>3. /\ retries' \in [Agents -> 0..MaxRetries]
        /\ turns' \in 0..MaxTurns /\ steps' \in Nat
    BY <1>2, SessionConstants DEF Run, TypeOK
  <2>4. QED
    BY <1>2, <2>1, <2>2, <2>3 DEF Run, Remember, TypeOK
<1>3. CASE Interrupt /\ UNCHANGED interact /\ Remember
  BY <1>3 DEF Interrupt, Remember, protocolVars, TypeOK
<1>4. ASSUME NEW to \in (SUBSET Agents) \ {{}}, Poke(to), UNCHANGED interact, Remember
      PROVE  TypeOK'
  BY <1>4, SessionConstants DEF Poke, Remember, protocolVars, TypeOK
<1>5. CASE UNCHANGED vars
  BY <1>5 DEF vars, protocolVars, turnVars, TypeOK
<1>6. QED
  BY <1>1, <1>2, <1>3, <1>4, <1>5 DEF Next

\* The state of a session keeps its types over any number of turns: only
\* members of the team are counted, and no loop retries beyond its allowance.
THEOREM TurnTyped == Spec => []TypeOK
<1>1. QED
  BY InitTyped, NextTyped, PTL DEF Spec

(***************************************************************************)
(* The budget.  OverrunIsBounded is not inductive: how far the steps may   *)
(* still go depends on how many model calls are under way.                 *)
(***************************************************************************)

Answering == {a \in Agents : pc[a] = "model"}

Budgeted ==
    \/ steps < MaxSteps
    \/ steps + Cardinality(Answering) <= MaxSteps + Cardinality(Agents) - 1

LEMMA AnsweringFinite ==
  /\ Cardinality(Agents) \in Nat \ {0}
  /\ IsFiniteSet(Answering) /\ Cardinality(Answering) \in Nat
  /\ IsFiniteSet(Answering') /\ Cardinality(Answering') \in Nat
<1>1. IsFiniteSet(Agents) /\ Agents # {}
  BY SessionConstants
<1>2. Answering \subseteq Agents /\ Answering' \subseteq Agents
  BY DEF Answering
<1>3. IsFiniteSet(Answering) /\ IsFiniteSet(Answering')
  BY <1>1, <1>2, FS_Subset
<1>4. QED
  BY <1>1, <1>3, FS_CardinalityType, FS_EmptySet

LEMMA NoMoreAnswers ==
  ASSUME TypeOK, Budgeted, UNCHANGED steps, Answering' \subseteq Answering
  PROVE  Budgeted'
<1>1. Cardinality(Answering') <= Cardinality(Answering)
  BY AnsweringFinite, FS_Subset
<1>2. QED
  BY <1>1, AnsweringFinite, SessionConstants DEF Budgeted, TypeOK

LEMMA AnswerCounted ==
  ASSUME TypeOK, Budgeted, NEW a \in Answering, steps' = steps + 1,
         Answering' \subseteq Answering \ {a}
  PROVE  Budgeted'
<1>1. /\ IsFiniteSet(Answering \ {a})
      /\ Cardinality(Answering \ {a}) = Cardinality(Answering) - 1
  BY AnsweringFinite, FS_RemoveElement
<1>2. Cardinality(Answering') <= Cardinality(Answering) - 1
  BY <1>1, FS_Subset
<1>3. Cardinality(Answering) <= Cardinality(Agents)
  BY SessionConstants, FS_Subset DEF Answering
<1>4. QED
  BY <1>2, <1>3, AnsweringFinite, SessionConstants DEF Budgeted, TypeOK

\* A loop calls its model only within the budget.
LEMMA EngageBudgeted ==
  ASSUME TypeOK, Budgeted, NEW a \in Agents, Engage(a), UNCHANGED steps
  PROVE  Budgeted'
<1>1. CASE steps < MaxSteps
  BY <1>1 DEF Budgeted
<1>2. CASE steps >= MaxSteps
  <2>1. Answering' \subseteq Answering
    BY <1>2 DEF Engage, Answering, TypeOK
  <2>2. QED
    BY <2>1, NoMoreAnswers
<1>3. QED
  BY <1>1, <1>2, SessionConstants DEF TypeOK

LEMMA InitBudgeted == Init => Budgeted
  BY SessionConstants DEF Init, Budgeted

LEMMA NextBudgeted == TypeOK /\ Budgeted /\ [Next]_vars => Budgeted'
<1> SUFFICES ASSUME TypeOK, Budgeted, [Next]_vars PROVE Budgeted'
  OBVIOUS
<1>1. ASSUME NEW a \in Agents, Begin(a) \/ Wake(a) PROVE Budgeted'
  BY <1>1, EngageBudgeted DEF Begin, Wake
<1>2. ASSUME NEW a \in Agents,
             GiveUp(a) \/ Detect(a) \/ ModelFails(a) \/ BackoffEnds(a)
      PROVE  Budgeted'
  <2>1. UNCHANGED steps /\ Answering' \subseteq Answering
    BY <1>2 DEF GiveUp, Detect, ModelFails, BackoffEnds, Answering, TypeOK
  <2>2. QED
    BY <2>1, NoMoreAnswers
<1>3. ASSUME NEW a \in Agents, ToolStep(a) PROVE Budgeted'
  <2>1. /\ a \in Answering /\ steps' = steps + 1
        /\ Answering' \subseteq Answering \ {a}
    BY <1>3 DEF ToolStep, Answered, Answering
  <2>2. QED
    BY <2>1, AnswerCounted
<1>4. ASSUME NEW a \in Agents, QuietStep(a) PROVE Budgeted'
  <2>1. a \in Answering /\ steps' = steps + 1
    BY <1>4 DEF QuietStep, Answered, Answering
  <2>2. \E s \in {"none", "top", "parked"} : pc' = [pc EXCEPT ![a] = s]
    BY <1>4 DEF QuietStep, Park
  <2>3. Answering' \subseteq Answering \ {a}
    BY <2>2 DEF Answering, TypeOK
  <2>4. QED
    BY <2>1, <2>3, AnswerCounted
<1>5. CASE Run
  BY <1>5, SessionConstants DEF Run, Budgeted
<1>6. CASE Interrupt
  <2>1. UNCHANGED steps /\ Answering' \subseteq Answering
    BY <1>6 DEF Interrupt, Answering
  <2>2. QED
    BY <2>1, NoMoreAnswers
<1>7. ASSUME NEW to \in (SUBSET Agents) \ {{}}, Poke(to) PROVE Budgeted'
  BY <1>7, NoMoreAnswers DEF Poke, Answering
<1>8. CASE UNCHANGED vars
  BY <1>8, NoMoreAnswers DEF vars, Answering
<1>9. QED
  BY <1>1, <1>2, <1>3, <1>4, <1>5, <1>6, <1>7, <1>8 DEF Next, Loop

\* Whatever the agents do, a turn overruns its budget by less than one step
\* per agent: only model calls that were under way are still counted.
THEOREM BudgetHolds == Spec => []OverrunIsBounded
<1>1. Init => TypeOK /\ Budgeted
  BY InitTyped, InitBudgeted
<1>2. TypeOK /\ Budgeted /\ [Next]_vars => TypeOK' /\ Budgeted'
  BY NextTyped, NextBudgeted
<1>3. TypeOK /\ Budgeted => OverrunIsBounded
  BY AnsweringFinite, SessionConstants DEF TypeOK, Budgeted, OverrunIsBounded
<1>4. QED
  BY <1>1, <1>2, <1>3, PTL DEF Spec

(***************************************************************************)
(* Why a turn ends.                                                        *)
(***************************************************************************)

\* A loop that leaves does so for a reason the whole turn has.
Explained == interrupted \/ phase = "COMPLETED" \/ deadlock \/ steps >= MaxSteps
             \/ died # {}

LEMMA LoopExplained ==
  ASSUME TypeOK, NEW a \in Agents, Loop(a), pc'[a] = "none"
  PROVE  Explained'
<1>1. CASE Begin(a) \/ Wake(a)
  BY <1>1 DEF Begin, Wake, Engage, Park, Step, protocolVars, Explained, TypeOK
<1>2. CASE GiveUp(a) \/ Detect(a)
  BY <1>2 DEF GiveUp, Detect, GivesUp, protocolVars, turnVars, Explained
<1>3. CASE QuietStep(a)
  BY <1>3 DEF QuietStep, Park, GateWaiting, protocolVars, Explained, TypeOK
<1>4. CASE ModelFails(a)
  BY <1>4 DEF ModelFails, Explained, TypeOK
<1>5. CASE ToolStep(a) \/ BackoffEnds(a)
  BY <1>5 DEF ToolStep, BackoffEnds, TypeOK
<1>6. QED
  BY <1>1, <1>2, <1>3, <1>4, <1>5 DEF Loop

LEMMA NextExplained ==
  TypeOK /\ [Next]_vars => (Active /\ ~Active' => Explained')
<1> SUFFICES ASSUME TypeOK, [Next]_vars, Active, ~Active' PROVE Explained'
  OBVIOUS
<1>1. ASSUME NEW a \in Agents, Loop(a) PROVE Explained'
  <2>1. pc'[a] = "none"
    BY DEF Active, Live
  <2>2. QED
    BY <1>1, <2>1, LoopExplained
<1>2. CASE Run
  BY <1>2 DEF Run
<1>3. CASE Interrupt
  BY <1>3 DEF Interrupt, Explained
<1>4. ASSUME NEW to \in (SUBSET Agents) \ {{}}, Poke(to) PROVE FALSE
  BY <1>4 DEF Poke, Active, Live
<1>5. CASE UNCHANGED vars
  BY <1>5 DEF vars, Active, Live
<1>6. QED
  BY <1>1, <1>2, <1>3, <1>4, <1>5 DEF Next

\* A turn that ends under a closed gate was interrupted, found at a dead end
\* by D12, out of steps, or lost a loop to its backend.
THEOREM TurnsDoNotFade == Spec => FadesOutOnlyByFailure
<1>1. TypeOK /\ [Next]_vars =>
        [Active /\ ~Active' /\ TurnDoneReason' = "idle" => died' # {}]_vars
  BY NextExplained, SessionConstants DEF Explained, TurnDoneReason, TypeOK
<1>2. QED
  BY <1>1, TurnTyped, PTL DEF Spec, FadesOutOnlyByFailure

(***************************************************************************)
(* Why D12 fires.  That it looks at every inbox is enough for all but those *)
(* whom a message passed by: whatever un-counts another agent that sleeps, *)
(* or moves the phase under it, also puts a message in its inbox.          *)
(***************************************************************************)

\* An agent of the team that sleeps with nothing to read sleeps in the current
\* phase, and was counted or reminded, unless it was passed by.
SleepersSettled ==
    \A b \in Agents \ passedBy :
        pc[b] = "parked" /\ b \in team /\ inbox[b] = {} =>
            phase0[b] = phase /\ (b \in agreed \/ <<b, phase>> \in nudged)

LEMMA InitSettled == Init => SleepersSettled
  BY DEF Init, SleepersSettled

\* Who sleeps on and was not passed by before or now.
LEMMA StillHeard ==
  ASSUME TypeOK, Remember, NEW b \in Agents \ passedBy', pc[b] = "parked", pc'[b] = "parked"
  PROVE  b \notin passedBy /\ ~Missed(b)
  BY DEF Remember

\* A loop that goes to sleep does so at the current phase.
LEMMA ParkSettled ==
  ASSUME TypeOK, SleepersSettled, Remember, NEW a \in Agents, NEW n, Park(a, n),
         UNCHANGED <<phase, team, agreed, inbox, nudged>>,
         a \in team => a \in agreed \/ <<a, phase>> \in nudged
  PROVE  SleepersSettled'
<1>1. /\ pc' \in {[pc EXCEPT ![a] = "none"], [pc EXCEPT ![a] = "parked"]}
      /\ phase0' = [phase0 EXCEPT ![a] = phase]
  BY DEF Park
<1>2. ASSUME NEW b \in Agents \ passedBy', b # a, pc'[b] = "parked"
      PROVE  b \notin passedBy /\ pc[b] = "parked"
  BY <1>1, <1>2, StillHeard DEF TypeOK
<1>3. QED
  BY <1>1, <1>2 DEF SleepersSettled, TypeOK

\* A loop that stays awake, or leaves, unsettles nobody who sleeps.
LEMMA AwakeSettled ==
  ASSUME TypeOK, SleepersSettled, Remember, NEW a \in Agents,
         \E s \in {"none", "top", "model", "backoff"} : pc' = [pc EXCEPT ![a] = s],
         \A b \in Agents \ {a} : inbox'[b] = inbox[b],
         UNCHANGED <<phase, team, agreed, phase0>>, nudged \subseteq nudged'
  PROVE  SleepersSettled'
<1>1. ASSUME NEW b \in Agents \ passedBy', pc'[b] = "parked"
      PROVE  b # a /\ b \notin passedBy /\ pc[b] = "parked"
  BY <1>1, StillHeard DEF TypeOK
<1>2. QED
  BY <1>1 DEF SleepersSettled

LEMMA EngageSettled ==
  ASSUME TypeOK, SleepersSettled, Remember, NEW a \in Agents, Engage(a),
         UNCHANGED <<phase, team, agreed, nudged>>
  PROVE  SleepersSettled'
<1>1. CASE /\ pc' = [pc EXCEPT ![a] = "none"]
           /\ UNCHANGED <<phase0, inbox, deadlock>>
  BY <1>1, AwakeSettled
<1>2. CASE ProtocolDone(a) /\ Park(a, steps) /\ UNCHANGED inbox
  BY <1>2, ParkSettled DEF ProtocolDone
<1>3. CASE Step(a)
  BY <1>3, AwakeSettled DEF Step, TypeOK
<1>4. QED
  BY <1>1, <1>2, <1>3 DEF Engage

\* The team changes with the phase only, and only as the work is split.
LEMMA SplitMovesTeam ==
  ASSUME TypeOK, NEW a \in Agents, Speak(a)
  PROVE  /\ phase' = phase => team' = team
         /\ team' = team \/ phase = "P2_SPLIT"
         /\ phase' \in {"P1_EXPLORE", "P2_SPLIT"} =>
               phase \in {"P1_EXPLORE", "P2_SPLIT"} /\ team' = team
  BY DEF Speak, Protocol!Leave, Protocol!Retract, Protocol!Follows, protocolVars, TypeOK,
         Phases

\* Whoever sleeps on with nothing to read has nothing to read for, or was
\* passed by.
LEMMA SpokenSettled ==
  ASSUME TypeOK, SleepersSettled, Remember, NEW a \in Agents, NEW to, Speak(a), Deliver(to),
         pc' = [b \in Agents |-> IF b \in {a} \cup Spawned(a) THEN "top" ELSE pc[b]],
         UNCHANGED <<phase0, nudged>>
  PROVE  SleepersSettled'
<1> SUFFICES ASSUME NEW b \in Agents \ passedBy', pc'[b] = "parked", b \in team',
                    inbox'[b] = {}
             PROVE  phase0'[b] = phase' /\ (b \in agreed' \/ <<b, phase'>> \in nudged')
  BY DEF SleepersSettled
<1>1. pc[b] = "parked"
  OBVIOUS
<1>2. b \notin passedBy /\ ~Missed(b)
  BY <1>1, StillHeard
<1>3. phase' = phase /\ b \notin agreed \ agreed'
  BY <1>2 DEF Missed
<1>4. team' = team
  BY <1>3, SplitMovesTeam
<1>5. inbox[b] = {}
  BY <1>4 DEF Deliver, TypeOK
<1>6. QED
  BY <1>1, <1>2, <1>3, <1>4, <1>5 DEF SleepersSettled

LEMMA LoopSettled ==
  ASSUME TypeOK, SleepersSettled, Remember, NEW a \in Agents, Loop(a)
  PROVE  SleepersSettled'
<1>1. CASE Begin(a) \/ Wake(a)
  BY <1>1, EngageSettled DEF Begin, Wake, protocolVars
<1>2. CASE GiveUp(a) \/ Detect(a) \/ BackoffEnds(a)
  BY <1>2, AwakeSettled DEF GiveUp, Detect, BackoffEnds, protocolVars
<1>3. CASE ModelFails(a)
  BY <1>3, AwakeSettled DEF ModelFails, protocolVars
<1>4. CASE QuietStep(a)
  <2>1. UNCHANGED <<phase, team, agreed, inbox>>
    BY <1>4 DEF QuietStep, protocolVars
  <2>2. CASE /\ \E s \in {"top", "none"} : pc' = [pc EXCEPT ![a] = s]
             /\ nudged \subseteq nudged' /\ UNCHANGED phase0
    BY <2>1, <2>2, AwakeSettled
  <2>3. CASE /\ GateWaiting /\ ~NudgesReady(a) /\ ~NudgesGateThread(a)
             /\ Park(a, steps') /\ UNCHANGED nudged
    <3>1. a \in team => a \in agreed \/ <<a, phase>> \in nudged
      BY <2>3 DEF GateWaiting, NudgesReady, NudgesGateThread
    <3>2. QED
      BY <2>1, <2>3, <3>1, ParkSettled
  <2>4. QED
    BY <1>4, <2>2, <2>3 DEF QuietStep
<1>5. CASE ToolStep(a)
  <2>1. CASE UNCHANGED <<protocolVars, inbox>>
    <3>1. pc' = [pc EXCEPT ![a] = "top"]
      BY <1>5, <2>1 DEF ToolStep, Spawned, protocolVars, TypeOK
    <3>2. QED
      BY <1>5, <2>1, <3>1, AwakeSettled DEF ToolStep, protocolVars
  <2>2. ASSUME NEW to, Speak(a), Deliver(to) PROVE SleepersSettled'
    BY <1>5, <2>2, SpokenSettled DEF ToolStep
  <2>3. QED
    BY <1>5, <2>1, <2>2 DEF ToolStep
<1>6. QED
  BY <1>1, <1>2, <1>3, <1>4, <1>5 DEF Loop

LEMMA NextSettled ==
  ASSUME TypeOK, SleepersSettled, [Next]_vars
  PROVE  SleepersSettled'
<1>1. ASSUME NEW a \in Agents, Loop(a), Remember PROVE SleepersSettled'
  BY <1>1, LoopSettled
<1>2. CASE Run
  BY <1>2 DEF Run, SleepersSettled
<1>3. CASE Interrupt
  BY <1>3 DEF Interrupt, SleepersSettled
<1>4. ASSUME NEW to \in (SUBSET Agents) \ {{}}, Poke(to), Remember PROVE SleepersSettled'
  <2>1. /\ \A b \in Agents : inbox[b] \subseteq inbox'[b]
        /\ UNCHANGED <<phase, team, agreed, pc, phase0, nudged>>
    BY <1>4 DEF Poke, protocolVars, TypeOK
  <2>2. \A b \in Agents \ passedBy' : pc'[b] = "parked" => b \notin passedBy
    BY <1>4, <2>1, StillHeard
  <2>3. QED
    BY <2>1, <2>2 DEF SleepersSettled
<1>5. CASE UNCHANGED vars
  BY <1>5 DEF vars, protocolVars, SleepersSettled
<1>6. QED
  BY <1>1, <1>2, <1>3, <1>4, <1>5 DEF Next

\* Whoever sets the flag has seen every other loop asleep and every inbox
\* empty, and is itself at the end of its work.
LEMMA DetectorsAgree ==
  ASSUME TypeOK, SleepersSettled, [Next]_vars, ~deadlock, deadlock'
  PROVE  \A a \in team \ passedBy :
            /\ pc[a] = "parked" => phase0[a] = phase
            /\ Live(a) => a \in agreed \/ <<a, phase>> \in nudged
<1>1. PICK d \in Agents : Loop(d)
  BY DEF Next, Run, Interrupt, Poke, vars, turnVars
<1>2. /\ AllParked(d)
      /\ inbox[d] = {}
      /\ d \in team => \/ pc[d] = "parked"
                       \/ d \in agreed
                       \/ <<d, phase>> \in nudged
  <2>1. CASE Begin(d) \/ Wake(d)
    BY <2>1 DEF Begin, Wake, Engage, Park, Step, ProtocolDone
  <2>2. CASE Detect(d)
    BY <2>2 DEF Detect, AllParked
  <2>3. CASE QuietStep(d)
    <3>1. /\ GateWaiting /\ ~NudgesReady(d) /\ ~NudgesGateThread(d)
          /\ Park(d, steps') /\ inbox[d] = {}
      BY <2>3 DEF QuietStep
    <3>2. QED
      BY <3>1 DEF Park, GateWaiting, NudgesReady, NudgesGateThread
  <2>4. CASE GiveUp(d) \/ ModelFails(d) \/ ToolStep(d) \/ BackoffEnds(d)
    BY <2>4 DEF GiveUp, ModelFails, ToolStep, BackoffEnds, turnVars
  <2>5. QED
    BY <1>1, <2>1, <2>2, <2>3, <2>4 DEF Loop
<1>3. ASSUME NEW a \in team \ passedBy, a = d \/ Live(a)
      PROVE  inbox[a] = {} /\ (a # d => pc[a] = "parked")
  BY <1>2, <1>3 DEF AllParked, Live, TypeOK
<1>4. ASSUME NEW a \in team \ passedBy, pc[a] = "parked"
      PROVE  phase0[a] = phase /\ (a \in agreed \/ <<a, phase>> \in nudged)
  BY <1>3, <1>4 DEF Live, SleepersSettled, TypeOK
<1>5. QED
  BY <1>2, <1>3, <1>4

(***************************************************************************)
(* Whom a message passes by.                                               *)
(***************************************************************************)

\* Until the work is split, only the team has loops: nobody who sleeps can
\* join it.
NoBenchBeforeTheSplit ==
    phase \in {"P1_EXPLORE", "P2_SPLIT"} => \A b \in Agents : Live(b) => b \in team

LEMMA NoBenchStays ==
  ASSUME TypeOK, NoBenchBeforeTheSplit, [Next]_vars
  PROVE  NoBenchBeforeTheSplit'
<1>1. ASSUME NEW a \in Agents, Loop(a) PROVE NoBenchBeforeTheSplit'
  <2>1. Live(a)
    BY <1>1 DEF Loop, Begin, GiveUp, Wake, Detect, ToolStep, QuietStep, ModelFails,
                BackoffEnds, Answered, Live
  <2>2. CASE /\ \E s \in {"none", "top", "model", "backoff", "parked"} :
                      pc' = [pc EXCEPT ![a] = s]
             /\ UNCHANGED <<phase, team>>
    BY <2>1, <2>2 DEF NoBenchBeforeTheSplit, Live, TypeOK
  <2>3. CASE ToolStep(a)
    <3>1. CASE UNCHANGED protocolVars
      <4>1. pc' = [pc EXCEPT ![a] = "top"]
        BY <2>3, <3>1 DEF ToolStep, Spawned, protocolVars, TypeOK
      <4>2. QED
        BY <2>2, <3>1, <4>1 DEF protocolVars
    <3>2. CASE Speak(a)
      <4>1. SUFFICES ASSUME phase' \in {"P1_EXPLORE", "P2_SPLIT"}, NEW b \in Agents, Live(b)'
                     PROVE  b \in team'
        BY DEF NoBenchBeforeTheSplit
      <4>2. team' = team /\ phase \in {"P1_EXPLORE", "P2_SPLIT"}
        BY <3>2, <4>1, SplitMovesTeam
      <4>3. Live(b)
        BY <2>1, <2>3, <4>1, <4>2 DEF ToolStep, Spawned, Live
      <4>4. QED
        BY <4>2, <4>3 DEF NoBenchBeforeTheSplit
    <3>3. QED
      BY <2>3, <3>1, <3>2 DEF ToolStep, protocolVars
  <2>4. CASE Begin(a) \/ Wake(a)
    BY <2>2, <2>4 DEF Begin, Wake, Engage, Park, Step, protocolVars
  <2>5. CASE GiveUp(a) \/ Detect(a) \/ ModelFails(a) \/ BackoffEnds(a)
    BY <2>2, <2>5 DEF GiveUp, Detect, ModelFails, BackoffEnds, protocolVars
  <2>6. CASE QuietStep(a)
    BY <2>2, <2>6 DEF QuietStep, Park, protocolVars
  <2>7. QED
    BY <1>1, <2>3, <2>4, <2>5, <2>6 DEF Loop
<1>2. CASE Run
  BY <1>2 DEF Run, NoBenchBeforeTheSplit, Live
<1>3. CASE Interrupt
  BY <1>3 DEF Interrupt, NoBenchBeforeTheSplit, Live
<1>4. ASSUME NEW to, Poke(to) PROVE NoBenchBeforeTheSplit'
  BY <1>4 DEF Poke, NoBenchBeforeTheSplit, Live, protocolVars
<1>5. CASE UNCHANGED vars
  BY <1>5 DEF vars, protocolVars, NoBenchBeforeTheSplit, Live
<1>6. QED
  BY <1>1, <1>2, <1>3, <1>4, <1>5 DEF Next

\* A message to all who hold its thread reaches everybody in the team who
\* sleeps, before it and after it.
LEMMA BroadcastReaches ==
  ASSUME TypeOK, NoBenchBeforeTheSplit, Remember, NEW a \in Agents, ToolStep(a),
         Deliver(Peers(a))
  PROVE  passedBy' \subseteq passedBy
<1> SUFFICES ASSUME NEW b \in Agents, pc[b] = "parked", Missed(b) PROVE FALSE
  BY DEF Remember
<1>1. b # a
  BY DEF ToolStep, Answered
<1>2. Speak(a)
  BY DEF ToolStep, Missed, protocolVars
<1>3. b \in team
  BY <1>2, SplitMovesTeam DEF Missed, NoBenchBeforeTheSplit, Live
<1>4. Thread \in inbox'[b]
  BY <1>1, <1>3 DEF Deliver, Peers, Participants, Missed
<1>5. QED
  BY <1>4 DEF Missed

\* turn_done gives the human the true reason: a turn under a closed gate does
\* not just fade out, and D12 ends it only when nobody has anything left to
\* read, to be reminded of or to wake to, but for those whom a message passed
\* by, which none does that goes to all who hold its thread.
THEOREM TurnsEndForTheirReason == Spec => TurnEndsForItsReason
<1>1. Init => SleepersSettled /\ NoBenchBeforeTheSplit
  BY InitSettled DEF Init, NoBenchBeforeTheSplit, Live
<1>2. /\ TypeOK /\ SleepersSettled /\ [Next]_vars => SleepersSettled'
      /\ TypeOK /\ NoBenchBeforeTheSplit /\ [Next]_vars => NoBenchBeforeTheSplit'
  BY NextSettled, NoBenchStays
<1>3. TypeOK /\ SleepersSettled /\ [Next]_vars =>
        [~deadlock /\ deadlock' =>
           \A a \in team \ passedBy :
              /\ pc[a] = "parked" => phase0[a] = phase
              /\ Live(a) => a \in agreed \/ <<a, phase>> \in nudged]_vars
  BY DetectorsAgree
<1>4. TypeOK /\ NoBenchBeforeTheSplit /\ [Next]_vars =>
        [\A a \in Agents :
            ToolStep(a) /\ Deliver(Peers(a)) => passedBy' \subseteq passedBy]_vars
  BY BroadcastReaches DEF Next
<1>5. Spec => DeadlockIsReal /\ BroadcastsPassNobodyBy
  BY <1>1, <1>2, <1>3, <1>4, TurnTyped, PTL DEF Spec, DeadlockIsReal, BroadcastsPassNobodyBy
<1>6. QED
  BY <1>5, TurnsDoNotFade DEF TurnEndsForItsReason

(***************************************************************************)
(* The tokens, calls and locks of the sign-in keep their types.            *)
(***************************************************************************)

TokensTyped ==
    /\ session \in Layouts /\ session \in [Backends -> Sessions]
    /\ portal \in Portals /\ portal \in [rotates : BOOLEAN, expires : BOOLEAN]
    /\ issued \in 0..MaxIssued /\ stale \in 0..issued /\ dead \in 0..stale
    /\ spent \subseteq 1..issued
    /\ file \in [access : 0..issued, refresh : 0..issued]
    /\ held \in [Backends -> 0..issued]
    /\ orphans \subseteq 0..issued

\* A request is only made by an attempt that is left.
CallsTyped ==
    /\ place \in [Backends -> Place]
    /\ attempt \in [Backends -> 0..(MaxAttempts + 1)]
    /\ sent \in [Backends -> BOOLEAN]
    /\ refused \cup trouble \subseteq Backends
    /\ flow \in [Backends -> [refresh : 0..issued, left : 0..ExpiresIn, every : 0..MaxPoll]]
    /\ \A b \in Backends :
          /\ flow[b].refresh # 0 <=> place[b] = "refreshing"
          /\ flow[b].every # 0 <=> place[b] = "signing"
          /\ place[b] \in {"asking", "pausing"} => attempt[b] \in 1..MaxAttempts

Waits(b) == place[b] \in {"lock", "refreshing", "signing"}
Holds(b) == place[b] \in {"refreshing", "signing"}

\* The lock of a session: those in line are its backends that wait or hold it,
\* once each, and who works under it is first.
LockServed ==
    /\ lock \in [Sessions -> Seq(Backends)]
    /\ \A p \in Sessions, b \in Backends :
          (\E i \in DOMAIN lock[p] : lock[p][i] = b) <=> session[b] = p /\ Waits(b)
    /\ \A p \in Sessions : \A i, j \in DOMAIN lock[p] : lock[p][i] = lock[p][j] => i = j
    /\ \A b \in Backends : Holds(b) => lock[session[b]] # <<>> /\ Head(lock[session[b]]) = b

SignInTyped == TokensTyped /\ CallsTyped /\ LockServed

LEMMA SignInTypedIsOK == SignInTyped => SignInTypeOK
  BY DEF SignInTyped, TokensTyped, CallsTyped, LockServed, Waits, SignInTypeOK

LEMMA AppendFacts ==
  ASSUME NEW S, NEW s \in Seq(S), NEW e \in S
  PROVE  /\ Append(s, e) \in Seq(S)
         /\ DOMAIN Append(s, e) = 1..(Len(s) + 1) /\ DOMAIN s = 1..Len(s)
         /\ Append(s, e)[Len(s) + 1] = e
         /\ \A i \in 1..Len(s) : Append(s, e)[i] = s[i]
         /\ Len(s) \in Nat
  OBVIOUS

LEMMA TailFacts ==
  ASSUME NEW S, NEW s \in Seq(S), s # <<>>
  PROVE  /\ Tail(s) \in Seq(S) /\ Head(s) = s[1]
         /\ DOMAIN Tail(s) = 1..(Len(s) - 1) /\ DOMAIN s = 1..Len(s)
         /\ \A i \in 1..(Len(s) - 1) : Tail(s)[i] = s[i + 1]
         /\ Len(s) \in Nat \ {0}
  OBVIOUS

\* Getting in line.
LEMMA AcquireServed ==
  ASSUME TokensTyped, CallsTyped, LockServed, NEW b \in Backends, ~Waits(b), Acquire(b),
         place' = [place EXCEPT ![b] = "lock"], UNCHANGED session
  PROVE  LockServed'
<1> DEFINE p == session[b]
           s == lock[p]
<1>1. p \in Sessions /\ s \in Seq(Backends)
  BY DEF TokensTyped, LockServed
<1>2. /\ lock' \in [Sessions -> Seq(Backends)]
      /\ lock'[p] = Append(s, b)
      /\ \A q \in Sessions \ {p} : lock'[q] = lock[q]
  BY <1>1, AppendFacts DEF Acquire, LockServed
<1>3. /\ DOMAIN lock'[p] = 1..(Len(s) + 1) /\ DOMAIN s = 1..Len(s) /\ Len(s) \in Nat
      /\ lock'[p][Len(s) + 1] = b
      /\ \A i \in 1..Len(s) : lock'[p][i] = s[i]
  BY <1>1, <1>2, AppendFacts
<1>4. \A c \in Backends : Waits(c)' <=> Waits(c) \/ c = b
  BY DEF Waits, CallsTyped
<1>5. \A i \in DOMAIN s : s[i] # b
  BY <1>1 DEF LockServed
<1> HIDE DEF s, p
<1>6. ASSUME NEW q \in Sessions, NEW c \in Backends
      PROVE  (\E i \in DOMAIN lock'[q] : lock'[q][i] = c) <=> session'[c] = q /\ Waits(c)'
  <2>1. CASE q # p
    BY <1>2, <1>4, <2>1 DEF LockServed, p
  <2>2. CASE q = p
    <3>1. (\E i \in DOMAIN lock'[p] : lock'[p][i] = c) <=> (\E i \in DOMAIN s : s[i] = c) \/ c = b
      BY <1>3
    <3>2. (\E i \in DOMAIN s : s[i] = c) <=> session[c] = p /\ Waits(c)
      BY <1>1 DEF LockServed, s
    <3>3. QED
      BY <1>4, <2>2, <3>1, <3>2 DEF p
  <2>3. QED
    BY <2>1, <2>2
<1>7. ASSUME NEW q \in Sessions, NEW i \in DOMAIN lock'[q], NEW j \in DOMAIN lock'[q],
             lock'[q][i] = lock'[q][j]
      PROVE  i = j
  <2>1. CASE q # p
    BY <1>2, <1>7, <2>1 DEF LockServed
  <2>2. CASE q = p
    <3>1. \A k, m \in DOMAIN s : s[k] = s[m] => k = m
      BY <1>1 DEF LockServed, s
    <3>2. QED
      BY <1>3, <1>5, <1>7, <2>2, <3>1
  <2>3. QED
    BY <2>1, <2>2
<1>8. ASSUME NEW c \in Backends, Holds(c)'
      PROVE  lock'[session'[c]] # <<>> /\ Head(lock'[session'[c]]) = c
  <2>1. Holds(c) /\ c # b
    BY <1>8 DEF Holds, CallsTyped
  <2>2. lock[session[c]] # <<>> /\ Head(lock[session[c]]) = c /\ session[c] \in Sessions
    BY <2>1 DEF LockServed, TokensTyped
  <2>3. CASE session[c] # p
    BY <1>2, <2>2, <2>3
  <2>4. CASE session[c] = p
    <3>1. Append(s, b) # <<>> /\ Head(Append(s, b)) = Head(s)
      BY <1>1, <2>2, <2>4 DEF s, p
    <3>2. QED
      BY <1>2, <2>2, <2>4, <3>1 DEF s
  <2>5. QED
    BY <2>3, <2>4
<1>9. QED
  BY <1>2, <1>6, <1>7, <1>8 DEF LockServed

\* Leaving the front.
LEMMA ReleaseServed ==
  ASSUME TokensTyped, CallsTyped, LockServed, NEW b \in Backends,
         Waits(b), Head(lock[session[b]]) = b, Release(b),
         NEW t \in {"idle", "asking"}, place' = [place EXCEPT ![b] = t], UNCHANGED session
  PROVE  LockServed'
<1> DEFINE p == session[b]
           s == lock[p]
<1>1. p \in Sessions /\ s \in Seq(Backends) /\ s # <<>> /\ Head(s) = b
  <2>1. p \in Sessions /\ s \in Seq(Backends)
    BY DEF TokensTyped, LockServed
  <2>2. \E i \in DOMAIN s : s[i] = b
    BY <2>1 DEF LockServed
  <2>3. QED
    BY <2>1, <2>2
<1>2. /\ lock' \in [Sessions -> Seq(Backends)]
      /\ lock'[p] = Tail(s)
      /\ \A q \in Sessions \ {p} : lock'[q] = lock[q]
  BY <1>1, TailFacts DEF Release, LockServed
<1>3. /\ DOMAIN lock'[p] = 1..(Len(s) - 1) /\ DOMAIN s = 1..Len(s) /\ Len(s) \in Nat \ {0}
      /\ s[1] = b
      /\ \A i \in 1..(Len(s) - 1) : lock'[p][i] = s[i + 1]
  BY <1>1, <1>2, TailFacts
<1>4. \A c \in Backends : Waits(c)' <=> Waits(c) /\ c # b
  BY DEF Waits, CallsTyped
<1>5. \A k, m \in DOMAIN s : s[k] = s[m] => k = m
  BY <1>1 DEF LockServed
<1> HIDE DEF s, p
<1>6. ASSUME NEW q \in Sessions, NEW c \in Backends
      PROVE  (\E i \in DOMAIN lock'[q] : lock'[q][i] = c) <=> session'[c] = q /\ Waits(c)'
  <2>1. CASE q # p
    BY <1>2, <1>4, <2>1 DEF LockServed, p
  <2>2. CASE q = p
    <3>1. (\E i \in DOMAIN lock'[p] : lock'[p][i] = c) <=> (\E i \in DOMAIN s : s[i] = c) /\ c # b
      <4>1. ASSUME NEW i \in DOMAIN lock'[p], lock'[p][i] = c
            PROVE  (\E k \in DOMAIN s : s[k] = c) /\ c # b
        <5>1. i \in 1..(Len(s) - 1) /\ i + 1 \in DOMAIN s /\ 1 \in DOMAIN s /\ i + 1 # 1
          BY <1>3, <4>1
        <5>2. s[i + 1] = c
          BY <1>3, <4>1, <5>1
        <5>3. s[1] # s[i + 1]
          BY <1>5, <5>1
        <5>4. QED
          BY <1>3, <5>1, <5>2, <5>3
      <4>2. ASSUME NEW i \in DOMAIN s, s[i] = c, c # b
            PROVE  \E k \in DOMAIN lock'[p] : lock'[p][k] = c
        <5>1. i - 1 \in 1..(Len(s) - 1) /\ (i - 1) + 1 = i
          BY <1>3, <4>2
        <5>2. lock'[p][i - 1] = c
          BY <1>3, <4>2, <5>1
        <5>3. QED
          BY <1>3, <5>1, <5>2
      <4>3. QED
        BY <4>1, <4>2
    <3>2. (\E i \in DOMAIN s : s[i] = c) <=> session[c] = p /\ Waits(c)
      BY <1>1 DEF LockServed, s
    <3>3. QED
      BY <1>4, <2>2, <3>1, <3>2 DEF p
  <2>3. QED
    BY <2>1, <2>2
<1>7. ASSUME NEW q \in Sessions, NEW i \in DOMAIN lock'[q], NEW j \in DOMAIN lock'[q],
             lock'[q][i] = lock'[q][j]
      PROVE  i = j
  <2>1. CASE q # p
    BY <1>2, <1>7, <2>1 DEF LockServed
  <2>2. CASE q = p
    <3>1. i \in 1..(Len(s) - 1) /\ j \in 1..(Len(s) - 1)
      BY <1>3, <1>7, <2>2
    <3>2. s[i + 1] = s[j + 1] /\ i + 1 \in DOMAIN s /\ j + 1 \in DOMAIN s
      BY <1>3, <1>7, <2>2, <3>1
    <3>3. i + 1 = j + 1
      BY <1>5, <3>2
    <3>4. QED
      BY <3>1, <3>3
  <2>3. QED
    BY <2>1, <2>2
<1>8. ASSUME NEW c \in Backends, Holds(c)'
      PROVE  lock'[session'[c]] # <<>> /\ Head(lock'[session'[c]]) = c
  <2>1. Holds(c) /\ c # b
    BY <1>8 DEF Holds, CallsTyped
  <2>2. lock[session[c]] # <<>> /\ Head(lock[session[c]]) = c /\ session[c] \in Sessions
    BY <2>1 DEF LockServed, TokensTyped
  <2>3. session[c] # p
    BY <1>1, <2>1, <2>2 DEF s
  <2>4. QED
    BY <1>2, <2>2, <2>3
<1>9. QED
  BY <1>2, <1>6, <1>7, <1>8 DEF LockServed

\* Whoever is first goes on under the lock, or a step outside it.
LEMMA PlaceServed ==
  ASSUME TokensTyped, CallsTyped, LockServed, NEW b \in Backends, UNCHANGED <<session, lock>>,
         NEW t \in Place, place' = [place EXCEPT ![b] = t],
         \/ ~Waits(b) /\ t \in {"idle", "asking", "pausing"}
         \/ Waits(b) /\ Head(lock[session[b]]) = b /\ t \in {"refreshing", "signing"}
  PROVE  LockServed'
<1>1. \A c \in Backends : Waits(c)' <=> Waits(c)
  BY DEF Waits, CallsTyped
<1>2. ASSUME NEW c \in Backends, Holds(c)'
      PROVE  lock[session[c]] # <<>> /\ Head(lock[session[c]]) = c
  <2>1. CASE c # b
    BY <1>2, <2>1 DEF Holds, CallsTyped, LockServed
  <2>2. CASE c = b
    <3>1. Waits(b) /\ Head(lock[session[b]]) = b
      BY <1>2, <2>2 DEF Holds, CallsTyped
    <3>2. session[b] \in Sessions
      BY DEF TokensTyped
    <3>3. \E i \in DOMAIN lock[session[b]] : lock[session[b]][i] = b
      BY <3>1, <3>2 DEF LockServed
    <3>4. QED
      BY <2>2, <3>1, <3>3
  <2>3. QED
    BY <2>1, <2>2
<1>3. QED
  BY <1>1, <1>2 DEF LockServed

\* What a step does to the tokens, and to the call of one backend.
TokenStep ==
    /\ UNCHANGED <<session, portal, stale, dead>>
    /\ issued' \in {issued, issued + 1} /\ issued' <= MaxIssued
    /\ spent \subseteq spent' /\ spent' \subseteq 1..issued
    /\ file' \in [access : 0..issued', refresh : 0..issued']
    /\ held' \in [Backends -> 0..issued']
    /\ orphans' \subseteq 0..issued

LEMMA TokensStay ==
  ASSUME TokensTyped, UNCHANGED <<external, file, held, orphans>>
  PROVE  TokenStep
  BY DEF TokensTyped, TokenStep, external

LEMMA TokenStepTyped ==
  ASSUME TokensTyped, TokenStep
  PROVE  TokensTyped'
<1>1. issued' \in Nat /\ issued \in Nat /\ issued <= issued'
  BY DEF TokensTyped, TokenStep
<1>2. UNCHANGED <<session, portal, stale, dead>> /\ issued' \in 0..MaxIssued
  BY <1>1, SignInConstants DEF TokensTyped, TokenStep
<1>3. spent' \subseteq 1..issued' /\ orphans' \subseteq 0..issued'
  BY <1>1 DEF TokenStep
<1>4. stale' \in 0..issued' /\ dead' \in 0..stale'
  BY <1>1, <1>2 DEF TokensTyped
<1>5. QED
  BY <1>2, <1>3, <1>4 DEF TokensTyped, TokenStep

\* One backend moves on: to where, in which attempt and with which flow.
Moves(b, where, try, what) ==
    /\ where \in Place /\ try \in 0..(MaxAttempts + 1)
    /\ where \in {"asking", "pausing"} => try \in 1..MaxAttempts
    /\ what \in [refresh : 0..issued, left : 0..ExpiresIn, every : 0..MaxPoll]
    /\ what.refresh # 0 <=> where = "refreshing"
    /\ what.every # 0 <=> where = "signing"
    /\ place' = [place EXCEPT ![b] = where]
    /\ attempt' = [attempt EXCEPT ![b] = try]
    /\ flow' = [flow EXCEPT ![b] = what]
    /\ sent' \in [Backends -> BOOLEAN]
    /\ refused' \cup trouble' \subseteq Backends

LEMMA MovesTyped ==
  ASSUME TokensTyped, CallsTyped, TokenStep, NEW b \in Backends,
         NEW where, NEW try, NEW what, Moves(b, where, try, what)
  PROVE  CallsTyped'
<1>1. issued \in Nat /\ issued' \in Nat /\ issued <= issued'
  BY DEF TokensTyped, TokenStep
<1> DEFINE F(n) == [refresh : 0..n, left : 0..ExpiresIn, every : 0..MaxPoll]
<1>2. F(issued) \subseteq F(issued')
  BY <1>1
<1>3. flow' \in [Backends -> F(issued)]
  BY DEF Moves, CallsTyped
<1>4. flow' \in [Backends -> F(issued')]
  BY <1>2, <1>3
<1>5. /\ place' \in [Backends -> Place]
      /\ attempt' \in [Backends -> 0..(MaxAttempts + 1)]
  BY DEF Moves, CallsTyped
<1>6. ASSUME NEW c \in Backends
      PROVE  /\ flow'[c].refresh # 0 <=> place'[c] = "refreshing"
             /\ flow'[c].every # 0 <=> place'[c] = "signing"
             /\ place'[c] \in {"asking", "pausing"} => attempt'[c] \in 1..MaxAttempts
  <2>1. CASE c = b
    BY <2>1 DEF Moves, CallsTyped
  <2>2. CASE c # b
    BY <2>2 DEF Moves, CallsTyped
  <2>3. QED
    BY <2>1, <2>2
<1>7. QED
  BY <1>4, <1>5, <1>6 DEF Moves, CallsTyped

\* What a backend's flow and attempt are where it does not say.
LEMMA Still ==
  ASSUME TokensTyped, CallsTyped, NEW b \in Backends
  PROVE  /\ flow = [flow EXCEPT ![b] = flow[b]]
         /\ attempt = [attempt EXCEPT ![b] = attempt[b]]
         /\ attempt[b] \in 0..(MaxAttempts + 1)
         /\ flow[b] \in [refresh : 0..issued, left : 0..ExpiresIn, every : 0..MaxPoll]
         /\ NoFlow \in [refresh : 0..issued, left : 0..ExpiresIn, every : 0..MaxPoll]
         /\ NoFlow.refresh = 0 /\ NoFlow.every = 0
         /\ ~Holds(b) => flow[b].refresh = 0 /\ flow[b].every = 0
<1>1. flow = [flow EXCEPT ![b] = flow[b]] /\ attempt = [attempt EXCEPT ![b] = attempt[b]]
  BY DEF CallsTyped
<1>2. /\ attempt[b] \in 0..(MaxAttempts + 1)
      /\ flow[b] \in [refresh : 0..issued, left : 0..ExpiresIn, every : 0..MaxPoll]
      /\ ~Holds(b) => flow[b].refresh = 0 /\ flow[b].every = 0
  BY DEF CallsTyped, Holds
<1>3. NoFlow \in [refresh : 0..issued, left : 0..ExpiresIn, every : 0..MaxPoll]
  BY SignInConstants DEF NoFlow, TokensTyped
<1>4. NoFlow.refresh = 0 /\ NoFlow.every = 0
  BY DEF NoFlow
<1>5. QED
  BY <1>1, <1>2, <1>3, <1>4

LEMMA StepTyped ==
  ASSUME SignInTyped, TokenStep, LockServed', NEW b \in Backends,
         \E where, try, what : Moves(b, where, try, what)
  PROVE  SignInTyped'
  BY TokenStepTyped, MovesTyped DEF SignInTyped

\* The call goes on with a token or is over, and its backend leaves the lock.
LEMMA LeavesLock ==
  ASSUME SignInTyped, TokenStep, NEW b \in Backends, NEW where \in {"idle", "asking"},
         NEW try, NEW what, Moves(b, where, try, what),
         Waits(b), Head(lock[session[b]]) = b, Release(b)
  PROVE  SignInTyped'
<1>1. place' = [place EXCEPT ![b] = where] /\ UNCHANGED session
  BY DEF Moves, TokenStep
<1>2. LockServed'
  BY <1>1, ReleaseServed DEF SignInTyped
<1>3. QED
  BY <1>2, StepTyped

LEMMA EndsMoves ==
  ASSUME CallsTyped, NEW b \in Backends, Ends(b) \/ EndsRefused(b), NEW what,
         what \in [refresh : 0..issued, left : 0..ExpiresIn, every : 0..MaxPoll],
         what.refresh = 0, what.every = 0, flow' = [flow EXCEPT ![b] = what]
  PROVE  Moves(b, "idle", 0, what)
<1>1. 0 \in 0..(MaxAttempts + 1)
  BY SignInConstants
<1>2. refused' \cup trouble' \subseteq Backends /\ sent' \in [Backends -> BOOLEAN]
  BY DEF Ends, EndsRefused, Over, CallsTyped
<1>3. QED
  BY <1>1, <1>2 DEF Ends, EndsRefused, Over, Moves, Place

LEMMA GotMoves ==
  ASSUME TokensTyped, CallsTyped, NEW b \in Backends, NEW n, Got(b, n), NEW what,
         what \in [refresh : 0..issued, left : 0..ExpiresIn, every : 0..MaxPoll],
         what.refresh = 0, what.every = 0, flow' = [flow EXCEPT ![b] = what]
  PROVE  \E where \in {"idle", "asking"} : \E try : Moves(b, where, try, what)
<1>1. CASE Ends(b) \/ EndsRefused(b)
  BY <1>1, EndsMoves
<1>2. CASE /\ attempt[b] \in 1..MaxAttempts
           /\ place' = [place EXCEPT ![b] = "asking"]
           /\ sent' = [sent EXCEPT ![b] = Valid(n)]
           /\ UNCHANGED <<attempt, refused, trouble>>
  <2>1. sent' \in [Backends -> BOOLEAN] /\ refused' \cup trouble' \subseteq Backends
    BY <1>2 DEF CallsTyped, Valid
  <2>2. Moves(b, "asking", attempt[b], what)
    BY <1>2, <2>1, Still DEF Moves, Place
  <2>3. QED
    BY <2>2
<1>3. QED
  BY <1>1, <1>2 DEF Got

LEMMA CallTyped ==
  ASSUME SignInTyped, NEW b \in Backends, NEW first \in 0..1, Call(b, first)
  PROVE  SignInTyped'
<1>1. TokenStep
  BY TokensStay DEF Call, SignInTyped
<1>2. LockServed'
  BY AcquireServed DEF Call, Waits, external, SignInTyped
<1>3. flow[b].refresh = 0 /\ flow[b].every = 0
  BY DEF Call, CallsTyped, SignInTyped
<1>4. Moves(b, "lock", first, flow[b])
  <2>1. first \in 0..(MaxAttempts + 1)
    BY SignInConstants
  <2>2. sent' \in [Backends -> BOOLEAN] /\ refused' \cup trouble' \subseteq Backends
    BY DEF Call, CallsTyped, SignInTyped
  <2>3. QED
    BY <1>3, <2>1, <2>2, Still DEF Call, Moves, Place, SignInTyped
<1>5. QED
  BY <1>1, <1>2, <1>4, StepTyped

\* A backend that works under the lock.
LEMMA HolderIsFirst ==
  ASSUME SignInTyped, NEW b \in Backends, Holds(b)
  PROVE  Waits(b) /\ Head(lock[session[b]]) = b
  BY DEF SignInTyped, LockServed, Holds, Waits

\* A flow of its own begins.
LEMMA FlowBegins ==
  ASSUME SignInTyped, TokenStep, NEW b \in Backends, Waits(b), Head(lock[session[b]]) = b,
         UNCHANGED lock, UNCHANGED request,
         \/ file.refresh # 0 /\ place' = [place EXCEPT ![b] = "refreshing"]
            /\ flow' = [flow EXCEPT ![b] = Refreshing(file.refresh)]
         \/ StartSigning(b)
  PROVE  SignInTyped'
<1>1. request' = request /\ UNCHANGED <<attempt, sent, refused, trouble>>
  BY DEF request
<1>2. sent' \in [Backends -> BOOLEAN] /\ refused' \cup trouble' \subseteq Backends
  BY <1>1 DEF CallsTyped, SignInTyped
<1>3. CASE /\ file.refresh # 0 /\ place' = [place EXCEPT ![b] = "refreshing"]
           /\ flow' = [flow EXCEPT ![b] = Refreshing(file.refresh)]
  <2>1. Moves(b, "refreshing", attempt[b], Refreshing(file.refresh))
    <3>1. Refreshing(file.refresh) \in
             [refresh : 0..issued, left : 0..ExpiresIn, every : 0..MaxPoll]
      BY SignInConstants DEF Refreshing, TokensTyped, SignInTyped
    <3>2. Refreshing(file.refresh).refresh # 0 /\ Refreshing(file.refresh).every = 0
      BY <1>3 DEF Refreshing
    <3>3. QED
      BY <1>1, <1>2, <1>3, <3>1, <3>2, Still DEF Moves, Place, SignInTyped
  <2>2. LockServed'
    BY <1>3, PlaceServed DEF Place, TokenStep, SignInTyped
  <2>3. QED
    BY <2>1, <2>2, StepTyped
<1>4. CASE StartSigning(b)
  <2> DEFINE w == Signing(ExpiresIn, Shorter(Interval, PollCap))
  <2>1. Moves(b, "signing", attempt[b], w)
    <3>1. w \in [refresh : 0..issued, left : 0..ExpiresIn, every : 0..MaxPoll]
      BY SignInConstants DEF Signing, Shorter, TokensTyped, SignInTyped
    <3>2. w.refresh = 0 /\ w.every # 0
      BY SignInConstants DEF Signing, Shorter
    <3>3. place' = [place EXCEPT ![b] = "signing"] /\ flow' = [flow EXCEPT ![b] = w]
      BY <1>4 DEF StartSigning
    <3> HIDE DEF w
    <3>4. QED
      BY <1>1, <1>2, <3>1, <3>2, <3>3, Still DEF Moves, Place, SignInTyped
  <2>2. LockServed'
    BY <1>4, PlaceServed DEF StartSigning, Place, TokenStep, SignInTyped
  <2>3. QED
    BY <2>1, <2>2, StepTyped
<1>5. QED
  BY <1>3, <1>4

LEMMA GetTokenTyped ==
  ASSUME SignInTyped, NEW b \in Backends, GetToken(b)
  PROVE  SignInTyped'
<1>1. Waits(b) /\ ~Holds(b) /\ Head(lock[session[b]]) = b
  BY DEF GetToken, Waits, Holds
<1>2. CASE UNCHANGED held
  <2>1. TokenStep
    BY <1>2, TokensStay DEF GetToken, SignInTyped
  <2>2. CASE \E n : Got(b, n) /\ Release(b) /\ UNCHANGED flow
    <3>1. flow' = [flow EXCEPT ![b] = flow[b]] /\ flow[b].refresh = 0 /\ flow[b].every = 0
      BY <1>1, <2>2, Still DEF SignInTyped
    <3>2. \E where \in {"idle", "asking"} : \E try : Moves(b, where, try, flow[b])
      BY <2>2, <3>1, Still, GotMoves DEF SignInTyped
    <3>3. QED
      BY <1>1, <2>1, <2>2, <3>2, LeavesLock
  <2>3. CASE /\ file.refresh # 0 /\ StartRefresh(b)
             /\ UNCHANGED <<held, lock, request>>
    BY <1>1, <2>1, <2>3, FlowBegins DEF StartRefresh
  <2>4. CASE StartSigning(b) /\ UNCHANGED <<held, lock, request, contested>>
    BY <1>1, <2>1, <2>4, FlowBegins
  <2>5. QED
    BY <2>2, <2>3, <2>4 DEF GetToken
<1>3. CASE held' = [held EXCEPT ![b] = file.access]
  <2>1. TokenStep
    BY <1>3 DEF GetToken, TokenStep, TokensTyped, SignInTyped, external
  <2>2. CASE \E n : Got(b, n) /\ Release(b) /\ UNCHANGED flow
    <3>1. flow' = [flow EXCEPT ![b] = flow[b]] /\ flow[b].refresh = 0 /\ flow[b].every = 0
      BY <1>1, <2>2, Still DEF SignInTyped
    <3>2. \E where \in {"idle", "asking"} : \E try : Moves(b, where, try, flow[b])
      BY <2>2, <3>1, Still, GotMoves DEF SignInTyped
    <3>3. QED
      BY <1>1, <2>1, <2>2, <3>2, LeavesLock
  <2>3. CASE UNCHANGED held
    BY <1>2, <2>3
  <2>4. QED
    BY <2>2, <2>3 DEF GetToken
<1>4. QED
  BY <1>2, <1>3 DEF GetToken

\* A flow in a thread: what it brings is what the backend takes.
LEMMA DoneTyped ==
  ASSUME SignInTyped, TokenStep, NEW b \in Backends, Holds(b), Done(b) \/ Unsigned(b)
  PROVE  SignInTyped'
<1>1. Waits(b) /\ Head(lock[session[b]]) = b
  BY HolderIsFirst
<1>2. Release(b) /\ \E where \in {"idle", "asking"} : \E try : Moves(b, where, try, NoFlow)
  BY Still, GotMoves, EndsMoves DEF Done, Unsigned, SignInTyped
<1>3. QED
  BY <1>1, <1>2, LeavesLock

LEMMA IssuedStep ==
  ASSUME TokensTyped, Issue, UNCHANGED <<session, portal, stale, dead>>,
         spent \subseteq spent', spent' \subseteq 1..issued, orphans' \subseteq orphans,
         \/ UNCHANGED <<held, file>>
         \/ \E b \in Backends : HoldToken(b) /\ UNCHANGED file
         \/ \E b \in Backends, r \in 0..issued' : SaveToken(b, r)
  PROVE  TokenStep
<1>1. issued \in Nat /\ issued' = issued + 1 /\ issued' <= MaxIssued
  BY SignInConstants DEF Issue, TokensTyped
<1>2. held \in [Backends -> 0..issued'] /\ file \in [access : 0..issued', refresh : 0..issued']
  BY <1>1 DEF TokensTyped
<1>3. /\ held' \in [Backends -> 0..issued']
      /\ file' \in [access : 0..issued', refresh : 0..issued']
  <2>1. CASE UNCHANGED <<held, file>>
    BY <1>2, <2>1
  <2>2. ASSUME NEW b \in Backends, NEW r \in 0..issued', SaveToken(b, r)
        PROVE  /\ held' \in [Backends -> 0..issued']
               /\ file' \in [access : 0..issued', refresh : 0..issued']
    BY <1>1, <1>2, <2>2 DEF SaveToken, HoldToken
  <2>3. ASSUME NEW b \in Backends, HoldToken(b), UNCHANGED file
        PROVE  /\ held' \in [Backends -> 0..issued']
               /\ file' \in [access : 0..issued', refresh : 0..issued']
    BY <1>1, <1>2, <2>3 DEF HoldToken
  <2>4. QED
    BY <2>1, <2>2, <2>3
<1>4. QED
  BY <1>1, <1>3 DEF TokenStep, TokensTyped

LEMMA RefreshAnswersTyped ==
  ASSUME SignInTyped, NEW b \in Backends, RefreshAnswers(b)
  PROVE  SignInTyped'
<1> DEFINE r == flow[b].refresh
<1>1. Holds(b) /\ r \in 1..issued
  BY DEF RefreshAnswers, Holds, CallsTyped, TokensTyped, SignInTyped
<1>2. issued' = issued + 1 /\ issued \in Nat
  BY DEF RefreshAnswers, Issue, TokensTyped, SignInTyped
<1>3. spent \subseteq spent' /\ spent' \subseteq 1..issued
  BY <1>1 DEF RefreshAnswers, Spend, TokensTyped, SignInTyped
<1>4. Renewed(r) \in 0..issued'
  BY <1>1, <1>2 DEF Renewed
<1>5. TokenStep
  BY <1>3, <1>4, IssuedStep DEF RefreshAnswers, SignInTyped
<1>6. QED
  BY <1>1, <1>5, DoneTyped DEF RefreshAnswers

LEMMA RefreshFailsTyped ==
  ASSUME SignInTyped, NEW b \in Backends, RefreshFails(b) \/ RefreshUnsaved(b)
  PROVE  SignInTyped'
<1> DEFINE r == flow[b].refresh
<1>1. Holds(b) /\ r \in 1..issued
  BY DEF RefreshFails, RefreshUnsaved, Holds, CallsTyped, TokensTyped, SignInTyped
<1>2. Waits(b) /\ Head(lock[session[b]]) = b
  BY <1>1, HolderIsFirst
<1>3. TokenStep
  <2>1. CASE RefreshFails(b) /\ UNCHANGED <<issued, spent>>
    BY <2>1, TokensStay DEF RefreshFails, external, SignInTyped
  <2>2. CASE Issue /\ Spend(r)
    <3>1. spent \subseteq spent' /\ spent' \subseteq 1..issued
      BY <1>1, <2>2 DEF Spend, TokensTyped, SignInTyped
    <3>2. CASE RefreshFails(b)
      BY <2>2, <3>1, <3>2, IssuedStep DEF RefreshFails, SignInTyped
    <3>3. CASE RefreshUnsaved(b)
      BY <2>2, <3>1, <3>3, IssuedStep DEF RefreshUnsaved, SignInTyped
    <3>4. QED
      BY <3>2, <3>3
  <2>3. QED
    BY <2>1, <2>2 DEF RefreshFails, RefreshUnsaved
<1>4. StartSigning(b) /\ UNCHANGED <<lock, request>>
  BY DEF RefreshFails, RefreshUnsaved
<1>5. QED
  BY <1>2, <1>3, <1>4, FlowBegins

LEMMA PollTyped ==
  ASSUME SignInTyped, NEW b \in Backends,
         PollPending(b) \/ Human(b) \/ PollEnds(b)
  PROVE  SignInTyped'
<1>1. Holds(b)
  BY DEF Human, PollPending, PollApproved, ApprovedUnsaved, PollRefused, PollEnds, Holds
<1>2. CASE PollPending(b)
  <2>1. TokenStep
    BY <1>2, TokensStay DEF PollPending, SignInTyped
  <2>2. PICK every \in {flow[b].every, Shorter(flow[b].every + 1, MaxPoll)} :
           flow' = [flow EXCEPT ![b] = Signing(flow[b].left - Shorter(flow[b].left, every), every)]
    BY <1>2 DEF PollPending
  <2> DEFINE w == Signing(flow[b].left - Shorter(flow[b].left, every), every)
  <2>3. flow[b].left \in 0..ExpiresIn /\ flow[b].every \in 1..MaxPoll /\ place[b] = "signing"
    BY <1>2, SignInConstants DEF PollPending, CallsTyped, SignInTyped
  <2>4. every \in 1..MaxPoll
    BY <2>3, SignInConstants DEF Shorter
  <2>5. w \in [refresh : 0..issued, left : 0..ExpiresIn, every : 0..MaxPoll]
    BY <2>3, <2>4, SignInConstants DEF Signing, Shorter, TokensTyped, SignInTyped
  <2>6. w.refresh = 0 /\ w.every # 0
    BY <2>4, SignInConstants DEF Signing
  <2>7. /\ place' = [place EXCEPT ![b] = "signing"]
        /\ sent' \in [Backends -> BOOLEAN] /\ refused' \cup trouble' \subseteq Backends
        /\ UNCHANGED <<attempt, lock>>
    BY <1>2, <2>3 DEF PollPending, request, CallsTyped, SignInTyped
  <2> HIDE DEF w
  <2>8. Moves(b, "signing", attempt[b], w)
    BY <2>2, <2>5, <2>6, <2>7, Still DEF Moves, Place, SignInTyped, w
  <2>9. LockServed'
    BY <1>1, <2>1, <2>7, HolderIsFirst, PlaceServed DEF Place, TokenStep, SignInTyped
  <2>10. QED
    BY <2>1, <2>8, <2>9, StepTyped
<1>3. CASE PollApproved(b)
  <2>1. issued' \in 0..issued'
    BY <1>3 DEF PollApproved, Issue, TokensTyped, SignInTyped
  <2>2. spent' \subseteq 1..issued /\ spent \subseteq spent'
    BY <1>3 DEF PollApproved, TokensTyped, SignInTyped
  <2>3. TokenStep
    BY <1>3, <2>1, <2>2, IssuedStep DEF PollApproved, SignInTyped
  <2>4. QED
    BY <1>1, <1>3, <2>3, DoneTyped DEF PollApproved
<1>4. CASE PollRefused(b) \/ PollEnds(b)
  <2>1. TokenStep
    BY <1>4, TokensStay DEF PollRefused, PollEnds, SignInTyped
  <2>2. QED
    BY <1>1, <1>4, <2>1, DoneTyped DEF PollRefused, PollEnds
<1>5. CASE ApprovedUnsaved(b)
  <2>1. TokenStep
    BY <1>5, IssuedStep DEF ApprovedUnsaved, SignInTyped, TokensTyped
  <2>2. QED
    BY <1>1, <1>5, <2>1, DoneTyped DEF ApprovedUnsaved
<1>6. QED
  BY <1>2, <1>3, <1>4, <1>5 DEF Human

LEMMA ApiTyped ==
  ASSUME SignInTyped, NEW b \in Backends, Api(b)
  PROVE  SignInTyped'
<1>1. /\ ~Waits(b) /\ ~Holds(b) /\ attempt[b] \in 1..MaxAttempts
      /\ flow' = [flow EXCEPT ![b] = flow[b]]
  BY Still DEF Api, Answers, Unauthorized, Fails, AskAgain, Waits, Holds, CallsTyped, SignInTyped
<1>2. CASE Ends(b) /\ UNCHANGED <<external, file, held, lock, flow, orphans>>
  <2>1. TokenStep
    BY <1>2, TokensStay DEF SignInTyped
  <2>2. Moves(b, "idle", 0, flow[b])
    BY <1>1, <1>2, EndsMoves, Still DEF SignInTyped
  <2>3. LockServed'
    BY <1>1, <2>1, <2>2, PlaceServed, <1>2 DEF Moves, Place, TokenStep, SignInTyped
  <2>4. QED
    BY <2>1, <2>2, <2>3, StepTyped
<1>3. CASE Unauthorized(b)
  <2>1. TokenStep
    BY <1>3 DEF Unauthorized, Forget, TokenStep, TokensTyped, SignInTyped, external
  <2>2. attempt[b] + 1 \in 0..(MaxAttempts + 1)
    BY <1>1, SignInConstants
  <2>3. Moves(b, "lock", attempt[b] + 1, flow[b])
    BY <1>1, <1>3, <2>2, Still DEF Unauthorized, Moves, Place, CallsTyped, SignInTyped
  <2>4. LockServed'
    BY <1>1, <1>3, AcquireServed DEF Unauthorized, external, SignInTyped
  <2>5. QED
    BY <2>1, <2>3, <2>4, StepTyped
<1>4. CASE /\ attempt[b] < MaxAttempts
           /\ attempt' = [attempt EXCEPT ![b] = @ + 1]
           /\ place' = [place EXCEPT ![b] = "pausing"]
           /\ trouble' = trouble \cup {b}
           /\ UNCHANGED <<sent, refused, external, file, held, lock, flow, orphans>>
  <2>1. TokenStep
    BY <1>4, TokensStay DEF SignInTyped
  <2>2. attempt[b] + 1 \in 0..(MaxAttempts + 1) /\ attempt[b] + 1 \in 1..MaxAttempts
    BY <1>1, <1>4, SignInConstants
  <2>3. Moves(b, "pausing", attempt[b] + 1, flow[b])
    BY <1>1, <1>4, <2>2, Still DEF Moves, Place, CallsTyped, SignInTyped
  <2>4. LockServed'
    BY <1>1, <1>4, <2>1, PlaceServed DEF Place, TokenStep, SignInTyped
  <2>5. QED
    BY <2>1, <2>3, <2>4, StepTyped
<1>5. CASE AskAgain(b)
  <2>1. TokenStep
    BY <1>5, TokensStay DEF AskAgain, SignInTyped
  <2>2. sent' \in [Backends -> BOOLEAN]
    BY <1>5 DEF AskAgain, Valid, CallsTyped, SignInTyped
  <2>3. Moves(b, "asking", attempt[b], flow[b])
    BY <1>1, <1>5, <2>2, Still DEF AskAgain, Moves, Place, CallsTyped, SignInTyped
  <2>4. LockServed'
    BY <1>1, <1>5, <2>1, PlaceServed DEF AskAgain, Place, TokenStep, SignInTyped
  <2>5. QED
    BY <2>1, <2>3, <2>4, StepTyped
<1>6. QED
  BY <1>2, <1>3, <1>4, <1>5 DEF Api, Answers, Fails

LEMMA InterruptTyped ==
  ASSUME SignInTyped, NEW p \in Sessions, CancelTasks(p)
  PROVE  SignInTyped'
<1> DEFINE cut == {b \in Backends : session[b] = p /\ place[b] # "idle"}
<1>1. /\ place' = [b \in Backends |-> IF b \in cut THEN "idle" ELSE place[b]]
      /\ flow' = [b \in Backends |-> IF b \in cut THEN NoFlow ELSE flow[b]]
      /\ attempt' = [b \in Backends |-> IF b \in cut THEN 0 ELSE attempt[b]]
      /\ sent' = [b \in Backends |-> b \notin cut /\ sent[b]]
      /\ trouble' = trouble \ cut /\ lock' = [lock EXCEPT ![p] = <<>>]
      /\ UNCHANGED <<session, portal, issued, stale, dead, spent, file, held, refused>>
  BY DEF CancelTasks, external
<1>2. TokensTyped'
  <2>1. orphans' \subseteq 0..issued
    <3>1. \A b \in Backends : flow[b].refresh \in 0..issued
      BY DEF CallsTyped, SignInTyped
    <3>2. \A r \in orphans' : r \in orphans \/ \E b \in Backends : r = flow[b].refresh
      BY DEF CancelTasks
    <3>3. ASSUME NEW r \in orphans'
          PROVE  r \in 0..issued
      <4>1. CASE r \in orphans
        BY <4>1 DEF TokensTyped, SignInTyped
      <4>2. CASE \E b \in Backends : r = flow[b].refresh
        BY <3>1, <4>2
      <4>3. QED
        BY <3>2, <3>3, <4>1, <4>2
    <3>4. QED
      BY <3>3
  <2>2. QED
    BY <1>1, <2>1 DEF TokensTyped, SignInTyped
<1>3. CallsTyped'
  <2>1. 0 \in 0..(MaxAttempts + 1) /\ "idle" \in Place
    BY SignInConstants DEF Place
  <2>2. /\ place' \in [Backends -> Place]
        /\ attempt' \in [Backends -> 0..(MaxAttempts + 1)]
        /\ sent' \in [Backends -> BOOLEAN] /\ refused' \cup trouble' \subseteq Backends
    BY <1>1, <2>1 DEF CallsTyped, SignInTyped
  <2>3. flow' \in [Backends -> [refresh : 0..issued, left : 0..ExpiresIn, every : 0..MaxPoll]]
    BY <1>1, Still DEF CallsTyped, SignInTyped
  <2>4. ASSUME NEW b \in Backends
        PROVE  /\ flow'[b].refresh # 0 <=> place'[b] = "refreshing"
               /\ flow'[b].every # 0 <=> place'[b] = "signing"
               /\ place'[b] \in {"asking", "pausing"} => attempt'[b] \in 1..MaxAttempts
    <3>1. CASE b \in cut
      BY <1>1, <3>1, Still DEF SignInTyped
    <3>2. CASE b \notin cut
      BY <1>1, <3>2 DEF CallsTyped, SignInTyped
    <3>3. QED
      BY <3>1, <3>2
  <2>5. QED
    BY <1>1, <2>2, <2>3, <2>4 DEF CallsTyped
<1>4. LockServed'
  <2>1. ASSUME NEW c \in Backends
        PROVE  /\ session[c] = p => ~Waits(c)' /\ ~Holds(c)'
               /\ session[c] # p => (Waits(c)' <=> Waits(c)) /\ (Holds(c)' <=> Holds(c))
    BY <1>1 DEF Waits, Holds, CallsTyped, SignInTyped
  <2>2. /\ lock' \in [Sessions -> Seq(Backends)] /\ lock'[p] = <<>>
        /\ \A q \in Sessions \ {p} : lock'[q] = lock[q]
    BY <1>1 DEF LockServed, SignInTyped
  <2>3. ASSUME NEW q \in Sessions, NEW c \in Backends
        PROVE  (\E i \in DOMAIN lock'[q] : lock'[q][i] = c) <=> session'[c] = q /\ Waits(c)'
    <3>1. CASE q = p
      BY <1>1, <2>1, <2>2, <3>1
    <3>2. CASE q # p
      BY <1>1, <2>1, <2>2, <3>2 DEF LockServed, SignInTyped
    <3>3. QED
      BY <3>1, <3>2
  <2>4. ASSUME NEW q \in Sessions, NEW i \in DOMAIN lock'[q], NEW j \in DOMAIN lock'[q],
               lock'[q][i] = lock'[q][j]
        PROVE  i = j
    <3>1. q # p /\ lock'[q] = lock[q]
      BY <2>2
    <3>2. QED
      BY <2>4, <3>1 DEF LockServed, SignInTyped
  <2>5. ASSUME NEW c \in Backends, Holds(c)'
        PROVE  lock'[session'[c]] # <<>> /\ Head(lock'[session'[c]]) = c
    BY <1>1, <2>1, <2>2, <2>5 DEF LockServed, TokensTyped, SignInTyped
  <2>6. QED
    BY <2>2, <2>3, <2>4, <2>5 DEF LockServed
<1>5. QED
  BY <1>2, <1>3, <1>4 DEF SignInTyped

\* A step of the outside world leaves calls and locks alone.
LEMMA OutsideTyped ==
  ASSUME SignInTyped, TokensTyped', issued' \in {issued, issued + 1},
         UNCHANGED <<session, lock, place, flow, request>>
  PROVE  SignInTyped'
<1>1. LockServed'
  BY DEF LockServed, Waits, Holds, SignInTyped
<1>2. issued \in Nat /\ issued <= issued'
  BY DEF TokensTyped, SignInTyped
<1> DEFINE F(n) == [refresh : 0..n, left : 0..ExpiresIn, every : 0..MaxPoll]
<1>3. F(issued) \subseteq F(issued')
  BY <1>2
<1>4. flow' \in [Backends -> F(issued)]
  BY DEF CallsTyped, SignInTyped
<1>5. flow' \in [Backends -> F(issued')]
  BY <1>3, <1>4
<1>6. CallsTyped'
  BY <1>5 DEF CallsTyped, request, SignInTyped
<1>7. QED
  BY <1>1, <1>6 DEF SignInTyped

LEMMA InitSignInTyped == SignInInit => SignInTyped
<1> SUFFICES ASSUME SignInInit PROVE SignInTyped
  OBVIOUS
<1>1. session \in [Backends -> Sessions] /\ portal \in [rotates : BOOLEAN, expires : BOOLEAN]
  BY SignInConstants DEF SignInInit
<1>2. TokensTyped
  BY <1>1, SignInConstants DEF SignInInit, TokensTyped
<1>3. NoFlow \in [refresh : 0..issued, left : 0..ExpiresIn, every : 0..MaxPoll]
  BY SignInConstants DEF SignInInit, NoFlow
<1>4. CallsTyped
  BY <1>3, SignInConstants DEF SignInInit, CallsTyped, Place, NoFlow
<1>5. LockServed
  BY DEF SignInInit, LockServed, Waits, Holds
<1>6. QED
  BY <1>2, <1>4, <1>5 DEF SignInTyped

LEMMA NextSignInTyped == SignInTyped /\ [SignInNext]_signInVars => SignInTyped'
<1> SUFFICES ASSUME SignInTyped, [SignInNext]_signInVars PROVE SignInTyped'
  OBVIOUS
<1>1. ASSUME NEW b \in Backends, NEW first \in 0..1, Call(b, first) PROVE SignInTyped'
  BY <1>1, CallTyped
<1>2. ASSUME NEW b \in Backends, Works(b) \/ Human(b) PROVE SignInTyped'
  BY <1>2, GetTokenTyped, ApiTyped, RefreshAnswersTyped, RefreshFailsTyped, PollTyped
     DEF Works, FlowThread, Human
<1>3. ASSUME NEW p \in Sessions, CancelTasks(p) PROVE SignInTyped'
  BY <1>3, InterruptTyped
<1>4. ASSUME NEW r \in orphans, OrphanEnds(r) PROVE SignInTyped'
  <2>1. /\ issued' \in {issued, issued + 1} /\ issued' \in 0..MaxIssued
        /\ issued \in Nat /\ r \in 0..issued
    BY <1>4, SignInConstants DEF OrphanEnds, Issue, TokensTyped, SignInTyped
  <2>2. spent' \subseteq 1..issued'
    <3>1. 1..issued \subseteq 1..issued' /\ (r # 0 => r \in 1..issued)
      BY <2>1
    <3>2. spent \subseteq 1..issued
      BY DEF TokensTyped, SignInTyped
    <3>3. spent' = spent \/ (r # 0 /\ spent' = spent \cup {r})
      BY <1>4 DEF OrphanEnds, Spend
    <3>4. ASSUME NEW x \in spent'
          PROVE  x \in 1..issued'
      <4>1. x \in spent \/ (x = r /\ r # 0)
        BY <3>3
      <4>2. x \in 1..issued
        BY <3>1, <3>2, <4>1
      <4>3. QED
        BY <3>1, <4>2
    <3>5. QED
      BY <3>4
  <2>3. /\ held' \in [Backends -> 0..issued']
        /\ file' \in [access : 0..issued', refresh : 0..issued']
    BY <1>4, <2>1 DEF OrphanEnds, TokensTyped, SignInTyped
  <2>4. TokensTyped'
    BY <1>4, <2>1, <2>2, <2>3 DEF OrphanEnds, TokensTyped, SignInTyped
  <2>5. QED
    BY <1>4, <2>1, <2>4, OutsideTyped DEF OrphanEnds
<1>5. CASE TimePasses
  <2>1. TokensTyped'
    BY <1>5 DEF TimePasses, TokensTyped, SignInTyped
  <2>2. QED
    BY <1>5, <2>1, OutsideTyped DEF TimePasses
<1>6. CASE UNCHANGED signInVars
  <2>1. TokensTyped'
    BY <1>6 DEF signInVars, external, TokensTyped, SignInTyped
  <2>2. QED
    BY <1>6, <2>1, OutsideTyped DEF signInVars, external
<1>7. QED
  BY <1>1, <1>2, <1>3, <1>4, <1>5, <1>6 DEF SignInNext

\* Tokens, calls, flows and locks keep their types, and the lock of a session
\* is held by the first in line, each once.
THEOREM TokensTypeCorrect == SignInSpec => []SignInTypeOK
<1>1. QED
  BY InitSignInTyped, NextSignInTyped, SignInTypedIsOK, PTL DEF SignInSpec

\* No call waits for a lock that nobody has: in the line of a session's lock
\* stand exactly its backends that wait or work under it, once each, and who
\* works under it is the first (_get_auth_lock, get_access_token).  It is what the fair
\* threads of CallsEnd rely on.
THEOREM LocksAreServed == SignInSpec => []LockServed
<1>1. SignInTyped => LockServed
  BY DEF SignInTyped
<1>2. QED
  BY <1>1, InitSignInTyped, NextSignInTyped, PTL DEF SignInSpec

(***************************************************************************)
(* Refresh tokens.                                                         *)
(***************************************************************************)

Lost == forfeited \cup contested

\* A refresh token that was used and that somebody still goes by is one whose
\* answer went astray, or one that two sessions use.  Two backends that use
\* the same one are of two sessions, for in one the lock lets a single one in.
RefreshInv ==
    /\ \A b \in Backends : flow[b].refresh \in spent => flow[b].refresh \in Lost
    /\ file.refresh \in spent => file.refresh \in Lost
    /\ \A b, c \in Backends :
          b # c /\ flow[b].refresh # 0 /\ flow[b].refresh = flow[c].refresh =>
              flow[b].refresh \in contested
    /\ orphans \ {0} \subseteq forfeited
    /\ replayed \subseteq Lost

\* A step that begins no refresh and uses at most one token keeps it, when
\* those who go on with that token are known to.
LEMMA KeepsRefresh ==
  ASSUME RefreshInv, NEW r, spent' \subseteq spent \cup {r}, 0 \notin spent',
         forfeited \subseteq forfeited', contested \subseteq contested',
         \A b \in Backends : flow'[b].refresh \in {0, flow[b].refresh},
         \A b \in Backends : flow'[b].refresh # 0 /\ flow'[b].refresh = r => r \in spent \cup Lost',
         file'.refresh \in spent' => file'.refresh \in Lost',
         orphans' \ {0} \subseteq forfeited', replayed' \subseteq Lost'
  PROVE  RefreshInv'
<1>1. Lost \subseteq Lost'
  BY DEF Lost
<1>2. ASSUME NEW b \in Backends, flow'[b].refresh \in spent'
      PROVE  flow'[b].refresh \in Lost'
  <2>1. flow'[b].refresh = flow[b].refresh /\ flow'[b].refresh # 0
    BY <1>2
  <2>2. flow'[b].refresh \in spent \/ flow'[b].refresh = r
    BY <1>2
  <2>3. QED
    BY <1>1, <2>1, <2>2 DEF RefreshInv
<1>3. ASSUME NEW b \in Backends, NEW c \in Backends, b # c, flow'[b].refresh # 0,
             flow'[b].refresh = flow'[c].refresh
      PROVE  flow'[b].refresh \in contested'
  <2>1. flow'[b].refresh = flow[b].refresh /\ flow'[c].refresh = flow[c].refresh
    BY <1>3
  <2>2. flow[b].refresh \in contested
    BY <1>3, <2>1 DEF RefreshInv
  <2>3. QED
    BY <2>1, <2>2
<1>4. QED
  BY <1>2, <1>3 DEF RefreshInv

\* Nothing about refresh tokens changes.
LEMMA RefreshStays ==
  ASSUME SignInTyped, RefreshInv, UNCHANGED <<spent, file, flow, orphans, history>>
  PROVE  RefreshInv'
  BY DEF RefreshInv, Lost, history

\* A backend leaves its flow.
LEMMA FlowLeft ==
  ASSUME SignInTyped, NEW b \in Backends, NEW w, w.refresh = 0, flow' = [flow EXCEPT ![b] = w]
  PROVE  /\ flow'[b].refresh = 0
         /\ \A c \in Backends : flow'[c].refresh \in {0, flow[c].refresh}
         /\ \A c \in Backends : flow'[c].refresh # 0 => c # b /\ flow'[c].refresh = flow[c].refresh
  BY DEF SignInTyped, CallsTyped

LEMMA SigningHasNone ==
  ASSUME NEW left, NEW every
  PROVE  Signing(left, every).refresh = 0 /\ NoFlow.refresh = 0
  BY DEF Signing, NoFlow

LEMMA GetTokenRefresh ==
  ASSUME SignInTyped, RefreshInv, NEW b \in Backends, GetToken(b)
  PROVE  RefreshInv'
<1>1. UNCHANGED <<spent, file, orphans, forfeited, replayed>> /\ 0 \notin spent
  BY DEF GetToken, external, SignInTyped, TokensTyped
<1>2. CASE UNCHANGED <<flow, contested>>
  BY <1>1, <1>2, RefreshStays DEF history
<1>3. CASE StartRefresh(b) /\ file.refresh # 0
  <2> DEFINE r == file.refresh
  <2>1. /\ flow'[b].refresh = r
        /\ \A c \in Backends : c # b => flow'[c].refresh = flow[c].refresh
    BY <1>3 DEF StartRefresh, Refreshing, SignInTyped, CallsTyped
  <2>2. contested \subseteq contested' /\ Lost \subseteq Lost'
    BY <1>1, <1>3 DEF StartRefresh, Lost
  <2>3. ASSUME NEW c \in Backends, c # b, flow[c].refresh = r
        PROVE  r \in contested'
    <3>1. Holds(c)
      BY <1>3, <2>3 DEF Holds, SignInTyped, CallsTyped
    <3>2. session[c] # session[b]
      BY <2>3, <3>1, HolderIsFirst DEF GetToken
    <3>3. QED
      BY <1>3, <2>3, <3>2 DEF StartRefresh
  <2>4. ASSUME NEW c \in Backends, flow'[c].refresh \in spent'
        PROVE  flow'[c].refresh \in Lost'
    <3>1. CASE c = b
      BY <1>1, <2>1, <2>2, <2>4, <3>1 DEF RefreshInv
    <3>2. CASE c # b
      BY <1>1, <2>1, <2>2, <2>4, <3>2 DEF RefreshInv
    <3>3. QED
      BY <3>1, <3>2
  <2>5. ASSUME NEW c \in Backends, NEW d \in Backends, c # d, flow'[c].refresh # 0,
               flow'[c].refresh = flow'[d].refresh
        PROVE  flow'[c].refresh \in contested'
    <3>1. CASE c = b
      BY <2>1, <2>3, <2>5, <3>1
    <3>2. CASE d = b
      BY <2>1, <2>3, <2>5, <3>2
    <3>3. CASE c # b /\ d # b
      BY <2>1, <2>2, <2>5, <3>3 DEF RefreshInv
    <3>4. QED
      BY <3>1, <3>2, <3>3
  <2>6. QED
    BY <1>1, <2>2, <2>4, <2>5 DEF RefreshInv
<1>4. CASE StartSigning(b) /\ UNCHANGED contested
  <2> DEFINE w == Signing(ExpiresIn, Shorter(Interval, PollCap))
  <2>1. w.refresh = 0 /\ flow' = [flow EXCEPT ![b] = w]
    BY <1>4, SigningHasNone DEF StartSigning
  <2> HIDE DEF w
  <2>2. QED
    BY <1>1, <1>4, <2>1, FlowLeft, KeepsRefresh DEF RefreshInv, Lost
<1>5. QED
  BY <1>2, <1>3, <1>4 DEF GetToken

LEMMA RefreshAnswersRefresh ==
  ASSUME SignInTyped, RefreshInv, NEW b \in Backends, RefreshAnswers(b)
  PROVE  RefreshInv'
<1> DEFINE r == flow[b].refresh
<1>1. /\ UNCHANGED <<orphans, forfeited, contested, replayed>>
      /\ spent' \subseteq spent \cup {r} /\ r \notin spent /\ Lost' = Lost
  BY DEF RefreshAnswers, Spend, Refreshable, history, Lost
<1>2. r \in 1..issued /\ spent \subseteq 1..issued /\ issued' = issued + 1 /\ issued \in Nat
  BY DEF RefreshAnswers, Issue, SignInTyped, TokensTyped, CallsTyped
<1>3. 0 \notin spent' /\ issued' \notin spent'
  BY <1>1, <1>2
<1>4. file'.refresh = Renewed(r) /\ flow' = [flow EXCEPT ![b] = NoFlow] /\ NoFlow.refresh = 0
  BY SigningHasNone DEF RefreshAnswers, SaveToken, Done
<1>5. file'.refresh \notin spent'
  <2>1. CASE portal.rotates
    BY <1>3, <1>4, <2>1 DEF Renewed
  <2>2. CASE ~portal.rotates
    BY <1>1, <1>4, <2>2 DEF Renewed, Spend, RefreshAnswers
  <2>3. QED
    BY <2>1, <2>2
<1>6. \A c \in Backends : flow'[c].refresh # 0 /\ flow'[c].refresh = r => r \in Lost'
  BY <1>1, <1>4, FlowLeft DEF RefreshInv, Lost
<1>7. \A c \in Backends : flow'[c].refresh \in {0, flow[c].refresh}
  BY <1>4, FlowLeft
<1>8. orphans' \ {0} \subseteq forfeited' /\ replayed' \subseteq Lost'
  BY <1>1 DEF RefreshInv
<1>9. QED
  BY <1>1, <1>3, <1>5, <1>6, <1>7, <1>8, KeepsRefresh

LEMMA RefreshFailsRefresh ==
  ASSUME SignInTyped, RefreshInv, NEW b \in Backends, RefreshFails(b) \/ RefreshUnsaved(b)
  PROVE  RefreshInv'
<1> DEFINE r == flow[b].refresh
           w == Signing(ExpiresIn, Shorter(Interval, PollCap))
<1>1. w.refresh = 0 /\ flow' = [flow EXCEPT ![b] = w]
  BY SigningHasNone DEF RefreshFails, RefreshUnsaved, StartSigning
<1> HIDE DEF w
<1>2. UNCHANGED <<file, orphans, contested>>
  BY DEF RefreshFails, RefreshUnsaved
<1>3. \A c \in Backends : flow'[c].refresh \in {0, flow[c].refresh}
  BY <1>1, FlowLeft
<1>4. \A c \in Backends : flow'[c].refresh # 0 /\ flow'[c].refresh = r => r \in contested
  BY <1>1, FlowLeft DEF RefreshInv
<1>5. r # 0 /\ 0 \notin spent
  BY DEF RefreshFails, RefreshUnsaved, SignInTyped, TokensTyped, CallsTyped
<1>6. CASE UNCHANGED <<spent, forfeited>> /\ replayed' = replayed \cup ({r} \cap spent)
  <2>1. Lost' = Lost /\ replayed' \subseteq Lost'
    BY <1>2, <1>6 DEF RefreshInv, Lost
  <2>2. QED
    BY <1>2, <1>3, <1>4, <1>5, <1>6, <2>1, KeepsRefresh DEF RefreshInv, Lost
<1>7. CASE Spend(r) /\ forfeited' = forfeited \cup {r} /\ UNCHANGED replayed
  <2>1. spent' \subseteq spent \cup {r} /\ 0 \notin spent'
    BY <1>5, <1>7 DEF Spend
  <2>2. Lost \subseteq Lost' /\ r \in Lost' /\ forfeited \subseteq forfeited'
    BY <1>2, <1>7 DEF Lost
  <2>3. file'.refresh \in spent' => file'.refresh \in Lost'
    BY <1>2, <2>1, <2>2 DEF RefreshInv
  <2>4. orphans' \ {0} \subseteq forfeited' /\ replayed' \subseteq Lost'
    BY <1>2, <1>7, <2>2 DEF RefreshInv
  <2>5. QED
    BY <1>2, <1>3, <2>1, <2>2, <2>3, <2>4, KeepsRefresh
<1>8. QED
  BY <1>6, <1>7 DEF RefreshFails, RefreshUnsaved

LEMMA PollRefresh ==
  ASSUME SignInTyped, RefreshInv, NEW b \in Backends,
         PollPending(b) \/ Human(b) \/ PollEnds(b)
  PROVE  RefreshInv'
<1>1. /\ UNCHANGED <<spent, orphans, forfeited, contested, replayed>>
      /\ 0 \notin spent /\ Lost' = Lost
  BY DEF Human, PollPending, PollApproved, ApprovedUnsaved, PollRefused, PollEnds, external,
         history, Lost, SignInTyped, TokensTyped
<1>2. \E w : w.refresh = 0 /\ flow' = [flow EXCEPT ![b] = w]
  BY SigningHasNone DEF Human, PollPending, PollApproved, ApprovedUnsaved, PollRefused, PollEnds,
                        Done, Unsigned
<1>3. file'.refresh \in spent' => file'.refresh \in Lost'
  <2>1. CASE UNCHANGED file
    BY <1>1, <2>1 DEF RefreshInv
  <2>2. CASE PollApproved(b)
    BY <1>1, <2>2 DEF PollApproved, SaveToken, Issue, SignInTyped, TokensTyped
  <2>3. QED
    BY <2>1, <2>2 DEF Human, PollPending, ApprovedUnsaved, PollRefused, PollEnds
<1>4. \A c \in Backends : flow'[c].refresh \in {0, flow[c].refresh}
  BY <1>2, FlowLeft
<1>5. QED
  BY <1>1, <1>3, <1>4, KeepsRefresh DEF RefreshInv

LEMMA InterruptRefresh ==
  ASSUME SignInTyped, RefreshInv, NEW p \in Sessions, CancelTasks(p)
  PROVE  RefreshInv'
<1> DEFINE cut == {b \in Backends : session[b] = p /\ place[b] # "idle"}
           thrown == {flow[b].refresh : b \in {b \in cut : place[b] \in {"refreshing", "signing"}}}
<1>1. /\ flow' = [b \in Backends |-> IF b \in cut THEN NoFlow ELSE flow[b]]
      /\ orphans' = orphans \cup thrown /\ forfeited' = forfeited \cup (thrown \ {0})
      /\ UNCHANGED <<spent, file, contested, replayed>>
  BY DEF CancelTasks, external
<1>2. \A b \in Backends : flow'[b].refresh \in {0, flow[b].refresh}
  BY <1>1, SigningHasNone
<1> HIDE DEF cut, thrown
<1>3. 0 \notin spent /\ Lost \subseteq Lost'
  BY <1>1 DEF Lost, SignInTyped, TokensTyped
<1>4. orphans' \ {0} \subseteq forfeited' /\ replayed' \subseteq Lost'
  BY <1>1, <1>3 DEF RefreshInv
<1>5. file'.refresh \in spent' => file'.refresh \in Lost'
  BY <1>1, <1>3 DEF RefreshInv
<1>6. QED
  BY <1>1, <1>2, <1>3, <1>4, <1>5, KeepsRefresh DEF RefreshInv

LEMMA OrphanRefresh ==
  ASSUME SignInTyped, RefreshInv, NEW r \in orphans, OrphanEnds(r)
  PROVE  RefreshInv'
<1>1. /\ UNCHANGED <<file, flow, forfeited, contested, replayed>>
      /\ orphans' = orphans \ {r} /\ Lost' = Lost
  BY DEF OrphanEnds, history, Lost
<1>2. 0 \notin spent /\ (r # 0 => r \in forfeited)
  BY DEF RefreshInv, SignInTyped, TokensTyped
<1>3. CASE UNCHANGED spent
  BY <1>1, <1>3 DEF RefreshInv
<1>4. CASE r # 0 /\ Spend(r)
  <2>1. spent' \subseteq spent \cup {r} /\ 0 \notin spent' /\ r \in Lost'
    BY <1>1, <1>2, <1>4 DEF Spend, Lost
  <2>2. QED
    BY <1>1, <1>2, <2>1, KeepsRefresh DEF RefreshInv
<1>5. QED
  BY <1>3, <1>4 DEF OrphanEnds

LEMMA InitRefresh == SignInInit => RefreshInv
  BY DEF SignInInit, RefreshInv, Lost, NoFlow

LEMMA NextRefresh == SignInTyped /\ RefreshInv /\ [SignInNext]_signInVars => RefreshInv'
<1> SUFFICES ASSUME SignInTyped, RefreshInv, [SignInNext]_signInVars PROVE RefreshInv'
  OBVIOUS
<1>1. ASSUME NEW b \in Backends, NEW first \in 0..1, Call(b, first) PROVE RefreshInv'
  BY <1>1, RefreshStays DEF Call, external
<1>2. ASSUME NEW b \in Backends, Works(b) \/ Human(b) PROVE RefreshInv'
  <2>1. CASE Api(b)
    BY <2>1, RefreshStays DEF Api, Answers, Unauthorized, Fails, AskAgain, external
  <2>2. QED
    BY <1>2, <2>1, GetTokenRefresh, RefreshAnswersRefresh, RefreshFailsRefresh, PollRefresh
       DEF Works, FlowThread, Human
<1>3. ASSUME NEW p \in Sessions, CancelTasks(p) PROVE RefreshInv'
  BY <1>3, InterruptRefresh
<1>4. ASSUME NEW r \in orphans, OrphanEnds(r) PROVE RefreshInv'
  BY <1>4, OrphanRefresh
<1>5. CASE TimePasses \/ UNCHANGED signInVars
  BY <1>5, RefreshStays DEF TimePasses, signInVars, external
<1>6. QED
  BY <1>1, <1>2, <1>3, <1>4, <1>5 DEF SignInNext

\* A refresh token that works once is presented a second time only when the
\* answer to its use was lost, thrown away or could not be saved, or when
\* another session used it at the same time.
THEOREM OneUseOfARefreshToken == SignInSpec => []RefreshTokensWorkOnce
<1>1. RefreshInv => RefreshTokensWorkOnce
  BY DEF RefreshInv, Lost, RefreshTokensWorkOnce
<1>2. QED
  BY <1>1, InitSignInTyped, NextSignInTyped, InitRefresh, NextRefresh, PTL DEF SignInSpec

(***************************************************************************)
(* Expired tokens.                                                         *)
(***************************************************************************)

\* A call under way ended no earlier one.  A call that met no other failure
\* is refused at most once, by a token that expired in memory: with none there
\* it takes a token that is good, and that one is not refused.
OnceExpired(b) ==
    /\ place[b] # "idle" => b \notin refused
    /\ portal.expires /\ b \notin trouble =>
          /\ b \notin refused /\ attempt[b] <= 2 /\ place[b] # "pausing"
          /\ attempt[b] = 2 => \/ Holds(b)
                               \/ place[b] = "lock" /\ held[b] = 0
                               \/ place[b] = "asking" /\ sent[b]

ExpiryInv == \A b \in Backends : OnceExpired(b)

\* A step of one backend leaves the others alone.
LEMMA OneExpires ==
  ASSUME ExpiryInv, NEW b \in Backends, OnceExpired(b)', UNCHANGED portal,
         \A c \in Backends \ {b} :
             /\ place'[c] = place[c] /\ attempt'[c] = attempt[c] /\ sent'[c] = sent[c]
             /\ held'[c] = held[c]
             /\ (c \in refused' <=> c \in refused) /\ (c \in trouble' <=> c \in trouble)
  PROVE  ExpiryInv'
<1>1. ASSUME NEW c \in Backends, c # b PROVE OnceExpired(c)'
  BY <1>1 DEF ExpiryInv, OnceExpired, Holds
<1>2. QED
  BY <1>1 DEF ExpiryInv

LEMMA ExpiryStays ==
  ASSUME ExpiryInv, UNCHANGED <<portal, place, attempt, sent, held, refused, trouble>>
  PROVE  ExpiryInv'
  BY DEF ExpiryInv, OnceExpired, Holds

\* A call ends, or goes on with a token that is good.
LEMMA GotExpires ==
  ASSUME MaxAttempts > 1, SignInTyped, ExpiryInv, NEW b \in Backends, Waits(b), NEW n, Got(b, n),
         portal.expires /\ b \notin trouble /\ attempt[b] = 2 => Valid(n),
         UNCHANGED portal, \A c \in Backends \ {b} : held'[c] = held[c]
  PROVE  ExpiryInv'
<1>1. /\ attempt[b] \in 0..(MaxAttempts + 1) /\ place[b] # "idle" /\ b \notin refused
      /\ portal.expires /\ b \notin trouble => attempt[b] <= 2
  BY DEF ExpiryInv, OnceExpired, Waits, SignInTyped, CallsTyped
<1>2. /\ \A c \in Backends \ {b} :
             /\ place'[c] = place[c] /\ attempt'[c] = attempt[c] /\ sent'[c] = sent[c]
             /\ (c \in refused' <=> c \in refused) /\ (c \in trouble' <=> c \in trouble)
      /\ place' \in [Backends -> Place]
  BY DEF Got, Ends, EndsRefused, Over, SignInTyped, CallsTyped, Place
<1>3. CASE Ends(b)
  <2>1. OnceExpired(b)'
    BY <1>1, <1>3 DEF Ends, Over, OnceExpired, SignInTyped, CallsTyped
  <2>2. QED
    BY <1>2, <2>1, OneExpires
<1>4. CASE attempt[b] > MaxAttempts /\ EndsRefused(b)
  <2>1. ~(portal.expires /\ b \notin trouble)
    BY <1>1, <1>4, SignInConstants
  <2>2. OnceExpired(b)'
    BY <1>4, <2>1 DEF EndsRefused, Over, OnceExpired, SignInTyped, CallsTyped
  <2>3. QED
    BY <1>2, <2>2, OneExpires
<1>5. CASE /\ place' = [place EXCEPT ![b] = "asking"]
           /\ sent' = [sent EXCEPT ![b] = Valid(n)]
           /\ UNCHANGED <<attempt, refused, trouble>>
  <2>1. place'[b] = "asking" /\ (sent'[b] <=> Valid(n))
    BY <1>5 DEF SignInTyped, CallsTyped
  <2>2. OnceExpired(b)'
    BY <1>1, <1>5, <2>1 DEF OnceExpired, Holds
  <2>3. QED
    BY <1>2, <2>2, OneExpires
<1>6. QED
  BY <1>3, <1>4, <1>5 DEF Got

LEMMA CallExpires ==
  ASSUME ExpiryInv, SignInTyped, NEW b \in Backends, NEW first \in 0..1, Call(b, first)
  PROVE  ExpiryInv'
<1>1. /\ place'[b] = "lock" /\ attempt'[b] = first /\ b \notin refused' /\ UNCHANGED portal
      /\ \A c \in Backends \ {b} :
             /\ place'[c] = place[c] /\ attempt'[c] = attempt[c] /\ sent'[c] = sent[c]
             /\ held'[c] = held[c]
             /\ (c \in refused' <=> c \in refused) /\ (c \in trouble' <=> c \in trouble)
  BY DEF Call, external, SignInTyped, CallsTyped
<1>2. OnceExpired(b)'
  BY <1>1 DEF OnceExpired, Holds
<1>3. QED
  BY <1>1, <1>2, OneExpires

\* A flow begins: the backend holds the lock.
LEMMA FlowExpires ==
  ASSUME SignInTyped, ExpiryInv, NEW b \in Backends, Waits(b), UNCHANGED <<portal, request>>,
         \A c \in Backends \ {b} : held'[c] = held[c],
         NEW t \in {"refreshing", "signing"}, place' = [place EXCEPT ![b] = t]
  PROVE  ExpiryInv'
<1>1. place'[b] = t /\ \A c \in Backends \ {b} : place'[c] = place[c]
  BY DEF SignInTyped, CallsTyped
<1>2. OnceExpired(b)'
  BY <1>1 DEF ExpiryInv, OnceExpired, Holds, Waits, request
<1>3. QED
  BY <1>1, <1>2, OneExpires DEF request

LEMMA GetTokenExpires ==
  ASSUME MaxAttempts > 1, SignInTyped, ExpiryInv, NEW b \in Backends, GetToken(b)
  PROVE  ExpiryInv'
<1>1. Waits(b) /\ UNCHANGED portal
  BY DEF GetToken, Waits, external
<1>2. CASE held[b] # 0 /\ UNCHANGED held /\ Got(b, held'[b])
  <2>1. ~(portal.expires /\ b \notin trouble /\ attempt[b] = 2)
    BY <1>1, <1>2 DEF GetToken, ExpiryInv, OnceExpired, Holds
  <2>2. QED
    BY <1>1, <1>2, <2>1, GotExpires
<1>3. CASE /\ ~Expiring(file.access) /\ held' = [held EXCEPT ![b] = file.access]
           /\ Got(b, held'[b])
  <2>1. held'[b] = file.access /\ \A c \in Backends \ {b} : held'[c] = held[c]
    BY <1>3 DEF SignInTyped, TokensTyped
  <2>2. portal.expires => Valid(held'[b])
    BY <1>3, <2>1 DEF Expiring, Valid, SignInTyped, TokensTyped
  <2>3. QED
    BY <1>1, <1>3, <2>1, <2>2, GotExpires
<1>4. CASE (StartRefresh(b) \/ StartSigning(b)) /\ UNCHANGED <<held, request>>
  BY <1>1, <1>4, FlowExpires DEF StartRefresh, StartSigning
<1>5. QED
  BY <1>2, <1>3, <1>4 DEF GetToken

LEMMA DoneExpires ==
  ASSUME MaxAttempts > 1, SignInTyped, ExpiryInv, NEW b \in Backends,
         RefreshAnswers(b) \/ PollApproved(b)
  PROVE  ExpiryInv'
<1>1. /\ Waits(b) /\ Issue /\ UNCHANGED portal /\ held' = [held EXCEPT ![b] = issued']
      /\ Got(b, issued')
  BY DEF RefreshAnswers, PollApproved, SaveToken, HoldToken, Done, Waits
<1>2. Valid(issued') /\ \A c \in Backends \ {b} : held'[c] = held[c]
  BY <1>1 DEF Issue, Valid, SignInTyped, TokensTyped
<1>3. QED
  BY <1>1, <1>2, GotExpires

\* A call ends without having been refused.
LEMMA EndsExpires ==
  ASSUME SignInTyped, ExpiryInv, NEW b \in Backends, place[b] # "idle", Ends(b),
         UNCHANGED portal, \A c \in Backends \ {b} : held'[c] = held[c]
  PROVE  ExpiryInv'
<1>1. /\ place'[b] = "idle" /\ attempt'[b] = 0 /\ b \notin refused'
      /\ \A c \in Backends \ {b} :
             /\ place'[c] = place[c] /\ attempt'[c] = attempt[c] /\ sent'[c] = sent[c]
             /\ (c \in refused' <=> c \in refused) /\ (c \in trouble' <=> c \in trouble)
  BY DEF Ends, Over, ExpiryInv, OnceExpired, SignInTyped, CallsTyped
<1>2. OnceExpired(b)'
  BY <1>1 DEF OnceExpired, Holds
<1>3. QED
  BY <1>1, <1>2, OneExpires

LEMMA ThreadExpires ==
  ASSUME MaxAttempts > 1, SignInTyped, ExpiryInv, NEW b \in Backends, FlowThread(b) \/ Human(b)
  PROVE  ExpiryInv'
<1>1. CASE RefreshFails(b) \/ RefreshUnsaved(b)
  <2>1. /\ place' = [place EXCEPT ![b] = "signing"] /\ Waits(b) /\ UNCHANGED <<portal, request>>
        /\ \A c \in Backends \ {b} : held'[c] = held[c]
    BY <1>1 DEF RefreshFails, RefreshUnsaved, HoldToken, StartSigning, Waits, SignInTyped,
                TokensTyped
  <2>2. QED
    BY <2>1, FlowExpires
<1>2. CASE PollPending(b)
  BY <1>2, ExpiryStays DEF PollPending, external, request
<1>3. CASE PollRefused(b) \/ PollEnds(b) \/ ApprovedUnsaved(b)
  <2>1. /\ place[b] # "idle" /\ Ends(b) /\ UNCHANGED portal
        /\ \A c \in Backends \ {b} : held'[c] = held[c]
    BY <1>3 DEF PollRefused, PollEnds, ApprovedUnsaved, HoldToken, Unsigned, external,
                SignInTyped, TokensTyped
  <2>2. QED
    BY <2>1, EndsExpires
<1>4. QED
  BY <1>1, <1>2, <1>3, DoneExpires DEF FlowThread, Human

LEMMA ApiExpires ==
  ASSUME SignInTyped, ExpiryInv, NEW b \in Backends, Api(b)
  PROVE  ExpiryInv'
<1>1. place[b] # "idle" /\ attempt[b] \in 1..MaxAttempts /\ UNCHANGED portal /\ OnceExpired(b)
  BY DEF Api, Answers, Unauthorized, Fails, AskAgain, external, SignInTyped, CallsTyped, ExpiryInv
<1>2. CASE Ends(b) /\ UNCHANGED held
  BY <1>1, <1>2, EndsExpires
<1>3. CASE Unauthorized(b)
  <2>1. /\ place'[b] = "lock" /\ attempt'[b] = attempt[b] + 1 /\ held'[b] = 0
        /\ UNCHANGED <<refused, trouble>>
        /\ \A c \in Backends \ {b} :
               /\ place'[c] = place[c] /\ attempt'[c] = attempt[c] /\ sent'[c] = sent[c]
               /\ held'[c] = held[c]
    BY <1>3 DEF Unauthorized, Forget, SignInTyped, TokensTyped, CallsTyped
  <2>2. portal.expires /\ b \notin trouble => attempt[b] = 1
    BY <1>1, <1>3, SignInConstants DEF OnceExpired, Holds, Unauthorized, Waits
  <2>3. OnceExpired(b)'
    BY <1>1, <2>1, <2>2, SignInConstants DEF OnceExpired, Holds, Waits
  <2>4. QED
    BY <1>1, <2>1, <2>3, OneExpires
<1>4. CASE /\ attempt' = [attempt EXCEPT ![b] = @ + 1]
           /\ place' = [place EXCEPT ![b] = "pausing"]
           /\ trouble' = trouble \cup {b}
           /\ UNCHANGED <<sent, refused, held>>
  <2>1. /\ b \in trouble'
        /\ \A c \in Backends \ {b} :
               /\ place'[c] = place[c] /\ attempt'[c] = attempt[c]
               /\ (c \in trouble' <=> c \in trouble)
    BY <1>4
  <2>2. OnceExpired(b)'
    BY <1>1, <1>4, <2>1 DEF OnceExpired, Holds
  <2>3. QED
    BY <1>1, <1>4, <2>1, <2>2, OneExpires
<1>5. CASE AskAgain(b)
  <2>1. /\ UNCHANGED <<attempt, refused, trouble, held>>
        /\ \A c \in Backends \ {b} : place'[c] = place[c] /\ sent'[c] = sent[c]
    BY <1>5 DEF AskAgain
  <2>2. OnceExpired(b)'
    BY <1>1, <1>5, <2>1 DEF AskAgain, OnceExpired
  <2>3. QED
    BY <1>1, <2>1, <2>2, OneExpires
<1>6. QED
  BY <1>2, <1>3, <1>4, <1>5 DEF Api, Answers, Fails

LEMMA InterruptExpires ==
  ASSUME SignInTyped, ExpiryInv, NEW p \in Sessions, CancelTasks(p)
  PROVE  ExpiryInv'
<1> DEFINE cut == {b \in Backends : session[b] = p /\ place[b] # "idle"}
<1>1. /\ place' = [b \in Backends |-> IF b \in cut THEN "idle" ELSE place[b]]
      /\ attempt' = [b \in Backends |-> IF b \in cut THEN 0 ELSE attempt[b]]
      /\ sent' = [b \in Backends |-> b \notin cut /\ sent[b]]
      /\ trouble' = trouble \ cut
      /\ UNCHANGED <<portal, held, refused>>
  BY DEF CancelTasks, external
<1>2. ASSUME NEW b \in Backends PROVE OnceExpired(b)'
  <2>1. OnceExpired(b)
    BY DEF ExpiryInv
  <2>2. CASE b \in cut
    BY <1>1, <2>1, <2>2 DEF OnceExpired, Holds
  <2>3. CASE b \notin cut
    <3>1. /\ place'[b] = place[b] /\ attempt'[b] = attempt[b]
          /\ (sent'[b] <=> sent[b]) /\ (b \in trouble' <=> b \in trouble)
      BY <1>1, <2>3
    <3>2. QED
      BY <1>1, <2>1, <3>1 DEF OnceExpired, Holds, Waits
  <2>4. QED
    BY <2>2, <2>3
<1>3. QED
  BY <1>2 DEF ExpiryInv

LEMMA InitExpiry == SignInInit => ExpiryInv
<1> SUFFICES ASSUME SignInInit, NEW b \in Backends PROVE OnceExpired(b)
  BY DEF ExpiryInv
<1>1. place[b] = "idle" /\ attempt[b] = 0 /\ b \notin refused
  BY DEF SignInInit
<1>2. QED
  BY <1>1 DEF OnceExpired, Holds

LEMMA NextExpiry ==
  ASSUME MaxAttempts > 1
  PROVE  SignInTyped /\ ExpiryInv /\ [SignInNext]_signInVars => ExpiryInv'
<1> SUFFICES ASSUME SignInTyped, ExpiryInv, [SignInNext]_signInVars PROVE ExpiryInv'
  OBVIOUS
<1>1. ASSUME NEW b \in Backends, NEW first \in 0..1, Call(b, first) PROVE ExpiryInv'
  BY <1>1, CallExpires
<1>2. ASSUME NEW b \in Backends, Works(b) \/ Human(b) PROVE ExpiryInv'
  BY <1>2, GetTokenExpires, ApiExpires, ThreadExpires DEF Works
<1>3. ASSUME NEW p \in Sessions, CancelTasks(p) PROVE ExpiryInv'
  BY <1>3, InterruptExpires
<1>4. CASE (\E r \in orphans : OrphanEnds(r)) \/ TimePasses \/ UNCHANGED signInVars
  BY <1>4, ExpiryStays DEF OrphanEnds, TimePasses, signInVars, external, request
<1>5. QED
  BY <1>1, <1>2, <1>3, <1>4 DEF SignInNext

\* With more than one attempt, as complete has, a token that expired ends no
\* call with an authentication error unless its requests failed otherwise.
THEOREM ExpiredTokensEndNoCall ==
  ASSUME MaxAttempts > 1
  PROVE  SignInSpec => []ExpiryAloneEndsNoCall
<1>1. SignInTyped /\ ExpiryInv => ExpiryAloneEndsNoCall
  BY DEF ExpiryInv, OnceExpired, ExpiryAloneEndsNoCall, SignInTyped, CallsTyped
<1>2. QED
  BY <1>1, InitSignInTyped, NextSignInTyped, InitExpiry, NextExpiry, PTL DEF SignInSpec
=============================================================================
