------------------------ MODULE ConsensusGateProofs ------------------------
(* Proofs about one consensus gate, for every set of agents, every gate    *)
(* configuration and every bound.                                          *)
EXTENDS ConsensusGate, GateRulesProofs, SequenceTheorems

(***************************************************************************)
(* Type correctness.                                                       *)
(***************************************************************************)

LEMMA ConfigTyped == Config \in GateConfig
  BY GateConstants DEF Config, GateConfig

LEMMA HandleTyped ==
  ASSUME TypeOK, NEW m \in Message, Handle(m)
  PROVE  /\ gate' \in Gate
         /\ current' \in Draft
         /\ tally' \in [Agents -> [counted : Draft, read : Draft]]
<1>1. gate' \in Gate
  BY ConfigTyped, OnMessageTyped DEF Handle, TypeOK, Message
<1>2. current' \in Draft
  BY GateConstants DEF Handle, DraftAfter, TypeOK, Draft, Message
<1>3. tally' \in [Agents -> [counted : Draft, read : Draft]]
  BY <1>2, GateConstants DEF Handle, TallyAfter, NoVote, TypeOK, Draft, Message
<1>4. QED
  BY <1>1, <1>2, <1>3

LEMMA SendTyped ==
  ASSUME TypeOK, NEW m \in Message, Send(m)
  PROVE  /\ gate' \in Gate
         /\ current' \in Draft
         /\ tally' \in [Agents -> [counted : Draft, read : Draft]]
         /\ inflight' \in Seq(Message)
<1>1. CASE ~Persist /\ Handle(m) /\ UNCHANGED inflight
  BY <1>1, HandleTyped DEF TypeOK
<1>2. CASE Persist /\ inflight' = Append(inflight, m)
                   /\ UNCHANGED <<gate, current, tally>>
  BY <1>2 DEF TypeOK
<1>3. QED
  BY <1>1, <1>2 DEF Send

LEMMA InitTyped == Init => TypeOK
<1> SUFFICES ASSUME Init PROVE TypeOK
  OBVIOUS
<1>1. gate \in Gate
  <2>1. NewGate \in Gate
    BY DEF NewGate, Gate
  <2>2. BindToThread(NewGate, Agents) \in Gate
    BY <2>1 DEF BindToThread, Gate
  <2>3. QED
    BY <2>1, <2>2 DEF Init
<1>2. inflight \in Seq(Message)
  BY DEF Init
<1>3. QED
  BY <1>1, <1>2, GateConstants DEF Init, TypeOK, Draft, NoVote

LEMMA NextTyped == TypeOK /\ [Next]_vars => TypeOK'
<1> SUFFICES ASSUME TypeOK, [Next]_vars PROVE TypeOK'
  OBVIOUS
<1> USE GateConstants
<1>1. ASSUME NEW a \in Agents, StepStart(a) PROVE TypeOK'
  BY <1>1 DEF StepStart, FreshView, TypeOK, Gate
<1>2. ASSUME NEW a \in Agents, PostDraft(a) PROVE TypeOK'
  <2> DEFINE m == [author |-> a, signal |-> "entry", draft |-> drafts + 1]
  <2>1. drafts' \in Draft
    BY <1>2 DEF PostDraft, TypeOK, Draft
  <2>2. m \in Message
    BY <1>2, <2>1 DEF PostDraft, Message, Authors, Signals
  <2>3. QED
    BY <1>2, <2>1, <2>2, SendTyped DEF PostDraft, TypeOK
<1>3. ASSUME NEW a \in Agents, PostApprove(a) PROVE TypeOK'
  <2> DEFINE m == [author |-> a, signal |-> "approve", draft |-> view[a].saw]
  <2>1. m \in Message
    BY DEF TypeOK, Message, Authors, Signals
  <2>2. QED
    BY <1>3, <2>1, SendTyped DEF PostApprove, TypeOK
<1>4. ASSUME NEW a \in Agents, PostReject(a) PROVE TypeOK'
  <2> DEFINE m == [author |-> a, signal |-> "reject", draft |-> view[a].saw]
  <2>1. m \in Message
    BY DEF TypeOK, Message, Authors, Signals
  <2>2. QED
    BY <1>4, <2>1, SendTyped DEF PostReject, TypeOK
<1>5. ASSUME NEW s \in {"entry", "approve", "reject"}, HumanPost(s)
      PROVE TypeOK'
  <2> DEFINE m == [author |-> Human, signal |-> s, draft |-> drafts']
  <2>1. drafts' \in Draft /\ rejects' \in 0..MaxRejects
    BY <1>5 DEF HumanPost, TypeOK, Draft
  <2>2. m \in Message
    BY <2>1 DEF Message, Authors, Signals
  <2>3. QED
    BY <1>5, <2>1, <2>2, SendTyped DEF HumanPost, TypeOK
<1>6. CASE Publish
  <2>1. Head(inflight) \in Message /\ Tail(inflight) \in Seq(Message)
    BY <1>6 DEF Publish, TypeOK
  <2>2. QED
    BY <1>6, <2>1, HandleTyped DEF Publish, TypeOK
<1>7. ASSUME NEW ps \in SUBSET Agents, SetRoster(ps) PROVE TypeOK'
  <2>1. gate' \in Gate
    BY <1>7, ConfigTyped, SetParticipantsTyped DEF SetRoster, TypeOK
  <2>2. QED
    BY <1>7, <2>1 DEF SetRoster, TypeOK, Draft, NoVote
<1>8. ASSUME NEW ps \in SUBSET Agents, BeginRound(ps) PROVE TypeOK'
  <2>1. gate' \in Gate
    BY <1>8, ConfigTyped, ResetTyped, SetParticipantsTyped
    DEF BeginRound, TypeOK
  <2>2. QED
    BY <1>8, <2>1 DEF BeginRound, TypeOK, Draft, NoVote
<1>9. CASE UNCHANGED vars
  BY <1>9 DEF vars, TypeOK
<1>10. QED
  BY <1>1, <1>2, <1>3, <1>4, <1>5, <1>6, <1>7, <1>8, <1>9 DEF Next

\* The gate's state keeps its types: only agents are ever counted, and the
\* drafts, copies and messages in flight stay within their bounds.
THEOREM TypeCorrect == Spec => []TypeOK
<1>1. QED
  BY InitTyped, NextTyped, PTL DEF Spec

(***************************************************************************)
(* The gate between two handlers, and what a step that opens it leaves.    *)
(* GateInv strengthens NeverStuckUnanimous: the quorum that a message or a *)
(* roster change completes is seen complete only because no earlier step   *)
(* left it complete and closed, and the human stage is unanimous because   *)
(* no vote is counted or lost while the human is asked.                    *)
(***************************************************************************)

GateSafe == GateInv(Config, gate)

\* The step formula of OpensOnUnanimity.
OpeningStep ==
    ~gate.open /\ gate'.open =>
        /\ Unanimous(gate')
        /\ RequireProposal => gate'.proposal
        /\ AwaitHuman => gate.pending /\ Unanimous(gate)

LEMMA HandleKeeps ==
  ASSUME TypeOK, GateSafe, NEW m \in Message, Handle(m)
  PROVE  GateSafe' /\ OpeningStep
<1>1. /\ m.author \in Authors /\ m.signal \in Signals
      /\ thread \in SUBSET Agents /\ gate' = OnMessage(Config, gate, m, thread)
  BY DEF Message, TypeOK, Handle
<1>2. /\ GateInv(Config, gate')
      /\ ~gate.open /\ gate'.open =>
            /\ OpenedRightly(Config, gate')
            /\ Config.awaitHuman => gate.pending
  BY <1>1, ConfigTyped, OnMessageKeeps DEF GateSafe
<1>3. gate.pending => Unanimous(gate)
  BY DEF GateSafe, GateInv, Settled
<1>4. QED
  BY <1>2, <1>3 DEF GateSafe, OpeningStep, OpenedRightly, Config

LEMMA SendKeeps ==
  ASSUME TypeOK, GateSafe, NEW m \in Message, Send(m)
  PROVE  GateSafe' /\ OpeningStep
<1>1. CASE Handle(m)
  BY <1>1, HandleKeeps
<1>2. CASE UNCHANGED <<gate, current, tally>>
  BY <1>2 DEF GateSafe, OpeningStep
<1>3. QED
  BY <1>1, <1>2 DEF Send

LEMMA InitSafe == Init => GateSafe
  BY ConfigTyped, NewGateKeeps DEF Init, GateSafe

\* Every message a handler is given is well formed.
LEMMA SentIsMessage ==
  ASSUME TypeOK
  PROVE  /\ \A a \in Agents : PostDraft(a) =>
               [author |-> a, signal |-> "entry", draft |-> drafts + 1] \in Message
         /\ \A a \in Agents, s \in Signals :
               [author |-> a, signal |-> s, draft |-> view[a].saw] \in Message
         /\ \A s \in {"entry", "approve", "reject"} : HumanPost(s) =>
               [author |-> Human, signal |-> s, draft |-> drafts'] \in Message
         /\ inflight # <<>> => Head(inflight) \in Message
<1>1. ASSUME NEW a \in Agents, PostDraft(a)
      PROVE  [author |-> a, signal |-> "entry", draft |-> drafts + 1] \in Message
  <2>1. drafts + 1 \in Draft
    BY <1>1, GateConstants DEF PostDraft, TypeOK, Draft
  <2>2. QED
    BY <2>1 DEF Message, Authors, Signals
<1>2. ASSUME NEW a \in Agents, NEW s \in Signals
      PROVE  [author |-> a, signal |-> s, draft |-> view[a].saw] \in Message
  BY DEF TypeOK, Message, Authors
<1>3. ASSUME NEW s \in {"entry", "approve", "reject"}, HumanPost(s)
      PROVE  [author |-> Human, signal |-> s, draft |-> drafts'] \in Message
  <2>1. drafts' \in Draft
    BY <1>3, GateConstants DEF HumanPost, TypeOK, Draft
  <2>2. QED
    BY <2>1 DEF Message, Authors, Signals
<1>4. inflight # <<>> => Head(inflight) \in Message
  BY DEF TypeOK
<1>5. QED
  BY <1>1, <1>2, <1>3, <1>4

LEMMA NextSafe == TypeOK /\ GateSafe /\ [Next]_vars => GateSafe' /\ OpeningStep
<1> SUFFICES ASSUME TypeOK, GateSafe, [Next]_vars
             PROVE  GateSafe' /\ OpeningStep
  OBVIOUS
<1>1. ASSUME NEW a \in Agents, StepStart(a) PROVE GateSafe' /\ OpeningStep
  BY <1>1 DEF StepStart, GateSafe, OpeningStep
<1>2. ASSUME NEW a \in Agents, PostDraft(a) PROVE GateSafe' /\ OpeningStep
  BY <1>2, SentIsMessage, SendKeeps DEF PostDraft
<1>3. ASSUME NEW a \in Agents, PostApprove(a) PROVE GateSafe' /\ OpeningStep
  BY <1>3, SentIsMessage, SendKeeps DEF PostApprove, Signals
<1>4. ASSUME NEW a \in Agents, PostReject(a) PROVE GateSafe' /\ OpeningStep
  BY <1>4, SentIsMessage, SendKeeps DEF PostReject, Signals
<1>5. ASSUME NEW s \in {"entry", "approve", "reject"}, HumanPost(s)
      PROVE  GateSafe' /\ OpeningStep
  BY <1>5, SentIsMessage, SendKeeps DEF HumanPost
<1>6. CASE Publish
  BY <1>6, SentIsMessage, HandleKeeps DEF Publish
<1>7. ASSUME NEW ps \in SUBSET Agents, SetRoster(ps)
      PROVE  GateSafe' /\ OpeningStep
  BY <1>7, ConfigTyped, SetParticipantsKeeps
  DEF SetRoster, GateSafe, OpeningStep, OpenedRightly, Config
<1>8. ASSUME NEW ps \in SUBSET Agents, BeginRound(ps)
      PROVE  GateSafe' /\ OpeningStep
  <2>1. gate \in Gate /\ gate.bound
    BY <1>8 DEF BeginRound, GateSafe, GateInv, UnboundIsBlank, Gate
  <2>2. GateInv(Config, ResetForRound(gate)) /\ ~ResetForRound(gate).pending
    BY <2>1, ConfigTyped, ResetKeeps
  <2>3. GateSafe'
    BY <1>8, <2>2, ConfigTyped, SetParticipantsKeeps DEF BeginRound, GateSafe
  <2>4. OpeningStep
    BY <1>8 DEF BeginRound, OpeningStep
  <2>5. QED
    BY <2>3, <2>4
<1>9. CASE UNCHANGED vars
  BY <1>9 DEF vars, GateSafe, OpeningStep
<1>10. QED
  BY <1>1, <1>2, <1>3, <1>4, <1>5, <1>6, <1>7, <1>8, <1>9 DEF Next

\* Nobody is left waiting for a vote already given: a gate all of whose
\* participants are counted is open or waits for the human, who is asked only
\* about what the whole quorum approved.
THEOREM NeverStuck == Spec => []NeverStuckUnanimous
<1>1. Init => TypeOK /\ GateSafe
  BY InitTyped, InitSafe
<1>2. TypeOK /\ GateSafe /\ [Next]_vars => TypeOK' /\ GateSafe'
  BY NextTyped, NextSafe
<1>3. GateSafe => NeverStuckUnanimous
  BY DEF GateSafe, GateInv, NeverStuckUnanimous
<1>4. QED
  BY <1>1, <1>2, <1>3, PTL DEF Spec

\* A gate opens only in a step that completes its quorum or by the human's
\* approval of a complete one, whatever the agents send and in whatever order
\* the messages come out of the database's hands.
THEOREM UnanimousOpening == Spec => OpensOnUnanimity
<1>1. Init => TypeOK /\ GateSafe
  BY InitTyped, InitSafe
<1>2. TypeOK /\ GateSafe /\ [Next]_vars => TypeOK' /\ GateSafe' /\ OpeningStep
  BY NextTyped, NextSafe
<1>3. [Next]_vars /\ OpeningStep =>
        [~gate.open /\ gate'.open =>
            /\ Unanimous(gate')
            /\ RequireProposal => gate'.proposal
            /\ AwaitHuman => gate.pending /\ Unanimous(gate)]_vars
  BY DEF OpeningStep
<1>4. QED
  BY <1>1, <1>2, <1>3, PTL DEF Spec, OpensOnUnanimity

(***************************************************************************)
(* Votes belong to the draft the gate is voting on.  The invariant is not  *)
(* inductive by itself: that an APPROVE: counts for a draft at all needs   *)
(* the gate's proposal to stand for a numbered draft, and that a new draft *)
(* is not mistaken for none needs the drafts in flight to be numbered.     *)
(***************************************************************************)

Numbered ==
    /\ RequireProposal /\ gate.proposal => current # 0
    /\ \A i \in DOMAIN inflight :
          inflight[i].signal = "entry" => inflight[i].draft # 0

VotesInv == VotesAreForTheCurrentDraft /\ Numbered

LEMMA HandleCounts ==
  ASSUME TypeOK, GateSafe, VotesInv, NEW m \in Message,
         m.signal = "entry" => m.draft # 0, Handle(m)
  PROVE  /\ VotesAreForTheCurrentDraft'
         /\ RequireProposal /\ gate'.proposal => current' # 0
<1> SUFFICES ASSUME RequireProposal
             PROVE  /\ \A a \in gate'.approvals :
                          current' # 0 /\ tally'[a].counted = current'
                    /\ gate'.proposal => current' # 0
  BY DEF VotesAreForTheCurrentDraft
<1>1. /\ m.author \in Authors /\ m.signal \in Signals /\ m.draft \in Draft
      /\ thread \in SUBSET Agents /\ gate' = OnMessage(Config, gate, m, thread)
  BY DEF Message, TypeOK, Handle
<1>2. /\ gate'.approvals \subseteq gate.approvals \cup {m.author}
      /\ Takes(Config, gate, m, gate') => gate'.approvals \subseteq {m.author}
      /\ gate'.proposal /\ ~gate.proposal => Takes(Config, gate, m, gate')
  <2>1. Config.requireProposal
    BY DEF Config
  <2>2. QED
    BY <1>1, <2>1, ConfigTyped, VotesAfterMessage DEF GateSafe
<1>3. gate'.approvals # {} => gate'.proposal
  BY HandleKeeps DEF GateSafe, GateInv, DraftedBeforeVoted, Config
<1>4. gate'.approvals \subseteq Agents
  BY HandleTyped DEF Gate
<1>5. current' = IF ~gate'.proposal THEN 0
                 ELSE IF Takes(Config, gate, m, gate') THEN m.draft ELSE current
  BY DEF Handle, DraftAfter, Takes, Config
<1>6. \A a \in gate'.approvals :
        tally'[a] = IF a = m.author /\ (a \notin gate.approvals \/ current' # current)
                    THEN [counted |-> current', read |-> m.draft]
                    ELSE tally[a]
  BY <1>4 DEF Handle, TallyAfter
<1>7. CASE ~gate'.proposal
  BY <1>3, <1>7
<1>8. CASE gate'.proposal /\ Takes(Config, gate, m, gate')
  <2>1. current' = m.draft /\ m.draft # 0
    BY <1>5, <1>8 DEF Takes
  <2>2. ASSUME NEW a \in gate'.approvals PROVE tally'[a].counted = current'
    BY <1>2, <1>6, <1>8, <2>2 DEF VotesInv, VotesAreForTheCurrentDraft
  <2>3. QED
    BY <2>1, <2>2
<1>9. CASE gate'.proposal /\ ~Takes(Config, gate, m, gate')
  <2>1. current' = current /\ current # 0
    BY <1>2, <1>5, <1>9 DEF VotesInv, Numbered
  <2>2. ASSUME NEW a \in gate'.approvals PROVE tally'[a].counted = current'
    BY <1>2, <1>6, <2>1, <2>2 DEF VotesInv, VotesAreForTheCurrentDraft
  <2>3. QED
    BY <2>1, <2>2
<1>10. QED
  BY <1>7, <1>8, <1>9

LEMMA SendCounts ==
  ASSUME TypeOK, GateSafe, VotesInv, NEW m \in Message,
         m.signal = "entry" => m.draft # 0, Send(m)
  PROVE  VotesInv'
<1>1. CASE ~Persist /\ Handle(m) /\ UNCHANGED inflight
  BY <1>1, HandleCounts DEF VotesInv, Numbered
<1>2. CASE Persist /\ inflight' = Append(inflight, m)
                   /\ UNCHANGED <<gate, current, tally>>
  <2>1. \A i \in DOMAIN inflight' :
          inflight'[i].signal = "entry" => inflight'[i].draft # 0
    BY <1>2 DEF VotesInv, Numbered, TypeOK
  <2>2. QED
    BY <1>2, <2>1 DEF VotesInv, VotesAreForTheCurrentDraft, Numbered
<1>3. QED
  BY <1>1, <1>2 DEF Send

LEMMA InitCounts == Init => VotesInv
<1> SUFFICES ASSUME Init PROVE VotesInv
  OBVIOUS
<1>1. gate.approvals = {} /\ ~gate.proposal
  <2>1. NewGate.approvals = {} /\ ~NewGate.proposal
    BY DEF NewGate
  <2>2. /\ BindToThread(NewGate, Agents).approvals = {}
        /\ ~BindToThread(NewGate, Agents).proposal
    BY DEF NewGate, BindToThread
  <2>3. QED
    BY <2>1, <2>2 DEF Init
<1>2. QED
  BY <1>1 DEF Init, VotesInv, VotesAreForTheCurrentDraft, Numbered

LEMMA NextCounts ==
  TypeOK /\ GateSafe /\ VotesInv /\ [Next]_vars => VotesInv'
<1> SUFFICES ASSUME TypeOK, GateSafe, VotesInv, [Next]_vars PROVE VotesInv'
  OBVIOUS
<1>1. ASSUME NEW a \in Agents, StepStart(a) PROVE VotesInv'
  BY <1>1 DEF StepStart, VotesInv, VotesAreForTheCurrentDraft, Numbered
<1>2. ASSUME NEW a \in Agents, PostDraft(a) PROVE VotesInv'
  <2>1. drafts + 1 # 0
    BY <1>2 DEF TypeOK, Draft
  <2>2. QED
    BY <1>2, <2>1, SentIsMessage, SendCounts DEF PostDraft
<1>3. ASSUME NEW a \in Agents, PostApprove(a) PROVE VotesInv'
  BY <1>3, SentIsMessage, SendCounts DEF PostApprove, Signals
<1>4. ASSUME NEW a \in Agents, PostReject(a) PROVE VotesInv'
  BY <1>4, SentIsMessage, SendCounts DEF PostReject, Signals
<1>5. ASSUME NEW s \in {"entry", "approve", "reject"}, HumanPost(s)
      PROVE  VotesInv'
  <2>1. s = "entry" => drafts' # 0
    BY <1>5 DEF HumanPost, TypeOK, Draft
  <2>2. QED
    BY <1>5, <2>1, SentIsMessage, SendCounts DEF HumanPost
<1>6. CASE Publish
  <2>1. /\ Head(inflight) \in Message
        /\ Head(inflight).signal = "entry" => Head(inflight).draft # 0
    BY <1>6, SentIsMessage DEF Publish, VotesInv, Numbered, TypeOK
  <2>2. \A i \in DOMAIN Tail(inflight) :
          Tail(inflight)[i].signal = "entry" => Tail(inflight)[i].draft # 0
    BY <1>6 DEF Publish, VotesInv, Numbered, TypeOK
  <2>3. QED
    BY <1>6, <2>1, <2>2, HandleCounts DEF Publish, VotesInv, Numbered
<1>7. ASSUME NEW ps \in SUBSET Agents, SetRoster(ps) PROVE VotesInv'
  <2> DEFINE h == [gate EXCEPT !.participants = ps, !.approvals = @ \cap ps]
  <2>1. /\ h \in Gate /\ h.approvals \subseteq gate.approvals
        /\ h.proposal = gate.proposal
    BY <1>7 DEF TypeOK, Gate
  <2>2. gate' = h \/ gate' = MaybeOpen(Config, h)
    BY <1>7 DEF SetRoster, SetParticipants
  <2> HIDE DEF h
  <2>3. gate'.approvals \subseteq gate.approvals /\ gate'.proposal = gate.proposal
    BY <2>1, <2>2, MaybeOpenFrame
  <2>4. \A a \in gate'.approvals : tally'[a] = tally[a]
    BY <1>7, <2>3 DEF SetRoster, TypeOK, Gate
  <2>5. QED
    BY <1>7, <2>3, <2>4
    DEF SetRoster, VotesInv, VotesAreForTheCurrentDraft, Numbered
<1>8. ASSUME NEW ps \in SUBSET Agents, BeginRound(ps) PROVE VotesInv'
  <2> DEFINE r == ResetForRound(gate)
             h == [r EXCEPT !.participants = ps, !.approvals = @ \cap ps]
  <2>1. r \in Gate /\ r.approvals = {} /\ ~r.proposal
    BY <1>8, ResetTyped DEF TypeOK, ResetForRound, ResetForRedo, Gate
  <2>2. h \in Gate /\ h.approvals = {} /\ ~h.proposal
    BY <1>8, <2>1 DEF Gate
  <2>3. gate' = h \/ gate' = MaybeOpen(Config, h)
    BY <1>8 DEF BeginRound, SetParticipants
  <2> HIDE DEF h
  <2>4. gate'.approvals = {} /\ ~gate'.proposal
    BY <2>2, <2>3, MaybeOpenFrame
  <2>5. QED
    BY <1>8, <2>4
    DEF BeginRound, VotesInv, VotesAreForTheCurrentDraft, Numbered
<1>9. CASE UNCHANGED vars
  BY <1>9 DEF vars, VotesInv, VotesAreForTheCurrentDraft, Numbered
<1>10. QED
  BY <1>1, <1>2, <1>3, <1>4, <1>5, <1>6, <1>7, <1>8, <1>9 DEF Next

\* Whatever is in flight and whoever redrafts, rejects or leaves the roster,
\* the gate never holds a vote counted before its current draft arrived.
THEOREM VotesBelongToTheDraft == Spec => []VotesAreForTheCurrentDraft
<1>1. Init => TypeOK /\ GateSafe /\ VotesInv
  BY InitTyped, InitSafe, InitCounts
<1>2. TypeOK /\ GateSafe /\ VotesInv /\ [Next]_vars =>
        TypeOK' /\ GateSafe' /\ VotesInv'
  BY NextTyped, NextSafe, NextCounts
<1>3. VotesInv => VotesAreForTheCurrentDraft
  BY DEF VotesInv
<1>4. QED
  BY <1>1, <1>2, <1>3, PTL DEF Spec

(***************************************************************************)
(* The gate implements the abstract vote.  What a message may do to the    *)
(* votes of a gate that has a quorum is: nothing but decide, drop them all *)
(* or take the vote of its author; a message that also binds the gate      *)
(* convenes it.  Besides the rules this needs OpeningStep, that whatever   *)
(* decides leaves the quorum counted.                                      *)
(***************************************************************************)

LEMMA MaybeOpenDecides ==
  ASSUME NEW c, NEW g \in Gate, ~g.open
  PROVE  MaybeOpen(c, g).open => Unanimous(g)
  BY DEF MaybeOpen, Gate

\* The three things a message may do to votes g, as far as h shows them.
OnlyDecides(g, h) == h.approvals = g.approvals /\ (h.open => Unanimous(g))
DropsAll(h) == h.approvals = {} /\ ~h.open
TakesVote(g, h, v) ==
    v \in g.participants /\ h.approvals \in {g.approvals \cup {v}, {v}}

LEMMA DraftVotes ==
  ASSUME NEW c \in GateConfig, NEW g \in Gate, ~g.open,
         NEW m, m.author \in Authors, NEW h, h = OnDraft(c, g, m)
  PROVE  /\ h.participants = g.participants
         /\ OnlyDecides(g, h) \/ DropsAll(h) \/ TakesVote(g, h, m.author)
<1> DEFINE kept == IF g.author = Nobody THEN g.approvals ELSE {}
           k == [g EXCEPT !.author = m.author,
                          !.approvals = kept \cup ({m.author} \cap g.participants),
                          !.proposal = TRUE]
<1>1. CASE g.author \notin {Nobody, m.author}
  BY <1>1 DEF OnDraft, OnlyDecides
<1>2. CASE g.author \in {Nobody, m.author}
  <2>1. h = MaybeOpen(c, k)
    BY <1>2 DEF OnDraft
  <2>2. /\ k \in Gate /\ ~k.open /\ k.participants = g.participants
        /\ k.approvals = kept \cup ({m.author} \cap g.participants)
    BY DEF Gate
  <2> HIDE DEF k
  <2>3. /\ h.participants = g.participants /\ h.approvals = k.approvals
        /\ h.open => Unanimous(k)
    BY <2>1, <2>2, MaybeOpenFrame, MaybeOpenDecides
  <2>4. CASE m.author \in g.participants
    BY <2>2, <2>3, <2>4 DEF TakesVote
  <2>5. CASE m.author \notin g.participants
    <3>1. h.approvals = kept
      BY <2>2, <2>3, <2>5
    <3>2. h.open => Unanimous(g) /\ kept # {}
      BY <2>2, <2>3, <2>5 DEF Unanimous
    <3>3. QED
      BY <2>3, <3>1, <3>2 DEF OnlyDecides, DropsAll
  <2>6. QED
    BY <2>4, <2>5
<1>3. QED
  BY <1>1, <1>2

LEMMA ApproveVotes ==
  ASSUME NEW c \in GateConfig, NEW g \in Gate, ~g.open,
         NEW m, m.author \in Authors, NEW h, h = OnApprove(c, g, m)
  PROVE  /\ h.participants = g.participants
         /\ OnlyDecides(g, h) \/ TakesVote(g, h, m.author)
<1> DEFINE p == [g EXCEPT !.proposal = TRUE]
           k == [p EXCEPT !.approvals = @ \cup {m.author}]
<1>1. h = g \/ h = p \/ (m.author \in g.participants /\ h = MaybeOpen(c, k))
  BY DEF OnApprove
<1>2. CASE h = g \/ h = p
  BY <1>2 DEF OnlyDecides, Gate
<1>3. CASE m.author \in g.participants /\ h = MaybeOpen(c, k)
  <2>1. /\ k \in Gate /\ k.participants = g.participants
        /\ k.approvals = g.approvals \cup {m.author}
    BY <1>3 DEF Gate
  <2> HIDE DEF k
  <2>2. QED
    BY <1>3, <2>1, MaybeOpenFrame DEF TakesVote
<1>4. QED
  BY <1>1, <1>2, <1>3

LEMMA SignalVotes ==
  ASSUME NEW c \in GateConfig, NEW g \in Gate, ~g.open,
         g.pending => Unanimous(g),
         NEW m, m.author \in Authors, m.signal \in Signals,
         NEW h, h = CountSignal(c, g, m)
  PROVE  /\ h.participants = g.participants
         /\ OnlyDecides(g, h) \/ DropsAll(h) \/ TakesVote(g, h, m.author)
<1>1. /\ ResetForRedo(g).participants = g.participants
      /\ DropsAll(ResetForRedo(g))
  BY DEF ResetForRedo, DropsAll, Gate
<1>2. OnlyDecides(g, g)
  BY DEF OnlyDecides
<1>3. CASE c.awaitHuman /\ g.pending
  <2>1. h \in {g, ResetForRedo(g), OpenGate(g)}
    BY <1>3 DEF CountSignal, OnHumanStage, Signals
  <2>2. OpenGate(g).participants = g.participants /\ OnlyDecides(g, OpenGate(g))
    BY <1>3 DEF OpenGate, OnlyDecides, Gate
  <2>3. QED
    BY <1>1, <1>2, <2>1, <2>2
<1>4. CASE ~(c.awaitHuman /\ g.pending)
  <2>1. h \in {OnDraft(c, g, m), ResetForRedo(g), OnApprove(c, g, m), g}
    BY <1>4 DEF CountSignal, Signals
  <2>2. QED
    BY <1>1, <1>2, <2>1, DraftVotes, ApproveVotes
<1>5. QED
  BY <1>3, <1>4

\* A step of the abstract vote, or one it does not see.
VoteStep == [AbstractVote!Next]_(AbstractVote!voteVars)

LEMMA Unseen ==
  ASSUME UNCHANGED gate
  PROVE  VoteStep
  BY DEF VoteStep, AbstractVote!voteVars

LEMMA HandleVotes ==
  ASSUME TypeOK, GateSafe, NEW m \in Message, Handle(m)
  PROVE  VoteStep
<1> DEFINE b == IF gate.bound THEN gate ELSE BindByName(Config, gate, m, thread)
<1>1. /\ m.author \in Authors /\ m.signal \in Signals
      /\ thread \in SUBSET Agents /\ gate' = OnMessage(Config, gate, m, thread)
  BY DEF Message, TypeOK, Handle
<1>2. /\ gate \in Gate /\ gate' \in Gate
      /\ ~gate.open /\ gate'.open => Unanimous(gate')
  BY HandleKeeps DEF GateSafe, GateInv, OpeningStep
<1>3. CASE gate.open \/ ~b.bound
  BY <1>1, <1>3, Unseen DEF OnMessage
<1>4. CASE ~gate.open /\ b.bound /\ gate.bound
  <2>1. gate.pending => Unanimous(gate)
    BY DEF GateSafe, GateInv, Settled
  <2>2. gate' = CountSignal(Config, gate, m)
    BY <1>1, <1>4 DEF OnMessage
  <2>3. /\ gate'.participants = gate.participants
        /\ \/ OnlyDecides(gate, gate') \/ DropsAll(gate')
           \/ TakesVote(gate, gate', m.author)
    BY <1>1, <1>2, <1>4, <2>1, <2>2, ConfigTyped, SignalVotes
  <2>4. CASE OnlyDecides(gate, gate')
    <3>1. CASE gate'.open
      BY <1>2, <1>4, <2>3, <2>4, <3>1
      DEF OnlyDecides, Unanimous, VoteStep, AbstractVote!Next,
          AbstractVote!Decide, AbstractVote!AllAgree, Gate
    <3>2. CASE ~gate'.open
      BY <1>2, <1>4, <2>3, <2>4, <3>2
      DEF OnlyDecides, VoteStep, AbstractVote!voteVars, Gate
    <3>3. QED
      BY <3>1, <3>2
  <2>5. CASE DropsAll(gate')
    BY <1>2, <1>4, <2>3, <2>5
    DEF DropsAll, VoteStep, AbstractVote!Next, AbstractVote!Withdraw, Gate
  <2>6. CASE TakesVote(gate, gate', m.author)
    <3>1. m.author \in Agents
      BY <1>2, <2>6 DEF TakesVote, Gate
    <3>2. AbstractVote!Vote(m.author)
      BY <1>2, <1>4, <2>3, <2>6
      DEF TakesVote, Unanimous, AbstractVote!Vote, AbstractVote!MayDecide
    <3>3. QED
      BY <3>1, <3>2 DEF VoteStep, AbstractVote!Next
  <2>7. QED
    BY <2>3, <2>4, <2>5, <2>6
<1>5. CASE ~gate.open /\ b.bound /\ ~gate.bound
  <2>1. gate.approvals = {} /\ ~gate.pending
    BY <1>5 DEF GateSafe, GateInv, UnboundIsBlank
  <2>2. /\ b \in Gate /\ b.participants = thread /\ b.approvals = {}
        /\ ~b.open /\ ~b.pending
    BY <1>1, <1>2, <1>5, <2>1 DEF BindByName, BindToThread, Gate
  <2>3. gate' = CountSignal(Config, b, m)
    BY <1>1, <1>5 DEF OnMessage
  <2> HIDE DEF b
  <2>4. /\ gate'.participants = thread
        /\ OnlyDecides(b, gate') \/ DropsAll(gate') \/ TakesVote(b, gate', m.author)
    BY <1>1, <2>2, <2>3, ConfigTyped, SignalVotes
  <2>5. \/ gate'.approvals \subseteq gate.approvals
        \/ \E v \in gate'.participants : gate'.approvals \subseteq gate.approvals \cup {v}
    BY <2>1, <2>2, <2>4 DEF OnlyDecides, DropsAll, TakesVote
  <2>6. AbstractVote!Convene
    BY <1>1, <1>2, <1>5, <2>4, <2>5
    DEF Unanimous, AbstractVote!Convene, AbstractVote!MayDecide
  <2>7. QED
    BY <2>6 DEF VoteStep, AbstractVote!Next
<1>6. QED
  BY <1>3, <1>4, <1>5

LEMMA SendVotes ==
  ASSUME TypeOK, GateSafe, NEW m \in Message, Send(m)
  PROVE  VoteStep
  BY HandleVotes, Unseen DEF Send

LEMMA SetParticipantsVotes ==
  ASSUME NEW c \in GateConfig, NEW g \in Gate, NEW ps \in SUBSET Agents,
         NEW h, h = SetParticipants(c, g, ps)
  PROVE  /\ h.participants = ps
         /\ h.approvals = g.approvals \cap ps
         /\ IF g.open THEN h.open ELSE h.open => Unanimous(h)
<1> DEFINE k == [g EXCEPT !.participants = ps, !.approvals = @ \cap ps]
<1>1. /\ k \in Gate /\ k.participants = ps /\ k.approvals = g.approvals \cap ps
      /\ k.open = g.open
  BY DEF Gate
<1>2. h = IF g.open THEN k ELSE MaybeOpen(c, k)
  BY DEF SetParticipants
<1> HIDE DEF k
<1>3. CASE g.open
  BY <1>1, <1>2, <1>3
<1>4. CASE ~g.open
  BY <1>1, <1>2, <1>4, MaybeOpenFrame, MaybeOpenDecides DEF Unanimous
<1>5. QED
  BY <1>3, <1>4

LEMMA InitVotes == Init => AbstractVote!Init
<1>1. /\ NewGate.participants = {} /\ NewGate.approvals = {} /\ ~NewGate.open
      /\ BindToThread(NewGate, Agents).participants = Agents
      /\ BindToThread(NewGate, Agents).approvals = {}
      /\ ~BindToThread(NewGate, Agents).open
  BY DEF NewGate, BindToThread
<1>2. QED
  BY <1>1 DEF Init, AbstractVote!Init

LEMMA NextVotes == TypeOK /\ TypeOK' /\ GateSafe /\ [Next]_vars => VoteStep
<1> SUFFICES ASSUME TypeOK, TypeOK', GateSafe, [Next]_vars PROVE VoteStep
  OBVIOUS
<1>1. ASSUME NEW a \in Agents, StepStart(a) PROVE VoteStep
  BY <1>1, Unseen DEF StepStart
<1>2. ASSUME NEW a \in Agents, PostDraft(a) PROVE VoteStep
  BY <1>2, SentIsMessage, SendVotes DEF PostDraft
<1>3. ASSUME NEW a \in Agents, PostApprove(a) PROVE VoteStep
  BY <1>3, SentIsMessage, SendVotes DEF PostApprove, Signals
<1>4. ASSUME NEW a \in Agents, PostReject(a) PROVE VoteStep
  BY <1>4, SentIsMessage, SendVotes DEF PostReject, Signals
<1>5. ASSUME NEW s \in {"entry", "approve", "reject"}, HumanPost(s) PROVE VoteStep
  BY <1>5, SentIsMessage, SendVotes DEF HumanPost
<1>6. CASE Publish
  BY <1>6, SentIsMessage, HandleVotes DEF Publish
<1>7. ASSUME NEW ps \in SUBSET Agents, SetRoster(ps) PROVE VoteStep
  <2>1. /\ gate'.participants = ps /\ gate'.approvals = gate.approvals \cap ps
        /\ IF gate.open THEN gate'.open ELSE gate'.open => Unanimous(gate')
    BY <1>7, ConfigTyped, SetParticipantsVotes DEF SetRoster, TypeOK
  <2>2. AbstractVote!ChangeQuorum
    BY <2>1 DEF TypeOK, Gate, Unanimous, AbstractVote!ChangeQuorum, AbstractVote!MayDecide
  <2>3. QED
    BY <2>2 DEF VoteStep, AbstractVote!Next
<1>8. ASSUME NEW ps \in SUBSET Agents, BeginRound(ps) PROVE VoteStep
  <2> DEFINE r == ResetForRound(gate)
  <2>1. r \in Gate /\ r.approvals = {} /\ ~r.open
    BY ResetTyped DEF TypeOK, ResetForRound, ResetForRedo, Gate
  <2>2. gate' = SetParticipants(Config, r, ps) /\ gate.open
    BY <1>8 DEF BeginRound
  <2> HIDE DEF r
  <2>3. /\ gate'.participants = ps /\ gate'.approvals = {}
        /\ gate'.open => Unanimous(gate')
    BY <2>1, <2>2, ConfigTyped, SetParticipantsVotes
  <2>4. AbstractVote!Reopen
    BY <2>2, <2>3 DEF TypeOK, Gate, Unanimous, AbstractVote!Reopen
  <2>5. QED
    BY <2>4 DEF VoteStep, AbstractVote!Next
<1>9. CASE UNCHANGED vars
  BY <1>9, Unseen DEF vars
<1>10. QED
  BY <1>1, <1>2, <1>3, <1>4, <1>5, <1>6, <1>7, <1>8, <1>9 DEF Next

\* Whatever agents, human, database and roster changes do, what they do to the
\* gate is what a vote allows: a decision is taken only with every vote of the
\* quorum, and then stands until the next round.
THEOREM GateImplementsVote == Spec => ImplementsVote
<1>1. Init => TypeOK /\ GateSafe /\ AbstractVote!Init
  BY InitTyped, InitSafe, InitVotes
<1>2. TypeOK /\ GateSafe /\ [Next]_vars => TypeOK' /\ GateSafe'
  BY NextTyped, NextSafe
<1>3. TypeOK /\ TypeOK' /\ GateSafe /\ [Next]_vars =>
        [AbstractVote!Next]_(AbstractVote!voteVars)
  BY NextVotes DEF VoteStep
<1>4. QED
  BY <1>1, <1>2, <1>3, PTL DEF Spec, ImplementsVote, AbstractVote!Spec

(***************************************************************************)
(* No vote is lost but with its draft.  That a replacement is another      *)
(* draft than the one it replaces needs the drafts in flight to be newer   *)
(* than the one the gate votes on, and to come in their order.             *)
(***************************************************************************)

Newer ==
    /\ current <= drafts
    /\ \A i \in DOMAIN inflight :
          inflight[i].signal = "entry" =>
              current < inflight[i].draft /\ inflight[i].draft <= drafts
    /\ \A i, j \in DOMAIN inflight :
          i < j /\ inflight[i].signal = "entry" /\ inflight[j].signal = "entry" =>
              inflight[i].draft < inflight[j].draft
    /\ ~Persist => inflight = <<>>

\* The step formula of VotesLostOnlyWithTheirDraft.
LosingStep ==
    \/ gate.approvals \cap gate'.participants \subseteq gate'.approvals
    \/ ~gate'.proposal
    \/ current' # current /\ gate'.author = gate.author

LEMMA InflightDrafts ==
  ASSUME TypeOK, NEW i \in DOMAIN inflight
  PROVE  inflight[i].draft \in Nat
<1>1. inflight[i] \in Message
  BY DEF TypeOK
<1>2. QED
  BY <1>1, GateConstants DEF Message, Draft

LEMMA SignalLoses ==
  ASSUME NEW c \in GateConfig, NEW g \in Gate, ~g.open,
         NEW m, m.author \in Authors, m.signal \in Signals,
         NEW h, h = CountSignal(c, g, m)
  PROVE  \/ g.approvals \subseteq h.approvals
         \/ ~h.proposal
         \/ Takes(c, g, m, h) /\ h.author = g.author
<1>1. ~ResetForRedo(g).proposal
  BY DEF ResetForRedo, Gate
<1>2. CASE c.awaitHuman /\ g.pending
  <2>1. h \in {g, ResetForRedo(g), OpenGate(g)}
    BY <1>2 DEF CountSignal, OnHumanStage, Signals
  <2>2. QED
    BY <1>1, <2>1 DEF OpenGate, Gate
<1>3. CASE ~(c.awaitHuman /\ g.pending) /\ m.signal = "entry"
  <2> DEFINE kept == IF g.author = Nobody THEN g.approvals ELSE {}
             k == [g EXCEPT !.author = m.author,
                            !.approvals = kept \cup ({m.author} \cap g.participants),
                            !.proposal = TRUE]
  <2>1. h = IF g.author \notin {Nobody, m.author} THEN g ELSE MaybeOpen(c, k)
    BY <1>3 DEF CountSignal, OnDraft
  <2>2. /\ k \in Gate /\ k.author = m.author
        /\ g.author = Nobody => g.approvals \subseteq k.approvals
    BY DEF Gate
  <2> HIDE DEF k
  <2>3. h = g \/ (g.author \in {Nobody, m.author} /\ h.author = m.author
                    /\ h.approvals = k.approvals)
    BY <2>1, <2>2, MaybeOpenFrame
  <2>4. QED
    BY <1>3, <2>2, <2>3 DEF Takes
<1>4. CASE ~(c.awaitHuman /\ g.pending) /\ m.signal = "approve"
  <2>1. h = OnApprove(c, g, m)
    BY <1>4 DEF CountSignal
  <2> DEFINE p == [g EXCEPT !.proposal = TRUE]
             k == [p EXCEPT !.approvals = @ \cup {m.author}]
  <2>2. h = g \/ h = p \/ (m.author \in g.participants /\ h = MaybeOpen(c, k))
    BY <2>1 DEF OnApprove
  <2>3. p.approvals = g.approvals
    BY DEF Gate
  <2>4. m.author \in g.participants =>
          k \in Gate /\ g.approvals \subseteq k.approvals
    BY DEF Gate
  <2> HIDE DEF k, p
  <2>5. QED
    BY <2>2, <2>3, <2>4, MaybeOpenFrame
<1>5. CASE ~(c.awaitHuman /\ g.pending) /\ m.signal \in {"reject", "other"}
  <2>1. h = g \/ h = ResetForRedo(g)
    BY <1>5 DEF CountSignal
  <2>2. QED
    BY <1>1, <2>1
<1>6. QED
  BY <1>2, <1>3, <1>4, <1>5 DEF Signals

LEMMA HandleLoses ==
  ASSUME TypeOK, GateSafe, NEW m \in Message, Handle(m),
         m.signal = "entry" => current < m.draft
  PROVE  /\ LosingStep
         /\ current' \in {0, current} \/ (m.signal = "entry" /\ current' = m.draft)
<1> DEFINE b == IF gate.bound THEN gate ELSE BindByName(Config, gate, m, thread)
<1>1. /\ m.author \in Authors /\ m.signal \in Signals /\ m.draft \in Draft
      /\ thread \in SUBSET Agents /\ gate' = OnMessage(Config, gate, m, thread)
      /\ gate \in Gate
  BY DEF Message, TypeOK, Handle
<1>2. current' = IF ~gate'.proposal THEN 0
                 ELSE IF Takes(Config, gate, m, gate') THEN m.draft ELSE current
  BY DEF Handle, DraftAfter, Takes, Config
<1>3. current' \in {0, current} \/ (m.signal = "entry" /\ current' = m.draft)
  BY <1>2 DEF Takes
<1>4. LosingStep
  <2>1. CASE gate.open \/ ~b.bound
    BY <1>1, <2>1 DEF OnMessage, LosingStep
  <2>2. CASE ~gate.bound
    BY <2>2 DEF GateSafe, GateInv, UnboundIsBlank, LosingStep
  <2>3. CASE ~gate.open /\ gate.bound
    <3>1. gate' = CountSignal(Config, gate, m)
      BY <1>1, <2>3 DEF OnMessage
    <3>2. \/ gate.approvals \subseteq gate'.approvals
          \/ ~gate'.proposal
          \/ Takes(Config, gate, m, gate') /\ gate'.author = gate.author
      BY <1>1, <2>3, <3>1, ConfigTyped, SignalLoses
    <3>3. CASE gate'.proposal /\ Takes(Config, gate, m, gate')
                 /\ gate'.author = gate.author
      <4>1. current' = m.draft /\ current < m.draft
        BY <1>2, <3>3 DEF Takes
      <4>2. current' # current
        BY <1>1, <4>1, GateConstants DEF TypeOK, Draft
      <4>3. QED
        BY <3>3, <4>2 DEF LosingStep
    <3>4. QED
      BY <3>2, <3>3 DEF LosingStep
  <2>4. QED
    BY <2>1, <2>2, <2>3
<1>5. QED
  BY <1>3, <1>4

LEMMA SendLoses ==
  ASSUME TypeOK, TypeOK', GateSafe, Newer, NEW m \in Message, Send(m),
         drafts <= drafts', m.signal = "entry" => m.draft = drafts' /\ drafts < drafts'
  PROVE  Newer' /\ LosingStep
<1>1. drafts \in Nat /\ drafts' \in Nat /\ current \in Nat /\ m.draft \in Nat
  BY GateConstants DEF TypeOK, Draft, Message
<1>2. CASE ~Persist /\ Handle(m) /\ UNCHANGED inflight
  <2>1. m.signal = "entry" => current < m.draft
    BY <1>1 DEF Newer
  <2>2. /\ LosingStep
        /\ current' \in {0, current} \/ (m.signal = "entry" /\ current' = m.draft)
    BY <1>2, <2>1, HandleLoses
  <2>3. inflight = <<>> /\ inflight' = <<>> /\ current' <= drafts'
    BY <1>1, <1>2, <2>2 DEF Newer
  <2>4. QED
    BY <2>2, <2>3 DEF Newer
<1>3. CASE Persist /\ inflight' = Append(inflight, m)
                   /\ UNCHANGED <<gate, current, tally>>
  <2> DEFINE n == Len(inflight)
  <2>1. /\ inflight \in Seq(Message) /\ n \in Nat /\ DOMAIN inflight = 1..n
        /\ DOMAIN inflight' = 1..(n + 1)
        /\ \A i \in 1..n : inflight'[i] = inflight[i]
        /\ inflight'[n + 1] = m
    BY <1>3 DEF TypeOK
  <2>2. \A i \in 1..n : inflight[i].draft \in Nat
    BY <2>1, InflightDrafts
  <2> HIDE DEF n
  <2>3. \A i \in 1..n : inflight[i].signal = "entry" =>
            current < inflight[i].draft /\ inflight[i].draft <= drafts
    BY <2>1 DEF Newer
  <2>4. \A i \in DOMAIN inflight' : inflight'[i].signal = "entry" =>
            current < inflight'[i].draft /\ inflight'[i].draft <= drafts'
    <3>1. TAKE i \in DOMAIN inflight'
    <3>2. CASE i \in 1..n
      BY <1>1, <2>1, <2>2, <2>3, <3>2
    <3>3. CASE i = n + 1
      BY <1>1, <2>1, <3>3 DEF Newer
    <3>4. QED
      BY <2>1, <3>2, <3>3
  <2>5. ASSUME NEW i \in DOMAIN inflight', NEW j \in DOMAIN inflight', i < j,
               inflight'[i].signal = "entry", inflight'[j].signal = "entry"
        PROVE  inflight'[i].draft < inflight'[j].draft
    <3>1. i \in 1..n
      BY <2>1, <2>5
    <3>2. CASE j \in 1..n
      BY <2>1, <2>5, <3>1, <3>2 DEF Newer
    <3>3. CASE j = n + 1
      BY <1>1, <2>1, <2>2, <2>3, <2>5, <3>1, <3>3
    <3>4. QED
      BY <2>1, <3>2, <3>3
  <2>6. LosingStep
    BY <1>3 DEF LosingStep
  <2>7. current' <= drafts'
    BY <1>1, <1>3 DEF Newer
  <2>8. QED
    BY <1>3, <2>4, <2>5, <2>6, <2>7 DEF Newer
<1>4. QED
  BY <1>2, <1>3 DEF Send

LEMMA PublishLoses ==
  ASSUME TypeOK, GateSafe, Newer, Publish
  PROVE  Newer' /\ LosingStep
<1> DEFINE m == Head(inflight)
           n == Len(inflight)
<1>1. /\ inflight \in Seq(Message) /\ n \in Nat /\ n > 0
      /\ DOMAIN inflight = 1..n /\ m = inflight[1] /\ m \in Message
      /\ DOMAIN inflight' = 1..(n - 1)
      /\ \A i \in 1..(n - 1) : inflight'[i] = inflight[i + 1]
      /\ Handle(m) /\ UNCHANGED drafts /\ (~Persist => FALSE)
  BY DEF Publish, TypeOK, Newer
<1>2. /\ drafts \in Nat /\ current \in Nat
      /\ \A i \in 1..n : inflight[i].draft \in Nat
  <2>1. drafts \in Nat /\ current \in Nat
    BY GateConstants DEF TypeOK, Draft
  <2>2. ASSUME NEW i \in 1..n PROVE inflight[i].draft \in Nat
    BY <1>1, InflightDrafts
  <2>3. QED
    BY <2>1, <2>2
<1>3. m.signal = "entry" => current < m.draft /\ m.draft <= drafts
  BY <1>1 DEF Newer
<1> HIDE DEF n, m
<1>4. /\ LosingStep
      /\ current' \in {0, current} \/ (m.signal = "entry" /\ current' = m.draft)
  BY <1>1, <1>3, HandleLoses
<1>5. current' <= drafts'
  BY <1>1, <1>2, <1>3, <1>4 DEF Newer
<1>6. ASSUME NEW i \in DOMAIN inflight', inflight'[i].signal = "entry"
      PROVE  current' < inflight'[i].draft /\ inflight'[i].draft <= drafts'
  <2>1. /\ i + 1 \in 1..n /\ 1 \in 1..n /\ 1 < i + 1
        /\ inflight'[i] = inflight[i + 1]
    BY <1>1, <1>6
  <2>2. current < inflight[i + 1].draft /\ inflight[i + 1].draft <= drafts
    BY <1>1, <1>6, <2>1 DEF Newer
  <2>3. m.signal = "entry" => m.draft < inflight[i + 1].draft
    BY <1>1, <1>6, <2>1 DEF Newer
  <2>4. QED
    BY <1>1, <1>2, <1>4, <2>1, <2>2, <2>3
<1>7. ASSUME NEW i \in DOMAIN inflight', NEW j \in DOMAIN inflight', i < j,
             inflight'[i].signal = "entry", inflight'[j].signal = "entry"
      PROVE  inflight'[i].draft < inflight'[j].draft
  <2>1. /\ i + 1 \in 1..n /\ j + 1 \in 1..n /\ i + 1 < j + 1
        /\ inflight'[i] = inflight[i + 1] /\ inflight'[j] = inflight[j + 1]
    BY <1>1, <1>7
  <2>2. QED
    BY <1>1, <1>7, <2>1 DEF Newer
<1>8. QED
  BY <1>1, <1>4, <1>5, <1>6, <1>7 DEF Newer

LEMMA InitNewer == Init => Newer
  BY DEF Init, Newer

LEMMA NextLoses ==
  TypeOK /\ TypeOK' /\ GateSafe /\ Newer /\ [Next]_vars => Newer' /\ LosingStep
<1> SUFFICES ASSUME TypeOK, TypeOK', GateSafe, Newer, [Next]_vars
             PROVE  Newer' /\ LosingStep
  OBVIOUS
<1>0. drafts \in Nat /\ current \in Nat
  BY GateConstants DEF TypeOK, Draft
<1>1. ASSUME NEW a \in Agents, StepStart(a) PROVE Newer' /\ LosingStep
  BY <1>1 DEF StepStart, Newer, LosingStep
<1>2. ASSUME NEW a \in Agents, PostDraft(a) PROVE Newer' /\ LosingStep
  BY <1>0, <1>2, SentIsMessage, SendLoses DEF PostDraft
<1>3. ASSUME NEW a \in Agents, PostApprove(a) PROVE Newer' /\ LosingStep
  <2> DEFINE m == [author |-> a, signal |-> "approve", draft |-> view[a].saw]
  <2>1. m \in Message /\ m.signal # "entry"
    BY SentIsMessage DEF Signals
  <2>2. Send(m) /\ drafts <= drafts'
    BY <1>0, <1>3 DEF PostApprove
  <2> HIDE DEF m
  <2>3. QED
    BY <2>1, <2>2, SendLoses
<1>4. ASSUME NEW a \in Agents, PostReject(a) PROVE Newer' /\ LosingStep
  <2> DEFINE m == [author |-> a, signal |-> "reject", draft |-> view[a].saw]
  <2>1. m \in Message /\ m.signal # "entry"
    BY SentIsMessage DEF Signals
  <2>2. Send(m) /\ drafts <= drafts'
    BY <1>0, <1>4 DEF PostReject
  <2> HIDE DEF m
  <2>3. QED
    BY <2>1, <2>2, SendLoses
<1>5. ASSUME NEW s \in {"entry", "approve", "reject"}, HumanPost(s)
      PROVE  Newer' /\ LosingStep
  BY <1>0, <1>5, SentIsMessage, SendLoses DEF HumanPost
<1>6. CASE Publish
  BY <1>6, PublishLoses
<1>7. ASSUME NEW ps \in SUBSET Agents, SetRoster(ps) PROVE Newer' /\ LosingStep
  <2>1. gate'.participants = ps /\ gate'.approvals = gate.approvals \cap ps
    BY <1>7, ConfigTyped, SetParticipantsVotes DEF SetRoster, TypeOK
  <2>2. QED
    BY <1>7, <2>1 DEF SetRoster, Newer, LosingStep
<1>8. ASSUME NEW ps \in SUBSET Agents, BeginRound(ps) PROVE Newer' /\ LosingStep
  <2> DEFINE r == ResetForRound(gate)
             h == [r EXCEPT !.participants = ps, !.approvals = @ \cap ps]
  <2>1. r \in Gate /\ ~r.proposal
    BY ResetTyped DEF TypeOK, ResetForRound, ResetForRedo, Gate
  <2>2. h \in Gate /\ ~h.proposal
    BY <2>1 DEF Gate
  <2>3. gate' = h \/ gate' = MaybeOpen(Config, h)
    BY <1>8 DEF BeginRound, SetParticipants
  <2> HIDE DEF h
  <2>4. ~gate'.proposal
    BY <2>2, <2>3, MaybeOpenFrame
  <2>5. \A i \in DOMAIN inflight : inflight[i].draft \in Nat
    BY InflightDrafts
  <2>6. Newer'
    BY <1>0, <1>8, <2>5 DEF BeginRound, Newer
  <2>7. QED
    BY <2>4, <2>6 DEF LosingStep
<1>9. CASE UNCHANGED vars
  BY <1>9 DEF vars, Newer, LosingStep
<1>10. QED
  BY <1>1, <1>2, <1>3, <1>4, <1>5, <1>6, <1>7, <1>8, <1>9 DEF Next

\* Nothing costs a participant a counted vote but the withdrawal of the
\* proposal or a newer draft of the same author, in whatever order the
\* messages reach the gate.
THEOREM NoVoteIsLost == Spec => VotesLostOnlyWithTheirDraft
<1>1. Init => TypeOK /\ GateSafe /\ Newer
  BY InitTyped, InitSafe, InitNewer
<1>2. TypeOK /\ GateSafe /\ Newer /\ [Next]_vars =>
        TypeOK' /\ GateSafe' /\ Newer' /\ LosingStep
  BY NextTyped, NextSafe, NextLoses
<1>3. [Next]_vars /\ LosingStep =>
        [\/ gate.approvals \cap gate'.participants \subseteq gate'.approvals
         \/ ~gate'.proposal
         \/ current' # current /\ gate'.author = gate.author]_vars
  BY DEF LosingStep
<1>4. QED
  BY <1>1, <1>2, <1>3, PTL DEF Spec, VotesLostOnlyWithTheirDraft
=============================================================================
