-------------------------- MODULE GateRulesProofs --------------------------
(* Lemmas about the vote-counting rules, for any gate configuration: each  *)
(* operation keeps a gate well formed and settled, and opens it only on a  *)
(* complete quorum.                                                        *)
EXTENDS GateRules, TLAPS

(***************************************************************************)
(* Every operation on a gate record yields a gate record.                  *)
(***************************************************************************)

LEMMA ResetTyped ==
  ASSUME NEW g \in Gate
  PROVE  /\ ResetForRedo(g) \in Gate
         /\ ResetForRound(g) \in Gate
         /\ OpenGate(g) \in Gate
  BY DEF ResetForRedo, ResetForRound, OpenGate, Gate

LEMMA MaybeOpenTyped ==
  ASSUME NEW c \in GateConfig, NEW g \in Gate
  PROVE  MaybeOpen(c, g) \in Gate
  BY ResetTyped DEF MaybeOpen, Gate, OpenGate

LEMMA SetParticipantsTyped ==
  ASSUME NEW c \in GateConfig, NEW g \in Gate, NEW ps \in SUBSET Agents
  PROVE  SetParticipants(c, g, ps) \in Gate
<1> DEFINE h == [g EXCEPT !.participants = ps, !.approvals = @ \cap ps]
<1>1. h \in Gate
  BY DEF Gate
<1>2. QED
  BY <1>1, MaybeOpenTyped DEF SetParticipants

LEMMA CountSignalTyped ==
  ASSUME NEW c \in GateConfig, NEW g \in Gate,
         NEW m, m.author \in Authors, m.signal \in Signals
  PROVE  CountSignal(c, g, m) \in Gate
<1>1. OnHumanStage(g, m) \in Gate
  BY ResetTyped DEF OnHumanStage, Signals
<1>2. OnDraft(c, g, m) \in Gate
  <2> DEFINE kept == IF g.author = Nobody THEN g.approvals ELSE {}
             h == [g EXCEPT !.author = m.author,
                            !.approvals = kept \cup ({m.author} \cap g.participants),
                            !.proposal = TRUE]
  <2>1. h \in Gate
    BY DEF Gate
  <2>2. QED
    BY <2>1, MaybeOpenTyped DEF OnDraft
<1>3. OnApprove(c, g, m) \in Gate
  <2> DEFINE h == [g EXCEPT !.proposal = TRUE]
             k == [h EXCEPT !.approvals = @ \cup {m.author}]
  <2>1. h \in Gate
    BY DEF Gate
  <2>2. ASSUME m.author \in g.participants PROVE k \in Gate
    BY <2>1, <2>2 DEF Gate
  <2>3. CASE m.author \in g.participants
    BY <2>1, <2>2, <2>3, MaybeOpenTyped DEF OnApprove
  <2>4. CASE m.author \notin g.participants
    BY <2>1, <2>4 DEF OnApprove
  <2>5. QED
    BY <2>3, <2>4
<1>4. QED
  BY <1>1, <1>2, <1>3, ResetTyped DEF CountSignal

LEMMA OnMessageTyped ==
  ASSUME NEW c \in GateConfig, NEW g \in Gate, NEW ps \in SUBSET Agents,
         NEW m, m.author \in Authors, m.signal \in Signals
  PROVE  OnMessage(c, g, m, ps) \in Gate
<1> DEFINE b == IF g.bound THEN g ELSE BindByName(c, g, m, ps)
<1>1. b \in Gate
  BY DEF BindByName, BindToThread, Gate, GateConfig
<1>2. QED
  BY <1>1, CountSignalTyped DEF OnMessage

(***************************************************************************)
(* Every operation keeps the gate's invariant, and a gate opens only on a  *)
(* complete quorum.                                                        *)
(***************************************************************************)

\* What the step that opens gate g leaves behind.
OpenedRightly(c, g) ==
    /\ Unanimous(g)
    /\ c.requireProposal => g.proposal

LEMMA NewGateKeeps ==
  ASSUME NEW c \in GateConfig, NEW ps \in SUBSET Agents
  PROVE  GateInv(c, NewGate) /\ GateInv(c, BindToThread(NewGate, ps))
<1>1. NewGate \in Gate
  BY DEF NewGate, Gate
<1>2. BindToThread(NewGate, ps) \in Gate
  BY <1>1 DEF BindToThread, Gate
<1>3. GateInv(c, NewGate)
  BY <1>1 DEF GateInv, NewGate, Settled, Unanimous, DraftedBeforeVoted,
              UnboundIsBlank, Gate
<1>4. GateInv(c, BindToThread(NewGate, ps))
  BY <1>2 DEF GateInv, NewGate, BindToThread, Settled, Unanimous,
              DraftedBeforeVoted, UnboundIsBlank, Gate
<1>5. QED
  BY <1>3, <1>4

LEMMA ResetKeeps ==
  ASSUME NEW c \in GateConfig, NEW g \in Gate, g.bound
  PROVE  /\ ~g.open => GateInv(c, ResetForRedo(g))
         /\ GateInv(c, ResetForRound(g))
         /\ ResetForRound(g).bound /\ ~ResetForRound(g).pending
<1> DEFINE r == ResetForRedo(g)
           q == ResetForRound(g)
<1>1. r \in Gate /\ q \in Gate
  BY ResetTyped
<1>2. /\ r.approvals = {} /\ ~r.pending /\ ~r.proposal /\ r.author = Nobody
      /\ r.bound /\ r.open = g.open
  BY DEF ResetForRedo, Gate
<1>3. /\ q.approvals = {} /\ ~q.pending /\ ~q.proposal /\ q.author = Nobody
      /\ q.bound
  BY <1>1, <1>2 DEF ResetForRound, Gate
<1> HIDE DEF r, q
<1>4. GateInv(c, r) /\ GateInv(c, q)
  BY <1>1, <1>2, <1>3
  DEF GateInv, Settled, Unanimous, DraftedBeforeVoted, UnboundIsBlank
<1>5. QED
  BY <1>3, <1>4 DEF r, q

\* The shared tail of on_message and set_participants.
LEMMA MaybeOpenKeeps ==
  ASSUME NEW c \in GateConfig, NEW g \in Gate, ~g.open, ~g.pending,
         DraftedBeforeVoted(c, g), UnboundIsBlank(g)
  PROVE  /\ GateInv(c, MaybeOpen(c, g))
         /\ MaybeOpen(c, g).open =>
               ~c.awaitHuman /\ OpenedRightly(c, MaybeOpen(c, g))
<1>1. MaybeOpen(c, g) \in Gate
  BY MaybeOpenTyped
<1>2. CASE Unanimous(g) /\ (c.requireProposal => g.proposal)
  <2>1. g.bound
    BY <1>2 DEF Unanimous, UnboundIsBlank, Gate
  <2>2. CASE c.awaitHuman
    BY <1>1, <1>2, <2>1, <2>2
    DEF MaybeOpen, GateInv, Settled, Unanimous, DraftedBeforeVoted,
        UnboundIsBlank, Gate
  <2>3. CASE ~c.awaitHuman
    BY <1>1, <1>2, <2>1, <2>3
    DEF MaybeOpen, OpenGate, OpenedRightly, GateInv, Settled, Unanimous,
        DraftedBeforeVoted, UnboundIsBlank, Gate
  <2>4. QED
    BY <2>2, <2>3
<1>3. CASE ~(Unanimous(g) /\ (c.requireProposal => g.proposal))
  BY <1>1, <1>3 DEF MaybeOpen, GateInv, Settled
<1>4. QED
  BY <1>2, <1>3

LEMMA SetParticipantsKeeps ==
  ASSUME NEW c \in GateConfig, NEW g, GateInv(c, g), ~g.pending,
         NEW ps \in SUBSET Agents
  PROVE  /\ GateInv(c, SetParticipants(c, g, ps))
         /\ ~g.open /\ SetParticipants(c, g, ps).open =>
               ~c.awaitHuman /\ OpenedRightly(c, SetParticipants(c, g, ps))
<1> DEFINE h == [g EXCEPT !.participants = ps, !.approvals = @ \cap ps]
<1>0. g \in Gate
  BY DEF GateInv
<1>1. /\ h \in Gate /\ h.open = g.open /\ ~h.pending
      /\ DraftedBeforeVoted(c, h) /\ UnboundIsBlank(h)
  BY <1>0 DEF GateInv, DraftedBeforeVoted, UnboundIsBlank, Gate
<1>2. CASE g.open
  BY <1>1, <1>2 DEF SetParticipants, GateInv, Settled
<1>3. CASE ~g.open
  BY <1>1, <1>3, MaybeOpenKeeps DEF SetParticipants
<1>4. QED
  BY <1>2, <1>3

\* An open gate hears nothing; a gate that waits for the human opens for
\* nothing but the human's APPROVE:, and any other gate only when the message
\* completes its quorum.
LEMMA CountSignalKeeps ==
  ASSUME NEW c \in GateConfig, NEW g, GateInv(c, g), g.bound, ~g.open,
         NEW m, m.author \in Authors, m.signal \in Signals
  PROVE  /\ GateInv(c, CountSignal(c, g, m))
         /\ CountSignal(c, g, m).open =>
               /\ OpenedRightly(c, CountSignal(c, g, m))
               /\ c.awaitHuman => g.pending /\ m.author = Human
<1>0. g \in Gate
  BY DEF GateInv
<1>1. CASE c.awaitHuman /\ g.pending
  <2>0. CountSignal(c, g, m) = OnHumanStage(g, m)
    BY <1>1 DEF CountSignal
  <2>1. CASE m.signal = "reject"
    BY <1>0, <2>0, <2>1, ResetKeeps DEF OnHumanStage, ResetForRedo, Gate
  <2>2. CASE m.signal = "approve" /\ m.author = Human
    <3> DEFINE o == OpenGate(g)
    <3>0. /\ o \in Gate /\ o.open /\ ~o.pending /\ o.bound
          /\ o.participants = g.participants /\ o.approvals = g.approvals
          /\ o.proposal = g.proposal /\ o.author = g.author
      BY <1>0, ResetTyped DEF OpenGate, Gate
    <3> HIDE DEF o
    <3>a. Unanimous(g) /\ DraftedBeforeVoted(c, g)
      BY <1>1 DEF GateInv, Settled
    <3>1. GateInv(c, o) /\ OpenedRightly(c, o)
      BY <1>0, <3>0, <3>a
      DEF OpenedRightly, GateInv, Settled, Unanimous, DraftedBeforeVoted,
          UnboundIsBlank, Gate
    <3>2. CountSignal(c, g, m) = o
      BY <2>0, <2>2 DEF OnHumanStage, o
    <3>3. QED
      BY <1>1, <2>2, <3>1, <3>2
  <2>3. CASE m.signal # "reject" /\ ~(m.signal = "approve" /\ m.author = Human)
    BY <2>0, <2>3 DEF OnHumanStage
  <2>4. QED
    BY <2>1, <2>2, <2>3
<1>2. CASE ~(c.awaitHuman /\ g.pending)
  <2>1. ~g.pending
    BY <1>2 DEF GateInv, Settled
  <2>2. CASE m.signal = "entry"
    <3> DEFINE kept == IF g.author = Nobody THEN g.approvals ELSE {}
               h == [g EXCEPT !.author = m.author,
                              !.approvals = kept \cup ({m.author} \cap g.participants),
                              !.proposal = TRUE]
    <3>1. CountSignal(c, g, m) =
            IF g.author \notin {Nobody, m.author} THEN g ELSE MaybeOpen(c, h)
      BY <1>2, <2>2 DEF CountSignal, OnDraft
    <3>2. h \in Gate /\ ~h.open /\ ~h.pending /\ UnboundIsBlank(h)
      BY <1>0, <2>1 DEF Gate, UnboundIsBlank
    <3>3. DraftedBeforeVoted(c, h)
      BY <1>0, AuthorsDistinct DEF DraftedBeforeVoted, Gate, Authors
    <3>4. QED
      BY <3>1, <3>2, <3>3, MaybeOpenKeeps
  <2>3. CASE m.signal = "reject"
    BY <1>0, <1>2, <2>3, ResetKeeps
    DEF CountSignal, ResetForRedo, Gate
  <2>4. CASE m.signal = "approve"
    <3> DEFINE h == [g EXCEPT !.proposal = TRUE]
               k == [h EXCEPT !.approvals = @ \cup {m.author}]
    <3>1. CountSignal(c, g, m) =
            IF m.author = Human \/ (c.requireProposal /\ ~g.proposal) THEN g
            ELSE IF m.author \in g.participants THEN MaybeOpen(c, k) ELSE h
      BY <1>2, <2>4 DEF CountSignal, OnApprove
    <3>2. CASE m.author = Human \/ (c.requireProposal /\ ~g.proposal)
      BY <3>1, <3>2
    <3>3. CASE ~(m.author = Human \/ (c.requireProposal /\ ~g.proposal))
      <4>1. CASE m.author \in g.participants
        <5>1. h \in Gate /\ h.approvals = g.approvals /\ ~h.open /\ ~h.pending
              /\ h.bound /\ h.proposal /\ h.author = g.author
          BY <1>0, <2>1 DEF Gate
        <5>2. k \in Gate /\ ~k.open /\ ~k.pending /\ k.bound
          BY <1>0, <4>1, <5>1 DEF Gate
        <5>3. DraftedBeforeVoted(c, k) /\ UnboundIsBlank(k)
          BY <1>0, <3>3, <5>1, <5>2
          DEF DraftedBeforeVoted, UnboundIsBlank, GateInv, Gate
        <5>4. QED
          BY <3>1, <3>3, <4>1, <5>2, <5>3, MaybeOpenKeeps
      <4>2. CASE m.author \notin g.participants
        <5>1. h \in Gate /\ ~h.open
          BY <1>0 DEF Gate
        <5>2. GateInv(c, h)
          BY <1>0, <3>3, <5>1, <2>1
          DEF GateInv, Settled, Unanimous, DraftedBeforeVoted, UnboundIsBlank,
              Gate
        <5>3. QED
          BY <3>1, <3>3, <4>2, <5>1, <5>2
      <4>3. QED
        BY <4>1, <4>2
    <3>4. QED
      BY <3>2, <3>3
  <2>5. CASE m.signal = "other"
    BY <1>2, <2>5 DEF CountSignal
  <2>6. QED
    BY <2>2, <2>3, <2>4, <2>5 DEF Signals
<1>3. QED
  BY <1>1, <1>2

LEMMA OnMessageKeeps ==
  ASSUME NEW c \in GateConfig, NEW g, GateInv(c, g),
         NEW ps \in SUBSET Agents,
         NEW m, m.author \in Authors, m.signal \in Signals
  PROVE  /\ GateInv(c, OnMessage(c, g, m, ps))
         /\ ~g.open /\ OnMessage(c, g, m, ps).open =>
               /\ OpenedRightly(c, OnMessage(c, g, m, ps))
               /\ c.awaitHuman => g.pending /\ m.author = Human
<1>1. CASE g.open
  BY <1>1 DEF OnMessage
<1>2. CASE ~g.open /\ g.bound
  BY <1>2, CountSignalKeeps DEF OnMessage
<1>3. CASE ~g.open /\ ~g.bound /\ c.requireProposal /\ m.signal # "entry"
  BY <1>3 DEF OnMessage, BindByName
\* A gate bound by its first draft already has the proposal but not yet its
\* author, so the draft is followed through MaybeOpen by hand.
<1>4. CASE ~g.open /\ ~g.bound /\ ~(c.requireProposal /\ m.signal # "entry")
  <2> DEFINE b == BindByName(c, g, m, ps)
  <2>1. /\ b \in Gate /\ b.bound /\ ~b.open /\ ~b.pending
        /\ b.approvals = {} /\ b.author = Nobody
    BY <1>4 DEF BindByName, BindToThread, GateInv, UnboundIsBlank, Gate,
                GateConfig
  <2>2. OnMessage(c, g, m, ps) = CountSignal(c, b, m)
    BY <1>4, <2>1 DEF OnMessage
  <2>3. CASE ~c.requireProposal
    <3>1. GateInv(c, b)
      BY <2>1, <2>3 DEF GateInv, Settled, Unanimous, DraftedBeforeVoted,
                        UnboundIsBlank
    <3>2. QED
      BY <2>1, <2>2, <3>1, CountSignalKeeps
  <2>4. CASE m.signal = "entry"
    <3> DEFINE h == [b EXCEPT !.author = m.author,
                              !.approvals = {} \cup ({m.author} \cap b.participants),
                              !.proposal = TRUE]
    <3>1. CountSignal(c, b, m) = MaybeOpen(c, h)
      BY <2>1, <2>4 DEF CountSignal, OnDraft
    <3>2. h \in Gate /\ ~h.open /\ ~h.pending /\ UnboundIsBlank(h)
      BY <2>1 DEF Gate, UnboundIsBlank
    <3>3. DraftedBeforeVoted(c, h)
      BY <2>1, AuthorsDistinct DEF DraftedBeforeVoted, Gate, Authors
    <3>4. QED
      BY <2>2, <3>1, <3>2, <3>3, MaybeOpenKeeps
  <2>5. QED
    BY <1>4, <2>3, <2>4 DEF GateConfig
<1>5. QED
  BY <1>1, <1>2, <1>3, <1>4 DEF GateInv, Gate

(***************************************************************************)
(* Whose votes a gate that requires a proposal holds after a message.      *)
(***************************************************************************)

LEMMA MaybeOpenFrame ==
  ASSUME NEW c, NEW g \in Gate
  PROVE  /\ MaybeOpen(c, g).approvals = g.approvals
         /\ MaybeOpen(c, g).proposal = g.proposal
         /\ MaybeOpen(c, g).author = g.author
         /\ MaybeOpen(c, g).participants = g.participants
         /\ MaybeOpen(c, g).bound = g.bound
  BY DEF MaybeOpen, OpenGate, Gate

\* The gate takes message m as its draft.
Takes(c, g, m, h) ==
    /\ m.signal = "entry"
    /\ h.author = m.author
    /\ ~g.open
    /\ ~(c.awaitHuman /\ g.pending)

\* A message adds at most its author's vote; a draft the gate takes leaves at
\* most its author's; and a proposal comes only with such a draft.
LEMMA VotesAfterMessage ==
  ASSUME NEW c \in GateConfig, NEW g, GateInv(c, g), c.requireProposal,
         NEW ps \in SUBSET Agents,
         NEW m, m.author \in Authors, m.signal \in Signals,
         NEW h, h = OnMessage(c, g, m, ps)
  PROVE  /\ h.approvals \subseteq g.approvals \cup {m.author}
         /\ Takes(c, g, m, h) => h.approvals \subseteq {m.author}
         /\ h.proposal /\ ~g.proposal => Takes(c, g, m, h)
<1> DEFINE b == IF g.bound THEN g ELSE BindByName(c, g, m, ps)
<1>0. g \in Gate /\ Nobody # m.author
  BY AuthorsDistinct DEF GateInv, Authors
<1>1. /\ b \in Gate /\ b.approvals = g.approvals /\ b.author = g.author
      /\ b.open = g.open /\ b.pending = g.pending
      /\ b.proposal # g.proposal => m.signal = "entry" /\ b.author = Nobody
  BY <1>0 DEF BindByName, BindToThread, GateInv, UnboundIsBlank, Gate
<1>2. b.author = Nobody => b.approvals = {}
  BY <1>1 DEF GateInv, DraftedBeforeVoted
<1> HIDE DEF b
<1>3. CASE g.open \/ ~b.bound
  <2>1. h = g
    BY <1>3 DEF OnMessage, b
  <2>2. Takes(c, g, m, h) => g.approvals = {}
    BY <1>3, <2>1, <1>0 DEF Takes, b, BindByName, BindToThread, GateInv,
                            UnboundIsBlank, Gate
  <2>3. QED
    BY <2>1, <2>2
<1>4. CASE ~g.open /\ b.bound
  <2>0. h = CountSignal(c, b, m)
    BY <1>4 DEF OnMessage, b
  <2>1. CASE c.awaitHuman /\ b.pending
    <3>1. h \in {b, ResetForRedo(b), OpenGate(b)}
      BY <2>0, <2>1 DEF CountSignal, OnHumanStage, Signals
    <3>2. b.proposal = g.proposal
      BY <1>1, <2>1 DEF GateInv, UnboundIsBlank, b
    <3>3. QED
      BY <1>1, <2>1, <3>1, <3>2 DEF ResetForRedo, OpenGate, Takes, Gate
  <2>2. CASE ~(c.awaitHuman /\ b.pending) /\ m.signal = "entry"
    <3> DEFINE kept == IF b.author = Nobody THEN b.approvals ELSE {}
               k == [b EXCEPT !.author = m.author,
                              !.approvals = kept \cup ({m.author} \cap b.participants),
                              !.proposal = TRUE]
    <3>1. h = IF b.author \notin {Nobody, m.author} THEN b ELSE MaybeOpen(c, k)
      BY <2>0, <2>2 DEF CountSignal, OnDraft
    <3>2. CASE b.author \notin {Nobody, m.author}
      BY <1>0, <1>1, <3>1, <3>2 DEF Takes
    <3>3. CASE b.author \in {Nobody, m.author}
      <4>1. k \in Gate /\ k.approvals \subseteq {m.author} /\ k.author = m.author
        BY <1>1, <1>2 DEF Gate
      <4> HIDE DEF k
      <4>2. h.approvals \subseteq {m.author} /\ h.author = m.author
        BY <3>1, <3>3, <4>1, MaybeOpenFrame
      <4>3. QED
        BY <1>1, <1>4, <2>2, <4>2 DEF Takes
    <3>4. QED
      BY <3>2, <3>3
  <2>3. CASE ~(c.awaitHuman /\ b.pending) /\ m.signal = "reject"
    <3>1. h = ResetForRedo(b)
      BY <2>0, <2>3 DEF CountSignal
    <3>2. QED
      BY <1>1, <3>1 DEF ResetForRedo, Gate
  <2>4. CASE ~(c.awaitHuman /\ b.pending) /\ m.signal = "approve"
    <3> DEFINE p == [b EXCEPT !.proposal = TRUE]
               k == [p EXCEPT !.approvals = @ \cup {m.author}]
    <3>0. b.proposal = g.proposal
      BY <1>1, <2>4
    <3>1. h = IF m.author = Human \/ ~b.proposal THEN b
              ELSE IF m.author \in b.participants THEN MaybeOpen(c, k) ELSE p
      BY <2>0, <2>4 DEF CountSignal, OnApprove
    <3>2. CASE m.author = Human \/ ~b.proposal
      BY <1>1, <2>4, <3>0, <3>1, <3>2 DEF Takes
    <3>3. CASE ~(m.author = Human \/ ~b.proposal) /\ m.author \in b.participants
      <4>1. p \in Gate /\ p.approvals = b.approvals
        BY <1>1 DEF Gate
      <4>2. k \in Gate /\ k.approvals = b.approvals \cup {m.author}
        BY <1>1, <3>3, <4>1 DEF Gate
      <4> HIDE DEF k
      <4>3. h.approvals = b.approvals \cup {m.author}
        BY <3>1, <3>3, <4>2, MaybeOpenFrame
      <4>4. QED
        BY <1>1, <2>4, <3>0, <3>3, <4>3 DEF Takes
    <3>4. CASE ~(m.author = Human \/ ~b.proposal) /\ m.author \notin b.participants
      <4>1. h = p /\ p.approvals = b.approvals
        BY <1>1, <3>1, <3>4 DEF Gate
      <4>2. QED
        BY <1>1, <2>4, <3>0, <3>4, <4>1 DEF Takes
    <3>5. QED
      BY <3>2, <3>3, <3>4
  <2>5. CASE ~(c.awaitHuman /\ b.pending) /\ m.signal = "other"
    <3>1. h = b
      BY <2>0, <2>5 DEF CountSignal
    <3>2. QED
      BY <1>1, <2>5, <3>1 DEF Takes
  <2>6. QED
    BY <2>1, <2>2, <2>3, <2>4, <2>5 DEF Signals
<1>5. QED
  BY <1>1, <1>3, <1>4

(***************************************************************************)
(* What a message and a roster change do to votes, quorum and draft of a   *)
(* gate that has its thread, in whatever state it is.                      *)
(***************************************************************************)

\* A message changes neither the quorum nor the thread of a bound gate, and
\* counts nobody off the quorum.
LEMMA OnMessageKeepsRoster ==
  ASSUME NEW c \in GateConfig, NEW g \in Gate, g.bound,
         g.approvals \subseteq g.participants,
         NEW ps, NEW m, m.author \in Authors, m.signal \in Signals
  PROVE  LET h == OnMessage(c, g, m, ps)
         IN  /\ h.bound /\ h.participants = g.participants
             /\ h.approvals \subseteq h.participants
<1> DEFINE h == CountSignal(c, g, m)
           drafted == [g EXCEPT
                         !.author = m.author,
                         !.approvals = (IF g.author = Nobody THEN g.approvals ELSE {})
                                          \cup ({m.author} \cap g.participants),
                         !.proposal = TRUE]
           noted == [g EXCEPT !.proposal = TRUE]
           counted == [noted EXCEPT !.approvals = @ \cup {m.author}]
<1>1. OnMessage(c, g, m, ps) \in {g, h}
  BY DEF OnMessage
<1>2. CASE c.awaitHuman /\ g.pending
  <2>1. h \in {g, ResetForRedo(g), OpenGate(g)}
    BY <1>2 DEF CountSignal, OnHumanStage
  <2>2. QED
    BY <1>1, <2>1 DEF ResetForRedo, OpenGate, Gate
<1>3. CASE m.signal = "entry" /\ ~(c.awaitHuman /\ g.pending)
  <2>1. h \in {g, MaybeOpen(c, drafted)}
    BY <1>3 DEF CountSignal, OnDraft
  <2>2. /\ drafted \in Gate /\ drafted.bound
        /\ drafted.participants = g.participants
        /\ drafted.approvals \subseteq g.participants
    BY DEF Gate
  <2> HIDE DEF drafted, h
  <2>3. QED
    BY <1>1, <2>1, <2>2, MaybeOpenFrame
<1>4. CASE m.signal = "approve" /\ ~(c.awaitHuman /\ g.pending)
  <2>1. h \in {g, noted} \/ (m.author \in g.participants /\ h = MaybeOpen(c, counted))
    BY <1>4 DEF CountSignal, OnApprove
  <2>2. /\ noted \in Gate /\ noted.bound
        /\ noted.participants = g.participants /\ noted.approvals = g.approvals
    BY DEF Gate
  <2>3. ASSUME m.author \in g.participants
        PROVE  /\ counted \in Gate /\ counted.bound
               /\ counted.participants = g.participants
               /\ counted.approvals \subseteq g.participants
    BY <2>3 DEF Gate
  <2> HIDE DEF noted, counted, h
  <2>4. QED
    BY <1>1, <2>1, <2>2, <2>3, MaybeOpenFrame
<1>5. CASE m.signal \in {"reject", "other"} /\ ~(c.awaitHuman /\ g.pending)
  BY <1>1, <1>5 DEF CountSignal, ResetForRedo, Gate
<1>6. QED
  BY <1>2, <1>3, <1>4, <1>5 DEF Signals

\* A message takes every vote away, adds its author's, leaves only that one,
\* or changes no vote.
LEMMA OnMessageVotes ==
  ASSUME NEW c \in GateConfig, NEW g \in Gate, g.bound,
         NEW ps, NEW m, m.author \in Authors, m.signal \in Signals
  PROVE  LET h == OnMessage(c, g, m, ps)
         IN  \/ h.approvals \in {g.approvals, {}}
             \/ /\ m.author \in g.participants
                /\ h.approvals \in {g.approvals \cup {m.author}, {m.author}}
<1> DEFINE h == CountSignal(c, g, m)
           drafted == [g EXCEPT
                         !.author = m.author,
                         !.approvals = (IF g.author = Nobody THEN g.approvals ELSE {})
                                          \cup ({m.author} \cap g.participants),
                         !.proposal = TRUE]
           noted == [g EXCEPT !.proposal = TRUE]
           counted == [noted EXCEPT !.approvals = @ \cup {m.author}]
<1>1. OnMessage(c, g, m, ps) \in {g, h}
  BY DEF OnMessage
<1>2. CASE h \in {g, ResetForRedo(g), OpenGate(g), noted}
  BY <1>1, <1>2 DEF ResetForRedo, OpenGate, Gate
<1>3. CASE h = MaybeOpen(c, drafted)
  <2>1. drafted \in Gate
    BY DEF Gate
  <2>2. \/ drafted.approvals \in {g.approvals, {}}
        \/ /\ m.author \in g.participants
           /\ drafted.approvals \in {g.approvals \cup {m.author}, {m.author}}
    BY DEF Gate
  <2> HIDE DEF drafted, h
  <2>3. QED
    BY <1>1, <1>3, <2>1, <2>2, MaybeOpenFrame
<1>4. CASE m.author \in g.participants /\ h = MaybeOpen(c, counted)
  <2>1. counted \in Gate /\ counted.approvals = g.approvals \cup {m.author}
    BY <1>4 DEF Gate
  <2> HIDE DEF counted, h
  <2>2. QED
    BY <1>1, <1>4, <2>1, MaybeOpenFrame
<1>5. QED
  <2>1. CASE c.awaitHuman /\ g.pending
    BY <1>2, <2>1 DEF CountSignal, OnHumanStage
  <2>2. CASE ~(c.awaitHuman /\ g.pending)
    BY <1>2, <1>3, <1>4, <2>2 DEF CountSignal, OnDraft, OnApprove, Signals
  <2>3. QED
    BY <2>1, <2>2

\* What the human alone says at a gate nobody has voted at is no decision.
LEMMA HumanDoesNotVote ==
  ASSUME NEW c \in GateConfig, NEW g \in Gate, g.bound, ~g.open, ~g.pending,
         g.approvals = {}, g.participants # {},
         NEW ps, NEW m, m.author = Human, m.signal \in Signals
  PROVE  LET h == OnMessage(c, g, m, ps)
         IN  h.approvals = {} /\ ~h.pending /\ ~h.open
<1> DEFINE drafted == [g EXCEPT
                         !.author = m.author,
                         !.approvals = (IF g.author = Nobody THEN g.approvals ELSE {})
                                          \cup ({m.author} \cap g.participants),
                         !.proposal = TRUE]
<1>1. OnMessage(c, g, m, ps) = CountSignal(c, g, m)
  BY DEF OnMessage
<1>2. CASE m.signal = "entry"
  <2>1. CountSignal(c, g, m) \in {g, MaybeOpen(c, drafted)}
    BY <1>2 DEF CountSignal, OnDraft
  <2>2. /\ drafted.approvals = {} /\ ~drafted.pending /\ ~drafted.open
        /\ drafted.participants # {}
    BY AuthorsDistinct DEF Gate
  <2>3. MaybeOpen(c, drafted) = drafted
    BY <2>2 DEF MaybeOpen, Unanimous
  <2>4. QED
    BY <1>1, <2>1, <2>2, <2>3
<1>3. CASE m.signal # "entry"
  BY <1>1, <1>3 DEF CountSignal, OnApprove, ResetForRedo, Signals, Gate
<1>4. QED
  BY <1>2, <1>3

\* set_participants on a gate, and what it leaves of one nobody voted at.
LEMMA SetParticipantsFrame ==
  ASSUME NEW c \in GateConfig, NEW g \in Gate, NEW ps \in SUBSET Agents
  PROVE  LET h == SetParticipants(c, g, ps)
         IN  /\ h.bound = g.bound /\ h.participants = ps
             /\ h.approvals = g.approvals \cap ps
             /\ g.open => h.open /\ h.pending = g.pending
             /\ g.approvals = {} /\ ps # {} =>
                   h.open = g.open /\ h.pending = g.pending
<1> DEFINE k == [g EXCEPT !.participants = ps, !.approvals = @ \cap ps]
<1>1. /\ k \in Gate /\ k.bound = g.bound /\ k.participants = ps
      /\ k.approvals = g.approvals \cap ps
      /\ k.open = g.open /\ k.pending = g.pending
  BY DEF Gate
<1>2. SetParticipants(c, g, ps) = IF g.open THEN k ELSE MaybeOpen(c, k)
  BY DEF SetParticipants
<1>3. g.approvals = {} /\ ps # {} => MaybeOpen(c, k) = k
  BY <1>1 DEF MaybeOpen, Unanimous
<1> HIDE DEF k
<1>4. QED
  BY <1>1, <1>2, <1>3, MaybeOpenFrame

LEMMA ResetFrame ==
  ASSUME NEW g \in Gate
  PROVE  LET h == ResetForRound(g)
         IN  /\ h \in Gate /\ h.bound = g.bound
             /\ h.approvals = {} /\ ~h.pending /\ ~h.open /\ ~h.proposal
  BY ResetTyped DEF ResetForRound, ResetForRedo, Gate

\* A gate that requires a draft decides about one, and knows its author.
AboutADraft(c, g) ==
    c.requireProposal =>
        /\ g.approvals # {} \/ g.pending \/ g.open => g.proposal
        /\ g.proposal => g.author # Nobody

LEMMA MessageIsAboutADraft ==
  ASSUME NEW c \in GateConfig, NEW g \in Gate, g.bound, AboutADraft(c, g),
         NEW ps, NEW m, m.author \in Authors, m.signal \in Signals
  PROVE  AboutADraft(c, OnMessage(c, g, m, ps))
<1> DEFINE h == CountSignal(c, g, m)
           drafted == [g EXCEPT
                         !.author = m.author,
                         !.approvals = (IF g.author = Nobody THEN g.approvals ELSE {})
                                          \cup ({m.author} \cap g.participants),
                         !.proposal = TRUE]
           noted == [g EXCEPT !.proposal = TRUE]
           counted == [noted EXCEPT !.approvals = @ \cup {m.author}]
<1>1. OnMessage(c, g, m, ps) \in {g, h} /\ c.requireProposal \in BOOLEAN
  BY DEF OnMessage, GateConfig
<1>2. CASE ~c.requireProposal
  BY <1>2 DEF AboutADraft
<1>3. CASE c.requireProposal /\ c.awaitHuman /\ g.pending
  <2>1. h \in {g, ResetForRedo(g), OpenGate(g)}
    BY <1>3 DEF CountSignal, OnHumanStage
  <2>2. ~g.open \/ OnMessage(c, g, m, ps) = g
    BY DEF OnMessage
  <2>3. QED
    BY <1>1, <1>3, <2>1, <2>2 DEF AboutADraft, ResetForRedo, OpenGate, Gate
<1>4. CASE c.requireProposal /\ m.signal = "entry" /\ ~(c.awaitHuman /\ g.pending)
  <2>1. h \in {g, MaybeOpen(c, drafted)}
    BY <1>4 DEF CountSignal, OnDraft
  <2>2. drafted \in Gate /\ drafted.proposal /\ drafted.author # Nobody
    BY AuthorsDistinct DEF Gate, Authors
  <2> HIDE DEF drafted, h
  <2>3. QED
    BY <1>1, <2>1, <2>2, MaybeOpenFrame DEF AboutADraft
<1>5. CASE c.requireProposal /\ m.signal = "approve" /\ ~(c.awaitHuman /\ g.pending)
  <2>1. h = g \/ (g.proposal /\ h \in {noted, MaybeOpen(c, counted)} /\ m.author # Human)
    BY <1>5 DEF CountSignal, OnApprove
  <2>2. /\ noted.author = g.author /\ noted.proposal
        /\ m.author # Human => /\ counted \in Gate /\ counted.author = g.author
                               /\ counted.proposal
    BY DEF Gate, Authors
  <2>3. g.proposal => g.author # Nobody
    BY <1>5 DEF AboutADraft
  <2> HIDE DEF noted, counted, h
  <2>4. QED
    BY <1>1, <2>1, <2>2, <2>3, MaybeOpenFrame DEF AboutADraft
<1>6. CASE /\ c.requireProposal /\ m.signal \in {"reject", "other"}
           /\ ~(c.awaitHuman /\ g.pending)
  <2>1. h \in {g, ResetForRedo(g)}
    BY <1>6 DEF CountSignal
  <2>2. ~g.open \/ OnMessage(c, g, m, ps) = g
    BY DEF OnMessage
  <2>3. QED
    BY <1>1, <2>1, <2>2 DEF AboutADraft, ResetForRedo, Gate
<1>7. QED
  BY <1>1, <1>2, <1>3, <1>4, <1>5, <1>6 DEF Signals

LEMMA RosterIsAboutADraft ==
  ASSUME NEW c \in GateConfig, NEW g \in Gate, AboutADraft(c, g),
         NEW ps \in SUBSET Agents
  PROVE  AboutADraft(c, SetParticipants(c, g, ps))
<1> DEFINE k == [g EXCEPT !.participants = ps, !.approvals = @ \cap ps]
<1>1. /\ k \in Gate /\ k.proposal = g.proposal /\ k.author = g.author
      /\ k.approvals \subseteq g.approvals
      /\ k.open = g.open /\ k.pending = g.pending
  BY DEF Gate
<1>2. SetParticipants(c, g, ps) = IF g.open THEN k ELSE MaybeOpen(c, k)
  BY DEF SetParticipants
<1>3. /\ MaybeOpen(c, k).proposal = g.proposal /\ MaybeOpen(c, k).author = g.author
      /\ MaybeOpen(c, k).approvals = k.approvals
  BY <1>1, MaybeOpenFrame
<1>4. ~(c.requireProposal => g.proposal) => MaybeOpen(c, k) = k
  BY <1>1 DEF MaybeOpen
<1> HIDE DEF k
<1>5. QED
  BY <1>1, <1>2, <1>3, <1>4 DEF AboutADraft
=============================================================================
