----------------------------- MODULE GateRules -----------------------------
(***************************************************************************)
(* The vote-counting rules of ConsensusGate (core/protocol/approval.py) as *)
(* operators on one gate's record, so that the stand-alone gate machine    *)
(* and the P1-P5 protocol count votes with the same definitions.           *)
(*                                                                         *)
(* A gate configuration c is [requireProposal, awaitHuman]; a gate g is    *)
(*   bound         - thread_id is set                                      *)
(*   participants  - the quorum                                            *)
(*   approvals     - who has been counted                                  *)
(*   proposal      - _proposal_received                                    *)
(*   author        - draft_author (Nobody for None)                        *)
(*   pending       - human_pending                                         *)
(*   open          - opened_at_seq is not None                             *)
(* A message m is reduced to its author and to the first signal has_signal *)
(* finds in it: "entry" (the gate's entry_prefix), "approve", "reject" or  *)
(* "other".                                                                *)
(***************************************************************************)
CONSTANTS Agents,  \* every agent that may ever be a participant
          Human,   \* the reserved author "human"
          Nobody   \* draft_author when there is no draft

ASSUME AuthorsDistinct ==
    /\ Human \notin Agents
    /\ Nobody \notin Agents \cup {Human}

Authors == Agents \cup {Human}

Signals == {"entry", "approve", "reject", "other"}

GateConfig == [requireProposal : BOOLEAN, awaitHuman : BOOLEAN]

Gate == [bound : BOOLEAN, participants : SUBSET Agents,
         approvals : SUBSET Agents, proposal : BOOLEAN,
         author : Authors \cup {Nobody}, pending : BOOLEAN, open : BOOLEAN]

\* A gate as ConsensusGate.__init__ leaves it.
NewGate == [bound |-> FALSE, participants |-> {}, approvals |-> {},
            proposal |-> FALSE, author |-> Nobody, pending |-> FALSE,
            open |-> FALSE]

BindToThread(g, ps) == [g EXCEPT !.bound = TRUE, !.participants = ps]

ResetForRedo(g) ==
    [g EXCEPT !.approvals = {}, !.pending = FALSE, !.proposal = FALSE,
              !.author = Nobody]

ResetForRound(g) == [ResetForRedo(g) EXCEPT !.open = FALSE]

OpenGate(g) == [g EXCEPT !.pending = FALSE, !.open = TRUE]

Unanimous(g) == g.participants # {} /\ g.participants \subseteq g.approvals

\* Mutated forms of MaybeOpen: one missing vote is tolerated, whatever was
\* proposed; the human stage is skipped.
MaybeOpenAllButOne(c, g) ==
    IF \E a \in Agents : g.participants \ g.approvals \subseteq {a}
    THEN IF c.awaitHuman THEN [g EXCEPT !.pending = TRUE] ELSE OpenGate(g)
    ELSE g

MaybeOpenNoHuman(c, g) ==
    IF Unanimous(g) /\ (c.requireProposal => g.proposal) THEN OpenGate(g) ELSE g

MaybeOpen(c, g) ==
    IF Unanimous(g) /\ (c.requireProposal => g.proposal)
    THEN IF c.awaitHuman THEN [g EXCEPT !.pending = TRUE] ELSE OpenGate(g)
    ELSE g

\* Mutated form of SetParticipants: ghost votes of removed agents stay, and
\* the remaining quorum is not re-evaluated.
SetParticipantsKeepVotes(c, g, ps) ==
    LET h == [g EXCEPT !.participants = ps]
    IN  IF g.open THEN h ELSE MaybeOpen(c, h)

SetParticipantsNoRecheck(c, g, ps) ==
    [g EXCEPT !.participants = ps, !.approvals = @ \cap ps]

SetParticipants(c, g, ps) ==
    LET h == [g EXCEPT !.participants = ps, !.approvals = @ \cap ps]
    IN  IF g.open THEN h ELSE MaybeOpen(c, h)

\* Name-based binding of an unbound gate by the first message that may bind
\* it; ps are the thread's participants.
BindByName(c, g, m, ps) ==
    IF c.requireProposal /\ m.signal # "entry" THEN g
    ELSE [BindToThread(g, ps) EXCEPT !.proposal = @ \/ c.requireProposal]

\* Mutated form of OnDraft: a replaced draft keeps the votes of the old one.
OnDraftKeepVotes(c, g, m) ==
    IF g.author \notin {Nobody, m.author} THEN g
    ELSE MaybeOpen(c, [g EXCEPT
                         !.author = m.author,
                         !.approvals = @ \cup ({m.author} \cap g.participants),
                         !.proposal = TRUE])

\* Mutated form of OnDraft: a rival draft takes over.
OnDraftRivalWins(c, g, m) ==
    LET kept == IF g.author = Nobody THEN g.approvals ELSE {}
    IN  MaybeOpen(c, [g EXCEPT
                        !.author = m.author,
                        !.approvals = kept \cup ({m.author} \cap g.participants),
                        !.proposal = TRUE])

\* A rival draft is ignored; the owner's replacement drops the votes its
\* predecessor collected; writing a draft is a vote for it.
OnDraft(c, g, m) ==
    LET kept == IF g.author = Nobody THEN g.approvals ELSE {}
    IN  IF g.author \notin {Nobody, m.author} THEN g
        ELSE MaybeOpen(c, [g EXCEPT
                             !.author = m.author,
                             !.approvals = kept \cup ({m.author} \cap g.participants),
                             !.proposal = TRUE])

\* Mutated form of OnApprove: whoever writes APPROVE: is counted.
OnApproveAnyone(c, g, m) ==
    IF c.requireProposal /\ ~g.proposal THEN g
    ELSE MaybeOpen(c, [g EXCEPT !.proposal = TRUE,
                                !.approvals = @ \cup {m.author}])

\* Without require_proposal the first agent's APPROVE: stands for the proposal.
OnApprove(c, g, m) ==
    LET h == [g EXCEPT !.proposal = TRUE]
    IN  IF m.author = Human \/ (c.requireProposal /\ ~g.proposal) THEN g
        ELSE IF m.author \in g.participants
             THEN MaybeOpen(c, [h EXCEPT !.approvals = @ \cup {m.author}])
             ELSE h

\* Stage 2: the agents agree and the gate waits for the human; everything but
\* a REJECT: (anybody's) and the human's APPROVE: is ignored.
OnHumanStage(g, m) ==
    CASE m.signal = "reject"                      -> ResetForRedo(g)
      [] m.signal = "approve" /\ m.author = Human -> OpenGate(g)
      [] OTHER                                    -> g

CountSignal(c, g, m) ==
    IF c.awaitHuman /\ g.pending THEN OnHumanStage(g, m)
    ELSE CASE m.signal = "entry"   -> OnDraft(c, g, m)
           [] m.signal = "reject"  -> ResetForRedo(g)
           [] m.signal = "approve" -> OnApprove(c, g, m)
           [] OTHER                -> g

\* on_message for a message on the thread this gate is (or may become) bound
\* to, whose participants are ps.
OnMessage(c, g, m, ps) ==
    LET b == IF g.bound THEN g ELSE BindByName(c, g, m, ps)
    IN  IF g.open \/ ~b.bound THEN g ELSE CountSignal(c, b, m)
----------------------------------------------------------------------------
(* What holds of every gate between two handlers; the modules built on     *)
(* these rules check and prove it of their gates.                          *)

\* A quorum that is complete has opened the gate or handed it to the human,
\* and the human is asked only about a complete quorum.
Settled(c, g) ==
    /\ Unanimous(g) /\ (c.requireProposal => g.proposal) =>
          g.open \/ (c.awaitHuman /\ g.pending)
    /\ g.pending => c.awaitHuman /\ ~g.open /\ Unanimous(g)

\* A gate that requires a proposal holds no vote without one, and knows whose
\* proposal it is.
DraftedBeforeVoted(c, g) ==
    c.requireProposal => /\ g.approvals # {} => g.proposal
                         /\ g.proposal => g.author # Nobody

\* Nothing is counted before the gate has a thread.
UnboundIsBlank(g) ==
    ~g.bound => /\ g.approvals = {} /\ g.author = Nobody
                /\ ~g.proposal /\ ~g.pending /\ ~g.open

GateInv(c, g) ==
    /\ g \in Gate
    /\ Settled(c, g)
    /\ DraftedBeforeVoted(c, g)
    /\ UnboundIsBlank(g)
=============================================================================
