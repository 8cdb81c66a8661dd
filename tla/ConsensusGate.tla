--------------------------- MODULE ConsensusGate ---------------------------
(***************************************************************************)
(* One phase's consensus gate with the parties that drive it: the agents,  *)
(* each working from the view of the gate it was given at the start of its *)
(* step, the human, the message server that appends a message before it    *)
(* shows it to the gate, and set_roster.                                   *)
(*                                                                         *)
(* Between the append and the subscribers' turn a server with a database   *)
(* awaits the INSERT (server.py, send_message); inflight holds the         *)
(* messages in that window.  aiosqlite serves one connection from one      *)
(* thread in request order, so they leave it in append order.              *)
(***************************************************************************)
EXTENDS GateRules, Naturals, Sequences

CONSTANTS RequireProposal, AwaitHuman,  \* the gate's configuration
          Persist,                      \* the server has a db_path
          MaxDrafts,         \* bound: drafts ever posted
          MaxRejects,        \* bound: REJECT: messages ever posted
          MaxRosterChanges,  \* bound: set_roster calls
          MaxRounds          \* bound: begin_round calls

ASSUME GateConstants ==
    /\ Agents # {}
    /\ RequireProposal \in BOOLEAN /\ AwaitHuman \in BOOLEAN
    /\ Persist \in BOOLEAN
    /\ MaxDrafts \in Nat /\ MaxRejects \in Nat
    /\ MaxRosterChanges \in Nat /\ MaxRounds \in Nat

Config == [requireProposal |-> RequireProposal, awaitHuman |-> AwaitHuman]

VARIABLES
    gate,      \* the ConsensusGate object
    thread,    \* participants of the gate's thread on the server
    inflight,  \* messages appended but not yet shown to the gate
    view,      \* per agent: the gate_needs_signal copy of its current step,
               \* and the draft it has read
    drafts, rejects, rosterChanges, rounds,   \* bounded counters
    current,   \* history: number of the draft the gate is voting on, or 0
    tally      \* history: per agent, the draft its counted vote was counted
               \* for and the draft its author had read when voting

vars == <<gate, thread, inflight, view, drafts, rejects, rosterChanges,
          rounds, current, tally>>

Draft == 0..MaxDrafts

Message == [author : Authors, signal : Signals, draft : Draft]

NoVote == [counted |-> 0, read |-> 0]

TypeOK ==
    /\ gate \in Gate
    /\ thread \subseteq Agents
    /\ inflight \in Seq(Message)
    /\ view \in [Agents -> [needs : BOOLEAN, saw : Draft]]
    /\ drafts \in Draft /\ rejects \in 0..MaxRejects
    /\ rosterChanges \in 0..MaxRosterChanges /\ rounds \in 0..MaxRounds
    /\ current \in Draft
    /\ tally \in [Agents -> [counted : Draft, read : Draft]]

\* Session._setup binds every gate; a gate whose thread is missing after a
\* restart stays unbound and is bound by name (restore, collaboration.py).
Init ==
    /\ gate \in {NewGate, BindToThread(NewGate, Agents)}
    /\ thread = Agents
    /\ inflight = <<>>
    /\ view = [a \in Agents |-> [needs |-> RequireProposal, saw |-> 0]]
    /\ drafts = 0 /\ rejects = 0 /\ rosterChanges = 0 /\ rounds = 0
    /\ current = 0
    /\ tally = [a \in Agents |-> NoVote]
----------------------------------------------------------------------------
(* The message server and the gate's subscription. *)

\* The draft message m leaves the gate voting on: its own when the gate takes
\* it, none after a reset.
DraftAfter(m, g) ==
    IF ~g.proposal THEN 0
    ELSE IF m.signal = "entry" /\ g.author = m.author /\ ~gate.open
            /\ ~(AwaitHuman /\ gate.pending)
         THEN m.draft
         ELSE current

TallyAfter(m, g, d) ==
    [a \in Agents |->
        IF a \notin g.approvals THEN NoVote
        ELSE IF a = m.author /\ (a \notin gate.approvals \/ d # current)
             THEN [counted |-> d, read |-> m.draft]
             ELSE tally[a]]

\* The subscribers run: on_message, and the history beside it.
Handle(m) ==
    LET g == OnMessage(Config, gate, m, thread)
        d == DraftAfter(m, g)
    IN  /\ gate' = g
        /\ current' = d
        /\ tally' = TallyAfter(m, g, d)

\* send_message / human_send: without a database there is no await between
\* the append and the subscribers.
Send(m) ==
    IF Persist
    THEN /\ inflight' = Append(inflight, m)
         /\ UNCHANGED <<gate, current, tally>>
    ELSE Handle(m) /\ UNCHANGED inflight

Publish ==
    /\ inflight # <<>>
    /\ Handle(Head(inflight))
    /\ inflight' = Tail(inflight)
    /\ UNCHANGED <<thread, view, drafts, rejects, rosterChanges, rounds>>

\* step() awaits its tool calls one at a time.
Sending(x) == \E i \in DOMAIN inflight : inflight[i].author = x
----------------------------------------------------------------------------
(* The agents: a step starts with fresh copies and drains the inbox; the   *)
(* tool layer then checks each signal against copies and live views.       *)

FreshView == [needs |-> RequireProposal /\ ~gate.proposal, saw |-> current]

StepStart(a) ==
    /\ ~Sending(a)
    /\ view[a] # FreshView
    /\ view' = [view EXCEPT ![a] = FreshView]
    /\ UNCHANGED <<gate, thread, inflight, drafts, rejects, rosterChanges,
                   rounds, current, tally>>

CanSend(a) == a \in thread /\ ~Sending(a)

\* Not denied by gate_already_open or draft_already_posted.
PostDraft(a) ==
    /\ CanSend(a)
    /\ ~gate.open
    /\ gate.author \in {Nobody, a}
    /\ drafts < MaxDrafts
    /\ drafts' = drafts + 1
    /\ Send([author |-> a, signal |-> "entry", draft |-> drafts + 1])
    /\ UNCHANGED <<thread, view, rejects, rosterChanges, rounds>>

\* Not denied by entry_signal_required (a copy) or already_approved (live).
PostApprove(a) ==
    /\ CanSend(a)
    /\ ~view[a].needs
    /\ a \notin gate.approvals
    /\ Send([author |-> a, signal |-> "approve", draft |-> view[a].saw])
    /\ UNCHANGED <<thread, view, drafts, rejects, rosterChanges, rounds>>

PostReject(a) ==
    /\ CanSend(a)
    /\ rejects < MaxRejects
    /\ rejects' = rejects + 1
    /\ Send([author |-> a, signal |-> "reject", draft |-> view[a].saw])
    /\ UNCHANGED <<thread, view, drafts, rosterChanges, rounds>>

\* The human passes no tool layer and writes to any thread.
HumanPost(signal) ==
    /\ ~Sending(Human)
    /\ signal = "entry" => drafts < MaxDrafts
    /\ signal = "reject" => rejects < MaxRejects
    /\ drafts' = IF signal = "entry" THEN drafts + 1 ELSE drafts
    /\ rejects' = IF signal = "reject" THEN rejects + 1 ELSE rejects
    /\ Send([author |-> Human, signal |-> signal, draft |-> drafts'])
    /\ UNCHANGED <<thread, view, rosterChanges, rounds>>
----------------------------------------------------------------------------
(* The protocol: set_roster replaces the quorum, begin_round resets. *)

\* Until the protocol completes, set_roster is never called while a gate waits
\* for the human (property RosterSettledBeforeHuman of Collaboration).
SetRoster(ps) ==
    /\ rosterChanges < MaxRosterChanges
    /\ ps # {}
    /\ ~gate.pending
    /\ rosterChanges' = rosterChanges + 1
    /\ gate' = SetParticipants(Config, gate, ps)
    /\ thread' = IF gate.bound THEN ps ELSE thread
    /\ tally' = [a \in Agents |->
                    IF a \in gate'.approvals THEN tally[a] ELSE NoVote]
    /\ UNCHANGED <<inflight, view, drafts, rejects, rounds, current>>

\* begin_round: reset in place, then the initial roster.
BeginRound(ps) ==
    /\ rounds < MaxRounds
    /\ ps # {}
    /\ gate.open
    /\ rounds' = rounds + 1
    /\ gate' = SetParticipants(Config, ResetForRound(gate), ps)
    /\ thread' = ps
    /\ current' = 0
    /\ tally' = [a \in Agents |-> NoVote]
    /\ UNCHANGED <<inflight, view, drafts, rejects, rosterChanges>>

Next ==
    \/ \E a \in Agents :
          StepStart(a) \/ PostDraft(a) \/ PostApprove(a) \/ PostReject(a)
    \/ \E s \in {"entry", "approve", "reject"} : HumanPost(s)
    \/ Publish
    \/ \E ps \in SUBSET Agents : SetRoster(ps) \/ BeginRound(ps)

Spec == Init /\ [][Next]_vars
----------------------------------------------------------------------------
(* What makes the gate correct. *)

\* Votes are only ever held for the draft the gate is voting on: each counted
\* vote was counted after that draft arrived (the approvals.clear() of
\* on_message and _reset_for_redo), and no vote is held without a draft.
VotesAreForTheCurrentDraft ==
    RequireProposal =>
        \A a \in gate.approvals : current # 0 /\ tally[a].counted = current

\* The gate opens only in a step that leaves everybody in the quorum counted,
\* with the proposal it requires, and, where the phase asks for the human,
\* only from the state that waits for the human with the agents unanimous.
OpensOnUnanimity ==
    [][~gate.open /\ gate'.open =>
         /\ Unanimous(gate')
         /\ RequireProposal => gate'.proposal
         /\ AwaitHuman => gate.pending /\ Unanimous(gate)]_vars

\* A participant's counted vote is lost only to a withdrawn proposal (a
\* REJECT: or a new round) or a replacement of the draft by its own author; a
\* rival draft, a repeated vote or a roster change never costs a vote.
VotesLostOnlyWithTheirDraft ==
    [][\/ gate.approvals \cap gate'.participants \subseteq gate'.approvals
       \/ ~gate'.proposal
       \/ current' # current /\ gate'.author = gate.author]_vars

\* A gate all of whose participants are counted is open or waits for the
\* human, so nobody is left waiting for a vote already given (the re-checks in
\* on_message and set_participants), and the human is asked only about what
\* the whole quorum approved.
NeverStuckUnanimous == Settled(Config, gate)

\* The comment at draft_author: votes belong to a specific draft.  Read as a
\* promise about the voters, the gate opens on a draft every voter has read.  The
\* code does not keep this: see README, "Where code and documents disagree".
OpensOnTheDraftVotersRead ==
    [][~gate.open /\ gate'.open =>
         \A a \in gate'.participants : tally'[a].read = current']_vars

\* The gate implements the abstract vote.
AbstractVote ==
    INSTANCE UnanimousVote WITH Voters <- Agents, quorum <- gate.participants,
                                votes <- gate.approvals, decided <- gate.open
ImplementsVote == AbstractVote!Spec
============================================================================
