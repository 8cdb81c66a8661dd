--------------------------- MODULE UnanimousVote ---------------------------
(***************************************************************************)
(* What a consensus gate promises, without saying how: a changing set of   *)
(* voters, the votes held for the matter at hand, and a decision that is   *)
(* taken only while every voter's vote is held and then stands until the   *)
(* matter is taken up anew.                                                *)
(***************************************************************************)
CONSTANT Voters

VARIABLES quorum,   \* the voters asked
          votes,    \* the votes held
          decided

voteVars == <<quorum, votes, decided>>

AllAgree == quorum # {} /\ quorum \subseteq votes

TypeInv ==
    /\ quorum \subseteq Voters
    /\ votes \subseteq Voters
    /\ decided \in BOOLEAN

Init ==
    /\ quorum \subseteq Voters
    /\ votes = {}
    /\ ~decided

\* The decision may be taken in the step that makes the vote unanimous.
MayDecide == decided' => quorum' # {} /\ quorum' \subseteq votes'

\* A vote is added, or the matter changed and only its proposer's vote holds.
Vote(v) ==
    /\ ~decided
    /\ votes' \in {votes \cup {v}, {v}}
    /\ UNCHANGED quorum
    /\ MayDecide

\* The matter is withdrawn, or replaced by someone who has no vote.
Withdraw ==
    /\ ~decided
    /\ votes' = {}
    /\ decided' = FALSE
    /\ UNCHANGED quorum

\* The quorum may be learned with the first message of a thread.
Convene ==
    /\ ~decided
    /\ quorum' \subseteq Voters
    /\ \/ votes' \subseteq votes
       \/ \E v \in quorum' : votes' \subseteq votes \cup {v}
    /\ MayDecide

Decide ==
    /\ ~decided
    /\ AllAgree
    /\ decided' = TRUE
    /\ UNCHANGED <<quorum, votes>>

\* The quorum changes; a vote of somebody no longer asked does not count.
ChangeQuorum ==
    /\ quorum' \subseteq Voters
    /\ votes' = votes \cap quorum'
    /\ IF decided THEN UNCHANGED decided ELSE MayDecide

Reopen ==
    /\ decided
    /\ quorum' \subseteq Voters
    /\ votes' = {}
    /\ decided' = FALSE

Next ==
    \/ \E v \in Voters : Vote(v)
    \/ Withdraw
    \/ Convene
    \/ Decide
    \/ ChangeQuorum
    \/ Reopen

Spec == Init /\ [][Next]_voteVars
============================================================================
