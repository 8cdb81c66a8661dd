---------------------------- MODULE AgreedPhases ----------------------------
(***************************************************************************)
(* What the collaboration protocol promises, without gates, threads or     *)
(* messages: a team goes through the phases in order, leaves each only     *)
(* when every member agrees, and starts the next with nobody's agreement.  *)
(***************************************************************************)
CONSTANT Members

VARIABLES phase,
          team,     \* the members whose agreement counts
          agreed    \* who agrees that the current phase is done

phaseVars == <<phase, team, agreed>>

\* Where each phase may lead: the team may settle on not splitting the work
\* (P2 to P5), and a follow-up question goes straight to the answer.
Follows == [P1_EXPLORE |-> {"P2_SPLIT", "P5_SUBMIT"},
            P2_SPLIT   |-> {"P3_EXECUTE", "P5_SUBMIT"},
            P3_EXECUTE |-> {"P4_REVIEW"},
            P4_REVIEW  |-> {"P5_SUBMIT"},
            P5_SUBMIT  |-> {"COMPLETED"},
            COMPLETED  |-> {"P1_EXPLORE"}]

Init ==
    /\ phase = "P1_EXPLORE"
    /\ team \in (SUBSET Members) \ {{}}
    /\ agreed = {}

\* A member agrees, or changes the matter so that only it still agrees.
Agree(a) ==
    /\ phase # "COMPLETED"
    /\ agreed' \in {agreed \cup {a}, {a}}
    /\ UNCHANGED <<phase, team>>

Retract ==
    /\ phase # "COMPLETED"
    /\ agreed' = {}
    /\ UNCHANGED <<phase, team>>

\* Only the split may change the team.
Leave ==
    /\ phase # "COMPLETED"
    /\ \E a \in Members : team \subseteq agreed \cup {a}
    /\ phase' \in Follows[phase]
    /\ phase = "P2_SPLIT" \/ team' = team
    /\ team' \in (SUBSET Members) \ {{}}
    /\ agreed' = {}

\* Between rounds nothing is being agreed on.
Rest ==
    /\ phase = "COMPLETED"
    /\ phase' \in {"COMPLETED", "P1_EXPLORE"}
    /\ team' \in (SUBSET Members) \ {{}}
    /\ agreed' = {}

Next == (\E a \in Members : Agree(a)) \/ Retract \/ Leave \/ Rest

Spec == Init /\ [][Next]_phaseVars
=============================================================================
