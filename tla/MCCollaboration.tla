-------------------------- MODULE MCCollaboration --------------------------
(* The model-checking instances of Collaboration. *)
EXTENDS Collaboration, TLC

CONSTANTS a1, a2, a3

\* a3 is on the bench until a draft assigns it work; the other draft leaves
\* everything to a1.
TwoPlans ==
    {[assigned |-> {a2, a3}, submitter |-> a3, split |-> FALSE],
     [assigned |-> {}, submitter |-> a1, split |-> TRUE]}

\* a2 is on the bench: one draft brings it in, one leaves everything to a1,
\* one names no submitter.
PairPlans ==
    {[assigned |-> {a1, a2}, submitter |-> a2, split |-> FALSE],
     [assigned |-> {}, submitter |-> a1, split |-> TRUE],
     [assigned |-> {a2}, submitter |-> Nobody, split |-> FALSE]}

\* The draft elects a submitter and says nothing else.
SubmitterOnlyPlans ==
    {[assigned |-> {}, submitter |-> a3, split |-> FALSE]}
============================================================================
