------------------------------- MODULE Consent -------------------------------
(***************************************************************************)
(* What the approval of tool calls promises (docs/architecture/            *)
(* TOOL_HUMAN_APPROVAL_DESIGN.md 4.3 and 4.4): a call that a human must    *)
(* approve runs only on a consent given to the very request it opened,     *)
(* once for each consent, and a request that was settled stays settled.    *)
(* Only a crash reopens a request, when what settled it was not saved.     *)
(***************************************************************************)
EXTENDS Naturals

CONSTANT Request

VARIABLES
    standing,  \* per request, how it stands
    consents,  \* per request, the consents given to it
    runs       \* per request, how often its call was run

Standing == {"unasked", "open", "running", "settled"}

vars == <<standing, consents, runs>>

Init == /\ standing = [r \in Request |-> "unasked"]
        /\ consents = [r \in Request |-> 0]
        /\ runs = [r \in Request |-> 0]

Become(r, s) == standing' = [standing EXCEPT ![r] = s]

Ask(r) == /\ standing[r] = "unasked"
          /\ Become(r, "open")
          /\ UNCHANGED <<consents, runs>>

\* A human consents, and the call runs.
Grant(r) == /\ standing[r] = "open"
            /\ Become(r, "running")
            /\ consents' = [consents EXCEPT ![r] = @ + 1]
            /\ runs' = [runs EXCEPT ![r] = @ + 1]

\* A human refuses, or the time to answer is over.
Close(r) == /\ standing[r] = "open"
            /\ Become(r, "settled")
            /\ UNCHANGED <<consents, runs>>

Finish(r) == /\ standing[r] = "running"
             /\ Become(r, "settled")
             /\ UNCHANGED <<consents, runs>>

\* A crash: an open request may be lost, a settled or a running one may
\* be open again, and nothing stays running.
Crash ==
    /\ standing' \in [Request -> Standing]
    /\ \A r \in Request :
          /\ standing[r] = "unasked" <=> standing'[r] = "unasked"
          /\ standing'[r] # "running"
    /\ UNCHANGED <<consents, runs>>

\* Requests that were open when they were saved may come back too late.
Lapse ==
    /\ standing' \in [Request -> Standing]
    /\ \A r \in Request :
          standing'[r] # standing[r] =>
              standing[r] = "open" /\ standing'[r] = "settled"
    /\ UNCHANGED <<consents, runs>>

Next == \/ \E r \in Request : Ask(r) \/ Grant(r) \/ Close(r) \/ Finish(r)
        \/ Crash
        \/ Lapse

Spec == Init /\ [][Next]_vars
==============================================================================
