--------------------------- MODULE MCToolApproval ---------------------------
(***************************************************************************)
(* Instances of ToolApproval: calls of two agents, two of which differ     *)
(* only in what normalize_args takes away, under two policies.             *)
(***************************************************************************)
EXTENDS ToolApproval
CONSTANTS a1, a2

Push == [agent |-> a1, class |-> "shell", dangerous |-> TRUE, text |-> "push", raw |-> FALSE]
Hook == [agent |-> a2, class |-> "file_write", dangerous |-> FALSE, text |-> "hook", raw |-> FALSE]

SomeCalls == {Push, [Push EXCEPT !.raw = TRUE], Hook}

Modes(sh, f, w) == [c \in Class \ {"ungated"} |->
                       CASE c = "shell" -> sh [] c = "file_write" -> f [] c = "web" -> w]

SomePolicies ==
    {[mode |-> Modes("dangerous", "require", "off"), bypass |-> FALSE],
     [mode |-> Modes("require", "dangerous", "off"), bypass |-> FALSE],
     [mode |-> Modes("require", "require", "require"), bypass |-> TRUE]}
=============================================================================
