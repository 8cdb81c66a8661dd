--------------------------- MODULE MCConversation ---------------------------
\* One agent's conversation: mentions of the agent and chatter from a thread
\* it is not in; attention with the default weights and summaries by rule, and
\* no attention policy and summaries by a model.
EXTENDS Conversation

Message(mention) ==
    [human |-> FALSE, urgent |-> FALSE, inner |-> FALSE, mention |-> mention,
     member |-> FALSE, recent |-> FALSE]

SomeKinds == {Message(TRUE), Message(FALSE)}

Default == [on |-> TRUE, digest |-> TRUE, mention |-> 50, member |-> 25, recent |-> 20,
            ignore |-> 15, skim |-> 45, llm |-> FALSE,
            floor |-> [near_gate |-> 50, p1_ready_pending |-> 15, default |-> 0]]

SomePolicies == {Default, [Default EXCEPT !.on = FALSE, !.llm = TRUE]}
=============================================================================
