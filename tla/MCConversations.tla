--------------------------- MODULE MCConversations ---------------------------
\* The instances of Conversations that TLC checks.
EXTENDS Conversations, TLC

AllOperations == Routes

\* The routes that decide who is in which conversation.
Membership == {"create_conversation", "add_participants", "remove_participant",
               "leave_conversation"}

\* The routes that can wait for each other in a circle.
Joining == {"create_conversation", "add_participants"}

Symmetry == Permutations(Members) \cup Permutations(Convs) \cup Permutations(Messages)
            \cup Permutations(Requests)
=============================================================================
