-------------------------- MODULE MCTopicMembership --------------------------
(* A diagram, an object and two tags for TLC.                                *)
EXTENDS TopicMembership, TLC

\* What is explored: a connection that stays open and has no direct subscriptions.
\* Once there has been an edit it asks for topics it does not have, and gives one up
\* while that topic is reconciled.
TopicsOnly ==
    \A c \in Connections :
        /\ c \in open
        /\ direct[c] = {}
        /\ edits > 0 =>
             CASE reader[c].op = "subscribe"   -> reader[c].left \subseteq Topics \ topics[c]
               [] reader[c].op = "unsubscribe" -> reader[c].left = {consumer.topic}
               [] OTHER                        -> TRUE

Symmetry == Permutations(Tags)

=============================================================================
