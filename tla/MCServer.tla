------------------------------ MODULE MCServer ------------------------------
(***************************************************************************)
(* Model checking, in one run, of the parts that start and stop            *)
(* conversations.  The parts share no state, so every behaviour exercises  *)
(* one of them, chosen at the start by focus, and leaves the others in     *)
(* their initial states.                                                   *)
(***************************************************************************)
EXTENDS Sessions, Conversations, Cluster, NestedConversations, AppConversations,
        PendingMessages, TLC

VARIABLE focus  \* the part this behaviour exercises

serverVars == <<focus, sessionsVars, conversationsVars, clusterVars, nestedVars, appVars,
                pendingVars>>

\* The identifiers of all the parts are drawn from two pairs of model values, and nothing
\* tells the two values of a pair apart.
Symmetry == Permutations(Sids) \cup Permutations(Conns)

ServerInit ==
    /\ focus \in {"sessions", "conversations", "cluster", "nested", "app", "pending"}
    /\ SessionsInit /\ ConversationsInit /\ ClusterInit /\ NestedInit
    /\ AppInit /\ PendingInit

ServerNext ==
    \/ focus = "sessions" /\ SessionsNext
       /\ UNCHANGED <<focus, conversationsVars, clusterVars, nestedVars, appVars, pendingVars>>
    \/ focus = "conversations" /\ ConversationsNext
       /\ UNCHANGED <<focus, sessionsVars, clusterVars, nestedVars, appVars, pendingVars>>
    \/ focus = "cluster" /\ ClusterNext
       /\ UNCHANGED <<focus, sessionsVars, conversationsVars, nestedVars, appVars, pendingVars>>
    \/ focus = "nested" /\ NestedNext
       /\ UNCHANGED <<focus, sessionsVars, conversationsVars, clusterVars, appVars,
                      pendingVars>>
    \/ focus = "app" /\ AppNext
       /\ UNCHANGED <<focus, sessionsVars, conversationsVars, clusterVars, nestedVars,
                      pendingVars>>
    \/ focus = "pending" /\ PendingNext
       /\ UNCHANGED <<focus, sessionsVars, conversationsVars, clusterVars, nestedVars, appVars>>

ServerSpec == ServerInit /\ [][ServerNext]_serverVars

(* Every part's state is well typed (the bounds of the queues and counters *)
(* the code keeps are part of it).                                         *)
ServerTypeOK ==
    /\ SessionsTypeOK /\ ConversationsTypeOK /\ ClusterTypeOK
    /\ NestedTypeOK /\ AppTypeOK /\ PendingTypeOK
=============================================================================
