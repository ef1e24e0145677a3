----------------------------- MODULE MCRaftAdmin -----------------------------
(* An instance of RaftAdmin: two nodes, of which the new one discovers the   *)
(* follower and has the leader configured.                                   *)
EXTENDS RaftAdmin

CONSTANTS a, b

TheFollower == <<b>>
TheLeader == <<a>>
OneRetry == [c \in Caller |-> 0]
==============================================================================
