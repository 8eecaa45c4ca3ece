---------------------------- MODULE MCSyncEngine -----------------------------
(***************************************************************************)
(* The instance of SyncEngine that TLC checks.                             *)
(***************************************************************************)
EXTENDS SyncEngine, TLC

CONSTANTS deletedDrawIds, modifyMatchUp, k1

\* Deletions are dispatched before modifications (notifySubscribers topicValues).
MCRank == deletedDrawIds :> 1 @@ modifyMatchUp :> 2

\* A keyed notice, one that names its tournament and one that does not, and a
\* write that is only marked.
MCAnnouncement ==
  {[topic |-> modifyMatchUp, key |-> k1, named |-> TRUE],
   [topic |-> deletedDrawIds, key |-> NoKey, named |-> TRUE],
   [topic |-> deletedDrawIds, key |-> NoKey, named |-> FALSE],
   [topic |-> Silent, key |-> NoKey, named |-> TRUE]}

Symmetry == Permutations(Tournament)
=============================================================================
