---------------------------- MODULE MCAsyncEngine ----------------------------
(***************************************************************************)
(* The instance of AsyncEngine that TLC checks.                            *)
(***************************************************************************)
EXTENDS AsyncEngine, FiniteSets, TLC

CONSTANTS deletedDrawIds, modifyMatchUp

MCRank == deletedDrawIds :> 1 @@ modifyMatchUp :> 2

\* Two queues overlap each other and a queue overlaps invokes; once a third call has begun, states
\* with two queues in progress are explored no further.
Explored == begun = MaxCalls => Cardinality({c \in Call : call[c].kind = "queue"}) <= 1
=============================================================================
