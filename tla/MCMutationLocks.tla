--------------------------- MODULE MCMutationLocks ---------------------------
(***************************************************************************)
(* The instance of MutationLocks that TLC checks: a draw of a tournament,  *)
(* two methods of one scope and one of another.                            *)
(***************************************************************************)
EXTENDS MutationLocks, TLC

CONSTANTS tournament, draw, score, reset, schedule, SCORING, SCHEDULING

MCPath == {<<tournament>>, <<draw, tournament>>}

MCScopeOf == score :> SCORING @@ reset :> SCORING @@ schedule :> SCHEDULING

MCRequest ==
  {[scope |-> SCORING, methods |-> AllMethods],
   [scope |-> SCORING, methods |-> {score}],
   [scope |-> SCORING, methods |-> {reset}],
   [scope |-> SCHEDULING, methods |-> AllMethods]}
=============================================================================
