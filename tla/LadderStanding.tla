--------------------------- MODULE LadderStanding ---------------------------
(***************************************************************************)
(* What a ladder promises of its standing: a list of members, best first,  *)
(* that changes only by a member joining, leaving, taking the place of a   *)
(* better one in the one way the policy names, or falling by a DROP.       *)
(* concepts/draw-types/ladder.md states it; Ladder implements it with a    *)
(* drawPosition per member.                                                *)
(***************************************************************************)
EXTENDS Naturals, Sequences, SequencesExt

CONSTANT Participants

VARIABLES
  ranking,   \* the members, best first
  policy     \* the rules in force: movement, entryPlacement, consequence

Places == DOMAIN ranking

Moved(i, j) == InsertAt(RemoveAt(ranking, i), j, ranking[i])

Init == ranking = << >>

\* A newcomer joins last or, placed by rating, where everyone from there down falls by one.
Join(p, i) ==
  /\ p \notin ToSet(ranking)
  /\ i = Len(ranking) + 1 \/ policy.entryPlacement = "BY_RATING"
  /\ ranking' = InsertAt(ranking, i, p)

\* The ladder closes up over a member who leaves.
Leave(i) == ranking' = RemoveAt(ranking, i)

\* INSERTION: the winner takes the place, those from there to the winner fall by one.
Rise(i, j) == policy.movement = "INSERTION" /\ j < i /\ ranking' = Moved(i, j)

\* SWAP: the two exchange places and nobody else moves.
Exchange(i, j) ==
  /\ policy.movement = "SWAP" /\ j < i
  /\ ranking' = [ranking EXCEPT ![i] = ranking[j], ![j] = ranking[i]]

\* DROP: nobody takes the place, everyone passed moves up by one.
Fall(i, j) == policy.consequence = "DROP" /\ i < j /\ ranking' = Moved(i, j)

Rearrange ==
  \/ \E p \in Participants, i \in 1 .. Len(ranking) + 1 : Join(p, i)
  \/ \E i \in Places : Leave(i)
  \/ \E i, j \in Places : Rise(i, j) \/ Exchange(i, j) \/ Fall(i, j)

Next == Rearrange /\ UNCHANGED policy

vars == <<ranking, policy>>

Spec == Init /\ [][Next]_vars
=============================================================================
