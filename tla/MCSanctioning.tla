--------------------------- MODULE MCSanctioning ---------------------------
(* An application with a date, the draw size of an event and a date of its *)
(* registration profile.  The strict policy lists date and draw size, but  *)
(* the event may also be amended as a whole.                               *)
EXTENDS Sanctioning, TLC

CONSTANTS date, size, closes,     \* fields, and the paths that name them
          event, profile,         \* the event and the profile as a whole
          e1, noPolicy, usta, itf

MCUnder == (date :> {date}) @@ (size :> {size}) @@ (event :> {size}) @@ (profile :> {closes})
MCFirstProposal == [f \in {date, size, closes} |-> 0]

Amended(paths, dropped, ids) == [paths |-> paths, dropped |-> dropped, value |-> 1, ids |-> ids]
MCChange ==
  {Amended({date, profile}, {}, << >>),
   Amended({event}, {}, e1 :> NoId),
   Amended({date, size}, {date}, e1 :> 9)}

MCPolicy ==
  {[endorsements |-> 1,
    guards |-> {[from |-> "CONDITIONALLY_APPROVED", to |-> "APPROVED",
                 guard |-> "ALL_CONDITIONS_MET"]},
    substantial |-> {date, size}, noChange |-> 1, window |-> 2,
    requirements |-> TRUE],
   [endorsements |-> 0, guards |-> {}, substantial |-> {}, noChange |-> 0, window |-> 0,
    requirements |-> FALSE]}

MCWeeks == 0 .. 2

\* The calls about the proposal and its ids depend on endorsements and conditions only through
\* the guards of the transitions: once one of them has had an effect, there are no conditions
\* and at most one endorser, who has endorsed.
Explored ==
  proposal # FirstProposal \/ tournamentId # NoId \/ openings > 0 \/ amendments # << >> =>
    /\ conditions = << >> /\ ~detached
    /\ Len(endorsements) <= 1 /\ \A i \in DOMAIN endorsements : i \in Endorsed

Symmetry == Permutations({usta, itf})
=============================================================================
