------------------------------- MODULE SquadRules -------------------------------
(***************************************************************************)
(* domain/fpl_squad.py: what the two ways of building a squad share, the   *)
(* sampler of the starting-XI study and the fill of the free-hit study.    *)
(***************************************************************************)
EXTENDS Integers, Sequences, FiniteSetsExt, Functions

CONSTANTS Players,       \* the players of the frame or pool
          PositionOf,    \* each player's position
          PositionOrder, \* the positions, in POSITIONS order
          Quota,         \* squad places per position (SQUAD_SELECT)
          Budget,        \* BUDGET_CAP_TENTHS
          MaxPerClub     \* MAX_PER_CLUB

Positions == Range(PositionOrder)

ASSUME RulesAssumption ==
  /\ IsFiniteSet(Players)
  /\ PositionOrder \in Seq(Positions)
  /\ PositionOf \in [Players -> Positions]
  /\ Quota \in [Positions -> Nat \ {0}]
  /\ Budget \in Nat /\ MaxPerClub \in Nat \ {0}

(* A position's players: _universes, _group_by_position. *)
At(S, p) == {x \in S : PositionOf[x] = p}
================================================================================
