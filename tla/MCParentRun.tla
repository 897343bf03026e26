---------------------------- MODULE MCParentRun ----------------------------
(***************************************************************************)
(* ParentRun on a plan of three units: 3 depends on 1, and 1 and 2 share a *)
(* conflict key; and on plans of two independent units and of one unit.    *)
(***************************************************************************)
EXTENDS ParentRun, TLC

CONSTANT key

PlanUnits   == 1..3
PlanDepends == [u \in PlanUnits |-> IF u = 3 THEN {1} ELSE {}]
PlanKeys    == [u \in PlanUnits |-> IF u = 3 THEN {} ELSE {key}]

PairUnits   == 1..2
PairDepends == [u \in PairUnits |-> {}]
PairKeys    == [u \in PairUnits |-> {}]

SoloUnits   == {1}
SoloDepends == [u \in SoloUnits |-> {}]
SoloKeys    == [u \in SoloUnits |-> {}]

CommandSymmetry == Permutations(Commands)
=============================================================================
