---------------------------- MODULE MCPlanGates ----------------------------
(* PlanGates on a small instance; tool calls are interchangeable.          *)
EXTENDS PlanGates, TLC

Symmetry == Permutations(Call)

(* Bound: of a plan that was overtaken nothing more is claimed, and the    *)
(* only plan of the instance is not followed beyond that point.            *)
UntilOvertaken == overtaken = {}
=============================================================================
