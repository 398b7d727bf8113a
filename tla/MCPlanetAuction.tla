-------------------------- MODULE MCPlanetAuction --------------------------
(***************************************************************************)
(* Small instances of PlanetAuction: a planet that is sold at a price that *)
(* rises with every share, players who can afford two shares at most, and  *)
(* a newcomer.                                                             *)
(***************************************************************************)
EXTENDS PlanetAuction

CONSTANTS a1, a2, a3, v1, v2, u1, u2, p1, p2

Value2 == [p \in Planets |-> IF p = p1 THEN 2 ELSE 4]
Visitors == [v \in Visits |-> IF v = v1 THEN u1 ELSE u2]
=============================================================================
