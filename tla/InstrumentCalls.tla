-------------------------- MODULE InstrumentCalls --------------------------
(***************************************************************************)
(* Two callers at one instrument: any two methods of a driver that concern *)
(* each other, in any interleaving of their lines, and any two requests of *)
(* its REST routes, in any interleaving of their facade calls.             *)
(***************************************************************************)
EXTENDS Calls, PsuDrivers, DmmDrivers, ScopeDrivers, SgDrivers, SaDrivers, EloadDrivers, Routes

Drivers ==
  PowerSupplies \union Multimeters \union Scopes \union SignalGenerators
    \union SpectrumAnalyzers \union ElectronicLoads

Touches(a) == Sets(a) \union Assigns(a)

Uses(a) == Reads(a) \union Selectors(a) \union Touches(a)

Weight(a) == IF a.steps = <<>> THEN 0
             ELSE IF Len(a.steps) > 1 THEN 2
             ELSE IF a.steps[1].do = "get" THEN Len(a.steps[1].on) ELSE 1

\* Two scripts are worth running against each other when one touches what the other
\* uses and at least one of them is more than a line.
Related(a, b) ==
  /\ Weight(a) + Weight(b) > 2
  /\ (Touches(a) \intersect Uses(b)) \union (Touches(b) \intersect Uses(a)) # {}

Pairs(M) == {p \in [Callers -> M] : \A c, d \in Callers : c # d => Related(p[c], p[d])}

\* What the callers do: the value of Plans.
DriverPlans == UNION {Pairs(M) : M \in Drivers} \union UNION {Pairs(Requests(R)) : R \in DeviceRoutes}

Symmetry == Permutations(Callers)
============================================================================
