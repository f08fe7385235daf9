SPECIFICATION Spec
INVARIANTS MostSpecific RefinedStaysUsable
