SPECIFICATION Spec
CONSTANT Setups <- CheckedSetups
INVARIANTS AllApplicationsFound BestRulesKept NoUntranslatableWord
PROPERTY ParseEnds
