SPECIFICATION Spec
CONSTANT Setups <- OutOfOrder
INVARIANT NoClauseCrossed
