SPECIFICATION Spec
CONSTANT Setups <- TwoThreads
INVARIANT NoFreedRead
