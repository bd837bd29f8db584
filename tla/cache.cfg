SPECIFICATION Spec
CONSTANT Setups <- CheckedSetups
INVARIANT SameAsWithoutCache
 
