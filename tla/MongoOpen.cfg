SPECIFICATION Spec
INVARIANT ConstructorsCached
