\* Heaps of up to three levels.
CONSTANT MaxGuid = 8
SPECIFICATION Spec
INVARIANT IdsPartitioned
PROPERTY ImplementsGuidAlloc
