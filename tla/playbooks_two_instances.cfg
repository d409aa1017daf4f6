CONSTANT MaxInstances = 3
SPECIFICATION Spec
INVARIANT SingleInstance
