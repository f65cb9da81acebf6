CONSTANT Programs <- MCPrograms
CONSTANT Devices <- MCNoSlaves
SPECIFICATION Spec
INVARIANT ClosedBeforeNext
