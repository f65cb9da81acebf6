CONSTANT Programs <- MCPrograms
CONSTANT Devices <- MCDevices
SPECIFICATION Spec
INVARIANTS TypeOK NothingLeftInQueue BooksAgree FailuresStayLocal ClosedBeforeNext
PROPERTY ImplementsPollOnce
