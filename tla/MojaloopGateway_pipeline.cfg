SPECIFICATION FairSpec
CONSTANTS
  Payments = {"p1"}
  MaxRestarts = 2
  Careful = TRUE
INVARIANTS TypeOK ConfirmedIsSettled ConfirmationIsBacked BooksMatchReserves
PROPERTIES ImplementsSettlement PipelineEnds
CHECK_DEADLOCK FALSE
