SPECIFICATION FairSpec
CONSTANTS
  Names = {"a", "b"}
  Hosted = {"b"}
  Changing = {"a"}
  MaxChanges = 2
  MaxErrors = 1
  Burst = 1
INVARIANTS ServedIsFresh
PROPERTIES RegistrationWins SweepsSettle PendingIsServed
CHECK_DEADLOCK FALSE
