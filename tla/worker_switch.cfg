SPECIFICATION FairSpec
CONSTANT K = 4
INVARIANTS
  TypeOK
  OneAtATime
  RunsWhatWasChosen
PROPERTIES
  HandOverCompletes
  ConstructorReturns
  DestructorReturns
