SPECIFICATION FairSpec
CONSTANTS
  Clients = {c1}
  MaxAttempts = 3
INVARIANTS TypeOK RecordsMatchAnswers
PROPERTIES ImplementsRemoteCall TimedIsAnswered
