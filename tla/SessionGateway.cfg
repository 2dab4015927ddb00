SPECIFICATION Spec
CONSTANTS
  Sockets = {s1, s2, s3}
  Users = {a, b}
  BadToken = BadToken
SYMMETRY Symmetry
INVARIANTS TypeOK StaleOnlyIfOvertaken
PROPERTIES ImplementsPresence
