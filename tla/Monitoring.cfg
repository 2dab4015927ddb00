SPECIFICATION MCSpec
CONSTANTS
  Names <- MCNames
  LabelSets <- MCLabelSets
  MaxTotal = 3
  Probes = {p1, p2, p3}
SYMMETRY MCSymmetry
INVARIANTS TypeOK RecordedIsShown HealthTypeOK AlarmHasReason UpIsEarned
PROPERTIES ImplementsRegistry
