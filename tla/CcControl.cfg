\* Every device kind, from every knob setting, legal or not.
CONSTANTS
  Profiles <- MCProfiles
  StartKnobs <- MCStartKnobs
SPECIFICATION Spec
INVARIANTS
  TypeOK
  StoredHolds
  ActivatedRuns
  AnswerIsRunning
PROPERTIES
  NeverCcdOnly
  NoNewConflict
  LadderSpec
