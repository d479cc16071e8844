CONSTANTS
  Width = 16
  Configs <- MCConfigsInRange
SPECIFICATION Spec
INVARIANTS
  TypeOK
  BackoffMatchesReference
