CONSTANTS
  Addresses <- MCAddresses
  Arrays <- MCArrays
  Width = 7
SPECIFICATION Spec
INVARIANTS SearchCorrect ProbesInBounds TargetInReach
PROPERTY SearchTerminates
