CONSTANTS
  Addresses <- MCAddresses
  Arrays <- MCArrays
  Width = 7
SPECIFICATION Spec

PROPERTY EmptyIsNotFound
