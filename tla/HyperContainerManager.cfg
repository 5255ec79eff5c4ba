\* Five granules of two bytes, requests that fill a granule, part of one
\* and part of a second one, and up to three hypercontainers.
CONSTANTS
  Granularity = 2
  Top = 12
  Requests = {1, 2, 3}
  Frames = {f1, f2}
  HypersPerPage = 2
  MaxHypers = 3
SPECIFICATION Spec
INVARIANTS RangesAscend ReservationsMatch FramesApart RegistryHasRoom
PROPERTY ReservationEnds
