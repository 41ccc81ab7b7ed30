CONSTANTS
  MinBufferSize = 2
  Sizes <- MCSizes
  Lengths <- MCLengths
  MaxBytes = 90
  MaxOwn = 6
  MaxFailures = 2
  Programs <- MCPrograms
SPECIFICATION EmitterSpec
INVARIANT CodeWhereAnnounced
