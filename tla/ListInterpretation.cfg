SPECIFICATION Spec
CONSTANTS
  Blocks <- ShortBlocks
  Elements <- NoneOrTwo
  Trips <- AnyTrips
  TripCounts <- AnyTripCount
INVARIANTS
  TypeOK
  ReadersSeeTheSameList
  LoopsAreUnrolledFaithfully
  RefinedSizesAreRight
  RewritingMakesProgress
