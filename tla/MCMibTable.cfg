CONSTANTS
  Statics <- MCStatics
  Subtrees <- MCSubtrees
  Overlays <- MCOverlays
  SubIds <- MCSubIds
  Starts <- MCStarts
  Ends <- MCEnds
  None = None
SPECIFICATION Spec
INVARIANTS TypeOK ClosestSuccessor GetAgrees WalkAscends WalkComplete
