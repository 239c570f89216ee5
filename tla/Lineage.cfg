SPECIFICATION Spec
CONSTANTS
  a1 = a1
  a2 = a2
  b1 = b1
  b2 = b2
  Names <- MCNames
  IsAsset <- MCIsAsset
  Unknown = Unknown
  MaxEdges = 6
  Depths = {1, 2, 3, 20}
  MaxPaths = 2
  AtlasNodes <- MCAtlasNodes
  AtlasEdges <- MCAtlasEdges
  FocusNodes <- MCFocusNodes
SYMMETRY Symmetry
INVARIANTS
  TypeOK
  WalksMirror
  PathsJoinRootAndBoundary
  BoundaryIsExplained
  PathAgreesWithWalks
  DefaultDepthsSuffice
