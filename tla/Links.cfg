SPECIFICATION Spec
CONSTANTS
  A = A
  B = B
  Files = {A, B}
  MaxFiles = 2
  Addresses <- MCAddresses
  Names = {"x", "y"}
  Targets <- MCTargets
  MaxDepth = 2
  Here = Here
  Free = Free
  NoLink = NoLink
INVARIANTS TypeOK RememberedIsRight
PROPERTY FollowingEnds
