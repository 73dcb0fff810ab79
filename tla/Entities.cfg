SPECIFICATION Spec
CONSTANTS
  Names <- ThreeNames
  Fits <- MCFits
  d1 = d1
  d2 = d2
  Data = {d1, d2}
  Bare = Bare
  Unread = Unread
  Base_t = Base_t
  Zone_t = Zone_t
  ReferenceState_t = ReferenceState_t
  FlowEquationSet_t = FlowEquationSet_t
  DataArray_t = DataArray_t
  Descriptor_t = Descriptor_t
INVARIANTS TypeOK SameAfterReopening
SYMMETRY MCSymmetry
