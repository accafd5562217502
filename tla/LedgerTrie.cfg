SPECIFICATION Spec
CONSTANTS
  ParentOf <- MCParentOf
  Bounds <- MCBounds
INVARIANTS
  ArenaSound
  SupportIsExact
  PreferredIsExact
