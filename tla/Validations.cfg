SPECIFICATION Spec
CONSTANTS
  n1 = n1
  n2 = n2
  n3 = n3
  ParentOf <- MCParentOf
  Closed = {0, 1}
  Worlds <- MCWorlds
SYMMETRY NodeSymmetry
INVARIANTS
  SupportExact
  NoLostVoice
PROPERTIES
  SupportIsEarned
  ExactWaitersInstall
