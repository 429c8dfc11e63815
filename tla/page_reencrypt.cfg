\* One request of the user at a time, a fetch may fail.
SPECIFICATION Spec
CONSTANTS
  t1 = t1
  t2 = t2
  k1 = k1
  k2 = k2
  k3 = k3
  Slots = {c1, c2}
  UserCalls = 1
  Titles = {t1, t2}
  KeyIds = {k1, k2, k3}
  PrivateIds = {k3}
  MaxVersion = 2
  StartKept <- OneEntry
  StartLive = {k1}
  None = None
SYMMETRY Symmetry
PROPERTIES ReencryptsAll
