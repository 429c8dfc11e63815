\* Two requests at a time, a page with copies; any call may fail, half-way.
SPECIFICATION Spec
CONSTANTS
  Procs = {p1, p2}
  Titles = {t1}
  Secrets = {x, y}
  EntryIds = {e1, e2, e3}
  KeyIds = {k1, k2}
  Names = {}
  Materials = {m1}
  MaxVersion = 3
  StoreMayFail = TRUE
  None = None
SYMMETRY Symmetry
INVARIANTS TypeOK VersionNamesSecret KeysDistinct
PROPERTIES RevokeLeavesNoneOld BumpedPastOld
