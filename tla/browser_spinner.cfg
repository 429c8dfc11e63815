\* One page and one account: a sign-up that fails twice.
SPECIFICATION Spec
CONSTANTS
  Slots = {s1, s2}
  Devices = {d1}
  MaxAsked = 1
SYMMETRY Symmetry
INVARIANTS LoadingDone
