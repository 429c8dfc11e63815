\* Two calls that overlap in every way, on every kind of browser.
SPECIFICATION Spec
CONSTANTS
  Calls = {c1, c2}
  Repeats = 2
  None = None
CHECK_DEADLOCK FALSE
INVARIANTS TypeOK Understood NobodyForgotten
PROPERTIES PromiseSpec CalledBack
