\* One page and one account: two calls in flight, one device; any call may be lost.
SPECIFICATION Spec
CONSTANTS
  Slots = {s1, s2}
  Devices = {d1}
  MaxAsked = 1
SYMMETRY Symmetry
INVARIANTS TypeOK DashboardHasUser OneUserFetch FetchingIsInFlight
INVARIANTS TapHasCall ListTrue SignedInHonest
