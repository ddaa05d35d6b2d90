SPECIFICATION SuiteSpec
CONSTANTS
  Parts = {"alone", "moves", "weeks", "roadmap", "transfer"}
  Requests = {r1, r2}
  Journeys = {"a", "b"}
  Damaged = {"a"}
  Used = {"vds", "with-review", "optional-review", "done"}
  Yesterday = 1
  LastDay = 2
  MaxVisits = 3
  Accounts = {"m", "n"}
  Staff = {"m"}
  MaxTogether = 2
SYMMETRY Symmetry
INVARIANTS HistoryAgrees TransferSafe
PROPERTY ProofsOnlyGrow
CHECK_DEADLOCK FALSE
