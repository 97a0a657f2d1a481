SPECIFICATION Spec
CONSTANTS
  Users = {u1, u2}
  Requests = {r1, r2}
  Years = {2025, 2026}
  Sql = {"open", "shut", "--"}
  Configs = {"company", "null"}
  Filled <- FilledIn
  Placeholder = "--"
  PlanWidgets = 1
  MaxDashboards = 3
  MaxTargets = 2
  MaxRequests = 4
  None = None
SYMMETRY Symmetry
INVARIANTS
  OneDefaultDashboard
  WidgetsWithinPlan
  TargetsHaveReferences
  JobsRanTheRecordedText
