SPECIFICATION Spec
CONSTANTS
  Requests = {r1, r2}
  Base = 3
  Width = 1
  Keys = {k1, k2}
  MaxDays = 2
  MaxReleases = 2
  MaxRequests = 5
  None = None
SYMMETRY Symmetry
INVARIANTS
  AttachmentsAreTheirs
  LoneReportsAreStored
  ReleasesHaveFiles
  OneLatestRelease
