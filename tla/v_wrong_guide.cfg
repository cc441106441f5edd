CONSTANTS
  j1 = j1  j2 = j2
  Users = {1, 2}
  MayBecome <- OnePartner
  ProfileId <- SwappedIds
  Owners = {1}
  Jobs = {j1, j2}
  Faults = {}
  None = None
SPECIFICATION Spec
CHECK_DEADLOCK FALSE
INVARIANT ToursOutliveGuides
