CONSTANTS
  selfie = selfie  licence = licence  a1 = a1  a2 = a2  r1 = r1  r2 = r2
  Photos = {selfie}
  PhotosOf <- ForDrivers
  Selfie = selfie
  Avatars = {a1, a2}
  Requests = {r1, r2}
  Faults = {"api", "s3"}
  MaxLinks = 1
  OtherRoles = {"customer"}
  None = None
SPECIFICATION Spec
SYMMETRY Symmetry
INVARIANT TypeOK CheckedFirst PhotosKept AvatarAlive
PROPERTY CancelSparesModeration KeepsPartnership
