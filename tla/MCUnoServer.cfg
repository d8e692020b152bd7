CONSTANTS
  UserId       = {u1, u2}
  WorkspaceId  = {w1}
  BoardId      = {b1, b2}
  InviteToken  = {i1, i2}
  SessionToken = {s1, s2}
  ConnId       = {c1, c2}
  AdminEmail   = root
  Email        = {root, ann}
  MaxFailures  = 1
  MAX_PARTICIPANTS = 2
SYMMETRY Symmetry
SPECIFICATION ServerSpec
INVARIANTS ServerTypeOK ReferentialIntegrity AccessQueriesAgree OneRowPerPerson LiveAccess RoomIffOccupied
PROPERTIES NoOverEviction AccessOnlyByInvite AdminStays
