SPECIFICATION FairSpec
CONSTANTS
  u1 = u1
  u2 = u2
  c1 = c1
  c2 = c2
  c3 = c3
  r1 = r1
  r2 = r2
  None = None
  Users = {u1}
  Clients = {c1, c2}
  Rooms = {r1}
  UserOf <- MCUserOf
  MayLag = {c2}
  ChanCap = 4
  UnbindCap = 1
  Grace = TRUE
CHECK_DEADLOCK FALSE
INVARIANTS
  DropNotForgotten
PROPERTIES
  LiveSeatKept
  HubNeverStuck
  DroppedSeatFreed
