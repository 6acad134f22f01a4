SPECIFICATION NoticesSpec
CONSTANTS
  Requests = {r1}
  Students = {s1}
  Reader = s1
  Clicks = {c1}
  MaxStalls = 1
  MaxMoves = 1
  MaxCrashes = 1
  MaxOpens = 1
  NoNotice = NoNotice
CHECK_DEADLOCK FALSE
INVARIANT BadgeIsUnread
PROPERTIES NewsComes RemindersCome
