\* Four lines typed: a refused and an accepted login, then two requests.
SPECIFICATION FairSpec
CONSTANTS
  Users = {u1, u2}
  Rooms = {general, games}
  kDefaultRoom = general
  Empty = Empty
  Torn = Torn
  MaxLines = 4
  MaxNotices = 1
INVARIANTS PromptShowsUser NoLostLogin QuietRoomAgrees NoFalseAlarm
PROPERTIES LeavingEnds AnswerEndsWait
