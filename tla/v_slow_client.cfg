\* c1 may stop reading for ever.
SPECIFICATION FairSpec
CONSTANTS
  Users = {u1}
  Passwords = {p1}
  NoAccount = NoAccount
  Rooms = {general, games}
  Contents <- MCContents
  Times = {1}
  StorageFails = FALSE
  Conns = {c1, c2}
  NoConn = NoConn
  NoUser = NoUser
  Fds = {f1, f2}
  INVALID_SOCKET = INVALID_SOCKET
  kDefaultRoom = general
  kHistoryLimit = 1
  MaxHistory = 2
  FrameRows = 2
  RoomListLimit = 2
  Limits = {}
  NoNumber = NoNumber
  Kinds = {"Login", "Chat"}
  LongTexts = {}
  LossyPeers = {}
  SlowPeers = {c1}
  Restarts = FALSE
  InitialAccounts <- MCAllRegistered
  Watched = {}
  MaxReads = 2
PROPERTIES SlowClientStallsNobody
