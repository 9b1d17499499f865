\* A history longer than a frame.
SPECIFICATION Spec
CONSTANTS
  Users = {u1}
  Passwords = {p1}
  NoAccount = NoAccount
  Rooms = {general, games}
  Contents <- MCContents
  Times = {1}
  StorageFails = FALSE
  Conns = {c1}
  NoConn = NoConn
  NoUser = NoUser
  Fds = {f1}
  INVALID_SOCKET = INVALID_SOCKET
  kDefaultRoom = general
  kHistoryLimit = 1
  MaxHistory = 3
  FrameRows = 2
  RoomListLimit = 2
  Limits = {3}
  NoNumber = NoNumber
  Kinds = {"Login", "Chat", "HistoryReq"}
  LongTexts = {}
  LossyPeers = {}
  SlowPeers = {}
  Restarts = FALSE
  InitialAccounts <- MCAllRegistered
  Watched = {"History"}
  MaxReads = 5
PROPERTIES HistoryIsShown
