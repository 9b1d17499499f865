\* Two clients race to create an account; then every message type but direct
\* messages, every handler thread scheduled, and the peer of c1 may stop reading for
\* ever.
SPECIFICATION FairSpec
CONSTANTS
  Users = {u1}
  Passwords = {p1}
  NoAccount = NoAccount
  Rooms = {general, games}
  Contents <- MCContents
  Times = {1}
  StorageFails = FALSE
  Conns = {c1, c2}
  NoConn = NoConn
  NoUser = NoUser
  Fds = {f1, f2}
  INVALID_SOCKET = INVALID_SOCKET
  kDefaultRoom = general
  kHistoryLimit = 1
  MaxHistory = 2
  FrameRows = 2
  RoomListLimit = 2
  Limits <- MCLimits
  NoNumber = NoNumber
  Kinds = {"Register", "Login", "Chat", "Join", "HistoryReq", "RoomsReq", "UsersReq", "Other", "Quit"}
  LongTexts = {}
  LossyPeers = {}
  SlowPeers = {c1}
  Restarts = FALSE
  InitialAccounts <- MCNoneRegistered
  Watched = {"ChatMsg", "History", "created"}
  MaxReads = 2
INVARIANTS TypeOK OneCreator
PROPERTIES LeaverIsClosed MessageIsShown
