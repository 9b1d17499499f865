\* A descriptor is closed and reused between the search for the target and the send.
SPECIFICATION Spec
CONSTANTS
  Users = {u1, u2}
  Passwords = {p1}
  NoAccount = NoAccount
  Rooms = {general, games}
  Contents <- MCContents
  Times = {1}
  StorageFails = FALSE
  Conns = {c1, c2, c3}
  NoConn = NoConn
  NoUser = NoUser
  Fds = {f1, f2}
  INVALID_SOCKET = INVALID_SOCKET
  kDefaultRoom = general
  kHistoryLimit = 1
  MaxHistory = 2
  FrameRows = 2
  RoomListLimit = 2
  Limits = {}
  NoNumber = NoNumber
  Kinds = {"Login", "Direct"}
  LongTexts = {}
  LossyPeers = {}
  SlowPeers = {}
  Restarts = FALSE
  InitialAccounts <- MCAllRegistered
  Watched = {"DirectMsg"}
  MaxReads = 2
SYMMETRY MCSymmetry
INVARIANTS DirectReachesItsUsers
