\* Chat and direct messages and room switches with failing storage; the peer of c1 may
\* stop reading or be gone without a word.
SPECIFICATION Spec
CONSTANTS
  Users = {u1, u2}
  Passwords = {p1}
  NoAccount = NoAccount
  Rooms = {general, games}
  Contents <- MCContents
  Times = {1}
  StorageFails = TRUE
  Conns = {c1, c2}
  NoConn = NoConn
  NoUser = NoUser
  Fds = {f1, f2}
  INVALID_SOCKET = INVALID_SOCKET
  kDefaultRoom = general
  kHistoryLimit = 1
  MaxHistory = 2
  FrameRows = 2
  RoomListLimit = 2
  Limits = {}
  NoNumber = NoNumber
  Kinds = {"Login", "Chat", "Direct", "Join"}
  LongTexts = {}
  LossyPeers = {c1}
  SlowPeers = {c1}
  Restarts = FALSE
  InitialAccounts <- MCOneRegistered
  Watched = {"ChatMsg", "DirectMsg", "not stored", "joined", "left", "AuthOk", "Joined"}
  MaxReads = 2
SYMMETRY MCSlowSymmetry
INVARIANTS ShownIsStoredOrReported EchoMeansDelivered PresenceAccurate NoSilentNeighbours
