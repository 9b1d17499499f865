\* Two clients log in, chat and switch rooms; the clock may step back, a peer may be
\* gone without a word, and the server may end at any moment and be started again.
SPECIFICATION Spec
CONSTANTS
  Users = {u1}
  Passwords = {p1}
  NoAccount = NoAccount
  Rooms = {general, games}
  Contents <- MCContents
  Times = {1, 2}
  StorageFails = FALSE
  Conns = {c1, c2}
  NoConn = NoConn
  NoUser = NoUser
  Fds = {f1, f2}
  INVALID_SOCKET = INVALID_SOCKET
  kDefaultRoom = general
  kHistoryLimit = 1
  MaxHistory = 2
  FrameRows = 2
  RoomListLimit = 2
  Limits = {}
  NoNumber = NoNumber
  Kinds = {"Login", "Chat", "Join"}
  LongTexts = {}
  LossyPeers = {c1, c2}
  SlowPeers = {}
  Restarts = TRUE
  InitialAccounts <- MCAllRegistered
  Watched = {"ChatMsg", "History"}
  MaxReads = 3
SYMMETRY MCSymmetry
INVARIANTS NoMissedMessage DescriptorsOwned RegistryMatchesHandlers
