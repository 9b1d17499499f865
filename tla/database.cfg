\* The class's methods step by step, with failing statements and restarts.
SPECIFICATION FairSpec
CONSTANTS
  Users = {u1}
  Passwords = {p1, p2}
  NoAccount = NoAccount
  Rooms = {r1}
  Contents = {m1}
  Times = {1, 2}
  StorageFails = TRUE
  Threads = {t1, t2}
  Limits = {1, 2}
  NoCall = NoCall
  NoReply = NoReply
  Main = Main
  Nobody = Nobody
  MaxRows = 2
INVARIANTS SchemaBeforeCalls StatementsAreHeld
PROPERTIES ImplementsService LockIsReleased
