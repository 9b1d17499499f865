---------------------------- MODULE MCChatServer ----------------------------
(***************************************************************************)
(* Small instances of ChatServer for TLC: the definitions the .cfg files   *)
(* substitute for constants, and the symmetry sets of the safety runs.     *)
(***************************************************************************)
EXTENDS ChatServerProperties, TLC

\* Every text a client can type within the bound on the frames it sends.
MCContents == Conns \X (1..MaxReads)

\* Numbers on both sides of the clamp of handle_history_request.
MCLimits == {-1, 3}

MCAllRegistered == [u \in Users |-> CHOOSE p \in Passwords : TRUE]
MCNoneRegistered == [u \in Users |-> NoAccount]

\* One user can log in and is found, the others are offline.
MCOneRegistered ==
  [MCNoneRegistered EXCEPT ![CHOOSE u \in Users : TRUE] = CHOOSE p \in Passwords : TRUE]

\* Connections, users and descriptors are interchangeable; rooms are not, since
\* kDefaultRoom is one of them.
MCSymmetry ==
  Permutations(Conns) \cup Permutations(Users) \cup Permutations(Fds)

\* The same where only some connections have a slow peer and one user an account.
MCSlowSymmetry ==
  Permutations(SlowPeers) \cup Permutations(Conns \ SlowPeers) \cup Permutations(Fds)
=============================================================================
