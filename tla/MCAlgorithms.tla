---------------------------- MODULE MCAlgorithms ----------------------------
(***************************************************************************)
(* Bounded inputs for Algorithms: two-valued bytes and two-byte integers,  *)
(* so that lengths run from 0 to 3 and times from -2 to 1; names of one or *)
(* two letters; texts of a few characters of every kind the rules     *)
(* tell apart.                                                             *)
(***************************************************************************)
EXTENDS Algorithms

\* All sequences over S of at most n elements.
UpTo(S, n) == UNION {[1..k -> S] : k \in 0..n}

MCAlphabet == <<"\t", "\n", " ", "-", "1", "9", ":", "@", "a", "b", "d", "m">>
MCAlnum == {"1", "9", "a", "b", "d", "m"}

MCRecords == [first : UpTo({1}, 1), second : {<<>>, <<0, 1>>},
              timestamp : -2..1, content : {<<>>, <<1>>, <<1, 1, 0>>}]
MCHistories == {<<>>} \cup (MCRecords \X MCRecords)
MCNameLists == UpTo({<<>>, <<1>>, <<0, 1, 1>>}, 3)
MCByteStrings == UpTo({0, 1}, 10)

MCNames == {s \in UpTo({"-", "a", "b"}, 3) : valid_username(s)}
MCTexts == UpTo({"\n", " ", "-", "9", ":", "@", "a"}, 3)
             \cup {<<"d", "m", ":", "a", ":", "a">>, <<"d", "m", ":", "b">>,
                   <<"1", "9", "1", "9">>, <<"a", "a", "a", " ", "b">>}
MCLines == UpTo({"\t", " ", "9", "@", "a"}, 5)
MCFields == UpTo({" ", "-", "a"}, 3)
MCCommands == {<<>>, <<"/join">>, <<"/history">>, <<"/rooms">>, <<"/msg">>,
               <<"/w">>, <<"/who">>, <<"/dmhistory">>, <<"/help">>, <<"/quit">>,
               <<"/q">>, <<"exit">>}

\* A compression without collisions: a hash lists the blocks that went into it.
MCInitialHash == <<>>
MCcompress(hash, block) == hash \o block

MCSalts == {<<0, 1>>, <<1, 1>>}
MCPasswords == UpTo({0, 1}, 5)
=============================================================================
