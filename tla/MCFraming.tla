----------------------------- MODULE MCFraming ------------------------------
(***************************************************************************)
(* Small instances of Framing: two-valued bytes and two-byte headers, so   *)
(* that lengths run from 0 to 3 and one of them, 3, is above the limit.    *)
(***************************************************************************)
EXTENDS Framing

\* Empty, shortest, longest accepted, and one byte too long.
MCPayloads == {<<>>, <<1>>, <<1, 0>>, <<0, 1>>, <<1, 1, 1>>}

MCTwoPayloads == {<<1>>, <<1, 0>>}
=============================================================================
