---------------------------- MODULE MCSongDelivery ----------------------------
(***************************************************************************)
(* Small instances of song delivery.                                       *)
(***************************************************************************)
EXTENDS SongDelivery, TLC

CONSTANTS ann, bob, X, Y

TwoCabinets == {<<1, 1>>, <<2, 1>>}
TwoSides == {<<1, 1>>, <<1, 2>>}

OneRound == <<X>>
Both == <<{ann, bob}>>
=============================================================================
