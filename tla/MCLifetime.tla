----------------------------- MODULE MCLifetime -----------------------------
(* Up to three destinations that name one room or two.                     *)
EXTENDS Lifetime

CONSTANTS r1, r2

MCRooms == {r1, r2}
MCRoomLists == { <<>>, <<r1>>, <<r1, r2>>, <<r1, r1>>, <<r1, r2, r1>> }
=============================================================================
