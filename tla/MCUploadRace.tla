---------------------------- MODULE MCUploadRace ----------------------------
(***************************************************************************)
(* UploadRace with two connections: of two users, or of one.               *)
(***************************************************************************)
EXTENDS UploadRace, TLC

CONSTANTS c1, c2, u1, u2, a, b, aTemp, bTemp, x

TempOf == (a :> aTemp) @@ (b :> bTemp)
OneTemp == a :> aTemp

OneOwner  == c1 :> u1
TwoOwners == (c1 :> u1) @@ (c2 :> u2)
SameOwner == (c1 :> u1) @@ (c2 :> u1)

AllTypes == {"CREATE", "UPDATE", "ERASE"}
AsksAll  == [c \in Conn |-> AllTypes]
\* Two uploads, of which the second only creates.
AsksSome == (c1 :> AllTypes \ {"ERASE"}) @@ (c2 :> {"CREATE"})
\* One connection uploads, the other erases.
AsksErase == (c1 :> {"CREATE", "UPDATE"}) @@ (c2 :> {"ERASE"})
=============================================================================
