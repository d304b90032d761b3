-------------------------- MODULE MCRequestHandler --------------------------
(***************************************************************************)
(* RequestHandler on small instances: two files and their temporaries, one *)
(* user with one or two connections.                                       *)
(***************************************************************************)
EXTENDS RequestHandler, TLC

CONSTANTS c1, c2, u1, a, b, aTemp, bTemp, x

TempOf == (a :> aTemp) @@ (b :> bTemp)

\* Two paths of which the second is the temporary of the first.
ClashingTemp == (a :> b) @@ (b :> bTemp)

OneOwner  == (c1 :> u1)
SameOwner == (c1 :> u1) @@ (c2 :> u1)

\* The two files are alike: they can be exchanged together with their temporaries.
Symmetric ==
    {g \in Permutations({a, b, aTemp, bTemp}) :
        \A p \in {a, b} : g[p] \in {a, b} /\ g[TempOf[p]] = TempOf[g[p]]}

\* One path and its temporary.
OneTemp == a :> aTemp
=============================================================================
