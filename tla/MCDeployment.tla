----------------------------- MODULE MCDeployment -----------------------------
(***************************************************************************)
(* A small instance of Deployment for TLC: the build before ledgers, one   *)
(* that knows two kinds of entries, and one that knows three.  The last    *)
(* two share a stylesheet.                                                 *)
(***************************************************************************)
EXTENDS Deployment

CONSTANTS p1, p2        \* players

E(code, n, event) == [code |-> code, points |-> n, event |-> event]
R(code, n, results) == [code |-> code, points |-> n, results |-> results]

MCPlayer == {p1, p2}
MCPoints == 0..9
MCDay    == {}

Open1  == E("slam", 4, "Melbourne")
Miami  == E("masters", 2, "Miami")
Vienna == E("other", 1, "Vienna")
Doha   == E("other", 1, "Doha")
MCEntry == {Open1, Miami, Vienna, Doha}

\* A table all builds with ledgers can read, two with a result of the third
\* kind, and one whose second row does not reconcile.
MCArticle == {<<R(p1, 6, {Open1, Miami}), R(p2, 4, {Open1})>>,
              <<R(p1, 6, {Open1, Miami}), R(p2, 5, {Open1, Vienna})>>,
              <<R(p1, 7, {Open1, Miami, Doha}), R(p2, 2, {Vienna, Doha})>>,
              <<R(p1, 6, {Open1, Miami}), R(p2, 5, {Open1})>>}

MCBuild == 1..3
MCCodes == <<{}, {"slam", "masters"}, {"slam", "masters", "other"}>>
MCMigrations == <<1, 2, 2>>
MCStyle == <<"first", "second", "second">>
=============================================================================
