---------------------------- MODULE MCMigrations ----------------------------
(***************************************************************************)
(* Two branches that disagree about their second file, on two hosts.       *)
(***************************************************************************)
EXTENDS Migrations, TLC

CONSTANTS r1, r2, v2, v3, fa, fb, fc

MCRunner == {r1, r2}
TwoHosts == (r1 :> 1) @@ (r2 :> 2)
MCRevision == {v2, v3}
MCContent == {fa, fb, fc}

MCManifest == (v2 :> <<fa, fb>>) @@ (v3 :> <<fa, fc>>)

\* Before the directive was required fa has none; fc is destructive and says no.
MCDirective == (fa :> "unknown") @@ (fb :> "yes") @@ (fc :> "no")

MCLegacy == {{}, {1}}

Symmetric == Permutations(MCRunner)
=============================================================================
