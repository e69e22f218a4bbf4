---------------------------- MODULE MCDeployment ----------------------------
(***************************************************************************)
(* Three commits: the second brings a migration, the third, a branch of    *)
(* the first, does not.                                                    *)
(***************************************************************************)
EXTENDS Deployment, TLC

CONSTANTS s1, s2, s3, a, b

MCSha == {s1, s2, s3}
MCManifest == (s1 :> <<a>>) @@ (s2 :> <<a, b>>) @@ (s3 :> <<a>>)
MCDirective == (a :> "yes") @@ (b :> "unknown")
=============================================================================
