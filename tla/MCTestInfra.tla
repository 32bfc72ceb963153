----------------------------- MODULE MCTestInfra -----------------------------
(* Instances of TestInfra for TLC. *)
EXTENDS TestInfra, TLC

\* Tests on all PEs around a serial one, the third being the one the instance
\* skips, and a single-PE test at the end.
MCKind == (1 :> "payload") @@ (2 :> "serial") @@ (3 :> "payload")
          @@ (4 :> "payload") @@ (5 :> "single")

\* One test of each kind.
MCKindEach == (1 :> "payload") @@ (2 :> "serial") @@ (3 :> "single")

=============================================================================
