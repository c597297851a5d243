------------------------- MODULE MCGrowthProjection -------------------------
(* Small instances of GrowthProjection for TLC. *)
EXTENDS GrowthProjection, TLC

CONSTANTS alice, shop

\* The shop is paid by alice, and pays a wallet, which has no account.
Senders == (1 :> alice) @@ (2 :> shop)
Recipients == (1 :> shop) @@ (2 :> NoAccount)
=============================================================================
