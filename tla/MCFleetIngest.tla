--------------------------- MODULE MCFleetIngest ---------------------------
(***************************************************************************)
(* Small instances of the ingest gateway.                                   *)
(***************************************************************************)
EXTENDS FleetIngest, TLC

MCEvents == {"e1", "e2", "e3"}
\* A key of its own, a key reused for another event, and no key.
MCKeyOf == ("e1" :> "k1") @@ ("e2" :> "k1") @@ ("e3" :> NoKey)
=============================================================================
