----------------------------- MODULE MCDelivery -----------------------------
(***************************************************************************)
(* Three events, two of which carry the same idempotency key.               *)
(***************************************************************************)
EXTENDS Delivery, TLC

MCEvents == {"e1", "e2", "e3"}
MCKeyOf == ("e1" :> "k1") @@ ("e2" :> "k1") @@ ("e3" :> "k2")
=============================================================================
