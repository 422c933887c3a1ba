----------------------------- MODULE MCDelivery -----------------------------
(* Delivery with the constants its cfg file gives it. *)
EXTENDS Delivery
=============================================================================
