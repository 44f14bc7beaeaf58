------------------------- MODULE MCInquiryDelivery -------------------------
(* Instances of InquiryDelivery for TLC. *)
EXTENDS InquiryDelivery, TLC

Delays == <<1, 2>>

CallSymmetry == Permutations(Dispatcher)
=============================================================================
