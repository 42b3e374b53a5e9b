----------------------------- MODULE MCDelivery -----------------------------
(***************************************************************************)
(* One message of QoS 0 and one of QoS 2, by a client each; subscriptions  *)
(* of every level take the second one down to QoS 1 and QoS 0.  The client *)
(* of the second one connects again, also while it is written to.          *)
(***************************************************************************)
EXTENDS Delivery, TLC

CONSTANTS c1, c2, m1, m2, t1

MCPublisherOf == m1 :> c1 @@ m2 :> c2
MCTopicOf == m1 :> t1 @@ m2 :> t1
MCQosOf == m1 :> 0 @@ m2 :> 2
MCMaxConnects == c1 :> 1 @@ c2 :> 2
=============================================================================
