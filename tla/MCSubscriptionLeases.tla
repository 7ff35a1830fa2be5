------------------------- MODULE MCSubscriptionLeases -------------------------
(* The finite instance of SubscriptionLeases: intervals that are clamped,   *)
(* and two that differ.                                                     *)
EXTENDS SubscriptionLeases

MCPreferences == {-1, 2}
=============================================================================
