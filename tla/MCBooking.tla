----------------------------- MODULE MCBooking -----------------------------
(***************************************************************************)
(* Instances of Booking for TLC.                                           *)
(***************************************************************************)
EXTENDS Booking, TLC

CONSTANTS s1, b1, b2, b3, d1, d2

BookingSymmetry == Permutations(Deciders)
=============================================================================
