------------------------- MODULE MCBookingLifecycle -------------------------
(***************************************************************************)
(* BookingLifecycle on small instances.                                    *)
(***************************************************************************)
EXTENDS BookingLifecycle, TLC

CONSTANTS b1, o1, o2, h1, h2, s1

\* A quote whose capture has four legs.
MCPrices == {[base |-> 2, fee |-> 1, gst |-> 1]}

\* ... and one without commission, whose capture has three.
MCPrices2 == MCPrices \cup {[base |-> 2, fee |-> 0, gst |-> 1]}

MCSymmetry == Permutations(Handlers) \cup Permutations(Orders)
=============================================================================
