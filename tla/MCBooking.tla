----------------------------- MODULE MCBooking -----------------------------
(* Small instances of Booking and Availability for TLC.                    *)
EXTENDS Availability

\* One hub with two bays, open for two units of time, and services of one, one of
\* which is withdrawn.
OneHub == [b \in Bay |-> CHOOSE h \in Hub : TRUE]
OpenAt == [h \in Hub |-> 1]
CloseAt == [h \in Hub |-> 3]
OneEach == [s \in Service |-> 1]
AllButOne == [s \in Service |-> s # CHOOSE t \in Service : TRUE]
=============================================================================
