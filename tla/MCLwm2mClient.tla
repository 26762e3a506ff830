---------------------------- MODULE MCLwm2mClient ----------------------------
(* Lwm2mClient on small instances. *)
EXTENDS Lwm2mClient, TLC

CONSTANTS c1, c2, none, q1, q2, q3, locEp, locA, locB, empty, device, shadow

\* A readable device object, and one of the same ID that is not; the payload
\* buffer takes the device object once, or the two together, but not both twice.
MCObjects == {device, shadow}
MCObjId == [o \in MCObjects |-> 3]
MCNotifiable == {device}
MCLinkSize == [o \in MCObjects |-> IF o = device THEN 2 ELSE 1]

\* Queue places are interchangeable, and so are sessions.
Symmetry == Permutations(Slots) \cup Permutations(Sessions)
=============================================================================
