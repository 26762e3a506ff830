---------------------------- MODULE MCTlvTransfer ----------------------------
(* TlvTransfer on the boundaries of every header form and integer width. *)
EXTENDS TlvTransfer

MCSigned == {-32768, -129, -128, -9, -8, -3, -2, -1, 0, 1, 2, 7, 8, 127, 128, 32767}
MCUnsigned == {0, 3, 4, 15, 16, 255, 256, 65535}
Lengths == {0, 1, 7, 8, 9, 10, 99, 100, 120, 121}
Ids == {1, 9, 10, 99}

OfType(type, vs) == {[type |-> type, v |-> v] : v \in vs}

Values ==
    UNION {OfType("INTEGER", MCSigned), OfType("UINTEGER", MCUnsigned),
           OfType("OPAQUE", {[k \in 1 .. n |-> k % 2] : n \in Lengths}),
           OfType("FLOAT", {[width |-> 4, bits |-> 255], [width |-> 8, bits |-> 65535]}),
           OfType("BOOLEAN", BOOLEAN),
           OfType("OBJLINK", {<<3, 0>>, <<99, 10>>}),
           {[type |-> "NONE", v |-> 0]}}

\* A few values of each size, for instances of several resources.
Few == OfType("INTEGER", {-3, 127}) \cup OfType("TIME", {2})
       \cup OfType("STRING", {<<>>, <<1, 0, 1, 1, 0, 1, 0, 1>>})

Resource(id, readable, value) == [id |-> id, readable |-> readable, value |-> value]

MCInstances ==
    {<<Resource(id, TRUE, v)>> : id \in Ids, v \in Values}
    \cup {<<Resource(9, r, v), Resource(10, TRUE, w)>> : r \in BOOLEAN, v \in Few, w \in Few}
    \cup {<<Resource(1, TRUE, v), Resource(10, TRUE, w), Resource(99, TRUE, x)>> :
             v \in Few, w \in Few, x \in Few}

MCRooms == {1, 2, 3, 4, 6, 9, 12, 15, 20, 30, 110, 130}
=============================================================================
