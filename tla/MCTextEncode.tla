---------------------------- MODULE MCTextEncode ----------------------------
(* TextEncode on instances of up to three resources and registries of up to     *)
(* four links.                                                                *)
EXTENDS TextEncode

Text(type, chars) == [type |-> type, chars |-> chars, bytes |-> <<>>]
Opaque(bytes) == [type |-> "OPAQUE", chars |-> 0, bytes |-> bytes]
Of(id, readable, v) ==
    [id |-> id, idChars |-> IF id < 10 THEN 1 ELSE 2, readable |-> readable,
     type |-> v.type, chars |-> v.chars, bytes |-> v.bytes]

\* b64 holds two groups and no third one, as in the code it holds 85 and not 86.
MCB64Size == 12
MCBytes == UNION {[1 .. n -> {0, 19, 255}] : n \in 0 .. 2}
           \cup {<<1, 2, 3>>, <<77, 97, 110>>, <<255, 0, 128, 64>>, <<1, 2, 3, 4, 5>>,
                 <<255, 254, 253, 252, 251, 250>>, <<0, 0, 0, 0, 0, 0, 0>>}

MCValues == {Text("STRING", 0), Text("STRING", 5), Text("CORELNK", 2), Text("INTEGER", 1),
             Text("UINTEGER", 3), Text("TIME", 4), Text("FLOAT", 2), Text("BOOLEAN", 4),
             Text("BOOLEAN", 5), Text("OBJLINK", 2), Text("NONE", 0)}
            \cup {Opaque(b) : b \in MCBytes}

MCFew == {Text("STRING", 3), Text("BOOLEAN", 5), Opaque(<<77, 97>>)}

MCSingle == {<<Of(id, TRUE, v)>> : id \in {3, 10}, v \in MCValues}
MCInstance ==
    {<<>>} \cup MCSingle
    \cup {<<Of(1, a, v), Of(3, b, w), Of(10, c, x)>> :
             a \in BOOLEAN, b \in BOOLEAN, c \in BOOLEAN,
             v \in MCFew, w \in MCFew, x \in MCFew}

\* Up to four instances of objects, a NULL among them, with 2 or 7 digits of path.
MCLink ==
    UNION {[1 .. n -> {Of(1, TRUE, Text("STRING", 2)), Of(2, TRUE, Text("STRING", 7)),
                       Of(3, FALSE, Text("STRING", 0))}] : n \in 0 .. 4}

MCJobs == {[job |-> "single", items |-> s] : s \in MCSingle}
          \cup {[job |-> "instance", items |-> s] : s \in MCInstance}
          \cup {[job |-> "link", items |-> s] : s \in MCLink}

MCRooms == 1 .. 14 \cup 20 .. 50 \cup 60 .. 75

\* One opaque value of the lengths around the code's own b64[344], with room for it.
LongB64Size == 344
LongJobs == {[job |-> "single", items |-> <<Of(3, TRUE, Opaque([i \in 1 .. n |-> 255]))>>] :
                n \in 252 .. 258}
LongRooms == {512}
=============================================================================
