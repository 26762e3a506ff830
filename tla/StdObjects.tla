----------------------------- MODULE StdObjects -----------------------------
(***************************************************************************)
(* src/src/wb_lwm2m_std_objects.c: the factories of the standard objects,   *)
(* the callbacks they wire into the resources, and destroy_std_object.      *)
(*                                                                          *)
(* An object is what a factory makes of the optional fields it was given:    *)
(* a set of resource definitions, each with the operations it declares and   *)
(* the callbacks that are not NULL.  Values keep their type; numbers are kept *)
(* only where the server can write them, in words of Word values.            *)
(***************************************************************************)
EXTENDS Integers, FiniteSets

CONSTANTS
    Word,          \* 2^32: the values of a uint32_t
    MaxResources   \* WB_LWM2M_MAX_RESOURCES

ASSUME WordAssumption == Word \in Nat \ {0, 1}
ASSUME MaxResourcesAssumption == MaxResources \in Nat

Kinds == {"security", "server", "device", "conn_mon", "firmware", "location", "conn_stats"}

\* The factories that allocate a context of their own; the others keep user_ctx.
WithContext == {"security", "server", "device"}

\* The fields of an info struct, and the arguments, that may be NULL and matter.
Optional(kind) ==
    CASE kind = "server" -> {"reg_update_cb", "disable_cb"}
      [] kind = "device" -> {"firmware_version", "device_type", "hardware_version",
                             "software_version", "utc_offset", "timezone", "read_cb",
                             "reboot_cb", "factory_reset_cb", "reset_error_cb"}
      [] kind \in {"conn_mon", "location"} -> {"read_cb"}
      [] kind = "firmware" -> {"read_cb", "write_cb", "update_cb"}
      [] kind = "conn_stats" -> {"read_cb", "start_cb", "stop_cb"}
      [] OTHER -> {}

\* Of the ten types those that the factories declare.
Types == {"none", "string", "integer", "float", "boolean", "opaque", "time"}
Ops == {"read", "write", "execute"}

-----------------------------------------------------------------------------
(* The resources each factory adds *)

Declare(ids, type, ops, callbacks) ==
    {[id |-> i, type |-> type, ops |-> ops, cbs |-> callbacks] : i \in ids}

R(ids, type) == Declare(ids, type, {"read"}, {"read"})
RW(ids, type) == Declare(ids, type, {"read", "write"}, {"read", "write"})
E(id) == Declare({id}, "none", {"execute"}, {"execute"})

\* Readable and writable, with a read callback only.
RWReadOnly(ids, type) == Declare(ids, type, {"read", "write"}, {"read"})

If(condition, resources) == IF condition THEN resources ELSE {}

SecurityResources ==
    R({0}, "string") \cup R({1}, "boolean") \cup R({2, 10}, "integer")
        \cup R({3, 4, 5}, "opaque")

\* Variant: one of the writable resources has no write callback.
ServerResourcesUnwired(given) ==
    R({0}, "integer") \cup RW({1, 2, 3}, "integer") \cup RW({6}, "boolean")
        \cup RWReadOnly({5}, "integer") \cup RWReadOnly({7}, "string")
        \cup If("disable_cb" \in given, E(4))
        \cup If("reg_update_cb" \in given, E(8))

ServerResources(given) ==
    R({0}, "integer") \cup RW({1, 2, 3, 5}, "integer") \cup RW({6}, "boolean")
        \cup RWReadOnly({7}, "string")
        \cup If("disable_cb" \in given, E(4))
        \cup If("reg_update_cb" \in given, E(8))

\* Reboot is declared whether there is a callback or not.
DeviceResources(given) ==
    R({0, 1, 2, 16}, "string") \cup R({6, 7, 8, 9, 10, 11, 20, 21}, "integer")
        \cup RWReadOnly({13}, "time")
        \cup If("firmware_version" \in given, R({3}, "string"))
        \cup Declare({4}, "none", {"execute"}, If("reboot_cb" \in given, {"execute"}))
        \cup If("factory_reset_cb" \in given, E(5))
        \cup If("reset_error_cb" \in given, E(12))
        \cup If("utc_offset" \in given, RWReadOnly({14}, "string"))
        \cup If("timezone" \in given, RWReadOnly({15}, "string"))
        \cup If("device_type" \in given, R({17}, "string"))
        \cup If("hardware_version" \in given, R({18}, "string"))
        \cup If("software_version" \in given, R({19}, "string"))

ConnMonResources == R({0, 1, 2, 3, 6, 8, 9, 10}, "integer") \cup R({4, 5, 7}, "string")

\* Resources 0 to 5 are declared whatever the callbacks are.
FirmwareResources(given) ==
    Declare({0}, "opaque", {"write"}, If("write_cb" \in given, {"write"}))
        \cup Declare({1}, "string", {"write"}, If("write_cb" \in given, {"write"}))
        \cup Declare({2}, "none", {"execute"}, If("update_cb" \in given, {"execute"}))
        \cup Declare({3, 5}, "integer", {"read"}, If("read_cb" \in given, {"read"}))
        \cup If("read_cb" \in given, R({6, 7}, "string") \cup R({8, 9}, "integer"))

LocationResources == R({0, 1, 2, 3, 6}, "float") \cup R({4}, "opaque") \cup R({5}, "time")

ConnStatsResources(given) ==
    If("read_cb" \in given, R(0 .. 5, "integer") \cup RWReadOnly({8}, "integer"))
        \cup If("start_cb" \in given, E(6))
        \cup If("stop_cb" \in given, E(7))

Resources(kind, given) ==
    CASE kind = "security" -> SecurityResources
      [] kind = "server" -> ServerResources(given)
      [] kind = "device" -> DeviceResources(given)
      [] kind = "conn_mon" -> ConnMonResources
      [] kind = "firmware" -> FirmwareResources(given)
      [] kind = "location" -> LocationResources
      [] kind = "conn_stats" -> ConnStatsResources(given)

\* Every factory adds in the order of the IDs, and does not look at the result of
\* add_resource: what comes after the array is full is left out.
Added(resources) ==
    {r \in resources : Cardinality({q \in resources : q.id < r.id}) < MaxResources}

\* Two factories refuse to make an object that nothing serves.
Accepts(kind, given) == kind \in {"conn_mon", "location"} => "read_cb" \in given

MakeObject(kind, given) ==
    [made |-> TRUE, given |-> given, resources |-> Added(Resources(kind, given))]

Definitions == [id : Nat, type : Types, ops : SUBSET Ops, cbs : SUBSET Ops]
Objects == [made : BOOLEAN, given : SUBSET UNION {Optional(k) : k \in Kinds},
            resources : SUBSET Definitions]

NoObject == [made |-> FALSE, given |-> {}, resources |-> {}]

-----------------------------------------------------------------------------
(* Memory *)

\* Variant: the object is not given back.
AllocationsKept(kind) ==
    {{}, {<<kind, "object">>}, {<<kind, "object">>, <<kind, "context">>}}

\* What a factory leaves allocated.  When the context cannot be had, the object
\* is given back.
Allocations(kind) ==
    {{}, {<<kind, "object">>} \cup If(kind \in WithContext, {<<kind, "context">>})}

\* What destroy_std_object frees: user_ctx only where the factory allocated it.
Freed(kind) == {<<kind, "object">>} \cup If(kind \in WithContext, {<<kind, "context">>})

-----------------------------------------------------------------------------
(* Values *)

\* A value in a request or an answer; n is the number, where it is kept.
Value(type, n) == [type |-> type, n |-> n]

\* wb_lwm2m_value_get_int: what is no integer counts as 0.
GetInt(v) == IF v.type \in {"integer", "uinteger", "time", "boolean"} THEN v.n ELSE 0

\* bool_val of the union: other members have some byte there.
GetBool(v) ==
    IF v.type \in {"boolean", "integer", "uinteger", "time"} /\ v.n \in {0, 1}
    THEN {v.n} ELSE {0, 1}

Ok(v) == [err |-> "OK", value |-> v]
Fails(err) == [err |-> err, value |-> Value("none", 0)]

-----------------------------------------------------------------------------
(* The read and write callbacks *)

\* security_read_cb, server_read_cb and device_default_read_cb: the types they serve.
SecurityReads ==
    [id \in 0 .. 5 \cup {10} |-> CASE id = 0 -> "string"
                               [] id = 1 -> "boolean"
                               [] id \in {2, 10} -> "integer"
                               [] id \in {3, 4, 5} -> "opaque"]

ServerReads ==
    [id \in {0, 1, 2, 3, 5, 6, 7} |-> CASE id \in {0, 1, 2, 3, 5} -> "integer"
                                      [] id = 6 -> "boolean"
                                      [] id = 7 -> "string"]

DeviceStrings == 0 .. 3 \cup 14 .. 19
DeviceIntegers == 6 .. 11 \cup {20, 21}

\* Variant: the optional timezone is forgotten in the default callback.
DeviceReadsShort ==
    [id \in ((DeviceStrings \cup DeviceIntegers) \ {15}) \cup {13} |->
        CASE id \in DeviceStrings -> "string"
          [] id \in DeviceIntegers -> "integer"
          [] id = 13 -> "time"]

DeviceReads ==
    [id \in DeviceStrings \cup DeviceIntegers \cup {13} |->
        CASE id \in DeviceStrings -> "string"
          [] id \in DeviceIntegers -> "integer"
          [] id = 13 -> "time"]

\* The fields of wb_lwm2m_server_info_t that server_write_cb changes.
Fields == {"lifetime", "default_min_period", "default_max_period", "disable_timeout",
           "notification_storing"}

FieldRead ==
    [id \in {1, 2, 3, 5, 6} |-> CASE id = 1 -> "lifetime"
                               [] id = 2 -> "default_min_period"
                               [] id = 3 -> "default_max_period"
                               [] id = 5 -> "disable_timeout"
                               [] id = 6 -> "notification_storing"]

\* Variant: two cases of server_write_cb are mixed up.
FieldWrittenSwapped ==
    [id \in {1, 2, 3, 5, 6} |-> CASE id = 1 -> "lifetime"
                               [] id = 2 -> "default_max_period"
                               [] id = 3 -> "default_min_period"
                               [] id = 5 -> "disable_timeout"
                               [] id = 6 -> "notification_storing"]

FieldWritten ==
    [id \in {1, 2, 3, 5, 6} |-> CASE id = 1 -> "lifetime"
                               [] id = 2 -> "default_min_period"
                               [] id = 3 -> "default_max_period"
                               [] id = 5 -> "disable_timeout"
                               [] id = 6 -> "notification_storing"]

FromTable(table, id) ==
    IF id \in DOMAIN table THEN Ok(Value(table[id], 0)) ELSE Fails("NOT_FOUND")

ServerRead(info, id) ==
    IF id \in DOMAIN FieldRead
    THEN Ok(Value(ServerReads[id], info[FieldRead[id]]))
    ELSE FromTable(ServerReads, id)

\* Variant: the number is kept as it came.
ServerWritesWide(info, id, v) ==
    CASE id = 6 -> {[info EXCEPT !["notification_storing"] = b] : b \in GetBool(v)}
      [] id \in DOMAIN FieldWritten \ {6} -> {[info EXCEPT ![FieldWritten[id]] = GetInt(v)]}
      [] OTHER -> {}

\* What server_write_cb may leave in the info; nothing for other resources.
ServerWrites(info, id, v) ==
    CASE id = 6 -> {[info EXCEPT !["notification_storing"] = b] : b \in GetBool(v)}
      [] id \in DOMAIN FieldWritten \ {6} ->
             {[info EXCEPT ![FieldWritten[id]] = GetInt(v) % Word]}
      [] OTHER -> {}

\* An application's callback: a value of the type declared, or an error.
AppReads(type) == {Ok(Value(type, 0)), Fails("NOT_FOUND"), Fails("FAIL")}

\* device_read_dispatch: NOT_FOUND of the application's callback means the default.
DeviceRead(given, r) ==
    IF "read_cb" \in given
    THEN {IF a.err = "NOT_FOUND" THEN FromTable(DeviceReads, r.id) ELSE a : a \in AppReads(r.type)}
    ELSE {FromTable(DeviceReads, r.id)}
=============================================================================
