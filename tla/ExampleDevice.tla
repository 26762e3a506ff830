---------------------------- MODULE ExampleDevice ----------------------------
(***************************************************************************)
(* The objects of StdObjects in use: by the example's app_main, with the     *)
(* callbacks of src/example/main/main.c, and by any other application that    *)
(* makes one object of any kind with any of its optional fields.  A server's  *)
(* requests reach the callbacks; the device restarts on request and on its    *)
(* own, which empties the heap and gives every static its first value.       *)
(*                                                                          *)
(* The client itself calls read callbacks only.  The requests are modelled as *)
(* wb_lwm2m_object.h:404-420 promises them: a write or an execution reaches    *)
(* the callback of the resource, one request at a time.                       *)
(***************************************************************************)
EXTENDS StdObjects

CONSTANT WrittenInts   \* numbers a server writes

ASSUME WrittenAssumption == WrittenInts \subseteq Int

VARIABLES
    app,    \* what runs: nothing yet, the example, another application
    objs,   \* the object of each kind
    heap,   \* the memory allocated
    info,   \* the server object's context
    fw,     \* the example's firmware statics
    delay   \* is fw_update_cb in the vTaskDelay before its esp_restart?

vars == <<app, objs, heap, info, fw, delay>>

\* The text of a Package URI as far as it matters: of 256 characters or more, only
\* the first 255 are kept.
URIs == {"empty", "short", "long"}

FwStates == {"IDLE", "DOWNLOADING", "DOWNLOADED", "UPDATING"}
FwResults == {"DEFAULT", "SUCCESS", "INVALID_URI", "UPDATE_FAILED"}

FirstFirmware == [state |-> "IDLE", result |-> "DEFAULT", uri |-> "empty"]

\* Memory of the application, which it passes as user_ctx.
AppMemory == <<"app", "context">>

\* What an application gives to the server object.
Infos == [Fields -> 0 .. Word - 1]
FirstInfo == [f \in Fields |-> IF f = "lifetime" THEN 1 ELSE 0]

TypeOK ==
    /\ app \in {"off", "example", "returned", "other"}
    /\ objs \in [Kinds -> Objects]
    /\ heap \subseteq (Kinds \X {"object", "context"}) \cup {AppMemory}
    /\ info \in Infos
    /\ fw \in [state : FwStates, result : FwResults, uri : URIs]
    /\ delay \in BOOLEAN

Init ==
    /\ app = "off"
    /\ objs = [k \in Kinds |-> NoObject]
    /\ heap = {AppMemory}
    /\ info = FirstInfo
    /\ fw = FirstFirmware
    /\ delay = FALSE

\* The RAM after esp_restart: the heap is empty, a static has its first value.
PowerUp ==
    /\ app' = "off"
    /\ objs' = [k \in Kinds |-> NoObject]
    /\ heap' = {AppMemory}
    /\ info' = FirstInfo
    /\ fw' = FirstFirmware
    /\ delay' = FALSE

\* A watchdog, a crash, the power, or the esp_restart that ends fw_update_cb.
Restart == app # "off" /\ PowerUp

-----------------------------------------------------------------------------
(* The example *)

\* What app_main gives to its four factories.
ExampleGives ==
    [k \in {"security", "server", "device", "firmware"} |->
        CASE k = "device" -> Optional("device") \ {"read_cb", "reset_error_cb"}
          [] k = "firmware" -> {"read_cb", "write_cb", "update_cb"}
          [] OTHER -> {}]

\* Each factory may fail, and so may the client's init or start: then app_main
\* returns, and what the factories made is nobody's.
AppMain ==
    /\ app = "off"
    /\ \E made \in SUBSET DOMAIN ExampleGives :
          /\ heap' = heap \cup UNION {Freed(k) : k \in made}
          /\ \/ /\ app' = "example"
                /\ objs' = [k \in Kinds |-> IF k \in made THEN MakeObject(k, ExampleGives[k])
                                                          ELSE NoObject]
             \/ app' = "returned" /\ UNCHANGED objs
    /\ UNCHANGED <<info, fw, delay>>

-----------------------------------------------------------------------------
(* Another application *)

Create(kind) ==
    /\ app \in {"off", "other"}
    /\ \A k \in Kinds : ~objs[k].made
    /\ app' = "other"
    /\ \E given \in SUBSET Optional(kind), blocks \in Allocations(kind) :
          /\ Accepts(kind, given)
          /\ heap' = heap \cup blocks
          /\ objs' = IF Freed(kind) \subseteq blocks
                     THEN [objs EXCEPT ![kind] = MakeObject(kind, given)]
                     ELSE objs
    /\ UNCHANGED <<info, fw, delay>>

Destroy(kind) ==
    /\ app = "other"
    /\ objs[kind].made
    /\ objs' = [objs EXCEPT ![kind] = NoObject]
    /\ heap' = heap \ Freed(kind)
    /\ info' = FirstInfo
    /\ UNCHANGED <<app, fw, delay>>

-----------------------------------------------------------------------------
(* The example's firmware callbacks *)

\* Package Protocol Support (8) has no case.
FwRead(id) ==
    CASE id \in {3, 5, 9} -> Ok(Value("integer", 0))
      [] id \in {1, 6, 7} -> Ok(Value("string", 0))
      [] OTHER -> Fails("NOT_FOUND")

\* Variant: the result of an earlier refusal stays, and an empty URI gives no result.
FwWriteUriQuiet(uri) ==
    IF uri # "empty"
    THEN fw' = [fw EXCEPT !.state = "DOWNLOADED", !.uri = uri]
    ELSE fw' = [fw EXCEPT !.uri = "empty"]

\* fw_write_cb with a string: DOWNLOADING is passed through at once.  An empty URI
\* is an error that leaves the state as it is.
FwWriteUri(uri) ==
    IF uri # "empty"
    THEN fw' = [state |-> "DOWNLOADED", result |-> "DEFAULT", uri |-> uri]
    ELSE fw' = [fw EXCEPT !.result = "INVALID_URI", !.uri = "empty"]

-----------------------------------------------------------------------------
(* Requests of a server *)

\* One task serves them, so none is served during the delay.
Serving == app \in {"example", "other"} /\ ~delay

\* What a read of a resource, by a server or by the wb_lwm2m_notify of the example's
\* main loop, may be answered; a read changes nothing.
ReadAnswers(kind, r) ==
    CASE kind = "security" -> {FromTable(SecurityReads, r.id)}
      [] kind = "server" -> {ServerRead(info, r.id)}
      [] kind = "device" -> DeviceRead(objs[kind].given, r)
      [] kind = "firmware" -> {FwRead(r.id)}
      [] OTHER -> AppReads(r.type)

\* A value as the server sends it, right or wrong for the resource.
Sent == {Value(t, n) : t \in {"integer", "time"}, n \in WrittenInts}
            \cup {Value("uinteger", n) : n \in WrittenInts \cap Nat}
            \cup {Value("boolean", 0), Value("boolean", 1), Value("string", 0)}

WriteServer(id, v) ==
    /\ Serving
    /\ \E r \in objs["server"].resources : r.id = id /\ "write" \in r.cbs
    /\ info' \in ServerWrites(info, id, v)
    /\ UNCHANGED <<app, objs, heap, fw, delay>>

\* fw_write_cb: anything but a string in the Package URI counts as an invalid one,
\* and the Package itself is not supported.
WriteFirmware ==
    /\ Serving
    /\ \E r \in objs["firmware"].resources : r.id = 1 /\ "write" \in r.cbs
    /\ \/ \E uri \in URIs : FwWriteUri(uri)
       \/ fw' = [fw EXCEPT !.result = "INVALID_URI"]
    /\ UNCHANGED <<app, objs, heap, info, delay>>

\* fw_update_cb up to its delay.
Update ==
    /\ Serving
    /\ \E r \in objs["firmware"].resources : r.id = 2 /\ "execute" \in r.cbs
    /\ \/ /\ fw.state = "DOWNLOADED"
          /\ fw' = [fw EXCEPT !.state = "IDLE", !.result = "SUCCESS"]
          /\ delay' = TRUE
       \/ /\ fw.state # "DOWNLOADED"
          /\ fw' = [fw EXCEPT !.result = "UPDATE_FAILED"]
          /\ UNCHANGED delay
    /\ UNCHANGED <<app, objs, heap, info>>

\* reboot_cb and factory_reset_cb of the example.
Reboot ==
    /\ Serving
    /\ \E r \in objs["device"].resources : r.id \in {4, 5} /\ "execute" \in r.cbs
    /\ PowerUp

Next ==
    \/ AppMain \/ Restart \/ Reboot \/ WriteFirmware \/ Update
    \/ \E kind \in Kinds : Create(kind) \/ Destroy(kind)
    \/ \E id \in 0 .. 8, v \in Sent : WriteServer(id, v)

Spec == Init /\ [][Next]_vars

-----------------------------------------------------------------------------
(* Properties *)

\* Memory belongs to the objects the application holds, whichever allocation of
\* whichever factory failed, and the application's own user_ctx is never freed; only
\* an app_main that gave up leaves memory behind (the factories against destroy).
HeapOwned ==
    app # "returned" =>
        heap = {AppMemory} \cup UNION {Freed(k) : k \in {j \in Kinds : objs[j].made}}

\* What std_objects.h promises of an object made of the fields given: the resources it
\* lists (device: 0, 1, 2, 11 and 16, and the dynamic ones), those that an optional
\* field stands for only where it is given (std_objects.h:33).
Promised(kind, given) ==
    CASE kind = "security" -> 0 .. 5 \cup {10}
      [] kind = "server" -> {0, 1, 2, 3, 5, 6, 7}
             \cup If("disable_cb" \in given, {4}) \cup If("reg_update_cb" \in given, {8})
      [] kind = "device" -> {0, 1, 2, 9, 10, 11, 13, 16}
             \cup If("firmware_version" \in given, {3})
             \cup If("reboot_cb" \in given, {4})
             \cup If("factory_reset_cb" \in given, {5})
             \cup If("reset_error_cb" \in given, {12})
             \cup If("utc_offset" \in given, {14})
             \cup If("timezone" \in given, {15})
             \cup If("device_type" \in given, {17})
             \cup If("hardware_version" \in given, {18})
             \cup If("software_version" \in given, {19})
      [] kind = "conn_mon" -> 0 .. 10
      [] kind = "firmware" -> {0, 1, 2, 3, 5} \cup If("read_cb" \in given, 6 .. 9)
      [] kind = "location" -> 0 .. 6
      [] kind = "conn_stats" -> If("read_cb" \in given, 0 .. 5 \cup {8})
             \cup If("start_cb" \in given, {6}) \cup If("stop_cb" \in given, {7})

\* The operations that nothing serves because the application left its callback NULL.
LeftOut(kind, given, id, op) ==
    \/ kind = "device" /\ id = 4 /\ "reboot_cb" \notin given
    \/ kind = "firmware" /\ op = "read" /\ "read_cb" \notin given
    \/ kind = "firmware" /\ op = "write" /\ "write_cb" \notin given
    \/ kind = "firmware" /\ op = "execute" /\ "update_cb" \notin given

\* The resources that server_write_cb, or a callback of the application, can write.
CanBeWritten(kind, id) ==
    \/ kind = "server" /\ id \in DOMAIN FieldWritten
    \/ kind = "firmware" /\ id \in {0, 1}

\* An object has the resources the header promises, none lost to the size of the
\* array.  No callback serves an operation that is not declared, and the callback of
\* every declared read and execution is there, as is that of a write to a resource
\* that some callback can write, unless the application left it NULL.  Of the other
\* writable resources nothing is said: they are declared so without a callback.
DeclaredIsServed ==
    \A k \in Kinds : objs[k].made =>
        /\ Promised(k, objs[k].given) \subseteq {r.id : r \in objs[k].resources}
        /\ \A r \in objs[k].resources :
              /\ r.cbs \subseteq r.ops
              /\ \A op \in r.ops \ r.cbs :
                    \/ LeftOut(k, objs[k].given, r.id, op)
                    \/ op = "write" /\ ~CanBeWritten(k, r.id)

\* The kinds whose reads may end in an error of the application's callback.
AppServes(kind) ==
    \/ kind \in {"conn_mon", "location", "conn_stats"}
    \/ kind = "device" /\ "read_cb" \in objs[kind].given

\* A resource that is declared readable has a case in the callback behind it, and the
\* value has the type that was declared, which is the one a server expects, while the
\* encoders go by the value's own (wb_lwm2m_tlv.c:192): the two switch statements and
\* the resource tables agree.  The example's Protocol Support has no case.
ReadsDeclaredType ==
    \A k \in Kinds : \A r \in objs[k].resources :
        "read" \in r.cbs =>
            \A answer \in ReadAnswers(k, r) :
                \/ answer.err = "OK" /\ answer.value.type = r.type
                \/ answer.err # "OK" /\ (AppServes(k) \/ <<k, r.id>> = <<"firmware", 8>>)

\* What a server has written to the server object it reads back, cut to 32 bits, and
\* no other resource has changed: the cases of server_write_cb and server_read_cb name
\* the same fields.  Nothing but a write changes them while the object lives.
WriteReadsBack ==
    [][/\ \A id \in {1, 2, 3, 5}, v \in Sent :
             WriteServer(id, v) =>
                 \A other \in {1, 2, 3, 5} :
                     ServerRead(info', other).value.n =
                         IF other = id THEN GetInt(v) % Word ELSE ServerRead(info, other).value.n
       /\ (objs' = objs /\ info' # info) =>
              \E id \in {1, 2, 3, 5, 6}, v \in Sent : WriteServer(id, v)]_vars

\* A firmware that counts as downloaded has a Package URI, or the result tells that an
\* empty one has overwritten it: fw_write_cb keeps the state on that path, so only the
\* result shows it, until an update succeeds or another URI is written.
FirmwareReport ==
    fw.state = "DOWNLOADED" => fw.uri # "empty" \/ fw.result = "INVALID_URI"

\* Nothing has been made at power-up.
OffIsEmpty == app = "off" => objs = [k \in Kinds |-> NoObject]

\* What a server has written belongs to an object.
WrittenIsMade == info # FirstInfo => objs["server"] # NoObject

\* An object stays as its factory made it of what it was given.
MadeAsGiven ==
    \A k \in Kinds :
        IF objs[k].made
        THEN objs[k].given \subseteq Optional(k) /\ objs[k] = MakeObject(k, objs[k].given)
        ELSE objs[k] = NoObject

\* The inductive invariant of ExampleDevice_proofs.
IInv == TypeOK /\ OffIsEmpty /\ WrittenIsMade /\ MadeAsGiven /\ HeapOwned /\ FirmwareReport
=============================================================================
