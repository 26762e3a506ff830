------------------------ MODULE ExampleDevice_proofs ------------------------
(* What holds of ExampleDevice for words of any size and any numbers written. *)
EXTENDS ExampleDevice, FiniteSetTheorems, TLAPS

\* The resources of a factory are definitions of the kind resource_def_t allows.
LEMMA DeclareType ==
    ASSUME NEW ids \in SUBSET Nat, NEW type \in Types,
           NEW ops \in SUBSET Ops, NEW cbs \in SUBSET Ops
    PROVE  Declare(ids, type, ops, cbs) \subseteq Definitions
BY DEF Declare, Definitions

\* Rows of resources with read callbacks, and with write callbacks or without.
LEMMA RowType ==
    ASSUME NEW ids \in SUBSET Nat, NEW type \in Types
    PROVE  /\ R(ids, type) \subseteq Definitions
           /\ RW(ids, type) \subseteq Definitions
           /\ RWReadOnly(ids, type) \subseteq Definitions
<1>1. {"read"} \in SUBSET Ops /\ {"read", "write"} \in SUBSET Ops
  BY DEF Ops
<1>2. QED
  BY <1>1, DeclareType DEF R, RW, RWReadOnly

\* A resource that can only be executed.
LEMMA ExecuteType ==
    ASSUME NEW id \in Nat
    PROVE  E(id) \subseteq Definitions
<1>1. {"execute"} \in SUBSET Ops /\ "none" \in Types /\ {id} \in SUBSET Nat
  BY DEF Ops, Types
<1>2. QED
  BY <1>1, DeclareType DEF E

\* Resources that a factory adds for an optional field.
LEMMA IfType ==
    ASSUME NEW b, NEW S, S \subseteq Definitions
    PROVE  If(b, S) \subseteq Definitions
BY DEF If

\* Each table of the seven factories.
LEMMA ResourcesType ==
    ASSUME NEW kind \in Kinds, NEW given
    PROVE  Resources(kind, given) \subseteq Definitions
<1>1. /\ "none" \in Types /\ "string" \in Types /\ "integer" \in Types /\ "float" \in Types
      /\ "boolean" \in Types /\ "opaque" \in Types /\ "time" \in Types
  BY DEF Types
<1> /\ {2, 10} \in SUBSET Nat /\ {3, 4, 5} \in SUBSET Nat /\ {1, 2, 3, 5} \in SUBSET Nat
    /\ {6, 7, 8, 9, 10, 11, 20, 21} \in SUBSET Nat /\ {13} \in SUBSET Nat
  OBVIOUS
<1>2. SecurityResources \subseteq Definitions
  <2>1. R({0}, "string") \subseteq Definitions /\ R({1}, "boolean") \subseteq Definitions
    BY <1>1, RowType
  <2>2. R({2, 10}, "integer") \subseteq Definitions
    BY <1>1, RowType
  <2>3. R({3, 4, 5}, "opaque") \subseteq Definitions
    BY <1>1, RowType
  <2>4. QED
    BY <2>1, <2>2, <2>3 DEF SecurityResources
<1>3. ServerResources(given) \subseteq Definitions
  <2>1. R({0}, "integer") \subseteq Definitions /\ RWReadOnly({7}, "string") \subseteq Definitions
    BY <1>1, RowType
  <2>2. RW({1, 2, 3, 5}, "integer") \subseteq Definitions
    BY <1>1, RowType
  <2>3. RW({6}, "boolean") \subseteq Definitions
    BY <1>1, RowType
  <2>4. /\ If("disable_cb" \in given, E(4)) \subseteq Definitions
        /\ If("reg_update_cb" \in given, E(8)) \subseteq Definitions
    BY ExecuteType, IfType
  <2>5. QED
    BY <2>1, <2>2, <2>3, <2>4 DEF ServerResources
<1>4. DeviceResources(given) \subseteq Definitions
  <2>1. If("reboot_cb" \in given, {"execute"}) \in SUBSET Ops
    BY DEF If, Ops
  <2>2. Declare({4}, "none", {"execute"}, If("reboot_cb" \in given, {"execute"}))
            \subseteq Definitions
    BY <1>1, <2>1, DeclareType DEF Ops
  <2>3. R({0, 1, 2, 16}, "string") \subseteq Definitions
    BY <1>1, RowType
  <2>4. R({6, 7, 8, 9, 10, 11, 20, 21}, "integer") \subseteq Definitions
    BY <1>1, RowType
  <2>5. RWReadOnly({13}, "time") \subseteq Definitions
    BY <1>1, RowType
  <2>6. \A id \in Nat : /\ R({id}, "string") \subseteq Definitions
                        /\ RWReadOnly({id}, "string") \subseteq Definitions
    <3>1. \A id \in Nat : {id} \in SUBSET Nat
      OBVIOUS
    <3>2. QED
      BY <1>1, <3>1, RowType
  <2>7. \A b : \A S \in SUBSET Definitions : If(b, S) \subseteq Definitions
    BY IfType
  <2>8. /\ If("firmware_version" \in given, R({3}, "string")) \subseteq Definitions
        /\ If("device_type" \in given, R({17}, "string")) \subseteq Definitions
        /\ If("hardware_version" \in given, R({18}, "string")) \subseteq Definitions
        /\ If("software_version" \in given, R({19}, "string")) \subseteq Definitions
    BY <2>6, <2>7
  <2>9. /\ If("utc_offset" \in given, RWReadOnly({14}, "string")) \subseteq Definitions
        /\ If("timezone" \in given, RWReadOnly({15}, "string")) \subseteq Definitions
        /\ If("factory_reset_cb" \in given, E(5)) \subseteq Definitions
        /\ If("reset_error_cb" \in given, E(12)) \subseteq Definitions
    BY <2>6, <2>7, ExecuteType
  <2>10. QED
    BY <2>2, <2>3, <2>4, <2>5, <2>8, <2>9 DEF DeviceResources
<1>5. ConnMonResources \subseteq Definitions
  BY <1>1, RowType DEF ConnMonResources
<1>6. FirmwareResources(given) \subseteq Definitions
  <2>1. /\ If("write_cb" \in given, {"write"}) \in SUBSET Ops
        /\ If("update_cb" \in given, {"execute"}) \in SUBSET Ops
        /\ If("read_cb" \in given, {"read"}) \in SUBSET Ops
        /\ {"write"} \in SUBSET Ops /\ {"execute"} \in SUBSET Ops /\ {"read"} \in SUBSET Ops
    BY DEF If, Ops
  <2>2. /\ Declare({0}, "opaque", {"write"}, If("write_cb" \in given, {"write"}))
               \subseteq Definitions
        /\ Declare({1}, "string", {"write"}, If("write_cb" \in given, {"write"}))
               \subseteq Definitions
        /\ Declare({2}, "none", {"execute"}, If("update_cb" \in given, {"execute"}))
               \subseteq Definitions
        /\ Declare({3, 5}, "integer", {"read"}, If("read_cb" \in given, {"read"}))
               \subseteq Definitions
    BY <1>1, <2>1, DeclareType
  <2>3. If("read_cb" \in given, R({6, 7}, "string") \cup R({8, 9}, "integer"))
            \subseteq Definitions
    BY <1>1, RowType, IfType
  <2>4. QED
    BY <2>2, <2>3 DEF FirmwareResources
<1>7. LocationResources \subseteq Definitions
  BY <1>1, RowType DEF LocationResources
<1>8. ConnStatsResources(given) \subseteq Definitions
  <2>1. 0 .. 5 \in SUBSET Nat /\ {8} \in SUBSET Nat
    OBVIOUS
  <2>2. R(0 .. 5, "integer") \subseteq Definitions /\ RWReadOnly({8}, "integer") \subseteq Definitions
    BY <1>1, <2>1, RowType
  <2>3. /\ If("start_cb" \in given, E(6)) \subseteq Definitions
        /\ If("stop_cb" \in given, E(7)) \subseteq Definitions
        /\ If("read_cb" \in given, R(0 .. 5, "integer") \cup RWReadOnly({8}, "integer"))
               \subseteq Definitions
    BY <2>2, ExecuteType, IfType
  <2>4. QED
    BY <2>3 DEF ConnStatsResources
<1>9. QED
  BY <1>2, <1>3, <1>4, <1>5, <1>6, <1>7, <1>8 DEF Resources, Kinds

\* What a factory makes is an object.
LEMMA MadeType ==
    ASSUME NEW kind \in Kinds, NEW given \in SUBSET UNION {Optional(k) : k \in Kinds}
    PROVE  MakeObject(kind, given) \in Objects
<1>1. Added(Resources(kind, given)) \subseteq Definitions
  BY ResourcesType DEF Added
<1>2. QED
  BY <1>1 DEF MakeObject, Objects

\* The object that no factory has made yet.
LEMMA NoObjectType == NoObject \in Objects
BY DEF NoObject, Objects

\* What destroy_std_object frees of one kind is apart from all other memory.
LEMMA FreedApart ==
    ASSUME NEW k \in Kinds
    PROVE  /\ Freed(k) \subseteq {k} \X {"object", "context"}
           /\ AppMemory \notin Freed(k)
           /\ Freed(k) # {}
           /\ Freed(k) \subseteq Kinds \X {"object", "context"}
<1>1. Freed(k) \subseteq {k} \X {"object", "context"} /\ Freed(k) # {}
  <2>1. CASE k \in WithContext
    BY <2>1 DEF Freed, If
  <2>2. CASE k \notin WithContext
    BY <2>2 DEF Freed, If
  <2>3. QED
    BY <2>1, <2>2
<1>2. k # "app"
  BY DEF Kinds
<1>3. QED
  BY <1>1, <1>2 DEF AppMemory

\* What an application first gives to the server object.
LEMMA FirstInfoType == FirstInfo \in Infos
BY WordAssumption DEF FirstInfo, Infos

-----------------------------------------------------------------------------
\* The memory and the statics of a device that has just been switched on.
LEMMA PowerUpInv == PowerUp => IInv'
<1> SUFFICES ASSUME PowerUp PROVE IInv'
  OBVIOUS
<1>1. TypeOK'
  BY NoObjectType, FirstInfoType
     DEF PowerUp, TypeOK, FirstFirmware, FwStates, FwResults, URIs
<1>2. HeapOwned'
  BY DEF PowerUp, HeapOwned, NoObject
<1>3. OffIsEmpty' /\ WrittenIsMade'
  BY DEF PowerUp, OffIsEmpty, WrittenIsMade
<1>4. FirmwareReport'
  BY DEF PowerUp, FirmwareReport, FirstFirmware
<1>5. MadeAsGiven'
  BY DEF PowerUp, MadeAsGiven, NoObject
<1>6. QED
  BY <1>1, <1>2, <1>3, <1>4, <1>5 DEF IInv

\* The device before its first power-up.
LEMMA InitInv == Init => IInv
<1> SUFFICES ASSUME Init PROVE IInv
  OBVIOUS
<1>1. TypeOK
  BY NoObjectType, FirstInfoType
     DEF Init, TypeOK, FirstFirmware, FwStates, FwResults, URIs
<1>2. HeapOwned
  BY DEF Init, HeapOwned, NoObject
<1>3. OffIsEmpty /\ WrittenIsMade
  BY DEF Init, OffIsEmpty, WrittenIsMade
<1>4. FirmwareReport
  BY DEF Init, FirmwareReport, FirstFirmware
<1>5. MadeAsGiven
  BY DEF Init, MadeAsGiven, NoObject
<1>6. QED
  BY <1>1, <1>2, <1>3, <1>4, <1>5 DEF IInv

\* server_write_cb leaves numbers of 32 bits in the info.
LEMMA ServerWritesType ==
    ASSUME NEW i \in Infos, NEW id \in 0 .. 8, NEW v \in Sent, NEW j \in ServerWrites(i, id, v)
    PROVE  j \in Infos
<1>1. GetInt(v) \in Int
  BY WrittenAssumption DEF Sent, Value, GetInt
<1>2. GetInt(v) % Word \in 0 .. Word - 1
  BY <1>1, WordAssumption
<1>3. GetBool(v) \subseteq 0 .. Word - 1
  BY WordAssumption DEF GetBool
<1>4. id \in DOMAIN FieldWritten => FieldWritten[id] \in Fields
  BY DEF FieldWritten, Fields
<1>5. QED
  BY <1>2, <1>3, <1>4 DEF ServerWrites, Infos, Fields

\* A step that leaves the device on keeps what was written with its object.
LEMMA WrittenStep ==
    ASSUME TypeOK, OffIsEmpty, WrittenIsMade, [Next]_vars, ~PowerUp
    PROVE  WrittenIsMade'
<1>1. CASE AppMain
  BY <1>1 DEF AppMain, OffIsEmpty, WrittenIsMade, Kinds
<1>2. ASSUME NEW kind \in Kinds, Create(kind) PROVE WrittenIsMade'
  <2>1. CASE objs' = objs
    BY <1>2, <2>1 DEF Create, WrittenIsMade
  <2>2. CASE objs'["server"] # NoObject
    BY <1>2, <2>2 DEF WrittenIsMade
  <2>3. PICK given : objs' = objs \/ objs' = [objs EXCEPT ![kind] = MakeObject(kind, given)]
    BY <1>2 DEF Create
  <2>4. MakeObject(kind, given) # NoObject
    BY DEF MakeObject, NoObject
  <2>5. objs'["server"] \in {objs["server"], MakeObject(kind, given)}
    BY <2>3 DEF TypeOK, Kinds
  <2>6. QED
    BY <1>2, <2>2, <2>4, <2>5 DEF Create, WrittenIsMade
<1>3. ASSUME NEW kind \in Kinds, Destroy(kind) PROVE WrittenIsMade'
  BY <1>3 DEF Destroy, WrittenIsMade
<1>4. ASSUME NEW id \in 0 .. 8, NEW v \in Sent, WriteServer(id, v) PROVE WrittenIsMade'
  BY <1>4 DEF WriteServer, WrittenIsMade, NoObject
<1>5. CASE WriteFirmware \/ Update \/ UNCHANGED vars
  BY <1>5 DEF WriteFirmware, Update, vars, WrittenIsMade
<1>6. QED
  BY <1>1, <1>2, <1>3, <1>4, <1>5 DEF Next, Restart, Reboot

\* A step that leaves the device on changes no object, but makes and destroys them.
LEMMA MadeStep ==
    ASSUME TypeOK, MadeAsGiven, [Next]_vars, ~PowerUp
    PROVE  MadeAsGiven'
<1> DEFINE AsGiven(o, k) == IF o.made THEN o.given \subseteq Optional(k) /\ o = MakeObject(k, o.given)
                                      ELSE o = NoObject
<1>1. ASSUME NEW k, NEW given \in SUBSET Optional(k)
      PROVE  AsGiven(MakeObject(k, given), k)
  BY DEF MakeObject
<1>2. ASSUME NEW k PROVE AsGiven(NoObject, k)
  BY DEF NoObject
<1>3. MadeAsGiven <=> \A k \in Kinds : AsGiven(objs[k], k)
  BY DEF MadeAsGiven
<1>4. MadeAsGiven' <=> \A k \in Kinds : AsGiven(objs'[k], k)
  BY DEF MadeAsGiven
<1> HIDE DEF AsGiven
<1>5. CASE objs' = objs
  BY <1>3, <1>4, <1>5
<1>6. CASE AppMain
  <2>1. \A k \in DOMAIN ExampleGives : k \in Kinds /\ ExampleGives[k] \subseteq Optional(k)
    BY DEF ExampleGives, Optional, Kinds
  <2>2. PICK made \in SUBSET DOMAIN ExampleGives :
            objs' = objs \/ objs' = [k \in Kinds |-> IF k \in made
                                                    THEN MakeObject(k, ExampleGives[k])
                                                    ELSE NoObject]
    BY <1>6 DEF AppMain
  <2>3. ASSUME NEW k \in Kinds, objs' # objs PROVE AsGiven(objs'[k], k)
    <3>1. CASE k \in made
      BY <1>1, <2>1, <2>2, <2>3, <3>1
    <3>2. CASE k \notin made
      BY <1>2, <2>2, <2>3, <3>2
    <3>3. QED
      BY <3>1, <3>2
  <2>4. QED
    BY <1>4, <1>5, <2>3
<1>7. ASSUME NEW kind \in Kinds, Create(kind) PROVE MadeAsGiven'
  <2>1. PICK given \in SUBSET Optional(kind) :
            objs' = objs \/ objs' = [objs EXCEPT ![kind] = MakeObject(kind, given)]
    BY <1>7 DEF Create
  <2>2. \A k \in Kinds : objs'[k] = objs[k] \/ (k = kind /\ objs'[k] = MakeObject(k, given))
    BY <2>1 DEF TypeOK
  <2>3. QED
    BY <1>1, <1>3, <1>4, <2>2
<1>8. ASSUME NEW kind \in Kinds, Destroy(kind) PROVE MadeAsGiven'
  <2>1. \A k \in Kinds : objs'[k] = objs[k] \/ objs'[k] = NoObject
    BY <1>8 DEF Destroy, TypeOK
  <2>2. QED
    BY <1>2, <1>3, <1>4, <2>1
<1>9. QED
  BY <1>5, <1>6, <1>7, <1>8
     DEF Next, vars, WriteServer, WriteFirmware, Update, Restart, Reboot

\* Factories, destructions, requests and restarts keep the invariant.
LEMMA StepInv == IInv /\ [Next]_vars => IInv'
<1> SUFFICES ASSUME TypeOK, OffIsEmpty, WrittenIsMade, MadeAsGiven, HeapOwned,
                    FirmwareReport, [Next]_vars
             PROVE  IInv'
  BY DEF IInv
<1> SUFFICES ASSUME ~PowerUp PROVE TypeOK' /\ HeapOwned' /\ FirmwareReport'
  <2>1. ASSUME ~PowerUp PROVE OffIsEmpty'
    BY <2>1 DEF Next, vars, OffIsEmpty, AppMain, Create, Destroy, WriteServer, WriteFirmware,
                Update, Serving, Restart, Reboot
  <2>2. ASSUME ~PowerUp PROVE WrittenIsMade'
    BY <2>2, WrittenStep DEF Next, vars
  <2>3. ASSUME ~PowerUp PROVE MadeAsGiven'
    BY <2>3, MadeStep
  <2>4. QED
    BY <2>1, <2>2, <2>3, PowerUpInv DEF IInv
<1>1. CASE AppMain
  <2>1. PICK made \in SUBSET DOMAIN ExampleGives :
               /\ heap' = heap \cup UNION {Freed(k) : k \in made}
               /\ \/ /\ app' = "example"
                     /\ objs' = [k \in Kinds |-> IF k \in made
                                                  THEN MakeObject(k, ExampleGives[k])
                                                  ELSE NoObject]
                  \/ app' = "returned" /\ UNCHANGED objs
    BY <1>1 DEF AppMain
  <2>2. \A k \in DOMAIN ExampleGives : k \in Kinds /\ ExampleGives[k] \subseteq Optional(k)
    BY DEF ExampleGives, Optional, Kinds
  <2>3. objs' \in [Kinds -> Objects]
    <3>1. \A k \in made : MakeObject(k, ExampleGives[k]) \in Objects
      BY <2>2, MadeType
    <3>2. QED
      BY <2>1, <3>1, NoObjectType DEF TypeOK
  <2>4. heap' \subseteq (Kinds \X {"object", "context"}) \cup {AppMemory}
    BY <2>1, <2>2, FreedApart DEF TypeOK
  <2>5. TypeOK'
    BY <1>1, <2>1, <2>3, <2>4 DEF AppMain, TypeOK
  <2>6. HeapOwned'
    <3>1. heap = {AppMemory}
      BY <1>1 DEF AppMain, HeapOwned, OffIsEmpty, NoObject
    <3>2. CASE app' = "returned"
      BY <3>2 DEF HeapOwned
    <3>3. CASE app' # "returned"
      <4>1. made = {k \in Kinds : objs'[k].made}
        BY <2>1, <2>2, <3>3 DEF MakeObject, NoObject
      <4>2. QED
        BY <2>1, <3>1, <4>1 DEF HeapOwned
    <3>4. QED
      BY <3>2, <3>3
  <2>7. FirmwareReport'
    BY <1>1 DEF AppMain, FirmwareReport
  <2>8. QED
    BY <2>5, <2>6, <2>7
<1>2. ASSUME NEW kind \in Kinds, Create(kind) PROVE TypeOK' /\ HeapOwned' /\ FirmwareReport'
  <2>1. PICK given \in SUBSET Optional(kind), blocks \in Allocations(kind) :
               /\ heap' = heap \cup blocks
               /\ objs' = IF Freed(kind) \subseteq blocks
                          THEN [objs EXCEPT ![kind] = MakeObject(kind, given)] ELSE objs
    BY <1>2 DEF Create
  <2>2. MakeObject(kind, given) \in Objects
    BY MadeType
  <2>3. blocks = {} \/ blocks = Freed(kind)
    BY DEF Allocations, Freed
  <2>4. TypeOK'
    <3>1. objs' \in [Kinds -> Objects]
      BY <2>1, <2>2 DEF TypeOK
    <3>2. heap' \subseteq (Kinds \X {"object", "context"}) \cup {AppMemory}
      BY <2>1, <2>3, FreedApart DEF TypeOK
    <3>3. QED
      BY <1>2, <3>1, <3>2 DEF Create, TypeOK
  <2>5. HeapOwned'
    <3>1. heap = {AppMemory} /\ \A k \in Kinds : ~objs[k].made
      BY <1>2 DEF Create, HeapOwned
    <3>2. CASE blocks = {}
      BY <2>1, <3>1, <3>2, FreedApart DEF HeapOwned
    <3>3. CASE blocks = Freed(kind)
      BY <2>1, <3>1, <3>3 DEF HeapOwned, MakeObject, TypeOK
    <3>4. QED
      BY <2>3, <3>2, <3>3
  <2>6. FirmwareReport'
    BY <1>2 DEF Create, FirmwareReport
  <2>7. QED
    BY <2>4, <2>5, <2>6
<1>3. ASSUME NEW kind \in Kinds, Destroy(kind) PROVE TypeOK' /\ HeapOwned' /\ FirmwareReport'
  <2>1. TypeOK'
    BY <1>3, NoObjectType, FirstInfoType DEF Destroy, TypeOK
  <2>2. HeapOwned'
    BY <1>3, FreedApart DEF Destroy, HeapOwned, TypeOK, NoObject, AppMemory
  <2>3. FirmwareReport'
    BY <1>3 DEF Destroy, FirmwareReport
  <2>4. QED
    BY <2>1, <2>2, <2>3
<1>4. ASSUME NEW id \in 0 .. 8, NEW v \in Sent, WriteServer(id, v)
      PROVE  TypeOK' /\ HeapOwned' /\ FirmwareReport'
  <2>1. TypeOK'
    BY <1>4, ServerWritesType DEF WriteServer, TypeOK
  <2>2. HeapOwned' /\ FirmwareReport'
    BY <1>4 DEF WriteServer, HeapOwned, FirmwareReport
  <2>3. QED
    BY <2>1, <2>2
<1>5. CASE WriteFirmware
  <2>1. TypeOK'
    <3>1. ASSUME NEW uri \in URIs, FwWriteUri(uri)
          PROVE  fw' \in [state : FwStates, result : FwResults, uri : URIs]
      <4>1. CASE uri # "empty"
        BY <3>1, <4>1 DEF FwWriteUri, FwStates, FwResults
      <4>2. CASE uri = "empty"
        BY <3>1, <4>2 DEF FwWriteUri, TypeOK, FwResults
      <4>3. QED
        BY <4>1, <4>2
    <3>2. CASE fw' = [fw EXCEPT !.result = "INVALID_URI"]
      BY <1>5, <3>2 DEF WriteFirmware, TypeOK, FwResults
    <3>3. QED
      BY <1>5, <3>1, <3>2 DEF WriteFirmware, TypeOK
  <2>2. HeapOwned'
    BY <1>5 DEF WriteFirmware, HeapOwned
  <2>3. FirmwareReport'
    <3>1. ASSUME NEW uri \in URIs, FwWriteUri(uri), delay' = delay PROVE FirmwareReport'
      <4>1. CASE uri # "empty"
        BY <3>1, <4>1 DEF FwWriteUri, FirmwareReport
      <4>2. CASE uri = "empty"
        BY <3>1, <4>2 DEF FwWriteUri, TypeOK, FirmwareReport
      <4>3. QED
        BY <4>1, <4>2
    <3>2. CASE fw' = [fw EXCEPT !.result = "INVALID_URI"]
      BY <1>5, <3>2 DEF WriteFirmware, TypeOK, FirmwareReport
    <3>3. QED
      BY <1>5, <3>1, <3>2 DEF WriteFirmware
  <2>4. QED
    BY <2>1, <2>2, <2>3
<1>6. CASE Update
  <2>1. TypeOK'
    BY <1>6 DEF Update, TypeOK, FwStates, FwResults
  <2>2. HeapOwned'
    BY <1>6 DEF Update, HeapOwned
  <2>3. FirmwareReport'
    BY <1>6 DEF Update, FirmwareReport, TypeOK
  <2>4. QED
    BY <2>1, <2>2, <2>3
<1>7. CASE Restart \/ Reboot
  BY <1>7 DEF Restart, Reboot
<1>8. CASE UNCHANGED vars
  BY <1>8 DEF vars, TypeOK, HeapOwned, FirmwareReport
<1>9. QED
  BY <1>1, <1>2, <1>3, <1>4, <1>5, <1>6, <1>7, <1>8 DEF Next

\* server_read_cb returns the field that server_write_cb has set, and no other changes.
LEMMA WrittenIsRead ==
    ASSUME TypeOK, NEW id \in {1, 2, 3, 5}, NEW v \in Sent, WriteServer(id, v),
           NEW other \in {1, 2, 3, 5}
    PROVE  ServerRead(info', other).value.n =
               IF other = id THEN GetInt(v) % Word ELSE ServerRead(info, other).value.n
<1>1. info' = [info EXCEPT ![FieldWritten[id]] = GetInt(v) % Word]
  BY DEF WriteServer, ServerWrites, FieldWritten
<1>2. /\ FieldWritten[id] \in Fields /\ FieldRead[other] \in Fields
      /\ FieldWritten[id] = FieldRead[other] <=> id = other
  BY DEF FieldWritten, FieldRead, Fields
<1>3. \A i \in Infos : ServerRead(i, other).value.n = i[FieldRead[other]]
  BY DEF ServerRead, Ok, Value, FieldRead
<1>4. info \in Infos /\ info' \in Infos
  BY ServerWritesType DEF TypeOK, WriteServer
<1>5. info'[FieldRead[other]] =
          IF other = id THEN GetInt(v) % Word ELSE info[FieldRead[other]]
  BY <1>1, <1>2, <1>4 DEF Infos
<1>6. QED
  BY <1>3, <1>4, <1>5

\* While its object lives, only a write changes what a server reads.
LEMMA OnlyWritesChange ==
    ASSUME TypeOK, WrittenIsMade, [Next]_vars, objs' = objs, info' # info
    PROVE  \E id \in {1, 2, 3, 5, 6}, v \in Sent : WriteServer(id, v)
<1>1. ~PowerUp
  BY DEF PowerUp, WrittenIsMade, Kinds
<1>2. ASSUME NEW kind \in Kinds PROVE ~Destroy(kind)
  BY <1>2 DEF Destroy, TypeOK, NoObject
<1>3. PICK id \in 0 .. 8, v \in Sent : WriteServer(id, v)
  BY <1>1, <1>2 DEF Next, vars, Restart, Reboot, AppMain, Create, WriteFirmware, Update
<1>4. id \in {1, 2, 3, 5, 6}
  BY <1>3 DEF WriteServer, ServerWrites, FieldWritten
<1>5. QED
  BY <1>3, <1>4

\* No order of requests, restarts and failed allocations breaks the invariant.
THEOREM Invariant == Spec => []IInv
BY InitInv, StepInv, PTL DEF Spec

\* The heap holds what the application's objects own, whichever allocation failed.
THEOREM Heap == Spec => []HeapOwned
<1>1. IInv => HeapOwned
  BY DEF IInv
<1>2. QED
  BY <1>1, Invariant, PTL

\* A downloaded firmware without a URI shows in the result, over restarts at any moment.
THEOREM Firmware == Spec => []FirmwareReport
<1>1. IInv => FirmwareReport
  BY DEF IInv
<1>2. QED
  BY <1>1, Invariant, PTL

\* What a server writes to the server object it reads back, for words of any size.
THEOREM ReadsBack == Spec => WriteReadsBack
<1>1. IInv /\ [Next]_vars =>
        [/\ \A id \in {1, 2, 3, 5}, v \in Sent :
               WriteServer(id, v) =>
                   \A other \in {1, 2, 3, 5} :
                       ServerRead(info', other).value.n =
                           IF other = id THEN GetInt(v) % Word
                                         ELSE ServerRead(info, other).value.n
         /\ (objs' = objs /\ info' # info) =>
                \E id \in {1, 2, 3, 5, 6}, v \in Sent : WriteServer(id, v)]_vars
  BY WrittenIsRead, OnlyWritesChange DEF IInv
<1>2. QED
  BY <1>1, Invariant, PTL DEF Spec, WriteReadsBack

-----------------------------------------------------------------------------
(* What the tables of the factories declare, and what the callbacks serve *)

\* Each row of the security object's table.
LEMMA SecurityRows ==
    ASSUME NEW r \in SecurityResources
    PROVE  /\ r = [id |-> r.id, type |-> r.type, ops |-> {"read"}, cbs |-> {"read"}]
           /\ \/ r.id = 0 /\ r.type = "string"
              \/ r.id = 1 /\ r.type = "boolean"
              \/ r.id \in {2, 10} /\ r.type = "integer"
              \/ r.id \in {3, 4, 5} /\ r.type = "opaque"
BY DEF SecurityResources, R, Declare

\* Each row of the server object's table.
LEMMA ServerRows ==
    ASSUME NEW given, NEW r \in ServerResources(given)
    PROVE  /\ r = [id |-> r.id, type |-> r.type, ops |-> r.ops, cbs |-> r.cbs]
           /\ \/ r.id = 0 /\ r.type = "integer" /\ r.ops = {"read"} /\ r.cbs = {"read"}
              \/ /\ r.id \in {1, 2, 3, 5} /\ r.type = "integer"
                 /\ r.ops = {"read", "write"} /\ r.cbs = {"read", "write"}
              \/ /\ r.id = 6 /\ r.type = "boolean"
                 /\ r.ops = {"read", "write"} /\ r.cbs = {"read", "write"}
              \/ /\ r.id = 7 /\ r.type = "string"
                 /\ r.ops = {"read", "write"} /\ r.cbs = {"read"}
              \/ /\ r.id \in {4, 8} /\ r.type = "none"
                 /\ r.ops = {"execute"} /\ r.cbs = {"execute"}
BY DEF ServerResources, R, RW, RWReadOnly, E, If, Declare

\* Each row of the device object's table.
LEMMA DeviceRows ==
    ASSUME NEW given, NEW r \in DeviceResources(given)
    PROVE  /\ r = [id |-> r.id, type |-> r.type, ops |-> r.ops, cbs |-> r.cbs]
           /\ \/ /\ r.id \in {0, 1, 2, 3, 16, 17, 18, 19} /\ r.type = "string"
                 /\ r.ops = {"read"} /\ r.cbs = {"read"}
              \/ /\ r.id \in {6, 7, 8, 9, 10, 11, 20, 21} /\ r.type = "integer"
                 /\ r.ops = {"read"} /\ r.cbs = {"read"}
              \/ /\ r.id = 13 /\ r.type = "time" /\ r.ops = {"read", "write"}
                 /\ r.cbs = {"read"}
              \/ /\ r.id \in {14, 15} /\ r.type = "string" /\ r.ops = {"read", "write"}
                 /\ r.cbs = {"read"}
              \/ /\ r.id = 4 /\ r.type = "none" /\ r.ops = {"execute"}
                 /\ r.cbs = If("reboot_cb" \in given, {"execute"})
              \/ /\ r.id \in {5, 12} /\ r.type = "none" /\ r.ops = {"execute"}
                 /\ r.cbs = {"execute"}
<1>1. \/ r \in R({0, 1, 2, 16}, "string") \/ r \in R({3}, "string") \/ r \in R({17}, "string")
      \/ r \in R({18}, "string") \/ r \in R({19}, "string")
      \/ r \in R({6, 7, 8, 9, 10, 11, 20, 21}, "integer") \/ r \in RWReadOnly({13}, "time")
      \/ r \in RWReadOnly({14}, "string") \/ r \in RWReadOnly({15}, "string")
      \/ r \in Declare({4}, "none", {"execute"}, If("reboot_cb" \in given, {"execute"}))
      \/ r \in E(5) \/ r \in E(12)
  BY Zenon DEF DeviceResources, If
<1>2. QED
  BY <1>1 DEF R, RWReadOnly, E, Declare

\* Each row of the connectivity monitoring object's table.
LEMMA ConnMonRows ==
    ASSUME NEW r \in ConnMonResources
    PROVE  /\ r = [id |-> r.id, type |-> r.type, ops |-> {"read"}, cbs |-> {"read"}]
           /\ \/ r.id \in {0, 1, 2, 3, 6, 8, 9, 10} /\ r.type = "integer"
              \/ r.id \in {4, 5, 7} /\ r.type = "string"
BY DEF ConnMonResources, R, Declare

\* Each row of the firmware object's table.
LEMMA FirmwareRows ==
    ASSUME NEW given, NEW r \in FirmwareResources(given)
    PROVE  /\ r = [id |-> r.id, type |-> r.type, ops |-> r.ops, cbs |-> r.cbs]
           /\ \/ /\ r.id = 0 /\ r.type = "opaque" /\ r.ops = {"write"}
                 /\ r.cbs = If("write_cb" \in given, {"write"})
              \/ /\ r.id = 1 /\ r.type = "string" /\ r.ops = {"write"}
                 /\ r.cbs = If("write_cb" \in given, {"write"})
              \/ /\ r.id = 2 /\ r.type = "none" /\ r.ops = {"execute"}
                 /\ r.cbs = If("update_cb" \in given, {"execute"})
              \/ /\ r.id \in {3, 5} /\ r.type = "integer" /\ r.ops = {"read"}
                 /\ r.cbs = If("read_cb" \in given, {"read"})
              \/ /\ r.id \in {6, 7} /\ r.type = "string" /\ "read_cb" \in given
                 /\ r.ops = {"read"} /\ r.cbs = {"read"}
              \/ /\ r.id \in {8, 9} /\ r.type = "integer" /\ "read_cb" \in given
                 /\ r.ops = {"read"} /\ r.cbs = {"read"}
<1>1. \/ r \in Declare({0}, "opaque", {"write"}, If("write_cb" \in given, {"write"}))
      \/ r \in Declare({1}, "string", {"write"}, If("write_cb" \in given, {"write"}))
      \/ r \in Declare({2}, "none", {"execute"}, If("update_cb" \in given, {"execute"}))
      \/ r \in Declare({3, 5}, "integer", {"read"}, If("read_cb" \in given, {"read"}))
      \/ "read_cb" \in given /\ r \in R({6, 7}, "string") \cup R({8, 9}, "integer")
  <2>1. r \in If("read_cb" \in given, R({6, 7}, "string") \cup R({8, 9}, "integer")) =>
            "read_cb" \in given /\ r \in R({6, 7}, "string") \cup R({8, 9}, "integer")
    BY Zenon DEF If
  <2>2. QED
    BY <2>1 DEF FirmwareResources
<1>2. QED
  BY <1>1 DEF R, Declare

\* Each row of the location object's table.
LEMMA LocationRows ==
    ASSUME NEW r \in LocationResources
    PROVE  /\ r = [id |-> r.id, type |-> r.type, ops |-> {"read"}, cbs |-> {"read"}]
           /\ \/ r.id \in {0, 1, 2, 3, 6} /\ r.type = "float"
              \/ r.id = 4 /\ r.type = "opaque"
              \/ r.id = 5 /\ r.type = "time"
BY DEF LocationResources, R, Declare

\* Each row of the connectivity statistics object's table.
LEMMA ConnStatsRows ==
    ASSUME NEW given, NEW r \in ConnStatsResources(given)
    PROVE  /\ r = [id |-> r.id, type |-> r.type, ops |-> r.ops, cbs |-> r.cbs]
           /\ \/ r.id \in 0 .. 5 /\ r.type = "integer" /\ r.ops = {"read"} /\ r.cbs = {"read"}
              \/ /\ r.id = 8 /\ r.type = "integer" /\ r.ops = {"read", "write"}
                 /\ r.cbs = {"read"}
              \/ /\ r.id \in {6, 7} /\ r.type = "none" /\ r.ops = {"execute"}
                 /\ r.cbs = {"execute"}
BY DEF ConnStatsResources, R, RWReadOnly, E, If, Declare

\* The table of each kind.
LEMMA TableOf ==
    ASSUME NEW given
    PROVE  /\ Resources("security", given) = SecurityResources
           /\ Resources("server", given) = ServerResources(given)
           /\ Resources("device", given) = DeviceResources(given)
           /\ Resources("conn_mon", given) = ConnMonResources
           /\ Resources("firmware", given) = FirmwareResources(given)
           /\ Resources("location", given) = LocationResources
           /\ Resources("conn_stats", given) = ConnStatsResources(given)
BY DEF Resources

\* No factory adds two resources of one ID, and every ID is a number.
LEMMA IdsDiffer ==
    ASSUME NEW kind \in Kinds, NEW given,
           NEW p \in Resources(kind, given), NEW q \in Resources(kind, given)
    PROVE  p.id \in Nat /\ (p.id = q.id => p = q)
<1>1. CASE kind = "security"
  BY <1>1, TableOf, SecurityRows
<1>2. CASE kind = "server"
  BY <1>2, TableOf, ServerRows
<1>3. CASE kind = "device"
  <2>1. p \in DeviceResources(given) /\ q \in DeviceResources(given)
    BY <1>3, TableOf
  <2>2. p.id \in Nat
    BY <2>1, DeviceRows
  <2>3. p.id = q.id => p.type = q.type
    BY <2>1, DeviceRows
  <2>4. p.id = q.id => p.ops = q.ops
    BY <2>1, DeviceRows
  <2>5. p.id = q.id => p.cbs = q.cbs
    <3>1. \A r \in DeviceResources(given) :
             r.cbs = IF r.id = 4 THEN If("reboot_cb" \in given, {"execute"})
                     ELSE IF r.id \in {5, 12} THEN {"execute"} ELSE {"read"}
      BY DeviceRows
    <3>2. QED
      BY <2>1, <3>1
  <2>6. /\ p = [id |-> p.id, type |-> p.type, ops |-> p.ops, cbs |-> p.cbs]
        /\ q = [id |-> q.id, type |-> q.type, ops |-> q.ops, cbs |-> q.cbs]
    BY <2>1, DeviceRows
  <2>7. QED
    BY <2>2, <2>3, <2>4, <2>5, <2>6
<1>4. CASE kind = "conn_mon"
  BY <1>4, TableOf, ConnMonRows
<1>5. CASE kind = "firmware"
  <2>1. p \in FirmwareResources(given) /\ q \in FirmwareResources(given)
    BY <1>5, TableOf
  <2>2. p.id \in Nat
    BY <2>1, FirmwareRows
  <2>3. p.id = q.id => p.type = q.type
    BY <2>1, FirmwareRows
  <2>4. p.id = q.id => p.ops = q.ops
    BY <2>1, FirmwareRows
  <2>5. p.id = q.id => p.cbs = q.cbs
    BY <2>1, FirmwareRows
  <2>6. /\ p = [id |-> p.id, type |-> p.type, ops |-> p.ops, cbs |-> p.cbs]
        /\ q = [id |-> q.id, type |-> q.type, ops |-> q.ops, cbs |-> q.cbs]
    BY <2>1, FirmwareRows
  <2>7. QED
    BY <2>2, <2>3, <2>4, <2>5, <2>6
<1>6. CASE kind = "location"
  BY <1>6, TableOf, LocationRows
<1>7. CASE kind = "conn_stats"
  <2>1. p \in ConnStatsResources(given) /\ q \in ConnStatsResources(given)
    BY <1>7, TableOf
  <2>2. p.id \in Nat
    BY <2>1, ConnStatsRows
  <2>3. p.id = q.id => p.type = q.type
    BY <2>1, ConnStatsRows
  <2>4. p.id = q.id => p.ops = q.ops
    BY <2>1, ConnStatsRows
  <2>5. p.id = q.id => p.cbs = q.cbs
    BY <2>1, ConnStatsRows
  <2>6. /\ p = [id |-> p.id, type |-> p.type, ops |-> p.ops, cbs |-> p.cbs]
        /\ q = [id |-> q.id, type |-> q.type, ops |-> q.ops, cbs |-> q.cbs]
    BY <2>1, ConnStatsRows
  <2>7. QED
    BY <2>2, <2>3, <2>4, <2>5, <2>6
<1>8. QED
  BY <1>1, <1>2, <1>3, <1>4, <1>5, <1>6, <1>7 DEF Kinds

\* The IDs below a resource's are the most that can be in the array before it, so it is
\* added when there are that many places.
LEMMA KeptBelow ==
    ASSUME NEW kind \in Kinds, NEW given, NEW r \in Resources(kind, given),
           r.id < MaxResources
    PROVE  r \in Added(Resources(kind, given))
<1> DEFINE Q == {q \in Resources(kind, given) : q.id < r.id}
           D == {q.id : q \in Q}
           f == [i \in D |-> CHOOSE q \in Q : q.id = i]
<1>1. \A q \in Resources(kind, given) : q.id \in Nat
  BY IdsDiffer
<1>2. r.id \in Nat /\ D \subseteq 0 .. (r.id - 1)
  BY <1>1
<1>3. f \in Surjection(D, Q)
  <2>1. \A q \in Q : q.id \in D /\ f[q.id] = q
    <3>1. \A q, s \in Q : q.id = s.id => q = s
      BY IdsDiffer
    <3>2. QED
      BY <3>1
  <2>2. f \in [D -> Q]
    BY <2>1
  <2>3. QED
    BY <2>1, <2>2 DEF Surjection
<1>4. IsFiniteSet(D) /\ Cardinality(D) \in Nat /\ Cardinality(D) <= r.id
  <2>1. IsFiniteSet(0 .. (r.id - 1)) /\ Cardinality(0 .. (r.id - 1)) = r.id
    <3>1. r.id - 1 \in Int /\ 0 \in Int
      BY <1>2
    <3>2. /\ IsFiniteSet(0 .. (r.id - 1))
          /\ Cardinality(0 .. (r.id - 1)) =
                 IF 0 > r.id - 1 THEN 0 ELSE r.id - 1 - 0 + 1
      BY <3>1, FS_Interval
    <3>3. QED
      BY <1>2, <3>2
  <2> HIDE DEF D
  <2>2. IsFiniteSet(D) /\ Cardinality(D) <= Cardinality(0 .. (r.id - 1))
    BY <1>2, <2>1, FS_Subset
  <2>3. QED
    BY <2>1, <2>2, FS_CardinalityType
<1>5. Cardinality(Q) \in Nat /\ Cardinality(Q) <= r.id
  <2> HIDE DEF D, Q, f
  <2>1. IsFiniteSet(Q) /\ Cardinality(Q) <= Cardinality(D)
    BY <1>3, <1>4, FS_Surjection
  <2>2. QED
    BY <1>2, <1>4, <2>1, FS_CardinalityType
<1>6. QED
  BY <1>2, <1>5, MaxResourcesAssumption DEF Added

\* Each row of a set of declarations is there.
LEMMA DeclareRows ==
    ASSUME NEW ids, NEW type, NEW ops, NEW cbs, NEW i \in ids
    PROVE  \E r \in Declare(ids, type, ops, cbs) : r.id = i
<1>1. [id |-> i, type |-> type, ops |-> ops, cbs |-> cbs] \in Declare(ids, type, ops, cbs)
  BY DEF Declare
<1>2. QED
  BY <1>1

\* The device's factory adds what its header promises.
LEMMA DevicePromised ==
    ASSUME NEW given, NEW id \in Promised("device", given)
    PROVE  id \in 0 .. 19 /\ \E r \in DeviceResources(given) : r.id = id
<1>1. \/ id \in {0, 1, 2, 16} \/ id \in {9, 10, 11} \/ id = 13
      \/ id = 3 /\ "firmware_version" \in given
      \/ id = 4
      \/ id = 5 /\ "factory_reset_cb" \in given
      \/ id = 12 /\ "reset_error_cb" \in given
      \/ id = 14 /\ "utc_offset" \in given
      \/ id = 15 /\ "timezone" \in given
      \/ id = 17 /\ "device_type" \in given
      \/ id = 18 /\ "hardware_version" \in given
      \/ id = 19 /\ "software_version" \in given
  <2>1. Promised("device", given) = {0, 1, 2, 9, 10, 11, 13, 16}
             \cup If("firmware_version" \in given, {3})
             \cup If("reboot_cb" \in given, {4})
             \cup If("factory_reset_cb" \in given, {5})
             \cup If("reset_error_cb" \in given, {12})
             \cup If("utc_offset" \in given, {14})
             \cup If("timezone" \in given, {15})
             \cup If("device_type" \in given, {17})
             \cup If("hardware_version" \in given, {18})
             \cup If("software_version" \in given, {19})
    BY Zenon DEF Promised
  <2>2. QED
    BY <2>1 DEF If
<1>2. /\ R({0, 1, 2, 16}, "string") \subseteq DeviceResources(given)
      /\ R({6, 7, 8, 9, 10, 11, 20, 21}, "integer") \subseteq DeviceResources(given)
      /\ RWReadOnly({13}, "time") \subseteq DeviceResources(given)
      /\ Declare({4}, "none", {"execute"}, If("reboot_cb" \in given, {"execute"}))
             \subseteq DeviceResources(given)
  BY DEF DeviceResources
<1>3. /\ "firmware_version" \in given => R({3}, "string") \subseteq DeviceResources(given)
      /\ "factory_reset_cb" \in given => E(5) \subseteq DeviceResources(given)
      /\ "reset_error_cb" \in given => E(12) \subseteq DeviceResources(given)
      /\ "utc_offset" \in given => RWReadOnly({14}, "string") \subseteq DeviceResources(given)
      /\ "timezone" \in given => RWReadOnly({15}, "string") \subseteq DeviceResources(given)
      /\ "device_type" \in given => R({17}, "string") \subseteq DeviceResources(given)
      /\ "hardware_version" \in given => R({18}, "string") \subseteq DeviceResources(given)
      /\ "software_version" \in given => R({19}, "string") \subseteq DeviceResources(given)
  <2>1. ASSUME NEW resources PROVE If(TRUE, resources) = resources
    BY DEF If
  <2>2. "firmware_version" \in given => R({3}, "string") \subseteq DeviceResources(given)
    BY <2>1 DEF DeviceResources
  <2>3. "factory_reset_cb" \in given => E(5) \subseteq DeviceResources(given)
    BY <2>1 DEF DeviceResources
  <2>4. "reset_error_cb" \in given => E(12) \subseteq DeviceResources(given)
    BY <2>1 DEF DeviceResources
  <2>5. "utc_offset" \in given => RWReadOnly({14}, "string") \subseteq DeviceResources(given)
    BY <2>1 DEF DeviceResources
  <2>6. "timezone" \in given => RWReadOnly({15}, "string") \subseteq DeviceResources(given)
    BY <2>1 DEF DeviceResources
  <2>7. "device_type" \in given => R({17}, "string") \subseteq DeviceResources(given)
    BY <2>1 DEF DeviceResources
  <2>8. "hardware_version" \in given => R({18}, "string") \subseteq DeviceResources(given)
    BY <2>1 DEF DeviceResources
  <2>9. "software_version" \in given => R({19}, "string") \subseteq DeviceResources(given)
    BY <2>1 DEF DeviceResources
  <2>10. QED
    BY <2>2, <2>3, <2>4, <2>5, <2>6, <2>7, <2>8, <2>9
<1>4. \E r \in DeviceResources(given) : r.id = id
  <2>1. CASE id \in {0, 1, 2, 16}
    BY <1>2, <2>1, DeclareRows DEF R
  <2>2. CASE id \in {9, 10, 11}
    <3>1. id \in {6, 7, 8, 9, 10, 11, 20, 21}
      BY <2>2
    <3>2. PICK r \in R({6, 7, 8, 9, 10, 11, 20, 21}, "integer") : r.id = id
      BY <3>1, DeclareRows DEF R
    <3>3. QED
      BY <1>2, <3>2
  <2>3. CASE id \in {4, 13}
    BY <1>2, <2>3, DeclareRows DEF RWReadOnly
  <2>4. CASE id = 3 /\ "firmware_version" \in given
    BY <1>3, <2>4, DeclareRows DEF R
  <2>5. CASE id = 5 /\ "factory_reset_cb" \in given
    BY <1>3, <2>5, DeclareRows DEF E
  <2>6. CASE id = 12 /\ "reset_error_cb" \in given
    BY <1>3, <2>6, DeclareRows DEF E
  <2>7. CASE id = 14 /\ "utc_offset" \in given
    BY <1>3, <2>7, DeclareRows DEF RWReadOnly
  <2>8. CASE id = 15 /\ "timezone" \in given
    BY <1>3, <2>8, DeclareRows DEF RWReadOnly
  <2>9. CASE id = 17 /\ "device_type" \in given
    BY <1>3, <2>9, DeclareRows DEF R
  <2>10. CASE id = 18 /\ "hardware_version" \in given
    BY <1>3, <2>10, DeclareRows DEF R
  <2>11. CASE id = 19 /\ "software_version" \in given
    BY <1>3, <2>11, DeclareRows DEF R
  <2>12. QED
    BY <1>1, <2>1, <2>2, <2>3, <2>4, <2>5, <2>6, <2>7, <2>8, <2>9, <2>10, <2>11
<1>5. QED
  BY <1>1, <1>4

\* So does the server's.
LEMMA ServerPromised ==
    ASSUME NEW given, NEW id \in Promised("server", given)
    PROVE  id \in 0 .. 19 /\ \E r \in ServerResources(given) : r.id = id
<1>1. \/ id = 0 \/ id \in {1, 2, 3, 5} \/ id = 6 \/ id = 7
      \/ id = 4 /\ "disable_cb" \in given
      \/ id = 8 /\ "reg_update_cb" \in given
  <2>1. Promised("server", given) = {0, 1, 2, 3, 5, 6, 7}
             \cup If("disable_cb" \in given, {4}) \cup If("reg_update_cb" \in given, {8})
    BY Zenon DEF Promised
  <2>2. QED
    BY <2>1 DEF If
<1>2. /\ R({0}, "integer") \subseteq ServerResources(given)
      /\ RW({1, 2, 3, 5}, "integer") \subseteq ServerResources(given)
      /\ RW({6}, "boolean") \subseteq ServerResources(given)
      /\ RWReadOnly({7}, "string") \subseteq ServerResources(given)
  BY DEF ServerResources
<1>3. /\ "disable_cb" \in given => E(4) \subseteq ServerResources(given)
      /\ "reg_update_cb" \in given => E(8) \subseteq ServerResources(given)
  <2>1. ASSUME NEW resources PROVE If(TRUE, resources) = resources
    BY DEF If
  <2>2. QED
    BY <2>1 DEF ServerResources
<1>4. \E r \in ServerResources(given) : r.id = id
  <2>1. CASE id = 0
    BY <1>2, <2>1, DeclareRows DEF R
  <2>2. CASE id \in {1, 2, 3, 5}
    BY <1>2, <2>2, DeclareRows DEF RW
  <2>3. CASE id = 6
    BY <1>2, <2>3, DeclareRows DEF RW
  <2>4. CASE id = 7
    BY <1>2, <2>4, DeclareRows DEF RWReadOnly
  <2>5. CASE id = 4 /\ "disable_cb" \in given
    BY <1>3, <2>5, DeclareRows DEF E
  <2>6. CASE id = 8 /\ "reg_update_cb" \in given
    BY <1>3, <2>6, DeclareRows DEF E
  <2>7. QED
    BY <1>1, <2>1, <2>2, <2>3, <2>4, <2>5, <2>6
<1>5. QED
  BY <1>1, <1>4

\* So does that of the firmware object.
LEMMA FirmwarePromised ==
    ASSUME NEW given, NEW id \in Promised("firmware", given)
    PROVE  id \in 0 .. 19 /\ \E r \in FirmwareResources(given) : r.id = id
<1>1. \/ id = 0 \/ id = 1 \/ id = 2 \/ id \in {3, 5}
      \/ "read_cb" \in given /\ (id \in {6, 7} \/ id \in {8, 9})
  <2>1. Promised("firmware", given) = {0, 1, 2, 3, 5} \cup If("read_cb" \in given, 6 .. 9)
    BY Zenon DEF Promised
  <2>2. QED
    BY <2>1 DEF If
<1>2. /\ Declare({0}, "opaque", {"write"}, If("write_cb" \in given, {"write"}))
             \subseteq FirmwareResources(given)
      /\ Declare({1}, "string", {"write"}, If("write_cb" \in given, {"write"}))
             \subseteq FirmwareResources(given)
      /\ Declare({2}, "none", {"execute"}, If("update_cb" \in given, {"execute"}))
             \subseteq FirmwareResources(given)
      /\ Declare({3, 5}, "integer", {"read"}, If("read_cb" \in given, {"read"}))
             \subseteq FirmwareResources(given)
  BY DEF FirmwareResources
<1>3. "read_cb" \in given =>
          /\ R({6, 7}, "string") \subseteq FirmwareResources(given)
          /\ R({8, 9}, "integer") \subseteq FirmwareResources(given)
  <2>1. "read_cb" \in given =>
            If("read_cb" \in given, R({6, 7}, "string") \cup R({8, 9}, "integer")) =
                R({6, 7}, "string") \cup R({8, 9}, "integer")
    BY Zenon DEF If
  <2>2. QED
    BY <2>1 DEF FirmwareResources
<1>4. \E r \in FirmwareResources(given) : r.id = id
  <2>1. CASE id \in {0, 1, 2, 3, 5}
    BY <1>2, <2>1, DeclareRows
  <2>2. CASE "read_cb" \in given /\ id \in {6, 7}
    BY <1>3, <2>2, DeclareRows DEF R
  <2>3. CASE "read_cb" \in given /\ id \in {8, 9}
    BY <1>3, <2>3, DeclareRows DEF R
  <2>4. QED
    BY <1>1, <2>1, <2>2, <2>3
<1>5. QED
  BY <1>1, <1>4

\* So does that of the connectivity statistics.
LEMMA ConnStatsPromised ==
    ASSUME NEW given, NEW id \in Promised("conn_stats", given)
    PROVE  id \in 0 .. 19 /\ \E r \in ConnStatsResources(given) : r.id = id
<1>1. \/ "read_cb" \in given /\ (id \in 0 .. 5 \/ id = 8)
      \/ "start_cb" \in given /\ id = 6
      \/ "stop_cb" \in given /\ id = 7
  <2>1. Promised("conn_stats", given) = If("read_cb" \in given, 0 .. 5 \cup {8})
             \cup If("start_cb" \in given, {6}) \cup If("stop_cb" \in given, {7})
    BY Zenon DEF Promised
  <2>2. QED
    BY <2>1 DEF If
<1>2. /\ "read_cb" \in given =>
             /\ R(0 .. 5, "integer") \subseteq ConnStatsResources(given)
             /\ RWReadOnly({8}, "integer") \subseteq ConnStatsResources(given)
      /\ "start_cb" \in given => E(6) \subseteq ConnStatsResources(given)
      /\ "stop_cb" \in given => E(7) \subseteq ConnStatsResources(given)
  <2>1. ASSUME NEW resources, NEW condition, condition
        PROVE  If(condition, resources) = resources
    BY <2>1, Zenon DEF If
  <2>2. /\ "read_cb" \in given =>
               If("read_cb" \in given, R(0 .. 5, "integer") \cup RWReadOnly({8}, "integer")) =
                   R(0 .. 5, "integer") \cup RWReadOnly({8}, "integer")
        /\ "start_cb" \in given => If("start_cb" \in given, E(6)) = E(6)
        /\ "stop_cb" \in given => If("stop_cb" \in given, E(7)) = E(7)
    BY <2>1, Zenon
  <2>3. QED
    BY <2>2 DEF ConnStatsResources
<1>3. \E r \in ConnStatsResources(given) : r.id = id
  <2>1. CASE "read_cb" \in given /\ id \in 0 .. 5
    BY <1>2, <2>1, DeclareRows DEF R
  <2>2. CASE "read_cb" \in given /\ id = 8
    BY <1>2, <2>2, DeclareRows DEF RWReadOnly
  <2>3. CASE "start_cb" \in given /\ id = 6
    BY <1>2, <2>3, DeclareRows DEF E
  <2>4. CASE "stop_cb" \in given /\ id = 7
    BY <1>2, <2>4, DeclareRows DEF E
  <2>5. QED
    BY <1>1, <2>1, <2>2, <2>3, <2>4
<1>4. QED
  BY <1>1, <1>3

\* Every factory adds the resources that the header promises of what it is given.
LEMMA PromisedDeclared ==
    ASSUME NEW kind \in Kinds, NEW given, NEW id \in Promised(kind, given)
    PROVE  id \in 0 .. 19 /\ \E r \in Resources(kind, given) : r.id = id
<1>1. CASE kind = "security"
  <2>1. Promised("security", given) = 0 .. 5 \cup {10}
    BY Zenon DEF Promised
  <2>2. id \in {0} \/ id \in {1} \/ id \in {2, 10} \/ id \in {3, 4, 5}
    BY <1>1, <2>1
  <2>3. QED
    BY <1>1, <2>2, DeclareRows, TableOf DEF R, SecurityResources
<1>2. CASE kind = "conn_mon"
  <2>1. Promised("conn_mon", given) = 0 .. 10
    BY Zenon DEF Promised
  <2>2. id \in {0, 1, 2, 3, 6, 8, 9, 10} \/ id \in {4, 5, 7}
    BY <1>2, <2>1
  <2>3. PICK r \in ConnMonResources : r.id = id
    BY <2>2, DeclareRows DEF R, ConnMonResources
  <2>4. QED
    BY <1>2, <2>1, <2>3, TableOf
<1>3. CASE kind = "location"
  <2>1. Promised("location", given) = 0 .. 6
    BY Zenon DEF Promised
  <2>2. id \in {0, 1, 2, 3, 6} \/ id \in {4} \/ id \in {5}
    BY <1>3, <2>1
  <2>3. QED
    BY <1>3, <2>2, DeclareRows, TableOf DEF R, LocationResources
<1>4. CASE kind = "server"
  BY <1>4, ServerPromised, TableOf
<1>5. CASE kind = "device"
  BY <1>5, DevicePromised, TableOf
<1>6. CASE kind = "firmware"
  BY <1>6, FirmwarePromised, TableOf
<1>7. CASE kind = "conn_stats"
  BY <1>7, ConnStatsPromised, TableOf
<1>8. QED
  BY <1>1, <1>2, <1>3, <1>4, <1>5, <1>6, <1>7 DEF Kinds

\* No callback but of a declared operation, and none missing that could be there.
LEMMA ServedAsDeclared ==
    ASSUME NEW kind \in Kinds, NEW given, NEW r \in Resources(kind, given)
    PROVE  /\ r.cbs \subseteq r.ops
           /\ \A op \in r.ops \ r.cbs :
                 \/ LeftOut(kind, given, r.id, op)
                 \/ op = "write" /\ ~CanBeWritten(kind, r.id)
<1>1. CASE kind = "security"
  BY <1>1, TableOf, SecurityRows
<1>2. CASE kind = "server"
  BY <1>2, TableOf, ServerRows DEF CanBeWritten, FieldWritten
<1>3. CASE kind = "device"
  BY <1>3, TableOf, DeviceRows DEF LeftOut, CanBeWritten, If
<1>4. CASE kind = "conn_mon"
  BY <1>4, TableOf, ConnMonRows
<1>5. CASE kind = "firmware"
  BY <1>5, TableOf, FirmwareRows DEF LeftOut, If
<1>6. CASE kind = "location"
  BY <1>6, TableOf, LocationRows
<1>7. CASE kind = "conn_stats"
  BY <1>7, TableOf, ConnStatsRows DEF CanBeWritten
<1>8. QED
  BY <1>1, <1>2, <1>3, <1>4, <1>5, <1>6, <1>7 DEF Kinds

\* The resources of an object are those its factory added.
LEMMA MadeResources ==
    ASSUME MadeAsGiven, NEW k \in Kinds, objs[k].made
    PROVE  objs[k].resources = Added(Resources(k, objs[k].given))
<1>1. objs[k] = MakeObject(k, objs[k].given)
  BY DEF MadeAsGiven
<1>2. \A given : MakeObject(k, given).resources = Added(Resources(k, given))
  BY DEF MakeObject
<1>3. QED
  BY ONLY <1>1, <1>2

\* Every object an application holds, with an array of twenty places or more.
LEMMA MadeIsServed ==
    ASSUME MadeAsGiven, MaxResources > 19
    PROVE  DeclaredIsServed
<1> SUFFICES ASSUME NEW k \in Kinds, objs[k].made
             PROVE  /\ Promised(k, objs[k].given) \subseteq {r.id : r \in objs[k].resources}
                    /\ \A r \in objs[k].resources :
                          /\ r.cbs \subseteq r.ops
                          /\ \A op \in r.ops \ r.cbs :
                                \/ LeftOut(k, objs[k].given, r.id, op)
                                \/ op = "write" /\ ~CanBeWritten(k, r.id)
  BY DEF DeclaredIsServed
<1>1. objs[k].resources = Added(Resources(k, objs[k].given))
  BY MadeResources
<1>2. ASSUME NEW id \in Promised(k, objs[k].given)
      PROVE  id \in {r.id : r \in objs[k].resources}
  <2>1. PICK r \in Resources(k, objs[k].given) : r.id = id /\ id \in 0 .. 19
    BY <1>2, PromisedDeclared
  <2>2. r \in objs[k].resources
    BY <1>1, <2>1, KeptBelow, MaxResourcesAssumption
  <2>3. QED
    BY <2>1, <2>2
<1>3. \A r \in objs[k].resources : r \in Resources(k, objs[k].given)
  BY <1>1 DEF Added
<1>4. QED
  BY <1>2, <1>3, ServedAsDeclared

-----------------------------------------------------------------------------
\* Each default callback has a case of the declared type for every row of its table
\* that is read through it.
LEMMA DefaultReads ==
    /\ \A r \in SecurityResources :
          FromTable(SecurityReads, r.id) = Ok(Value(r.type, 0))
    /\ \A given : \A r \in ServerResources(given) :
          "read" \in r.cbs =>
              \A i : ServerRead(i, r.id).err = "OK" /\ ServerRead(i, r.id).value.type = r.type
    /\ \A given : \A r \in DeviceResources(given) :
          "read" \in r.cbs => FromTable(DeviceReads, r.id) = Ok(Value(r.type, 0))
<1>1. ASSUME NEW r \in SecurityResources
      PROVE  FromTable(SecurityReads, r.id) = Ok(Value(r.type, 0))
  <2>1. r.id \in DOMAIN SecurityReads /\ SecurityReads[r.id] = r.type
    BY SecurityRows DEF SecurityReads
  <2>2. QED
    BY <2>1 DEF FromTable
<1>2. ASSUME NEW given, NEW r \in ServerResources(given), "read" \in r.cbs, NEW i
      PROVE  ServerRead(i, r.id).err = "OK" /\ ServerRead(i, r.id).value.type = r.type
  <2>1. r.id \in DOMAIN ServerReads /\ ServerReads[r.id] = r.type
    BY <1>2, ServerRows DEF ServerReads
  <2>2. QED
    BY <2>1 DEF ServerRead, FromTable, Ok, Value
<1>3. ASSUME NEW given, NEW r \in DeviceResources(given), "read" \in r.cbs
      PROVE  FromTable(DeviceReads, r.id) = Ok(Value(r.type, 0))
  <2>1. /\ \A i \in {0, 1, 2, 3, 14, 15, 16, 17, 18, 19} :
              i \in DOMAIN DeviceReads /\ DeviceReads[i] = "string"
        /\ \A i \in {6, 7, 8, 9, 10, 11, 20, 21} :
              i \in DOMAIN DeviceReads /\ DeviceReads[i] = "integer"
        /\ 13 \in DOMAIN DeviceReads /\ DeviceReads[13] = "time"
    BY DEF DeviceReads, DeviceStrings, DeviceIntegers
  <2>2. \/ r.id \in {0, 1, 2, 3, 14, 15, 16, 17, 18, 19} /\ r.type = "string"
        \/ r.id \in {6, 7, 8, 9, 10, 11, 20, 21} /\ r.type = "integer"
        \/ r.id = 13 /\ r.type = "time"
    BY <1>3, DeviceRows DEF If
  <2>3. r.id \in DOMAIN DeviceReads /\ DeviceReads[r.id] = r.type
    BY <2>1, <2>2
  <2>4. QED
    BY <2>3 DEF FromTable
<1>4. QED
  BY <1>1, <1>2, <1>3

\* Reading a declared resource gives the declared type or an error that is explained.
LEMMA ReadsOfMade ==
    ASSUME MadeAsGiven
    PROVE  ReadsDeclaredType
<1> DEFINE Right(k, r, a) ==
               \/ a.err = "OK" /\ a.value.type = r.type
               \/ a.err # "OK" /\ (AppServes(k) \/ <<k, r.id>> = <<"firmware", 8>>)
<1> SUFFICES ASSUME NEW k \in Kinds, NEW r \in objs[k].resources, "read" \in r.cbs,
                    NEW a \in ReadAnswers(k, r)
             PROVE  Right(k, r, a)
  BY DEF ReadsDeclaredType
<1>1. r \in Resources(k, objs[k].given)
  <2>1. objs[k].made
    BY DEF MadeAsGiven, NoObject
  <2>2. QED
    BY <2>1, MadeResources DEF Added
<1>2. ASSUME NEW type, NEW b \in AppReads(type)
      PROVE  \/ b.err = "OK" /\ b.value.type = type
             \/ b.err \in {"NOT_FOUND", "FAIL"}
  BY <1>2 DEF AppReads, Ok, Fails, Value
<1>3. ASSUME NEW type PROVE Ok(Value(type, 0)).err = "OK" /\ Ok(Value(type, 0)).value.type = type
  BY DEF Ok, Value
<1>4. CASE k = "security"
  <2>1. ReadAnswers("security", r) = {FromTable(SecurityReads, r.id)}
    BY Zenon DEF ReadAnswers
  <2>2. QED
    BY <1>1, <1>3, <1>4, <2>1, TableOf, DefaultReads
<1>5. CASE k = "server"
  <2>1. ReadAnswers("server", r) = {ServerRead(info, r.id)}
    BY Zenon DEF ReadAnswers
  <2>2. QED
    BY <1>1, <1>5, <2>1, TableOf, DefaultReads
<1>6. CASE k = "device"
  <2>1. ReadAnswers("device", r) = DeviceRead(objs["device"].given, r)
    BY Zenon DEF ReadAnswers
  <2>2. FromTable(DeviceReads, r.id) = Ok(Value(r.type, 0))
    BY <1>1, <1>6, TableOf, DefaultReads
  <2>3. CASE "read_cb" \in objs["device"].given
    <3>1. PICK b \in AppReads(r.type) :
              a = IF b.err = "NOT_FOUND" THEN FromTable(DeviceReads, r.id) ELSE b
      BY <1>6, <2>1, <2>3 DEF DeviceRead
    <3>2. AppServes("device")
      BY <2>3 DEF AppServes
    <3>3. QED
      BY <1>2, <1>3, <1>6, <2>2, <3>1, <3>2
  <2>4. CASE "read_cb" \notin objs["device"].given
    BY <1>3, <1>6, <2>1, <2>2, <2>4 DEF DeviceRead
  <2>5. QED
    BY <2>3, <2>4
<1>7. CASE k = "firmware"
  <2>1. ReadAnswers("firmware", r) = {FwRead(r.id)}
    BY Zenon DEF ReadAnswers
  <2>2. /\ r.id \in {3, 5, 9} => FwRead(r.id) = Ok(Value("integer", 0))
        /\ r.id \in {6, 7} => FwRead(r.id) = Ok(Value("string", 0))
        /\ r.id = 8 => FwRead(r.id) = Fails("NOT_FOUND")
    <3>1. r.id \in {3, 5, 9} /\ r.id \notin {1, 6, 7} => FwRead(r.id) = Ok(Value("integer", 0))
      BY Zenon DEF FwRead
    <3>2. r.id \notin {3, 5, 9} /\ r.id \in {1, 6, 7} => FwRead(r.id) = Ok(Value("string", 0))
      BY Zenon DEF FwRead
    <3>3. r.id \notin {3, 5, 9} /\ r.id \notin {1, 6, 7} => FwRead(r.id) = Fails("NOT_FOUND")
      BY Zenon DEF FwRead
    <3>4. QED
      BY <3>1, <3>2, <3>3
  <2>3. \/ r.id \in {3, 5, 9} /\ r.type = "integer"
        \/ r.id \in {6, 7} /\ r.type = "string"
        \/ r.id = 8
    BY <1>1, <1>7, TableOf, FirmwareRows DEF If
  <2>4. Fails("NOT_FOUND").err # "OK"
    BY DEF Fails
  <2>5. QED
    BY <1>3, <1>7, <2>1, <2>2, <2>3, <2>4
<1>8. CASE k \in {"conn_mon", "location", "conn_stats"}
  <2>1. ReadAnswers(k, r) = AppReads(r.type)
    BY <1>8, Zenon DEF ReadAnswers
  <2>2. AppServes(k)
    BY <1>8 DEF AppServes
  <2>3. QED
    BY <1>2, <2>1, <2>2
<1>9. QED
  BY <1>4, <1>5, <1>6, <1>7, <1>8 DEF Kinds

\* A factory loses no resource that the header promises, and the callback of every
\* declared read and execution, and of the writes that some callback can serve, is
\* there unless the application left it out, for arrays of any length that holds
\* Resource 19 of a device.
THEOREM Declared == ASSUME MaxResources > 19 PROVE Spec => []DeclaredIsServed
<1>1. IInv => DeclaredIsServed
  BY MadeIsServed DEF IInv
<1>2. QED
  BY <1>1, Invariant, PTL

\* What a read gives has the type that the resource declares.
THEOREM ReadsTyped == Spec => []ReadsDeclaredType
<1>1. IInv => ReadsDeclaredType
  BY ReadsOfMade DEF IInv
<1>2. QED
  BY <1>1, Invariant, PTL
=============================================================================
