# TLA+ specifications of wb-idf-lwm2m

Models, model-checking configurations and machine-checked proofs for the LwM2M
client component in this repository. Paths such as `wb_lwm2m.c` are short for
`src/src/wb_lwm2m.c`, `wb_lwm2m.h` for `src/include/wb_lwm2m.h`, and so on.

## 1. The system

| Part | State it keeps | Operations |
|---|---|---|
| **Client** (`wb_lwm2m.c`, `wb_lwm2m.h`) | `struct wb_lwm2m_client`: object registry, CoAP handle, `state`, `reg_location`, `update_timer` | `init`, `add_object`, `start`, `update_registration`, `stop`, `destroy`, `notify`, `get_state`, `is_registered`; `coap_event_handler`; `update_timer_cb` |
| **TLV codec** (`wb_lwm2m_tlv.c`) | none | encode a resource or an instance, decode a header, decode a value |
| **Text encoders** (`wb_lwm2m_encode.c`) | none | link-format payload, SenML-JSON of a resource or of an instance, base64 |
| **Object model** (`wb_lwm2m_object.h`) | definitions given by the application | resource definitions, values, value macros and accessors |
| **Standard objects** (`wb_lwm2m_std_objects.c`) | one heap object and context per factory call | factories for objects 0 to 7, their read and write callbacks, `destroy_std_object` |
| **Example** (`example/main/main.c`) | firmware state and result, Wi-Fi event group | callbacks of the firmware object, `app_main` |
| **CoAP client and LwM2M server** (not in the repository) | sessions, request queue; one registration per endpoint | `wb_coap_client_*`, CONNECTED / DISCONNECTED / RESPONSE / ERROR events |

Who calls whom:

    application task ── start/stop/notify/… ──> client ── post/delete ──> CoAP client ──> server
    FreeRTOS timer task ── update_timer_cb ──>  client <── coap_event_handler ── CoAP task
    application <── event callback ── client (CoAP task, or the caller of stop)

The application task, the timer task and the CoAP task share
`struct wb_lwm2m_client` without a lock.

What is hard about it:

- the three tasks interleave, and `stop` sleeps 500 ms in the middle while events go on;
- answers are matched to requests by `state`, not by request: a late or foreign
  answer moves the state machine;
- requests are refused (queue full), lost, answered late or not at all; the session
  goes down and comes back; the server forgets the registration;
- one step of several fails (CoAP client, payload buffer, POST, timer) and each
  caller treats it differently;
- buffers with hard limits and integers of several widths at their boundaries.

What makes each part correct: the client believes in a registration only if it was
granted and is told to the application, keeps it alive, gives it up cleanly, and leaves
nothing running after stop and destroy; the codecs never write past a buffer, read back
what they wrote, and refuse what is cut off; factories wire each resource to callbacks
that serve the operations it declares, and free what they allocated when a step fails.
`PROJECT.json` lists every hazard with its line and the properties that watch it.

## 2. The modules

| Module | Models |
|---|---|
| `CoapLink` | the external world: CoAP client (sessions, bounded request queue, link) and server |
| `Registration` | the abstract life cycle that `wb_lwm2m.h` promises: phase, location, what the application has been told |
| `Lwm2mClient` | all of `wb_lwm2m.c`; extends `CoapLink`; shown to implement `Registration` |
| `Lwm2mClient_proofs` | theorems about `Lwm2mClient` |
| `MCLwm2mClient` | small instances of `Lwm2mClient`, six configurations |
| `Lwm2mTasks` | the same calls cut at every access to a shared field, run by four tasks without a lock |
| `Lwm2mTasks_proofs` | theorems about `Lwm2mTasks` |
| `MCLwm2mTasks` | `Lwm2mTasks` with two timers |
| `Keepalive` | the update interval in ticks, the requests under way and the server's clock |
| `Keepalive_proofs` | theorems about `Keepalive` |
| `MCKeepalive` | lifetimes around the minimum interval and the wraps of both products |
| `StdObjects` | the factories, their callbacks and `destroy_std_object` as pure definitions |
| `ExampleDevice` | extends `StdObjects`: objects made and destroyed, a server's requests, the example's firmware callbacks, restarts |
| `ExampleDevice_proofs` | theorems about `ExampleDevice` |
| `MCExampleDevice` | `ExampleDevice` with words of three values |
| `TlvCodec` | the pure functions of `wb_lwm2m_tlv.c` |
| `TlvCodec_proofs` | theorems about those functions: integers, headers, values |
| `TlvTransfer` | `wb_lwm2m_tlv_encode_instance` pass by pass, and a reader of its output |
| `TlvTransfer_proofs` | theorems about `TlvTransfer` |
| `Induction_proofs` | induction over naturals and definitions by recursion, for the proofs above and below |
| `TextEncode` | `wb_lwm2m_encode.c`: the link-format, SenML-JSON and base64 encoders pass by pass |
| `TextEncode_proofs` | theorems about `TextEncode` |
| `MCTextEncode` | resources of every type, instances of up to three, registries of up to four links; and a value of the length of `b64` |
| `MCTlvTransfer` | instances on the boundaries of every header form and integer width |

### Lwm2mClient and the code

| Variable | Code |
|---|---|
| `live` | between `wb_lwm2m_init` and the `free` of `wb_lwm2m_destroy` |
| `objects` | `objects[0 .. object_count - 1]` |
| `coap`, `state`, `regLocation` | the fields of those names |
| `timerArmed` | `update_timer` exists and runs |
| `app` | where the application task is: between calls, or in the delay of `stop` or `destroy` |
| `told` | the last event given to `dispatch_lwm2m_event`, ERROR apart |

| Action | Code |
|---|---|
| `ClientInit`, `AddObject` | `wb_lwm2m_init`, `wb_lwm2m_add_object` |
| `Start`, `StartFails` | `wb_lwm2m_start`: success, and its two failures |
| `AppUpdates`, `TimerFires` | `wb_lwm2m_update_registration`, called by the application or by `update_timer_cb` |
| `Notify` | `wb_lwm2m_notify` |
| `BeginStop`, `EndStop`, `StopAtOnce` | `wb_lwm2m_stop`: up to the delay, after it, and without one |
| `BeginDestroy`, `EndDestroy`, `DestroyAtOnce` | `wb_lwm2m_destroy`, with the `stop` it calls |
| `CoapConnected`, `CoapDisconnected`, `CoapError` | those cases of `coap_event_handler` |
| `RegistrationAnswer`, `UpdateAnswer`, `DeregistrationAnswer`, `IgnoredAnswer` | its RESPONSE case |

`SendRegistration` is `send_registration` as it ends, inside the action of its caller.
A call that returns an error and changes nothing is a disabled action. `get_state` and
`is_registered` read `state`.

Assumptions of the model:

- Each handler is one atomic step; only the delay in `stop` is a place where others
  run. The code has no lock: what the finer interleavings add is in `Lwm2mTasks`.
- The answer to `POST /rd?ep=…` carries the request path `/rd` that the handler compares
  with (`wb_lwm2m.c:373`). Otherwise the client never registers.
- `start`, `stop`, `destroy` are called by one task, as `wb_lwm2m.h:46` asks; `notify` by any.
- `wb_coap_client_stop` joins the CoAP task: no event after it returns. A request ends in
  a RESPONSE or in an ERROR. A lost session ends the requests queued on it, unless
  `QueueSurvives`. A RESPONSE without a response is a no-op.
- The server may refuse anything, forget the registration at any time, and leave the
  Location-Path out (`OmitsLocation`).

### Lwm2mTasks and the code

The tasks are the application (`app`), the CoAP task (`coap`), the FreeRTOS timer task
(`timer`) and any further task inside `wb_lwm2m_notify` (`other`). `pc` says between which two
accesses a task is; an action is one access, with its test, and carries the task to the
next.

| Variable | Code |
|---|---|
| `state`, `timer` | `state` and `update_timer` of the client |
| `located` | `reg_location` is not empty |
| `pool` | FreeRTOS's timers: free, dormant (created), active (started), doomed (deletion queued) |
| `session`, `linkUp`, `asked` | the CoAP client behind `coap`, its connection, its unanswered requests |
| `doing` | the call or event that `stop_update_timer` returns to, or that is dispatched |
| `stale` | history: a state was assigned by a task whose check of the old one no longer held |
| `together` | history: application and CoAP task were in the timer functions at once |
| `misuse` | the first use of a deleted timer, a freed client or a missing session; nothing follows it |

| Actions | Code |
|---|---|
| `TimerCheck`, `TimerStop`, `TimerDelete`, `TimerClear` | the four lines of `stop_update_timer` |
| `TimerCreate`, `TimerTest`, `TimerStart` | the rest of `start_update_timer`, which reads the handle twice |
| `UpdateCheck`, `Updating`, `PostUpdate`, `Restore` | `wb_lwm2m_update_registration`, by two tasks |
| `StartCheck` … `Revert` | `wb_lwm2m_start` |
| `BeginStop`, `StopCheck` … `Forget` | `wb_lwm2m_stop`; its delay is a stay at `join` |
| `BeginDestroy`, `FreeSession`, `FreeClient` | `wb_lwm2m_destroy` around that |
| `Connected` … `Gone` | the branches of `coap_event_handler`, each assignment by itself |
| `TimerFires`, `NotifyCheck`, `PostNotify` | `update_timer_cb`, `wb_lwm2m_notify` |

`Moves(old, new)` is an assignment that was decided on `old`; when `state` is something else by
then, `stale` is set. Assumed of what is not in the repository: `wb_coap_client_stop` joins
the CoAP task; `xTimerDelete` queues a command that the timer task obeys between callbacks,
so a deleted timer may still fire once; one application task makes the
calls, as `wb_lwm2m.h:46` asks.

What the interleavings do, each reachable in `tasks`:

- A DISCONNECTED or a `stop` between check and assignment is overwritten: UPDATING or REGISTERED
  over ERROR or IDLE (`wb_lwm2m.c:193`, `:200`), or a refused update restores REGISTERED over what the
  handler set. `HeldHasLocation`, `IdleMeansStopped` and `AwaitedIsAsked` hold up to exactly that (`stale`).
- `stop` and DISCONNECTED both see the timer's handle before either clears it: it is
  deleted twice, or NULL is given to FreeRTOS (`wb_lwm2m.c:529`-`532`). `TimerMisusedOnlyTogether` and
  `TimerIsOwned` say that nothing else misuses or loses a timer.
- `notify` or a timer callback that passed its check goes on after `destroy` has freed
  CoAP client and client, although `wb_lwm2m.h:43` calls `notify` thread-safe. Nothing in the
  code excludes it, so there is no property of it.

### Keepalive and the code

| Variable | Code |
|---|---|
| `lifetime`, `state` | the fields of the client; `state` is `ABORTED` once FreeRTOS has asserted |
| `armed`, `elapsed` | `update_timer` runs, and for how long since it last expired |
| `exch`, `others` | the client's updates and registrations under way, with their ages; its notifications |
| `known`, `since` | does the server have the registration, and for how long unrefreshed (or forgotten) |
| `missed` | refused updates whose refusal the client ignored, since then |
| `lost` | a request of the client's own was lost, not accepted, or its registration refused |

| Actions | Code |
|---|---|
| `TimerFires`, `AppUpdates` | `update_timer_cb`, and `wb_lwm2m_update_registration` by the application |
| `Notify` | `wb_lwm2m_notify`, for the answer it will have |
| `UpdateAnswer`, `NotificationAnswer` | a RESPONSE that is not the registration's |
| `RegistrationAnswer` | a RESPONSE to `/rd` in REGISTERING, with `start_update_timer` |
| `Lose`, `LoseNotification` | the ERROR event |
| `Serve`, `Refuse`, `Forget`, `Tick` | the server, and time |

Time is counted in ticks. `Interval` is `start_update_timer`'s product, cut to 32 bits (`Word`), with its
minimum; `Period` is what `pdMS_TO_TICKS` makes of it, whose product with the tick rate is cut again
(`TickWord`). At 100 Hz it wraps above 42949672 ms, which the interval of the default lifetime
(69120000 ms) already exceeds. A wrapped period is shorter, so the client updates too often,
not too late; when it is 0, `xTimerCreate` asserts, the client is `ABORTED` and nothing is claimed of
it.

As in the code, a RESPONSE is not matched with a request: in UPDATING the answer to a
notification, or to an older update, is taken for the update's (`Taken`). When that is a 2.04, the
update's own refusal comes in REGISTERED and is ignored; the server stays without the client
for another period. `missed` counts these, and `FoundOut` charges a period and an exchange for each.
`RefreshedInTime` claims nothing after one.

The session stays up; `Lwm2mClient` has it going down. `Tick` passes neither an expiry of the timer
nor, by more than `Delay`, an answer to the client's own requests. After a lost or refused
request nothing is claimed (`lost`): the client has then stopped sending (`update_ends`) or has gone
to ERROR. `Ample` names the lifetimes for which the promise of `wb_lwm2m.h:204` holds: at least the
minimum interval and three exchanges, and three exchanges in the fifth that the interval
leaves. Lifetimes of ten seconds and less are not ample and do expire before their first
update.

### StdObjects, ExampleDevice and the code

A factory's object is the set of resources it adds for the optional fields it was `given`:
ID, type, declared operations (`ops`) and callbacks that are not NULL (`cbs`). The two factories
that refuse a NULL `read_cb` are `Accepts`; `Added` cuts at `WB_LWM2M_MAX_RESOURCES`, as `add_resource` does with
nobody looking at its result. The read callbacks are tables from resource to type, with
NOT_FOUND for what has no case; `server_write_cb` changes a field modulo the word.

| Variable of ExampleDevice | Code |
|---|---|
| `app` | what runs: nothing yet, the example, an `app_main` that returned, another application |
| `objs` | the object of each kind |
| `heap` | the blocks allocated, by kind: object and context, and memory of the application's |
| `info` | the server object's copy of `wb_lwm2m_server_info_t` |
| `fw` | `fw_state`, `fw_result`, `fw_package_uri` of `main.c` |
| `delay` | `fw_update_cb` is in its `vTaskDelay` |

| Action | Code |
|---|---|
| `AppMain` | `app_main` from its factories on; it returns when `init` or `start` fails |
| `Create`, `Destroy` | a factory with any optional fields and any allocation failing, `destroy_std_object` |
| `WriteServer`, `WriteFirmware`, `Update`, `Reboot` | the write and execute callbacks, called for a server |
| `Restart` | a reset, by `esp_restart` or not: empty heap, statics as initialised |

The client in the repository calls read callbacks only. Writes and executions are what
`wb_lwm2m_object.h:404-420` promises the callbacks are for; they come one at a time, and none during
the delay of `fw_update_cb`, which keeps the task that called it. Another application is
given one object at a time; the objects share no state. Its callbacks return a value of
the declared type or an error. Strings, keys and the
values read are reduced to their type, except the numbers a server can write.

### TlvTransfer and the code

One pass of the loop of `wb_lwm2m_tlv_encode_instance` is `Skip` or `Write`; its return is
`Finish` or the phase `rejected`. `Read` decodes the header and the value of one record,
as the example in `wb_lwm2m_tlv.h` does. A byte keeps its role but not its 256 values:
integers are written in radix `Digit`, IDs and lengths in radix `Field`, so widths of 1,
2, 4 and 8 bytes and lengths of 0 to 3 bytes meet all their boundaries in numbers TLC can
hold. The type byte keeps its eight bits. A FLOAT is given as its bits and the width in
which they are exact.

A value the callback left without a type (`NONE`) makes the encoder fail; `readable` covers
the three reasons for which the loop passes a resource by.

### TextEncode and the code

`job` selects the encoder. `WriteLink` and `WriteRecord` are one pass of the loops of
`wb_lwm2m_encode_link_format` and `wb_lwm2m_encode_senml_json_instance`, `Begin` and `Finish`
what the latter does before and after its loop, `WriteSingle` the one `snprintf` of
`wb_lwm2m_encode_senml_json`. A text is a sequence of pieces, each with the number of
characters it takes; `out.top` is how far the buffer has been written, NUL included, also
by an `snprintf` that was cut. The characters of printed numbers and strings are input;
what a string contains is not modelled (the code copies it without escaping). `SoFar` is what
holds after every pass, `Complete` and `FailsOnlyIfTooLong` what holds of the result. `LinkFits`
in `Lwm2mClient` is the condition `FailsOnlyIfTooLong` gives for a link-format payload, with the
comma counted in `LinkSize`. base64 is written as the code does, by shifts and masks of three
bytes at a time; `Complete` asks for the bits of the value instead (`ByBits`).

## 3. The runs

| Run | Checks | States |
|---|---|---|
| `client_safety` | every safety property, both inductive invariants, refinement of `Registration` | 188 236 |
| `client_live` | a sent registration ends; the client's inductive invariant when requests outlive the session, locations are never named and timers cannot be created | 155 619 |
| `tasks` | four tasks at every access to a shared field: location, session, timers and requests against `state` | 626 772 |
| `keepalive` | refreshed in time, forgotten registrations found out | 2 157 976 |
| `objects` | heap ownership, declarations against callbacks, types read, values written, firmware report | 24 521 |
| `tlv` | round trip, bounds, no needless rejection of values that fit `val_buf`, truncation refused | 17 611 |
| `text` | bounds, termination, the text against its grammar after every pass, no failure of a text that fits | 117 929 |

Five more runs show where the code departs from what a header or a comment says; each is expected
to be violated.

| Run | The promise | The code |
|---|---|---|
| `update_confirmed` | "Registration update successful" (`wb_lwm2m.h:110`) | announces it on any 2.04 received in UPDATING, such as a notification's |
| `stop_deregisters` | "Sends a Deregistration request and tears down the CoAP session." (`wb_lwm2m.h:225`) | sends none in UPDATING, and still announces DEREGISTERED |
| `destroy_frees` | "Destroy the LWM2M client and free all resources" (`wb_lwm2m.h:233`) | start after stop overwrites the only pointer to the first CoAP client |
| `update_ends` | "Registration updates are sent automatically" (`wb_lwm2m.h:204`) | an ERROR event during an update leaves the client in UPDATING, where nothing sends updates |
| `binary_fits` | "enough for 256 bytes of binary input" (`wb_lwm2m_encode.c:131`, of `b64[344]`) | 256 bytes take 344 characters and a NUL: the encoder fails, whatever the room |

**Departures without a run.** Where a property below would have to be false of the code, it is
limited by an explicit antecedent, and the departure is this list's:

- `send_registration` fails after CONNECTED without any event (`wb_lwm2m.c:441`, `:472`), while
  `wb_lwm2m.h:37` says that all lifecycle events reach the callback. The state becomes ERROR.
- An instance with a string or opaque of more than `sizeof(val_buf)`, 256 bytes, is not encoded as
  TLV in any buffer (`wb_lwm2m_tlv.c:189`, `:196`, `:243`); `wb_lwm2m_object.h:288` and `:293` allow 65535.
  `RejectedOnlyIfTooLong` is about values that fit (`FitsValBuf`), `FailsOnlyIfTooLong` likewise (`FitsB64`).
- /1/0/7, /3/0/13 to 15 and /7/0/8 are declared `OP_RW` and no callback serves the write
  (`wb_lwm2m_std_objects.h:32`, "appropriate callbacks"; `wb_lwm2m_object.h:418`, "if OP_WRITE");
  `wb_lwm2m_std_objects.c:321` calls 14 and 15 readable only. `DeclaredIsServed` claims a write callback only
  for what some callback can write (`CanBeWritten`).
- The headers list firmware 6 to 9 (`wb_lwm2m_std_objects.h:265`) and the collected statistics
  (`:325`) without condition; the factories add them when `read_cb` is given. `Promised` has the
  condition, which is the general rule of `wb_lwm2m_std_objects.h:33`.
- The result of a firmware update is "Reported by the device after a firmware update attempt
  completes" (`wb_lwm2m_object.h:260-264`). The example records SUCCESS and restarts
  (`main.c:284-288`), so no read ever returns it. `FirmwareReport` is about the download only.
- A refused update can be missed for a notification's 2.04 (`wb_lwm2m.c:396`), and the period of the
  timer wraps (`wb_lwm2m.c:519`): see Keepalive above.

**Bounds.** Three queue places: a registration, an update and a notification in flight
together, with room for one more or none. Three locations: the fallback and two that
differ from it, so a stale location is not the current one. Two sessions: one to lose and
one to start anew; when both are lost `Start` is disabled and `StartFails` is not. Two
objects of one ID, only one of them readable, whose links fit the payload buffer once or
together but not twice, with a registry of two. Queue places and sessions are
interchangeable, hence the symmetry; the liveness runs have none. No counter of these is
bounded in a guard: the state space is finite as it stands. `client_live` has two queue
places and two locations, enough for an old registration beside a new one. `tasks` has two
timers, so that one can be created while the other's deletion is queued; which task's
request is asked for is kept by kind, registration or other. `keepalive` has a second of 5
milliseconds, of which the interval takes 4, and 3 ticks; a minimum of 10 milliseconds, a
word of 64 and a tick word of 156: the eight lifetimes lie below, on and above the minimum,
on both sides of both wraps, and one gives a period of 0. With an exchange of up to 2 ticks, two
places for the client's own requests (a registration beside an old update, or two updates),
one notification under way (`MaxOthers`) and one missed refusal (`MaxMissed`), every order of an
update's answer and a foreign one occurs; its clocks are bounded because the timer is. `objects` tries every
subset of every factory's optional fields (up to ten) and numbers below, in and above the
word. `tlv` tries 12 buffer sizes from 1
byte to more than any record. `text` tries every size around the sums that its three
encoders test; its base64 buffer holds two groups and, as in the code, not quite a
third. `binary_fits` has the code's own 344 and values of 252 to 258 bytes.

**Deadlock** is checked in the `Lwm2mClient` runs and in `objects`. The encoders end; `tasks` ends at
its first misuse or with a client freed; in `keepalive` the clock stops after a lost
request. These turn the check off.

**Fairness** (`FairSpec`). CoAP ends each request of a connected session in an answer or an error
(its retransmissions are bounded), so each queue place is weakly fair for
`CoapResponse \/ CoapError`. Nothing is assumed of the server, the link, the timer or the application.

**Variants.** Definitions commented "Variant" are plausible mistakes in the definition
after them (a forgotten reset, an off-by-one, an unchecked result). No specification uses
them; put in place of the original, each makes the property named for it in
`PROJECT.json` fail, which shows that the property depends on that code.

## 4. The proofs

### The client

`Lwm2mClient_proofs` holds for any sets of sessions, queue places, objects and locations, any
link sizes and limits, under the named ASSUMEs of `CoapLink` and `Lwm2mClient` (NULL is
not a session, the empty location is not a location, sizes are naturals).

- `TypeCorrect`: `Spec => []TypeOK`.
- `Invariant`: `Spec => []IInv`. The parts need each other. `LocationMatchesState` is needed
  to show that an update has a location; `RegisteringHasRequest` would be lost by a request ended
  without its event, so it needs the state test of `ErrorHandled`; `IdleIsQuiet` is not
  inductive alone: the answer to the DELETE sets IDLE while the session runs, so
  `CallMatchesState` adds that DEREGISTERING happens only inside a call, and that IDLE with
  a running session has the link up, which excludes that CONNECTED finds the client idle.
- `ServerInvariant`: `Spec => []ServerIInv`, client and server together. A 2.01 on its way names
  the server's location (`AnswerAgrees`), there is at most one registration in flight, and a
  lost session leaves no request behind (`DownIsEmpty`); so when the client takes the
  location over, it is the server's.
- `Refinement`: `Spec => KeepsLifecycle`, by the initial state and a step lemma that uses `IInv`.
- One theorem per safety property of `client_safety`, from the two invariants.

### The tasks

`Lwm2mTasks_proofs` holds for any number of timers. Its invariant `IInv` has one part per shared
field. `CallsMatchSession` gives that the CoAP task is outside the client unless its session runs,
which is what joining it in `stop` buys: without it the handler could assign `state` after
`stop` did. `SessionInv` relates IDLE and DEREGISTERING to the places of `start` and `stop` that set
them. `LocationInv` and `RequestInv` add where the location and the request are about to
change; they hold up to `stale`, because one late assignment can make any state appear.
`TimerInv` holds up to `together`: as long as the timer functions are never entered twice at once
the handle is right at each of their lines, which is why no timer is lost or used after its
deletion.

### The keepalive

`Keepalive_proofs` holds for every lifetime, tick rate, share, minimum and delay, and for every size of
the two words. A product that wraps only gets smaller (`WrapShrinks`), and a division loses only a
fraction (`DivShrinks`); so the period is at most the larger of 80 % of the lifetime and the minimum
(`IntervalBound`), wherever the wraps land. `KeepaliveInv` bounds the server's clock by the client's.
`Awaited` says what is under way in each state: in UPDATING some update, though not always the one
whose answer ends it, and one registration exactly in REGISTERING. `ClocksAgree` says how long ago the
server refreshed or forgot: a request it served is younger; in REGISTERED the next update is due
at the next expiry or an older one is still on its way to be refused or served; each missed
refusal adds a period and an exchange (`Late`). `RefreshedInTime` and `FoundOut` are arithmetic from there
(`SinceBound`).

### The objects

`ExampleDevice_proofs` holds for words of any size and any numbers written, and `Declared` for every
array of more than 19 resources (24 in the code, `wb_lwm2m_object.h:435`). `HeapOwned` needs that the
blocks of two kinds are apart (`FreedApart`) and that nothing is made at power-up (`OffIsEmpty`);
`FirmwareReport` is inductive because `esp_restart` is the only way out of the delay. For `WriteReadsBack`,
`WrittenIsRead` goes through the cases of both callbacks, and `WrittenIsMade` adds that a destroyed object
leaves no written field.

`Declared` (`DeclaredIsServed`) and `ReadsTyped` (`ReadsDeclaredType`) need to know what an object in
the heap contains, which its type does not say: `MadeAsGiven` adds to the invariant that each is
exactly what its factory makes of the fields it was given. Then it is a matter of the factories.
One lemma for each lists its resources (`SecurityRows` to `ConnStatsRows`), whatever is given;
`ServedAsDeclared` and `ReadsOfMade` compare them with the callbacks, `PromisedDeclared` with what the header
promises of the fields given. What `DeclaredIsServed` does not claim is in its statement: callbacks
the application left NULL (`LeftOut`) and writes that no callback can serve (`CanBeWritten`). The
hypothesis on the array is needed and tight: `add_resource` drops what does not fit, and a
device with all its optional resources has twenty.

### The TLV codec

`TlvCodec_proofs` and `TlvTransfer_proofs` hold for every even radix of integers and every radix over 8
of the ID and length fields, 256 and 256 as in the code among them, for any buffer sizes and
any instances in which the resources of one ID have one type (`InstanceAssumption`: a reader
knows the type of a resource by its ID), and for values up to any length that three bytes can
hold (`ValueAssumption`: `val_buf` of the code is far smaller; `RejectedOnlyIfTooLong` is about the values that
fit it, and `ShortestForm` gives the length of their shortest encoding).

The loops of the code are recursive functions, so the proofs go by induction over the
naturals. `Induction_proofs` states it about sets (`SetInduction`) and step functions (`RecursionUpTo`)
instead of predicates. On that rest:

- `ReadsWhatIsWritten`: n bytes written in any radix read back as the number modulo radix^n;
  with it `UnsignedRoundTrip`, and `SignedRoundTrip`, where two's complement meets the sign
  extension from the first byte;
- `HeaderRoundTrip`: whatever `write_tlv_header` writes, in each form of ID and length,
  `decode_header` takes apart again, whatever follows; `PrefixRefused`: cut anywhere before the end
  of its value, it refuses;
- `ValueEncoded`: the same of values, type by type, so that an integer in the least width that
  holds it comes back.

The invariant of `TlvTransfer` (`Invariance`) says what the buffer and the reader hold between passes. While writing,
`buf` is exactly the records of the resources passed (`BufferIs`); a writer that stopped is at one
with no value or no room (`RejectedAt`); the reader stands at the end of some whole record and
has received what those records say (`ReaderIs`), since from anywhere else nothing could be said of the
next header. From it follow `RoundTripHolds`, `WithinBufferHolds`, `RejectedOnlyIfTooLongHolds` and
`CutIsRefusedHolds`, one for each property of the run `tlv`.

### The text encoders

`TextEncode_proofs` holds for every object, value, buffer size and base64 buffer. No encoder writes past
the caller's buffer (`StaysWithinBuffer`), and what is returned ends in a NUL
(`ReturnsTerminated`), except the link-format payload of an empty registry, which the code
returns as length 0 without writing the buffer (`wb_lwm2m_encode.c:50`; `wb_lwm2m.c:465` then
logs it). What is returned is the whole text (`ReturnsWholeText`), and, if its opaque values
fit `b64`, an encoder fails only for a value of type NONE or for want of room
(`FailsForWantOfRoom`).

The inductive invariant is `TextInv` (`TextInvariance`). Beside the properties themselves,
`FailsExactly` among them, which takes the limit of `b64` into account, it has two parts. `BufferInv`: the writes keep to a record of offset and
extent, and only a link-format text is handed back as the last pass left it. `SoFar`
(`TextInvariant`): the text and its length are those of the items passed, and `first` says whether one of them is in the
text. The instance encoder goes by `offset == 1` for the base name and not by that flag;
the two agree because a text of no item has length 0 (`NothingYet`), and after a comma the
offset is over 1. A failure in mid-text is one of the whole because the text only grows
(`TextGrows`).

`Base64ByBits` shows that shifting and masking groups of three bytes gives the bits of the value
six by six, padded as its length asks, for values of any length. The proof compares the
twenty-four bits of a group (`BitsOfByte`) with the quotients and remainders that the shifts
take (`SextetsOf`).

### What is only model-checked

Liveness (`RegistrationEnds`), which needs fairness and ENABLED. Every safety
property of the passing runs has its theorem. The five properties expected to be violated
have none.

## 5. What is not modelled, and the plan

Not modelled:

- Wi-Fi bring-up, NVS, and key loading of the example (`main.c:47-185`, `main.c:327-345`): they run once,
  in one task, before any object or client exists. The event handler of the example only logs.
- Message formats beyond what the properties need, logging, and retransmission, tokens,
  DTLS and blockwise transfer of the CoAP client, which is not in the repository.
- The choice of float or double for a FLOAT in TLV, and what strings and keys contain. The
  accessors `get_float`, `is_string`, `is_numeric` and `type_name` are called by nothing in `src`.
- The `user_ctx` arguments of `create_server_object` and `create_device_object`: the factories ignore them, and the
  application's callbacks of those objects are given the factory's context instead. No state
  depends on it.
- A write to the lifetime of the server object changes the object only: `client->lifetime` and the
  timer keep the configured value, and the client is not told. The two are separate
  modules for that reason.
- The composition of `Keepalive` with a session that is lost, and a refinement of `Lwm2mClient` by
  `Lwm2mTasks`: the late assignments listed above break it, so it would hold only for calls that do
  not overlap, which is what `Lwm2mClient` is.
- Kconfig, build files, the simulation's wiring and the generated documentation have no behaviour.

What is left of the plan: a theorem that `LinkSize` of `Lwm2mClient` is the length `TextEncode` gives the
link-format payload, and `Keepalive` against a client that loses its session.
