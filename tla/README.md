# A TLA+ model of the SmartReef gateway firmware

The repository is the firmware of an ESP32-S3 gateway: it connects one BLE
aquarium controller ("SmartReef-…") to a cloud service over WiFi.  The program
is `src/main/` (about 1 500 lines of C); everything else is vendored or
generated.  This directory models it, checks small instances with TLC and
proves theorems for every instance with TLAPS.

## 1. The system

Five tasks share the firmware's state:

| task | created in | what it runs |
| --- | --- | --- |
| main | ESP-IDF | `app_main`: console, then `gateway_core_start`: init, WiFi connect (waits up to 30 s), BLE start, gateway task |
| NimBLE host | `ble_smartreef_init` | every callback of `ble_smartreef.c`, one at a time |
| event loop | ESP-IDF | `wifi_event_handler` |
| gateway_core | `gateway_core_start` | `gateway_task`: WiFi reconnect, poll, upload, every 100 ms |
| serial_console | `serial_console_start` | `status`, `upload`, `poll`, `reconnect`, `devices` |

`s_ble.lock` protects only the device record (`s_ble.device`).  Connection and
attribute handles, the flags `started/scanning/connecting`, the WiFi retry
count and the connected flag are shared without it.

### Components

| component | state | operations | talks to | hard behaviour | what makes it correct |
| --- | --- | --- | --- | --- | --- |
| BLE central `ble_smartreef.c` | `s_ble`: flags, `conn_handle`, four attribute handles, device record | GAP and GATT callbacks, `start`, `reconnect`, `write_command` | NimBLE; core (record, writes) | callbacks against three application tasks; lost links, host resets, refused calls, a bounded procedure pool | keeps searching; one link; handles and record belong to that link; resubscribes |
| Command relay `gateway_core_poll_now`, `_upload_now` | locals of the two calling tasks | poll, execute, report; upload | cloud client, BLE central, WiFi flag | two tasks on one command; lost requests and answers; the device changes between copying the record and using it | a ledger: at most one write and one true report per handout; every command is reported at last |
| Cloud client `cloud_client.c` | locals of a call: cJSON items, printed body, URL, HTTP client, response buffer | upload, poll, report; `http_event_handler` | HTTP client, cJSON | replies in pieces, of any content, broken off; every allocation may be refused, and hardly one is checked | nothing leaks; nothing is written beyond a buffer; a body says what was measured, a command is the one in the reply |
| cJSON (the part in use) | linked items, print buffer, parse buffer | add, print, parse, get, delete | cloud client | recursion by hand-kept depth, growing buffers, lists that are half built when memory runs out | lists sound; within bounds; accepts its dialect of JSON and nothing else |
| WiFi manager `wifi_manager.c` | `s_connected`, `s_retry_count`, event bits | event handler, `connect`, `reconnect` | driver, event loop | handler's retries against reconnects of two tasks | flag settles; never abandoned; comes back |
| Gateway loop `gateway_task` | three time stamps | reconnect, poll, upload by timer | all of the above | one blocked pass after another, working with old samples | no bursts of requests; polls and reconnects in time |
| Serial console `serial_console.c` | line buffer | five commands | core | runs beside the gateway task, and before init | a command typed early does no lasting harm |
| Status codec `status_codec.c` | none | parse an 11-byte packet | BLE central | signed and unsigned fields, all rejections | decodes what the device encoded |
| Boot `app_main.c`, gateway id | the flash; how far init is | init and start order, restart | all | a step fails, the flash is full, early console commands | gets to run; no restart from there |

## 2. The modules

| module | models |
| --- | --- |
| `BleCentral` | `ble_smartreef.c`: all callbacks, `start_scan`, `start`, `reconnect`, `write_command`, and the part of the NimBLE host they rely on |
| `BleLink` | abstract specification: what BLE central promises about one link and the device record |
| `CommandRelay` | `gateway_core_poll_now`/`_upload_now` and the requests of `cloud_client.c`, in two tasks, composed with `BleLink` (it EXTENDS it and takes its steps as the link's) |
| `CommandLedger` | abstract specification: what the gateway owes the cloud for each command |
| `WifiManager` | `wifi_manager.c` with its two callers, and the driver as it is used |
| `Console` | `app_main`, `gateway_core_init`/`_start` and `serial_console.c` around `WifiManager`, which it EXTENDS: boot steps, early commands, restarts |
| `GatewayLoop` | `gateway_task` against a clock: samples, timers, blocking requests |
| `CJsonItems` | the items of cJSON, their lists, `cJSON_Delete`, `cJSON_GetObjectItem`; which allocations are refused |
| `CJsonPrint`, `CJsonParse` | `cJSON_PrintUnformatted` and `cJSON_Parse` as machines with the recursion as a stack |
| `StatusCodec` | `status_codec.c`: the decoder, and the packet a device sends |
| `CloudClient` | `cloud_client.c`: the three calls, composed of the four modules above (EXTENDS), and `http_event_handler` |
| `CloudBody` | reference definition of what is sent: the JSON text of a list of fields, and `BodyRight` |
| `CloudContent` | reference definitions for what is received: the value of a text in cJSON's dialect of JSON, `ParseRight` and `CommandAsTold` |
| `BleCentral_proofs`, `CommandRelay_proofs`, `Console_proofs` (with `WifiManager`), `GatewayLoop_proofs`, `CJsonPrint_proofs`, `CloudClient_proofs`, `CloudBody_proofs` (with `StatusCodec`) | theorems |
| `CJsonItems_proofs` | lemmas about heaps of items, which the three proof modules of client and cJSON share |
| `MCBleCentral`, `MCCommandRelay`, `MCConsole`, `MCCloudClient` | values for the constants |

`BleCentral` implements `BleLink` (property `ImplementsLink`), `CommandRelay`
is built on `BleLink` and implements `CommandLedger` (`KeepsLedger`).  So what
the relay does on top of the link holds on top of the real central, within the
assumption of `ImplementsLink`: scans are started by the host task only.

### BleCentral and the code

* Variables carry the names of `s_ble`'s fields.  `device` keeps whose identity
  and whose status it holds, and the connected flag.  An attribute handle is
  the *layout* of the device it was discovered on: a number means the same
  characteristic only on devices of the same layout.
* The host task's program counter `hpc` cuts a callback where another task can
  see or change something: `AdvReport`, `AdvCancel`, `AdvConnect` are the
  `BLE_GAP_EVENT_DISC` handler; `Up`, `UpFlag`, `UpDiscover` the `CONNECT`
  handler; `Down`, `DownFlag`, `HostScan` the `DISCONNECT` handler and a failed
  `CONNECT`.  GATT callbacks are one action each: their only effects are the
  handles, the record under its lock, and further GATT calls.
* Application tasks have a program counter `tpc`: `start_scan` sets `scanning`
  after its call (`TaskScan`, `TaskFlag`), `write_command` checks and later
  reads the handles again (`WriteCheck`, `Write`), `reconnect` decides before
  it terminates or scans (`Reconnect`, `Terminate`).
* The host (external): one GAP procedure at a time, a scan or an attempt is
  refused while another runs; procedures of a connection are answered in
  order out of a pool of `MaxProcs`; when a link breaks the stack first fails
  its procedures, deletes the connection, then calls `DISCONNECT`; a reset
  ends scanning silently and takes down attempts and links.  `Faults` names
  what may go wrong without a cause the model shows: `loss`, `connfail`,
  `reset`, `refuse` (any call returns an error), `gatt` (any procedure fails).

### CommandRelay and the code

`pc` is where each of the two tasks is in a call.  `Poll` is the checks of
`gateway_core_poll_now` with the copy of the record; `PollAnswered`,
`PollNothing`, `PollLost` the outcomes of `cloud_client_poll_command`;
`ExecuteUnsupported`, `ExecuteWritten`, `ExecuteRefused` lines 121–133;
`Report`, `ReportLost` the report.  `Upload` and its outcomes are
`gateway_core_upload_now`.  Writes wait on the link until the device executes
or rejects them, and are lost with the link.  The cloud (external) hands a
command out until a result has arrived for it.

### WifiManager and the code

The event handler is cut where it reads the retry count and where it writes it
back (`OnDisconnected`, `CountRetry`), and before `esp_wifi_connect`
(`HandlerConnect`).  `wifi_manager_reconnect` is three actions per caller,
because the handler can run between any two of its statements; the gateway
task decides to call it by a flag that may be old (`CoreReconnect`).  The driver
(external) has one station, queues its events in order, and ignores a connect
unless it is idle.

### Console and the code

`boot` is the step of the boot sequence that comes next: flash, console, gateway
id, WiFi init, BLE init, and `core` when `gateway_core_init` is through; from
there `WifiManager`'s `main` goes on (`StartWifi`, `StartCore`).  `Restart` is what a
failed `ESP_ERROR_CHECK` and a failed assertion end in (`sdkconfig` has
assertions on): everything but the flash starts anew.  `BootFails` lets each step
fail.  `TypedEarly` is a command that finds its lock (`s_ble.lock`) or its event
group missing; before the console line "serial commands ready" means what it
says, `status`, `upload`, `poll`, `devices` restart the chip until BLE init is
through, and `reconnect` until WiFi init has made the event group.  After that
an early `reconnect` does what it can: the driver is still off and BLE's
`start_scan` returns at once.  Lines are words and blanks; `Command` cuts them to the
buffer and trims them.

### CloudClient, cJSON and the code

One action per call of cJSON, of the HTTP client or of the handler; within
cJSON, one per place where memory is asked for or text is consumed.

* `item` is the heap of cJSON items under their field names, `strings` counts
  the character arrays, `refused` the allocations that failed (bounded by
  `MaxRefused`; every allocation may be the one).  Text is a sequence of symbols:
  a character that the code looks at (`"`, `\`, `{`, NUL, the five control
  characters with an escape of their own, `"ctl"` for the others, what follows
  the backslash of an escape) or a word of characters that it copies.
* `Upload` and `Report` list the fields the call adds; `CreateRoot`, `AddItem`,
  `AddValue`, `AddKey`, `AddDrop` are the steps of one `cJSON_Add…ToObject`, whose result
  nobody checks.  `PrintBody`…`PrintDone` run `CJsonPrint`.
* `RequestBegins`, `Answer`, `Arrive`, `PerformEnds` are `perform_request` and the HTTP
  client; `Store`, `Grow`, `GrowStore`, `Drop` are `http_event_handler`: a piece that
  finds no memory is gone and the transfer goes on.
* `PollAnswered`, `ParseBody`, `PollRefused`, `PollParsed` are the rest of
  `cloud_client_poll_command`, with `Extracted` for lines 197–215.
* In `CJsonPrint`, `mode` is what is printed next and `stack` the objects that are
  open; `Needed`, `Valid`, `Fits`, `CanGrow`, `NewLength` are `ensure`.  `length`
  and `text` are the buffer, so a write that is too long shows.
* In `CJsonParse`, `frames` are the running `parse_array`/`parse_object` calls with the
  list each would delete; positions count from 0 as in the code.
* `CloudBody.ObjectText` says what a body should be, from the list of fields alone:
  it knows no items and no printer.  `InQuotes` and `TextFrom`, which it shares with
  the theorem about the printer, are at the end of `CJsonPrint`.  How one character
  is escaped (`EscapeOf`) and how a value is turned into a numeral is the same
  definition in both, so `BodyRight` does not check that.
* `CloudContent.ValuesOf` says which values a text may begin with, and shares no
  definition of the parser: it finds strings by the parity of their quotes, cuts
  at commas that are in no string and no bracket, and has its own tables of
  blanks (`Spaces`) and of escapes (`Denotes`).  It is JSON as cJSON takes it:
  every control character is a blank and may stand in a string, `\u` followed by
  what is no number denotes a NUL, and what follows the value is not looked at.

`GatewayLoop` and `CommandRelay` take a request as a whole; `CloudClient` is what one
does inside.

### GatewayLoop and the code

One action per statement of the loop that can do something: `Sample` (lines
145-149), `Reconnect`, `Poll`, `Upload`, `DelayEnds`, and the ends of the
requests.  Time passes only while the task is blocked, in a request or in
`vTaskDelay` (`Tick`): the code in between takes microseconds against intervals
of seconds.  Device and WiFi change at any moment (`Change`), so a pass works
with old samples, while `gateway_core_poll_now` and `_upload_now` look again
and may make no request at all.  `Timeout` is the longest one request takes; it
is a parameter, since `GATEWAY_HTTP_TIMEOUT_MS` bounds each network operation of
a request and not their sum.  `polled`, `reconnected`, `uploads` (when each was
begun), `served` and `offline` are history for the properties; no guard reads
them.

What a request does to a command is `CommandRelay`'s matter, what a reconnect
does to the station `WifiManager`'s; `GatewayLoop` is why their caller `core`
comes round, which their fairness takes for granted.

## 3. Runs

| run | question | expected |
| --- | --- | --- |
| `ble_all` | with two different devices, boot and console scans, losses, failed attempts and resets: does the gateway always go on searching, and is `conn_handle` ever left dangling? | pass |
| `ble_one` | with scans only from the host task and every fault: one link, and handles, identity and status of it alone? does it implement `BleLink`? | pass |
| `ble_live` | does it get back to a subscribed device after the last disturbance? | pass |
| `ble_orphan` | does "one device" survive the boot-time scan? | violated |
| `ble_pool` | does it resubscribe when commands are written meanwhile? | violated |
| `ble_write` | does a command always go to the command characteristic? | violated |
| `relay_ledger` | do two tasks keep the ledger over lossy requests, and is every command reported at last? | pass |
| `relay_success` | does "success" mean written? | violated |
| `relay_owner` | is a command executed by the device it was polled for, if the link changes in between? | violated |
| `wifi` | does the gateway get through its boot sequence whatever fails and is typed meanwhile, and stay up? do handler and reconnects, in any order, leave the station connected, retrying or about to be reconnected? | pass |
| `loop` | however the task is blocked: are polls, reconnects and uploads spaced out and never made up for in a burst, and do polls and reconnects come in time? | pass |
| `cloud` | with any reply in any pieces and any allocation refused: are buffers, lists and ownership sound, are bodies and commands right, does every call end? | pass |

`CHECK_DEADLOCK FALSE` everywhere: a connected gateway with no disturbance left
and nobody typing has nothing to do until a timer or a notification, and the
models cut those off; `loop` ends at the bound of its clock.

### Bounds

Every bound is a constant and a guard, and limits the environment only.

* `MaxDisturb` (losses, failed attempts, resets, console reconnects): 2 or 3.
  Two let one disturbance hit the recovery from the other; the handshake has
  no memory beyond the handles, the flags and the record, and the interesting
  histories (link to *a*, loss, link to *b*, loss) need no more.
* Two devices and two connection handles: a second link needs both.  The stale
  state in the code is always that of the device before.  (The build allows
  three connections; a third would be one more orphan.)
* `MaxProcs` = 4 is `CONFIG_BT_NIMBLE_GATT_MAX_PROCS` of `sdkconfig`.
* `ble_all` gives *b* another layout and no status characteristic, so the
  endless rediscovery of `chr_disc_cb` is part of it.
* `relay_ledger`: one supported and one unsupported command of device *a*, two
  devices, two tasks, one lost request, answer or link, two outstanding
  writes.  Both tasks fetching the same command is the hard case and is
  reached; more losses multiply redeliveries without a new kind of step.
* `wifi`: `MaxRetry` 2 (the code's `WIFI_MAX_RETRY` is 10; used up, not
  used up and reset in between all occur), three troubles (a failed boot step,
  an early command and a manual reconnect are troubles too, so that one of them
  meets two losses), three queued events (the build's queue holds 32); a line
  buffer of two symbols and lines that are a command only when trimmed, only
  when cut, and only before the blank.
* `cloud`: one refused allocation, each in turn; the print buffer begins with 4
  (256 in the code), the response with 4 (256), so that both grow several
  times, by less and by more than double; `IntMax` 160 lets the 60-character id
  reach the place where `ensure` cannot double.  `NestingLimit` 3 (1000), ids of 2 and
  names of 3 symbols beside their NUL (63 and 31 in the code).  Replies: a command with
  every symbol removed and a blank, comma, quote or NUL put in every place; all
  texts of up to three of five symbols, all four brackets; escapes good and
  bad, byte order mark, duplicate and upper-case names, nesting at the limit and
  beyond.  Pieces of 6 and of 40: many pieces, or one.
* `loop`: intervals 2, 3 and 4, requests of up to 2 and a delay of 1, so that a
  pass can overrun every interval and a request can be shorter than each; a
  boot that takes 0 to 3; the clock runs to 16, several rounds of each timer;
  two changes, so that device or WiFi goes and comes back.  Both time bounds
  are tight: with 1 less TLC finds a violation of each.  So is the distance of
  uploads that `RateKept` asks for: with 1 more it is violated.

### Fairness

`BleCentral.Fairness`: the FreeRTOS scheduler runs a task inside a call and the
host task inside a callback (WF); the controller syncs (WF); the device goes on
advertising, an attempt cannot fail for ever and procedures are answered or
fail (SF, since a reset or a loss in between disables them; the stack has
timeouts for each).  Faults and operator commands are never forced.
`CommandRelay.Fairness`: the gateway task's timers come round (SF on poll and
upload), calls that were begun end, and each pending command is at some time
the one handed out.  `Console.BootFairness`: the boot sequence and a command that
runs go on, event loop and callers run, the gateway task looks at the flag
again and again, and an attempt that keeps being made with the access point
there gets its association and its address; the access point need not come
back, no boot step need fail or succeed at the first try, nobody need type.
`CloudClient.FairSpec`: a call that has begun goes on (`GATEWAY_HTTP_TIMEOUT_MS` bounds
each wait of the HTTP client); no call need be made.

## 4. Where code and documentation differ

* **A second link** (`ble_orphan`).  `Kconfig.projbuild:73`: "Stage 1 connects
  one device".  `ble_smartreef_start` may scan after the stack has completed a
  connection and before the `CONNECT` handler has stored it; the second
  device's `CONNECT` overwrites `conn_handle`.
* **No resubscription** (`ble_pool`).  `README.md:374` promises reconnection and
  resubscription.  A GATT call refused for want of a procedure is not repeated.
* **A command to the wrong attribute** (`ble_write`).  `README.md:46`; between
  `conn_handle` and the clearing of the handles, a write uses the last link's
  `command_handle`.
* **"success" before the write** (`relay_success`).  `README.md:197-198`; the
  result is reported when the write is queued.
* **A command for another device** (`relay_owner`).  `README.md:175`: commands are
  asked for one `device_id`.  `gateway_core_poll_now` copies the record, waits for
  the request and then calls `ble_smartreef_write_command`, which is told no id; if
  the link has changed by then, the other device executes the command.
  TLC's trace has the link change during the request.  There is a second way, in
  the model too but not in that trace: after a reconnect to another device the
  connected flag is raised (`ble_smartreef.c:348`) before the identity is read,
  and a poll in between goes out with the `device_id` of the device before.  (The
  status is kept even beyond the identity: that of the old device can be uploaded
  under the new id until the new one is read.)

Two things the runs show that no document speaks of.  A piece of a reply that
finds no memory is dropped and the rest appended behind the gap; the transfer
still succeeds, and what is parsed then is no longer what the cloud sent, so
`ReplyInOrder` and `CommandAsTold` speak only of replies without a gap.  And a gateway whose
console says "serial commands ready" (`serial_console.c:54`) restarts on `status` until
BLE init is through (`TypedEarly`).

## 5. Theorems

TLC checks small instances; the theorems hold for every set of devices,
handles, layouts and commands, every pool size and every bound.  They assume
only the named `ASSUME`s of the modules (what `None` is not, the types of the
constants), and what a theorem itself states.

* `TypeCorrect`, `HandleLiveness` (`BleCentral_proofs`).  `ConnHandleLive` is not
  inductive: when `Up` stores `hconn` one must know that `hconn` is a live
  connection, and when `Terminate` or `Down` acts, what the host task is doing.
  The invariant `IInv` adds `HostInv`: in the middle of a `CONNECT` handler or
  of a teardown, `hconn` is connected, and from `Up` on `conn_handle` is
  `hconn`; while a report or an attempt is in hand there is a target device.
  One lemma per group of
  actions (`GapStepInv`, `LinkStepInv`, `GattStepInv`, `TaskStepInv`) shows that
  it is kept; three lemmas say what GATT calls do to a pool.
* `SearchNeverStops`, assuming that no call is refused without cause
  (`"refuse" \notin Faults`): each way out of a callback leads through `HostScan`,
  and a refused scan means that a procedure is running already.
* `SingleLink`, `FlagFollowsLink`, assuming that the tasks only write.
  The invariant `LinkInv` says that while a scan or an attempt runs, or is
  about to, nothing is connected, so a `CONNECT` always finds `conn_handle`
  free.  `ble_orphan` shows that the assumption cannot be dropped.
* `HandlesFollowLink`, `IdentityComesFirst`, `RecordIsOfLink`, under the same
  assumption.  `HandlesOfThisLink` is inductive once there is one link.
  `IdentityBeforeStatus` is not: a new connection must find no subscription and
  no procedure of the one before, so `IdentifiedInv` speaks of every handle, and
  says that what is subscribed to or asked is also linked.  Three lemmas
  (`GattCallAsks`, `DiscoverNextAsks`, `PoppedAsks`) say which calls can put a
  request for a status into a pool: those of `IdentityRead` alone.
* `CentralImplementsLink`: the central implements `BleLink`.  `QuietSteps` leaves nine
  kinds of steps that the record or the link can show; `ComingUp` says that the
  record and `conn_handle` are clear when a link comes up, and `StatusOfRecord` that a
  status is one of the device on record.
* `RelayKeepsLedger` (`CommandRelay_proofs`): the relay implements the ledger.
  The inductive invariant counts what each task has in hand (fetched, written
  but not reported) towards the ledger; with that, each task step is a ledger
  step or leaves it alone.  `RelayBalanced` follows through an invariant of the
  abstract specification alone.
* `TypeCorrect`, `ExecutesWhatIsWritten` (`CommandRelay_proofs`).
  `ExecutedAsWritten` becomes inductive when the writes of a command that are still
  queued (`Waiting`) are added to those a device has executed; `WaitingAppend` and
  `WaitingTail` say how queueing and taking a write change their number.
* `TypeCorrect`, `FlagIsRight`, `NeverAbandoned` (`Console_proofs`), about `WifiManager`.
  `FlagSettles` speaks of the empty queue only; `QueueInv` says what holds
  before: the last event queued tells whether the station is up, and a start
  event comes first and meets no connection.  `StepKinds` reduces the
  seventeen actions to three: leave the queue alone, post, dispatch.  `TypeOK` needs that
  a count about to be incremented is below the maximum; `NotAbandoned` needs
  `QueueInv`, because dispatching a *got IP* must not be what leaves an idle
  station behind.
* `RightAfterRestart`, `NeverRestarts` (`Console_proofs`).  Every step of `Console` is a
  step of `WifiManager` or a restart (`StepsOrRestarts`), so the lemmas about
  `WifiManager` carry over once a restart is shown to re-establish their
  invariants.  `StaysUp` needs `Ordered`: WiFi is started only when everything a command
  uses is there.
* `ResponseSafe`, `ParserSafe`, `ReplyKept` (`CloudClient_proofs`).  `ResponseInv`
  adds to the bound the types of what has come and is to come, and that a piece is
  part of the latter.  `ParserInv` says that the text ends with its NUL, and that
  where an element is expected the parser stands before it; `SkipBounds` is the
  lemma about stepping back, `BeforeNul` why a symbol that is not the NUL has a
  place behind it.  `ReplyInv` adds that nothing is kept before a reply arrives;
  `PieceMoves` says that a piece moves from what is to come to what is kept without
  changing the two together.
* `ClientFreesAll`, `ItemsListed`, `ClientTypes`, `ClientPrints`
  (`CloudClient_proofs`): nothing leaks, and no pointer dangles, in a call on any
  text with any allocations refused. Neither property is inductive, and the argument
  has three layers:
  - `CJsonItems_proofs` knows nothing of the client.  A heap of items is a forest:
    each item leads to its next sibling and its first child, has at most one
    predecessor, and is led to from a root (`Forest`, `Heap`).  `Linked` is
    `ListsSound` strengthened by what an append needs, that no two lists share a
    tail.  `Sound(h, c, E)` says that `h` is such a heap with the roots `E`, and
    that `c` strings belong to its items. `CreateItem`, `FillItem`, `JoinItem`,
    `AdoptItems`, `CloseList`, `DeleteItems` say what each kind of step does to it;
    a deletion takes exactly the tree of one root.
  - `ParseHeap` says what the roots are while a text is parsed: the outermost item
    and the head of the unfinished list of every running
    `parse_array`/`parse_object`.  These lists are not linked to their container
    until they are closed, so each frame is described by `OpenFrame`, and
    `FramesApart` shows that no two overlap.  One lemma per step of the parser, and
    `RootDeleted`: when no container is open, deleting the root leaves nothing.
  - `ClientInv` ties this to the calls: `PhaseInv` (what exists at which step),
    `FieldsInv` (the fields still to be added), `HeapInv` (the roots outside the
    parser are the body and the item being added, which has no links and no key
    yet), `OutInv` (the polled command) and `PrintInv`.  The invariant was checked
    with TLC on the instance of `cloud` before it was proved.
  `NothingLeft` is `HeapInv` with no root left; `ListsSound` follows from `Sound` in every
  state.  That a command fits its fields needs that a parsed string item has a text, so
  `ParseHeap` says so of every item that is finished.
* `PrinterSafe` (`CJsonPrint_proofs`), about the printer alone on any items.  `PrintInv`
  relates, while a string is escaped, what is written and what the rest of it
  takes to what `print_string_ptr` has reckoned; `EnsureRoom` and `WriteRoom` do the
  arithmetic of `ensure`.
* `PrinterRight` (`CJsonPrint_proofs`), about the printer alone too: what it returns
  is the text of its root.  Texts of items are described by what they satisfy
  (`Spells`: the text of an item in terms of those of its child and its next), since
  the printer's items may be linked in any way, and whatever satisfies it is what is
  printed.  The invariant `Spelling` says that what has been written and what is to
  come (`ToCome`) are that text together; `Follow` says, for each open object, what
  is to come behind it.  There is one lemma per action; `TextSeen` and `TextMoves`
  say how a write moves a piece from the one to the other, and `CopySpelled` goes
  with the reckoning of `PrintInv`, without which the closing quote might overwrite
  the string's end.
* `BodiesAreRight` (`CloudBody_proofs`): `BodyRight` for every status, command,
  message and number of refused allocations.  It is not inductive by far; the
  invariant has four parts:
  - `SentInv`: what is added are the fields of the status that was *measured* (by
    `RoundTrip`) or of the result, one of them an object, and none with a NUL, where
    C would see the end; for the id that was polled this is `CommandClean`, about
    `strlcpy`.
  - `BuildInv`: while a body is built, `Built` relates the items to the fields that
    are through.  `node` gives the item of each field that is there; those of the
    root and those of the inner object are the list of its children, in the order of
    the fields (`Listed`), and hold type, value and key (`Placed`).  `lost` are the
    fields that are not there, and `Loses` charges each of them to one of the
    refused allocations; a field that goes into an object that is lost itself is
    charged to none.  One lemma per step: `CreateBuilds`, `ItemBuilds`,
    `ValueBuilds`, `KeyBuilds` (with `JoinsRoot` and `JoinsSub`, about
    `add_item_to_array`), `DropBuilds`.
  - `PrintedInv` is the invariant of `PrinterRight`, and `BodyInv` keeps the result
    until the call ends.
  What joins them is `ObjectSpelled`: a heap that `Built` describes has texts, there
  is no NUL in them, and that of the root is `ObjectText` of the fields that are not
  lost. `BodyAssumption` is what it rests on beside the client's assumptions: ids
  and messages are C strings, a device sends what it measures, and no numeral is a
  NUL.  The invariant was checked with TLC before it was proved.
* `RoundTrip` (`CloudBody_proofs`): a decoded packet is the status it was made of, for
  all 16-bit temperatures and pH values.
* `GatewayLoop_proofs`: `TypeCorrect`, `RateIsKept`, `PollsInTime`,
  `ReconnectsInTime`.  `Clock` orders clock, samples and stamps; a poll or a
  reconnect is stamped with the moment it is begun, which gives their distance.
  For uploads `SpacedInv` adds that by the next pass every upload has
  the delay behind it, and that every upload but the last lies the delay, and an
  interval for each upload in between, before the last one's stamp
  (`last_upload_ms`), which is never later than the upload itself.
  `PollInv` and `ReconnectInv` say, for each place in the pass, how much of it
  may have passed since the sample and how much is still to come.  The bounds
  hold for all intervals and timeouts, also where a pass is longer than an
  interval.

`ClientAssumption` and `ItemsAssumption` are what the client's theorems rest on:
sizes are positive, what the cloud sends are strings of symbols, and ids and
messages are `Texts`. The symbol `"bad"` stands for what is no text (`NoString` is a
null pointer), so `Texts` leaves it out; a *reply* may hold it.

The definitions that go down lists and texts (`Owned`, `GetObjectItem`, `Unescape`)
are recursive functions.  The prover has no induction over data, so what the proofs
need of them is shown with least elements: `OwnedLeads` and `LookupType` show that
the recursion has a solution on every forest because every set of items has one that
leads to no other in it, `UnescapeType` because every set of positions has a first.

Only model-checked: all liveness (`Resubscribes`, `EveryCommandReported`,
`ComesBack`, `Starts`, `CallsEnd`: fairness and ENABLED are beyond the prover), and
`ParseRight` and `CommandAsTold`, which compare with the recursive definitions of
`CloudContent`: what a text of any depth means is defined by recursion over its
brackets (RECURSIVE operators and induction over data are out of the prover's
reach).  `ObjectText` needs no recursion, since a body has one object inside and no
more.  Of what `CommandAsTold` rests on, `ReplyKept` and the field sizes are proved.

## 6. Not modelled

* URLs, headers, names and log output: wording.  The decimal conversions of
  numbers (`sprintf` and `strtod` on doubles) are replaced by decimal arithmetic
  (`NumeralOf`); the numerals of a reply are never used.
* The time stamp of a status, and stack use of cJSON's recursion (1000 levels are
  allowed, the tasks have 4 and 8 KiB; the model has the limit, not the stack).
* Advertisements whose name does not match have no effect and are left out.
  In `BleCentral` a packet that the codec rejects is an answer without effect
  (`ProcEnds`), whose notification simply does not happen.
* HTTP status codes: the code logs them and acts on none; any body may come.
* A refusal of `esp_wifi_start` in the boot sequence (hazard at
  `gateway_core.c:197`), and an empty SSID, with which the boot sequence fails for
  ever by design.
* `ble_gap_terminate`'s own refusal, beyond a link that is already going.
* The rest of cJSON: arrays and null in print, formatted and preallocated
  printing, hooks, detach, insert, replace, duplicate, minify, compare,
  references: no call of the firmware reaches them.  cJSON_Utils: called by nothing.
* ESP-IDF, NimBLE, the HTTP client: external, modelled as they are used.
  `build/`: generated.

## 7. What could come next

1. The reply's side of `BodiesAreRight`: that the items of a parsed text spell a
   text with the same value (`Spells` over the forest of `CJsonItems_proofs`), which
   would give `CommandAsTold` for replies that are JSON, without the recursive
   definitions of `CloudContent`.
2. `GatewayLoop` composed with the requests of `CommandRelay`: how long a
   command can lie in the cloud before it is fetched.
3. A model of `esp_wifi_start` that may fail, if the firmware gets a retry for it.
