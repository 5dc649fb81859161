---------------------------- MODULE WifiManager ----------------------------
(***************************************************************************)
(* The station of main/wifi_manager.c: the event handler on the default    *)
(* event loop, wifi_manager_connect in the boot sequence, and              *)
(* wifi_manager_reconnect called by the gateway task (while it sees no     *)
(* connection) and by the serial console (at any time once init is done).   *)
(* Handler and callers share retry count, flag and event bits unlocked.    *)
(*                                                                         *)
(* The driver is external: it has one station, posts its events in order   *)
(* and ignores a connect while it is not idle and a disconnect while it is.*)
(***************************************************************************)
EXTENDS Naturals, Sequences

CONSTANTS
  MaxRetry,   \* WIFI_MAX_RETRY
  MaxTrouble, \* bound on lost connections, failed attempts, manual reconnects
  MaxEvents   \* bound on the events posted and not yet dispatched

ASSUME WifiAssumption ==
  /\ MaxRetry \in Nat /\ MaxTrouble \in Nat /\ MaxEvents \in Nat \ {0}

Callers == {"core", "serial"}

VARIABLES
  s_connected, s_retry_count, bits,
  driver,     \* the station: "off", "idle", "connecting", "assoc" or "up"
  events,     \* posted and not yet dispatched
  ap,         \* whether the access point is there
  handler,    \* the event loop task: "idle", "count" or "connect"
  count,      \* the retry count it read
  main,       \* the boot sequence
  pc,         \* each caller of wifi_manager_reconnect
  troubles

own == <<s_connected, s_retry_count, bits>>
station == <<driver, events, ap>>
loop == <<handler, count>>
vars == <<own, station, loop, main, pc, troubles>>

Init ==
  /\ s_connected = FALSE /\ s_retry_count = 0 /\ bits = {}
  /\ driver = "off" /\ events = <<>> /\ ap \in BOOLEAN
  /\ handler = "idle" /\ count = 0
  /\ main = "connect"
  /\ pc = [c \in Callers |-> "idle"]
  /\ troubles = 0

Trouble ==
  /\ troubles < MaxTrouble
  /\ troubles' = troubles + 1

-----------------------------------------------------------------------------
(* The driver. *)

\* esp_event_post, which waits for room in the queue of the event loop.
Post(e) == Len(events) < MaxEvents /\ events' = Append(events, e)

\* esp_wifi_connect, as every caller uses it.
WifiConnect == driver' = IF driver = "idle" THEN "connecting" ELSE driver

\* esp_wifi_disconnect gives up whatever is there, and says so.
WifiDisconnect ==
  IF driver \in {"connecting", "assoc", "up"}
    THEN driver' = "idle" /\ Post("disconnected")
    ELSE UNCHANGED <<driver, events>>

Associate ==
  /\ driver = "connecting" /\ ap
  /\ driver' = "assoc"
  /\ UNCHANGED <<own, events, ap, loop, main, pc, troubles>>

\* The address arrives.
Address ==
  /\ driver = "assoc"
  /\ driver' = "up" /\ Post("got_ip")
  /\ UNCHANGED <<own, ap, loop, main, pc, troubles>>

\* The attempt fails: without an access point, or by bad luck.
AttemptFails ==
  /\ driver = "connecting"
  /\ IF ap THEN Trouble ELSE UNCHANGED troubles
  /\ driver' = "idle" /\ Post("disconnected")
  /\ UNCHANGED <<own, ap, loop, main, pc>>

\* The access point goes away, and the connection with it; it comes back.
ApLost ==
  /\ Trouble
  /\ ap /\ ap' = FALSE
  /\ IF driver \in {"assoc", "up"}
       THEN driver' = "idle" /\ Post("disconnected")
       ELSE UNCHANGED <<driver, events>>
  /\ UNCHANGED <<own, loop, main, pc>>

ApBack ==
  /\ ~ap /\ ap' = TRUE
  /\ UNCHANGED <<own, driver, events, loop, main, pc, troubles>>

-----------------------------------------------------------------------------
(* wifi_event_handler *)

Dispatch(e) ==
  /\ handler = "idle" /\ events # <<>> /\ Head(events) = e
  /\ events' = Tail(events)

OnStart ==
  /\ Dispatch("start")
  /\ handler' = "connect"
  /\ UNCHANGED <<own, driver, ap, count, main, pc, troubles>>

\* Mutant: one retry too many.
OnDisconnectedOnceMore ==
  /\ Dispatch("disconnected")
  /\ s_connected' = FALSE
  /\ \/ /\ s_retry_count <= MaxRetry
        /\ handler' = "count" /\ count' = s_retry_count
        /\ UNCHANGED bits
     \/ /\ s_retry_count > MaxRetry
        /\ bits' = bits \cup {"fail"}
        /\ UNCHANGED loop
  /\ UNCHANGED <<s_retry_count, driver, ap, main, pc, troubles>>

\* Mutant: the flag is cleared only when the retries are used up.
OnDisconnectedRetrying ==
  /\ Dispatch("disconnected")
  /\ \/ /\ s_retry_count < MaxRetry
        /\ handler' = "count" /\ count' = s_retry_count
        /\ UNCHANGED <<s_connected, bits>>
     \/ /\ s_retry_count >= MaxRetry
        /\ s_connected' = FALSE
        /\ bits' = bits \cup {"fail"}
        /\ UNCHANGED loop
  /\ UNCHANGED <<s_retry_count, driver, ap, main, pc, troubles>>

\* WIFI_EVENT_STA_DISCONNECTED: the retry count is read here and written back
\* incremented in CountRetry; a reset in between is overwritten.
OnDisconnected ==
  /\ Dispatch("disconnected")
  /\ s_connected' = FALSE
  /\ \/ /\ s_retry_count < MaxRetry
        /\ handler' = "count" /\ count' = s_retry_count
        /\ UNCHANGED bits
     \/ /\ s_retry_count >= MaxRetry
        /\ bits' = bits \cup {"fail"}
        /\ UNCHANGED loop
  /\ UNCHANGED <<s_retry_count, driver, ap, main, pc, troubles>>

CountRetry ==
  /\ handler = "count"
  /\ s_retry_count' = count + 1
  /\ handler' = "connect" /\ count' = 0
  /\ UNCHANGED <<s_connected, bits, station, main, pc, troubles>>

HandlerConnect ==
  /\ handler = "connect"
  /\ WifiConnect
  /\ handler' = "idle"
  /\ UNCHANGED <<own, events, ap, count, main, pc, troubles>>

OnGotIp ==
  /\ Dispatch("got_ip")
  /\ s_retry_count' = 0 /\ s_connected' = TRUE
  /\ bits' = bits \cup {"connected"}
  /\ UNCHANGED <<driver, ap, loop, main, pc, troubles>>

-----------------------------------------------------------------------------
(* wifi_manager_connect, then the rest of the boot sequence *)

ConnectStart ==
  /\ main = "connect" /\ main' = "wait"
  /\ s_retry_count' = 0 /\ bits' = {}
  /\ driver' = "idle" /\ Post("start")
  /\ UNCHANGED <<s_connected, ap, loop, pc, troubles>>

\* One of the bits is set, or 30 s are over; the gateway task is created.
ConnectReturns ==
  /\ main = "wait" /\ main' = "running"
  /\ UNCHANGED <<own, station, loop, pc, troubles>>

-----------------------------------------------------------------------------
(* wifi_manager_reconnect *)

Goes(c, from, to) == pc[c] = from /\ pc' = [pc EXCEPT ![c] = to]

\* Mutant: the gateway task leaves a station alone that has used up its retries.
CoreReconnectUnlessFailed ==
  /\ main = "running" /\ ~s_connected /\ "fail" \notin bits
  /\ Goes("core", "idle", "clear")
  /\ UNCHANGED <<own, station, loop, main, troubles>>

\* The gateway task decides by a flag that may change before it acts.
CoreReconnect ==
  /\ main = "running" /\ ~s_connected
  /\ Goes("core", "idle", "clear")
  /\ UNCHANGED <<own, station, loop, main, troubles>>

SerialReconnect ==
  /\ Trouble
  /\ Goes("serial", "idle", "clear")
  /\ UNCHANGED <<own, station, loop, main>>

ReconnectClear(c) ==
  /\ Goes(c, "clear", "disconnect")
  /\ s_retry_count' = 0 /\ bits' = {}
  /\ UNCHANGED <<s_connected, station, loop, main, troubles>>

ReconnectDisconnect(c) ==
  /\ Goes(c, "disconnect", "connect")
  /\ WifiDisconnect
  /\ UNCHANGED <<own, ap, loop, main, troubles>>

\* Mutant: the disconnected event is left to start the next attempt.
ReconnectConnectLeft(c) ==
  /\ Goes(c, "connect", "idle")
  /\ UNCHANGED <<own, station, loop, main, troubles>>

ReconnectConnect(c) ==
  /\ Goes(c, "connect", "idle")
  /\ WifiConnect
  /\ UNCHANGED <<own, events, ap, loop, main, troubles>>

-----------------------------------------------------------------------------
HandlerStep ==
  OnStart \/ OnDisconnected \/ CountRetry \/ HandlerConnect \/ OnGotIp
DriverStep == Associate \/ Address \/ AttemptFails \/ ApLost \/ ApBack
Reconnecting(c) ==
  ReconnectClear(c) \/ ReconnectDisconnect(c) \/ ReconnectConnect(c)

Next ==
  \/ HandlerStep \/ DriverStep
  \/ ConnectStart \/ ConnectReturns
  \/ CoreReconnect \/ SerialReconnect
  \/ \E c \in Callers : Reconnecting(c)

Spec == Init /\ [][Next]_vars

-----------------------------------------------------------------------------
(* Properties. *)

\* Every variable keeps to its values; the retry count stays within
\* WIFI_MAX_RETRY although two tasks reset it under the handler's hands.
TypeOK ==
  /\ s_connected \in BOOLEAN /\ s_retry_count \in 0 .. MaxRetry
  /\ bits \subseteq {"connected", "fail"}
  /\ driver \in {"off", "idle", "connecting", "assoc", "up"}
  /\ events \in Seq({"start", "disconnected", "got_ip"}) /\ ap \in BOOLEAN
  /\ handler \in {"idle", "count", "connect"} /\ count \in 0 .. MaxRetry
  /\ main \in {"connect", "wait", "running"}
  /\ pc \in [Callers -> {"idle", "clear", "disconnect", "connect"}]
  /\ troubles \in 0 .. MaxTrouble

\* The flag the core polls by is wrong only while an event is on its way:
\* once the event loop has nothing left to do it says whether there is an
\* address.
FlagSettles ==
  events = <<>> /\ handler = "idle" => (s_connected <=> driver = "up")

\* The station is left idle only when the retries are used up: an event, a
\* handler or a reconnect in progress will start the next attempt otherwise.
NotAbandoned ==
  \/ driver # "idle" \/ events # <<>> \/ handler # "idle"
  \/ \E c \in Callers : pc[c] # "idle"
  \/ "fail" \in bits

\* When the access point is back for good, the gateway is connected again
\* and again: used-up retries, an address that never came and reconnects that
\* cross the handler's retries are all made good by the gateway task.
ComesBack == <>[]ap => []<>s_connected
=============================================================================
