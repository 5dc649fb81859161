------------------------------ MODULE Console ------------------------------
(***************************************************************************)
(* app_main with what surrounds the WiFi manager: the boot sequence, the    *)
(* serial console that is started in the middle of it, and the restart     *)
(* that every failed boot step and every failed assertion ends in.         *)
(*                                                                         *)
(* A line is read at once, as a sequence of words and blanks; what is typed *)
(* while a command runs is read afterwards.  The effects of "upload" and   *)
(* "poll" are CommandRelay's, the BLE half of "reconnect" is BleCentral's. *)
(***************************************************************************)
EXTENDS WifiManager, FiniteSetsExt

CONSTANTS
  Lines,     \* what may be typed
  LineMax    \* sizeof(line) - 1

ASSUME ConsoleAssumption == LineMax \in Nat /\ \A l \in Lines : l \in Seq(STRING)

VARIABLES
  nvs,       \* the flash, which outlives a restart: "ok" or "full"
  boot,      \* the step of the boot sequence that is next; "core": all are done
  console    \* the serial task: "off", "ready", or "reconnect" while it runs that

started == <<nvs, boot, console>>
all == <<vars, started>>

BootInit ==
  /\ Init
  /\ nvs \in {"ok", "full"} /\ boot = "nvs" /\ console = "off"

\* ESP_ERROR_CHECK or an assertion fails: the chip starts anew, and of its
\* memory only the flash is left.
Restart ==
  /\ s_connected' = FALSE /\ s_retry_count' = 0 /\ bits' = {}
  /\ driver' = "off" /\ events' = <<>>
  /\ handler' = "idle" /\ count' = 0
  /\ main' = "connect" /\ pc' = [c \in Callers |-> "idle"]
  /\ boot' = "nvs" /\ console' = "off"
  /\ UNCHANGED ap

-----------------------------------------------------------------------------
(* app_main, gateway_core_start *)

Boots(from, to) == boot = from /\ boot' = to /\ UNCHANGED vars

\* Mutant: full flash is reported, and not erased.
NvsInitOnly ==
  \/ nvs = "ok" /\ Boots("nvs", "console") /\ UNCHANGED <<nvs, console>>
  \/ nvs = "full" /\ boot = "nvs" /\ Restart /\ UNCHANGED <<nvs, troubles>>

\* Full flash, or flash of another version, is erased and tried again.
NvsInit ==
  \/ nvs = "ok" /\ Boots("nvs", "console") /\ UNCHANGED <<nvs, console>>
  \/ nvs = "full" /\ Boots("nvs", "console") /\ nvs' = "ok" /\ UNCHANGED console

\* The task reads commands from here on.
ConsoleStart ==
  /\ Boots("console", "id")
  /\ console' = "ready" /\ UNCHANGED nvs

GatewayId == Boots("id", "wifi") /\ UNCHANGED <<nvs, console>>
WifiInit == Boots("wifi", "ble") /\ UNCHANGED <<nvs, console>>
BleInit == Boots("ble", "core") /\ UNCHANGED <<nvs, console>>

\* Mutant: WiFi is connected before BLE is initialised.
StartWifiFirst == boot \in {"ble", "core"} /\ ConnectStart /\ UNCHANGED started

StartWifi == boot = "core" /\ ConnectStart /\ UNCHANGED started
StartCore == ConnectReturns /\ UNCHANGED started

\* A step fails, up to the creation of the gateway task; the flash may have
\* been erased.  (That WiFi does not connect is not a failure.)
BootFails ==
  /\ boot = "core" => main = "wait"
  /\ Trouble /\ Restart
  /\ nvs' = nvs \/ (boot = "nvs" /\ nvs' = "ok")

-----------------------------------------------------------------------------
(* serial_task, handle_command *)

\* trim_line
Trimmed(line) ==
  LET black == {i \in 1 .. Len(line) : line[i] # " "}
  IN  IF black = {} THEN <<>> ELSE SubSeq(line, Min(black), Max(black))

\* The line buffer takes the first LineMax characters of a line.
Command(line) ==
  Trimmed(SubSeq(line, 1, IF Len(line) < LineMax THEN Len(line) ELSE LineMax))

\* These take the lock of the device record.
Locking == {<<"status">>, <<"upload">>, <<"poll">>, <<"devices">>}

HasGroup == boot \in {"ble", "core"}   \* wifi_manager_init is through
HasLock == boot = "core"               \* ble_smartreef_init is through

\* A command that finds its lock or its event group missing is an assertion
\* that fails.  Otherwise the locking commands change nothing here.
TypedEarly(line) ==
  /\ console = "ready" /\ Trouble
  /\ \/ Command(line) \in Locking /\ ~HasLock
     \/ Command(line) = <<"reconnect">> /\ ~HasGroup
  /\ Restart /\ UNCHANGED nvs

TypedReconnect(line) ==
  /\ console = "ready" /\ console' = "reconnect"
  /\ Command(line) = <<"reconnect">> /\ HasGroup
  /\ SerialReconnect
  /\ UNCHANGED <<nvs, boot>>

\* gateway_core_reconnect turns to BLE, which leaves it at that while the host
\* has not started, and looks at no lock before.
ReconnectEnds ==
  /\ console = "reconnect" /\ pc["serial"] = "idle"
  /\ console' = "ready"
  /\ UNCHANGED <<vars, nvs, boot>>

-----------------------------------------------------------------------------
BootStep ==
  NvsInit \/ ConsoleStart \/ GatewayId \/ WifiInit \/ BleInit \/ StartWifi \/ StartCore

BootNext ==
  \/ BootStep \/ BootFails
  \/ (\E line \in Lines : TypedEarly(line) \/ TypedReconnect(line))
  \/ ReconnectEnds
  \/ HandlerStep /\ UNCHANGED started
  \/ DriverStep /\ UNCHANGED started
  \/ CoreReconnect /\ UNCHANGED started
  \/ (\E c \in Callers : Reconnecting(c)) /\ UNCHANGED started

BootSpec == BootInit /\ [][BootNext]_all

\* The boot sequence, the console's commands, the event loop and the callers
\* run; the gateway task looks at the flag every 10 s; an attempt that is not
\* given up time and again before it is through gets its association and its
\* address.  The access point need not come back.
BootFairness ==
  /\ WF_all(BootStep) /\ WF_all(ReconnectEnds)
  /\ WF_all(HandlerStep /\ UNCHANGED started)
  /\ SF_all(Associate /\ UNCHANGED started) /\ SF_all(Address /\ UNCHANGED started)
  /\ WF_all(AttemptFails /\ ~ap /\ UNCHANGED started)
  /\ WF_all(CoreReconnect /\ UNCHANGED started)
  /\ \A c \in Callers : WF_all(Reconnecting(c) /\ UNCHANGED started)

FairBootSpec == BootSpec /\ BootFairness

-----------------------------------------------------------------------------
(* Properties, beside those of WifiManager *)

\* Once its task runs, the gateway does not restart, whatever is typed: every
\* command finds what it uses, although the console is up long before it.
StaysUp == [][main = "running" => main' = "running"]_all

\* The gateway gets to run: no failure of a boot step, full flash or command
\* that is typed too early makes it restart for ever.
Starts == <>[](main = "running")
=============================================================================
