---------------------------- MODULE CommandRelay ----------------------------
(***************************************************************************)
(* The relay between cloud and device: gateway_core_poll_now and           *)
(* gateway_core_upload_now of main/gateway_core.c over the requests of     *)
(* main/cloud_client.c, run by the gateway task and by the serial console  *)
(* task, against the BLE link that BleLink promises.                       *)
(*                                                                         *)
(* The cloud is external: it hands a device's command out as long as no    *)
(* result has arrived for it, and keeps what is reported and uploaded.     *)
(* A request may get lost, and so may its answer.                          *)
(***************************************************************************)
EXTENDS BleLink, Naturals, Sequences

CONSTANTS
  Commands,     \* cmd_ids the cloud has a command for
  Owner,        \* the device each one is for
  Unsupported,  \* those is_supported_cmd rejects
  MaxDisturb,   \* bound on lost requests, link losses and WiFi drops
  MaxPending    \* bound on outstanding writes (the GATT procedure pool)

ASSUME RelayAssumption ==
  /\ Owner \in [Commands -> Devices]
  /\ Unsupported \subseteq Commands
  /\ None \notin Commands
  /\ MaxDisturb \in Nat /\ MaxPending \in Nat

Tasks == {"core", "serial"}

VARIABLES
  wifi,       \* wifi_manager_is_connected
  pc,         \* where each task is
  snapshot,   \* the device_id (and status owner) each task copied
  cmd,        \* the command each task works on
  writes,     \* BLE writes accepted and not yet answered, oldest first
  applied,    \* how often each device executed each command
  handed, written, givenup, ok, failed,   \* as in CommandLedger
  uploads,    \* <<id, owner>>: a status of owner was filed under id
  disturbed

locals == <<pc, snapshot, cmd>>
radio == <<link, device, writes, applied>>
cloud == <<handed, ok, failed, uploads>>
counts == <<written, givenup>>
vars == <<wifi, locals, radio, cloud, counts, disturbed>>

Zero == [c \in Commands |-> 0]
Inc(f, c) == [f EXCEPT ![c] = @ + 1]
NoCopy == [device_id |-> None, status |-> None]

Init ==
  /\ LinkInit
  /\ wifi = FALSE
  /\ pc = [t \in Tasks |-> "idle"]
  /\ snapshot = [t \in Tasks |-> NoCopy]
  /\ cmd = [t \in Tasks |-> None]
  /\ writes = <<>>
  /\ applied = [d \in Devices |-> Zero]
  /\ handed = Zero /\ written = Zero /\ givenup = Zero
  /\ ok = Zero /\ failed = Zero
  /\ uploads = {}
  /\ disturbed = 0

Disturb ==
  /\ disturbed < MaxDisturb
  /\ disturbed' = disturbed + 1

Goes(t, from, to) == pc[t] = from /\ pc' = [pc EXCEPT ![t] = to]

\* A call is over: the task's local variables are gone.
Returns(t, from) ==
  /\ Goes(t, from, "idle")
  /\ snapshot' = [snapshot EXCEPT ![t] = NoCopy]
  /\ cmd' = [cmd EXCEPT ![t] = None]

-----------------------------------------------------------------------------
(* gateway_core_poll_now *)

\* get_connected_device: a record with an identity and the connected flag.
ConnectedDevice == device.device_id # None /\ device.connected

\* Mutant: polling waits for a status, as uploading does.
PollWithStatus(t) ==
  /\ ConnectedDevice /\ wifi /\ device.status # None
  /\ Goes(t, "idle", "poll")
  /\ snapshot' = [snapshot EXCEPT ![t].device_id = device.device_id]
  /\ UNCHANGED <<wifi, cmd, radio, cloud, counts, disturbed>>

\* The checks, and the request for the device_id copied by them.
Poll(t) ==
  /\ ConnectedDevice /\ wifi
  /\ Goes(t, "idle", "poll")
  /\ snapshot' = [snapshot EXCEPT ![t].device_id = device.device_id]
  /\ UNCHANGED <<wifi, cmd, radio, cloud, counts, disturbed>>

Pending(c) == ok[c] = 0 /\ failed[c] = 0

\* The cloud hands out a command of the device asked for.
PollAnswered(t, c) ==
  /\ Owner[c] = snapshot[t].device_id /\ Pending(c)
  /\ Goes(t, "poll", "execute")
  /\ cmd' = [cmd EXCEPT ![t] = c]
  /\ handed' = Inc(handed, c)
  /\ UNCHANGED <<wifi, snapshot, radio, ok, failed, uploads, counts, disturbed>>

\* "cmd" is null: there is none.
PollNothing(t) ==
  /\ \A c \in Commands : Owner[c] = snapshot[t].device_id => ~Pending(c)
  /\ Returns(t, "poll")
  /\ UNCHANGED <<wifi, radio, cloud, counts, disturbed>>

\* The request is lost, or the answer is lost or unusable after the cloud
\* handed a command out.
PollLost(t) ==
  /\ Disturb
  /\ Returns(t, "poll")
  /\ \/ UNCHANGED handed
     \/ \E c \in Commands :
          /\ Owner[c] = snapshot[t].device_id /\ Pending(c)
          /\ handed' = Inc(handed, c)
  /\ UNCHANGED <<wifi, radio, ok, failed, uploads, counts>>

\* An unsupported command is not written.
ExecuteUnsupported(t) ==
  /\ cmd[t] \in Unsupported
  /\ Goes(t, "execute", "report_failed")
  /\ givenup' = Inc(givenup, cmd[t])
  /\ UNCHANGED <<wifi, snapshot, cmd, radio, cloud, written, disturbed>>

\* Mutant: every command is written.
ExecuteAny(t) ==
  /\ link # None /\ Len(writes) < MaxPending
  /\ Goes(t, "execute", "report_ok")
  /\ writes' = Append(writes, cmd[t])
  /\ written' = Inc(written, cmd[t])
  /\ UNCHANGED <<wifi, snapshot, cmd, link, device, applied, cloud, givenup,
                 disturbed>>

\* ble_smartreef_write_command is accepted: the write is queued on the link
\* there is now, and counts as success.
ExecuteWritten(t) ==
  /\ cmd[t] \notin Unsupported
  /\ link # None /\ Len(writes) < MaxPending
  /\ Goes(t, "execute", "report_ok")
  /\ writes' = Append(writes, cmd[t])
  /\ written' = Inc(written, cmd[t])
  /\ UNCHANGED <<wifi, snapshot, cmd, link, device, applied, cloud, givenup,
                 disturbed>>

\* It is refused: no link, no command handle yet, no GATT procedure left.
ExecuteRefused(t) ==
  /\ cmd[t] \notin Unsupported
  /\ Goes(t, "execute", "report_failed")
  /\ givenup' = Inc(givenup, cmd[t])
  /\ UNCHANGED <<wifi, snapshot, cmd, radio, cloud, written, disturbed>>

\* Mutant: a report whose answer is late is sent again.
ReportAgain(t) ==
  /\ \/ /\ Goes(t, "report_ok", "report_ok") \/ Goes(t, "report_ok", "idle")
        /\ ok' = Inc(ok, cmd[t]) /\ UNCHANGED failed
     \/ /\ Goes(t, "report_failed", "idle")
        /\ failed' = Inc(failed, cmd[t]) /\ UNCHANGED ok
  /\ UNCHANGED <<wifi, snapshot, cmd, radio, handed, uploads, counts, disturbed>>

\* cloud_client_report_command_result arrives.
Report(t) ==
  /\ \/ /\ Returns(t, "report_ok")
        /\ ok' = Inc(ok, cmd[t]) /\ UNCHANGED failed
     \/ /\ Returns(t, "report_failed")
        /\ failed' = Inc(failed, cmd[t]) /\ UNCHANGED ok
  /\ UNCHANGED <<wifi, radio, handed, uploads, counts, disturbed>>

\* It does not, and is not sent again.
ReportLost(t) ==
  /\ Disturb
  /\ Returns(t, "report_ok") \/ Returns(t, "report_failed")
  /\ UNCHANGED <<wifi, radio, cloud, counts>>

-----------------------------------------------------------------------------
(* gateway_core_upload_now *)

\* Mutant: the status is sent whether there is one or not.
UploadInvalid(t) ==
  /\ ConnectedDevice /\ wifi
  /\ Goes(t, "idle", "upload")
  /\ snapshot' = [snapshot EXCEPT ![t] = [device_id |-> device.device_id,
                                          status |-> device.status]]
  /\ UNCHANGED <<wifi, cmd, radio, cloud, counts, disturbed>>

\* The record is copied, status and identity together, and sent.
Upload(t) ==
  /\ ConnectedDevice /\ wifi /\ device.status # None
  /\ Goes(t, "idle", "upload")
  /\ snapshot' = [snapshot EXCEPT ![t] = [device_id |-> device.device_id,
                                          status |-> device.status]]
  /\ UNCHANGED <<wifi, cmd, radio, cloud, counts, disturbed>>

UploadArrives(t) ==
  /\ Returns(t, "upload")
  /\ uploads' = uploads \cup {<<snapshot[t].device_id, snapshot[t].status>>}
  /\ UNCHANGED <<wifi, radio, handed, ok, failed, counts, disturbed>>

UploadLost(t) ==
  /\ Disturb
  /\ Returns(t, "upload")
  /\ UNCHANGED <<wifi, radio, cloud, counts>>

-----------------------------------------------------------------------------
(* The link and the device at its end. *)

\* The device executes the oldest write and answers it; command_write_cb logs.
DeviceExecutes ==
  /\ link # None /\ writes # <<>>
  /\ applied' = [applied EXCEPT ![link][Head(writes)] = @ + 1]
  /\ writes' = Tail(writes)
  /\ UNCHANGED <<wifi, locals, link, device, cloud, counts, disturbed>>

\* The device rejects it: that is logged too, and nothing else.
DeviceRejects ==
  /\ Disturb
  /\ link # None /\ writes # <<>>
  /\ writes' = Tail(writes)
  /\ UNCHANGED <<wifi, locals, link, device, applied, cloud, counts>>

RecordStep ==
  /\ (\E d \in Devices : LinkUp(d)) \/ FlagUp \/ Identify \/ TakeStatus
     \/ FlagDown
  /\ UNCHANGED <<wifi, locals, writes, applied, cloud, counts, disturbed>>

\* What was queued on a link is lost with it.
Disconnect ==
  /\ Disturb
  /\ LinkLost
  /\ writes' = <<>>
  /\ UNCHANGED <<wifi, locals, applied, cloud, counts>>

WifiUp ==
  /\ ~wifi /\ wifi' = TRUE
  /\ UNCHANGED <<locals, radio, cloud, counts, disturbed>>

WifiDown ==
  /\ Disturb
  /\ wifi /\ wifi' = FALSE
  /\ UNCHANGED <<locals, radio, cloud, counts>>

-----------------------------------------------------------------------------
Execute(t) == ExecuteUnsupported(t) \/ ExecuteWritten(t) \/ ExecuteRefused(t)
TaskStep(t) ==
  \/ Poll(t) \/ (\E c \in Commands : PollAnswered(t, c)) \/ PollNothing(t)
  \/ PollLost(t) \/ Execute(t) \/ Report(t) \/ ReportLost(t)
  \/ Upload(t) \/ UploadArrives(t) \/ UploadLost(t)
LinkStep ==
  RecordStep \/ Disconnect \/ DeviceExecutes \/ DeviceRejects
  \/ WifiUp \/ WifiDown

Next == (\E t \in Tasks : TaskStep(t)) \/ LinkStep

Spec == Init /\ [][Next]_vars

\* The gateway task polls and uploads over and over, every call it has begun
\* ends, and while polling goes on every command is handed out at some time.
\* The operator need not type anything, and no link need ever come up.
Fairness ==
  /\ SF_vars(Poll("core")) /\ SF_vars(Upload("core"))
  /\ \A t \in Tasks :
       /\ \A c \in Commands : SF_vars(PollAnswered(t, c))
       /\ WF_vars(PollNothing(t)) /\ WF_vars(Execute(t))
       /\ WF_vars(Report(t)) /\ WF_vars(UploadArrives(t))
  /\ WF_vars(DeviceExecutes)

FairSpec == Spec /\ Fairness

-----------------------------------------------------------------------------
(* Properties. *)

\* Every variable keeps to its values; only a status that a device reported
\* is ever uploaded, and only under an id that was read.
TypeOK ==
  /\ link \in Devices \cup {None}
  /\ device \in [device_id : Devices \cup {None}, status : Devices \cup {None},
                 connected : BOOLEAN]
  /\ wifi \in BOOLEAN
  /\ pc \in [Tasks -> {"idle", "poll", "execute", "report_ok", "report_failed",
                       "upload"}]
  /\ snapshot \in [Tasks -> [device_id : Devices \cup {None},
                             status : Devices \cup {None}]]
  /\ cmd \in [Tasks -> Commands \cup {None}]
  /\ writes \in Seq(Commands)
  /\ applied \in [Devices -> [Commands -> Nat]]
  /\ handed \in [Commands -> Nat] /\ written \in [Commands -> Nat]
  /\ givenup \in [Commands -> Nat]
  /\ ok \in [Commands -> Nat] /\ failed \in [Commands -> Nat]
  /\ uploads \subseteq (Devices \X Devices)
  /\ disturbed \in 0 .. MaxDisturb

Ledger == INSTANCE CommandLedger

\* The two tasks together keep the ledger: whatever they interleave, no
\* handout is written or reported twice, and no result is reported that its
\* write does not stand behind.
KeepsLedger == Ledger!LedgerSpec

\* A device executes no command more often than writes of it were accepted,
\* and none that is not supported.
ExecutedAsWritten ==
  \A d \in Devices, c \in Commands :
    /\ applied[d][c] <= written[c]
    /\ c \in Unsupported => applied[d][c] = 0

\* d is linked, identified and online.
Serves(d) == link = d /\ device.device_id = d /\ device.connected /\ wifi

\* Once the device a command is for is served for good, a result of the
\* command arrives at the cloud: the gateway task keeps polling, and what was
\* handed out and lost is handed out again.
EveryCommandReported ==
  \A c \in Commands : <>[]Serves(Owner[c]) => <>~Pending(c)

\* "success" stands for a write that the device has executed or may still
\* execute.
SuccessMeansWritten ==
  \A c \in Commands : ok[c] > 0 =>
    \/ \E d \in Devices : applied[d][c] > 0
    \/ \E i \in 1 .. Len(writes) : writes[i] = c

\* A command is executed by the device whose id it was asked for, although the
\* link may change between the poll and the write.
CommandReachesOwner ==
  \A d \in Devices, c \in Commands : applied[d][c] > 0 => d = Owner[c]
=============================================================================
