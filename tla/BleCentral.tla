----------------------------- MODULE BleCentral -----------------------------
(***************************************************************************)
(* The BLE central of main/ble_smartreef.c: scan, connect, discover the    *)
(* SmartReef service, read the identity, read and subscribe to the status, *)
(* write commands, and start over when the link is lost.                   *)
(*                                                                         *)
(* The NimBLE host task runs every callback, one at a time; hpc is its     *)
(* program counter inside a callback ("idle" between callbacks).  The      *)
(* tasks "main", "serial" and "core" enter the module through start,       *)
(* reconnect and write_command and share its state without the lock.       *)
(*                                                                         *)
(* An attribute handle is represented by the attribute layout of the       *)
(* device it was discovered on: the same number on a device of the same    *)
(* layout is the same attribute, on any other device it is another one.    *)
(***************************************************************************)
EXTENDS Naturals, Sequences, FiniteSets, FiniteSetsExt

CONSTANTS
  Devices,    \* peripherals that advertise the "SmartReef" name prefix
  Handles,    \* connection handles (CONFIG_BT_NIMBLE_MAX_CONNECTIONS of them)
  Layout,     \* the attribute layout of each device
  Offers,     \* which of "svc" and the three characteristics a device has
  None,
  MaxProcs,   \* CONFIG_BT_NIMBLE_GATT_MAX_PROCS
  Calls,      \* which entry points the tasks use
  Faults,     \* which faults may happen
  MaxDisturb  \* bound on the number of faults and operator reconnects

Chars == {"command", "status", "identity"}
Tasks == {"main", "serial", "core"}
Layouts == {Layout[d] : d \in Devices}
Handle == Layouts \cup {None}   \* an attribute handle field, None for 0

ASSUME NoneAssumption ==
  /\ None \notin Devices
  /\ None \notin Handles
  /\ \A d \in Devices : Layout[d] # None
ASSUME OffersAssumption == Offers \in [Devices -> SUBSET (Chars \cup {"svc"})]
ASSUME BoundsAssumption == MaxProcs \in Nat /\ MaxDisturb \in Nat
ASSUME FaultsAssumption ==
  /\ Calls \subseteq {"start", "reconnect", "write"}
  /\ Faults \subseteq {"loss", "connfail", "reset", "refuse", "gatt"}

VARIABLES
  (* s_ble *)
  started, scanning, connecting, conn_handle,
  svc, command_handle, status_handle, identity_handle,
  device,        \* device_id and status by their owner, connected
  (* the NimBLE host and controller *)
  synced,        \* host and controller are in sync
  gap,           \* the one GAP procedure slot
  target,        \* the device whose report or connection is in hand
  peer,          \* the device behind each connection handle
  procs,         \* the outstanding GATT procedures of each connection
  subscribed,    \* whether the peer's status CCCD is set
  terminating,   \* connections ble_gap_terminate was accepted for
  (* control *)
  hpc, hconn,    \* the host task's callback and the connection it is about
  tpc,           \* program counter of each application task
  disturbed

own == <<started, scanning, connecting, conn_handle>>
attrs == <<svc, command_handle, status_handle, identity_handle>>
radio == <<synced, gap, target>>
links == <<peer, procs, subscribed, terminating>>
host == <<hpc, hconn>>
vars == <<own, attrs, device, radio, links, host, tpc, disturbed>>

Ops == Chars \cup {"svc", "read_id", "read_status", "cccd", "write"}
Proc == [op : Ops, at : Handle]

Init ==
  /\ started = FALSE /\ scanning = FALSE /\ connecting = FALSE
  /\ conn_handle = None
  /\ svc = None /\ command_handle = None
  /\ status_handle = None /\ identity_handle = None
  /\ device = [device_id |-> None, status |-> None, connected |-> FALSE]
  /\ synced = FALSE /\ gap = "idle" /\ target = None
  /\ peer = [h \in Handles |-> None]
  /\ procs = [h \in Handles |-> <<>>]
  /\ subscribed = [h \in Handles |-> FALSE]
  /\ terminating = {}
  /\ hpc = "idle" /\ hconn = None
  /\ tpc = [t \in Tasks |-> IF t = "main" THEN "boot" ELSE "idle"]
  /\ disturbed = 0

-----------------------------------------------------------------------------
(* The stack, as the code uses it. *)

Linked == {h \in Handles : peer[h] # None}

PoolUse(ps) == MapThenSumSet(LAMBDA h : Len(ps[h]), Handles)

\* A GATT call is accepted on a live connection while the pool has a
\* procedure left; a link being torn down takes no more calls.
CanCall(ps, h) ==
  /\ synced
  /\ h \in Linked
  /\ ~(hpc = "broken" /\ hconn = h)
  /\ PoolUse(ps) < MaxProcs

\* The pools a GATT call may leave behind.
GattCall(ps, h, op, at) ==
  (IF CanCall(ps, h)
     THEN {[ps EXCEPT ![h] = Append(@, [op |-> op, at |-> at])]}
     ELSE {ps})
  \cup (IF "refuse" \in Faults THEN {ps} ELSE {})

Disturb ==
  /\ disturbed < MaxDisturb
  /\ disturbed' = disturbed + 1

\* The outcomes of start_scan's ble_gap_disc: refused while another GAP
\* procedure runs or the host is not in sync.
DiscAccepted == synced /\ gap = "idle"
DiscRefused == ~DiscAccepted \/ "refuse" \in Faults

-----------------------------------------------------------------------------
(* Synchronisation, scanning and connecting. *)

\* ble_on_sync; without an address type the module stays as it was.
Sync ==
  /\ ~synced /\ hpc = "idle" /\ gap = "idle" /\ Linked = {}
  /\ synced' = TRUE
  /\ \/ started' = TRUE /\ hpc' = "scan"
     \/ "refuse" \in Faults /\ UNCHANGED <<started, hpc>>
  /\ UNCHANGED <<scanning, connecting, conn_handle, attrs, device, gap,
                 target, links, hconn, tpc, disturbed>>

\* The host resets: discovery stops without an event the code handles, the
\* links and a pending connection attempt are failed one after the other.
Reset ==
  /\ "reset" \in Faults /\ Disturb
  /\ synced /\ hpc = "idle"
  /\ synced' = FALSE
  /\ gap' = IF gap = "disc" THEN "idle" ELSE gap
  /\ UNCHANGED <<own, attrs, device, target, links, host, tpc>>

\* Mutant: start_scan trusts the scanning flag, which a reset leaves set.
HostScanOnce ==
  /\ hpc = "scan"
  /\ hpc' = "idle"
  /\ \/ started /\ ~scanning /\ DiscAccepted /\ gap' = "disc" /\ scanning' = TRUE
     \/ (~started \/ scanning \/ DiscRefused) /\ UNCHANGED <<gap, scanning>>
  /\ UNCHANGED <<started, connecting, conn_handle, attrs, device, synced,
                 target, links, hconn, tpc, disturbed>>

\* start_scan as the last step of a host callback.
HostScan ==
  /\ hpc = "scan"
  /\ hpc' = "idle"
  /\ \/ started /\ DiscAccepted /\ gap' = "disc" /\ scanning' = TRUE
     \/ (~started \/ DiscRefused) /\ UNCHANGED <<gap, scanning>>
  /\ UNCHANGED <<started, connecting, conn_handle, attrs, device, synced,
                 target, links, hconn, tpc, disturbed>>

\* BLE_GAP_EVENT_DISC of a device whose name matches, up to the cancel.
AdvReport(d) ==
  /\ hpc = "idle" /\ synced /\ gap = "disc"
  /\ \A h \in Handles : peer[h] # d
  /\ target' = d
  /\ scanning' = FALSE /\ connecting' = TRUE
  /\ hpc' = "cancel"
  /\ UNCHANGED <<started, conn_handle, attrs, device, synced, gap, links,
                 hconn, tpc, disturbed>>

\* ble_gap_disc_cancel frees the procedure slot.
AdvCancel ==
  /\ hpc = "cancel"
  /\ hpc' = "connect"
  /\ gap' = "idle"
  /\ UNCHANGED <<own, attrs, device, synced, target, links, hconn, tpc,
                 disturbed>>

\* ble_gap_connect; when it is refused the handler scans again.
AdvConnect ==
  /\ hpc = "connect"
  /\ \/ /\ gap = "idle" /\ Linked # Handles
        /\ gap' = "conn" /\ hpc' = "idle"
        /\ UNCHANGED <<connecting, target>>
     \/ /\ gap # "idle" \/ Linked = Handles \/ "refuse" \in Faults
        /\ connecting' = FALSE /\ hpc' = "scan" /\ target' = None
        /\ UNCHANGED gap
  /\ UNCHANGED <<started, scanning, conn_handle, attrs, device, synced,
                 links, hconn, tpc, disturbed>>

\* The stack creates the connection and frees the slot, then calls
\* BLE_GAP_EVENT_CONNECT: the code knows the connection from Up on.
ConnectOk(h) ==
  /\ hpc = "idle" /\ synced /\ gap = "conn" /\ h \notin Linked
  /\ gap' = "idle" /\ target' = None
  /\ peer' = [peer EXCEPT ![h] = target]
  /\ hpc' = "up" /\ hconn' = h
  /\ UNCHANGED <<own, attrs, device, synced, procs, subscribed, terminating,
                 tpc, disturbed>>

Up ==
  /\ hpc = "up"
  /\ connecting' = FALSE /\ conn_handle' = hconn
  /\ hpc' = "upflag"
  /\ UNCHANGED <<started, scanning, attrs, device, radio, links, hconn, tpc,
                 disturbed>>

UpFlag ==
  /\ hpc = "upflag"
  /\ device' = [device EXCEPT !.connected = TRUE]
  /\ hpc' = "discover"
  /\ UNCHANGED <<own, attrs, radio, links, hconn, tpc, disturbed>>

\* Mutants: the handles of the last link survive; the scan goes on.
UpDiscoverKeeps ==
  /\ hpc = "discover"
  /\ procs' \in GattCall(procs, conn_handle, "svc", Layout[peer[hconn]])
  /\ hpc' = "idle" /\ hconn' = None
  /\ UNCHANGED <<own, attrs, device, radio, peer, subscribed, terminating, tpc,
                 disturbed>>

UpDiscoverScans ==
  /\ hpc = "discover"
  /\ svc' = None /\ command_handle' = None
  /\ status_handle' = None /\ identity_handle' = None
  /\ procs' \in GattCall(procs, conn_handle, "svc", Layout[peer[hconn]])
  /\ hpc' = "scan" /\ hconn' = None
  /\ UNCHANGED <<own, device, radio, peer, subscribed, terminating, tpc,
                 disturbed>>

\* start_service_discovery.
UpDiscover ==
  /\ hpc = "discover"
  /\ svc' = None /\ command_handle' = None
  /\ status_handle' = None /\ identity_handle' = None
  /\ procs' \in GattCall(procs, conn_handle, "svc", Layout[peer[hconn]])
  /\ hpc' = "idle" /\ hconn' = None
  /\ UNCHANGED <<own, device, radio, peer, subscribed, terminating, tpc,
                 disturbed>>

\* The attempt fails, by itself or because the host resets.
ConnectFail ==
  /\ hpc = "idle" /\ gap = "conn"
  /\ \/ ~synced /\ UNCHANGED disturbed
     \/ synced /\ "connfail" \in Faults /\ Disturb
  /\ gap' = "idle" /\ target' = None
  /\ hpc' = "fail"
  /\ UNCHANGED <<own, attrs, device, synced, links, hconn, tpc>>

\* The stack fails the procedures of a link that broke (ProcFailed), deletes
\* the connection (LinkGone) and then calls BLE_GAP_EVENT_DISCONNECT.
LinkDown(h) ==
  /\ hpc = "idle" /\ h \in Linked
  /\ \/ (~synced \/ h \in terminating) /\ UNCHANGED disturbed
     \/ synced /\ h \notin terminating /\ "loss" \in Faults /\ Disturb
  /\ hpc' = "broken" /\ hconn' = h
  /\ UNCHANGED <<own, attrs, device, radio, links, tpc>>

LinkGone ==
  /\ hpc = "broken" /\ procs[hconn] = <<>>
  /\ peer' = [peer EXCEPT ![hconn] = None]
  /\ subscribed' = [subscribed EXCEPT ![hconn] = FALSE]
  /\ terminating' = terminating \ {hconn}
  /\ hpc' = "down"
  /\ UNCHANGED <<own, attrs, device, radio, procs, hconn, tpc, disturbed>>

\* Mutant: only a failed attempt clears conn_handle.
DownKeeps ==
  /\ hpc \in {"down", "fail"}
  /\ conn_handle' = IF hpc = "fail" THEN None ELSE conn_handle
  /\ connecting' = IF hpc = "fail" THEN FALSE ELSE connecting
  /\ hpc' = "downflag" /\ hconn' = None
  /\ UNCHANGED <<started, scanning, attrs, device, radio, links, tpc,
                 disturbed>>

\* Disconnected or failed to connect: whichever connection it was,
\* conn_handle is cleared, then the flag, then the scan starts.
Down ==
  /\ hpc \in {"down", "fail"}
  /\ conn_handle' = None
  /\ connecting' = IF hpc = "fail" THEN FALSE ELSE connecting
  /\ hpc' = "downflag" /\ hconn' = None
  /\ UNCHANGED <<started, scanning, attrs, device, radio, links, tpc,
                 disturbed>>

\* Mutants: no scan after the link is lost; the flag is forgotten.
DownFlagNoScan ==
  /\ hpc = "downflag"
  /\ device' = [device EXCEPT !.connected = FALSE]
  /\ hpc' = "idle"
  /\ UNCHANGED <<own, attrs, radio, links, hconn, tpc, disturbed>>

DownFlagForgets ==
  /\ hpc = "downflag"
  /\ hpc' = "scan"
  /\ UNCHANGED <<own, attrs, device, radio, links, hconn, tpc, disturbed>>

DownFlag ==
  /\ hpc = "downflag"
  /\ device' = [device EXCEPT !.connected = FALSE]
  /\ hpc' = "scan"
  /\ UNCHANGED <<own, attrs, radio, links, hconn, tpc, disturbed>>
-----------------------------------------------------------------------------
(* GATT procedures: those of a connection are answered in order. *)

\* The procedure at the head has an answer to give: it asks for something
\* the peer has, at the handles the peer has it.
Answerable(h) ==
  LET p == Head(procs[h]) IN
  /\ p.at = Layout[peer[h]]
  /\ p.op \in Chars \cup {"svc"} => p.op \in Offers[peer[h]]

\* The stack runs a callback of the head procedure of h, of kind op.
Answers(h, op) ==
  /\ hpc = "idle" /\ synced /\ h \in Linked
  /\ procs[h] # <<>> /\ Head(procs[h]).op = op /\ Answerable(h)

Popped(ps, h) == [ps EXCEPT ![h] = Tail(@)]
\* A discovery that reported its one result has only its end to report.
Reported(ps, h) == [ps EXCEPT ![h][1].at = None]

\* Mutant: the status is read as soon as its handle is known.
DiscoverNextEarly(ps, range) ==
  IF command_handle = None THEN GattCall(ps, conn_handle, "command", range)
  ELSE IF status_handle = None THEN GattCall(ps, conn_handle, "status", range)
  ELSE IF identity_handle = None THEN
    UNION {GattCall(q, conn_handle, "identity", range) :
             q \in GattCall(ps, conn_handle, "read_status", status_handle)}
  ELSE GattCall(ps, conn_handle, "read_id", identity_handle)

\* discover_next_characteristic within range: the first handle still
\* missing, in the order command, status, identity, and then the identity.
DiscoverNext(ps, range) ==
  LET next == CASE command_handle = None -> "command"
                [] command_handle # None /\ status_handle = None -> "status"
                [] OTHER -> "identity"
  IN IF None \in {command_handle, status_handle, identity_handle}
       THEN GattCall(ps, conn_handle, next, range)
       ELSE GattCall(ps, conn_handle, "read_id", identity_handle)

\* Mutant: the connection handle lands in the attribute handle.
SvcFoundSwapped(h) ==
  /\ Answers(h, "svc")
  /\ svc' = h
  /\ procs' \in DiscoverNext(Reported(procs, h), Layout[peer[h]])
  /\ UNCHANGED <<own, command_handle, status_handle, identity_handle, device,
                 radio, peer, subscribed, terminating, host, tpc, disturbed>>

\* svc_disc_cb with a service: it starts the chain while the service
\* discovery itself is still outstanding.
SvcFound(h) ==
  /\ Answers(h, "svc")
  /\ svc' = Layout[peer[h]]
  /\ procs' \in DiscoverNext(Reported(procs, h), Layout[peer[h]])
  /\ UNCHANGED <<own, command_handle, status_handle, identity_handle, device,
                 radio, peer, subscribed, terminating, host, tpc, disturbed>>

\* chr_disc_cb with a characteristic; whose connection it is goes unchecked.
ChrFound(h) ==
  /\ \E op \in Chars :
       /\ Answers(h, op)
       /\ command_handle' = IF op = "command" THEN Layout[peer[h]]
                                              ELSE command_handle
       /\ status_handle' = IF op = "status" THEN Layout[peer[h]]
                                            ELSE status_handle
       /\ identity_handle' = IF op = "identity" THEN Layout[peer[h]]
                                                ELSE identity_handle
  /\ procs' = Reported(procs, h)
  /\ UNCHANGED <<own, svc, device, radio, peer, subscribed, terminating, host,
                 tpc, disturbed>>

\* A procedure ends without a (further) result: BLE_HS_EDONE, an ATT error,
\* an unusable value, or its link broke.  Only chr_disc_cb goes on, and it
\* does so in every case.
ProcEnds(h) ==
  /\ procs[h] # <<>>
  /\ \/ hpc = "broken" /\ hconn = h /\ UNCHANGED disturbed
     \/ /\ hpc = "idle" /\ synced /\ h \in Linked
        /\ IF Answerable(h) THEN "gatt" \in Faults /\ Disturb
                            ELSE UNCHANGED disturbed
  /\ \E ps \in IF Head(procs[h]).op \in Chars THEN DiscoverNext(procs, svc)
                                              ELSE {procs} :
       procs' = Popped(ps, h)
  /\ UNCHANGED <<own, attrs, device, radio, peer, subscribed, terminating,
                 host, tpc>>

\* Mutant: the identity is recorded with the status, after both calls.
IdentityReadLate(h) ==
  /\ Answers(h, "read_id")
  /\ \E read \in GattCall(procs, conn_handle, "read_status", status_handle) :
       \E both \in GattCall(read, conn_handle, "cccd", status_handle) :
         procs' = Popped(both, h)
  /\ UNCHANGED <<own, attrs, device, radio, peer, subscribed, terminating, host,
                 tpc, disturbed>>

\* read_identity_cb: record the identity, then ask for the status and for
\* notifications, on conn_handle and without looking at either's result.
IdentityRead(h) ==
  /\ Answers(h, "read_id")
  /\ device' = [device EXCEPT !.device_id = peer[h], !.connected = TRUE]
  /\ \E read \in IF status_handle = None THEN {procs}
                 ELSE GattCall(procs, conn_handle, "read_status", status_handle) :
       \E both \in IF status_handle = None THEN {procs}
                   ELSE GattCall(read, conn_handle, "cccd", status_handle) :
         procs' = Popped(both, h)
  /\ UNCHANGED <<own, attrs, radio, peer, subscribed, terminating, host, tpc,
                 disturbed>>

\* read_status_cb: the status of whoever answered.
StatusRead(h) ==
  /\ Answers(h, "read_status")
  /\ device' = [device EXCEPT !.status = peer[h]]
  /\ procs' = Popped(procs, h)
  /\ UNCHANGED <<own, attrs, radio, peer, subscribed, terminating, host, tpc,
                 disturbed>>

\* subscribe_status_cb only logs; the peer has its CCCD set.
CccdWritten(h) ==
  /\ Answers(h, "cccd")
  /\ subscribed' = [subscribed EXCEPT ![h] = TRUE]
  /\ procs' = Popped(procs, h)
  /\ UNCHANGED <<own, attrs, device, radio, peer, terminating, host, tpc,
                 disturbed>>

\* command_write_cb only logs.
CommandWritten(h) ==
  /\ Answers(h, "write")
  /\ procs' = Popped(procs, h)
  /\ UNCHANGED <<own, attrs, device, radio, peer, subscribed, terminating,
                 host, tpc, disturbed>>

\* BLE_GAP_EVENT_NOTIFY_RX: the attribute handle is compared, the connection
\* is not.
Notify(h) ==
  /\ hpc = "idle" /\ synced /\ h \in Linked /\ subscribed[h]
  /\ status_handle = Layout[peer[h]]
  /\ device' = [device EXCEPT !.status = peer[h]]
  /\ UNCHANGED <<own, attrs, radio, links, host, tpc, disturbed>>

-----------------------------------------------------------------------------
(* The application tasks. *)

Goes(t, from, to) == tpc[t] = from /\ tpc' = [tpc EXCEPT ![t] = to]

\* ble_smartreef_start, called once at the end of the boot sequence.
Start ==
  /\ "start" \in Calls
  /\ Goes("main", "boot",
          IF started /\ ~scanning /\ conn_handle = None THEN "scan" ELSE "idle")
  /\ UNCHANGED <<own, attrs, device, radio, links, host, disturbed>>

\* ble_smartreef_reconnect: terminate the link, or scan.
Reconnect ==
  /\ "reconnect" \in Calls /\ Disturb
  /\ Goes("serial", "idle", IF conn_handle # None THEN "terminate" ELSE "scan")
  /\ UNCHANGED <<own, attrs, device, radio, links, host>>

\* ble_gap_terminate of whatever conn_handle is by now.
Terminate(t) ==
  /\ Goes(t, "terminate", "idle")
  /\ terminating' = terminating \cup
       (IF synced /\ ~(hpc = "broken" /\ hconn = conn_handle)
          THEN {conn_handle} \cap Linked ELSE {})
  /\ UNCHANGED <<own, attrs, device, radio, peer, procs, subscribed, host,
                 disturbed>>

\* start_scan in an application task; the flag is set after the call.
TaskScan(t) ==
  /\ \/ Goes(t, "scan", "flag") /\ started /\ DiscAccepted /\ gap' = "disc"
     \/ Goes(t, "scan", "idle") /\ (~started \/ DiscRefused) /\ UNCHANGED gap
  /\ UNCHANGED <<own, attrs, device, synced, target, links, host, disturbed>>

TaskFlag(t) ==
  /\ Goes(t, "flag", "idle")
  /\ scanning' = TRUE
  /\ UNCHANGED <<started, connecting, conn_handle, attrs, device, radio, links,
                 host, disturbed>>

\* ble_smartreef_write_command: the check, and later the write, which reads
\* both handles again.
WriteCheck(t) ==
  /\ "write" \in Calls /\ t # "main"
  /\ conn_handle # None /\ command_handle # None
  /\ Goes(t, "idle", "write")
  /\ UNCHANGED <<own, attrs, device, radio, links, host, disturbed>>

Write(t) ==
  /\ Goes(t, "write", "idle")
  /\ procs' \in GattCall(procs, conn_handle, "write", command_handle)
  /\ UNCHANGED <<own, attrs, device, radio, peer, subscribed, terminating,
                 host, disturbed>>

-----------------------------------------------------------------------------
HostStep ==
  HostScan \/ AdvCancel \/ AdvConnect \/ Up \/ UpFlag \/ UpDiscover
  \/ LinkGone \/ Down \/ DownFlag
GapEvent == (\E d \in Devices : AdvReport(d)) \/ ConnectFail
            \/ \E h \in Handles : ConnectOk(h) \/ LinkDown(h)
GattEvent(h) ==
  SvcFound(h) \/ ChrFound(h) \/ ProcEnds(h) \/ IdentityRead(h)
  \/ StatusRead(h) \/ CccdWritten(h) \/ CommandWritten(h)
TaskStep(t) == Terminate(t) \/ TaskScan(t) \/ TaskFlag(t) \/ Write(t)

Next ==
  \/ Sync \/ Reset \/ HostStep \/ GapEvent
  \/ \E h \in Handles : GattEvent(h) \/ Notify(h)
  \/ Start \/ Reconnect
  \/ \E t \in Tasks : TaskStep(t) \/ WriteCheck(t)

Spec == Init /\ [][Next]_vars

\* The scheduler runs every task that has a call in progress, the host task
\* finishes its callbacks, the controller syncs, devices keep advertising, a
\* connection attempt may not fail for ever, and outstanding procedures are
\* answered or fail.  Faults and operator commands are never forced.
Fairness ==
  /\ WF_vars(Sync)
  /\ WF_vars(HostStep)
  /\ \A t \in Tasks : WF_vars(TaskStep(t))
  /\ WF_vars(Start)
  /\ SF_vars(\E d \in Devices : AdvReport(d))
  /\ SF_vars(\E h \in Handles : ConnectOk(h))
  /\ \A h \in Handles :
       /\ SF_vars(GattEvent(h))
       /\ SF_vars(LinkDown(h) /\ UNCHANGED disturbed)
  /\ SF_vars(ConnectFail /\ UNCHANGED disturbed)
  /\ \A h \in Handles : WF_vars(hpc = "broken" /\ ProcEnds(h))

FairSpec == Spec /\ Fairness

-----------------------------------------------------------------------------
(* Properties. *)

TypeOwn ==
  /\ started \in BOOLEAN /\ scanning \in BOOLEAN /\ connecting \in BOOLEAN
  /\ conn_handle \in Handles \cup {None}
  /\ {svc, command_handle, status_handle, identity_handle} \subseteq Handle
  /\ device \in [device_id : Devices \cup {None}, status : Devices \cup {None},
                 connected : BOOLEAN]

TypeStack ==
  /\ synced \in BOOLEAN /\ gap \in {"idle", "disc", "conn"}
  /\ target \in Devices \cup {None}
  /\ peer \in [Handles -> Devices \cup {None}]
  /\ procs \in [Handles -> Seq(Proc)]
  /\ subscribed \in [Handles -> BOOLEAN]
  /\ terminating \subseteq Handles

TypeControl ==
  /\ hpc \in {"idle", "scan", "cancel", "connect", "up", "upflag", "discover",
              "broken", "down", "fail", "downflag"}
  /\ hconn \in Handles \cup {None}
  /\ tpc \in [Tasks -> {"boot", "idle", "scan", "flag", "terminate", "write"}]
  /\ disturbed \in 0 .. MaxDisturb

\* Every variable keeps to its values: the code's own state, the stack's, and
\* the control state of the tasks.
TypeOK == TypeOwn /\ TypeStack /\ TypeControl

\* As long as ble_gap_disc and ble_gap_connect are refused only for the
\* reasons the code can see coming, the module never sits unlinked with no
\* GAP procedure running: every way out of a connection, attempt or report
\* ends in a scan or in an attempt (gap_event and start_scan).
SearchesWhenUnlinked ==
  started /\ synced /\ hpc = "idle" /\ conn_handle = None => gap # "idle"

\* conn_handle is never left naming a connection the stack has deleted,
\* except between the deletion and the DISCONNECT handler's first assignment.
ConnHandleLive ==
  conn_handle # None =>
    \/ conn_handle \in Linked
    \/ hpc = "down" /\ hconn = conn_handle

\* The gateway serves one device: at most one connection exists, and it is
\* the one conn_handle names once its CONNECT event is handled.
OneLink ==
  /\ \A g, h \in Linked : g = h
  /\ hpc = "idle" => \A h \in Linked : conn_handle = h

\* Between callbacks the record's connected flag agrees with conn_handle,
\* the one the core reads with the one the write path checks.
FlagAgrees == hpc = "idle" => (device.connected <=> conn_handle # None)

\* Once discovery of a new link has begun, every attribute handle kept
\* belongs to the device at the other end, not to the link before.
HandlesOfThisLink ==
  hpc = "idle" => \A h \in Linked :
    {svc, command_handle, status_handle, identity_handle}
      \subseteq {None, Layout[peer[h]]}

\* A device is subscribed to, and its status asked for, only after its own
\* identity is on record: what it reports is never filed under another id.
IdentityBeforeStatus ==
  \A h \in Linked :
    (subscribed[h] \/ \E i \in 1 .. Len(procs[h]) :
                        procs[h][i].op \in {"read_status", "cccd"})
    => device.device_id = peer[h]

\* A command write under way goes to the command characteristic of the
\* device it is sent to.
WritesHitCommand ==
  \A h \in Linked : \A i \in 1 .. Len(procs[h]) :
    procs[h][i].op = "write" => procs[h][i].at = Layout[peer[h]]

\* The identity on record changes only to that of the device that conn_handle
\* names, and no status is taken from a device other than the one on record.
RecordFollowsLink ==
  [][ /\ device'.device_id # device.device_id =>
           conn_handle \in Linked /\ device'.device_id = peer[conn_handle]
      /\ device'.status # device.status =>
           device'.status = device.device_id ]_vars

\* The link the rest of the firmware sees: it exists from the moment
\* conn_handle names it until the stack deletes the connection.
Link == INSTANCE BleLink WITH
  link <- IF conn_handle \in Linked THEN peer[conn_handle] ELSE None

\* With no scan started beside the host task, the module implements BleLink:
\* every step of the handshake, the teardown and the write path is a step of
\* the abstract link or invisible to it.
ImplementsLink == Link!LinkSpec

Served ==
  /\ conn_handle \in Linked
  /\ device.connected
  /\ device.device_id = peer[conn_handle]
  /\ device.status = peer[conn_handle]
  /\ subscribed[conn_handle]

\* After the last disturbance the gateway gets a device, identifies it,
\* has its status and is subscribed to it, for good: losses, failed attempts
\* and host resets are all recovered from.
Resubscribes == <>[]Served
=============================================================================
