------------------------------ MODULE BleLink ------------------------------
(***************************************************************************)
(* What ble_smartreef.c promises the rest of the firmware about one link:  *)
(* which device conn_handle reaches, and how the shared device record      *)
(* follows it.  The record lags behind the link: the connected flag is set *)
(* before the new device's identity is known, and identity and status      *)
(* outlive the link they were read over.                                   *)
(***************************************************************************)
CONSTANTS Devices, None

ASSUME NoneIsNoDevice == None \notin Devices

VARIABLES
  link,    \* the device at the other end, None without a link
  device   \* gateway_device_t: device_id, whose status it holds, connected

linkVars == <<link, device>>

LinkInit ==
  /\ link = None
  /\ device = [device_id |-> None, status |-> None, connected |-> FALSE]

\* A link comes up; the record still shows the one before.
LinkUp(d) ==
  /\ link = None /\ ~device.connected
  /\ link' = d
  /\ UNCHANGED device

\* with_device_update_connected(true), before anything is known.
FlagUp ==
  /\ link # None
  /\ device' = [device EXCEPT !.connected = TRUE]
  /\ UNCHANGED link

\* read_identity_cb.
Identify ==
  /\ link # None /\ device.connected
  /\ device' = [device EXCEPT !.device_id = link]
  /\ UNCHANGED link

\* read_status_cb and BLE_GAP_EVENT_NOTIFY_RX, once the device is identified.
TakeStatus ==
  /\ link # None /\ device.device_id = link /\ device.connected
  /\ device' = [device EXCEPT !.status = link]
  /\ UNCHANGED link

\* The link breaks; conn_handle and the flag follow later.
LinkLost ==
  /\ link # None
  /\ link' = None
  /\ UNCHANGED device

\* with_device_update_connected(false).
FlagDown ==
  /\ link = None
  /\ device' = [device EXCEPT !.connected = FALSE]
  /\ UNCHANGED link

LinkNext ==
  \/ \E d \in Devices : LinkUp(d)
  \/ FlagUp \/ Identify \/ TakeStatus \/ LinkLost \/ FlagDown

LinkSpec == LinkInit /\ [][LinkNext]_linkVars
=============================================================================
