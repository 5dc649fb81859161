---------------------------- MODULE GatewayLoop ----------------------------
(***************************************************************************)
(* gateway_task of main/gateway_core.c and its three timers.  One pass of  *)
(* the loop samples the clock, the device record and the WiFi flag once,   *)
(* and then works with the samples, although a poll with its report and an *)
(* upload block the task for as long as their requests take.               *)
(*                                                                         *)
(* Time passes while the task is blocked in a request or in vTaskDelay;    *)
(* what it does in between takes none.  Device and WiFi come and go at any *)
(* moment.                                                                 *)
(***************************************************************************)
EXTENDS Naturals, Sequences

CONSTANTS
  PollInterval,       \* GATEWAY_CMD_POLL_INTERVAL_MS
  UploadInterval,     \* GATEWAY_UPLOAD_INTERVAL_MS
  ReconnectInterval,  \* 10000
  Delay,              \* the 100 ms between passes
  Timeout,            \* the longest one request may take
  MaxBoot,            \* the longest the boot sequence may take
  MaxTime,            \* bound on the clock
  MaxChange           \* bound on the changes of device and WiFi

ASSUME LoopAssumption ==
  /\ PollInterval \in Nat \ {0} /\ UploadInterval \in Nat \ {0}
  /\ ReconnectInterval \in Nat \ {0} /\ Delay \in Nat \ {0}
  /\ Timeout \in Nat
  /\ MaxBoot \in Nat /\ MaxTime \in Nat /\ MaxChange \in Nat

VARIABLES
  now,                \* esp_timer_get_time() / 1000
  wifi, present, valid,  \* WiFi, a connected device, a status of it
  last_poll_ms, last_upload_ms, last_wifi_reconnect_ms,
  now_ms, wifi_connected, has_device, has_status,   \* the samples
  pc,                 \* where the task is
  left,               \* how long it may or must stay blocked there
  served, offline,    \* since when device and WiFi, or no WiFi, go without a gap
  polled, reconnected,   \* when the last poll, the last reconnect was begun
  uploads,            \* when each upload was begun
  changes

world == <<wifi, present, valid, served, offline, changes>>
stamps == <<last_poll_ms, last_upload_ms, last_wifi_reconnect_ms>>
samples == <<now_ms, wifi_connected, has_device, has_status>>
history == <<polled, reconnected, uploads>>
vars == <<now, world, stamps, samples, pc, left, history>>

\* The stamps start at 0, the task when the boot sequence is through.
Init ==
  /\ now \in 0 .. MaxBoot
  /\ wifi \in BOOLEAN /\ present \in BOOLEAN /\ valid \in BOOLEAN
  /\ last_poll_ms = 0 /\ last_upload_ms = 0 /\ last_wifi_reconnect_ms = 0
  /\ now_ms = 0 /\ wifi_connected = FALSE
  /\ has_device = FALSE /\ has_status = FALSE
  /\ pc = "sample" /\ left = 0
  /\ served = now /\ offline = now
  /\ polled = 0 /\ reconnected = 0 /\ uploads = <<>>
  /\ changes = 0

-----------------------------------------------------------------------------
(* The world around the task. *)

Requests == {"poll_request", "report_request", "upload_request"}

Tick ==
  /\ pc \in Requests \cup {"delay"} /\ left > 0 /\ now < MaxTime
  /\ now' = now + 1 /\ left' = left - 1
  /\ UNCHANGED <<world, stamps, samples, pc, history>>

\* served and offline are counted from the last change that broke them.
Change ==
  /\ changes < MaxChange /\ changes' = changes + 1
  /\ \/ wifi' = ~wifi /\ UNCHANGED <<present, valid>>
     \/ present' = ~present /\ UNCHANGED <<wifi, valid>>
     \/ present /\ ~valid /\ valid' = TRUE /\ UNCHANGED <<wifi, present>>
  /\ served' = IF wifi /\ present /\ wifi' /\ present' THEN served ELSE now
  /\ offline' = IF ~wifi /\ ~wifi' THEN offline ELSE now
  /\ UNCHANGED <<now, stamps, samples, pc, left, history>>

-----------------------------------------------------------------------------
(* One pass of the loop. *)

Goes(from, to) == pc = from /\ pc' = to

Sample ==
  /\ Goes("sample", "reconnect")
  /\ now_ms' = now /\ wifi_connected' = wifi
  /\ has_device' = present /\ has_status' = valid
  /\ UNCHANGED <<now, world, stamps, left, history>>

ReconnectDue ==
  ~wifi_connected /\ now_ms - last_wifi_reconnect_ms >= ReconnectInterval

\* Mutant: the stamp is set whenever WiFi is found down.
ReconnectPostponed ==
  /\ Goes("reconnect", "poll")
  /\ last_wifi_reconnect_ms' =
       IF ~wifi_connected THEN now_ms ELSE last_wifi_reconnect_ms
  /\ reconnected' = IF ReconnectDue THEN now ELSE reconnected
  /\ UNCHANGED <<now, world, last_poll_ms, last_upload_ms, samples, left,
                 polled, uploads>>

\* wifi_manager_reconnect does not wait for the connection.
Reconnect ==
  /\ Goes("reconnect", "poll")
  /\ last_wifi_reconnect_ms' =
       IF ReconnectDue THEN now_ms ELSE last_wifi_reconnect_ms
  /\ reconnected' = IF ReconnectDue THEN now ELSE reconnected
  /\ UNCHANGED <<now, world, last_poll_ms, last_upload_ms, samples, left,
                 polled, uploads>>

\* Mutant: polling waits for a status, as uploading does.
PollDueWithStatus ==
  /\ wifi_connected /\ has_device /\ has_status
  /\ now_ms - last_poll_ms >= PollInterval

PollDue ==
  wifi_connected /\ has_device /\ now_ms - last_poll_ms >= PollInterval

\* The stamp is set first; gateway_core_poll_now looks at device and WiFi
\* again and may make no request at all.
Poll ==
  /\ IF PollDue
       THEN /\ Goes("poll", IF wifi /\ present THEN "poll_request" ELSE "upload")
            /\ last_poll_ms' = now_ms
            /\ polled' = now
       ELSE Goes("poll", "upload") /\ UNCHANGED <<last_poll_ms, polled>>
  /\ left' = IF pc' = "poll_request" THEN Timeout ELSE 0
  /\ UNCHANGED <<now, world, last_upload_ms, last_wifi_reconnect_ms, samples,
                 reconnected, uploads>>

\* Mutant: the report may take what the poll has left as well.
PollEndsAdds ==
  /\ \/ Goes("poll_request", "report_request") /\ left' = left + Timeout
     \/ Goes("poll_request", "upload") /\ left' = 0
  /\ UNCHANGED <<now, world, stamps, samples, history>>

\* The poll ends: with a command, whose result is reported, or without.
PollEnds ==
  /\ \/ Goes("poll_request", "report_request") /\ left' = Timeout
     \/ Goes("poll_request", "upload") /\ left' = 0
  /\ UNCHANGED <<now, world, stamps, samples, history>>

ReportEnds ==
  /\ Goes("report_request", "upload") /\ left' = 0
  /\ UNCHANGED <<now, world, stamps, samples, history>>

UploadDue ==
  /\ wifi_connected /\ has_device /\ has_status
  /\ now_ms - last_upload_ms >= UploadInterval

\* Mutant: the stamp moves on by the interval, so that late uploads are made
\* up for.
UploadCatchesUp ==
  /\ IF UploadDue
       THEN /\ Goes("upload", IF wifi /\ present /\ valid THEN "upload_request"
                                                         ELSE "delay")
            /\ last_upload_ms' = last_upload_ms + UploadInterval
            /\ uploads' = Append(uploads, now)
       ELSE Goes("upload", "delay") /\ UNCHANGED <<last_upload_ms, uploads>>
  /\ left' = IF pc' = "upload_request" THEN Timeout ELSE Delay
  /\ UNCHANGED <<now, world, last_poll_ms, last_wifi_reconnect_ms, samples,
                 polled, reconnected>>

\* The stamp is the sample, although a poll and its report may have taken
\* their time since; gateway_core_upload_now looks at everything again.
Upload ==
  /\ IF UploadDue
       THEN /\ Goes("upload", IF wifi /\ present /\ valid THEN "upload_request"
                                                         ELSE "delay")
            /\ last_upload_ms' = now_ms
            /\ uploads' = Append(uploads, now)
       ELSE Goes("upload", "delay") /\ UNCHANGED <<last_upload_ms, uploads>>
  /\ left' = IF pc' = "upload_request" THEN Timeout ELSE Delay
  /\ UNCHANGED <<now, world, last_poll_ms, last_wifi_reconnect_ms, samples,
                 polled, reconnected>>

UploadEnds ==
  /\ Goes("upload_request", "delay") /\ left' = Delay
  /\ UNCHANGED <<now, world, stamps, samples, history>>

DelayEnds ==
  /\ left = 0
  /\ Goes("delay", "sample")
  /\ UNCHANGED <<now, world, stamps, samples, left, history>>

-----------------------------------------------------------------------------
Pass == Sample \/ Reconnect \/ Poll \/ PollEnds \/ ReportEnds \/ Upload
        \/ UploadEnds \/ DelayEnds
Next == Tick \/ Change \/ Pass
Spec == Init /\ [][Next]_vars

-----------------------------------------------------------------------------
(* Properties. *)

Later(s, t) == IF s < t THEN t ELSE s

\* Every variable keeps to its values.
TypeOK ==
  /\ now \in Nat
  /\ {wifi, present, valid, wifi_connected, has_device, has_status}
       \subseteq BOOLEAN
  /\ {last_poll_ms, last_upload_ms, last_wifi_reconnect_ms, now_ms, served,
      offline, polled, reconnected} \subseteq Nat
  /\ uploads \in Seq(Nat)
  /\ pc \in {"sample", "reconnect", "poll", "upload", "delay"} \cup Requests
  /\ left \in 0 .. Later(Timeout, Delay)
  /\ changes \in 0 .. MaxChange

\* Lateness is not made up for in a burst.  Two polls, and two reconnects, are
\* an interval apart.  Two uploads need not be, since an upload behind a slow
\* poll is stamped with the time before it: then the next one may follow after
\* the delay alone.  But never a third: between an upload and any later one
\* there is an interval for each upload in between, and the delay.
RateKept ==
  [][/\ polled' # polled => polled' - polled >= PollInterval
     /\ reconnected' # reconnected => reconnected' - reconnected >= ReconnectInterval
     /\ uploads' # uploads =>
          \A i \in 1 .. Len(uploads) :
            now - uploads[i] >= (Len(uploads) - i) * UploadInterval + Delay]_vars

\* As long as device and WiFi are there, a poll follows the last one, or
\* their arrival, after one pass with all three requests at the latest, or,
\* if it was not due yet, after the interval and the upload of one pass.
PollInTime ==
  wifi /\ present =>
    now - Later(polled, served)
      <= Later(PollInterval - 1, 2 * Timeout) + Timeout + Delay

\* While WiFi is down, a reconnect follows the last one within its interval,
\* or the loss at the end of the pass it fell into, which makes no request
\* beyond a poll and its report.
ReconnectInTime ==
  ~wifi =>
    now - Later(reconnected, offline)
      <= Later(ReconnectInterval - 1, 2 * Timeout) + Delay
=============================================================================
