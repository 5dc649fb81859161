------------------------- MODULE GatewayLoop_proofs -------------------------
(***************************************************************************)
(* Proofs about GatewayLoop, for every interval, delay and timeout and for *)
(* every bound on clock and changes.                                       *)
(***************************************************************************)
EXTENDS GatewayLoop, TLAPS

\* TypeOK conjunct by conjunct, as the provers want it.
Types ==
  /\ now \in Nat /\ now_ms \in Nat /\ served \in Nat /\ offline \in Nat
  /\ last_poll_ms \in Nat /\ last_upload_ms \in Nat
  /\ last_wifi_reconnect_ms \in Nat
  /\ polled \in Nat /\ reconnected \in Nat /\ uploads \in Seq(Nat)
  /\ wifi \in BOOLEAN /\ present \in BOOLEAN /\ valid \in BOOLEAN
  /\ wifi_connected \in BOOLEAN /\ has_device \in BOOLEAN
  /\ has_status \in BOOLEAN
  /\ pc \in {"sample", "reconnect", "poll", "upload", "delay"} \cup Requests
  /\ left \in 0 .. Later(Timeout, Delay)
  /\ changes \in 0 .. MaxChange

\* What lies in the past, and what a stamp stands for: no time passes between
\* the sample and the start of a poll or a reconnect.
Past ==
  /\ now_ms <= now /\ served <= now /\ offline <= now
  /\ last_poll_ms <= now_ms /\ last_upload_ms <= now_ms
  /\ last_wifi_reconnect_ms <= now_ms
  /\ polled = last_poll_ms /\ reconnected = last_wifi_reconnect_ms
  /\ pc \in {"reconnect", "poll"} => now = now_ms

Clock == Types /\ Past

\* At power-up everything but the clock is 0.
LEMMA ClockInit == Init => Clock
<1> SUFFICES ASSUME Init PROVE Clock
  OBVIOUS
<1>1. now \in Nat /\ 0 \in 0 .. Later(Timeout, Delay) /\ 0 \in 0 .. MaxChange
  BY LoopAssumption DEF Init, Later
<1>2. Types
  <2>1. uploads \in Seq(Nat)
    BY DEF Init
  <2> QED
    BY <1>1, <2>1 DEF Init, Types
<1>3. Past
  BY <1>1 DEF Init, Past
<1> QED
  BY <1>2, <1>3 DEF Clock

(* Each step keeps the types and the order of the clocks. *)
LEMMA ClockStep ==
  ASSUME Clock, [Next]_vars
  PROVE  Clock'
<1> USE LoopAssumption
        DEF Clock, Types, Past, Later, Goes, Requests, world, stamps, samples,
            history
<1>1. CASE Tick
  BY <1>1 DEF Tick
<1>2. CASE Change
  <2>1. wifi' \in BOOLEAN /\ present' \in BOOLEAN /\ valid' \in BOOLEAN
    BY <1>2 DEF Change
  <2>2. served' \in {served, now} /\ offline' \in {offline, now}
    BY <1>2 DEF Change
  <2>3. changes' = changes + 1 /\ changes < MaxChange
    BY <1>2 DEF Change
  <2>4. UNCHANGED <<now, stamps, samples, pc, left, history>>
    BY <1>2 DEF Change
  <2> QED
    BY <2>1, <2>2, <2>3, <2>4
<1>3. CASE Sample
  BY <1>3 DEF Sample
<1>4. CASE Reconnect
  BY <1>4 DEF Reconnect, ReconnectDue
<1>5. CASE Poll
  BY <1>5 DEF Poll, PollDue
<1>6. CASE PollEnds \/ ReportEnds \/ UploadEnds
  <2>1. CASE PollEnds
    BY <2>1 DEF PollEnds
  <2>2. CASE ReportEnds
    BY <2>2 DEF ReportEnds
  <2>3. CASE UploadEnds
    BY <2>3 DEF UploadEnds
  <2> QED
    BY <1>6, <2>1, <2>2, <2>3
<1>7. CASE Upload
  <2>1. Append(uploads, now) \in Seq(Nat)
    OBVIOUS
  <2>2. uploads' \in Seq(Nat) /\ last_upload_ms' \in {last_upload_ms, now_ms}
    BY <1>7, <2>1 DEF Upload
  <2>3. /\ left' \in {Timeout, Delay} /\ pc' \in {"upload_request", "delay"}
        /\ UNCHANGED <<now, world, last_poll_ms, last_wifi_reconnect_ms, samples,
                       polled, reconnected>>
    BY <1>7 DEF Upload
  <2> QED
    BY <2>2, <2>3
<1>8. CASE DelayEnds
  BY <1>8 DEF DelayEnds
<1>9. CASE UNCHANGED vars
  BY <1>9 DEF vars
<1> QED
  BY <1>1, <1>2, <1>3, <1>4, <1>5, <1>6, <1>7, <1>8, <1>9 DEF Next, Pass

\* The samples and stamps of gateway_task never run ahead of the clock, and a
\* stamp is the moment at which its poll or reconnect was begun.
THEOREM ClockInvariance == Spec => []Clock
<1>1. Clock /\ [Next]_vars => Clock'
  BY ClockStep
<1> QED
  BY <1>1, ClockInit, PTL DEF Spec

\* Every variable keeps to its values; no request keeps the task blocked for
\* longer than its own timeout.
THEOREM TypeCorrect == Spec => []TypeOK
<1>1. Clock => TypeOK
  BY DEF Clock, Types, TypeOK
<1> QED
  BY <1>1, ClockInvariance, PTL

-----------------------------------------------------------------------------
(* The rate. *)

\* Of the uploads so far, the last was begun the delay before this pass, or in
\* it; those before it lie the delay and an interval each before its stamp,
\* whatever lay between that stamp and its beginning.
SpacedInv ==
  \A i \in 1 .. Len(uploads) :
    /\ uploads[i] <= now
    /\ i < Len(uploads) =>
         uploads[i] + (Len(uploads) - i - 1) * UploadInterval + Delay <= last_upload_ms
    /\ pc = "sample" => uploads[i] + Delay <= now
    /\ pc \notin {"sample", "upload_request", "delay"} => uploads[i] + Delay <= now_ms
    /\ pc = "delay" => uploads[i] + Delay <= now + left

\* One more interval.
LEMMA OneMore ==
  ASSUME NEW k \in Nat, NEW interval \in Nat
  PROVE  (k + 1) * interval = k * interval + interval /\ k * interval \in Nat
OBVIOUS

(* When an upload is due, every earlier one has the intervals behind it. *)
LEMMA DueIsSpaced ==
  ASSUME Clock, SpacedInv, pc = "upload", UploadDue, NEW i \in 1 .. Len(uploads)
  PROVE  uploads[i] + (Len(uploads) - i) * UploadInterval + Delay <= now_ms
<1> DEFINE n == Len(uploads)
<1>1. /\ n \in Nat /\ uploads[i] \in Nat /\ now_ms \in Nat /\ last_upload_ms \in Nat
      /\ Delay \in Nat /\ UploadInterval \in Nat
  BY LoopAssumption DEF Clock, Types
<1>2. CASE i = n
  <2>1. n - i = 0 /\ 0 * UploadInterval = 0
    BY <1>1, <1>2
  <2>2. uploads[i] + Delay <= now_ms
    BY DEF SpacedInv
  <2> QED
    BY <1>1, <2>1, <2>2
<1>3. CASE i < n
  <2> DEFINE k == n - i - 1
  <2>1. k \in Nat /\ n - i = k + 1
    BY <1>1, <1>3
  <2>2. uploads[i] + k * UploadInterval + Delay <= last_upload_ms
    BY <1>3 DEF SpacedInv
  <2>3. (k + 1) * UploadInterval = k * UploadInterval + UploadInterval
        /\ k * UploadInterval \in Nat
    BY <1>1, <2>1, OneMore
  <2>4. now_ms - last_upload_ms >= UploadInterval
    BY DEF UploadDue
  <2> HIDE DEF k
  <2>5. uploads[i] + (k * UploadInterval + UploadInterval) + Delay <= now_ms
    BY <1>1, <2>2, <2>3, <2>4
  <2> QED
    BY <2>1, <2>3, <2>5
<1> QED
  BY <1>1, <1>2, <1>3

(* Every step keeps what lies between the uploads. *)
LEMMA SpacedStep ==
  ASSUME Clock, SpacedInv, [Next]_vars
  PROVE  SpacedInv'
<1> USE LoopAssumption
<1>1. CASE Upload /\ UploadDue
  <2>1. /\ uploads' = Append(uploads, now) /\ last_upload_ms' = now_ms /\ now' = now
        /\ pc = "upload" /\ pc' \in {"upload_request", "delay"}
        /\ pc' = "delay" => left' = Delay
    BY <1>1 DEF Upload, Goes
  <2>2. /\ Len(uploads) \in Nat /\ Len(uploads') = Len(uploads) + 1
        /\ \A i \in 1 .. Len(uploads) : uploads'[i] = uploads[i]
        /\ uploads'[Len(uploads) + 1] = now
    BY <2>1 DEF Clock, Types
  <2> SUFFICES ASSUME NEW i \in 1 .. Len(uploads')
               PROVE  /\ uploads'[i] <= now
                      /\ i < Len(uploads') =>
                           uploads'[i] + (Len(uploads') - i - 1) * UploadInterval + Delay
                             <= now_ms
                      /\ pc' = "delay" => uploads'[i] + Delay <= now + Delay
    BY <2>1 DEF SpacedInv
  <2>3. CASE i = Len(uploads) + 1
    BY <2>2, <2>3 DEF Clock, Types
  <2>4. CASE i \in 1 .. Len(uploads)
    <3>1. uploads[i] + (Len(uploads) - i) * UploadInterval + Delay <= now_ms
      BY <1>1, <2>1, <2>4, DueIsSpaced
    <3>2. uploads'[i] = uploads[i] /\ Len(uploads') - i - 1 = Len(uploads) - i
      BY <2>2, <2>4
    <3>3. uploads[i] <= now /\ uploads[i] \in Nat /\ now \in Nat
      BY <2>4 DEF SpacedInv, Clock, Types
    <3>4. uploads'[i] + (Len(uploads') - i - 1) * UploadInterval + Delay <= now_ms
      BY <3>1, <3>2, Zenon
    <3>5. Delay \in Nat /\ uploads'[i] \in Nat /\ uploads'[i] <= now
      BY <3>2, <3>3
    <3>6. pc' = "delay" => uploads'[i] + Delay <= now + Delay
      BY <3>3, <3>5
    <3> QED
      BY <3>4, <3>5, <3>6, Zenon
  <2> QED
    BY <2>2, <2>3, <2>4
<1>2. ASSUME UNCHANGED <<uploads, last_upload_ms>>, now' \in Nat, now <= now',
             pc' = "sample" =>
               \/ pc = "sample" /\ now' = now
               \/ pc = "delay" /\ now' = now + left,
             pc' \notin {"sample", "upload_request", "delay"} =>
               \/ pc = "sample" /\ now_ms' = now
               \/ pc \notin {"sample", "upload_request", "delay"} /\ now_ms' = now_ms,
             pc' = "delay" =>
               \/ pc = "delay" /\ now' + left' = now + left
               \/ left' = Delay /\ now' = now
      PROVE  SpacedInv'
  <2> SUFFICES ASSUME NEW i \in 1 .. Len(uploads)
               PROVE  /\ uploads[i] <= now'
                      /\ pc' = "sample" => uploads[i] + Delay <= now'
                      /\ pc' \notin {"sample", "upload_request", "delay"} =>
                           uploads[i] + Delay <= now_ms'
                      /\ pc' = "delay" => uploads[i] + Delay <= now' + left'
    BY <1>2 DEF SpacedInv
  <2>1. uploads[i] \in Nat /\ now \in Nat /\ Delay \in Nat
    BY DEF Clock, Types
  <2>2. /\ uploads[i] <= now
        /\ pc = "sample" => uploads[i] + Delay <= now
        /\ pc \notin {"sample", "upload_request", "delay"} => uploads[i] + Delay <= now_ms
        /\ pc = "delay" => uploads[i] + Delay <= now + left
    BY DEF SpacedInv
  <2>3. uploads[i] <= now'
    BY <1>2, <2>1, <2>2
  <2>4. pc' = "sample" => uploads[i] + Delay <= now'
    BY <1>2, <2>2
  <2>5. pc' \notin {"sample", "upload_request", "delay"} => uploads[i] + Delay <= now_ms'
    BY <1>2, <2>2
  <2>6. pc' = "delay" => uploads[i] + Delay <= now' + left'
    BY <1>2, <2>1, <2>2
  <2> QED
    BY <2>3, <2>4, <2>5, <2>6
<1> USE DEF Clock, Types, Goes, Requests
<1>3. CASE Tick
  BY <1>2, <1>3 DEF Tick, stamps, history, samples
<1>4. CASE Change \/ UNCHANGED vars
  BY <1>2, <1>4 DEF Change, vars, stamps, history, samples
<1>5. CASE Sample
  BY <1>2, <1>5 DEF Sample, stamps, history
<1>6. CASE Reconnect \/ Poll
  BY <1>2, <1>6 DEF Reconnect, Poll, samples
<1>7. CASE PollEnds \/ ReportEnds \/ UploadEnds
  BY <1>2, <1>7 DEF PollEnds, ReportEnds, UploadEnds, stamps, history, samples
<1>8. CASE Upload /\ ~UploadDue
  BY <1>2, <1>8 DEF Upload, samples
<1>9. CASE DelayEnds
  BY <1>2, <1>9 DEF DelayEnds, stamps, history, samples
<1> QED
  BY <1>1, <1>3, <1>4, <1>5, <1>6, <1>7, <1>8, <1>9 DEF Next, Pass

\* However long requests block the task and however device and WiFi come and
\* go, two polls and two reconnects are an interval apart, and of three uploads
\* the first and the last are.
THEOREM RateIsKept == Spec => RateKept
<1> DEFINE Spaced ==
      /\ polled' # polled => polled' - polled >= PollInterval
      /\ reconnected' # reconnected => reconnected' - reconnected >= ReconnectInterval
      /\ uploads' # uploads =>
           \A i \in 1 .. Len(uploads) :
             now - uploads[i] >= (Len(uploads) - i) * UploadInterval + Delay
<1>1. Init => SpacedInv
  BY DEF Init, SpacedInv
<1>2. Clock /\ SpacedInv /\ [Next]_vars => SpacedInv'
  BY SpacedStep
<1>3. Clock /\ SpacedInv /\ [Next]_vars => [Spaced]_vars
  <2> SUFFICES ASSUME Clock, SpacedInv, Next PROVE Spaced
    OBVIOUS
  <2>1. CASE Poll /\ PollDue
    BY <2>1 DEF Poll, PollDue, Clock, Types, Past, Goes
  <2>2. CASE Reconnect /\ ReconnectDue
    BY <2>2 DEF Reconnect, ReconnectDue, Clock, Types, Past, Goes
  <2>3. CASE Upload /\ UploadDue
    <3>1. /\ pc = "upload" /\ UNCHANGED <<polled, reconnected>>
      BY <2>3 DEF Upload, Goes
    <3>2. ASSUME NEW i \in 1 .. Len(uploads)
          PROVE  now - uploads[i] >= (Len(uploads) - i) * UploadInterval + Delay
      <4> DEFINE between == (Len(uploads) - i) * UploadInterval
      <4>1. between \in Nat
        BY LoopAssumption DEF Clock, Types
      <4>2. uploads[i] + between + Delay <= now_ms
        BY <2>3, <3>1, DueIsSpaced
      <4>3. /\ now_ms <= now /\ now \in Nat /\ now_ms \in Nat /\ uploads[i] \in Nat
            /\ Delay \in Nat
        BY LoopAssumption DEF Clock, Types, Past
      <4> HIDE DEF between
      <4>4. now - uploads[i] >= between + Delay
        BY <4>1, <4>2, <4>3
      <4> QED
        BY <4>4 DEF between
    <3> QED
      BY <3>1, <3>2
  <2>4. ASSUME UNCHANGED <<polled, reconnected, uploads>> PROVE Spaced
    BY <2>4
  <2>5. CASE Poll /\ ~PollDue
    BY <2>4, <2>5 DEF Poll
  <2>6. CASE Reconnect /\ ~ReconnectDue
    BY <2>4, <2>6 DEF Reconnect
  <2>7. CASE Upload /\ ~UploadDue
    BY <2>4, <2>7 DEF Upload
  <2>8. CASE \/ Tick \/ Change \/ Sample \/ PollEnds \/ ReportEnds \/ UploadEnds
             \/ DelayEnds
    BY <2>4, <2>8 DEF Tick, Change, Sample, PollEnds, ReportEnds, UploadEnds,
                      DelayEnds, history
  <2> QED
    BY <2>1, <2>2, <2>3, <2>5, <2>6, <2>7, <2>8 DEF Next, Pass
<1> QED
  BY <1>1, <1>2, <1>3, ClockInvariance, PTL DEF Spec, RateKept

-----------------------------------------------------------------------------
(* Polls in time. *)

\* This pass polled at its sample, or had no reason to.
PolledNow == polled = now_ms
NotDue == wifi /\ present => \/ served >= now_ms
                             \/ now_ms <= polled + (PollInterval - 1)

\* How far the pass may have got, with and without a poll in it.
PollInv ==
  /\ PollInTime
  /\ pc # "sample" /\ wifi /\ present =>
       \/ served >= now_ms
       \/ wifi_connected /\ has_device
  /\ pc = "poll_request" => PolledNow /\ now + left <= now_ms + Timeout
  /\ pc = "report_request" => PolledNow /\ now + left <= now_ms + 2 * Timeout
  /\ pc = "upload" => \/ PolledNow /\ now <= now_ms + 2 * Timeout
                      \/ NotDue /\ now = now_ms
  /\ pc = "upload_request" => \/ PolledNow /\ now + left <= now_ms + 3 * Timeout
                              \/ NotDue /\ now + left <= now_ms + Timeout
  /\ pc = "delay" => \/ PolledNow /\ now + left <= now_ms + 3 * Timeout + Delay
                     \/ NotDue /\ now + left <= now_ms + Timeout + Delay

\* Every step keeps what a pass may have taken since the last poll.
LEMMA PollStep ==
  ASSUME Clock, PollInv, [Next]_vars
  PROVE  PollInv'
<1> USE LoopAssumption
        DEF Clock, Types, Past, PollInv, PollInTime, PolledNow, NotDue, Later,
            Goes, Requests
<1>1. CASE Tick
  <2>1. /\ now' = now + 1 /\ left' = left - 1 /\ left > 0
        /\ UNCHANGED <<wifi, present, served, now_ms, polled, pc, wifi_connected,
                       has_device>>
    BY <1>1 DEF Tick, world, samples, history
  <2>2. CASE pc \in {"poll_request", "report_request"}
    BY <2>1, <2>2
  <2>3. CASE pc = "upload_request"
    BY <2>1, <2>3
  <2>4. CASE pc = "delay"
    BY <2>1, <2>4
  <2> QED
    BY <1>1, <2>2, <2>3, <2>4 DEF Tick
<1>2. CASE Change
  <2>1. UNCHANGED <<now, now_ms, polled, pc, left, wifi_connected, has_device>>
    BY <1>2 DEF Change, samples, history
  <2>2. \/ served' = now
        \/ served' = served /\ wifi /\ present
    BY <1>2 DEF Change
  <2>3. CASE served' = now
    BY <2>1, <2>3
  <2>4. CASE served' = served /\ wifi /\ present
    BY <2>1, <2>4
  <2> QED
    BY <2>2, <2>3, <2>4
<1>3. CASE Sample
  BY <1>3 DEF Sample, world, history
<1>4. CASE Reconnect
  BY <1>4 DEF Reconnect, world, samples
<1>5. CASE Poll
  <2>1. CASE PollDue
    BY <1>5, <2>1 DEF Poll, PollDue, world, samples
  <2>2. CASE ~PollDue
    BY <1>5, <2>2 DEF Poll, PollDue, world, samples
  <2> QED
    BY <2>1, <2>2
<1>6. CASE PollEnds
  BY <1>6 DEF PollEnds, world, samples, history
<1>7. CASE ReportEnds
  BY <1>7 DEF ReportEnds, world, samples, history
<1>8. CASE Upload
  BY <1>8 DEF Upload, world, samples
<1>9. CASE UploadEnds
  BY <1>9 DEF UploadEnds, world, samples, history
<1>10. CASE DelayEnds
  BY <1>10 DEF DelayEnds, world, samples, history
<1>11. CASE UNCHANGED vars
  BY <1>11 DEF vars, world, samples, history
<1> QED
  BY <1>1, <1>2, <1>3, <1>4, <1>5, <1>6, <1>7, <1>8, <1>9, <1>10, <1>11
     DEF Next, Pass

\* While device and WiFi stay, the wait for the next poll is bounded by the
\* interval and the requests of one pass, however the requests before it went.
THEOREM PollsInTime == Spec => []PollInTime
<1>1. Init => PollInv
  BY LoopAssumption DEF Init, PollInv, PollInTime, Later
<1>2. Clock /\ PollInv /\ [Next]_vars => PollInv'
  BY PollStep
<1>3. PollInv => PollInTime
  BY DEF PollInv
<1> QED
  BY <1>1, <1>2, <1>3, ClockInvariance, PTL DEF Spec

-----------------------------------------------------------------------------
(* Reconnects in time. *)

\* This pass reconnected at its sample, or it was not time yet.
Reconnected ==
  reconnected = now_ms \/ now_ms <= reconnected + (ReconnectInterval - 1)

\* A pass that found WiFi up and lost it makes no new request but the report;
\* one that found it down makes none.
ReconnectInv ==
  /\ ReconnectInTime
  /\ pc # "sample" /\ wifi_connected /\ ~wifi => offline >= now_ms
  /\ pc \notin {"sample", "reconnect"} /\ ~wifi_connected => Reconnected
  /\ pc = "poll_request" => wifi_connected /\ now + left <= now_ms + Timeout
  /\ pc = "report_request" => wifi_connected /\ now + left <= now_ms + 2 * Timeout
  /\ pc = "upload" => now <= now_ms + (IF wifi_connected THEN 2 * Timeout ELSE 0)
  /\ pc = "upload_request" =>
       wifi_connected /\ (~wifi => now + left <= offline + Timeout)
  /\ pc = "upload_request" => left <= Timeout
  /\ pc = "delay" => left <= Delay
  /\ pc = "delay" /\ wifi_connected /\ ~wifi =>
       now + left <= offline + 2 * Timeout + Delay
  /\ pc = "delay" /\ ~wifi_connected => now + left <= now_ms + Delay

\* Every step keeps what a pass may have taken since the last reconnect.
LEMMA ReconnectStep ==
  ASSUME Clock, ReconnectInv, [Next]_vars
  PROVE  ReconnectInv'
<1> USE LoopAssumption
        DEF Clock, Types, Past, ReconnectInv, ReconnectInTime, Reconnected,
            Later, Goes, Requests
<1>1. CASE Tick
  <2>1. /\ now' = now + 1 /\ left' = left - 1 /\ left > 0
        /\ UNCHANGED <<wifi, offline, now_ms, reconnected, pc, wifi_connected>>
    BY <1>1 DEF Tick, world, samples, history
  <2>2. CASE pc = "poll_request"
    BY <2>1, <2>2
  <2>3. CASE pc = "report_request"
    BY <2>1, <2>3
  <2>4. CASE pc = "upload_request"
    BY <2>1, <2>4
  <2>5. CASE pc = "delay"
    BY <2>1, <2>5
  <2> QED
    BY <1>1, <2>2, <2>3, <2>4, <2>5 DEF Tick
<1>2. CASE Change
  <2>1. UNCHANGED <<now, now_ms, reconnected, pc, left, wifi_connected>>
    BY <1>2 DEF Change, samples, history
  <2>2. \/ offline' = now
        \/ offline' = offline /\ ~wifi /\ ~wifi'
    BY <1>2 DEF Change
  <2>3. CASE offline' = now
    BY <2>1, <2>3
  <2>4. CASE offline' = offline /\ ~wifi /\ ~wifi'
    BY <2>1, <2>4
  <2> QED
    BY <2>2, <2>3, <2>4
<1>3. CASE Sample
  BY <1>3 DEF Sample, world, history
<1>4. CASE Reconnect
  BY <1>4 DEF Reconnect, ReconnectDue, world, samples
<1>5. CASE Poll
  <2>1. CASE PollDue
    BY <1>5, <2>1 DEF Poll, PollDue, world, samples
  <2>2. CASE ~PollDue
    BY <1>5, <2>2 DEF Poll, PollDue, world, samples
  <2> QED
    BY <2>1, <2>2
<1>6. CASE PollEnds
  BY <1>6 DEF PollEnds, world, samples, history
<1>7. CASE ReportEnds
  BY <1>7 DEF ReportEnds, world, samples, history
<1>8. CASE Upload
  BY <1>8 DEF Upload, UploadDue, world, samples
<1>9. CASE UploadEnds
  BY <1>9 DEF UploadEnds, world, samples, history
<1>10. CASE DelayEnds
  BY <1>10 DEF DelayEnds, world, samples, history
<1>11. CASE UNCHANGED vars
  BY <1>11 DEF vars, world, samples, history
<1> QED
  BY <1>1, <1>2, <1>3, <1>4, <1>5, <1>6, <1>7, <1>8, <1>9, <1>10, <1>11
     DEF Next, Pass

\* While WiFi is down the gateway task reconnects at its interval; requests
\* that are still under way when it is lost delay the first attempt by no more
\* than a poll and its report.
THEOREM ReconnectsInTime == Spec => []ReconnectInTime
<1>1. Init => ReconnectInv
  BY LoopAssumption DEF Init, ReconnectInv, ReconnectInTime, Later
<1>2. Clock /\ ReconnectInv /\ [Next]_vars => ReconnectInv'
  BY ReconnectStep
<1>3. ReconnectInv => ReconnectInTime
  BY DEF ReconnectInv
<1> QED
  BY <1>1, <1>2, <1>3, ClockInvariance, PTL DEF Spec
=============================================================================
