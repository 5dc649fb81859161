--------------------------- MODULE Console_proofs ---------------------------
(***************************************************************************)
(* Proofs about WifiManager, for every WIFI_MAX_RETRY, every queue length  *)
(* and every number of troubles, and about Console: what WifiManager       *)
(* promises survives every restart and every command that is typed too     *)
(* early, and no restart happens once the gateway task runs.               *)
(***************************************************************************)
EXTENDS Console, SequenceTheorems, TLAPS

-----------------------------------------------------------------------------
(* WifiManager *)

Event == {"start", "disconnected", "got_ip"}

(* What a queue of events looks like after a post and after a dispatch. *)
LEMMA Posted ==
  ASSUME NEW q \in Seq(Event), NEW e \in Event
  PROVE  LET r == Append(q, e) IN
         /\ r \in Seq(Event) /\ r # <<>> /\ r[Len(r)] = e
         /\ \A i \in 2 .. Len(r) : r[i] = e \/ (i \in 2 .. Len(q) /\ r[i] = q[i])
         /\ q # <<>> => r[1] = q[1]
<1>1. Len(Append(q, e)) = Len(q) + 1 /\ Len(q) \in Nat
  BY AppendProperties, LenProperties
<1> DEFINE r == Append(q, e)
<1>2. r \in Seq(Event) /\ r # <<>> /\ r[Len(q) + 1] = e
  BY AppendProperties
<1>3. \A i \in 1 .. Len(q) : r[i] = q[i]
  BY AppendProperties
<1>4. q # <<>> => 1 \in 1 .. Len(q)
  BY <1>1, EmptySeq
<1>5. Len(r) = Len(q) + 1
  BY AppendProperties
<1> HIDE DEF r
<1>6. r[Len(r)] = e
  BY <1>2, <1>5
<1>7. \A i \in 2 .. Len(r) : r[i] = e \/ (i \in 2 .. Len(q) /\ r[i] = q[i])
  <2> TAKE i \in 2 .. Len(r)
  <2>1. CASE i = Len(q) + 1
    <3>1. r[i] = r[Len(q) + 1]
      BY <2>1
    <3> QED
      BY <1>2, <3>1
  <2>2. CASE i # Len(q) + 1
    BY <1>1, <1>3, <1>5, <2>2
  <2> QED
    BY <2>1, <2>2
<1> QED
  BY <1>2, <1>3, <1>4, <1>6, <1>7 DEF r

\* The rest of a queue keeps its order and its end.
LEMMA Dispatched ==
  ASSUME NEW q \in Seq(Event), q # <<>>
  PROVE  LET r == Tail(q) IN
         /\ r \in Seq(Event) /\ Head(q) = q[1] /\ Head(q) \in Event
         /\ r = <<>> => Head(q) = q[Len(q)]
         /\ r # <<>> => r[Len(r)] = q[Len(q)]
         /\ \A i \in 1 .. Len(r) : r[i] = q[i + 1] /\ i + 1 \in 2 .. Len(q)
<1>1. Len(q) \in Nat /\ Len(q) # 0
  BY LenProperties, EmptySeq
<1>2. Len(Tail(q)) = Len(q) - 1 /\ Tail(q) \in Seq(Event)
  BY <1>1, HeadTailProperties
<1>3. \A i \in 1 .. Len(Tail(q)) : Tail(q)[i] = q[i + 1]
  BY <1>1, <1>2, HeadTailProperties
<1>4. Head(q) = q[1] /\ Head(q) \in Event
  BY <1>1, HeadTailProperties
<1>5. Tail(q) = <<>> <=> Len(Tail(q)) = 0
  BY <1>2, EmptySeq
<1> QED
  BY <1>1, <1>2, <1>3, <1>4, <1>5

-----------------------------------------------------------------------------
(* Every step leaves the queue alone, posts an event, or dispatches one; and
   it changes the flag and the connection only as that event says. *)

Quiet ==
  /\ UNCHANGED <<events, s_connected>>
  /\ driver' = "up" <=> driver = "up"
  /\ driver' = "off" <=> driver = "off"

Posts(e) ==
  /\ events' = Append(events, e)
  /\ UNCHANGED s_connected
  /\ driver' = "up" <=> e = "got_ip"
  /\ e = "start" => driver = "off"
  /\ driver' # "off"

Dispatches(e) ==
  /\ events # <<>> /\ Head(events) = e /\ events' = Tail(events)
  /\ UNCHANGED driver
  /\ s_connected' = CASE e = "got_ip" -> TRUE
                       [] e = "disconnected" -> FALSE
                       [] e = "start" -> s_connected

\* The driver is off exactly until it is started.
Off == driver = "off" <=> main = "connect"

\* Every step of the specification is of one of these kinds.
LEMMA StepKinds ==
  ASSUME driver \in {"off", "idle", "connecting", "assoc", "up"}, Off, [Next]_vars
  PROVE  Off' /\ (Quiet \/ \E e \in Event : Posts(e) \/ Dispatches(e))
<1> USE DEF Off, own, station, loop, Event
<1>1. CASE Associate \/ ApBack \/ ConnectReturns
  BY <1>1 DEF Associate, ApBack, ConnectReturns, Quiet
<1>2. CASE Address
  BY <1>2 DEF Address, Post, Posts
<1>3. CASE AttemptFails
  BY <1>3 DEF AttemptFails, Post, Posts
<1>4. CASE ApLost
  BY <1>4 DEF ApLost, Post, Posts, Quiet
<1>5. CASE OnStart
  BY <1>5 DEF OnStart, Dispatch, Dispatches
<1>6. CASE OnDisconnected
  BY <1>6 DEF OnDisconnected, Dispatch, Dispatches
<1>7. CASE OnGotIp
  BY <1>7 DEF OnGotIp, Dispatch, Dispatches
<1>8. CASE CountRetry \/ CoreReconnect \/ SerialReconnect
  BY <1>8 DEF CountRetry, CoreReconnect, SerialReconnect, Quiet
<1>9. CASE HandlerConnect
  BY <1>9 DEF HandlerConnect, WifiConnect, Quiet
<1>10. CASE ConnectStart
  BY <1>10 DEF ConnectStart, Post, Posts
<1>11. ASSUME NEW c \in Callers, Reconnecting(c)
       PROVE  Off' /\ (Quiet \/ \E e \in Event : Posts(e) \/ Dispatches(e))
  <2>1. CASE ReconnectClear(c)
    BY <2>1 DEF ReconnectClear, Quiet
  <2>2. CASE ReconnectDisconnect(c)
    BY <2>2 DEF ReconnectDisconnect, WifiDisconnect, Post, Posts, Quiet
  <2>3. CASE ReconnectConnect(c)
    BY <2>3 DEF ReconnectConnect, WifiConnect, Quiet
  <2> QED
    BY <1>11, <2>1, <2>2, <2>3 DEF Reconnecting
<1>12. CASE UNCHANGED vars
  BY <1>12 DEF vars, Quiet
<1> QED
  BY <1>1, <1>2, <1>3, <1>4, <1>5, <1>6, <1>7, <1>8, <1>9, <1>10, <1>11, <1>12
     DEF Next, HandlerStep, DriverStep

-----------------------------------------------------------------------------
(* The flag is what the last event on its way will make of it. *)

DriverState == {"off", "idle", "connecting", "assoc", "up"}

QueueTypes ==
  /\ events \in Seq(Event) /\ s_connected \in BOOLEAN
  /\ driver \in DriverState /\ Off

\* The queue's last event settles the flag; a start event comes first, before
\* anything is connected.
QueueInv ==
  /\ QueueTypes
  /\ events = <<>> => (s_connected <=> driver = "up")
  /\ events # <<>> => (events[Len(events)] = "got_ip" <=> driver = "up")
  /\ \A i \in 2 .. Len(events) : events[i] # "start"
  /\ events # <<>> /\ events[1] = "start" => ~s_connected
  /\ driver = "off" => events = <<>> /\ ~s_connected

\* No step takes the station out of its states.
LEMMA DriverTyped ==
  ASSUME driver \in DriverState, [Next]_vars
  PROVE  driver' \in DriverState
  BY DEF DriverState, Next, HandlerStep, DriverStep, Reconnecting, Associate,
     Address, AttemptFails, ApLost, ApBack, Post, WifiConnect, WifiDisconnect,
     OnStart, OnDisconnected, CountRetry, HandlerConnect, OnGotIp, Dispatch,
     ConnectStart, ConnectReturns, Goes, CoreReconnect, SerialReconnect,
     ReconnectClear, ReconnectDisconnect, ReconnectConnect, vars, own, station,
     loop

\* At power-up there is no event and no connection.
LEMMA QueueInit == Init => QueueInv
<1> SUFFICES ASSUME Init PROVE QueueInv
  OBVIOUS
<1>1. events = <<>> /\ Len(events) = 0
  BY DEF Init
<1>2. QueueTypes
  <2>1. events \in Seq(Event)
    BY <1>1, EmptySeq
  <2>2. s_connected = FALSE /\ driver = "off" /\ main = "connect"
    BY DEF Init
  <2>3. Off
    BY <2>2 DEF Off
  <2> QED
    BY <2>1, <2>2, <2>3 DEF QueueTypes, DriverState
<1>3. ~s_connected /\ driver # "up"
  BY DEF Init
<1> QED
  BY <1>1, <1>2, <1>3 DEF QueueInv

\* Posting and dispatching keep queue, flag and driver in step.
LEMMA QueueStep ==
  ASSUME QueueInv, [Next]_vars
  PROVE  QueueInv'
<1>1. QueueTypes
  BY DEF QueueInv
<1>2. Off' /\ driver' \in DriverState
  BY <1>1, StepKinds, DriverTyped DEF QueueTypes, DriverState
<1>3. CASE Quiet
  BY <1>2, <1>3 DEF Quiet, QueueInv, QueueTypes
<1>4. ASSUME NEW e \in Event, Posts(e)
      PROVE  QueueInv'
  <2>1. /\ events' \in Seq(Event) /\ events' # <<>>
        /\ events'[Len(events')] = e
        /\ \A i \in 2 .. Len(events') :
             \/ events'[i] = e
             \/ i \in 2 .. Len(events) /\ events'[i] = events[i]
        /\ events # <<>> => events'[1] = events[1]
    BY <1>1, <1>4, Posted DEF QueueTypes, Posts
  <2>2. events = <<>> => events'[1] = e
    BY <1>1, <1>4 DEF QueueTypes, Posts
  <2>3. UNCHANGED s_connected
    BY <1>4 DEF Posts
  <2>4. e = "start" => events = <<>> /\ ~s_connected
    BY <1>4 DEF Posts, QueueInv
  <2> QED
    BY <1>2, <1>4, <2>1, <2>2, <2>3, <2>4 DEF QueueInv, QueueTypes, Posts
<1>5. ASSUME NEW e \in Event, Dispatches(e)
      PROVE  QueueInv'
  <2>1. /\ events' \in Seq(Event) /\ e = events[1]
        /\ events' = <<>> => e = events[Len(events)]
        /\ events' # <<>> => events'[Len(events')] = events[Len(events)]
        /\ \A i \in 1 .. Len(events') :
             events'[i] = events[i + 1] /\ i + 1 \in 2 .. Len(events)
    BY <1>1, <1>5, Dispatched DEF QueueTypes, Dispatches
  <2>2. \A i \in 1 .. Len(events') : events'[i] # "start"
    BY <2>1 DEF QueueInv
  <2>3. Len(events') \in Nat /\ (events' # <<>> => Len(events') # 0)
    BY <2>1, LenProperties, EmptySeq
  <2>4. /\ \A i \in 2 .. Len(events') : events'[i] # "start"
        /\ events' # <<>> => events'[1] # "start"
    BY <2>2, <2>3
  <2>5. /\ UNCHANGED driver /\ events # <<>>
        /\ e = "got_ip" => s_connected' = TRUE
        /\ e = "disconnected" => s_connected' = FALSE
        /\ e = "start" => s_connected' = s_connected
    BY <1>5 DEF Dispatches
  <2>6. s_connected' \in BOOLEAN
    BY <1>1, <2>5 DEF QueueTypes, Event
  <2>7. events' = <<>> => (s_connected' <=> driver' = "up")
    <3>1. e = "start" => ~s_connected
      BY <2>1, <2>5 DEF QueueInv
    <3> QED
      BY <2>1, <2>5, <3>1 DEF QueueInv, Event
  <2>8. events' # <<>> => (events'[Len(events')] = "got_ip" <=> driver' = "up")
    BY <2>1, <2>5 DEF QueueInv
  <2>9. driver' # "off"
    BY <2>5 DEF QueueInv
  <2> QED
    BY <1>2, <2>1, <2>4, <2>6, <2>7, <2>8, <2>9 DEF QueueInv, QueueTypes
<1> QED
  BY <1>1, <1>3, <1>4, <1>5, StepKinds DEF QueueTypes, DriverState

\* The event queue and the flag always belong together: nothing in the queue
\* is lost or overtaken (the default event loop, wifi_event_handler).
THEOREM QueueInvariance == Spec => []QueueInv
  BY QueueInit, QueueStep, PTL DEF Spec

\* s_connected is right once no event is on its way (wifi_manager.c, the flag
\* that the gateway task and the relay go by).
THEOREM FlagIsRight == Spec => []FlagSettles
<1>1. QueueInv => FlagSettles
  BY DEF QueueInv, FlagSettles
<1> QED
  BY <1>1, QueueInvariance, PTL

-----------------------------------------------------------------------------
(* Types.  The count that the handler has read is one it may still increment,
   whoever has reset s_retry_count since. *)

Types == TypeOK /\ (handler = "count" => count < MaxRetry)

\* All of it except driver and events.
Rest ==
  /\ s_connected \in BOOLEAN /\ s_retry_count \in 0 .. MaxRetry
  /\ bits \in SUBSET {"connected", "fail"} /\ ap \in BOOLEAN
  /\ handler \in {"idle", "count", "connect"} /\ count \in 0 .. MaxRetry
  /\ handler = "count" => count < MaxRetry
  /\ main \in {"connect", "wait", "running"}
  /\ pc \in [Callers -> {"idle", "clear", "disconnect", "connect"}]
  /\ troubles \in 0 .. MaxTrouble

\* A queue of events stays one.
LEMMA QueueTyped ==
  ASSUME events \in Seq(Event), Quiet \/ \E e \in Event : Posts(e) \/ Dispatches(e)
  PROVE  events' \in Seq(Event)
<1>1. CASE Quiet
  BY <1>1 DEF Quiet
<1>2. ASSUME NEW e \in Event, Posts(e)
      PROVE  events' \in Seq(Event)
  BY <1>2, Posted DEF Posts
<1>3. ASSUME NEW e \in Event, Dispatches(e)
      PROVE  events' \in Seq(Event)
  BY <1>3, Dispatched DEF Dispatches
<1> QED
  BY <1>1, <1>2, <1>3

\* The types hold at power-up.
LEMMA TypesInit == Init => Types
<1> SUFFICES ASSUME Init PROVE Types
  OBVIOUS
<1>1. events \in Seq({"start", "disconnected", "got_ip"})
  BY EmptySeq DEF Init
<1>2. s_retry_count = 0 /\ count = 0 /\ troubles = 0
  BY DEF Init
<1>3. 0 \in 0 .. MaxRetry /\ 0 \in 0 .. MaxTrouble
  BY WifiAssumption
<1>4. /\ s_connected \in BOOLEAN /\ bits \subseteq {"connected", "fail"}
      /\ driver \in {"off", "idle", "connecting", "assoc", "up"} /\ ap \in BOOLEAN
      /\ handler \in {"idle", "count", "connect"} /\ handler # "count"
      /\ main \in {"connect", "wait", "running"}
      /\ pc \in [Callers -> {"idle", "clear", "disconnect", "connect"}]
  BY DEF Init
<1> QED
  BY <1>1, <1>2, <1>3, <1>4 DEF Types, TypeOK

\* Every step keeps them.
LEMMA TypesStep ==
  ASSUME Types, Off, [Next]_vars
  PROVE  Types'
<1>1. driver' \in {"off", "idle", "connecting", "assoc", "up"}
  BY DriverTyped DEF Types, TypeOK, DriverState
<1>2. events' \in Seq({"start", "disconnected", "got_ip"})
  BY StepKinds, QueueTyped DEF Types, TypeOK, Event
<1>3. Rest
  BY DEF Types, TypeOK, Rest
<1>4. Rest'
  <2> USE <1>3, WifiAssumption DEF Rest, Trouble, Goes, own, station, loop
  <2>1. CASE Associate \/ Address \/ ApBack
    BY <2>1 DEF Associate, Address, ApBack
  <2> DEFINE none == {}
  <2>a. none \in SUBSET {"connected", "fail"} /\ 0 \in 0 .. MaxRetry
    OBVIOUS
  <2>b. Trouble => troubles' \in 0 .. MaxTrouble
    OBVIOUS
  <2>2. CASE AttemptFails \/ ApLost
    <3>1. troubles' \in 0 .. MaxTrouble
      BY <2>2, <2>b DEF AttemptFails, ApLost
    <3>2. ap' \in BOOLEAN /\ UNCHANGED <<own, loop, main, pc>>
      BY <2>2 DEF AttemptFails, ApLost
    <3> QED
      BY <3>1, <3>2
  <2>3. CASE OnStart
    BY <2>3 DEF OnStart
  <2>4. CASE OnDisconnected
    BY <2>4 DEF OnDisconnected
  <2>5. CASE OnGotIp
    BY <2>5 DEF OnGotIp
  <2>6. CASE CountRetry
    BY <2>6 DEF CountRetry
  <2>7. CASE HandlerConnect
    BY <2>7 DEF HandlerConnect
  <2>8. CASE ConnectStart \/ ConnectReturns
    <3>1. CASE ConnectStart
      BY <2>a, <3>1 DEF ConnectStart
    <3>2. CASE ConnectReturns
      BY <3>2 DEF ConnectReturns
    <3> QED
      BY <2>8, <3>1, <3>2
  <2>9. CASE CoreReconnect \/ SerialReconnect
    <3>1. pc' \in [Callers -> {"idle", "clear", "disconnect", "connect"}]
      BY <2>9 DEF CoreReconnect, SerialReconnect
    <3>2. troubles' \in 0 .. MaxTrouble
      BY <2>9, <2>b DEF CoreReconnect, SerialReconnect
    <3>3. UNCHANGED <<own, station, loop, main>>
      BY <2>9 DEF CoreReconnect, SerialReconnect
    <3> QED
      BY <3>1, <3>2, <3>3
  <2>10. ASSUME NEW c \in Callers, Reconnecting(c)
         PROVE  Rest'
    <3>1. pc' \in [Callers -> {"idle", "clear", "disconnect", "connect"}]
      BY <2>10 DEF Reconnecting, ReconnectClear, ReconnectDisconnect, ReconnectConnect
    <3>2. /\ s_retry_count' \in 0 .. MaxRetry
          /\ bits' \in SUBSET {"connected", "fail"}
      BY <2>a, <2>10
         DEF Reconnecting, ReconnectClear, ReconnectDisconnect, ReconnectConnect
    <3>3. UNCHANGED <<s_connected, ap, loop, main, troubles>>
      BY <2>10 DEF Reconnecting, ReconnectClear, ReconnectDisconnect, ReconnectConnect
    <3> QED
      BY <3>1, <3>2, <3>3
  <2>11. CASE UNCHANGED vars
    BY <2>11 DEF vars
  <2> QED
    BY <2>1, <2>2, <2>3, <2>4, <2>5, <2>6, <2>7, <2>8, <2>9, <2>10, <2>11
       DEF Next, HandlerStep, DriverStep
<1> QED
  BY <1>1, <1>2, <1>4 DEF Types, TypeOK, Rest

\* The type invariant; with it, the retry count never exceeds WIFI_MAX_RETRY
\* although it is written without a lock (wifi_manager.c:46, 108, 126).
THEOREM TypeCorrect == Spec => []TypeOK
<1>1. QueueInv => Off
  BY DEF QueueInv, QueueTypes
<1>2. Types => TypeOK
  BY DEF Types
<1> QED
  BY <1>1, <1>2, TypesInit, TypesStep, QueueInvariance, PTL DEF Spec

-----------------------------------------------------------------------------
(* The next attempt. *)

\* No step leaves the station idle without a next attempt on its way.
LEMMA AbandonStep ==
  ASSUME NotAbandoned, QueueInv, TypeOK, [Next]_vars
  PROVE  NotAbandoned'
<1> USE DEF NotAbandoned, own, station, loop
<1>1. /\ events \in Seq(Event)
      /\ driver \in {"off", "idle", "connecting", "assoc", "up"}
  BY DEF TypeOK, Event
<1>2. \A e \in Event : Append(events, e) # <<>>
  BY <1>1, Posted
<1>3. ASSUME NEW e \in Event, Post(e)
      PROVE  NotAbandoned'
  BY <1>2, <1>3 DEF Post
<1>4. CASE Associate \/ ApBack \/ ConnectReturns
  BY <1>4 DEF Associate, ApBack, ConnectReturns
<1>5. CASE Address \/ AttemptFails \/ ConnectStart
  BY <1>3, <1>5 DEF Address, AttemptFails, ConnectStart, Event
<1>6. CASE ApLost
  BY <1>3, <1>6 DEF ApLost, Event
<1>7. CASE OnStart \/ CountRetry
  BY <1>7 DEF OnStart, CountRetry
<1>8. CASE OnDisconnected
  BY <1>8 DEF OnDisconnected
<1>9. CASE OnGotIp
  <2>1. events # <<>> /\ Head(events) = "got_ip" /\ events' = Tail(events)
    BY <1>9 DEF OnGotIp, Dispatch
  <2>2. events' = <<>> => events[Len(events)] = "got_ip"
    BY <1>1, <2>1, Dispatched
  <2>3. events' = <<>> => driver = "up"
    BY <2>1, <2>2 DEF QueueInv
  <2>4. UNCHANGED driver
    BY <1>9 DEF OnGotIp
  <2> QED
    BY <2>3, <2>4
<1>10. CASE HandlerConnect
  BY <1>10 DEF HandlerConnect, WifiConnect
<1>11. CASE CoreReconnect \/ SerialReconnect
  BY <1>11 DEF CoreReconnect, SerialReconnect, Goes, TypeOK, Callers
<1>12. ASSUME NEW c \in Callers, Reconnecting(c)
       PROVE  NotAbandoned'
  <2>1. CASE ReconnectClear(c) \/ ReconnectDisconnect(c)
    <3>1. pc'[c] # "idle"
      BY <2>1 DEF ReconnectClear, ReconnectDisconnect, Goes, TypeOK
    <3> QED
      BY <3>1
  <2>2. CASE ReconnectConnect(c)
    BY <2>2 DEF ReconnectConnect, WifiConnect
  <2> QED
    BY <1>12, <2>1, <2>2 DEF Reconnecting
<1>13. CASE UNCHANGED vars
  BY <1>13 DEF vars
<1> QED
  BY <1>4, <1>5, <1>6, <1>7, <1>8, <1>9, <1>10, <1>11, <1>12, <1>13
     DEF Next, HandlerStep, DriverStep

\* An idle station has an event, a handler or a reconnect on the way that makes
\* the next attempt, or its retries are used up and the bit says so
\* (wifi_manager.c, handler against wifi_manager_reconnect).
THEOREM NeverAbandoned == Spec => []NotAbandoned
<1>1. Init => NotAbandoned
  BY DEF Init, NotAbandoned
<1> QED
  BY <1>1, AbandonStep, QueueInvariance, TypeCorrect, PTL DEF Spec

-----------------------------------------------------------------------------
(* Console: the boot sequence and the commands that are typed *)

\* A step of the boot sequence and the console is one of WifiManager, or a
\* restart that something caused.
LEMMA StepsOrRestarts ==
  ASSUME [BootNext]_all
  PROVE  [Next]_vars \/ (Restart /\ Trouble)
<1>1. CASE NvsInit \/ ConsoleStart \/ GatewayId \/ WifiInit \/ BleInit
  BY <1>1 DEF NvsInit, ConsoleStart, GatewayId, WifiInit, BleInit, Boots
<1>2. CASE StartWifi \/ StartCore
  BY <1>2 DEF StartWifi, StartCore, Next
<1>3. CASE BootFails
  BY <1>3 DEF BootFails
<1>4. ASSUME NEW line \in Lines, TypedEarly(line) \/ TypedReconnect(line)
      PROVE  [Next]_vars \/ (Restart /\ Trouble)
  BY <1>4 DEF TypedEarly, TypedReconnect, Next
<1>5. CASE ReconnectEnds
  BY <1>5 DEF ReconnectEnds
<1>6. CASE HandlerStep \/ DriverStep \/ CoreReconnect \/ \E c \in Callers : Reconnecting(c)
  BY <1>6 DEF Next
<1>7. CASE UNCHANGED all
  BY <1>7 DEF all
<1> QED
  BY <1>1, <1>2, <1>3, <1>4, <1>5, <1>6, <1>7 DEF BootNext, BootStep

-----------------------------------------------------------------------------
(* What WifiManager promises, across restarts *)

\* A restart leaves no event, no flag and no station behind.
LEMMA RestartQueue ==
  ASSUME Restart
  PROVE  QueueInv'
<1>1. events' = <<>> /\ s_connected' = FALSE /\ driver' = "off" /\ main' = "connect"
  BY DEF Restart
<1>2. <<>> \in Seq(Event) /\ Len(<<>>) = 0
  BY EmptySeq
<1>3. Len(events') = 0 /\ events' \in Seq(Event)
  BY <1>1, <1>2
<1>4. QueueTypes'
  BY <1>1, <1>3 DEF QueueTypes, Off, DriverState
<1> QED
  BY <1>1, <1>3, <1>4 DEF QueueInv

\* Nor anything of another type.
LEMMA RestartTypes ==
  ASSUME Types, Restart, Trouble
  PROVE  Types'
<1>1. events' = <<>> /\ <<>> \in Seq({"start", "disconnected", "got_ip"})
  BY EmptySeq DEF Restart
<1>2. s_retry_count' = 0 /\ count' = 0 /\ 0 \in 0 .. MaxRetry
  BY WifiAssumption DEF Restart
<1>3. troubles' \in 0 .. MaxTrouble
  BY WifiAssumption DEF Trouble, Types, TypeOK
<1>4. ap' \in BOOLEAN
  BY DEF Restart, Types, TypeOK
<1>5. /\ s_connected' \in BOOLEAN /\ bits' \subseteq {"connected", "fail"}
      /\ driver' \in {"off", "idle", "connecting", "assoc", "up"}
      /\ handler' \in {"idle", "count", "connect"} /\ handler' # "count"
      /\ main' \in {"connect", "wait", "running"}
      /\ pc' \in [Callers -> {"idle", "clear", "disconnect", "connect"}]
  BY DEF Restart
<1> QED
  BY <1>1, <1>2, <1>3, <1>4, <1>5 DEF Types, TypeOK

Promises == QueueInv /\ Types /\ NotAbandoned

\* One step of the boot sequence or the console keeps all of them.
LEMMA PromisesStep ==
  ASSUME Promises, [BootNext]_all
  PROVE  Promises'
<1>1. QueueInv /\ Types /\ NotAbandoned /\ Off /\ TypeOK
  BY DEF Promises, QueueInv, QueueTypes, Types
<1>2. CASE [Next]_vars
  BY <1>1, <1>2, QueueStep, TypesStep, AbandonStep DEF Promises
<1>3. CASE Restart /\ Trouble
  <2>1. NotAbandoned'
    BY <1>3 DEF Restart, NotAbandoned
  <2> QED
    BY <1>1, <1>3, <2>1, RestartQueue, RestartTypes DEF Promises
<1> QED
  BY <1>2, <1>3, StepsOrRestarts

\* The flag, the retry count and the next attempt are right however often the
\* chip restarts, and whatever the console does before and during the boot
\* sequence (app_main.c, serial_console.c against wifi_manager.c).
THEOREM RightAfterRestart ==
  BootSpec => []TypeOK /\ []FlagSettles /\ []NotAbandoned
<1>1. Init => NotAbandoned
  BY DEF Init, NotAbandoned
<1>2. BootInit => Promises
  BY <1>1, QueueInit, TypesInit DEF BootInit, Promises
<1>3. QueueInv => FlagSettles
  BY DEF QueueInv, FlagSettles
<1>4. Promises => TypeOK /\ FlagSettles /\ NotAbandoned
  BY <1>3 DEF Promises, Types
<1> QED
  BY <1>2, <1>4, PromisesStep, PTL DEF BootSpec

-----------------------------------------------------------------------------
(* No restart of a running gateway *)

\* WiFi is started after everything that a command may use is there.
Ordered == main # "connect" => boot = "core"

\* main moves on only with the two last steps of the boot sequence.
LEMMA MainStep ==
  ASSUME \/ HandlerStep \/ DriverStep \/ CoreReconnect \/ SerialReconnect
         \/ \E c \in Callers : Reconnecting(c)
  PROVE  UNCHANGED main
  BY DEF HandlerStep, OnStart, OnDisconnected, CountRetry, HandlerConnect, OnGotIp,
     DriverStep, Associate, Address, AttemptFails, ApLost, ApBack, CoreReconnect,
     SerialReconnect, Reconnecting, ReconnectClear, ReconnectDisconnect,
     ReconnectConnect

\* A restart begins with the boot sequence, and comes before the end of it.
LEMMA OrderedStep ==
  ASSUME Ordered, [BootNext]_all
  PROVE  Ordered' /\ (main = "running" => main' = "running")
<1> USE DEF Ordered
<1>1. CASE NvsInit \/ ConsoleStart \/ GatewayId \/ WifiInit \/ BleInit
  BY <1>1 DEF NvsInit, ConsoleStart, GatewayId, WifiInit, BleInit, Boots, vars
<1>2. CASE StartWifi
  BY <1>2 DEF StartWifi, ConnectStart, started
<1>3. CASE StartCore
  BY <1>3 DEF StartCore, ConnectReturns, started
<1>4. CASE BootFails
  BY <1>4 DEF BootFails, Restart
<1>5. ASSUME NEW line \in Lines, TypedEarly(line)
      PROVE  Ordered' /\ (main = "running" => main' = "running")
  BY <1>5 DEF TypedEarly, HasLock, HasGroup, Restart
<1>6. ASSUME NEW line \in Lines, TypedReconnect(line)
      PROVE  Ordered' /\ (main = "running" => main' = "running")
  BY <1>6, MainStep DEF TypedReconnect
<1>7. CASE ReconnectEnds
  BY <1>7 DEF ReconnectEnds, vars
<1>8. CASE /\ HandlerStep \/ DriverStep \/ CoreReconnect \/ \E c \in Callers : Reconnecting(c)
           /\ UNCHANGED started
  BY <1>8, MainStep DEF started
<1>9. CASE UNCHANGED all
  BY <1>9 DEF all, started, vars
<1> QED
  BY <1>1, <1>2, <1>3, <1>4, <1>5, <1>6, <1>7, <1>8, <1>9
     DEF BootNext, BootStep

\* Once its task runs the gateway does not restart: the console is up before
\* the locks and the event group its commands use, but they are there before
\* WiFi is started (app_main.c:18, gateway_core.c:178-206).
THEOREM NeverRestarts == BootSpec => StaysUp
<1>1. BootInit => Ordered
  BY DEF BootInit, Init, Ordered
<1>2. Ordered /\ [BootNext]_all => Ordered'
  BY OrderedStep
<1>3. Ordered /\ [BootNext]_all => [main = "running" => main' = "running"]_all
  BY OrderedStep
<1> QED
  BY <1>1, <1>2, <1>3, PTL DEF BootSpec, StaysUp
=============================================================================
