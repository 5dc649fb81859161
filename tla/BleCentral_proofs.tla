------------------------- MODULE BleCentral_proofs -------------------------
(***************************************************************************)
(* Proofs about BleCentral, for every set of devices, every number of      *)
(* connections, every pool size and every bound on the disturbances.       *)
(***************************************************************************)
EXTENDS BleCentral, SequenceTheorems, TLAPS

Pools == [Handles -> Seq(Proc)]

(* A GATT call leaves a pool of procedures, and takes none away. *)
LEMMA GattCallType ==
  ASSUME NEW ps \in Pools, NEW h, NEW op \in Ops, NEW at \in Handle,
         NEW qs \in GattCall(ps, h, op, at)
  PROVE  qs \in Pools /\ \A g \in Handles : ps[g] # <<>> => qs[g] # <<>>
<1>1. CASE qs = ps
  BY <1>1
<1>2. CASE h \in Handles /\ qs = [ps EXCEPT ![h] = Append(@, [op |-> op, at |-> at])]
  <2> DEFINE p == [op |-> op, at |-> at]
  <2>1. p \in Proc
    BY DEF Proc
  <2>2. qs = [ps EXCEPT ![h] = Append(ps[h], p)]
    BY <1>2
  <2> HIDE DEF p
  <2>3. \A s \in Seq(Proc) : Append(s, p) \in Seq(Proc) /\ Append(s, p) # <<>>
    BY <2>1, AppendProperties
  <2> QED
    BY <1>2, <2>2, <2>3 DEF Pools
<1> QED
  BY <1>1, <1>2 DEF GattCall, CanCall, Linked

(* The same holds of the next step of the discovery chain. *)
LEMMA DiscoverNextType ==
  ASSUME TypeOK, NEW ps \in Pools, NEW range \in Handle,
         NEW qs \in DiscoverNext(ps, range)
  PROVE  qs \in Pools /\ \A g \in Handles : ps[g] # <<>> => qs[g] # <<>>
<1>1. \E op \in Ops, at \in Handle : qs \in GattCall(ps, conn_handle, op, at)
  <2>1. identity_handle \in Handle
    BY DEF TypeOK, TypeOwn
  <2>2. CASE None \notin {command_handle, status_handle, identity_handle}
    BY <2>1, <2>2 DEF DiscoverNext, Ops
  <2>3. CASE command_handle = None
    BY <2>3 DEF DiscoverNext, Ops, Chars
  <2>4. CASE command_handle # None /\ status_handle = None
    BY <2>4 DEF DiscoverNext, Ops, Chars
  <2>5. CASE command_handle # None /\ status_handle # None /\ identity_handle = None
    BY <2>5 DEF DiscoverNext, Ops, Chars
  <2> QED
    BY <2>2, <2>3, <2>4, <2>5
<1> QED
  BY <1>1, GattCallType

(* Taking the head procedure away, or marking it as reported, keeps a pool
   a pool. *)
LEMMA PoppedType ==
  ASSUME NEW ps \in Pools, NEW h \in Handles, ps[h] # <<>>
  PROVE  Popped(ps, h) \in Pools /\ Reported(ps, h) \in Pools
         /\ \A g \in Handles : ps[g] # <<>> => Reported(ps, h)[g] # <<>>
<1>1. ps[h] \in Seq(Proc)
  BY DEF Pools
<1>2. Tail(ps[h]) \in Seq(Proc)
  BY <1>1
<1>3. Popped(ps, h) \in Pools
  BY <1>2 DEF Popped, Pools
<1> DEFINE q == [ps[h] EXCEPT ![1].at = None]
<1>4. q \in Seq(Proc) /\ q # <<>>
  <2>1. 1 \in 1 .. Len(ps[h])
    BY <1>1, EmptySeq
  <2>2. ps[h][1] \in Proc
    BY <1>1, <2>1, ElementOfSeq
  <2>3. [ps[h][1] EXCEPT !.at = None] \in Proc
    BY <2>2 DEF Proc, Handle
  <2> DEFINE e == [ps[h][1] EXCEPT !.at = None]
  <2>4. q = [ps[h] EXCEPT ![1] = e]
    OBVIOUS
  <2> HIDE DEF e, q
  <2>5. q \in Seq(Proc) /\ Len(q) = Len(ps[h])
    BY <1>1, <2>1, <2>3, <2>4, ExceptSeq DEF e
  <2> QED
    BY <1>1, <2>5, EmptySeq
<1> HIDE DEF q
<1>5. Reported(ps, h) = [ps EXCEPT ![h] = q]
  BY DEF Reported, q
<1> QED
  BY <1>3, <1>4, <1>5 DEF Pools

-----------------------------------------------------------------------------
(* The inductive invariant: what the host task's program counter says about
   the connection and the device it is working on. *)
HostInv ==
  /\ hpc \in {"up", "upflag", "discover", "broken"} => hconn \in Linked
  /\ hpc = "down" => hconn \in Handles
  /\ hpc \in {"upflag", "discover"} => conn_handle = hconn
  /\ hpc = "cancel" => gap = "disc" /\ target # None
  /\ hpc = "connect" => gap # "conn"
  /\ hpc = "connect" \/ gap = "conn" => target # None

IInv == TypeOK /\ HostInv /\ ConnHandleLive

\* The invariant holds at power-up.
LEMMA InitInv == Init => IInv
<1> SUFFICES ASSUME Init PROVE IInv
  OBVIOUS
<1> USE NoneAssumption, BoundsAssumption DEF Init, Handle, Tasks
<1>1. TypeOwn
  BY DEF TypeOwn
<1>2. TypeStack
  BY EmptySeq DEF TypeStack
<1>3. TypeControl
  BY DEF TypeControl
<1>4. HostInv /\ ConnHandleLive
  BY DEF HostInv, ConnHandleLive
<1> QED
  BY <1>1, <1>2, <1>3, <1>4 DEF IInv, TypeOK

(* Steps of synchronisation, scanning and connecting. *)
LEMMA GapStepInv ==
  ASSUME IInv,
         \/ Sync \/ Reset \/ HostScan \/ AdvCancel \/ AdvConnect \/ ConnectFail
           \/ (\E d \in Devices : AdvReport(d))
  PROVE  IInv'
<1> USE NoneAssumption, BoundsAssumption
        DEF own, attrs, radio, links, host, Disturb
<1>1. CASE Sync
  <2> USE <1>1 DEF Sync
  <2>1. TypeOwn'
    BY DEF IInv, TypeOK, TypeOwn, TypeStack, Handle, Layouts, Linked
  <2>2. TypeStack'
    BY DEF IInv, TypeOK, TypeStack, Linked
  <2>3. TypeControl'
    BY DEF IInv, TypeOK, TypeControl, Tasks
  <2>4. HostInv'
    BY DEF IInv, TypeOK, TypeStack, TypeControl, HostInv, Linked
  <2>5. ConnHandleLive'
    BY DEF IInv, TypeOK, TypeStack, TypeControl, ConnHandleLive, HostInv, Linked
  <2> QED
    BY <2>1, <2>2, <2>3, <2>4, <2>5 DEF IInv, TypeOK
<1>2. CASE Reset
  <2> USE <1>2 DEF Reset
  <2>1. TypeOwn'
    BY DEF IInv, TypeOK, TypeOwn, TypeStack, Handle, Layouts, Linked
  <2>2. TypeStack'
    BY DEF IInv, TypeOK, TypeStack, Linked
  <2>3. TypeControl'
    BY DEF IInv, TypeOK, TypeControl, Tasks
  <2>4. HostInv'
    BY DEF IInv, TypeOK, TypeStack, TypeControl, HostInv, Linked
  <2>5. ConnHandleLive'
    BY DEF IInv, TypeOK, TypeStack, TypeControl, ConnHandleLive, HostInv, Linked
  <2> QED
    BY <2>1, <2>2, <2>3, <2>4, <2>5 DEF IInv, TypeOK
<1>3. CASE HostScan
  <2> USE <1>3 DEF HostScan, DiscAccepted
  <2>1. TypeOwn'
    BY DEF IInv, TypeOK, TypeOwn, TypeStack, Handle, Layouts, Linked
  <2>2. TypeStack'
    BY DEF IInv, TypeOK, TypeStack, Linked
  <2>3. TypeControl'
    BY DEF IInv, TypeOK, TypeControl, Tasks
  <2>4. HostInv'
    BY DEF IInv, TypeOK, TypeStack, TypeControl, HostInv, Linked
  <2>5. ConnHandleLive'
    BY DEF IInv, TypeOK, TypeStack, TypeControl, ConnHandleLive, HostInv, Linked
  <2> QED
    BY <2>1, <2>2, <2>3, <2>4, <2>5 DEF IInv, TypeOK
<1>4. ASSUME NEW d \in Devices, AdvReport(d) PROVE IInv'
  <2> USE <1>4 DEF AdvReport
  <2>1. TypeOwn'
    BY DEF IInv, TypeOK, TypeOwn, TypeStack, Handle, Layouts, Linked
  <2>2. TypeStack'
    BY DEF IInv, TypeOK, TypeStack, Linked
  <2>3. TypeControl'
    BY DEF IInv, TypeOK, TypeControl, Tasks
  <2>4. HostInv'
    BY DEF IInv, TypeOK, TypeStack, TypeControl, HostInv, Linked
  <2>5. ConnHandleLive'
    BY DEF IInv, TypeOK, TypeStack, TypeControl, ConnHandleLive, HostInv, Linked
  <2> QED
    BY <2>1, <2>2, <2>3, <2>4, <2>5 DEF IInv, TypeOK
<1>5. CASE AdvCancel
  <2> USE <1>5 DEF AdvCancel
  <2>1. TypeOwn'
    BY DEF IInv, TypeOK, TypeOwn, TypeStack, Handle, Layouts, Linked
  <2>2. TypeStack'
    BY DEF IInv, TypeOK, TypeStack, Linked
  <2>3. TypeControl'
    BY DEF IInv, TypeOK, TypeControl, Tasks
  <2>4. HostInv'
    BY DEF IInv, TypeOK, TypeStack, TypeControl, HostInv, Linked
  <2>5. ConnHandleLive'
    BY DEF IInv, TypeOK, TypeStack, TypeControl, ConnHandleLive, HostInv, Linked
  <2> QED
    BY <2>1, <2>2, <2>3, <2>4, <2>5 DEF IInv, TypeOK
<1>6. CASE AdvConnect
  <2> USE <1>6 DEF AdvConnect
  <2>1. TypeOwn'
    BY DEF IInv, TypeOK, TypeOwn, TypeStack, Handle, Layouts, Linked
  <2>2. TypeStack'
    BY DEF IInv, TypeOK, TypeStack, Linked
  <2>3. TypeControl'
    BY DEF IInv, TypeOK, TypeControl, Tasks
  <2>4. HostInv'
    BY DEF IInv, TypeOK, TypeStack, TypeControl, HostInv, Linked
  <2>5. ConnHandleLive'
    BY DEF IInv, TypeOK, TypeStack, TypeControl, ConnHandleLive, HostInv, Linked
  <2> QED
    BY <2>1, <2>2, <2>3, <2>4, <2>5 DEF IInv, TypeOK
<1>7. CASE ConnectFail
  <2> USE <1>7 DEF ConnectFail
  <2>1. TypeOwn'
    BY DEF IInv, TypeOK, TypeOwn, TypeStack, Handle, Layouts, Linked
  <2>2. TypeStack'
    BY DEF IInv, TypeOK, TypeStack, Linked
  <2>3. TypeControl'
    BY DEF IInv, TypeOK, TypeControl, Tasks
  <2>4. HostInv'
    BY DEF IInv, TypeOK, TypeStack, TypeControl, HostInv, Linked
  <2>5. ConnHandleLive'
    BY DEF IInv, TypeOK, TypeStack, TypeControl, ConnHandleLive, HostInv, Linked
  <2> QED
    BY <2>1, <2>2, <2>3, <2>4, <2>5 DEF IInv, TypeOK
<1> QED
  BY <1>1, <1>2, <1>3, <1>4, <1>5, <1>6, <1>7

(* Steps of a connection coming up and going down. *)
LEMMA LinkStepInv ==
  ASSUME IInv,
         \/ Up \/ UpFlag \/ UpDiscover \/ LinkGone \/ Down \/ DownFlag
           \/ (\E h \in Handles : ConnectOk(h) \/ LinkDown(h))
  PROVE  IInv'
<1> USE NoneAssumption, BoundsAssumption
        DEF own, attrs, radio, links, host, Disturb
<1>1. ASSUME NEW h \in Handles, ConnectOk(h) PROVE IInv'
  <2> USE <1>1 DEF ConnectOk
  <2>1. TypeOwn'
    BY DEF IInv, TypeOK, TypeOwn, TypeStack, Handle, Layouts, Linked
  <2>2. TypeStack'
    BY DEF IInv, TypeOK, TypeStack, Linked
  <2>3. TypeControl'
    BY DEF IInv, TypeOK, TypeControl, Tasks
  <2>4. HostInv'
    BY DEF IInv, TypeOK, TypeStack, TypeControl, HostInv, Linked
  <2>5. ConnHandleLive'
    BY DEF IInv, TypeOK, TypeStack, TypeControl, ConnHandleLive, HostInv, Linked
  <2> QED
    BY <2>1, <2>2, <2>3, <2>4, <2>5 DEF IInv, TypeOK
<1>2. CASE Up
  <2> USE <1>2 DEF Up
  <2>1. TypeOwn'
    BY DEF IInv, TypeOK, TypeOwn, TypeControl, HostInv, Linked
  <2>2. TypeStack'
    BY DEF IInv, TypeOK, TypeStack, Linked
  <2>3. TypeControl'
    BY DEF IInv, TypeOK, TypeControl, Tasks
  <2>4. HostInv'
    BY DEF IInv, TypeOK, TypeStack, TypeControl, HostInv, Linked
  <2>5. ConnHandleLive'
    BY DEF IInv, TypeOK, TypeStack, TypeControl, ConnHandleLive, HostInv, Linked
  <2> QED
    BY <2>1, <2>2, <2>3, <2>4, <2>5 DEF IInv, TypeOK
<1>3. CASE UpFlag
  <2> USE <1>3 DEF UpFlag
  <2>1. TypeOwn'
    BY DEF IInv, TypeOK, TypeOwn, TypeStack, Handle, Layouts, Linked
  <2>2. TypeStack'
    BY DEF IInv, TypeOK, TypeStack, Linked
  <2>3. TypeControl'
    BY DEF IInv, TypeOK, TypeControl, Tasks
  <2>4. HostInv'
    BY DEF IInv, TypeOK, TypeStack, TypeControl, HostInv, Linked
  <2>5. ConnHandleLive'
    BY DEF IInv, TypeOK, TypeStack, TypeControl, ConnHandleLive, HostInv, Linked
  <2> QED
    BY <2>1, <2>2, <2>3, <2>4, <2>5 DEF IInv, TypeOK
<1>4. CASE UpDiscover
  <2> USE <1>4 DEF UpDiscover
  <2>1. TypeOwn'
    BY DEF IInv, TypeOK, TypeOwn, TypeStack, Handle, Layouts, Linked
  <2>2. TypeStack'
    <3>1. Layout[peer[hconn]] \in Handle
      BY DEF IInv, TypeOK, TypeStack, HostInv, Linked, Layouts, Handle
    <3>2. procs' \in Pools
      BY <3>1, GattCallType DEF IInv, TypeOK, TypeStack, Pools, Ops
    <3> QED
      BY <3>2 DEF IInv, TypeOK, TypeStack, Pools
  <2>3. TypeControl'
    BY DEF IInv, TypeOK, TypeControl, Tasks
  <2>4. HostInv'
    BY DEF IInv, TypeOK, TypeStack, TypeControl, HostInv, Linked
  <2>5. ConnHandleLive'
    BY DEF IInv, TypeOK, TypeStack, TypeControl, ConnHandleLive, HostInv, Linked
  <2> QED
    BY <2>1, <2>2, <2>3, <2>4, <2>5 DEF IInv, TypeOK
<1>5. ASSUME NEW h \in Handles, LinkDown(h) PROVE IInv'
  <2> USE <1>5 DEF LinkDown
  <2>1. TypeOwn'
    BY DEF IInv, TypeOK, TypeOwn, TypeStack, Handle, Layouts, Linked
  <2>2. TypeStack'
    BY DEF IInv, TypeOK, TypeStack, Linked
  <2>3. TypeControl'
    BY DEF IInv, TypeOK, TypeControl, Tasks
  <2>4. HostInv'
    BY DEF IInv, TypeOK, TypeStack, TypeControl, HostInv, Linked
  <2>5. ConnHandleLive'
    BY DEF IInv, TypeOK, TypeStack, TypeControl, ConnHandleLive, HostInv, Linked
  <2> QED
    BY <2>1, <2>2, <2>3, <2>4, <2>5 DEF IInv, TypeOK
<1>6. CASE LinkGone
  <2> USE <1>6 DEF LinkGone
  <2>1. TypeOwn'
    BY DEF IInv, TypeOK, TypeOwn, TypeStack, Handle, Layouts, Linked
  <2>2. TypeStack'
    BY DEF IInv, TypeOK, TypeStack, Linked
  <2>3. TypeControl'
    BY DEF IInv, TypeOK, TypeControl, Tasks
  <2>4. HostInv'
    BY DEF IInv, TypeOK, TypeStack, TypeControl, HostInv, Linked
  <2>5. ConnHandleLive'
    BY DEF IInv, TypeOK, TypeStack, TypeControl, ConnHandleLive, HostInv, Linked
  <2> QED
    BY <2>1, <2>2, <2>3, <2>4, <2>5 DEF IInv, TypeOK
<1>7. CASE Down
  <2> USE <1>7 DEF Down
  <2>1. TypeOwn'
    BY DEF IInv, TypeOK, TypeOwn, TypeStack, Handle, Layouts, Linked
  <2>2. TypeStack'
    BY DEF IInv, TypeOK, TypeStack, Linked
  <2>3. TypeControl'
    BY DEF IInv, TypeOK, TypeControl, Tasks
  <2>4. HostInv'
    BY DEF IInv, TypeOK, TypeStack, TypeControl, HostInv, Linked
  <2>5. ConnHandleLive'
    BY DEF IInv, TypeOK, TypeStack, TypeControl, ConnHandleLive, HostInv, Linked
  <2> QED
    BY <2>1, <2>2, <2>3, <2>4, <2>5 DEF IInv, TypeOK
<1>8. CASE DownFlag
  <2> USE <1>8 DEF DownFlag
  <2>1. TypeOwn'
    BY DEF IInv, TypeOK, TypeOwn, TypeStack, Handle, Layouts, Linked
  <2>2. TypeStack'
    BY DEF IInv, TypeOK, TypeStack, Linked
  <2>3. TypeControl'
    BY DEF IInv, TypeOK, TypeControl, Tasks
  <2>4. HostInv'
    BY DEF IInv, TypeOK, TypeStack, TypeControl, HostInv, Linked
  <2>5. ConnHandleLive'
    BY DEF IInv, TypeOK, TypeStack, TypeControl, ConnHandleLive, HostInv, Linked
  <2> QED
    BY <2>1, <2>2, <2>3, <2>4, <2>5 DEF IInv, TypeOK
<1> QED
  BY <1>1, <1>2, <1>3, <1>4, <1>5, <1>6, <1>7, <1>8

(* Callbacks of the GATT procedures, and notifications. *)
LEMMA GattStepInv ==
  ASSUME IInv,
         \/ (\E h \in Handles : SvcFound(h) \/ ChrFound(h) \/ ProcEnds(h) \/ IdentityRead(h) \/ StatusRead(h) \/ CccdWritten(h) \/ CommandWritten(h) \/ Notify(h))
  PROVE  IInv'
<1> USE NoneAssumption, BoundsAssumption
        DEF own, attrs, radio, links, host, Disturb
<1>1. ASSUME NEW h \in Handles, SvcFound(h) PROVE IInv'
  <2> USE <1>1 DEF SvcFound, Answers
  <2>1. TypeOwn'
    BY DEF IInv, TypeOK, TypeOwn, TypeStack, Handle, Layouts, Linked
  <2>2. TypeStack'
    <3>1. Layout[peer[h]] \in Handle
      BY DEF IInv, TypeOK, TypeStack, Linked, Layouts, Handle
    <3>2. procs \in Pools /\ procs[h] # <<>>
      BY DEF IInv, TypeOK, TypeStack, Pools
    <3>3. Reported(procs, h) \in Pools
      BY <3>2, PoppedType
    <3>4. procs' \in Pools
      BY <3>1, <3>3, DiscoverNextType DEF IInv
    <3> QED
      BY <3>4 DEF IInv, TypeOK, TypeStack, Pools
  <2>3. TypeControl'
    BY DEF IInv, TypeOK, TypeControl, Tasks
  <2>4. HostInv'
    BY DEF IInv, TypeOK, TypeStack, TypeControl, HostInv, Linked
  <2>5. ConnHandleLive'
    BY DEF IInv, TypeOK, TypeStack, TypeControl, ConnHandleLive, HostInv, Linked
  <2> QED
    BY <2>1, <2>2, <2>3, <2>4, <2>5 DEF IInv, TypeOK
<1>2. ASSUME NEW h \in Handles, ChrFound(h) PROVE IInv'
  <2> USE <1>2 DEF ChrFound, Answers
  <2>1. TypeOwn'
    BY DEF IInv, TypeOK, TypeOwn, TypeStack, Handle, Layouts, Linked
  <2>2. TypeStack'
    <3>1. procs \in Pools /\ procs[h] # <<>>
      BY DEF IInv, TypeOK, TypeStack, Pools
    <3>2. procs' \in Pools
      BY <3>1, PoppedType
    <3> QED
      BY <3>2 DEF IInv, TypeOK, TypeStack, Pools
  <2>3. TypeControl'
    BY DEF IInv, TypeOK, TypeControl, Tasks
  <2>4. HostInv'
    BY DEF IInv, TypeOK, TypeStack, TypeControl, HostInv, Linked
  <2>5. ConnHandleLive'
    BY DEF IInv, TypeOK, TypeStack, TypeControl, ConnHandleLive, HostInv, Linked
  <2> QED
    BY <2>1, <2>2, <2>3, <2>4, <2>5 DEF IInv, TypeOK
<1>3. ASSUME NEW h \in Handles, ProcEnds(h) PROVE IInv'
  <2> USE <1>3 DEF ProcEnds
  <2>1. TypeOwn'
    BY DEF IInv, TypeOK, TypeOwn, TypeStack, Handle, Layouts, Linked
  <2>2. TypeStack'
    <3>1. procs \in Pools /\ procs[h] # <<>> /\ svc \in Handle
      BY DEF IInv, TypeOK, TypeStack, TypeOwn, Pools
    <3>2. PICK ps \in IF Head(procs[h]).op \in Chars
                         THEN DiscoverNext(procs, svc) ELSE {procs} :
            procs' = Popped(ps, h)
      OBVIOUS
    <3>3. ps \in Pools /\ ps[h] # <<>>
      BY <3>1, <3>2, DiscoverNextType DEF IInv
    <3>4. procs' \in Pools
      BY <3>2, <3>3, PoppedType
    <3> QED
      BY <3>4 DEF IInv, TypeOK, TypeStack, Pools
  <2>3. TypeControl'
    BY DEF IInv, TypeOK, TypeControl, Tasks
  <2>4. HostInv'
    BY DEF IInv, TypeOK, TypeStack, TypeControl, HostInv, Linked
  <2>5. ConnHandleLive'
    BY DEF IInv, TypeOK, TypeStack, TypeControl, ConnHandleLive, HostInv, Linked
  <2> QED
    BY <2>1, <2>2, <2>3, <2>4, <2>5 DEF IInv, TypeOK
<1>4. ASSUME NEW h \in Handles, IdentityRead(h) PROVE IInv'
  <2> USE <1>4 DEF IdentityRead, Answers
  <2>1. TypeOwn'
    BY DEF IInv, TypeOK, TypeOwn, TypeStack, Handle, Layouts, Linked
  <2>2. TypeStack'
    <3>1. procs \in Pools /\ procs[h] # <<>> /\ status_handle \in Handle
      BY DEF IInv, TypeOK, TypeStack, TypeOwn, Pools
    <3>2. PICK read \in IF status_handle = None THEN {procs}
                  ELSE GattCall(procs, conn_handle, "read_status", status_handle) :
            \E both \in IF status_handle = None THEN {procs}
                   ELSE GattCall(read, conn_handle, "cccd", status_handle) :
              procs' = Popped(both, h)
      OBVIOUS
    <3>3. read \in Pools /\ read[h] # <<>>
      BY <3>1, <3>2, GattCallType DEF Ops
    <3>4. PICK both \in IF status_handle = None THEN {procs}
                   ELSE GattCall(read, conn_handle, "cccd", status_handle) :
              procs' = Popped(both, h)
      BY <3>2
    <3>5. both \in Pools /\ both[h] # <<>>
      BY <3>1, <3>3, <3>4, GattCallType DEF Ops
    <3>6. procs' \in Pools
      BY <3>4, <3>5, PoppedType
    <3> QED
      BY <3>6 DEF IInv, TypeOK, TypeStack, Pools
  <2>3. TypeControl'
    BY DEF IInv, TypeOK, TypeControl, Tasks
  <2>4. HostInv'
    BY DEF IInv, TypeOK, TypeStack, TypeControl, HostInv, Linked
  <2>5. ConnHandleLive'
    BY DEF IInv, TypeOK, TypeStack, TypeControl, ConnHandleLive, HostInv, Linked
  <2> QED
    BY <2>1, <2>2, <2>3, <2>4, <2>5 DEF IInv, TypeOK
<1>5. ASSUME NEW h \in Handles, StatusRead(h) PROVE IInv'
  <2> USE <1>5 DEF StatusRead, Answers
  <2>1. TypeOwn'
    BY DEF IInv, TypeOK, TypeOwn, TypeStack, Handle, Layouts, Linked
  <2>2. TypeStack'
    <3>1. procs \in Pools /\ procs[h] # <<>>
      BY DEF IInv, TypeOK, TypeStack, Pools
    <3>2. procs' \in Pools
      BY <3>1, PoppedType
    <3> QED
      BY <3>2 DEF IInv, TypeOK, TypeStack, Pools
  <2>3. TypeControl'
    BY DEF IInv, TypeOK, TypeControl, Tasks
  <2>4. HostInv'
    BY DEF IInv, TypeOK, TypeStack, TypeControl, HostInv, Linked
  <2>5. ConnHandleLive'
    BY DEF IInv, TypeOK, TypeStack, TypeControl, ConnHandleLive, HostInv, Linked
  <2> QED
    BY <2>1, <2>2, <2>3, <2>4, <2>5 DEF IInv, TypeOK
<1>6. ASSUME NEW h \in Handles, CccdWritten(h) PROVE IInv'
  <2> USE <1>6 DEF CccdWritten, Answers
  <2>1. TypeOwn'
    BY DEF IInv, TypeOK, TypeOwn, TypeStack, Handle, Layouts, Linked
  <2>2. TypeStack'
    <3>1. procs \in Pools /\ procs[h] # <<>>
      BY DEF IInv, TypeOK, TypeStack, Pools
    <3>2. procs' \in Pools
      BY <3>1, PoppedType
    <3> QED
      BY <3>2 DEF IInv, TypeOK, TypeStack, Pools
  <2>3. TypeControl'
    BY DEF IInv, TypeOK, TypeControl, Tasks
  <2>4. HostInv'
    BY DEF IInv, TypeOK, TypeStack, TypeControl, HostInv, Linked
  <2>5. ConnHandleLive'
    BY DEF IInv, TypeOK, TypeStack, TypeControl, ConnHandleLive, HostInv, Linked
  <2> QED
    BY <2>1, <2>2, <2>3, <2>4, <2>5 DEF IInv, TypeOK
<1>7. ASSUME NEW h \in Handles, CommandWritten(h) PROVE IInv'
  <2> USE <1>7 DEF CommandWritten, Answers
  <2>1. TypeOwn'
    BY DEF IInv, TypeOK, TypeOwn, TypeStack, Handle, Layouts, Linked
  <2>2. TypeStack'
    <3>1. procs \in Pools /\ procs[h] # <<>>
      BY DEF IInv, TypeOK, TypeStack, Pools
    <3>2. procs' \in Pools
      BY <3>1, PoppedType
    <3> QED
      BY <3>2 DEF IInv, TypeOK, TypeStack, Pools
  <2>3. TypeControl'
    BY DEF IInv, TypeOK, TypeControl, Tasks
  <2>4. HostInv'
    BY DEF IInv, TypeOK, TypeStack, TypeControl, HostInv, Linked
  <2>5. ConnHandleLive'
    BY DEF IInv, TypeOK, TypeStack, TypeControl, ConnHandleLive, HostInv, Linked
  <2> QED
    BY <2>1, <2>2, <2>3, <2>4, <2>5 DEF IInv, TypeOK
<1>8. ASSUME NEW h \in Handles, Notify(h) PROVE IInv'
  <2> USE <1>8 DEF Notify
  <2>1. TypeOwn'
    BY DEF IInv, TypeOK, TypeOwn, TypeStack, Handle, Layouts, Linked
  <2>2. TypeStack'
    BY DEF IInv, TypeOK, TypeStack, Linked
  <2>3. TypeControl'
    BY DEF IInv, TypeOK, TypeControl, Tasks
  <2>4. HostInv'
    BY DEF IInv, TypeOK, TypeStack, TypeControl, HostInv, Linked
  <2>5. ConnHandleLive'
    BY DEF IInv, TypeOK, TypeStack, TypeControl, ConnHandleLive, HostInv, Linked
  <2> QED
    BY <2>1, <2>2, <2>3, <2>4, <2>5 DEF IInv, TypeOK
<1> QED
  BY <1>1, <1>2, <1>3, <1>4, <1>5, <1>6, <1>7, <1>8

(* Steps of the application tasks. *)
LEMMA TaskStepInv ==
  ASSUME IInv,
         \/ Start \/ Reconnect
           \/ (\E t \in Tasks : Terminate(t) \/ TaskScan(t) \/ TaskFlag(t) \/ WriteCheck(t) \/ Write(t))
  PROVE  IInv'
<1> USE NoneAssumption, BoundsAssumption
        DEF own, attrs, radio, links, host, Disturb
<1>1. CASE Start
  <2> USE <1>1 DEF Start, Goes
  <2>1. TypeOwn'
    BY DEF IInv, TypeOK, TypeOwn, TypeStack, Handle, Layouts, Linked
  <2>2. TypeStack'
    BY DEF IInv, TypeOK, TypeStack, Linked
  <2>3. TypeControl'
    BY DEF IInv, TypeOK, TypeControl, Tasks
  <2>4. HostInv'
    BY DEF IInv, TypeOK, TypeStack, TypeControl, HostInv, Linked
  <2>5. ConnHandleLive'
    BY DEF IInv, TypeOK, TypeStack, TypeControl, ConnHandleLive, HostInv, Linked
  <2> QED
    BY <2>1, <2>2, <2>3, <2>4, <2>5 DEF IInv, TypeOK
<1>2. CASE Reconnect
  <2> USE <1>2 DEF Reconnect, Goes
  <2>1. TypeOwn'
    BY DEF IInv, TypeOK, TypeOwn, TypeStack, Handle, Layouts, Linked
  <2>2. TypeStack'
    BY DEF IInv, TypeOK, TypeStack, Linked
  <2>3. TypeControl'
    BY DEF IInv, TypeOK, TypeControl, Tasks
  <2>4. HostInv'
    BY DEF IInv, TypeOK, TypeStack, TypeControl, HostInv, Linked
  <2>5. ConnHandleLive'
    BY DEF IInv, TypeOK, TypeStack, TypeControl, ConnHandleLive, HostInv, Linked
  <2> QED
    BY <2>1, <2>2, <2>3, <2>4, <2>5 DEF IInv, TypeOK
<1>3. ASSUME NEW t \in Tasks, Terminate(t) PROVE IInv'
  <2> USE <1>3 DEF Terminate, Goes
  <2>1. TypeOwn'
    BY DEF IInv, TypeOK, TypeOwn, TypeStack, Handle, Layouts, Linked
  <2>2. TypeStack'
    BY DEF IInv, TypeOK, TypeStack, Linked
  <2>3. TypeControl'
    BY DEF IInv, TypeOK, TypeControl, Tasks
  <2>4. HostInv'
    BY DEF IInv, TypeOK, TypeStack, TypeControl, HostInv, Linked
  <2>5. ConnHandleLive'
    BY DEF IInv, TypeOK, TypeStack, TypeControl, ConnHandleLive, HostInv, Linked
  <2> QED
    BY <2>1, <2>2, <2>3, <2>4, <2>5 DEF IInv, TypeOK
<1>4. ASSUME NEW t \in Tasks, TaskScan(t) PROVE IInv'
  <2> USE <1>4 DEF TaskScan, Goes, DiscAccepted
  <2>1. TypeOwn'
    BY DEF IInv, TypeOK, TypeOwn, TypeStack, Handle, Layouts, Linked
  <2>2. TypeStack'
    BY DEF IInv, TypeOK, TypeStack, Linked
  <2>3. TypeControl'
    BY DEF IInv, TypeOK, TypeControl, Tasks
  <2>4. HostInv'
    BY DEF IInv, TypeOK, TypeStack, TypeControl, HostInv, Linked
  <2>5. ConnHandleLive'
    BY DEF IInv, TypeOK, TypeStack, TypeControl, ConnHandleLive, HostInv, Linked
  <2> QED
    BY <2>1, <2>2, <2>3, <2>4, <2>5 DEF IInv, TypeOK
<1>5. ASSUME NEW t \in Tasks, TaskFlag(t) PROVE IInv'
  <2> USE <1>5 DEF TaskFlag, Goes
  <2>1. TypeOwn'
    BY DEF IInv, TypeOK, TypeOwn, TypeStack, Handle, Layouts, Linked
  <2>2. TypeStack'
    BY DEF IInv, TypeOK, TypeStack, Linked
  <2>3. TypeControl'
    BY DEF IInv, TypeOK, TypeControl, Tasks
  <2>4. HostInv'
    BY DEF IInv, TypeOK, TypeStack, TypeControl, HostInv, Linked
  <2>5. ConnHandleLive'
    BY DEF IInv, TypeOK, TypeStack, TypeControl, ConnHandleLive, HostInv, Linked
  <2> QED
    BY <2>1, <2>2, <2>3, <2>4, <2>5 DEF IInv, TypeOK
<1>6. ASSUME NEW t \in Tasks, WriteCheck(t) PROVE IInv'
  <2> USE <1>6 DEF WriteCheck, Goes
  <2>1. TypeOwn'
    BY DEF IInv, TypeOK, TypeOwn, TypeStack, Handle, Layouts, Linked
  <2>2. TypeStack'
    BY DEF IInv, TypeOK, TypeStack, Linked
  <2>3. TypeControl'
    BY DEF IInv, TypeOK, TypeControl, Tasks
  <2>4. HostInv'
    BY DEF IInv, TypeOK, TypeStack, TypeControl, HostInv, Linked
  <2>5. ConnHandleLive'
    BY DEF IInv, TypeOK, TypeStack, TypeControl, ConnHandleLive, HostInv, Linked
  <2> QED
    BY <2>1, <2>2, <2>3, <2>4, <2>5 DEF IInv, TypeOK
<1>7. ASSUME NEW t \in Tasks, Write(t) PROVE IInv'
  <2> USE <1>7 DEF Write, Goes
  <2>1. TypeOwn'
    BY DEF IInv, TypeOK, TypeOwn, TypeStack, Handle, Layouts, Linked
  <2>2. TypeStack'
    <3>1. procs \in Pools /\ command_handle \in Handle
      BY DEF IInv, TypeOK, TypeStack, TypeOwn, Pools
    <3>2. procs' \in Pools
      BY <3>1, GattCallType DEF Ops
    <3> QED
      BY <3>2 DEF IInv, TypeOK, TypeStack, Pools
  <2>3. TypeControl'
    BY DEF IInv, TypeOK, TypeControl, Tasks
  <2>4. HostInv'
    BY DEF IInv, TypeOK, TypeStack, TypeControl, HostInv, Linked
  <2>5. ConnHandleLive'
    BY DEF IInv, TypeOK, TypeStack, TypeControl, ConnHandleLive, HostInv, Linked
  <2> QED
    BY <2>1, <2>2, <2>3, <2>4, <2>5 DEF IInv, TypeOK
<1> QED
  BY <1>1, <1>2, <1>3, <1>4, <1>5, <1>6, <1>7

\* A stuttering step keeps it.
LEMMA StutterInv == IInv /\ UNCHANGED vars => IInv'
BY DEF IInv, TypeOK, TypeOwn, TypeStack, TypeControl, HostInv, ConnHandleLive,
       Linked, vars, own, attrs, radio, links, host

\* The invariant is inductive: it holds at power-up and every step of the
\* host task, the stack and the application tasks keeps it.
THEOREM Invariance == Spec => []IInv
<1>1. Init => IInv
  BY InitInv
<1>2. IInv /\ [Next]_vars => IInv'
  <2> SUFFICES ASSUME IInv, [Next]_vars PROVE IInv'
    OBVIOUS
  <2>1. CASE Sync \/ Reset \/ HostStep \/ GapEvent
    BY <2>1, GapStepInv, LinkStepInv DEF HostStep, GapEvent
  <2>2. CASE \E h \in Handles : GattEvent(h) \/ Notify(h)
    BY <2>2, GattStepInv DEF GattEvent
  <2>3. CASE Start \/ Reconnect \/ \E t \in Tasks : TaskStep(t) \/ WriteCheck(t)
    BY <2>3, TaskStepInv DEF TaskStep
  <2>4. CASE UNCHANGED vars
    BY <2>4, StutterInv
  <2> QED
    BY <2>1, <2>2, <2>3, <2>4 DEF Next
<1> QED
  BY <1>1, <1>2, PTL DEF Spec

\* Every variable keeps to its values in every reachable state.
THEOREM TypeCorrect == Spec => []TypeOK
<1>1. IInv => TypeOK
  BY DEF IInv
<1> QED
  BY <1>1, Invariance, PTL

\* The code never keeps a connection handle the stack has deleted beyond the
\* DISCONNECT handler's first assignment, whatever scans, reconnects and
\* second connections the application tasks bring about.
THEOREM HandleLiveness == Spec => []ConnHandleLive
<1>1. IInv => ConnHandleLive
  BY DEF IInv
<1> QED
  BY <1>1, Invariance, PTL

-----------------------------------------------------------------------------
(* The search for a device never stops. *)

\* When the stack refuses a scan or an attempt only because another GAP
\* procedure is running, the module is never idle and unlinked without one:
\* nothing a task, a lost link, a failed attempt or a reset does in between
\* can leave the gateway waiting for an event that will not come.
THEOREM SearchNeverStops ==
  ASSUME "refuse" \notin Faults
  PROVE  Spec => []SearchesWhenUnlinked
<1>1. Init => SearchesWhenUnlinked
  BY DEF Init, SearchesWhenUnlinked
<1>2. IInv /\ SearchesWhenUnlinked /\ [Next]_vars => SearchesWhenUnlinked'
  <2> SUFFICES ASSUME IInv, SearchesWhenUnlinked, [Next]_vars
               PROVE  SearchesWhenUnlinked'
    OBVIOUS
  <2> USE NoneAssumption
          DEF SearchesWhenUnlinked, own, attrs, radio, links, host
  <2>1. CASE Sync
    BY <2>1 DEF Sync
  <2>2. CASE Reset
    BY <2>2 DEF Reset
  <2>3. CASE HostScan
    BY <2>3 DEF HostScan, DiscAccepted, DiscRefused
  <2>4. CASE AdvCancel \/ AdvConnect
    BY <2>4 DEF AdvCancel, AdvConnect
  <2>5. CASE Up \/ UpFlag \/ LinkGone \/ Down \/ DownFlag
    BY <2>5 DEF Up, UpFlag, LinkGone, Down, DownFlag
  <2>6. CASE UpDiscover
    <3>1. conn_handle # None
      BY <2>6 DEF UpDiscover, IInv, HostInv, Linked
    <3> QED
      BY <2>6, <3>1 DEF UpDiscover
  <2>7. CASE GapEvent
    BY <2>7 DEF GapEvent, AdvReport, ConnectFail, ConnectOk, LinkDown
  <2>8. ASSUME NEW h \in Handles, GattEvent(h) \/ Notify(h)
        PROVE  SearchesWhenUnlinked'
    BY <2>8 DEF GattEvent, Notify, SvcFound, ChrFound, ProcEnds, IdentityRead,
                StatusRead, CccdWritten, CommandWritten
  <2>9. CASE Start \/ Reconnect
    BY <2>9 DEF Start, Reconnect
  <2>10. ASSUME NEW t \in Tasks, TaskStep(t) \/ WriteCheck(t)
         PROVE  SearchesWhenUnlinked'
    BY <2>10 DEF TaskStep, Terminate, TaskScan, TaskFlag, Write, WriteCheck
  <2>11. CASE UNCHANGED vars
    BY <2>11 DEF vars
  <2> QED
    BY <2>1, <2>2, <2>3, <2>4, <2>5, <2>6, <2>7, <2>8, <2>9, <2>10, <2>11
       DEF Next, HostStep
<1> QED
  BY <1>1, <1>2, Invariance, PTL DEF Spec

-----------------------------------------------------------------------------
(* One link, when only the host task starts scans. *)

\* Outside the callbacks that set a connection up or tear it down, there is
\* no link while a GAP procedure runs, and conn_handle names the link if there
\* is one; the flag lags behind only within those callbacks.
LinkInv ==
  /\ \A t \in Tasks : tpc[t] \in {"boot", "idle", "write"}
  /\ \/ gap # "idle"
     \/ hpc \in {"scan", "cancel", "connect", "down", "fail", "downflag"}
     => Linked = {}
  /\ hpc \in {"up", "upflag", "discover", "broken"} => Linked = {hconn}
  /\ hpc \in {"scan", "cancel", "connect"} =>
       conn_handle = None /\ ~device.connected
  /\ hpc = "downflag" => conn_handle = None
  /\ hpc = "discover" => device.connected

OneLinkInv == LinkInv /\ OneLink /\ FlagAgrees

\* Every step keeps the single link, as long as the tasks only write.
LEMMA OneLinkStep ==
  ASSUME Calls \subseteq {"write"}, IInv, OneLinkInv, [Next]_vars
  PROVE  OneLinkInv'
<1> USE NoneAssumption
        DEF OneLinkInv, LinkInv, OneLink, FlagAgrees, Linked, Tasks,
            own, attrs, radio, links, host
<1> USE DEF IInv, TypeOK, TypeOwn, TypeStack, TypeControl, HostInv,
            ConnHandleLive
<1>1. CASE Sync
  BY <1>1 DEF Sync
<1>2. CASE Reset
  BY <1>2 DEF Reset
<1>3. CASE HostScan
  BY <1>3 DEF HostScan
<1>4. CASE AdvCancel \/ AdvConnect
  BY <1>4 DEF AdvCancel, AdvConnect
<1>5. CASE Up \/ UpFlag \/ UpDiscover
  BY <1>5 DEF Up, UpFlag, UpDiscover
<1>6. CASE LinkGone
  BY <1>6 DEF LinkGone
<1>7. CASE Down \/ DownFlag
  <2>1. CASE Down
    BY <2>1 DEF Down
  <2>2. CASE DownFlag
    BY <2>2 DEF DownFlag
  <2> QED
    BY <1>7, <2>1, <2>2
<1>8. CASE ConnectFail \/ \E d \in Devices : AdvReport(d)
  BY <1>8 DEF ConnectFail, AdvReport
<1>9. ASSUME NEW h \in Handles, ConnectOk(h) PROVE OneLinkInv'
  BY <1>9 DEF ConnectOk
<1>10. ASSUME NEW h \in Handles, LinkDown(h) PROVE OneLinkInv'
  BY <1>10 DEF LinkDown
<1>11. ASSUME NEW h \in Handles, GattEvent(h) \/ Notify(h) PROVE OneLinkInv'
  <2>1. CASE IdentityRead(h)
    BY <2>1 DEF IdentityRead, Answers
  <2>2. CASE SvcFound(h) \/ ChrFound(h) \/ ProcEnds(h) \/ CccdWritten(h)
             \/ CommandWritten(h)
    BY <2>2 DEF SvcFound, ChrFound, ProcEnds, CccdWritten, CommandWritten
  <2>3. CASE StatusRead(h) \/ Notify(h)
    <3>1. device'.connected = device.connected
      BY <2>3 DEF StatusRead, Notify
    <3> QED
      BY <2>3, <3>1 DEF StatusRead, Notify
  <2> QED
    BY <1>11, <2>1, <2>2, <2>3 DEF GattEvent
<1>12. ASSUME NEW t \in Tasks, TaskStep(t) \/ WriteCheck(t) PROVE OneLinkInv'
  BY <1>12 DEF TaskStep, Terminate, TaskScan, TaskFlag, Write, WriteCheck, Goes
<1>13. CASE Start \/ Reconnect
  BY <1>13 DEF Start, Reconnect
<1>14. CASE UNCHANGED vars
  BY <1>14 DEF vars
<1> QED
  BY <1>1, <1>2, <1>3, <1>4, <1>5, <1>6, <1>7, <1>8, <1>9, <1>10, <1>11, <1>12,
     <1>13, <1>14 DEF Next, HostStep, GapEvent


\* So the single link is an invariant.
LEMMA OneLinkInvariance ==
  ASSUME Calls \subseteq {"write"}
  PROVE  Spec => [](IInv /\ OneLinkInv)
<1>1. Init => OneLinkInv
  BY NoneAssumption
     DEF Init, OneLinkInv, LinkInv, OneLink, FlagAgrees, Linked, Tasks
<1>2. IInv /\ OneLinkInv /\ [Next]_vars => OneLinkInv'
  BY OneLinkStep
<1> QED
  BY <1>1, <1>2, Invariance, PTL DEF Spec

\* If start and reconnect do not call start_scan beside the host task, there
\* is never more than one connection, and conn_handle names it between
\* callbacks: the second scan of an application task is the only way the
\* gateway can lose track of a link.
THEOREM SingleLink ==
  ASSUME Calls \subseteq {"write"}
  PROVE  Spec => []OneLink
<1>1. IInv /\ OneLinkInv => OneLink
  BY DEF OneLinkInv
<1> QED
  BY <1>1, OneLinkInvariance, PTL

\* Then, too, the connected flag the core reads agrees with the conn_handle
\* the write path checks, between any two callbacks.
THEOREM FlagFollowsLink ==
  ASSUME Calls \subseteq {"write"}
  PROVE  Spec => []FlagAgrees
<1>1. IInv /\ OneLinkInv => FlagAgrees
  BY DEF OneLinkInv
<1> QED
  BY <1>1, OneLinkInvariance, PTL

-----------------------------------------------------------------------------
(* The attribute handles are those of the one link. *)

\* A handle is kept only from an answer of the link that is up, after
\* start_service_discovery has forgotten those of the link before.
LEMMA HandlesStep ==
  ASSUME IInv, OneLinkInv, HandlesOfThisLink, [Next]_vars
  PROVE  HandlesOfThisLink'
<1> USE NoneAssumption
        DEF HandlesOfThisLink, Linked, own, attrs, radio, links, host
<1> USE DEF IInv, TypeOK, TypeOwn, TypeStack, OneLinkInv, LinkInv, OneLink,
            HostInv
<1>1. CASE Sync \/ Reset \/ HostScan
  BY <1>1 DEF Sync, Reset, HostScan
<1>2. CASE AdvCancel \/ AdvConnect \/ Up \/ UpFlag
  BY <1>2 DEF AdvCancel, AdvConnect, Up, UpFlag
<1>3. CASE UpDiscover
  BY <1>3 DEF UpDiscover
<1>4. CASE LinkGone \/ Down \/ DownFlag
  BY <1>4 DEF LinkGone, Down, DownFlag
<1>5. CASE GapEvent
  BY <1>5 DEF GapEvent, AdvReport, ConnectFail, ConnectOk, LinkDown
<1>6. ASSUME NEW h \in Handles, GattEvent(h) \/ Notify(h)
      PROVE  HandlesOfThisLink'
  <2>1. CASE SvcFound(h)
    BY <2>1 DEF SvcFound, Answers
  <2>2. CASE ChrFound(h)
    BY <2>2 DEF ChrFound, Answers
  <2>3. CASE ProcEnds(h) \/ IdentityRead(h) \/ StatusRead(h) \/ CccdWritten(h)
             \/ CommandWritten(h) \/ Notify(h)
    BY <2>3 DEF ProcEnds, IdentityRead, StatusRead, CccdWritten,
                CommandWritten, Notify
  <2> QED
    BY <1>6, <2>1, <2>2, <2>3 DEF GattEvent
<1>7. CASE Start \/ Reconnect \/ \E t \in Tasks : TaskStep(t) \/ WriteCheck(t)
  BY <1>7 DEF Start, Reconnect, TaskStep, Terminate, TaskScan, TaskFlag, Write,
              WriteCheck
<1>8. CASE UNCHANGED vars
  BY <1>8 DEF vars
<1> QED
  BY <1>1, <1>2, <1>3, <1>4, <1>5, <1>6, <1>7, <1>8
     DEF Next, HostStep, GapEvent

\* With one link, no command can be written to, and no status taken from, a
\* handle that was discovered on the device before: once discovery of a new
\* link has begun, what is kept is nothing or belongs to this device.
THEOREM HandlesFollowLink ==
  ASSUME Calls \subseteq {"write"}
  PROVE  Spec => []HandlesOfThisLink
<1>1. Init => HandlesOfThisLink
  BY NoneAssumption DEF Init, HandlesOfThisLink, Linked
<1>2. IInv /\ OneLinkInv /\ HandlesOfThisLink /\ [Next]_vars
        => HandlesOfThisLink'
  BY HandlesStep
<1> QED
  BY <1>1, <1>2, OneLinkInvariance, PTL DEF Spec

-----------------------------------------------------------------------------
(* A status is only asked of, and only taken from, an identified device. *)

StatusOps == {"read_status", "cccd"}

\* A procedure that will bring in a status is outstanding at h.
Asks(ps, h) == \E i \in 1 .. Len(ps[h]) : ps[h][i].op \in StatusOps

(* A GATT call asks for a status only of the connection it is made on, and
   only if that is what it is for. *)
LEMMA GattCallAsks ==
  ASSUME NEW ps \in Pools, NEW h, NEW op \in Ops, NEW at \in Handle,
         NEW qs \in GattCall(ps, h, op, at), NEW g \in Handles, Asks(qs, g)
  PROVE  Asks(ps, g) \/ (g = h /\ op \in StatusOps)
<1>1. CASE qs = ps
  BY <1>1
<1>2. CASE h \in Handles /\ qs = [ps EXCEPT ![h] = Append(@, [op |-> op, at |-> at])]
  <2> DEFINE p == [op |-> op, at |-> at]
  <2>1. p.op = op /\ p \in Proc
    BY DEF Proc
  <2>2. qs = [ps EXCEPT ![h] = Append(ps[h], p)]
    BY <1>2
  <2> HIDE DEF p
  <2>3. ps[h] \in Seq(Proc) /\ ps \in [Handles -> Seq(Proc)]
    BY <1>2 DEF Pools
  <2>4. CASE g = h
    <3>1. qs[g] = Append(ps[g], p)
      BY <1>2, <2>2, <2>3, <2>4
    <3>2. PICK i \in 1 .. Len(qs[g]) : qs[g][i].op \in StatusOps
      BY DEF Asks
    <3>3. /\ Len(qs[g]) = Len(ps[g]) + 1 /\ Len(ps[g]) \in Nat
          /\ \A j \in 1 .. Len(ps[g]) : qs[g][j] = ps[g][j]
          /\ qs[g][Len(ps[g]) + 1] = p
      BY <2>1, <2>3, <2>4, <3>1, AppendProperties, LenProperties
    <3>4. CASE i = Len(ps[g]) + 1
      BY <2>1, <2>4, <3>2, <3>3, <3>4
    <3>5. CASE i # Len(ps[g]) + 1
      BY <3>2, <3>3, <3>5 DEF Asks
    <3> QED
      BY <3>4, <3>5
  <2>5. CASE g # h
    BY <2>2, <2>3, <2>5 DEF Asks
  <2> QED
    BY <2>4, <2>5
<1> QED
  BY <1>1, <1>2 DEF GattCall, CanCall, Linked

(* The discovery chain never asks for a status. *)
LEMMA DiscoverNextAsks ==
  ASSUME TypeOK, NEW ps \in Pools, NEW range \in Handle,
         NEW qs \in DiscoverNext(ps, range), NEW g \in Handles, Asks(qs, g)
  PROVE  Asks(ps, g)
<1>1. \E op \in Ops \ StatusOps, at \in Handle :
        qs \in GattCall(ps, conn_handle, op, at)
  <2>1. identity_handle \in Handle
    BY DEF TypeOK, TypeOwn
  <2>2. CASE None \notin {command_handle, status_handle, identity_handle}
    BY <2>1, <2>2 DEF DiscoverNext, Ops, StatusOps
  <2>3. CASE command_handle = None
    BY <2>3 DEF DiscoverNext, Ops, Chars, StatusOps
  <2>4. CASE command_handle # None /\ status_handle = None
    BY <2>4 DEF DiscoverNext, Ops, Chars, StatusOps
  <2>5. CASE command_handle # None /\ status_handle # None /\ identity_handle = None
    BY <2>5 DEF DiscoverNext, Ops, Chars, StatusOps
  <2> QED
    BY <2>2, <2>3, <2>4, <2>5
<1> QED
  BY <1>1, GattCallAsks

(* An answered or reported procedure asks for nothing new, and the head asks
   as long as it is there. *)
LEMMA PoppedAsks ==
  ASSUME NEW ps \in Pools, NEW h \in Handles, ps[h] # <<>>
  PROVE  /\ \A g \in Handles : Asks(Popped(ps, h), g) => Asks(ps, g)
         /\ \A g \in Handles : Asks(Reported(ps, h), g) => Asks(ps, g)
         /\ Head(ps[h]).op \in StatusOps => Asks(ps, h)
<1>1. /\ ps[h] \in Seq(Proc) /\ ps \in [Handles -> Seq(Proc)]
      /\ 1 \in 1 .. Len(ps[h]) /\ Len(ps[h]) \in Nat /\ ps[h][1] \in Proc
  BY EmptySeq, LenProperties, ElementOfSeq DEF Pools
<1>2. /\ Tail(ps[h]) \in Seq(Proc) /\ Len(Tail(ps[h])) = Len(ps[h]) - 1
      /\ \A i \in 1 .. Len(Tail(ps[h])) : Tail(ps[h])[i] = ps[h][i + 1]
      /\ Head(ps[h]) = ps[h][1]
  BY <1>1, HeadTailProperties
<1>3. Head(ps[h]).op \in StatusOps => Asks(ps, h)
  BY <1>1, <1>2 DEF Asks
<1>4. ASSUME NEW g \in Handles, Asks(Popped(ps, h), g) PROVE Asks(ps, g)
  <2>1. CASE g = h
    <3>1. Popped(ps, h)[g] = Tail(ps[h])
      BY <1>1, <2>1 DEF Popped
    <3>2. PICK i \in 1 .. Len(Tail(ps[h])) : Tail(ps[h])[i].op \in StatusOps
      BY <1>4, <3>1 DEF Asks
    <3> QED
      BY <1>1, <1>2, <2>1, <3>2 DEF Asks
  <2>2. CASE g # h
    BY <1>1, <1>4, <2>2 DEF Popped, Asks
  <2> QED
    BY <2>1, <2>2
<1>5. ASSUME NEW g \in Handles, Asks(Reported(ps, h), g) PROVE Asks(ps, g)
  <2> DEFINE e == [ps[h][1] EXCEPT !.at = None]
             q == [ps[h] EXCEPT ![1] = e]
  <2>1. e \in Proc /\ e.op = ps[h][1].op
    BY <1>1 DEF Proc, Handle
  <2>2. Reported(ps, h) = [ps EXCEPT ![h] = q]
    BY DEF Reported
  <2> HIDE DEF e
  <2>3. Len(q) = Len(ps[h]) /\ \A i \in 1 .. Len(ps[h]) : q[i].op = ps[h][i].op
    BY <1>1, <2>1, ExceptSeq
  <2> HIDE DEF q
  <2>4. CASE g = h
    BY <1>1, <1>5, <2>2, <2>3, <2>4 DEF Asks
  <2>5. CASE g # h
    BY <1>1, <1>5, <2>2, <2>5 DEF Asks
  <2> QED
    BY <2>4, <2>5
<1> QED
  BY <1>3, <1>4, <1>5

(* Whatever is subscribed to or asked for its status is linked, and the
   identity on record is its own. *)
IdentifiedInv ==
  \A h \in Handles :
    subscribed[h] \/ Asks(procs, h) =>
      h \in Linked /\ device.device_id = peer[h]

(* A step that asks for nothing new and keeps links, subscriptions and the
   identity keeps the invariant. *)
LEMMA QuietIdentified ==
  ASSUME IdentifiedInv, UNCHANGED <<peer, subscribed>>,
         device'.device_id = device.device_id,
         \A g \in Handles : Asks(procs', g) => Asks(procs, g)
  PROVE  IdentifiedInv'
<1>1. \A g \in Handles : Asks(procs, g)' = Asks(procs', g)
  BY DEF Asks
<1> QED
  BY <1>1 DEF IdentifiedInv, Linked

(* The GATT callbacks: only read_identity_cb asks for a status, of the device
   whose identity it has just put on record. *)
LEMMA GattStepIdentified ==
  ASSUME IInv, OneLinkInv, IdentifiedInv, NEW h \in Handles,
         GattEvent(h) \/ Notify(h)
  PROVE  IdentifiedInv'
<1>1. /\ procs \in Pools /\ TypeOK
      /\ {svc, command_handle, status_handle, identity_handle} \subseteq Handle
      /\ \A d \in Devices : Layout[d] \in Handle
      /\ peer \in [Handles -> Devices \cup {None}]
      /\ device \in [device_id : Devices \cup {None},
                     status : Devices \cup {None}, connected : BOOLEAN]
  BY DEF IInv, TypeOK, TypeStack, TypeOwn, Pools, Handle, Layouts
<1>2. CASE SvcFound(h)
  <2>1. procs[h] # <<>> /\ h \in Linked
        /\ procs' \in DiscoverNext(Reported(procs, h), Layout[peer[h]])
        /\ UNCHANGED <<peer, subscribed, device>>
    BY <1>2 DEF SvcFound, Answers, links
  <2>2. Layout[peer[h]] \in Handle
    BY <1>1, <2>1 DEF Linked
  <2>3. Reported(procs, h) \in Pools
    BY <1>1, <2>1, PoppedType
  <2>4. \A g \in Handles : Asks(procs', g) => Asks(procs, g)
    BY <1>1, <2>1, <2>2, <2>3, DiscoverNextAsks, PoppedAsks
  <2> QED
    BY <2>1, <2>4, QuietIdentified
<1>3. CASE ChrFound(h)
  <2>1. procs[h] # <<>> /\ procs' = Reported(procs, h)
        /\ UNCHANGED <<peer, subscribed, device>>
    BY <1>3 DEF ChrFound, Answers, links
  <2>2. \A g \in Handles : Asks(procs', g) => Asks(procs, g)
    BY <1>1, <2>1, PoppedAsks
  <2> QED
    BY <2>1, <2>2, QuietIdentified
<1>4. CASE ProcEnds(h)
  <2>1. procs[h] # <<>> /\ UNCHANGED <<peer, subscribed, device>>
    BY <1>4 DEF ProcEnds, links
  <2>2. PICK ps \in DiscoverNext(procs, svc) \cup {procs} : procs' = Popped(ps, h)
    BY <1>4 DEF ProcEnds
  <2>3. /\ ps \in Pools /\ ps[h] # <<>>
        /\ \A g \in Handles : Asks(ps, g) => Asks(procs, g)
    BY <1>1, <2>1, <2>2, DiscoverNextType, DiscoverNextAsks
  <2>4. \A g \in Handles : Asks(procs', g) => Asks(procs, g)
    BY <2>2, <2>3, PoppedAsks
  <2> QED
    BY <2>1, <2>4, QuietIdentified
<1>5. CASE IdentityRead(h)
  <2>1. /\ procs[h] # <<>> /\ h \in Linked /\ conn_handle = h
        /\ \A g \in Linked : g = h
        /\ device' = [device EXCEPT !.device_id = peer[h], !.connected = TRUE]
        /\ UNCHANGED <<peer, subscribed>>
    BY <1>5 DEF IdentityRead, Answers, OneLinkInv, OneLink
  <2>2. PICK read \in {procs} \cup GattCall(procs, h, "read_status", status_handle) :
          \E both \in {procs} \cup GattCall(read, h, "cccd", status_handle) :
            procs' = Popped(both, h)
    BY <1>5, <2>1 DEF IdentityRead
  <2>3. PICK both \in {procs} \cup GattCall(read, h, "cccd", status_handle) :
          procs' = Popped(both, h)
    BY <2>2
  <2>4. ASSUME NEW ps \in Pools, NEW op \in {"read_status", "cccd"}, ps[h] # <<>>,
               NEW qs \in GattCall(ps, h, op, status_handle)
        PROVE  /\ qs \in Pools /\ qs[h] # <<>>
               /\ \A g \in Handles : Asks(qs, g) => Asks(ps, g) \/ g = h
    <3>1. op \in Ops /\ status_handle \in Handle
      BY <1>1 DEF Ops
    <3>2. qs \in Pools /\ qs[h] # <<>>
      BY <3>1, <2>4, GattCallType
    <3>3. \A g \in Handles : Asks(qs, g) => Asks(ps, g) \/ g = h
      BY <3>1, GattCallAsks
    <3> QED
      BY <3>2, <3>3
  <2>5. /\ read \in Pools /\ read[h] # <<>>
        /\ \A g \in Handles : Asks(read, g) => Asks(procs, g) \/ g = h
    BY <1>1, <2>1, <2>2, <2>4
  <2>6. /\ both \in Pools /\ both[h] # <<>>
        /\ \A g \in Handles : Asks(both, g) => Asks(procs, g) \/ g = h
    BY <1>1, <2>1, <2>3, <2>4, <2>5
  <2>7. \A g \in Handles : Asks(procs', g) => Asks(procs, g) \/ g = h
    BY <2>3, <2>6, PoppedAsks
  <2>8. device'.device_id = peer[h]
    BY <1>1, <2>1
  <2>9. \A g \in Handles : Asks(procs, g)' = Asks(procs', g)
    BY DEF Asks
  <2> QED
    BY <2>1, <2>7, <2>8, <2>9 DEF IdentifiedInv, Linked
<1>6. CASE StatusRead(h) \/ CommandWritten(h)
  <2>1. procs[h] # <<>> /\ procs' = Popped(procs, h)
        /\ UNCHANGED <<peer, subscribed>>
        /\ device'.device_id = device.device_id
    BY <1>1, <1>6 DEF StatusRead, CommandWritten, Answers
  <2>2. \A g \in Handles : Asks(procs', g) => Asks(procs, g)
    BY <1>1, <2>1, PoppedAsks
  <2> QED
    BY <2>1, <2>2, QuietIdentified
<1>7. CASE CccdWritten(h)
  <2>1. /\ procs[h] # <<>> /\ procs' = Popped(procs, h) /\ Asks(procs, h)
        /\ UNCHANGED <<peer, device>>
        /\ subscribed' = [subscribed EXCEPT ![h] = TRUE]
    BY <1>1, <1>7, PoppedAsks DEF CccdWritten, Answers, StatusOps
  <2>2. \A g \in Handles : Asks(procs', g) => Asks(procs, g)
    BY <1>1, <2>1, PoppedAsks
  <2>3. \A g \in Handles : Asks(procs, g)' = Asks(procs', g)
    BY DEF Asks
  <2>4. \A g \in Handles : subscribed'[g] => subscribed[g] \/ g = h
    BY <2>1 DEF IInv, TypeOK, TypeStack
  <2> QED
    BY <2>1, <2>2, <2>3, <2>4 DEF IdentifiedInv, Linked
<1>8. CASE Notify(h)
  <2>1. UNCHANGED <<peer, procs, subscribed>>
        /\ device'.device_id = device.device_id
    BY <1>1, <1>8 DEF Notify, links
  <2> QED
    BY <2>1, QuietIdentified
<1> QED
  BY <1>2, <1>3, <1>4, <1>5, <1>6, <1>7, <1>8 DEF GattEvent

\* Every step keeps it.
LEMMA IdentifiedStep ==
  ASSUME IInv, OneLinkInv, IdentifiedInv, [Next]_vars
  PROVE  IdentifiedInv'
<1>1. procs \in Pools /\ command_handle \in Handle
  BY DEF IInv, TypeOK, TypeStack, TypeOwn, Pools
<1>2. CASE UpDiscover
  <2>1. Layout[peer[hconn]] \in Handle
    BY <1>2 DEF UpDiscover, IInv, TypeOK, TypeStack, HostInv, Linked, Layouts, Handle
  <2>2. /\ procs' \in GattCall(procs, conn_handle, "svc", Layout[peer[hconn]])
        /\ "svc" \in Ops \ StatusOps /\ UNCHANGED <<peer, subscribed, device>>
    BY <1>2 DEF UpDiscover, Ops, StatusOps
  <2> QED
    BY <1>1, <2>1, <2>2, GattCallAsks, QuietIdentified
<1>3. ASSUME NEW t \in Tasks, Write(t) PROVE IdentifiedInv'
  <2>1. /\ procs' \in GattCall(procs, conn_handle, "write", command_handle)
        /\ "write" \in Ops \ StatusOps /\ UNCHANGED <<peer, subscribed, device>>
    BY <1>3 DEF Write, Ops, StatusOps
  <2> QED
    BY <1>1, <2>1, GattCallAsks, QuietIdentified
<1>4. CASE LinkGone
  <2>1. /\ peer' = [peer EXCEPT ![hconn] = None] /\ hconn \in Handles
        /\ subscribed' = [subscribed EXCEPT ![hconn] = FALSE]
        /\ procs[hconn] = <<>> /\ UNCHANGED <<procs, device>>
    BY <1>4 DEF LinkGone, IInv, HostInv, Linked
  <2>2. ~Asks(procs, hconn)
    BY <2>1, EmptySeq DEF Asks
  <2>3. \A g \in Handles : Asks(procs, g)' = Asks(procs, g)
    BY <2>1 DEF Asks
  <2>4. ~subscribed'[hconn]
        /\ \A g \in Handles \ {hconn} : subscribed'[g] = subscribed[g]
                                        /\ peer'[g] = peer[g]
    BY <2>1 DEF IInv, TypeOK, TypeStack
  <2> QED
    BY <2>1, <2>2, <2>3, <2>4 DEF IdentifiedInv, Linked
<1>5. ASSUME NEW h \in Handles, ConnectOk(h) PROVE IdentifiedInv'
  <2>1. /\ h \notin Linked /\ peer' = [peer EXCEPT ![h] = target]
        /\ UNCHANGED <<procs, subscribed, device>>
    BY <1>5 DEF ConnectOk
  <2>2. \A g \in Handles : Asks(procs, g)' = Asks(procs, g)
    BY <2>1 DEF Asks
  <2>3. \A g \in Handles \ {h} : peer'[g] = peer[g]
    BY <2>1 DEF IInv, TypeOK, TypeStack
  <2> QED
    BY <2>1, <2>2, <2>3 DEF IdentifiedInv, Linked
<1>6. CASE \E h \in Handles : GattEvent(h) \/ Notify(h)
  BY <1>6, GattStepIdentified
<1>7. CASE \/ Sync \/ Reset \/ HostScan \/ AdvCancel \/ AdvConnect \/ Up
           \/ UpFlag \/ Down \/ DownFlag \/ ConnectFail \/ Start \/ Reconnect
           \/ (\E d \in Devices : AdvReport(d))
           \/ (\E h \in Handles : LinkDown(h))
           \/ (\E t \in Tasks : Terminate(t) \/ TaskScan(t) \/ TaskFlag(t)
                                \/ WriteCheck(t))
           \/ UNCHANGED vars
  <2>1. UNCHANGED <<peer, procs, subscribed>>
    BY <1>7 DEF Sync, Reset, HostScan, AdvCancel, AdvConnect, Up, UpFlag, Down,
       DownFlag, ConnectFail, Start, Reconnect, AdvReport, LinkDown, Terminate,
       TaskScan, TaskFlag, WriteCheck, vars, links
  <2>2. device'.device_id = device.device_id
    <3>1. CASE UpFlag \/ DownFlag
      BY <3>1 DEF UpFlag, DownFlag, IInv, TypeOK, TypeOwn
    <3>2. CASE ~(UpFlag \/ DownFlag)
      BY <1>7, <3>2 DEF Sync, Reset, HostScan, AdvCancel, AdvConnect, Up, Down,
         ConnectFail, Start, Reconnect, AdvReport, LinkDown, Terminate,
         TaskScan, TaskFlag, WriteCheck, vars
    <3> QED
      BY <3>1, <3>2
  <2> QED
    BY <2>1, <2>2, QuietIdentified
<1> QED
  BY <1>2, <1>3, <1>4, <1>5, <1>6, <1>7
     DEF Next, HostStep, GapEvent, TaskStep

LEMMA IdentifiedInvariance ==
  ASSUME Calls \subseteq {"write"}
  PROVE  Spec => [](IInv /\ OneLinkInv /\ IdentifiedInv)
<1>1. Init => IdentifiedInv
  BY EmptySeq DEF Init, IdentifiedInv, Asks
<1>2. IInv /\ OneLinkInv /\ IdentifiedInv /\ [Next]_vars => IdentifiedInv'
  BY IdentifiedStep
<1> QED
  BY <1>1, <1>2, OneLinkInvariance, PTL DEF Spec

\* With one link, a device is asked for its status, or notifies it, only when
\* its own identity is on record: whatever links, losses, refused calls and
\* failed procedures came before, no status is filed under another device.
THEOREM IdentityComesFirst ==
  ASSUME Calls \subseteq {"write"}
  PROVE  Spec => []IdentityBeforeStatus
<1>1. IdentifiedInv => IdentityBeforeStatus
  BY DEF IdentifiedInv, IdentityBeforeStatus, Asks, StatusOps, Linked
<1> QED
  BY <1>1, IdentifiedInvariance, PTL

-----------------------------------------------------------------------------
(* The module implements BleLink. *)

\* What a step leaves alone: the abstract link and the record.
Unseen == UNCHANGED <<conn_handle, peer, device>>

(* The steps that change what the rest of the firmware sees are those of the
   connection's beginning and end, the identity and the status. *)
LEMMA QuietSteps ==
  ASSUME [Next]_vars
  PROVE  \/ Unseen
         \/ Up \/ UpFlag \/ LinkGone \/ Down \/ DownFlag
         \/ \E h \in Handles : ConnectOk(h) \/ IdentityRead(h)
                               \/ StatusRead(h) \/ Notify(h)
<1> USE DEF Unseen, own, links, vars
<1>1. CASE Sync \/ Reset \/ HostScan \/ AdvCancel \/ AdvConnect \/ UpDiscover
           \/ ConnectFail \/ Start \/ Reconnect
  BY <1>1 DEF Sync, Reset, HostScan, AdvCancel, AdvConnect, UpDiscover,
              ConnectFail, Start, Reconnect
<1>2. CASE (\E d \in Devices : AdvReport(d)) \/ \E h \in Handles : LinkDown(h)
  BY <1>2 DEF AdvReport, LinkDown
<1>3. CASE \E h \in Handles : SvcFound(h) \/ ChrFound(h) \/ ProcEnds(h)
                              \/ CccdWritten(h) \/ CommandWritten(h)
  BY <1>3 DEF SvcFound, ChrFound, ProcEnds, CccdWritten, CommandWritten
<1>4. CASE \E t \in Tasks : TaskStep(t) \/ WriteCheck(t)
  BY <1>4 DEF TaskStep, Terminate, TaskScan, TaskFlag, Write, WriteCheck
<1> QED
  BY <1>1, <1>2, <1>3, <1>4 DEF Next, HostStep, GapEvent, GattEvent

\* A status or a notification comes from the device on record, over the link.
LEMMA StatusOfRecord ==
  ASSUME IInv, OneLinkInv, IdentifiedInv, NEW h \in Handles,
         StatusRead(h) \/ Notify(h)
  PROVE  /\ h \in Linked /\ conn_handle = h /\ device.connected
         /\ device.device_id = peer[h]
         /\ device' = [device EXCEPT !.status = peer[h]]
         /\ UNCHANGED <<conn_handle, peer>>
<1>1. procs \in Pools
  BY DEF IInv, TypeOK, TypeStack, Pools
<1>2. h \in Linked /\ conn_handle = h /\ device.connected
  BY NoneAssumption
     DEF StatusRead, Notify, Answers, OneLinkInv, OneLink, FlagAgrees
<1>3. subscribed[h] \/ Asks(procs, h)
  BY <1>1, PoppedAsks DEF StatusRead, Notify, Answers, StatusOps
<1> QED
  BY <1>2, <1>3 DEF IdentifiedInv, StatusRead, Notify, own, links

\* The identity on record changes only to that of the device at the other end
\* of conn_handle, and a status only to that of the device on record: what
\* the upload sends is never put together from two devices by one step.
THEOREM RecordIsOfLink ==
  ASSUME Calls \subseteq {"write"}
  PROVE  Spec => RecordFollowsLink
<1> DEFINE Follows ==
      /\ device'.device_id # device.device_id =>
           conn_handle \in Linked /\ device'.device_id = peer[conn_handle]
      /\ device'.status # device.status => device'.status = device.device_id
<1>1. IInv /\ OneLinkInv /\ IdentifiedInv /\ [Next]_vars => [Follows]_vars
  <2> SUFFICES ASSUME IInv, OneLinkInv, IdentifiedInv, [Next]_vars
               PROVE  Follows
    OBVIOUS
  <2>1. device \in [device_id : Devices \cup {None},
                    status : Devices \cup {None}, connected : BOOLEAN]
    BY DEF IInv, TypeOK, TypeOwn
  <2>2. CASE Unseen
    BY <2>2 DEF Unseen
  <2>3. CASE Up \/ LinkGone \/ Down \/ \E h \in Handles : ConnectOk(h)
    BY <2>3 DEF Up, LinkGone, Down, ConnectOk
  <2>4. CASE UpFlag \/ DownFlag
    BY <2>1, <2>4 DEF UpFlag, DownFlag
  <2>5. ASSUME NEW h \in Handles, IdentityRead(h) PROVE Follows
    BY <2>1, <2>5 DEF IdentityRead, Answers, OneLinkInv, OneLink
  <2>6. ASSUME NEW h \in Handles, StatusRead(h) \/ Notify(h) PROVE Follows
    BY <2>1, <2>6, StatusOfRecord
  <2> QED
    BY <2>2, <2>3, <2>4, <2>5, <2>6, QuietSteps
<1> QED
  BY <1>1, IdentifiedInvariance, PTL DEF Spec, RecordFollowsLink

\* While a connection comes up, the record still says that there is none.
ComingUp == hpc = "up" => conn_handle = None /\ ~device.connected

LEMMA ComingUpStep ==
  ASSUME IInv, OneLinkInv, ComingUp, [Next]_vars
  PROVE  ComingUp'
<1> USE DEF ComingUp, own, host
<1>1. ASSUME NEW h \in Handles, ConnectOk(h) PROVE ComingUp'
  <2>1. Linked = {} /\ hpc = "idle" /\ UNCHANGED <<conn_handle, device>>
    BY <1>1 DEF ConnectOk, OneLinkInv, LinkInv
  <2> QED
    BY <2>1 DEF IInv, ConnHandleLive, OneLinkInv, FlagAgrees
<1>2. CASE hpc' # "up"
  BY <1>2
<1>3. CASE hpc' = "up" /\ hpc = "up"
  <2>1. CASE \E t \in Tasks : TaskStep(t) \/ WriteCheck(t)
    BY <1>3, <2>1 DEF TaskStep, Terminate, TaskScan, TaskFlag, Write, WriteCheck
  <2>2. CASE Start \/ Reconnect
    BY <1>3, <2>2 DEF Start, Reconnect
  <2>3. CASE UNCHANGED vars
    BY <1>3, <2>3 DEF vars
  <2>4. CASE Sync \/ Reset \/ HostStep \/ GapEvent
    BY <1>3, <2>4 DEF Sync, Reset, HostStep, HostScan, AdvCancel, AdvConnect,
       Up, UpFlag, UpDiscover, LinkGone, Down, DownFlag, GapEvent, AdvReport,
       ConnectFail, ConnectOk, LinkDown
  <2>5. CASE \E h \in Handles : Notify(h) \/ SvcFound(h) \/ ChrFound(h)
               \/ IdentityRead(h) \/ StatusRead(h) \/ CccdWritten(h)
               \/ CommandWritten(h)
    BY <1>3, <2>5 DEF Notify, SvcFound, ChrFound, IdentityRead, StatusRead,
       CccdWritten, CommandWritten, Answers
  <2>6. CASE \E h \in Handles : ProcEnds(h)
    BY <1>3, <2>6 DEF ProcEnds
  <2> QED
    BY <2>1, <2>2, <2>3, <2>4, <2>5, <2>6 DEF Next, GattEvent
<1>4. CASE hpc' = "up" /\ hpc # "up" /\ ~\E h \in Handles : ConnectOk(h)
  <2>1. CASE Sync \/ Reset \/ HostStep \/ ConnectFail
             \/ (\E d \in Devices : AdvReport(d)) \/ \E h \in Handles : LinkDown(h)
    BY <1>4, <2>1 DEF Sync, Reset, HostStep, HostScan, AdvCancel, AdvConnect,
       Up, UpFlag, UpDiscover, LinkGone, Down, DownFlag, AdvReport,
       ConnectFail, LinkDown
  <2>2. CASE UNCHANGED hpc
    BY <1>4, <2>2
  <2>3. CASE (\E h \in Handles : GattEvent(h) \/ Notify(h)) \/ Start \/ Reconnect
             \/ (\E t \in Tasks : TaskStep(t) \/ WriteCheck(t)) \/ UNCHANGED vars
    BY <2>2, <2>3 DEF GattEvent, Notify, SvcFound, ChrFound, ProcEnds,
       IdentityRead, StatusRead, CccdWritten, CommandWritten, Start, Reconnect,
       TaskStep, Terminate, TaskScan, TaskFlag, Write, WriteCheck, vars
  <2> QED
    BY <1>4, <2>1, <2>3 DEF Next, GapEvent
<1> QED
  BY <1>1, <1>2, <1>3, <1>4

\* Each step of the module is a step of the link or invisible to it.
LEMMA LinkRefines ==
  ASSUME IInv, OneLinkInv, IdentifiedInv, ComingUp, [Next]_vars
  PROVE  [Link!LinkNext]_(Link!linkVars)
<1> DEFINE L == IF conn_handle \in Linked THEN peer[conn_handle] ELSE None
<1> USE NoneAssumption
<1>1. /\ device \in [device_id : Devices \cup {None},
                     status : Devices \cup {None}, connected : BOOLEAN]
      /\ peer \in [Handles -> Devices \cup {None}]
      /\ conn_handle \in Handles \cup {None}
      /\ L \in Devices \cup {None}
      /\ \A h \in Handles : h = conn_handle /\ h \in Linked => L = peer[h] /\ L # None
  BY DEF IInv, TypeOK, TypeOwn, TypeStack, Linked
<1>2. CASE Unseen
  BY <1>2 DEF Unseen, Link!linkVars, Linked
<1>3. CASE Up
  <2>1. /\ hconn \in Linked /\ L = None /\ ~device.connected
        /\ conn_handle' = hconn /\ UNCHANGED <<peer, device>>
    BY <1>3 DEF Up, ComingUp, IInv, HostInv, Linked, links
  <2>2. L' = peer[hconn] /\ peer[hconn] \in Devices
    BY <1>1, <2>1 DEF Linked
  <2> QED
    BY <2>1, <2>2 DEF Link!LinkNext, Link!LinkUp
<1>4. CASE UpFlag
  <2>1. L # None /\ L' = L /\ device' = [device EXCEPT !.connected = TRUE]
    BY <1>1, <1>4 DEF UpFlag, IInv, HostInv, Linked, own, links
  <2> QED
    BY <2>1 DEF Link!LinkNext, Link!FlagUp
<1>5. CASE LinkGone
  <2>1. L' = None /\ UNCHANGED device
    BY <1>5 DEF LinkGone, OneLinkInv, LinkInv, Linked, IInv, TypeOK, TypeStack, own
  <2> QED
    BY <2>1 DEF Link!LinkNext, Link!LinkLost, Link!linkVars
<1>6. CASE Down
  <2>1. L = None /\ L' = None /\ UNCHANGED device
    BY <1>6 DEF Down, OneLinkInv, LinkInv, Linked, links
  <2> QED
    BY <2>1 DEF Link!linkVars
<1>7. CASE DownFlag
  <2>1. L = None /\ L' = None /\ device' = [device EXCEPT !.connected = FALSE]
    BY <1>7 DEF DownFlag, OneLinkInv, LinkInv, Linked, links, own
  <2> QED
    BY <2>1 DEF Link!LinkNext, Link!FlagDown
<1>8. ASSUME NEW h \in Handles, ConnectOk(h)
      PROVE  [Link!LinkNext]_(Link!linkVars)
  <2>1. Linked = {} /\ hpc = "idle" /\ UNCHANGED <<conn_handle, device>>
    BY <1>8 DEF ConnectOk, OneLinkInv, LinkInv, own
  <2>2. conn_handle = None
    BY <2>1 DEF IInv, ConnHandleLive
  <2>3. L = None /\ L' = None
    BY <2>1, <2>2 DEF Linked
  <2> QED
    BY <2>1, <2>3 DEF Link!linkVars
<1>9. ASSUME NEW h \in Handles, IdentityRead(h)
      PROVE  [Link!LinkNext]_(Link!linkVars)
  <2>1. /\ h \in Linked /\ conn_handle = h /\ device.connected
        /\ device' = [device EXCEPT !.device_id = peer[h], !.connected = TRUE]
        /\ UNCHANGED <<conn_handle, peer>>
    BY <1>9 DEF IdentityRead, Answers, OneLinkInv, OneLink, FlagAgrees, Linked,
                own
  <2>2. L = peer[h] /\ L # None /\ L' = L
    BY <1>1, <2>1 DEF Linked
  <2>3. device' = [device EXCEPT !.device_id = L]
    BY <1>1, <2>1, <2>2
  <2> QED
    BY <2>1, <2>2, <2>3 DEF Link!LinkNext, Link!Identify
<1>10. ASSUME NEW h \in Handles, StatusRead(h) \/ Notify(h)
       PROVE  [Link!LinkNext]_(Link!linkVars)
  <2>1. /\ h \in Linked /\ conn_handle = h /\ device.connected
        /\ device.device_id = peer[h]
        /\ device' = [device EXCEPT !.status = peer[h]]
        /\ UNCHANGED <<conn_handle, peer>>
    BY <1>10, StatusOfRecord
  <2>2. L = peer[h] /\ L # None /\ L' = L
    BY <1>1, <2>1 DEF Linked
  <2> QED
    BY <2>1, <2>2 DEF Link!LinkNext, Link!TakeStatus
<1> QED
  BY <1>2, <1>3, <1>4, <1>5, <1>6, <1>7, <1>8, <1>9, <1>10, QuietSteps

\* What the module promises the rest of the firmware about its link: behind
\* scans, callbacks, the pool and the tasks, every step is one of coming up,
\* flagging, identifying, taking a status, being lost and being flagged down,
\* in the order and under the conditions of BleLink, or cannot be seen.
THEOREM CentralImplementsLink ==
  ASSUME Calls \subseteq {"write"}
  PROVE  Spec => ImplementsLink
<1>1. Init => Link!LinkInit /\ ComingUp
  BY NoneAssumption DEF Init, Link!LinkInit, ComingUp, Linked
<1>2. IInv /\ OneLinkInv /\ ComingUp /\ [Next]_vars => ComingUp'
  BY ComingUpStep
<1>3. IInv /\ OneLinkInv /\ IdentifiedInv /\ ComingUp /\ [Next]_vars
        => [Link!LinkNext]_(Link!linkVars)
  BY LinkRefines
<1> QED
  BY <1>1, <1>2, <1>3, IdentifiedInvariance, PTL
     DEF Spec, ImplementsLink, Link!LinkSpec
=============================================================================
