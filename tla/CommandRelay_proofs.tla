------------------------ MODULE CommandRelay_proofs ------------------------
(***************************************************************************)
(* Proofs about CommandRelay, for every set of devices and commands and    *)
(* every bound: the relay implements CommandLedger, and a device executes  *)
(* what was written to it.                                                 *)
(***************************************************************************)
EXTENDS CommandRelay, SequenceTheorems, FiniteSetTheorems, TLAPS

(* The part of the type invariant the ledger needs. *)
TypeLedger ==
  /\ pc \in [Tasks -> {"idle", "poll", "execute", "report_ok", "report_failed",
                       "upload"}]
  /\ cmd \in [Tasks -> Commands \cup {None}]
  /\ handed \in [Commands -> Nat] /\ written \in [Commands -> Nat]
  /\ givenup \in [Commands -> Nat]
  /\ ok \in [Commands -> Nat] /\ failed \in [Commands -> Nat]

\* One handout of c is with task t at stage s.
With(t, s, c) == IF pc[t] = s /\ cmd[t] = c THEN 1 ELSE 0

(* What is in the tasks' hands counts towards the ledger already: a handout
   that is not executed, a write or a giving-up that is not reported. *)
LedgerInv ==
  /\ TypeLedger
  /\ \A t \in Tasks : pc[t] \in {"execute", "report_ok", "report_failed"}
                        => cmd[t] \in Commands
  /\ \A c \in Commands :
       /\ written[c] + givenup[c] + With("core", "execute", c)
            + With("serial", "execute", c) <= handed[c]
       /\ ok[c] + With("core", "report_ok", c)
            + With("serial", "report_ok", c) <= written[c]
       /\ failed[c] + With("core", "report_failed", c)
            + With("serial", "report_failed", c) <= givenup[c]

\* At power-up nothing is in hand and nothing owed.
LEMMA LedgerInit == Init => LedgerInv
BY RelayAssumption DEF Init, LedgerInv, TypeLedger, With, Tasks, Zero

\* The steps that touch neither a task's stage nor the ledger.
LEMMA QuietStep ==
  ASSUME LedgerInv, UNCHANGED <<pc, cmd, handed, ok, failed, counts>>
  PROVE  LedgerInv' /\ UNCHANGED <<handed, written, givenup, ok, failed>>
BY DEF LedgerInv, TypeLedger, With, Tasks, counts

(* Each step of a task keeps the invariant and is a step of the ledger, or
   leaves it as it is. *)
LEMMA TaskStepLedger ==
  ASSUME LedgerInv, NEW t \in Tasks, TaskStep(t)
  PROVE  LedgerInv' /\ [Ledger!LedgerNext]_(Ledger!ledger)
<1> USE RelayAssumption
        DEF LedgerInv, TypeLedger, With, Tasks, Goes, Returns, Inc, locals,
            cloud, counts, Ledger!LedgerNext, Ledger!ledger, Ledger!More
<1>1. CASE Poll(t) \/ PollNothing(t) \/ Upload(t) \/ UploadArrives(t)
           \/ UploadLost(t) \/ ReportLost(t)
  BY <1>1 DEF Poll, PollNothing, Upload, UploadArrives, UploadLost, ReportLost
<1>2. ASSUME NEW c \in Commands, PollAnswered(t, c)
      PROVE  LedgerInv' /\ [Ledger!LedgerNext]_(Ledger!ledger)
  <2>1. Ledger!Hand(c)
    BY <1>2 DEF PollAnswered, Ledger!Hand
  <2>2. TypeLedger'
    BY <1>2 DEF PollAnswered
  <2>3. \A s \in Tasks : pc'[s] \in {"execute", "report_ok", "report_failed"}
                           => cmd'[s] \in Commands
    BY <1>2 DEF PollAnswered
  <2>4. ASSUME NEW k \in Commands
        PROVE  /\ written[k] + givenup[k] + With("core", "execute", k)'
                    + With("serial", "execute", k)' <= handed'[k]
               /\ ok[k] + With("core", "report_ok", k)'
                    + With("serial", "report_ok", k)' <= written[k]
               /\ failed[k] + With("core", "report_failed", k)'
                    + With("serial", "report_failed", k)' <= givenup[k]
    <3>1. CASE t = "core"
      BY <1>2, <3>1 DEF PollAnswered
    <3>2. CASE t = "serial"
      BY <1>2, <3>2 DEF PollAnswered
    <3> QED
      BY <3>1, <3>2
  <2>5. UNCHANGED <<written, givenup, ok, failed>>
    BY <1>2 DEF PollAnswered
  <2> QED
    BY <2>1, <2>2, <2>3, <2>4, <2>5
<1>3. CASE PollLost(t)
  BY <1>3 DEF PollLost, Ledger!Hand
<1>4. CASE ExecuteUnsupported(t) \/ ExecuteRefused(t)
  BY <1>4 DEF ExecuteUnsupported, ExecuteRefused, Ledger!GiveUp, Ledger!Open
<1>5. CASE ExecuteWritten(t)
  <2>1. cmd[t] \in Commands /\ Ledger!WriteOut(cmd[t])
    BY <1>5 DEF ExecuteWritten, Ledger!WriteOut, Ledger!Open
  <2>2. /\ pc[t] = "execute" /\ pc' = [pc EXCEPT ![t] = "report_ok"]
        /\ written' = [written EXCEPT ![cmd[t]] = @ + 1]
        /\ UNCHANGED <<cmd, handed, givenup, ok, failed>>
    BY <1>5 DEF ExecuteWritten
  <2>3. TypeLedger'
    BY <2>1, <2>2
  <2>4. \A s \in Tasks : pc'[s] \in {"execute", "report_ok", "report_failed"}
                           => cmd'[s] \in Commands
    BY <2>1, <2>2
  <2>5. ASSUME NEW k \in Commands
        PROVE  /\ written'[k] + givenup[k] + With("core", "execute", k)'
                    + With("serial", "execute", k)' <= handed[k]
               /\ ok[k] + With("core", "report_ok", k)'
                    + With("serial", "report_ok", k)' <= written'[k]
               /\ failed[k] + With("core", "report_failed", k)'
                    + With("serial", "report_failed", k)' <= givenup[k]
    <3>1. CASE t = "core"
      BY <2>1, <2>2, <3>1
    <3>2. CASE t = "serial"
      BY <2>1, <2>2, <3>2
    <3> QED
      BY <3>1, <3>2
  <2> QED
    BY <2>1, <2>2, <2>3, <2>4, <2>5
<1>6. CASE Report(t)
  BY <1>6 DEF Report, Ledger!ReportOk, Ledger!ReportFailed
<1> QED
  BY <1>1, <1>2, <1>3, <1>4, <1>5, <1>6 DEF TaskStep, Execute

\* One step of whatever kind.
LEMMA LedgerStep ==
  ASSUME LedgerInv, [Next]_vars
  PROVE  LedgerInv' /\ [Ledger!LedgerNext]_(Ledger!ledger)
<1>1. ASSUME NEW t \in Tasks, TaskStep(t)
      PROVE  LedgerInv' /\ [Ledger!LedgerNext]_(Ledger!ledger)
  BY <1>1, TaskStepLedger
<1>2. CASE LinkStep \/ UNCHANGED vars
  <2>1. UNCHANGED <<pc, cmd, handed, ok, failed, counts>>
    BY <1>2 DEF LinkStep, RecordStep, Disconnect, DeviceExecutes,
                DeviceRejects, WifiUp, WifiDown, vars, locals, cloud, counts
  <2> QED
    BY <2>1, QuietStep DEF Ledger!ledger, counts
<1> QED
  BY <1>1, <1>2 DEF Next

\* The relay implements the ledger.  The gateway task and the console may poll,
\* write and report the same command at the same time, and links, requests and
\* answers may be lost at any point: still no handout leads to two writes, no
\* write to two reports, and no success is reported without its write.
THEOREM RelayKeepsLedger == Spec => KeepsLedger
<1>1. Init => LedgerInv /\ Ledger!LedgerInit
  BY LedgerInit DEF Init, Ledger!LedgerInit, Zero
<1>2. LedgerInv /\ [Next]_vars => LedgerInv' /\ [Ledger!LedgerNext]_(Ledger!ledger)
  BY LedgerStep
<1> QED
  BY <1>1, <1>2, PTL DEF Spec, KeepsLedger, Ledger!LedgerSpec

(* The ledger keeps its balance. *)
LEMMA LedgerBalance == Ledger!LedgerSpec => []Ledger!Balanced
<1> DEFINE Inv == /\ Ledger!Balanced
                  /\ handed \in [Commands -> Nat] /\ written \in [Commands -> Nat]
                  /\ givenup \in [Commands -> Nat]
                  /\ ok \in [Commands -> Nat] /\ failed \in [Commands -> Nat]
<1>1. Ledger!LedgerInit => Inv
  BY DEF Ledger!LedgerInit, Ledger!Balanced
<1>2. Inv /\ [Ledger!LedgerNext]_(Ledger!ledger) => Inv'
  BY DEF Ledger!Balanced, Ledger!LedgerNext, Ledger!ledger, Ledger!Hand,
         Ledger!WriteOut, Ledger!GiveUp, Ledger!ReportOk, Ledger!ReportFailed,
         Ledger!Open, Ledger!More
<1> QED
  BY <1>1, <1>2, PTL DEF Ledger!LedgerSpec

\* At every moment each command has been written and given up together no more
\* often than it was handed out, and each kind of result has been reported no
\* more often than it happened.
THEOREM RelayBalanced == Spec => []Ledger!Balanced
BY RelayKeepsLedger, LedgerBalance, PTL DEF KeepsLedger

-----------------------------------------------------------------------------
(* Types *)

\* A task uploads what it has copied: an identity and a status.
TypeInv ==
  /\ TypeOK
  /\ \A t \in Tasks : pc[t] = "upload" =>
       snapshot[t].device_id \in Devices /\ snapshot[t].status \in Devices

\* Parts of it that are disturbed together.
TypeLink ==
  /\ link \in Devices \cup {None}
  /\ device \in [device_id : Devices \cup {None}, status : Devices \cup {None},
                 connected : BOOLEAN]
TypeCopies ==
  /\ snapshot \in [Tasks -> [device_id : Devices \cup {None},
                             status : Devices \cup {None}]]
  /\ \A t \in Tasks : pc[t] = "upload" =>
       snapshot[t].device_id \in Devices /\ snapshot[t].status \in Devices
  /\ uploads \in SUBSET (Devices \X Devices)
TypeWrites ==
  /\ writes \in Seq(Commands)
  /\ applied \in [Devices -> [Commands -> Nat]]
TypeRest == wifi \in BOOLEAN /\ disturbed \in 0 .. MaxDisturb

\* They make it up, with the part that the ledger has.
LEMMA TypeParts ==
  TypeInv <=> TypeLedger /\ TypeLink /\ TypeCopies /\ TypeWrites /\ TypeRest
BY DEF TypeInv, TypeOK, TypeLedger, TypeLink, TypeCopies, TypeWrites, TypeRest

\* All but the task's own copy is left as it was, or is typed as before.
LEMMA TaskStepTypes ==
  ASSUME TypeInv, LedgerInv, NEW t \in Tasks, TaskStep(t)
  PROVE  (TypeLink /\ TypeCopies /\ TypeWrites /\ TypeRest)'
<1> USE RelayAssumption, NoneIsNoDevice
        DEF Goes, Returns, locals, radio, cloud, counts, Disturb
<1>1. TypeLedger /\ TypeLink /\ TypeCopies /\ TypeWrites /\ TypeRest
  BY TypeParts
<1>2. TypeLink'
  BY <1>1 DEF TypeLink, TaskStep, Execute, Poll, PollAnswered, PollNothing, PollLost,
     ExecuteUnsupported, ExecuteWritten, ExecuteRefused, Report, ReportLost, Upload,
     UploadArrives, UploadLost
<1>3. TypeRest'
  BY <1>1 DEF TypeRest, TaskStep, Execute, Poll, PollAnswered, PollNothing, PollLost,
     ExecuteUnsupported, ExecuteWritten, ExecuteRefused, Report, ReportLost, Upload,
     UploadArrives, UploadLost
<1>4. TypeWrites'
  <2>1. CASE ExecuteWritten(t)
    <3>1. cmd[t] \in Commands
      BY <2>1 DEF ExecuteWritten, LedgerInv
    <3> QED
      BY <1>1, <2>1, <3>1, AppendProperties DEF TypeWrites, ExecuteWritten
  <2>2. CASE ~ExecuteWritten(t)
    BY <1>1, <2>2 DEF TypeWrites, TaskStep, Execute, Poll, PollAnswered, PollNothing,
       PollLost, ExecuteUnsupported, ExecuteRefused, Report, ReportLost, Upload,
       UploadArrives, UploadLost
  <2> QED
    BY <2>1, <2>2
<1>5. TypeCopies'
  <2> USE <1>1 DEF TypeCopies
  <2>1. CASE Upload(t)
    <3> DEFINE copy == [device_id |-> device.device_id, status |-> device.status]
    <3>1. device.device_id \in Devices /\ device.status \in Devices
      BY <2>1 DEF Upload, ConnectedDevice, TypeLink
    <3>2. /\ copy \in [device_id : Devices \cup {None}, status : Devices \cup {None}]
          /\ copy.device_id \in Devices /\ copy.status \in Devices
      BY <3>1
    <3>3. snapshot' = [snapshot EXCEPT ![t] = copy] /\ UNCHANGED uploads
          /\ pc' = [pc EXCEPT ![t] = "upload"]
      BY <2>1 DEF Upload
    <3> HIDE DEF copy
    <3> QED
      BY <3>2, <3>3 DEF TypeLedger
  <2>2. CASE Poll(t)
    <3>1. device.device_id \in Devices \cup {None}
      BY DEF TypeLink
    <3> QED
      BY <2>2, <3>1 DEF Poll, TypeLedger
  <2>3. NoCopy \in [device_id : Devices \cup {None}, status : Devices \cup {None}]
    BY DEF NoCopy
  <2>4. CASE UploadArrives(t)
    <3>1. snapshot[t].device_id \in Devices /\ snapshot[t].status \in Devices
      BY <2>4 DEF UploadArrives
    <3>2. uploads' \in SUBSET (Devices \X Devices)
      BY <2>4, <3>1 DEF UploadArrives
    <3> QED
      BY <2>3, <2>4, <3>2 DEF UploadArrives, TypeLedger
  <2>5. CASE PollNothing(t) \/ PollLost(t) \/ Report(t) \/ ReportLost(t) \/ UploadLost(t)
    <3>1. /\ snapshot' = [snapshot EXCEPT ![t] = NoCopy] /\ UNCHANGED uploads
          /\ pc' = [pc EXCEPT ![t] = "idle"]
      BY <2>5 DEF PollNothing, PollLost, Report, ReportLost, UploadLost
    <3> QED
      BY <2>3, <3>1 DEF TypeLedger
  <2>6. CASE Execute(t) \/ \E c \in Commands : PollAnswered(t, c)
    BY <2>6 DEF Execute, ExecuteUnsupported, ExecuteWritten, ExecuteRefused,
       PollAnswered, TypeLedger
  <2> QED
    BY <2>1, <2>2, <2>4, <2>5, <2>6 DEF TaskStep
<1> QED
  BY <1>2, <1>3, <1>4, <1>5

\* Steps of the link, the device and WiFi.
LEMMA LinkStepTypes ==
  ASSUME TypeInv, LinkStep \/ UNCHANGED vars
  PROVE  (TypeLink /\ TypeCopies /\ TypeWrites /\ TypeRest)'
<1> USE RelayAssumption, NoneIsNoDevice
        DEF locals, radio, cloud, counts, Disturb
<1>1. TypeLedger /\ TypeLink /\ TypeCopies /\ TypeWrites /\ TypeRest
  BY TypeParts
<1>2. TypeCopies'
  BY <1>1 DEF TypeCopies, LinkStep, RecordStep, Disconnect, DeviceExecutes,
     DeviceRejects, WifiUp, WifiDown, vars
<1>3. TypeRest'
  <2>1. disturbed \in 0 .. MaxDisturb /\ wifi \in BOOLEAN /\ MaxDisturb \in Nat
    BY <1>1 DEF TypeRest
  <2>2. \/ UNCHANGED disturbed
        \/ disturbed < MaxDisturb /\ disturbed' = disturbed + 1
    BY DEF LinkStep, RecordStep, Disconnect, DeviceExecutes, DeviceRejects, WifiUp,
       WifiDown, vars
  <2>3. wifi' \in BOOLEAN
    BY <2>1 DEF LinkStep, RecordStep, Disconnect, DeviceExecutes, DeviceRejects, WifiUp,
       WifiDown, vars
  <2>4. disturbed' \in 0 .. MaxDisturb
    BY <2>1, <2>2
  <2> QED
    BY <2>3, <2>4 DEF TypeRest
<1>4. TypeLink'
  BY <1>1 DEF TypeLink, LinkStep, RecordStep, Disconnect, DeviceExecutes,
     DeviceRejects, WifiUp, WifiDown, vars, LinkUp, FlagUp, Identify, TakeStatus,
     LinkLost, FlagDown
<1>5. TypeWrites'
  <2> USE <1>1 DEF TypeWrites
  <2>1. CASE DeviceExecutes
    <3>1. Head(writes) \in Commands /\ Tail(writes) \in Seq(Commands) /\ link \in Devices
      BY <2>1, HeadTailProperties DEF DeviceExecutes, TypeLink
    <3> QED
      BY <2>1, <3>1 DEF DeviceExecutes
  <2>2. CASE DeviceRejects
    BY <2>2, HeadTailProperties DEF DeviceRejects
  <2>3. CASE Disconnect
    BY <2>3, EmptySeq DEF Disconnect
  <2>4. CASE RecordStep \/ WifiUp \/ WifiDown \/ UNCHANGED vars
    BY <2>4 DEF RecordStep, WifiUp, WifiDown, vars
  <2> QED
    BY <2>1, <2>2, <2>3, <2>4 DEF LinkStep
<1> QED
  BY <1>2, <1>3, <1>4, <1>5

\* The types, and the ledger's part of them.
RelayInv == TypeInv /\ LedgerInv

\* At power-up and after every step.
LEMMA RelayInvariance == Spec => []RelayInv
<1>1. Init => RelayInv
  <2> SUFFICES ASSUME Init PROVE RelayInv
    OBVIOUS
  <2>1. LedgerInv
    BY LedgerInit
  <2>2. TypeWrites
    BY EmptySeq DEF Init, TypeWrites, Zero
  <2>3. TypeRest
    <3>1. wifi = FALSE /\ disturbed = 0
      BY DEF Init
    <3>2. disturbed \in 0 .. MaxDisturb
      BY <3>1, RelayAssumption
    <3>3. wifi \in BOOLEAN
      BY <3>1
    <3> QED
      BY <3>2, <3>3 DEF TypeRest
  <2>4. TypeLink
    BY DEF Init, LinkInit, TypeLink
  <2>5. TypeCopies
    <3>1. snapshot = [t \in Tasks |-> NoCopy] /\ uploads = {}
          /\ pc = [t \in Tasks |-> "idle"]
      BY DEF Init
    <3>2. NoCopy \in [device_id : Devices \cup {None}, status : Devices \cup {None}]
      BY DEF NoCopy
    <3> QED
      BY <3>1, <3>2 DEF TypeCopies
  <2> QED
    BY <2>1, <2>2, <2>3, <2>4, <2>5, TypeParts DEF LedgerInv, RelayInv
<1>2. RelayInv /\ [Next]_vars => RelayInv'
  <2> SUFFICES ASSUME RelayInv, [Next]_vars PROVE RelayInv'
    OBVIOUS
  <2>1. LedgerInv'
    BY LedgerStep DEF RelayInv
  <2>2. (TypeLink /\ TypeCopies /\ TypeWrites /\ TypeRest)'
    BY TaskStepTypes, LinkStepTypes DEF RelayInv, Next
  <2>3. TypeInv'
    <3>1. TypeLedger'
      BY <2>1 DEF LedgerInv
    <3> QED
      BY <2>2, <3>1
         DEF TypeInv, TypeOK, TypeLedger, TypeLink, TypeCopies, TypeWrites, TypeRest
  <2> QED
    BY <2>1, <2>3 DEF RelayInv
<1> QED
  BY <1>1, <1>2, PTL DEF Spec

\* Every variable keeps to its values; what is uploaded is a status that a
\* device reported, under an identity that was read (gateway_core_upload_now).
THEOREM TypeCorrect == Spec => []TypeOK
<1>1. RelayInv => TypeOK
  BY DEF RelayInv, TypeInv
<1> QED
  BY <1>1, RelayInvariance, PTL

-----------------------------------------------------------------------------
(* What is executed *)

Places(s, c) == {i \in 1 .. Len(s) : s[i] = c}

\* How many writes of c have not been answered.
Waiting(s, c) == Cardinality(Places(s, c))

LEMMA WaitingType ==
  ASSUME NEW s \in Seq(Commands), NEW c
  PROVE  /\ IsFiniteSet(Places(s, c)) /\ Waiting(s, c) \in Nat
         /\ s = <<>> => Waiting(s, c) = 0
<1>1. Len(s) \in Nat /\ IsFiniteSet(1 .. Len(s))
  BY LenProperties, FS_Interval
<1>2. Places(s, c) \in SUBSET (1 .. Len(s))
  BY DEF Places
<1>3. IsFiniteSet(Places(s, c))
  BY <1>1, <1>2, FS_Subset
<1>4. s = <<>> => Places(s, c) = {}
  <2>1. s = <<>> => Len(s) = 0
    BY EmptySeq
  <2> QED
    BY <2>1 DEF Places
<1> QED
  BY <1>3, <1>4, FS_CardinalityType, FS_EmptySet DEF Waiting

\* A write that is queued is one more of its command.
LEMMA WaitingAppend ==
  ASSUME NEW s \in Seq(Commands), NEW e \in Commands, NEW c
  PROVE  Waiting(Append(s, e), c) = Waiting(s, c) + (IF e = c THEN 1 ELSE 0)
<1> DEFINE r == Append(s, e)
<1>1. /\ Len(s) \in Nat /\ Len(r) = Len(s) + 1 /\ r[Len(s) + 1] = e
      /\ \A i \in 1 .. Len(s) : r[i] = s[i]
  BY LenProperties, AppendProperties
<1> HIDE DEF r
<1>2. IsFiniteSet(Places(s, c)) /\ Waiting(s, c) \in Nat
  BY WaitingType
<1>3. Places(r, c) = IF e = c THEN Places(s, c) \cup {Len(s) + 1} ELSE Places(s, c)
  BY <1>1 DEF Places
<1>4. Len(s) + 1 \notin Places(s, c)
  BY <1>1 DEF Places
<1>5. CASE e = c
  <2>1. Cardinality(Places(s, c) \cup {Len(s) + 1}) = Cardinality(Places(s, c)) + 1
    BY <1>2, <1>4, FS_AddElement
  <2> QED
    BY <1>3, <1>5, <2>1 DEF Waiting, r
<1>6. CASE e # c
  BY <1>2, <1>3, <1>6 DEF Waiting, r
<1> QED
  BY <1>5, <1>6

\* A write that is answered is one less.
LEMMA WaitingTail ==
  ASSUME NEW s \in Seq(Commands), s # <<>>, NEW c
  PROVE  Waiting(s, c) = Waiting(Tail(s), c) + (IF Head(s) = c THEN 1 ELSE 0)
<1> DEFINE r == Tail(s)
           later == {i \in 2 .. Len(s) : s[i] = c}
           shift == [i \in Places(r, c) |-> i + 1]
<1>1. /\ Len(s) \in Nat /\ Len(s) # 0 /\ Len(r) = Len(s) - 1 /\ Head(s) = s[1]
      /\ r \in Seq(Commands)
      /\ \A i \in 1 .. Len(r) : r[i] = s[i + 1]
  BY LenProperties, EmptySeq, HeadTailProperties
<1> HIDE DEF r
<1>2. IsFiniteSet(Places(r, c)) /\ Waiting(r, c) \in Nat
  BY <1>1, WaitingType
<1>3. shift \in Bijection(Places(r, c), later)
  <2>1. shift \in [Places(r, c) -> later]
    BY <1>1 DEF Places
  <2>2. \A i, j \in Places(r, c) : shift[i] = shift[j] => i = j
    BY <1>1 DEF Places
  <2>3. \A k \in later : \E i \in Places(r, c) : shift[i] = k
    <3> TAKE k \in later
    <3>1. k - 1 \in Places(r, c) /\ shift[k - 1] = k
      BY <1>1 DEF Places
    <3> QED
      BY <3>1
  <2> HIDE DEF shift, later
  <2> QED
    BY <2>1, <2>2, <2>3 DEF Bijection, Injection, Surjection, IsInjective
<1>4. IsFiniteSet(later) /\ Cardinality(later) = Waiting(r, c)
  BY <1>2, <1>3, FS_Bijection DEF ExistsBijection, Waiting
<1>5. Places(s, c) = IF s[1] = c THEN later \cup {1} ELSE later
  BY <1>1 DEF Places
<1>6. 1 \notin later
  OBVIOUS
<1> HIDE DEF later
<1>7. CASE s[1] = c
  <2>1. Cardinality(later \cup {1}) = Cardinality(later) + 1
    BY <1>4, <1>6, FS_AddElement
  <2> QED
    BY <1>1, <1>4, <1>5, <1>7, <2>1 DEF Waiting, r
<1>8. CASE s[1] # c
  BY <1>1, <1>2, <1>4, <1>5, <1>8 DEF Waiting, r
<1> QED
  BY <1>7, <1>8

\* What a device has executed, and what waits for the device at the other end
\* of the link, has been written; nothing of it is unsupported.
ExecInv ==
  /\ \A d \in Devices, c \in Commands :
       /\ applied[d][c] + Waiting(writes, c) <= written[c]
       /\ c \in Unsupported => applied[d][c] = 0
  /\ \A i \in 1 .. Len(writes) : writes[i] \notin Unsupported

\* Only these steps have to do with it.
LEMMA ExecQuiet ==
  ASSUME ExecInv, UNCHANGED <<applied, writes, written>>
  PROVE  ExecInv'
BY DEF ExecInv, Waiting, Places

LEMMA ExecStep ==
  ASSUME RelayInv, ExecInv, [Next]_vars
  PROVE  ExecInv'
<1>1. /\ writes \in Seq(Commands) /\ applied \in [Devices -> [Commands -> Nat]]
      /\ written \in [Commands -> Nat] /\ link \in Devices \cup {None}
  BY DEF RelayInv, TypeInv, TypeOK
<1> USE DEF ExecInv
<1>2. \A c \in Commands : Waiting(writes, c) \in Nat
  BY <1>1, WaitingType
<1>3. ASSUME NEW t \in Tasks, ExecuteWritten(t)
      PROVE  ExecInv'
  <2>1. /\ cmd[t] \in Commands /\ cmd[t] \notin Unsupported
        /\ writes' = Append(writes, cmd[t])
        /\ written' = [written EXCEPT ![cmd[t]] = @ + 1] /\ UNCHANGED applied
    BY <1>3 DEF ExecuteWritten, RelayInv, LedgerInv, Goes, Inc
  <2>2. \A c \in Commands :
          Waiting(writes', c) = Waiting(writes, c) + (IF cmd[t] = c THEN 1 ELSE 0)
    BY <1>1, <2>1, WaitingAppend
  <2>3. \A c \in Commands : written'[c] = written[c] + (IF cmd[t] = c THEN 1 ELSE 0)
    BY <1>1, <2>1
  <2>4. ASSUME NEW d \in Devices, NEW c \in Commands
        PROVE  /\ applied'[d][c] + Waiting(writes', c) <= written'[c]
               /\ c \in Unsupported => applied'[d][c] = 0
    <3>1. applied[d][c] \in Nat /\ written[c] \in Nat
      BY <1>1
    <3> QED
      BY <1>2, <2>1, <2>2, <2>3, <3>1
  <2>5. \A i \in 1 .. Len(writes') : writes'[i] \notin Unsupported
    BY <1>1, <2>1, AppendProperties, LenProperties
  <2>6. \A c \in Commands : Waiting(writes, c)' = Waiting(writes', c)
    BY DEF Waiting, Places
  <2> QED
    BY <2>4, <2>5, <2>6
<1>4. ASSUME writes # <<>>, writes' = Tail(writes), UNCHANGED written,
             \/ UNCHANGED applied
             \/ /\ link \in Devices
                /\ applied' = [applied EXCEPT ![link][Head(writes)] = @ + 1]
      PROVE  ExecInv'
  <2>1. /\ Head(writes) \in Commands /\ Head(writes) = writes[1]
        /\ Tail(writes) \in Seq(Commands) /\ 1 \in 1 .. Len(writes)
        /\ Len(Tail(writes)) = Len(writes) - 1 /\ Len(writes) \in Nat
        /\ \A i \in 1 .. Len(Tail(writes)) : Tail(writes)[i] = writes[i + 1]
    BY <1>1, <1>4, HeadTailProperties, LenProperties, EmptySeq
  <2>2. \A c \in Commands :
          Waiting(writes, c) = Waiting(writes', c) + (IF Head(writes) = c THEN 1 ELSE 0)
    BY <1>1, <1>4, WaitingTail
  <2>3. \A c \in Commands : Waiting(writes', c) \in Nat
    BY <1>4, <2>1, WaitingType
  <2>4. Head(writes) \notin Unsupported
    BY <2>1
  <2>5. ASSUME NEW d \in Devices, NEW c \in Commands
        PROVE  /\ applied'[d][c] + Waiting(writes', c) <= written'[c]
               /\ c \in Unsupported => applied'[d][c] = 0
    <3>1. applied[d][c] \in Nat /\ written[c] \in Nat
      BY <1>1
    <3>2. \/ applied'[d][c] = applied[d][c]
          \/ c = Head(writes) /\ applied'[d][c] = applied[d][c] + 1
      <4>1. CASE UNCHANGED applied
        BY <4>1
      <4>2. CASE link \in Devices /\
                 applied' = [applied EXCEPT ![link][Head(writes)] = @ + 1]
        <5> DEFINE e == Head(writes)
                   row == [applied[link] EXCEPT ![e] = @ + 1]
        <5>1. applied' = [applied EXCEPT ![link] = row]
          BY <4>2
        <5>2. applied \in [Devices -> [Commands -> Nat]]
          BY <1>1
        <5>3. row[c] = applied[link][c] \/ (c = e /\ row[c] = applied[link][c] + 1)
          BY <4>2, <5>2
        <5> HIDE DEF row
        <5>4. CASE d = link
          BY <4>2, <5>1, <5>2, <5>3, <5>4
        <5>5. CASE d # link
          BY <5>1, <5>2, <5>5
        <5> QED
          BY <5>4, <5>5
      <4> QED
        BY <1>4, <4>1, <4>2
    <3> QED
      BY <1>2, <1>4, <2>2, <2>3, <2>4, <3>1, <3>2
  <2>6. \A i \in 1 .. Len(writes') : writes'[i] \notin Unsupported
    BY <1>4, <2>1
  <2>7. \A c \in Commands : Waiting(writes, c)' = Waiting(writes', c)
    BY DEF Waiting, Places
  <2> QED
    BY <2>5, <2>6, <2>7
<1>5. CASE DeviceExecutes
  BY <1>1, <1>4, <1>5, NoneIsNoDevice DEF DeviceExecutes, counts
<1>6. CASE DeviceRejects
  BY <1>4, <1>6 DEF DeviceRejects, counts
<1>7. CASE Disconnect
  <2>1. writes' = <<>> /\ UNCHANGED <<applied, written>>
    BY <1>7 DEF Disconnect, counts
  <2>2. <<>> \in Seq(Commands) /\ Len(<<>>) = 0
    BY EmptySeq
  <2>3. \A c \in Commands : Waiting(writes', c) = 0
    BY <2>1, <2>2, WaitingType
  <2>4. ASSUME NEW d \in Devices, NEW c \in Commands
        PROVE  /\ applied'[d][c] + Waiting(writes', c) <= written'[c]
               /\ c \in Unsupported => applied'[d][c] = 0
    <3>1. applied[d][c] \in Nat /\ written[c] \in Nat
      BY <1>1
    <3> QED
      BY <1>2, <2>1, <2>3, <3>1
  <2>5. \A i \in 1 .. Len(writes') : writes'[i] \notin Unsupported
    BY <2>1, <2>2
  <2>6. \A c \in Commands : Waiting(writes, c)' = Waiting(writes', c)
    BY DEF Waiting, Places
  <2> QED
    BY <2>4, <2>5, <2>6
<1>8. CASE RecordStep \/ WifiUp \/ WifiDown \/ UNCHANGED vars
  BY <1>8, ExecQuiet DEF RecordStep, WifiUp, WifiDown, vars, radio, counts
<1>9. ASSUME NEW t \in Tasks, TaskStep(t), ~ExecuteWritten(t)
      PROVE  ExecInv'
  <2>1. UNCHANGED <<applied, writes, written>>
    BY <1>9 DEF TaskStep, Execute, Poll, PollAnswered, PollNothing, PollLost,
       ExecuteUnsupported, ExecuteRefused, Report, ReportLost, Upload, UploadArrives,
       UploadLost, radio, counts
  <2> QED
    BY <2>1, ExecQuiet
<1> QED
  BY <1>3, <1>5, <1>6, <1>7, <1>8, <1>9 DEF Next, LinkStep

\* No device executes a command more often than a write of it was accepted,
\* though links break and other devices take over with writes under way, and
\* none executes an unsupported one (gateway_core_poll_now,
\* ble_smartreef_write_command).
THEOREM ExecutesWhatIsWritten == Spec => []ExecutedAsWritten
<1>1. Init => ExecInv
  <2> SUFFICES ASSUME Init PROVE ExecInv
    OBVIOUS
  <2>1. writes = <<>> /\ <<>> \in Seq(Commands) /\ Len(<<>>) = 0
    BY EmptySeq DEF Init
  <2>2. \A c \in Commands : Waiting(writes, c) = 0
    BY <2>1, WaitingType
  <2>3. \A d \in Devices, c \in Commands : applied[d][c] = 0 /\ written[c] = 0
    BY DEF Init, Zero
  <2> QED
    BY <2>1, <2>2, <2>3 DEF ExecInv
<1>2. RelayInv /\ ExecInv => ExecutedAsWritten
  <2> SUFFICES ASSUME RelayInv, ExecInv, NEW d \in Devices, NEW c \in Commands
               PROVE  /\ applied[d][c] <= written[c]
                      /\ c \in Unsupported => applied[d][c] = 0
    BY DEF ExecutedAsWritten
  <2>1. writes \in Seq(Commands) /\ applied[d][c] \in Nat /\ written[c] \in Nat
    BY DEF RelayInv, TypeInv, TypeOK
  <2>2. Waiting(writes, c) \in Nat
    BY <2>1, WaitingType
  <2> QED
    BY <2>1, <2>2 DEF ExecInv
<1> QED
  BY <1>1, <1>2, ExecStep, RelayInvariance, PTL DEF Spec
=============================================================================
