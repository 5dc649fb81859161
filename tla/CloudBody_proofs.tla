-------------------------- MODULE CloudBody_proofs --------------------------
(***************************************************************************)
(* For every status a device can measure and every command result, and      *)
(* whichever allocations are refused: the body that CloudClient sends is   *)
(* the JSON text of the fields that it has to send.                        *)
(***************************************************************************)
EXTENDS CloudBody, CloudClient_proofs

-----------------------------------------------------------------------------
(* The inductive invariant *)

\* What the running call has to put in its body.
AllFields == IF call = "upload" THEN UploadFields(arg, arg.measured) ELSE ReportFields(arg)

\* The o-th of the fields is an object, the others are leaves, and none goes into
\* the object before it is there.  No text has a NUL for C to see its end in.
LeafTypes == {"String", "Number", "True", "False"}
Ordered(fs, o) ==
  /\ o \in 1 .. Len(fs) /\ fs[o].type = "Object" /\ fs[o].to = "root"
  /\ \A i \in 1 .. Len(fs) : i # o => fs[i].type \in LeafTypes
  /\ \A i \in 1 .. Len(fs) : i < o => fs[i].to = "root"
Clean(f) == NoNUL(f.key) /\ NoNUL(f.value)
Sendable(fs, o) ==
  /\ fs \in Seq(Writable) /\ Ordered(fs, o)
  /\ \A i \in 1 .. Len(fs) : Clean(fs[i])

\* At most r of n fields are lost.
Loses(lost, r, n) ==
  \E f \in [1 .. r -> 0 .. n] : lost = {f[k] : k \in 1 .. r} \ {0}

\* node[i] is the item of the i-th field.  The items of S are the list of p's
\* children, in the order of their fields.
LinkOf(h, p, node, i) == IF i = 0 THEN h[p].child ELSE h[node[i]].next
Listed(h, p, S, node) ==
  /\ \A i \in S \cup {0} :
       /\ \A j \in S : i < j /\ (\A k \in S : k <= i \/ k >= j) => LinkOf(h, p, node, i) = node[j]
       /\ (\A j \in S : j <= i) => LinkOf(h, p, node, i) = Null
  /\ \A i, j \in S : (\A k \in S : i <= k /\ k <= j) => h[node[i]].prev = node[j]

\* An item has the type and the value of a field, once it is copied.
Holds(h, n, f, copied_) ==
  /\ h[n].type = f.type
  /\ f.type = "Number" => h[n].number = f.value
  /\ copied_ /\ f.type = "String" => h[n].valuestring = f.value

\* Of the first d fields, those that go to the root or into the object and are not
\* lost; and those of them that are there, R and S.
Into(fs, d, lost, to) == {i \in 1 .. d : fs[i].to = to} \ lost
There(R, S, o) == R \cup (IF o \in R THEN S ELSE {})
Goes(fs, d, lost, R, S) == R = Into(fs, d, lost, "root") /\ S = Into(fs, d, lost, "sub")

\* The tree that has been built of them: r is the root, and s the object inside.
Placed(h, fs, P, node) ==
  \A i \in P :
    /\ node[i] \in DOMAIN h /\ Holds(h, node[i], fs[i], TRUE)
    /\ h[node[i]].string = fs[i].key
Apart(P, node, r) ==
  \A i \in P : node[i] # r /\ \A j \in P : node[i] = node[j] => i = j
Tree(h, r, s, fs, o, R, S, node) ==
  /\ Placed(h, fs, There(R, S, o), node) /\ Apart(There(R, S, o), node, r)
  /\ r \in DOMAIN h /\ h[r].type = "Object" /\ h[r].next = Null
  /\ s = IF o \in R THEN node[o] ELSE Null
  /\ Listed(h, r, R, node)
  /\ o \in R => Listed(h, s, S, node)

Building == {"item", "value", "key", "print"}
Built(fs, o, d, lost, node) ==
  LET R == Into(fs, d, lost, "root")
      S == Into(fs, d, lost, "sub")
  IN  /\ d \in 0 .. Len(fs) /\ fields = SubSeq(fs, d + 1, Len(fs)) /\ lost \subseteq 1 .. d
      /\ pc = "print" => d = Len(fs)
      /\ node \in [1 .. Len(fs) -> Nat]
      /\ Tree(item, root, sub, fs, o, R, S, node)
      /\ DOMAIN item = {node[i] : i \in There(R, S, o)} \cup ({root, adding} \ {Null})
      /\ adding # Null =>
           /\ \A i \in There(R, S, o) : node[i] # adding
           /\ Holds(item, adding, fs[d + 1], pc = "key")

SentInv ==
  /\ pc = "create" => fields = AllFields
  /\ pc \in Building \cup {"create"} => \E o : Sendable(AllFields, o)
  /\ NoNUL(out.cmd_id)
BuildInv ==
  pc \in Building /\ root # Null =>
    \A fs, o : fs = AllFields /\ Sendable(fs, o) =>
      \E d, lost, node : Built(fs, o, d, lost, node) /\ Loses(lost, refused, Len(fs))
PrintedInv == \A v, m : TextInv(v, m)
BodyInv ==
  body # NoString =>
    \A fs : fs = AllFields =>
      /\ fs \in Seq(Writable)
      /\ \E lost : Loses(lost, refused, Len(fs)) /\ body = ObjectText(fs, lost)

-----------------------------------------------------------------------------
(* The fields that are lost *)

LEMMA LosesNone ==
  ASSUME NEW r \in Nat, NEW n \in Nat
  PROVE  Loses({}, r, n)
<1> DEFINE f == [k \in 1 .. r |-> 0]
<1>1. f \in [1 .. r -> 0 .. n] /\ {} = {f[k] : k \in 1 .. r} \ {0}
  OBVIOUS
<1> QED
  BY <1>1 DEF Loses

\* One allocation more is refused, of a field or of something else.
LEMMA LosesMore ==
  ASSUME NEW r \in Nat, NEW n \in Nat, NEW lost, Loses(lost, r, n), NEW x \in 0 .. n
  PROVE  Loses((lost \cup {x}) \ {0}, r + 1, n)
<1>1. PICK f \in [1 .. r -> 0 .. n] : lost = {f[k] : k \in 1 .. r} \ {0}
  BY DEF Loses
<1> DEFINE g == [k \in 1 .. r + 1 |-> IF k = r + 1 THEN x ELSE f[k]]
<1>2. g \in [1 .. r + 1 -> 0 .. n]
  BY <1>1
<1>3. \A k \in 1 .. r : k \in 1 .. r + 1 /\ g[k] = f[k]
  OBVIOUS
<1>4. r + 1 \in 1 .. r + 1 /\ g[r + 1] = x /\ 1 .. r + 1 = (1 .. r) \cup {r + 1}
  OBVIOUS
<1> HIDE DEF g
<1>5. {g[k] : k \in 1 .. r + 1} = {f[k] : k \in 1 .. r} \cup {x}
  BY <1>3, <1>4
<1>6. (lost \cup {x}) \ {0} = {g[k] : k \in 1 .. r + 1} \ {0}
  BY <1>1, <1>5
<1> QED
  BY <1>2, <1>6 DEF Loses

LEMMA LosesType ==
  ASSUME NEW r, NEW n \in Nat, NEW lost, Loses(lost, r, n)
  PROVE  lost \subseteq 1 .. n /\ (lost \cup {0}) \ {0} = lost
BY DEF Loses

LEMMA LosesKept ==
  ASSUME NEW n \in Nat, NEW lost, refused \in Nat, Loses(lost, refused, n),
         Refuse \/ refused' = refused
  PROVE  Loses(lost, refused', n)
<1>1. CASE refused' = refused
  BY <1>1
<1>2. CASE Refuse
  <2>1. Loses((lost \cup {0}) \ {0}, refused + 1, n)
    BY LosesMore
  <2>2. (lost \cup {0}) \ {0} = lost /\ refused' = refused + 1
    BY <1>2, LosesType DEF Refuse
  <2> QED
    BY <2>1, <2>2
<1> QED
  BY <1>1, <1>2

\* A text has only the fields that are there.
LEMMA SameText ==
  ASSUME NEW fs, NEW a, NEW b, \A i \in 1 .. Len(fs) : i \in a <=> i \in b
  PROVE  ObjectText(fs, a) = ObjectText(fs, b)
<1>1. ASSUME NEW to, NEW inner PROVE MembersOf(fs, a, to, inner) = MembersOf(fs, b, to, inner)
  <2>1. {i \in 1 .. Len(fs) : fs[i].to = to} \ a = {i \in 1 .. Len(fs) : fs[i].to = to} \ b
    OBVIOUS
  <2> QED
    BY <2>1 DEF MembersOf
<1> QED
  BY <1>1 DEF ObjectText

\* What BodyInv says is what is wanted of a body.
LEMMA BodySays == refused \in Nat /\ BodyInv => BodyRight
<1> SUFFICES ASSUME refused \in Nat, BodyInv, body # NoString
             PROVE  \E lost \in [1 .. refused -> 0 .. Len(AllFields)] :
                      body = ObjectText(AllFields, {lost[k] : k \in 1 .. refused})
  BY DEF BodyRight, AllFields
<1>1. PICK fs : fs = AllFields
  OBVIOUS
<1>2. PICK lost : Loses(lost, refused, Len(fs)) /\ body = ObjectText(fs, lost)
  BY <1>1 DEF BodyInv
<1>3. PICK f \in [1 .. refused -> 0 .. Len(fs)] : lost = {f[k] : k \in 1 .. refused} \ {0}
  BY <1>2 DEF Loses
<1>4. ObjectText(fs, lost) = ObjectText(fs, {f[k] : k \in 1 .. refused})
  BY <1>3, SameText
<1> QED
  BY <1>1, <1>2, <1>4

-----------------------------------------------------------------------------
(* The packet *)

LEMMA Signed ==
  ASSUME NEW n \in Int16
  PROVE  ReadI16(n % 256, (n \div 256) % 256) = n
<1>1. n \in Int /\ -32768 <= n /\ n < 32768
  BY DEF Int16
<1>2. PICK q, r : q = n \div 256 /\ r = n % 256
  OBVIOUS
<1>3. n = 256 * q + r /\ r \in 0 .. 255
  BY <1>1, <1>2
<1>4. q \in -128 .. 127
  BY <1>1, <1>2
<1>5. CASE q >= 0
  <2>1. q % 256 = q
    BY <1>4, <1>5
  <2>2. ReadI16(r, q) = n
    BY <1>3, <1>4, <1>5 DEF ReadI16, ReadU16
  <2> QED
    BY <1>2, <2>1, <2>2
<1>6. CASE q < 0
  <2>1. q % 256 = q + 256
    BY <1>4, <1>6
  <2>2. ReadI16(r, q + 256) = n
    BY <1>3, <1>4, <1>6 DEF ReadI16, ReadU16
  <2> QED
    BY <1>2, <2>1, <2>2
<1> QED
  BY <1>4, <1>5, <1>6

LEMMA Unsigned ==
  ASSUME NEW n \in Uint16
  PROVE  ReadU16(n % 256, n \div 256) = n
BY DEF ReadU16, Uint16

LEMMA FlagRead ==
  ASSUME NEW b \in BOOLEAN
  PROVE  (Bit(b) = 1) <=> b
BY DEF Bit

LEMMA Flag ==
  ASSUME NEW b \in BOOLEAN
  PROVE  (Bit(b) = 1) = b
BY FlagRead

LEMMA BitRange ==
  ASSUME NEW b \in BOOLEAN
  PROVE  Bit(b) \in 0 .. 1
BY DEF Bit

\* The three output bits come apart as they were put together.
LEMMA Outputs ==
  ASSUME NEW l \in BOOLEAN, NEW h \in BOOLEAN, NEW p \in BOOLEAN,
         NEW n, n = Bit(l) + 2 * Bit(h) + 4 * Bit(p)
  PROVE  /\ n % 2 = Bit(l)
         /\ (n \div 2) % 2 = Bit(h)
         /\ (n \div 4) % 2 = Bit(p)
<1>1. PICK a, b, c : a = Bit(l) /\ b = Bit(h) /\ c = Bit(p)
  OBVIOUS
<1>2. a \in 0 .. 1 /\ b \in 0 .. 1 /\ c \in 0 .. 1
  BY <1>1, BitRange, Zenon
<1>3. n = a + 2 * b + 4 * c
  BY <1>1, Zenon
<1>4. n % 2 = a /\ (n \div 2) % 2 = b /\ (n \div 4) % 2 = c
  <2>1. CASE a = 0 /\ b = 0
    BY <1>2, <1>3, <2>1
  <2>2. CASE a = 0 /\ b = 1
    BY <1>2, <1>3, <2>2
  <2>3. CASE a = 1 /\ b = 0
    BY <1>2, <1>3, <2>3
  <2>4. CASE a = 1 /\ b = 1
    BY <1>2, <1>3, <2>4
  <2> QED
    BY <1>2, <2>1, <2>2, <2>3, <2>4
<1> QED
  BY <1>1, <1>4, Zenon

LEMMA Fields ==
  ASSUME NEW s \in Status
  PROVE  s = [temp_x10 |-> s.temp_x10, ph_x100 |-> s.ph_x100, water_ok |-> s.water_ok,
                 light |-> s.light, heater |-> s.heater, pump |-> s.pump,
                 ctrl_mode_auto |-> s.ctrl_mode_auto, alarm_enable |-> s.alarm_enable,
                 seq |-> s.seq]
BY DEF Status

LEMMA Ranges ==
  ASSUME NEW s \in Status
  PROVE  s.temp_x10 \in Int16 /\ s.ph_x100 \in Uint16
BY DEF Status

LEMMA Flags ==
  ASSUME NEW s \in Status
  PROVE  /\ s.water_ok \in BOOLEAN /\ s.light \in BOOLEAN /\ s.heater \in BOOLEAN
         /\ s.pump \in BOOLEAN /\ s.ctrl_mode_auto \in BOOLEAN
         /\ s.alarm_enable \in BOOLEAN
BY DEF Status

\* Every status survives its packet: the temperature with its sign, the pH, the
\* outputs bit by bit, the modes and the sequence number
\* (status_codec_parse_packet).
THEOREM RoundTrip ==
  \A s \in Status : Accepts(Packet(s)) /\ ParsePacket(Packet(s)) = s
<1>. SUFFICES ASSUME NEW s \in Status
              PROVE  Accepts(Packet(s)) /\ ParsePacket(Packet(s)) = s
  OBVIOUS
<1>1. Accepts(Packet(s))
  BY DEF Packet, Accepts
<1>2. PICK p : p = Packet(s)
  OBVIOUS
<1>3. /\ p[3] = s.temp_x10 % 256 /\ p[4] = (s.temp_x10 \div 256) % 256
      /\ p[5] = s.ph_x100 % 256 /\ p[6] = s.ph_x100 \div 256
      /\ p[7] = Bit(s.water_ok)
      /\ p[8] = Bit(s.light) + 2 * Bit(s.heater) + 4 * Bit(s.pump)
      /\ p[9] = Bit(s.ctrl_mode_auto) /\ p[10] = Bit(s.alarm_enable) /\ p[11] = s.seq
  BY <1>2 DEF Packet
<1>4. ReadI16(p[3], p[4]) = s.temp_x10
  BY <1>3, Ranges, Signed, ZenonT(40)
<1>5. ReadU16(p[5], p[6]) = s.ph_x100
  BY <1>3, Ranges, Unsigned, ZenonT(40)
<1>6. /\ (p[7] = 1) = s.water_ok /\ (p[9] = 1) = s.ctrl_mode_auto
      /\ (p[10] = 1) = s.alarm_enable
  <2>1. (p[7] = 1) = s.water_ok
    BY <1>3, Flags, Flag, ZenonT(40)
  <2>2. (p[9] = 1) = s.ctrl_mode_auto
    BY <1>3, Flags, Flag, ZenonT(40)
  <2>3. (p[10] = 1) = s.alarm_enable
    BY <1>3, Flags, Flag, ZenonT(40)
  <2> QED
    BY <2>1, <2>2, <2>3, Zenon
<1>7. /\ (p[8] % 2 = 1) = s.light /\ ((p[8] \div 2) % 2 = 1) = s.heater
      /\ ((p[8] \div 4) % 2 = 1) = s.pump
  <2>1. /\ p[8] % 2 = Bit(s.light) /\ (p[8] \div 2) % 2 = Bit(s.heater)
        /\ (p[8] \div 4) % 2 = Bit(s.pump)
    <3>1. p[8] = Bit(s.light) + 2 * Bit(s.heater) + 4 * Bit(s.pump)
      BY <1>3, Zenon
    <3>2. s.light \in BOOLEAN /\ s.heater \in BOOLEAN /\ s.pump \in BOOLEAN
      BY Flags, Zenon
    <3> QED
      BY <3>1, <3>2, Outputs
  <2>2. (p[8] % 2 = 1) = s.light
    BY <2>1, Flags, Flag, ZenonT(40)
  <2>3. ((p[8] \div 2) % 2 = 1) = s.heater
    BY <2>1, Flags, Flag, ZenonT(40)
  <2>4. ((p[8] \div 4) % 2 = 1) = s.pump
    BY <2>1, Flags, Flag, ZenonT(40)
  <2> QED
    BY <2>2, <2>3, <2>4, Zenon
<1>8. ParsePacket(p) =
        [temp_x10 |-> s.temp_x10, ph_x100 |-> s.ph_x100, water_ok |-> s.water_ok,
         light |-> s.light, heater |-> s.heater, pump |-> s.pump,
         ctrl_mode_auto |-> s.ctrl_mode_auto, alarm_enable |-> s.alarm_enable,
         seq |-> s.seq]
  BY <1>3, <1>4, <1>5, <1>6, <1>7, Zenon DEF ParsePacket
<1>9. ParsePacket(p) = s
  BY <1>8, Fields, Zenon
<1> QED
  BY <1>1, <1>2, <1>9, Zenon

\* What is uploaded is what was measured.
LEMMA AsMeasured ==
  ASSUME NEW d \in Devices, Accepts(d.packet)
  PROVE  d.measured \in Status /\ ParsePacket(d.packet) = d.measured
BY BodyAssumption, RoundTrip

-----------------------------------------------------------------------------
(* The fields of a body *)

LEMMA NoNULJoined ==
  ASSUME NEW x \in Seq(Symbols), NEW y \in Seq(Symbols), NoNUL(x), NoNUL(y)
  PROVE  x \o y \in Seq(Symbols) /\ NoNUL(x \o y)
BY NoNULParts, Appends

LEMMA NoNULOne == \A c : c # NUL => NoNUL(<<c>>)
BY DEF NoNUL

LEMMA NumeralVisible ==
  ASSUME NEW n \in Uint16
  PROVE  ToString(n) # NUL
<1>1. n \in 0 .. MaxUint16
  <2>1. n \in Int /\ 0 <= n /\ n <= MaxUint16 /\ MaxUint16 \in Int
    BY DEF Uint16, MaxUint16
  <2> QED
    BY <2>1
<1>2. ToString(n) \in Numerals
  BY <1>1 DEF Numerals
<1> QED
  BY <1>2, BodyAssumption

LEMMA NumeralClean ==
  ASSUME NEW n \in Int16 \cup Uint16, NEW d \in {1, 10, 100}
  PROVE  NoNUL(NumeralOf(n, d))
<1> DEFINE abs == IF n < 0 THEN -n ELSE n
           r == abs % d
           tenth == (10 * r) \div d
           hundredth == (((10 * r) % d) * 10) \div d
           N(k) == ToString(k)
           a == IF n < 0 THEN <<"-">> ELSE <<>>
           b == <<N(abs \div d)>>
           c == IF r = 0 THEN <<>> ELSE <<".", N(tenth)>>
           e == IF hundredth = 0 THEN <<>> ELSE <<N(hundredth)>>
<1>1. abs \in Uint16
  BY DEF Uint16, Int16
<1> HIDE DEF abs
<1>2. abs \div d \in Uint16 /\ r \in 0 .. d - 1
  <2>1. CASE d = 1
    BY <1>1, <2>1 DEF Uint16
  <2>2. CASE d = 10
    BY <1>1, <2>2 DEF Uint16
  <2>3. CASE d = 100
    BY <1>1, <2>3 DEF Uint16
  <2> QED
    BY <2>1, <2>2, <2>3
<1> HIDE DEF r
<1>3. tenth \in Uint16 /\ hundredth \in Uint16
  <2>1. CASE d = 1
    BY <1>2, <2>1 DEF Uint16
  <2>2. CASE d = 10
    BY <1>2, <2>2 DEF Uint16
  <2>3. CASE d = 100
    BY <1>2, <2>3 DEF Uint16
  <2> QED
    BY <2>1, <2>2, <2>3
<1>4. NumeralOf(n, d) = ((a \o b) \o c) \o e
  BY DEF NumeralOf, abs, r
<1> HIDE DEF tenth, hundredth
<1>5. /\ N(abs \div d) \in Symbols /\ N(tenth) \in Symbols /\ N(hundredth) \in Symbols
      /\ "-" \in Symbols /\ "." \in Symbols
  <2>1. abs \div d \in Int /\ tenth \in Int /\ hundredth \in Int
    BY <1>2, <1>3 DEF Uint16
  <2>2. \A k \in Int : N(k) \in Symbols
    BY SymbolsOf, Zenon
  <2> QED
    BY <2>1, <2>2, SymbolsOf DEF Literals
<1>6. N(abs \div d) # NUL /\ N(tenth) # NUL /\ N(hundredth) # NUL
  BY <1>2, <1>3, NumeralVisible
<1> HIDE DEF N
<1>7. /\ a \in Seq(Symbols) /\ NoNUL(a) /\ b \in Seq(Symbols) /\ NoNUL(b)
      /\ c \in Seq(Symbols) /\ NoNUL(c) /\ e \in Seq(Symbols) /\ NoNUL(e)
  BY <1>5, <1>6 DEF NoNUL, NUL
<1> HIDE DEF a, b, c, e
<1>8. a \o b \in Seq(Symbols) /\ NoNUL(a \o b)
  BY <1>7, NoNULJoined, Zenon
<1>9. (a \o b) \o c \in Seq(Symbols) /\ NoNUL((a \o b) \o c)
  BY <1>7, <1>8, NoNULJoined, Zenon
<1>10. NoNUL(((a \o b) \o c) \o e)
  BY <1>7, <1>9, NoNULJoined, Zenon
<1> QED
  BY <1>4, <1>10

\* Fields that are no objects, and those of them that go to the root.
Leaves == {f \in Writable : f.type \in LeafTypes /\ Clean(f)}
RootLeaves == {f \in Leaves : f.to = "root"}
Name(key) == key \in Literals \ {"bad", NUL}

LEMMA LeafTexts ==
  ASSUME NEW to \in {"root", "sub"}, NEW key, Name(key)
  PROVE  /\ \A w \in Words : NoNUL(w) => Text(to, key, w) \in Leaves
         /\ \A n \in Int16 \cup Uint16, d \in {1, 10, 100} : Number(to, key, n, d) \in Leaves
         /\ \A b : Bool(to, key, b) \in Leaves
<1>1. key \in Literals \ {"bad"} /\ NoNUL(<<key>>) /\ NoNUL(<<>>)
  BY NoNULOne DEF Name, NoNUL
<1>2. ASSUME NEW w \in Words, NoNUL(w) PROVE Text(to, key, w) \in Leaves
  <2>1. Text(to, key, w) \in Writable
    BY <1>1, FieldTypes
  <2> QED
    BY <1>1, <1>2, <2>1 DEF Leaves, Clean, Text, Field, LeafTypes
<1>3. ASSUME NEW n \in Int16 \cup Uint16, NEW d \in {1, 10, 100}
      PROVE  Number(to, key, n, d) \in Leaves
  <2>1. n \in Int /\ d \in Nat \ {0}
    BY DEF Int16, Uint16
  <2>2. Number(to, key, n, d) \in Writable
    BY <1>1, <2>1, FieldTypes
  <2>3. NoNUL(NumeralOf(n, d))
    BY NumeralClean
  <2> QED
    BY <1>1, <2>2, <2>3 DEF Leaves, Clean, Number, Field, LeafTypes
<1>4. ASSUME NEW b PROVE Bool(to, key, b) \in Leaves
  <2>1. Bool(to, key, b) \in Writable
    BY <1>1, FieldTypes
  <2> QED
    BY <1>1, <2>1 DEF Leaves, Clean, Bool, Field, LeafTypes
<1> QED
  BY <1>2, <1>3, <1>4

LEMMA ObjectField ==
  ASSUME NEW key, Name(key)
  PROVE  LET f == Field("root", key, "Object", <<>>)
         IN  f \in Writable /\ f.to = "root" /\ f.type = "Object" /\ Clean(f)
<1>1. key \in Literals \ {"bad"} /\ NoNUL(<<key>>) /\ NoNUL(<<>>)
  BY NoNULOne DEF Name, NoNUL
<1>2. Field("root", key, "Object", <<>>) \in Writable
  BY <1>1, FieldTypes
<1> QED
  BY <1>1, <1>2 DEF Field, Clean

\* An object behind leaves that go to the root, and leaves behind it.
LEMMA FieldsOrdered ==
  ASSUME NEW s \in Seq(RootLeaves), NEW t \in Seq(Leaves),
         NEW f \in Writable, f.to = "root", f.type = "Object", Clean(f)
  PROVE  Sendable((s \o <<f>>) \o t, Len(s) + 1)
<1> DEFINE fs == (s \o <<f>>) \o t
           o == Len(s) + 1
<1>1. RootLeaves \subseteq Leaves /\ Leaves \subseteq Writable
  BY DEF RootLeaves, Leaves
<1>2. /\ Len(s) \in Nat /\ Len(t) \in Nat /\ s \in Seq(Writable) /\ t \in Seq(Writable)
      /\ \A i \in 1 .. Len(s) : s[i] \in RootLeaves
      /\ \A i \in 1 .. Len(t) : t[i] \in Leaves
  BY <1>1
<1>3. /\ fs \in Seq(Writable) /\ Len(fs) = o + Len(t) /\ fs[o] = f
      /\ \A i \in 1 .. Len(s) : fs[i] = s[i]
      /\ \A i \in 1 .. Len(t) : fs[o + i] = t[i]
  <2> DEFINE W == Writable
  <2>1. s \in Seq(W) /\ t \in Seq(W) /\ f \in W
    BY <1>2
  <2> HIDE DEF W
  <2>2. /\ fs \in Seq(W) /\ Len(fs) = o + Len(t) /\ fs[o] = f
        /\ \A i \in 1 .. Len(s) : fs[i] = s[i]
        /\ \A i \in 1 .. Len(t) : fs[o + i] = t[i]
    BY <2>1
  <2> QED
    BY <2>2 DEF W
<1> HIDE DEF fs
<1>4. ASSUME NEW i \in 1 .. Len(fs)
      PROVE  /\ Clean(fs[i]) /\ (i # o => fs[i].type \in LeafTypes)
             /\ i < o => fs[i].to = "root"
  <2>1. CASE i < o
    <3>1. i \in 1 .. Len(s)
      BY <1>2, <1>3, <2>1
    <3>2. fs[i] \in RootLeaves
      BY <1>2, <1>3, <3>1, Zenon
    <3> QED
      BY <2>1, <3>2 DEF RootLeaves, Leaves
  <2>2. CASE i = o
    BY <1>3, <2>2
  <2>3. CASE i > o
    <3>1. i - o \in 1 .. Len(t) /\ o + (i - o) = i
      BY <1>2, <1>3, <2>3
    <3>2. fs[i] = t[i - o]
      BY <1>3, <3>1
    <3>3. fs[i] \in Leaves
      BY <1>2, <3>1, <3>2
    <3> QED
      BY <2>3, <3>3 DEF Leaves
  <2> QED
    BY <1>2, <2>1, <2>2, <2>3
<1>5. o \in 1 .. Len(fs)
  BY <1>2, <1>3
<1> HIDE DEF o
<1>6. Sendable(fs, o)
  BY <1>3, <1>4, <1>5 DEF Sendable, Ordered
<1> QED
  BY <1>6 DEF fs, o

LEMMA StatusLeaves ==
  ASSUME NEW s \in Status
  PROVE  StatusFields(s) \in Seq(Leaves)
<1>1. s.temp_x10 \in Int16 \cup Uint16 /\ s.ph_x100 \in Int16 \cup Uint16
      /\ s.seq \in Int16 \cup Uint16
  <2>1. s.temp_x10 \in Int16 /\ s.ph_x100 \in Uint16 /\ s.seq \in Byte
    BY DEF Status
  <2>2. Byte \subseteq Uint16
    BY DEF Byte, Uint16
  <2> QED
    BY <2>1, <2>2
<1>2. \A key \in {"temp_x10", "temp_c", "ph_x100", "ph", "water_ok", "light", "heater", "pump",
                 "ctrl_mode", "alarm_enable", "seq"} : Name(key)
  <2>1. {"temp_x10", "temp_c", "ph_x100", "ph", "water_ok", "light", "heater", "pump",
         "ctrl_mode", "alarm_enable", "seq"} \subseteq Literals \ {"bad", NUL}
    BY DEF Literals, NUL
  <2> QED
    BY <2>1 DEF Name
<1>3. "sub" \in {"root", "sub"} /\ 1 \in {1, 10, 100} /\ 10 \in {1, 10, 100}
      /\ 100 \in {1, 10, 100}
  OBVIOUS
<1>4. (IF s.ctrl_mode_auto THEN <<"AUTO">> ELSE <<"MANUAL">>) \in Words
      /\ NoNUL(IF s.ctrl_mode_auto THEN <<"AUTO">> ELSE <<"MANUAL">>)
  <2>1. {"AUTO", "MANUAL"} \subseteq Literals \ {"bad"} /\ "AUTO" # NUL /\ "MANUAL" # NUL
    BY DEF Literals, NUL
  <2> QED
    BY <2>1, LiteralWords, NoNULOne
<1>5. /\ Number("sub", "temp_x10", s.temp_x10, 1) \in Leaves
      /\ Number("sub", "temp_c", s.temp_x10, 10) \in Leaves
      /\ Number("sub", "ph_x100", s.ph_x100, 1) \in Leaves
      /\ Number("sub", "ph", s.ph_x100, 100) \in Leaves
      /\ Number("sub", "seq", s.seq, 1) \in Leaves
  BY <1>1, <1>2, <1>3, LeafTexts
<1>6. /\ Bool("sub", "water_ok", s.water_ok) \in Leaves
      /\ Bool("sub", "light", s.light) \in Leaves
      /\ Bool("sub", "heater", s.heater) \in Leaves
      /\ Bool("sub", "pump", s.pump) \in Leaves
      /\ Bool("sub", "alarm_enable", s.alarm_enable) \in Leaves
  BY <1>2, <1>3, LeafTexts
<1>7. Text("sub", "ctrl_mode", IF s.ctrl_mode_auto THEN <<"AUTO">> ELSE <<"MANUAL">>) \in Leaves
  BY <1>2, <1>3, <1>4, LeafTexts
<1> QED
  BY <1>5, <1>6, <1>7, Joined11 DEF StatusFields

LEMMA UploadSendable ==
  ASSUME NEW d \in Devices, NEW s \in Status
  PROVE  \E o : Sendable(UploadFields(d, s), o)
<1> DEFINE a == <<Text("root", "gateway_id", <<"GW-1">>), Text("root", "device_id", d.device_id)>>
           b == IF d.reg_code = <<>> THEN <<>> ELSE <<Text("root", "reg_code", d.reg_code)>>
           x == Text("root", "device_type", <<"smart_reef_tank">>)
           y == Field("root", "status", "Object", <<>>)
           c == StatusFields(s)
           z == Number("root", "ts_ms", 7, 1)
<1>1. \A key \in {"gateway_id", "device_id", "reg_code", "device_type", "status", "ts_ms"} :
        Name(key)
  <2>1. {"gateway_id", "device_id", "reg_code", "device_type", "status", "ts_ms"}
          \subseteq Literals \ {"bad", NUL}
    BY DEF Literals, NUL
  <2> QED
    BY <2>1 DEF Name
<1>2. /\ d.device_id \in Words /\ NoNUL(d.device_id)
      /\ d.reg_code \in Words /\ NoNUL(d.reg_code)
  BY ClientAssumption, BodyAssumption, WordsTyped
<1>3. /\ <<"GW-1">> \in Words /\ NoNUL(<<"GW-1">>)
      /\ <<"smart_reef_tank">> \in Words /\ NoNUL(<<"smart_reef_tank">>)
  <2>1. {"GW-1", "smart_reef_tank"} \subseteq Literals \ {"bad"}
        /\ "GW-1" # NUL /\ "smart_reef_tank" # NUL
    BY DEF Literals, NUL
  <2> QED
    BY <2>1, LiteralWords, NoNULOne
<1>4. "root" \in {"root", "sub"} /\ 7 \in Int16 \cup Uint16 /\ 1 \in {1, 10, 100}
  BY DEF Uint16
<1>5. /\ Text("root", "gateway_id", <<"GW-1">>) \in Leaves
      /\ Text("root", "device_id", d.device_id) \in Leaves
      /\ Text("root", "reg_code", d.reg_code) \in Leaves
      /\ x \in Leaves /\ z \in Leaves
  BY <1>1, <1>2, <1>3, <1>4, LeafTexts
<1>6. /\ Text("root", "gateway_id", <<"GW-1">>) \in RootLeaves
      /\ Text("root", "device_id", d.device_id) \in RootLeaves
      /\ Text("root", "reg_code", d.reg_code) \in RootLeaves
      /\ x \in RootLeaves
  BY <1>5 DEF RootLeaves, Text, Field
<1>7. y \in Writable /\ y.to = "root" /\ y.type = "Object" /\ Clean(y)
  BY <1>1, ObjectField
<1>8. c \in Seq(Leaves)
  BY StatusLeaves
<1>9. a \in Seq(RootLeaves) /\ b \in Seq(RootLeaves)
  BY <1>6
<1>10. UploadFields(d, s) = a \o b \o <<x, y>> \o c \o <<z>>
  BY DEF UploadFields
<1> HIDE DEF a, b, c, x, y, z
<1> DEFINE p == (a \o b) \o <<x>>
           t == c \o <<z>>
<1>11. p \in Seq(RootLeaves) /\ t \in Seq(Leaves)
  <2>1. a \o b \in Seq(RootLeaves)
    BY <1>9, ConcatProperties
  <2>2. <<x>> \in Seq(RootLeaves) /\ <<z>> \in Seq(Leaves)
    BY <1>5, <1>6
  <2> QED
    BY <1>8, <2>1, <2>2, ConcatProperties
<1>12. UploadFields(d, s) = (p \o <<y>>) \o t
  <2> DEFINE W == Writable
             ab == a \o b
  <2>1. RootLeaves \subseteq W /\ Leaves \subseteq W
    BY DEF RootLeaves, Leaves
  <2>2. /\ ab \in Seq(W) /\ <<x>> \in Seq(W) /\ <<y>> \in Seq(W) /\ c \in Seq(W)
        /\ <<z>> \in Seq(W)
    <3> HIDE DEF W
    <3>1. a \in Seq(W) /\ b \in Seq(W) /\ x \in W /\ z \in W /\ c \in Seq(W)
      BY <1>5, <1>8, <1>9, <2>1
    <3>2. y \in W
      BY <1>7 DEF W
    <3> QED
      BY <3>1, <3>2, ConcatProperties
  <2>3. <<x, y>> = <<x>> \o <<y>>
    BY Pairs
  <2> HIDE DEF W, ab
  <2>4. ab \o <<x, y>> = (ab \o <<x>>) \o <<y>>
    BY <2>2, <2>3, ConcatAssociative
  <2>5. (ab \o <<x>>) \o <<y>> \in Seq(W)
    BY <2>2, ConcatProperties
  <2>6. (((ab \o <<x>>) \o <<y>>) \o c) \o <<z>> = ((ab \o <<x>>) \o <<y>>) \o (c \o <<z>>)
    BY <2>2, <2>5, ConcatAssociative
  <2> QED
    BY <1>10, <2>4, <2>6 DEF ab
<1> HIDE DEF p, t
<1>13. Sendable((p \o <<y>>) \o t, Len(p) + 1)
  BY <1>7, <1>11, FieldsOrdered
<1> QED
  BY <1>12, <1>13

LEMMA ReportSendable ==
  ASSUME NEW r, r.cmd_id \in Words, NoNUL(r.cmd_id), r.message \in Words, NoNUL(r.message)
  PROVE  \E o : Sendable(ReportFields(r), o)
<1> DEFINE a == Text("root", "cmd_id", r.cmd_id)
           b == Text("root", "status", IF r.success THEN <<"success">> ELSE <<"failed">>)
           y == Field("root", "result", "Object", <<>>)
           z == Text("sub", "message", r.message)
<1>1. \A key \in {"cmd_id", "status", "result", "message"} : Name(key)
  <2>1. {"cmd_id", "status", "result", "message"} \subseteq Literals \ {"bad", NUL}
    BY DEF Literals, NUL
  <2> QED
    BY <2>1 DEF Name
<1>2. (IF r.success THEN <<"success">> ELSE <<"failed">>) \in Words
      /\ NoNUL(IF r.success THEN <<"success">> ELSE <<"failed">>)
  <2>1. {"success", "failed"} \subseteq Literals \ {"bad"} /\ "success" # NUL /\ "failed" # NUL
    BY DEF Literals, NUL
  <2> QED
    BY <2>1, LiteralWords, NoNULOne
<1>3. "root" \in {"root", "sub"} /\ "sub" \in {"root", "sub"}
  OBVIOUS
<1>4. a \in Leaves /\ b \in Leaves /\ z \in Leaves
  BY <1>1, <1>2, <1>3, LeafTexts
<1>5. a \in RootLeaves /\ b \in RootLeaves
  BY <1>4 DEF RootLeaves, Text, Field
<1>6. y \in Writable /\ y.to = "root" /\ y.type = "Object" /\ Clean(y)
  BY <1>1, ObjectField
<1>7. ReportFields(r) = <<a, b, y, z>>
  BY DEF ReportFields
<1> HIDE DEF a, b, y, z
<1>8. <<a, b>> \in Seq(RootLeaves) /\ <<z>> \in Seq(Leaves)
  BY <1>4, <1>5
<1>9. <<a, b, y, z>> = (<<a, b>> \o <<y>>) \o <<z>>
  <2> DEFINE S == {a, b, y, z}
             t == <<a, b, y, z>>
             w == (<<a, b>> \o <<y>>) \o <<z>>
  <2>1. a \in S /\ b \in S /\ y \in S /\ z \in S
    OBVIOUS
  <2> HIDE DEF S
  <2>2. t \in Seq(S) /\ Len(t) = 4 /\ t[1] = a /\ t[2] = b /\ t[3] = y /\ t[4] = z
    BY <2>1
  <2>3. w \in Seq(S) /\ Len(w) = 4 /\ w[1] = a /\ w[2] = b /\ w[3] = y /\ w[4] = z
    BY <2>1
  <2> HIDE DEF t, w
  <2>4. \A i \in 1 .. Len(t) : i = 1 \/ i = 2 \/ i = 3 \/ i = 4
    BY <2>2
  <2>5. \A i \in 1 .. Len(t) : t[i] = w[i]
    BY <2>2, <2>3, <2>4
  <2>6. t = w
    BY <2>2, <2>3, <2>5, SeqEqual
  <2> QED
    BY <2>6 DEF t, w
<1>10. Sendable((<<a, b>> \o <<y>>) \o <<z>>, Len(<<a, b>>) + 1)
  BY <1>6, <1>8, FieldsOrdered
<1> QED
  BY <1>7, <1>9, <1>10

-----------------------------------------------------------------------------
(* The lists of items *)

\* What add_item_to_object changes of the items, and what not.
Moved(h, k, p, x, head, tail, key) ==
  /\ DOMAIN k = DOMAIN h
  /\ \A n \in DOMAIN h :
       /\ k[n].type = h[n].type /\ k[n].number = h[n].number
       /\ k[n].valuestring = h[n].valuestring
       /\ k[n].string = (IF n = x THEN key ELSE h[n].string)
       /\ k[n].child = (IF head = Null /\ n = p THEN x ELSE h[n].child)
       /\ k[n].next = (IF head # Null /\ n = tail THEN x ELSE h[n].next)
       /\ k[n].prev = (IF head = Null THEN IF n = x THEN x ELSE h[n].prev
                       ELSE IF n = x THEN tail ELSE IF n = head THEN x ELSE h[n].prev)

\* The ends of a list; what is assumed of the items of fields, with a name each.
EndsOf(h, p, head, tail) == head = h[p].child /\ tail = h[head].prev
Agree(S, node, new) == \A i \in S : new[i] = node[i]
Own(h, S, node, x) ==
  \A i \in S : node[i] \in DOMAIN h \ {x} /\ \A j \in S : node[i] = node[j] => i = j
Clear(h, S, node, x, head, tail) ==
  \A i \in S : /\ node[i] \in DOMAIN h \ {x}
               /\ head # Null => node[i] # head /\ node[i] # tail

LEMMA JoinParts ==
  ASSUME Typed(item), NEW p \in DOMAIN item, NEW x \in DOMAIN item, p # x, NEW key \in Words,
         NEW k, Joins(p, x, key, k), item[x].next = Null,
         NEW head, head = item[p].child, NEW tail, tail = item[head].prev,
         head # Null => head \in DOMAIN item \ {x} /\ tail \in DOMAIN item \ {x}
  PROVE  Moved(item, k, p, x, head, tail, key)
<1>1. \A n \in DOMAIN item : item[n] \in ItemsOf(DOMAIN item)
  BY FieldsTyped
<1>2. item = [n \in DOMAIN item |-> item[n]]
  BY DEF Typed
<1>3. CASE head = Null
  <2>1. k = [[item EXCEPT ![p].child = x, ![x].prev = x, ![x].next = Null]
               EXCEPT ![x].string = key]
    BY <1>3 DEF Joins, Appended
  <2>2. /\ DOMAIN k = DOMAIN item
        /\ k[p] = [item[p] EXCEPT !.child = x]
        /\ k[x] = [item[x] EXCEPT !.prev = x, !.next = Null, !.string = key]
        /\ \A n \in DOMAIN item \ {p, x} : k[n] = item[n]
    BY <1>2, <2>1
  <2>3. ASSUME NEW n \in DOMAIN item
        PROVE  /\ k[n].type = item[n].type /\ k[n].number = item[n].number
               /\ k[n].valuestring = item[n].valuestring
               /\ k[n].string = (IF n = x THEN key ELSE item[n].string)
               /\ k[n].child = (IF n = p THEN x ELSE item[n].child)
               /\ k[n].next = item[n].next
               /\ k[n].prev = (IF n = x THEN x ELSE item[n].prev)
    <3>1. CASE n = p
      <4>1. k[n] = [item[n] EXCEPT !.child = x] /\ item[n] \in ItemsOf(DOMAIN item)
        BY <1>1, <2>2, <3>1
      <4> QED
        BY <3>1, <4>1, SMTT(40) DEF ItemsOf
    <3>2. CASE n = x
      <4>1. /\ k[n] = [item[n] EXCEPT !.prev = x, !.next = Null, !.string = key]
            /\ item[n] \in ItemsOf(DOMAIN item) /\ item[n].next = Null
        BY <1>1, <2>2, <3>2
      <4> QED
        BY <3>2, <4>1, SMTT(40) DEF ItemsOf
    <3>3. CASE n \notin {p, x}
      <4>1. k[n] = item[n]
        BY <2>2, <3>3
      <4> QED
        BY <3>3, <4>1
    <3> QED
      BY <3>1, <3>2, <3>3
  <2> QED
    BY <1>3, <2>2, <2>3 DEF Moved
<1>4. CASE head # Null
  <2>1. k = [[item EXCEPT ![tail].next = x, ![x].prev = tail, ![head].prev = x]
               EXCEPT ![x].string = key]
    BY <1>4 DEF Joins, Appended
  <2>2. head \in DOMAIN item \ {x} /\ tail \in DOMAIN item \ {x}
    BY <1>4
  <2>3. /\ DOMAIN k = DOMAIN item
        /\ k[x] = [item[x] EXCEPT !.prev = tail, !.string = key]
        /\ head # tail => /\ k[head] = [item[head] EXCEPT !.prev = x]
                          /\ k[tail] = [item[tail] EXCEPT !.next = x]
        /\ head = tail => k[head] = [item[head] EXCEPT !.next = x, !.prev = x]
        /\ \A n \in DOMAIN item \ {head, tail, x} : k[n] = item[n]
    BY <1>2, <2>1, <2>2
  <2>4. ASSUME NEW n \in DOMAIN item
        PROVE  /\ k[n].type = item[n].type /\ k[n].number = item[n].number
               /\ k[n].valuestring = item[n].valuestring
               /\ k[n].string = (IF n = x THEN key ELSE item[n].string)
               /\ k[n].child = item[n].child
               /\ k[n].next = (IF n = tail THEN x ELSE item[n].next)
               /\ k[n].prev = (IF n = x THEN tail ELSE IF n = head THEN x ELSE item[n].prev)
    <3>1. CASE n = x
      <4>1. /\ k[n] = [item[n] EXCEPT !.prev = tail, !.string = key] /\ n # tail
            /\ item[n] \in ItemsOf(DOMAIN item)
        BY <1>1, <2>2, <2>3, <3>1
      <4> QED
        BY <3>1, <4>1, SMTT(40) DEF ItemsOf
    <3>2. CASE n = head /\ head # tail
      <4>1. /\ k[n] = [item[n] EXCEPT !.prev = x] /\ n # x
            /\ item[n] \in ItemsOf(DOMAIN item)
        BY <1>1, <2>2, <2>3, <3>2
      <4> QED
        BY <3>2, <4>1, SMTT(40) DEF ItemsOf
    <3>3. CASE n = tail /\ head # tail
      <4>1. /\ k[n] = [item[n] EXCEPT !.next = x] /\ n # x
            /\ item[n] \in ItemsOf(DOMAIN item)
        BY <1>1, <2>2, <2>3, <3>3
      <4> QED
        BY <3>3, <4>1, SMTT(40) DEF ItemsOf
    <3>4. CASE n = head /\ head = tail
      <4>1. /\ k[n] = [item[n] EXCEPT !.next = x, !.prev = x] /\ n # x
            /\ item[n] \in ItemsOf(DOMAIN item)
        BY <1>1, <2>2, <2>3, <3>4
      <4>2. /\ k[n].type = item[n].type /\ k[n].number = item[n].number
            /\ k[n].valuestring = item[n].valuestring /\ k[n].string = item[n].string
            /\ k[n].child = item[n].child /\ k[n].next = x /\ k[n].prev = x
        BY <4>1, SMTT(40) DEF ItemsOf
      <4> QED
        BY <3>4, <4>1, <4>2
    <3>5. CASE n \notin {head, tail, x}
      <4>1. k[n] = item[n]
        BY <2>3, <3>5
      <4> QED
        BY <3>5, <4>1
    <3> QED
      BY <3>1, <3>2, <3>3, <3>4, <3>5
  <2> QED
    BY <1>4, <2>3, <2>4 DEF Moved
<1> QED
  BY <1>3, <1>4

\* A list of which no item is touched.
LEMMA ListKept ==
  ASSUME NEW h, NEW k, NEW p, NEW S, 0 \notin S, NEW node, NEW new, Listed(h, p, S, node),
         k[p].child = h[p].child,
         \A i \in S : /\ new[i] = node[i]
                      /\ k[node[i]].next = h[node[i]].next /\ k[node[i]].prev = h[node[i]].prev
  PROVE  Listed(k, p, S, new)
BY DEF Listed, LinkOf

\* The first and the last of some fields.
FirstLast(S, a, z) == a \in S /\ z \in S /\ \A i \in S : a <= i /\ i <= z

LEMMA FirstAndLast ==
  ASSUME NEW d \in Nat, NEW S, S \subseteq 1 .. d, S # {}
  PROVE  \E a, z : FirstLast(S, a, z)
<1>1. PICK a \in S : \A i \in S : a <= i
  <2>1. S \in SUBSET Nat
    OBVIOUS
  <2> QED
    BY <2>1, Least
<1>2. PICK z \in S : \A i \in S : i <= z
  <2> DEFINE T == {d - i : i \in S}
  <2>1. T \in SUBSET Nat /\ T # {}
    OBVIOUS
  <2>2. PICK t \in T : \A u \in T : t <= u
    BY <2>1, Least
  <2>3. PICK z \in S : t = d - z
    BY <2>2
  <2>4. ASSUME NEW i \in S PROVE i <= z
    <3>1. d - i \in T
      OBVIOUS
    <3>2. d - z <= d - i
      BY <2>2, <2>3, <3>1
    <3>3. i \in Nat /\ z \in Nat
      OBVIOUS
    <3> QED
      BY <3>2, <3>3
  <2> QED
    BY <2>4
<1> QED
  BY <1>1, <1>2 DEF FirstLast

\* The head of a list, and the tail that its prev is.
LEMMA EndsOfList ==
  ASSUME NEW h, NEW p, NEW S \in SUBSET (Nat \ {0}), NEW node, Listed(h, p, S, node),
         NEW a, NEW z, FirstLast(S, a, z)
  PROVE  h[p].child = node[a] /\ h[node[a]].prev = node[z]
<1>1. h[p].child = node[a]
  <2>1. 0 < a /\ \A i \in S : i <= 0 \/ i >= a
    BY DEF FirstLast
  <2>2. LinkOf(h, p, node, 0) = node[a]
    BY <2>1 DEF Listed, FirstLast
  <2> QED
    BY <2>2 DEF LinkOf
<1> QED
  BY <1>1 DEF Listed, FirstLast

LEMMA NoList ==
  ASSUME NEW h, NEW p, NEW S, S = {}, NEW node
  PROVE  Listed(h, p, S, node) <=> h[p].child = Null
BY DEF Listed, LinkOf

\* One item more: at the end.
LEMMA ListJoined ==
  ASSUME NEW h, NEW k, NEW p \in DOMAIN h, NEW x \in DOMAIN h, NEW key, NEW head, NEW tail,
         Moved(h, k, p, x, head, tail, key), h[x].next = Null, Null \notin DOMAIN h,
         EndsOf(h, p, head, tail),
         NEW d \in Nat, NEW S, S \subseteq 1 .. d, NEW node, Listed(h, p, S, node),
         Own(h, S, node, x), NEW new, Agree(S, node, new), new[d + 1] = x
  PROVE  Listed(k, p, S \cup {d + 1}, new)
<1> USE DEF EndsOf, Agree, Own
<1>1. CASE S = {}
  <2>1. head = Null
    BY <1>1, NoList
  <2>2. k[p].child = x /\ k[x].next = Null /\ k[x].prev = x
    BY <2>1 DEF Moved
  <2>3. Listed(k, p, {d + 1}, new)
    BY <2>2 DEF Listed, LinkOf
  <2>4. S \cup {d + 1} = {d + 1}
    BY <1>1
  <2> QED
    BY <2>3, <2>4
<1>2. CASE S # {}
  <2>1. PICK a, z : FirstLast(S, a, z)
    BY <1>2, FirstAndLast
  <2>2. head = node[a] /\ tail = node[z]
    <3>1. S \in SUBSET (Nat \ {0})
      OBVIOUS
    <3>2. h[p].child = node[a] /\ h[node[a]].prev = node[z]
      BY <2>1, <3>1, EndsOfList
    <3> QED
      BY <3>2
  <2>3. head # Null /\ head \in DOMAIN h \ {x} /\ tail \in DOMAIN h \ {x}
    BY <2>1, <2>2 DEF FirstLast
  <2>4. /\ k[p].child = head /\ k[x].next = Null /\ k[head].prev = x /\ k[tail].next = x
        /\ \A i \in S : i # z => k[node[i]].next = h[node[i]].next
    <3>1. \A n \in DOMAIN h :
              /\ k[n].child = h[n].child
              /\ k[n].next = (IF n = tail THEN x ELSE h[n].next)
              /\ k[n].prev = (IF n = x THEN tail ELSE IF n = head THEN x ELSE h[n].prev)
      BY <2>3 DEF Moved
    <3>2. k[p].child = head /\ k[x].next = Null /\ k[head].prev = x /\ k[tail].next = x
      BY <2>3, <3>1
    <3>3. ASSUME NEW i \in S, i # z PROVE k[node[i]].next = h[node[i]].next
      <4>1. node[i] \in DOMAIN h /\ node[i] # tail
        BY <2>1, <2>2, <3>3 DEF FirstLast
      <4> QED
        BY <3>1, <4>1
    <3> QED
      BY <3>2, <3>3
  <2> DEFINE Q == S \cup {d + 1}
  <2>5. ASSUME NEW i \in S PROVE i \in Nat /\ 0 < i /\ i < d + 1
    <3>1. i \in 1 .. d
      OBVIOUS
    <3> QED
      BY <3>1
  <2>6. ASSUME NEW i \in Q \cup {0}, NEW j \in Q, i < j, \A l \in Q : l <= i \/ l >= j
        PROVE  LinkOf(k, p, new, i) = new[j]
    <3>1. CASE j = d + 1
      <4>1. i = z
        BY <2>1, <2>5, <2>6, <3>1 DEF FirstLast
      <4>2. i \in S /\ i # 0 /\ new[i] = node[z] /\ new[j] = x
        BY <2>1, <2>5, <3>1, <4>1 DEF FirstLast
      <4> QED
        BY <2>2, <2>4, <4>2 DEF LinkOf
    <3>2. CASE j # d + 1
      <4>1. j \in S /\ i \in S \cup {0} /\ i # z
        BY <2>1, <2>5, <2>6, <3>2 DEF FirstLast
      <4>2. \A l \in S : l <= i \/ l >= j
        BY <2>6
      <4>3. LinkOf(h, p, node, i) = node[j]
        BY <2>6, <4>1, <4>2 DEF Listed
      <4>4. CASE i = 0
        BY <2>4, <4>1, <4>3, <4>4 DEF LinkOf
      <4>5. CASE i # 0
        <5>1. i \in S /\ new[i] = node[i] /\ new[j] = node[j]
          BY <4>1, <4>5
        <5>2. k[node[i]].next = h[node[i]].next
          BY <2>4, <4>1, <5>1
        <5> QED
          BY <4>3, <4>5, <5>1, <5>2 DEF LinkOf
      <4> QED
        BY <4>4, <4>5
    <3> QED
      BY <3>1, <3>2
  <2>7. ASSUME NEW i \in Q \cup {0}, \A j \in Q : j <= i
        PROVE  LinkOf(k, p, new, i) = Null
    <3>1. i = d + 1
      BY <2>5, <2>7
    <3> QED
      BY <2>4, <3>1 DEF LinkOf
  <2>8. ASSUME NEW i \in Q, NEW j \in Q, \A l \in Q : i <= l /\ l <= j
        PROVE  k[new[i]].prev = new[j]
    <3>1. i = a /\ j = d + 1
      BY <2>1, <2>5, <2>8 DEF FirstLast
    <3>2. new[i] = node[a] /\ new[j] = x
      BY <2>1, <3>1 DEF FirstLast
    <3> QED
      BY <2>2, <2>4, <3>2
  <2>9. Listed(k, p, Q, new)
    BY <2>6, <2>7, <2>8 DEF Listed
  <2> QED
    BY <2>9
<1> QED
  BY <1>1, <1>2

\* A list of which no item is near the one that joins.
LEMMA OtherList ==
  ASSUME NEW h, NEW k, NEW p, NEW x, NEW head, NEW tail, NEW key, Moved(h, k, p, x, head, tail, key),
         NEW q \in DOMAIN h, q # p, NEW S, 0 \notin S, NEW node, Listed(h, q, S, node),
         Clear(h, S, node, x, head, tail), NEW new, Agree(S, node, new)
  PROVE  Listed(k, q, S, new)
<1> USE DEF Agree, Clear
<1>1. k[q].child = h[q].child
  BY DEF Moved
<1>2. ASSUME NEW i \in S
      PROVE  /\ new[i] = node[i]
             /\ k[node[i]].next = h[node[i]].next /\ k[node[i]].prev = h[node[i]].prev
  BY DEF Moved
<1> QED
  BY <1>1, <1>2, ListKept

\* The tree of which no item is touched, whatever else is.
LEMMA TreeKept ==
  ASSUME NEW h, NEW k, NEW r, NEW s, NEW fs, NEW o, NEW R, NEW S, NEW node,
         Tree(h, r, s, fs, o, R, S, node), NEW T, o \in R => T = S, 0 \notin R, 0 \notin S,
         r \in DOMAIN k, k[r] = h[r],
         \A i \in There(R, S, o) : node[i] \in DOMAIN k /\ k[node[i]] = h[node[i]]
  PROVE  Tree(k, r, s, fs, o, R, T, node) /\ There(R, T, o) = There(R, S, o)
<1>1. There(R, T, o) = There(R, S, o)
  BY DEF There
<1>2. Placed(k, fs, There(R, S, o), node) /\ Apart(There(R, S, o), node, r)
  BY DEF Tree, Placed, Holds
<1>3. k[r].type = "Object" /\ k[r].next = Null /\ s = (IF o \in R THEN node[o] ELSE Null)
  BY DEF Tree
<1>4. Listed(k, r, R, node)
  <2>1. Listed(h, r, R, node) /\ k[r].child = h[r].child
    BY DEF Tree
  <2>2. \A i \in R : /\ node[i] = node[i] /\ k[node[i]].next = h[node[i]].next
                    /\ k[node[i]].prev = h[node[i]].prev
    BY DEF There
  <2>3. 0 \notin R
    OBVIOUS
  <2> QED
    BY <2>1, <2>2, <2>3 DEF Listed, LinkOf
<1>5. ASSUME o \in R PROVE Listed(k, s, S, node)
  <2>1. Listed(h, s, S, node) /\ s = node[o]
    BY <1>5 DEF Tree
  <2>2. k[s].child = h[s].child
    BY <1>5, <2>1 DEF There
  <2>3. \A i \in S : /\ node[i] = node[i] /\ k[node[i]].next = h[node[i]].next
                    /\ k[node[i]].prev = h[node[i]].prev
    BY <1>5 DEF There
  <2>4. 0 \notin S
    OBVIOUS
  <2> QED
    BY <2>1, <2>2, <2>3, <2>4 DEF Listed, LinkOf
<1> QED
  BY <1>1, <1>2, <1>3, <1>4, <1>5 DEF Tree

\* x, which is for the next field, joins p; new has it for that field.
Joining(h, k, fs, d, node, new, p, x, head, tail) ==
  /\ Null \notin DOMAIN h /\ x \in DOMAIN h /\ p \in DOMAIN h
  /\ h[x].next = Null /\ h[x].child = Null /\ Holds(h, x, fs[d + 1], TRUE)
  /\ EndsOf(h, p, head, tail) /\ Moved(h, k, p, x, head, tail, fs[d + 1].key)
  /\ new[d + 1] = x /\ \A i \in 1 .. d : new[i] = node[i]

\* The item is none of those that are there.
Outside(P, node, r, x) == x # r /\ \A i \in P : node[i] # x

LEMMA PlacedJoined ==
  ASSUME NEW h, NEW k, NEW fs, NEW d \in Nat, NEW node, NEW new, NEW p, NEW x, NEW head, NEW tail,
         Joining(h, k, fs, d, node, new, p, x, head, tail),
         NEW P, P \subseteq 1 .. d, NEW r, Placed(h, fs, P, node), Apart(P, node, r),
         Outside(P, node, r, x)
  PROVE  Placed(k, fs, P \cup {d + 1}, new) /\ Apart(P \cup {d + 1}, new, r)
<1>1. /\ DOMAIN k = DOMAIN h /\ x \in DOMAIN h /\ new[d + 1] = x
      /\ \A i \in P : new[i] = node[i] /\ node[i] # x /\ i # d + 1
  BY DEF Joining, Moved, Outside
<1>2. \A n \in DOMAIN h :
         /\ k[n].type = h[n].type /\ k[n].number = h[n].number
         /\ k[n].valuestring = h[n].valuestring
         /\ k[n].string = (IF n = x THEN fs[d + 1].key ELSE h[n].string)
  BY DEF Joining, Moved
<1>3. ASSUME NEW i \in P
      PROVE  new[i] \in DOMAIN k /\ Holds(k, new[i], fs[i], TRUE) /\ k[new[i]].string = fs[i].key
  <2>1. node[i] \in DOMAIN h /\ Holds(h, node[i], fs[i], TRUE) /\ h[node[i]].string = fs[i].key
    BY DEF Placed
  <2> QED
    BY <1>1, <1>2, <2>1 DEF Holds
<1>4. /\ new[d + 1] \in DOMAIN k /\ Holds(k, new[d + 1], fs[d + 1], TRUE)
      /\ k[new[d + 1]].string = fs[d + 1].key
  <2>1. Holds(h, x, fs[d + 1], TRUE)
    BY DEF Joining
  <2> QED
    BY <1>1, <1>2, <2>1 DEF Holds
<1>5. Placed(k, fs, P \cup {d + 1}, new)
  BY <1>3, <1>4 DEF Placed
<1>6. Apart(P \cup {d + 1}, new, r)
  <2>1. x # r
    BY DEF Outside
  <2> QED
    BY <1>1, <2>1 DEF Apart
<1> QED
  BY <1>5, <1>6

\* The head and the tail of a list are items of it.
Among(S, node, head, tail) == head # Null => \E i, j \in S : head = node[i] /\ tail = node[j]

LEMMA EndsThere ==
  ASSUME NEW h, NEW p, NEW d \in Nat, NEW S, S \subseteq 1 .. d, NEW node, Listed(h, p, S, node),
         NEW head, NEW tail, EndsOf(h, p, head, tail)
  PROVE  Among(S, node, head, tail)
<1> USE DEF EndsOf, Among
<1>1. S = {} => head = Null
  BY NoList
<1>2. CASE S # {}
  <2>1. PICK a, z : FirstLast(S, a, z)
    BY <1>2, FirstAndLast
  <2>2. S \in SUBSET (Nat \ {0})
    OBVIOUS
  <2>3. h[p].child = node[a] /\ h[node[a]].prev = node[z]
    BY <2>1, <2>2, EndsOfList
  <2> QED
    BY <2>1, <2>3 DEF FirstLast
<1> QED
  BY <1>1, <1>2

\* The fields before the one that is added.
Before(d, o, R, S) ==
  /\ d \in Nat /\ o \in Nat \ {0} /\ R \subseteq 1 .. d /\ S \subseteq 1 .. d
  /\ R \cap S = {} /\ (d + 1 = o => S = {})
Adds(P, d, Q) == Q = P \cup {d + 1}

\* A field goes to the root.
LEMMA JoinsRoot ==
  ASSUME NEW h, NEW k, NEW fs, NEW d, NEW node, NEW new, NEW x, NEW head, NEW tail,
         NEW r, NEW s, NEW o, NEW R, NEW S, Before(d, o, R, S),
         Joining(h, k, fs, d, node, new, r, x, head, tail),
         Tree(h, r, s, fs, o, R, S, node), Outside(There(R, S, o), node, r, x)
  PROVE  /\ Tree(k, r, IF d + 1 = o THEN x ELSE s, fs, o, R \cup {d + 1}, S, new)
         /\ Adds(There(R, S, o), d, There(R \cup {d + 1}, S, o))
<1> DEFINE P == There(R, S, o)
           Q == R \cup {d + 1}
           t == IF d + 1 = o THEN x ELSE s
<1> USE DEF Before, Adds
<1>1. /\ P \subseteq 1 .. d /\ R \subseteq P /\ (o \in R => S \subseteq P)
      /\ There(Q, S, o) = P \cup {d + 1} /\ (o \in Q <=> o \in R \/ d + 1 = o)
      /\ 0 \notin R /\ 0 \notin S
      /\ d + 1 \notin R
  <2>1. 0 \notin R /\ 0 \notin S /\ d + 1 \notin R
    OBVIOUS
  <2>2. P \subseteq 1 .. d /\ R \subseteq P /\ (o \in R => S \subseteq P)
    BY DEF There
  <2>3. o \in Q <=> o \in R \/ d + 1 = o
    OBVIOUS
  <2>4. There(Q, S, o) = P \cup {d + 1}
    <3>1. CASE o \in R
      BY <3>1 DEF There
    <3>2. CASE o \notin R /\ d + 1 = o
      BY <3>2 DEF There
    <3>3. CASE o \notin R /\ d + 1 # o
      BY <3>3 DEF There
    <3> QED
      BY <3>1, <3>2, <3>3
  <2> QED
    BY <2>1, <2>2, <2>3, <2>4
<1> HIDE DEF P, Q
<1>2. /\ Placed(h, fs, P, node) /\ Apart(P, node, r) /\ Outside(P, node, r, x)
      /\ r \in DOMAIN h /\ h[r].type = "Object" /\ h[r].next = Null
      /\ s = (IF o \in R THEN node[o] ELSE Null)
      /\ Listed(h, r, R, node) /\ (o \in R => Listed(h, s, S, node))
  BY DEF Tree, P
<1>3. Placed(k, fs, P \cup {d + 1}, new) /\ Apart(P \cup {d + 1}, new, r)
  BY <1>1, <1>2, PlacedJoined
<1>4. /\ Null \notin DOMAIN h /\ x \in DOMAIN h /\ h[x].next = Null /\ h[x].child = Null
      /\ EndsOf(h, r, head, tail) /\ Moved(h, k, r, x, head, tail, fs[d + 1].key)
      /\ new[d + 1] = x /\ (\A i \in 1 .. d : new[i] = node[i]) /\ x # r
  BY <1>2 DEF Joining, Outside
<1>5. \A i \in P : /\ node[i] \in DOMAIN h \ {x} /\ node[i] # r /\ node[i] # Null
                   /\ new[i] = node[i] /\ \A j \in P : node[i] = node[j] => i = j
  BY <1>1, <1>2, <1>4 DEF Placed, Apart, Outside
<1>6. Among(R, node, head, tail)
  BY <1>2, <1>4, EndsThere
<1>7. Listed(k, r, R \cup {d + 1}, new)
  <2>1. Own(h, R, node, x) /\ Agree(R, node, new)
    BY <1>1, <1>5 DEF Own, Agree
  <2> QED
    BY <1>2, <1>4, <2>1, ListJoined
<1>8. k[r].type = "Object" /\ k[r].next = Null /\ r \in DOMAIN k
  <2>1. head # Null => tail # r
    BY <1>1, <1>5, <1>6 DEF Among
  <2> QED
    BY <1>2, <1>4, <2>1 DEF Moved
<1>9. t = IF o \in Q THEN new[o] ELSE Null
  <2>1. CASE d + 1 = o
    BY <1>1, <1>4, <2>1
  <2>2. CASE d + 1 # o /\ o \in R
    <3>1. new[o] = node[o]
      BY <1>1, <1>5, <2>2
    <3> QED
      BY <1>1, <1>2, <2>2, <3>1
  <2>3. CASE d + 1 # o /\ o \notin R
    BY <1>1, <1>2, <2>3
  <2> QED
    BY <2>1, <2>2, <2>3
<1>10. ASSUME o \in Q PROVE Listed(k, t, S, new)
  <2>1. CASE d + 1 = o
    <3>1. k[x].child = Null
      BY <1>4 DEF Moved
    <3> QED
      BY <2>1, <3>1, NoList
  <2>2. CASE d + 1 # o
    <3>1. o \in R /\ t = s /\ s = node[o] /\ Listed(h, s, S, node)
      BY <1>1, <1>2, <1>10, <2>2
    <3>2. s \in DOMAIN h /\ s # r
      BY <1>1, <1>5, <3>1
    <3>3. Clear(h, S, node, x, head, tail) /\ Agree(S, node, new)
      BY <1>1, <1>5, <1>6, <3>1 DEF Clear, Agree, Among
    <3>4. Listed(k, s, S, new)
      BY <1>1, <1>4, <3>1, <3>2, <3>3, OtherList
    <3> QED
      BY <3>1, <3>4
  <2> QED
    BY <2>1, <2>2
<1> HIDE DEF t
<1>11. Tree(k, r, t, fs, o, Q, S, new)
  BY <1>1, <1>3, <1>7, <1>8, <1>9, <1>10 DEF Tree, Q
<1> QED
  BY <1>1, <1>11 DEF t, Q, P

\* A field goes into the object.
LEMMA JoinsSub ==
  ASSUME NEW h, NEW k, NEW fs, NEW d, NEW node, NEW new, NEW x, NEW head, NEW tail,
         NEW r, NEW s, NEW o, NEW R, NEW S, Before(d, o, R, S), s # Null,
         Joining(h, k, fs, d, node, new, s, x, head, tail),
         Tree(h, r, s, fs, o, R, S, node), Outside(There(R, S, o), node, r, x)
  PROVE  /\ Tree(k, r, s, fs, o, R, S \cup {d + 1}, new)
         /\ Adds(There(R, S, o), d, There(R, S \cup {d + 1}, o))
<1> DEFINE P == There(R, S, o)
           T == S \cup {d + 1}
<1> USE DEF Before, Adds
<1>1. /\ r \in DOMAIN h /\ h[r].type = "Object" /\ h[r].next = Null
      /\ o \in R /\ s = node[o] /\ Listed(h, r, R, node) /\ Listed(h, s, S, node)
      /\ Placed(h, fs, P, node) /\ Apart(P, node, r) /\ Outside(P, node, r, x)
  BY DEF Tree
<1>2. /\ P = R \cup S /\ There(R, T, o) = P \cup {d + 1} /\ P \subseteq 1 .. d
      /\ 0 \notin R /\ 0 \notin S
  BY <1>1 DEF There
<1> HIDE DEF P, T
<1>3. Placed(k, fs, P \cup {d + 1}, new) /\ Apart(P \cup {d + 1}, new, r)
  BY <1>1, <1>2, PlacedJoined
<1>4. /\ Null \notin DOMAIN h /\ x \in DOMAIN h /\ h[x].next = Null /\ h[x].child = Null
      /\ s \in DOMAIN h
      /\ EndsOf(h, s, head, tail) /\ Moved(h, k, s, x, head, tail, fs[d + 1].key)
      /\ new[d + 1] = x /\ (\A i \in 1 .. d : new[i] = node[i]) /\ x # r
  BY <1>1 DEF Joining, Outside
<1>5. \A i \in P : /\ node[i] \in DOMAIN h \ {x} /\ node[i] # r
                   /\ new[i] = node[i] /\ \A j \in P : node[i] = node[j] => i = j
  BY <1>1, <1>2, <1>4 DEF Placed, Apart, Outside
<1>6. Among(S, node, head, tail)
  BY <1>1, <1>4, EndsThere
<1>7. Listed(k, s, S \cup {d + 1}, new)
  <2>1. Own(h, S, node, x) /\ Agree(S, node, new)
    BY <1>2, <1>5 DEF Own, Agree
  <2> QED
    BY <1>1, <1>4, <2>1, ListJoined
<1>8. k[r].type = "Object" /\ k[r].next = Null /\ r \in DOMAIN k
  <2>1. head # Null => tail # r
    BY <1>2, <1>5, <1>6 DEF Among
  <2> QED
    BY <1>1, <1>4, <2>1 DEF Moved
<1>9. new[o] = node[o]
  BY <1>1, <1>2, <1>5
<1>10. Listed(k, r, R, new)
  <2>1. Clear(h, R, node, x, head, tail) /\ Agree(R, node, new)
    BY <1>2, <1>5, <1>6 DEF Clear, Agree, Among
  <2>2. r # s
    BY <1>1, <1>2, <1>5
  <2> QED
    BY <1>1, <1>2, <1>4, <2>1, <2>2, OtherList
<1>11. Tree(k, r, s, fs, o, R, T, new)
  BY <1>1, <1>2, <1>3, <1>7, <1>8, <1>9, <1>10 DEF Tree, T
<1> QED
  BY <1>2, <1>11 DEF T, P

\* Of one field more: where it goes, and what if it is lost.
LEMMA IntoType ==
  ASSUME NEW fs, NEW d \in Nat, NEW lost
  PROVE  /\ Into(fs, d, lost, "root") \subseteq 1 .. d /\ Into(fs, d, lost, "sub") \subseteq 1 .. d
         /\ Into(fs, d, lost, "root") \cap Into(fs, d, lost, "sub") = {}
BY DEF Into

\* The object is the one field that has that type, and it goes to the root.
LEMMA ObjectAt ==
  ASSUME NEW fs, NEW o, Ordered(fs, o), NEW i \in 1 .. Len(fs)
  PROVE  o \in Nat \ {0} /\ (i = o <=> fs[i].type = "Object") /\ (i = o => fs[i].to = "root")
<1>1. o \in 1 .. Len(fs) /\ fs[o].type = "Object" /\ fs[o].to = "root"
  BY DEF Ordered
<1>2. i # o => fs[i].type \in LeafTypes
  BY DEF Ordered
<1>3. "Object" \notin LeafTypes
  BY DEF LeafTypes
<1> QED
  BY <1>1, <1>2, <1>3

LEMMA IntoNothing ==
  ASSUME NEW fs, NEW o, Ordered(fs, o), NEW d \in Nat, d + 1 = o, NEW lost
  PROVE  Into(fs, d, lost, "sub") = {}
<1>1. \A i \in 1 .. d : i \in 1 .. Len(fs) /\ i < o
  BY DEF Ordered
<1>2. \A i \in 1 .. d : fs[i].to = "root"
  BY <1>1 DEF Ordered
<1> QED
  BY <1>2 DEF Into

-----------------------------------------------------------------------------
(* The body is built *)

\* The field that is added next.
LEMMA NextOf ==
  ASSUME NEW fs \in Seq(Writable), NEW d \in 0 .. Len(fs), fields = SubSeq(fs, d + 1, Len(fs)),
         fields # <<>>
  PROVE  /\ d + 1 \in 1 .. Len(fs) /\ This = fs[d + 1] /\ This.to \in {"root", "sub"}
         /\ This \in Writable /\ This.key \in Words
         /\ Tail(fields) = SubSeq(fs, (d + 1) + 1, Len(fs))
         /\ Tail(fields) = <<>> => d + 1 = Len(fs)
<1> DEFINE W == Writable
<1>1. fs \in Seq(W)
  OBVIOUS
<1> HIDE DEF W
<1>2. d \in Nat /\ Len(fs) \in Nat
  BY <1>1
<1>3. d < Len(fs)
  BY <1>1, <1>2
<1>4. /\ Len(fields) = Len(fs) - d /\ Head(fields) = fs[d + 1] /\ fs[d + 1] \in W
      /\ Len(Tail(fields)) = Len(fs) - d - 1
      /\ \A i \in 1 .. Len(fs) - d - 1 : Tail(fields)[i] = fs[d + 1 + i]
      /\ Tail(fields) \in Seq(W)
  BY <1>1, <1>2, <1>3
<1> DEFINE t == SubSeq(fs, (d + 1) + 1, Len(fs))
<1>5. /\ t \in Seq(W) /\ Len(t) = Len(fs) - d - 1
      /\ \A i \in 1 .. Len(fs) - d - 1 : t[i] = fs[d + 1 + i]
  BY <1>1, <1>2, <1>3
<1> HIDE DEF t
<1>6. Tail(fields) = t
  <2> DEFINE u == Tail(fields)
  <2>1. u \in Seq(W) /\ Len(u) = Len(t) /\ \A i \in 1 .. Len(u) : u[i] = t[i]
    BY <1>4, <1>5
  <2> HIDE DEF u
  <2>2. u = t
    BY <1>5, <2>1, SeqEqual
  <2> QED
    BY <2>2 DEF u
<1>7. fs[d + 1].to \in {"root", "sub"} /\ fs[d + 1].key \in Words
  BY <1>4 DEF W, Writable
<1>8. Tail(fields) = <<>> => d + 1 = Len(fs)
  <2>1. SUFFICES ASSUME Tail(fields) = <<>> PROVE d + 1 = Len(fs)
    OBVIOUS
  <2>2. Len(<<>>) = 0
    OBVIOUS
  <2>3. Len(fs) - d - 1 = 0
    BY <1>4, <2>1, <2>2, Zenon
  <2> QED
    BY <1>2, <2>3
<1>9. d + 1 \in 1 .. Len(fs)
  BY <1>2, <1>3
<1> QED
  BY <1>4, <1>6, <1>7, <1>8, <1>9 DEF This, W, t

\* cJSON_CreateObject
LEMMA CreateBuilds ==
  ASSUME PhaseInv, FieldsInv, HeapInv, CreateRoot, root' # Null,
         NEW fs \in Seq(Writable), fields = fs, NEW o, Ordered(fs, o)
  PROVE  \E d, lost, node : Built(fs, o, d, lost, node)' /\ Loses(lost, refused', Len(fs))
<1>1. /\ pc = "create" /\ pc' = "item" /\ root = Null /\ adding = Null /\ sub = Null
      /\ UNCHANGED <<fields, adding, sub>> /\ refused' \in Nat
  BY ItemsAssumption DEF CreateRoot, PhaseInv, FieldsInv, locals, Refuse
<1>2. Sound(item, strings, {}) /\ Heap(item, {})
  BY <1>1, TreesOf DEF Trees
<1> DEFINE b == [Blank EXCEPT !.type = "Object"]
<1>3. item' = WithNew(b) /\ root' = Fresh
  BY <1>1 DEF CreateRoot
<1>4. DOMAIN item = {}
  BY <1>2, NoTree
<1>5. DOMAIN item' = {root'} /\ item'[root'] = b
  BY <1>3, <1>4 DEF WithNew
<1>6. b.type = "Object" /\ b.next = Null /\ b.child = Null
  BY DEF Blank
<1> HIDE DEF b
<1> DEFINE node == [i \in 1 .. Len(fs) |-> 0]
<1>7. Len(fs) \in Nat /\ fs = SubSeq(fs, 0 + 1, Len(fs))
  <2> DEFINE W == Writable
  <2>1. fs \in Seq(W)
    OBVIOUS
  <2> HIDE DEF W
  <2> QED
    BY <2>1
<1>8. Into(fs, 0, {}, "root") = {} /\ Into(fs, 0, {}, "sub") = {} /\ There({}, {}, o) = {}
  BY DEF Into, There
<1>9. Tree(item', root', sub', fs, o, {}, {}, node)
  <2>1. Listed(item', root', {}, node)
    BY <1>5, <1>6, NoList
  <2>2. Placed(item', fs, {}, node) /\ Apart({}, node, root')
    BY DEF Placed, Apart
  <2> HIDE DEF node
  <2> QED
    BY <1>1, <1>5, <1>6, <1>8, <2>1, <2>2 DEF Tree
<1>10. node \in [1 .. Len(fs) -> Nat]
  OBVIOUS
<1> HIDE DEF node
<1>11. DOMAIN item' = {node[i] : i \in {}} \cup ({root', adding'} \ {Null})
  BY <1>1, <1>5
<1>12. Built(fs, o, 0, {}, node)'
  <2>1. /\ 0 \in 0 .. Len(fs) /\ fields' = SubSeq(fs, 0 + 1, Len(fs)) /\ {} \subseteq 1 .. 0
        /\ pc' # "print" /\ adding' = Null
    BY <1>1, <1>7
  <2> QED
    BY <1>8, <1>9, <1>10, <1>11, <2>1, Zenon DEF Built
<1>13. Loses({}, refused', Len(fs))
  BY <1>1, <1>7, LosesNone
<1> QED
  BY <1>12, <1>13

\* What there is of a body.
LEMMA BuiltParts ==
  ASSUME NEW fs, NEW o, NEW d, NEW lost, NEW node, Built(fs, o, d, lost, node),
         NEW R, NEW S, Goes(fs, d, lost, R, S)
  PROVE  /\ d \in 0 .. Len(fs) /\ fields = SubSeq(fs, d + 1, Len(fs)) /\ lost \subseteq 1 .. d
         /\ node \in [1 .. Len(fs) -> Nat]
         /\ Tree(item, root, sub, fs, o, R, S, node)
         /\ DOMAIN item = {node[i] : i \in There(R, S, o)} \cup ({root, adding} \ {Null})
         /\ d \in Nat /\ 0 \notin R /\ 0 \notin S
         /\ \A i \in There(R, S, o) : node[i] \in DOMAIN item /\ node[i] # root
         /\ root \in DOMAIN item
<1> USE DEF Goes
<1>1. Tree(item, root, sub, fs, o, R, S, node)
  BY DEF Built
<1>2. \A i \in There(R, S, o) : node[i] \in DOMAIN item /\ node[i] # root
  BY <1>1 DEF Tree, Placed, Apart
<1>3. root \in DOMAIN item
  BY <1>1 DEF Tree
<1>4. 0 \notin R /\ 0 \notin S
  BY DEF Into
<1> QED
  BY <1>1, <1>2, <1>3, <1>4 DEF Built

\* An item for a field.
LEMMA ItemBuilds ==
  ASSUME PhaseInv, FieldsInv, HeapInv, AddItem, root # Null,
         NEW fs \in Seq(Writable), NEW o, NEW d, NEW lost, NEW node, Built(fs, o, d, lost, node)
  PROVE  Built(fs, o, d, lost, node)'
<1> DEFINE R == Into(fs, d, lost, "root")
           S == Into(fs, d, lost, "sub")
           P == There(R, S, o)
           v == IF This.type = "Number" THEN This.value ELSE <<>>
           b == [Blank EXCEPT !.type = This.type, !.number = v]
<1>1. /\ d \in 0 .. Len(fs) /\ fields = SubSeq(fs, d + 1, Len(fs)) /\ lost \subseteq 1 .. d
      /\ node \in [1 .. Len(fs) -> Nat]
      /\ Tree(item, root, sub, fs, o, R, S, node)
      /\ DOMAIN item = {node[i] : i \in P} \cup ({root, adding} \ {Null})
      /\ d \in Nat /\ 0 \notin R /\ 0 \notin S
      /\ \A i \in P : node[i] \in DOMAIN item /\ node[i] # root
      /\ root \in DOMAIN item
  BY BuiltParts DEF Goes
<1>2. /\ pc = "item" /\ pc' = (IF This.type = "String" THEN "value" ELSE "key")
      /\ adding = Null /\ adding' = Fresh /\ UNCHANGED <<fields, root, sub>>
      /\ item' = WithNew(b) /\ fields # <<>>
  BY DEF AddItem, PhaseInv, FieldsInv
<1>3. Fresh \in Nat \ {Null} /\ Fresh \notin DOMAIN item
  BY <1>2, TreesOf, FreshAddress
<1>4. /\ DOMAIN item' = DOMAIN item \cup {Fresh} /\ item'[Fresh] = b
      /\ \A n \in DOMAIN item : item'[n] = item[n]
  BY <1>2, <1>3 DEF WithNew
<1>5. This = fs[d + 1]
  BY <1>1, <1>2, NextOf
<1>6. b.type = fs[d + 1].type /\ b.number = v
  BY <1>5 DEF Blank
<1>7. Holds(item', adding', fs[d + 1], pc' = "key")
  BY <1>2, <1>4, <1>5, <1>6 DEF Holds
<1> HIDE DEF b, v, R, S, P
<1>8. Tree(item', root', sub', fs, o, R, S, node)
  <2>1. root \in DOMAIN item' /\ item'[root] = item[root]
    BY <1>1, <1>4
  <2>2. \A i \in P : node[i] \in DOMAIN item' /\ item'[node[i]] = item[node[i]]
    BY <1>1, <1>4
  <2>3. /\ Tree(item, root, sub, fs, o, R, S, node) /\ 0 \notin R /\ 0 \notin S
        /\ \A i \in There(R, S, o) : node[i] \in DOMAIN item' /\ item'[node[i]] = item[node[i]]
    BY <1>1, <2>2 DEF P
  <2>4. Tree(item', root, sub, fs, o, R, S, node)
    BY <2>1, <2>3, TreeKept
  <2> QED
    BY <1>2, <2>4
<1>9. DOMAIN item' = {node[i] : i \in P} \cup ({root', adding'} \ {Null})
  BY <1>1, <1>2, <1>3, <1>4
<1>10. \A i \in P : node[i] # adding'
  BY <1>1, <1>2, <1>3
<1>11. pc' # "print"
  BY <1>2
<1>12. fields' = SubSeq(fs, d + 1, Len(fs))
  BY <1>1, <1>2
<1> QED
  BY <1>1, <1>7, <1>8, <1>9, <1>10, <1>11, <1>12 DEF Built, R, S, P

\* cJSON_strdup of a string's value.
LEMMA ValueBuilds ==
  ASSUME PhaseInv, FieldsInv, HeapInv, AddValue, root # Null,
         NEW fs \in Seq(Writable), NEW o, NEW d, NEW lost, NEW node, Built(fs, o, d, lost, node)
  PROVE  Built(fs, o, d, lost, node)'
<1> DEFINE R == Into(fs, d, lost, "root")
           S == Into(fs, d, lost, "sub")
           P == There(R, S, o)
           w == This.value
<1>1. /\ d \in 0 .. Len(fs) /\ fields = SubSeq(fs, d + 1, Len(fs)) /\ lost \subseteq 1 .. d
      /\ node \in [1 .. Len(fs) -> Nat]
      /\ Tree(item, root, sub, fs, o, R, S, node)
      /\ DOMAIN item = {node[i] : i \in P} \cup ({root, adding} \ {Null})
      /\ d \in Nat /\ 0 \notin R /\ 0 \notin S
      /\ \A i \in P : node[i] \in DOMAIN item /\ node[i] # root
      /\ root \in DOMAIN item
  BY BuiltParts DEF Goes
<1>2. /\ pc = "value" /\ pc' = "key" /\ UNCHANGED <<fields, root, sub, adding>>
      /\ adding # Null /\ adding # root /\ item' = [item EXCEPT ![adding].valuestring = w]
      /\ fields # <<>>
  BY DEF AddValue, PhaseInv, FieldsInv, HeapInv, locals
<1>3. /\ \A i \in P : node[i] # adding
      /\ Holds(item, adding, fs[d + 1], FALSE)
  BY <1>2 DEF Built, Holds
<1>4. adding \in DOMAIN item /\ item[adding] \in ItemsOf(DOMAIN item)
  BY <1>2, TreesOf, FieldsTyped DEF Sound
<1>5. This = fs[d + 1]
  BY <1>1, <1>2, NextOf
<1> HIDE DEF w
<1>6. /\ DOMAIN item' = DOMAIN item /\ item'[adding] = [item[adding] EXCEPT !.valuestring = w]
      /\ \A n \in DOMAIN item \ {adding} : item'[n] = item[n]
  BY <1>2, <1>4
<1>7. /\ item'[adding].type = item[adding].type /\ item'[adding].number = item[adding].number
      /\ item'[adding].valuestring = w
  BY <1>4, <1>6 DEF ItemsOf
<1>8. Holds(item', adding', fs[d + 1], pc' = "key")
  BY <1>2, <1>3, <1>5, <1>7 DEF Holds, w
<1> HIDE DEF R, S, P
<1>9. Tree(item', root', sub', fs, o, R, S, node)
  <2>1. root \in DOMAIN item' /\ item'[root] = item[root]
    BY <1>1, <1>2, <1>6
  <2>2. \A i \in P : node[i] \in DOMAIN item' /\ item'[node[i]] = item[node[i]]
    BY <1>1, <1>3, <1>6
  <2>3. /\ Tree(item, root, sub, fs, o, R, S, node) /\ 0 \notin R /\ 0 \notin S
        /\ \A i \in There(R, S, o) : node[i] \in DOMAIN item' /\ item'[node[i]] = item[node[i]]
    BY <1>1, <2>2 DEF P
  <2>4. Tree(item', root, sub, fs, o, R, S, node)
    BY <2>1, <2>3, TreeKept
  <2> QED
    BY <1>2, <2>4
<1>10. DOMAIN item' = {node[i] : i \in P} \cup ({root', adding'} \ {Null})
  BY <1>1, <1>2, <1>6
<1>11. pc' # "print" /\ fields' = SubSeq(fs, d + 1, Len(fs)) /\ \A i \in P : node[i] # adding'
  BY <1>1, <1>2, <1>3
<1> QED
  BY <1>1, <1>8, <1>9, <1>10, <1>11 DEF Built, R, S, P

\* What Built says of the next state, once R and S are known.
LEMMA BuiltNext ==
  ASSUME NEW fs, NEW o, NEW d, NEW lost, NEW node, NEW R, NEW S,
         Goes(fs, d, lost, R, S),
         d \in 0 .. Len(fs), fields' = SubSeq(fs, d + 1, Len(fs)), lost \subseteq 1 .. d,
         pc' = "print" => d = Len(fs), node \in [1 .. Len(fs) -> Nat],
         Tree(item', root', sub', fs, o, R, S, node),
         DOMAIN item' = {node[i] : i \in There(R, S, o)} \cup ({root', adding'} \ {Null}),
         adding' = Null
  PROVE  Built(fs, o, d, lost, node)'
BY Zenon DEF Built, Goes

\* add_item_to_object: the item of the next field is there.
KeyNode(d, node, x) == [node EXCEPT ![d + 1] = x]

LEMMA KeyJoins ==
  ASSUME PhaseInv, FieldsInv, HeapInv, AddKey, root # Null,
         NEW fs \in Seq(Writable), NEW o, NEW d, NEW lost, NEW node, Built(fs, o, d, lost, node),
         NEW R, NEW S, Goes(fs, d, lost, R, S), NEW x, x = adding, NEW p, p = Parent,
         NEW new, new = KeyNode(d, node, x)
  PROVE  /\ \E head, tail : Joining(item, item', fs, d, node, new, p, x, head, tail)
         /\ Outside(There(R, S, o), node, root, x)
         /\ new \in [1 .. Len(fs) -> Nat]
<1>1. /\ d \in 0 .. Len(fs) /\ fields = SubSeq(fs, d + 1, Len(fs)) /\ lost \subseteq 1 .. d
      /\ node \in [1 .. Len(fs) -> Nat]
      /\ Tree(item, root, sub, fs, o, R, S, node)
      /\ DOMAIN item = {node[i] : i \in There(R, S, o)} \cup ({root, adding} \ {Null})
      /\ d \in Nat /\ 0 \notin R /\ 0 \notin S
      /\ \A i \in There(R, S, o) : node[i] \in DOMAIN item /\ node[i] # root
      /\ root \in DOMAIN item
  BY BuiltParts
<1> DEFINE P == There(R, S, o)
           key == This.key
           head == item[p].child
           tail == item[head].prev
<1>2. /\ pc = "key" /\ x # Null /\ x # root /\ x # sub /\ p # Null /\ p \in {root, sub}
      /\ item' = [Appended(p, x) EXCEPT ![x].string = key]
      /\ item[x].next = Null /\ item[x].child = Null
      /\ fields # <<>> /\ sub \in DOMAIN item \cup {Null}
  BY DEF AddKey, PhaseInv, FieldsInv, HeapInv, Parent
<1>3. /\ \A i \in P : node[i] # x
      /\ Holds(item, x, fs[d + 1], TRUE)
  BY <1>2 DEF Built, Goes
<1>4. /\ x \in DOMAIN item /\ Typed(item) /\ Null \notin DOMAIN item /\ DOMAIN item \subseteq Nat
      /\ p \in DOMAIN item /\ p # x
  BY <1>1, <1>2, TreesOf DEF Sound, Heap
<1>5. d + 1 \in 1 .. Len(fs) /\ key = fs[d + 1].key /\ key \in Words
  BY <1>1, <1>2, NextOf
<1>6. Joins(p, x, key, item')
  BY <1>2 DEF Joins
<1>7. EndsOf(item, p, head, tail)
  BY DEF EndsOf
<1>8. R \subseteq 1 .. d /\ S \subseteq 1 .. d
  BY <1>1, IntoType DEF Goes
<1>9. head # Null => head \in DOMAIN item \ {x} /\ tail \in DOMAIN item \ {x}
  <2>1. CASE p = root
    <3>1. Listed(item, p, R, node) /\ R \subseteq P
      BY <1>1, <2>1 DEF Tree, There
    <3> HIDE DEF P, head, tail
    <3>2. Among(R, node, head, tail)
      BY <1>1, <1>7, <1>8, <3>1, EndsThere
    <3> QED
      BY <1>1, <1>3, <3>1, <3>2 DEF Among, P
  <2>2. CASE p = sub
    <3>1. o \in R
      BY <1>1, <1>2, <2>2 DEF Tree
    <3>2. Listed(item, p, S, node) /\ S \subseteq P
      BY <1>1, <2>2, <3>1 DEF Tree, There
    <3> HIDE DEF P, head, tail
    <3>3. Among(S, node, head, tail)
      BY <1>1, <1>7, <1>8, <3>2, EndsThere
    <3> QED
      BY <1>1, <1>3, <3>2, <3>3 DEF Among, P
  <2> QED
    BY <1>2, <2>1, <2>2
<1> HIDE DEF P, key, head, tail
<1>10. Moved(item, item', p, x, head, tail, key)
  <2>1. head = item[p].child /\ tail = item[head].prev
    BY DEF head, tail
  <2> QED
    BY <1>2, <1>4, <1>5, <1>6, <1>9, <2>1, JoinParts
<1>11. new \in [1 .. Len(fs) -> Nat] /\ new[d + 1] = x /\ \A i \in 1 .. d : new[i] = node[i]
  <2>1. x \in Nat
    BY <1>4
  <2>2. 1 .. d \subseteq 1 .. Len(fs) /\ d + 1 \notin 1 .. d
    BY <1>1
  <2> QED
    BY <1>1, <1>5, <2>1, <2>2 DEF KeyNode
<1>12. Joining(item, item', fs, d, node, new, p, x, head, tail)
  BY <1>2, <1>3, <1>4, <1>5, <1>7, <1>10, <1>11 DEF Joining
<1>13. Outside(P, node, root, x)
  BY <1>2, <1>3 DEF Outside
<1> QED
  BY <1>11, <1>12, <1>13 DEF P

LEMMA KeyBuilds ==
  ASSUME PhaseInv, FieldsInv, HeapInv, AddKey, root # Null,
         NEW fs \in Seq(Writable), NEW o, Ordered(fs, o), NEW d, NEW lost, NEW node,
         Built(fs, o, d, lost, node)
  PROVE  \E new : Built(fs, o, d + 1, lost, new)'
<1>1. PICK R, S, x, p, new, R2, S2 :
         /\ Goes(fs, d, lost, R, S) /\ Goes(fs, d + 1, lost, R2, S2)
         /\ x = adding /\ p = Parent /\ new = KeyNode(d, node, x)
  BY DEF Goes
<1>2. /\ d \in 0 .. Len(fs) /\ fields = SubSeq(fs, d + 1, Len(fs)) /\ lost \subseteq 1 .. d
      /\ node \in [1 .. Len(fs) -> Nat]
      /\ Tree(item, root, sub, fs, o, R, S, node)
      /\ DOMAIN item = {node[i] : i \in There(R, S, o)} \cup ({root, adding} \ {Null})
      /\ d \in Nat /\ 0 \notin R /\ 0 \notin S
      /\ \A i \in There(R, S, o) : node[i] \in DOMAIN item /\ node[i] # root
      /\ root \in DOMAIN item
  BY <1>1, BuiltParts
<1>3. R \subseteq 1 .. d /\ S \subseteq 1 .. d /\ R \cap S = {}
  BY <1>1, <1>2, IntoType DEF Goes
<1>4. /\ pc = "key" /\ x # Null /\ p # Null /\ fields # <<>> /\ adding' = Null
      /\ root' = root /\ fields' = Tail(fields)
      /\ sub' = (IF This.type = "Object" THEN x ELSE sub)
      /\ pc' = (IF Tail(fields) = <<>> THEN "print" ELSE "item")
  BY <1>1 DEF AddKey, NextField, PhaseInv, FieldsInv
<1>5. /\ \E head, tail : Joining(item, item', fs, d, node, new, p, x, head, tail)
      /\ Outside(There(R, S, o), node, root, x)
      /\ new \in [1 .. Len(fs) -> Nat]
  BY <1>1, KeyJoins
<1>6. PICK head, tail : Joining(item, item', fs, d, node, new, p, x, head, tail)
  BY <1>5
<1>7. /\ d + 1 \in 1 .. Len(fs) /\ This = fs[d + 1] /\ This.to \in {"root", "sub"}
      /\ Tail(fields) = SubSeq(fs, (d + 1) + 1, Len(fs))
      /\ Tail(fields) = <<>> => d + 1 = Len(fs)
  BY <1>2, <1>4, NextOf
<1>8. /\ o \in Nat \ {0} /\ (d + 1 = o <=> This.type = "Object") /\ (d + 1 = o => This.to = "root")
      /\ d + 1 = o => S = {}
  <2>1. o \in Nat \ {0} /\ (d + 1 = o <=> This.type = "Object") /\ (d + 1 = o => This.to = "root")
    BY <1>7, ObjectAt
  <2>2. d + 1 = o => S = {}
    BY <1>1, <1>2, IntoNothing DEF Goes
  <2> QED
    BY <2>1, <2>2
<1>9. Before(d, o, R, S)
  BY <1>2, <1>3, <1>8 DEF Before
<1>10. Tree(item, root, sub, fs, o, R, S, node)
  BY <1>2
<1>11. Outside(There(R, S, o), node, root, x)
  BY <1>5
<1>12. /\ This.to = "root" => R2 = R \cup {d + 1} /\ S2 = S
       /\ This.to = "sub" => R2 = R /\ S2 = S \cup {d + 1}
  BY <1>1, <1>2, <1>7 DEF Into, Goes
<1>13. /\ Tree(item', root', sub', fs, o, R2, S2, new)
       /\ There(R2, S2, o) = There(R, S, o) \cup {d + 1}
  <2>1. CASE This.to = "root"
    <3>1. R2 = R \cup {d + 1} /\ S2 = S /\ p = root
      BY <1>1, <1>12, <2>1 DEF Parent
    <3>2. Joining(item, item', fs, d, node, new, root, x, head, tail)
      BY <1>6, <3>1
    <3>3. /\ Tree(item', root, IF d + 1 = o THEN x ELSE sub, fs, o, R \cup {d + 1}, S, new)
          /\ Adds(There(R, S, o), d, There(R \cup {d + 1}, S, o))
      BY <1>9, <1>10, <1>11, <3>2, JoinsRoot
    <3>4. sub' = (IF d + 1 = o THEN x ELSE sub)
      BY <1>4, <1>8
    <3> QED
      BY <1>4, <3>1, <3>3, <3>4 DEF Adds
  <2>2. CASE This.to = "sub"
    <3>1. R2 = R /\ S2 = S \cup {d + 1} /\ p = sub /\ d + 1 # o
      BY <1>1, <1>8, <1>12, <2>2 DEF Parent
    <3>2. Joining(item, item', fs, d, node, new, sub, x, head, tail) /\ sub # Null
      BY <1>4, <1>6, <3>1
    <3>3. /\ Tree(item', root, sub, fs, o, R, S \cup {d + 1}, new)
          /\ Adds(There(R, S, o), d, There(R, S \cup {d + 1}, o))
      BY <1>9, <1>10, <1>11, <3>2, JoinsSub
    <3>4. sub' = sub
      BY <1>4, <1>8, <3>1
    <3> QED
      BY <1>4, <3>1, <3>3, <3>4 DEF Adds
  <2> QED
    BY <1>7, <2>1, <2>2
<1>14. DOMAIN item' = {new[i] : i \in There(R2, S2, o)} \cup ({root', adding'} \ {Null})
  <2> DEFINE P == There(R, S, o)
             P2 == There(R2, S2, o)
  <2>1. /\ new[d + 1] = x /\ (\A i \in 1 .. d : new[i] = node[i]) /\ Null \notin DOMAIN item
        /\ DOMAIN item' = DOMAIN item
    BY <1>6 DEF Joining, Moved
  <2>2. P \subseteq 1 .. d
    BY <1>3 DEF There
  <2>3. P2 = P \cup {d + 1} /\ DOMAIN item = {node[i] : i \in P} \cup ({root, x} \ {Null})
    BY <1>1, <1>2, <1>13
  <2> HIDE DEF P, P2
  <2>4. {new[i] : i \in P2} = {node[i] : i \in P} \cup {x}
    BY <2>1, <2>2, <2>3
  <2>5. DOMAIN item' = {new[i] : i \in P2} \cup ({root', adding'} \ {Null})
    BY <1>4, <2>1, <2>3, <2>4
  <2> QED
    BY <2>5 DEF P2
<1>15. /\ d + 1 \in 0 .. Len(fs) /\ fields' = SubSeq(fs, (d + 1) + 1, Len(fs))
       /\ lost \subseteq 1 .. d + 1 /\ (pc' = "print" => d + 1 = Len(fs))
  BY <1>2, <1>4, <1>7
<1>16. Built(fs, o, d + 1, lost, new)'
  <2>1. /\ Goes(fs, d + 1, lost, R2, S2) /\ adding' = Null /\ new \in [1 .. Len(fs) -> Nat]
        /\ Tree(item', root', sub', fs, o, R2, S2, new)
    BY <1>1, <1>4, <1>5, <1>13
  <2> QED
    BY <1>14, <1>15, <2>1, BuiltNext
<1> QED
  BY <1>16

\* The field is not added, for want of memory or of the object that it goes into.
LEMMA DropBuilds ==
  ASSUME PhaseInv, FieldsInv, HeapInv, AddDrop, root # Null,
         NEW fs \in Seq(Writable), NEW o, Ordered(fs, o), NEW d, NEW lost, NEW node,
         Built(fs, o, d, lost, node), Loses(lost, refused, Len(fs))
  PROVE  \E l : Built(fs, o, d + 1, l, node)' /\ Loses(l, refused', Len(fs))
<1>1. PICK R, S, P : Goes(fs, d, lost, R, S) /\ P = There(R, S, o)
  BY DEF Goes
<1>2. /\ d \in 0 .. Len(fs) /\ fields = SubSeq(fs, d + 1, Len(fs)) /\ lost \subseteq 1 .. d
      /\ node \in [1 .. Len(fs) -> Nat]
      /\ Tree(item, root, sub, fs, o, R, S, node)
      /\ DOMAIN item = {node[i] : i \in There(R, S, o)} \cup ({root, adding} \ {Null})
      /\ d \in Nat /\ 0 \notin R /\ 0 \notin S
      /\ \A i \in There(R, S, o) : node[i] \in DOMAIN item /\ node[i] # root
      /\ root \in DOMAIN item
  BY <1>1, BuiltParts
<1>3. R \subseteq 1 .. d /\ S \subseteq 1 .. d /\ R \cap S = {}
  BY <1>1, <1>2, IntoType DEF Goes
<1>4. /\ fields # <<>> /\ adding' = Null /\ Delete(adding)
      /\ root' = root /\ fields' = Tail(fields)
      /\ sub' = (IF This.type = "Object" THEN Null ELSE sub)
      /\ pc' = (IF Tail(fields) = <<>> THEN "print" ELSE "item")
      /\ pc # "parse" /\ refused \in Nat
      /\ adding # Null => /\ adding # root /\ item[adding].next = Null /\ item[adding].child = Null
      /\ IF pc = "key" /\ Parent = Null THEN refused' = refused ELSE Refuse
  BY DEF AddDrop, NextField, PhaseInv, FieldsInv, HeapInv
<1>5. /\ d + 1 \in 1 .. Len(fs) /\ This = fs[d + 1] /\ This.to \in {"root", "sub"}
      /\ Tail(fields) = SubSeq(fs, (d + 1) + 1, Len(fs))
      /\ Tail(fields) = <<>> => d + 1 = Len(fs)
  BY <1>2, <1>4, NextOf
<1>6. /\ o \in Nat \ {0} /\ (d + 1 = o <=> This.type = "Object") /\ (d + 1 = o => This.to = "root")
  BY <1>5, ObjectAt
<1>7. /\ DOMAIN item' = DOMAIN item \ {adding} /\ \A n \in DOMAIN item' : item'[n] = item[n]
  <2>1. /\ Sound(item, strings, Trees) /\ adding \in Trees \cup {Null} /\ Pointers(item)
        /\ Null \notin DOMAIN item /\ (adding # Null => adding \in DOMAIN item)
    BY <1>4, TreesOf DEF Heap
  <2>2. adding # Null => Leads(item, adding) = {adding}
    BY <1>4, <2>1, LoneItem
  <2>3. /\ DOMAIN item' = DOMAIN item \ (IF adding = Null THEN {} ELSE Leads(item, adding))
        /\ \A n \in DOMAIN item' : item'[n] = item[n]
    BY <1>4, <2>1, DeleteItems
  <2> QED
    BY <2>1, <2>2, <2>3
<1>8. Null \notin DOMAIN item
  BY <1>4, TreesOf
<1>9. \A i \in P : node[i] # adding
  <2>1. adding # Null => \A i \in P : node[i] # adding
    BY <1>1 DEF Built, Goes
  <2> QED
    BY <1>1, <1>2, <1>8, <2>1
<1>10. root # adding
  BY <1>4
<1>11. /\ Into(fs, d + 1, lost \cup {d + 1}, "root") = R
       /\ Into(fs, d + 1, lost \cup {d + 1}, "sub") = S
       /\ This.to = "sub" => Into(fs, d + 1, lost, "root") = R
  <2>1. R = Into(fs, d, lost, "root") /\ S = Into(fs, d, lost, "sub")
    BY <1>1 DEF Goes
  <2>2. d \in Nat /\ lost \subseteq 1 .. d
    BY <1>2
  <2>3. ASSUME NEW to
        PROVE  /\ Into(fs, d + 1, lost \cup {d + 1}, to) = Into(fs, d, lost, to)
               /\ fs[d + 1].to # to => Into(fs, d + 1, lost, to) = Into(fs, d, lost, to)
    <3>1. 1 .. d + 1 = (1 .. d) \cup {d + 1} /\ d + 1 \notin 1 .. d
      BY <2>2
    <3> QED
      BY <2>2, <3>1 DEF Into
  <2> QED
    BY <1>5, <2>1, <2>3
\* The field's number, if that is what is lost, and the fields that are there.
<1>12. \E l : /\ Loses(l, refused', Len(fs)) /\ l \subseteq 1 .. d + 1
              /\ Into(fs, d + 1, l, "root") = R
              /\ o \in R => Into(fs, d + 1, l, "sub") = S
  <2>1. CASE pc = "key" /\ Parent = Null
    <3>1. root # Null
      OBVIOUS
    <3>2. This.to = "sub" /\ sub = Null /\ refused' = refused
      BY <1>4, <1>5, <2>1, <3>1 DEF Parent
    <3>3. o \notin R
      <4>1. o \in R => o \in P /\ sub = node[o]
        BY <1>1, <1>2 DEF Tree, There
      <4> QED
        BY <1>1, <1>2, <1>8, <3>2, <4>1
    <3>4. Loses(lost, refused', Len(fs)) /\ lost \subseteq 1 .. d + 1
      BY <1>2, <3>2
    <3> QED
      BY <1>11, <3>2, <3>3, <3>4
  <2>2. CASE ~(pc = "key" /\ Parent = Null)
    <3>1. refused' = refused + 1
      BY <1>4, <2>2 DEF Refuse
    <3>2. Loses((lost \cup {d + 1}) \ {0}, refused + 1, Len(fs))
      <4>1. Len(fs) \in Nat /\ d + 1 \in 0 .. Len(fs)
        BY <1>2, <1>5
      <4> QED
        BY <1>4, <4>1, LosesMore
    <3>3. (lost \cup {d + 1}) \ {0} = lost \cup {d + 1} /\ lost \cup {d + 1} \subseteq 1 .. d + 1
      BY <1>2
    <3>4. Loses(lost \cup {d + 1}, refused', Len(fs))
      BY <3>1, <3>2, <3>3
    <3> QED
      BY <1>11, <3>3, <3>4
  <2> QED
    BY <2>1, <2>2
<1>13. PICK l : /\ Loses(l, refused', Len(fs)) /\ l \subseteq 1 .. d + 1
                /\ Into(fs, d + 1, l, "root") = R
                /\ o \in R => Into(fs, d + 1, l, "sub") = S
  BY <1>12
<1>14. PICK T : T = Into(fs, d + 1, l, "sub") /\ 0 \notin T /\ Goes(fs, d + 1, l, R, T)
  <2>1. 0 \notin Into(fs, d + 1, l, "sub")
    BY DEF Into
  <2> QED
    BY <1>13, <2>1 DEF Goes
<1>15. Tree(item', root', sub', fs, o, R, T, node) /\ There(R, T, o) = P
  <2>1. root \in DOMAIN item' /\ item'[root] = item[root]
    BY <1>2, <1>7, <1>10
  <2>2. \A i \in There(R, S, o) : node[i] \in DOMAIN item' /\ item'[node[i]] = item[node[i]]
    BY <1>1, <1>2, <1>7, <1>9
  <2>3. o \in R => T = S
    BY <1>13, <1>14
  <2>4. Tree(item, root, sub, fs, o, R, S, node) /\ 0 \notin R /\ 0 \notin S
    BY <1>2
  <2>5. /\ Tree(item', root, sub, fs, o, R, T, node)
        /\ There(R, T, o) = There(R, S, o)
    BY <2>1, <2>2, <2>3, <2>4, TreeKept
  <2>6. sub' = sub
    <3>1. d + 1 = o => o \notin R
      BY <1>2, <1>3
    <3>2. o \notin R => sub = Null
      BY <1>2 DEF Tree
    <3> QED
      BY <1>4, <1>6, <3>1, <3>2
  <2> QED
    BY <1>1, <1>4, <2>5, <2>6
<1>16. DOMAIN item' = {node[i] : i \in There(R, T, o)} \cup ({root', adding'} \ {Null})
  <2>1. DOMAIN item = {node[i] : i \in P} \cup ({root, adding} \ {Null})
    BY <1>1, <1>2
  <2>2. DOMAIN item' = {node[i] : i \in P} \cup ({root', adding'} \ {Null})
    BY <1>4, <1>7, <1>8, <1>9, <1>10, <2>1
  <2> QED
    BY <1>15, <2>2
<1>17. /\ d + 1 \in 0 .. Len(fs) /\ fields' = SubSeq(fs, (d + 1) + 1, Len(fs))
       /\ (pc' = "print" => d + 1 = Len(fs))
  BY <1>2, <1>4, <1>5
<1>18. Built(fs, o, d + 1, l, node)'
  BY <1>2, <1>4, <1>13, <1>14, <1>15, <1>16, <1>17, BuiltNext
<1> QED
  BY <1>13, <1>18

-----------------------------------------------------------------------------
(* The text of the items *)

\* What a field's value looks like.
Said(f, inner) ==
  CASE f.type = "String" -> InQuotes(f.value)
    [] f.type = "Number" -> f.value
    [] f.type = "True" -> <<"true">>
    [] f.type = "False" -> <<"false">>
    [] OTHER -> inner
Braced(s) == <<"{">> \o s \o <<"}">>
IsLast(Q, i) == \A j \in Q : j <= i
Comma(Q, i) == IF IsLast(Q, i) THEN <<>> ELSE <<",">>

\* T[i] is the i-th member, if i is in Q, and nothing otherwise.
MembersIn(fs, inner, Q, T) ==
  /\ Len(T) = Len(fs) /\ Len(fs) \in Nat
  /\ \A i \in 1 .. Len(fs) : T[i] \in Seq(Symbols) /\ NoNUL(T[i]) /\ (i \notin Q => T[i] = <<>>)
  /\ \A i \in Q : T[i] = InQuotes(fs[i].key) \o <<":">> \o Said(fs[i], inner) \o Comma(Q, i)

LEMMA ShortClean ==
  /\ NoNUL(<<>>) /\ NoNUL(<<":">>) /\ NoNUL(<<",">>) /\ NoNUL(<<Quote>>) /\ NoNUL(<<"{">>)
  /\ NoNUL(<<"}">>) /\ NoNUL(<<"true">>) /\ NoNUL(<<"false">>)
<1>1. NoNUL(<<>>)
  BY DEF NoNUL
<1>2. ":" # NUL /\ "," # NUL /\ Quote # NUL /\ "{" # NUL /\ "}" # NUL /\ "true" # NUL /\ "false" # NUL
  BY DEF NUL, Quote
<1> QED
  BY <1>1, <1>2, NoNULOne

LEMMA EscapeClean == \A c : c # NUL => NoNUL(EscapeOf(c))
<1> SUFFICES ASSUME NEW c, c # NUL PROVE NoNUL(EscapeOf(c))
  OBVIOUS
<1>1. NUL \notin {"b", "f", "n", "r", "t", "u", "0", "1", Backslash}
  BY DEF NUL, Backslash
<1>2. ASSUME NEW a, NEW b, a # NUL, b # NUL PROVE NoNUL(<<a, b>>)
  <2>1. Len(<<a, b>>) = 2 /\ <<a, b>>[1] = a /\ <<a, b>>[2] = b
    OBVIOUS
  <2>2. \A i \in 1 .. 2 : i = 1 \/ i = 2
    OBVIOUS
  <2> QED
    BY <1>2, <2>1, <2>2 DEF NoNUL
<1>3. ASSUME NEW a, NEW b, NEW d, NEW e, NEW f, NEW g,
             a # NUL, b # NUL, d # NUL, e # NUL, f # NUL, g # NUL
      PROVE  NoNUL(<<a, b, d, e, f, g>>)
  <2> DEFINE t == <<a, b, d, e, f, g>>
  <2>1. Len(t) = 6 /\ t[1] = a /\ t[2] = b /\ t[3] = d /\ t[4] = e /\ t[5] = f /\ t[6] = g
    OBVIOUS
  <2>2. \A i \in 1 .. 6 : i = 1 \/ i = 2 \/ i = 3 \/ i = 4 \/ i = 5 \/ i = 6
    OBVIOUS
  <2> HIDE DEF t
  <2>3. \A i \in 1 .. 6 : t[i] # NUL
    BY <1>3, <2>1, <2>2
  <2>4. NoNUL(t)
    BY <2>1, <2>3 DEF NoNUL
  <2> QED
    BY <2>4 DEF t
<1>4. /\ NoNUL(<<Backslash, "b">>) /\ NoNUL(<<Backslash, "f">>) /\ NoNUL(<<Backslash, "n">>)
      /\ NoNUL(<<Backslash, "r">>) /\ NoNUL(<<Backslash, "t">>)
      /\ NoNUL(<<Backslash, c>>) /\ NoNUL(<<c>>)
      /\ NoNUL(<<Backslash, "u", "0", "0", "1", "f">>)
  BY <1>1, <1>2, <1>3, NoNULOne
<1> QED
  BY <1>4 DEF EscapeOf

\* Texts without a NUL, one after the other.
LEMMA CleanFrom ==
  ASSUME NEW texts, Len(texts) \in Nat,
         \A i \in 1 .. Len(texts) : texts[i] \in Seq(Symbols) /\ NoNUL(texts[i])
  PROVE  \A i \in 1 .. Len(texts) + 1 : TextFrom(texts)[i] \in Seq(Symbols) /\ NoNUL(TextFrom(texts)[i])
<1> DEFINE n == Len(texts)
           f == TextFrom(texts)
           T == {i \in Nat : NoNUL(f[i])}
<1>1. f[n + 1] = <<>> /\ \A i \in 1 .. n : f[i] = texts[i] \o f[i + 1]
  BY TextFromStep
<1>2. \A i \in 1 .. n + 1 : f[i] \in Seq(Symbols)
  BY TextFromType
<1> HIDE DEF f
<1>3. n + 1 \in T
  <2>1. NoNUL(f[n + 1])
    BY <1>1, ShortClean
  <2> QED
    BY <2>1
<1>4. ASSUME NEW i \in 1 .. n, i + 1 \in T PROVE i \in T
  <2>1. texts[i] \in Seq(Symbols) /\ NoNUL(texts[i])
    OBVIOUS
  <2>2. f[i] = texts[i] \o f[i + 1]
    BY <1>1
  <2>3. f[i + 1] \in Seq(Symbols)
    BY <1>2
  <2>4. NoNUL(f[i + 1])
    BY <1>4
  <2>5. NoNUL(f[i])
    BY <2>1, <2>2, <2>3, <2>4, NoNULJoined
  <2> QED
    BY <2>5
<1> HIDE DEF T
<1>5. \A i \in 1 .. n + 1 : i \in T
  BY <1>3, <1>4, Downward
<1> QED
  BY <1>2, <1>5 DEF T, f

LEMMA QuotedClean ==
  ASSUME NEW s \in Seq(Symbols), NoNUL(s)
  PROVE  InQuotes(s) \in Seq(Symbols) /\ NoNUL(InQuotes(s))
<1> DEFINE e == Escapes(s)
           t == TextFrom(e)[1]
<1>1. /\ Len(e) = Len(s) /\ Len(s) \in Nat /\ Len(e) \in Nat
      /\ \A i \in 1 .. Len(s) : e[i] = EscapeOf(s[i]) /\ e[i] \in Seq(Symbols)
  BY EscapesType
<1> HIDE DEF e
<1>2. \A i \in 1 .. Len(e) : e[i] \in Seq(Symbols) /\ NoNUL(e[i])
  BY <1>1, EscapeClean DEF NoNUL
<1>3. NoNUL(t) /\ t \in Seq(Symbols)
  BY <1>1, <1>2, CleanFrom
<1>4. InQuotes(s) = <<Quote>> \o t \o <<Quote>>
  BY DEF InQuotes, e
<1> HIDE DEF t
<1>5. NoNUL(<<Quote>> \o t) /\ <<Quote>> \o t \in Seq(Symbols)
  BY <1>3, ShortClean, ShortSymbols, NoNULJoined
<1>6. NoNUL(<<Quote>> \o t \o <<Quote>>) /\ <<Quote>> \o t \o <<Quote>> \in Seq(Symbols)
  BY <1>5, ShortClean, ShortSymbols, NoNULJoined
<1> QED
  BY <1>4, <1>6

LEMMA BracedClean ==
  ASSUME NEW s \in Seq(Symbols), NoNUL(s)
  PROVE  Braced(s) \in Seq(Symbols) /\ NoNUL(Braced(s))
<1>1. NoNUL(<<"{">>) /\ NoNUL(<<"}">>)
  BY ShortClean
<1>2. <<"{">> \o s \in Seq(Symbols) /\ NoNUL(<<"{">> \o s)
  BY <1>1, ShortSymbols, NoNULJoined
<1> QED
  BY <1>1, <1>2, ShortSymbols, NoNULJoined DEF Braced

LEMMA SaidClean ==
  ASSUME NEW f \in Writable, Clean(f), NEW inner \in Seq(Symbols), NoNUL(inner)
  PROVE  /\ Said(f, inner) \in Seq(Symbols) /\ NoNUL(Said(f, inner))
         /\ InQuotes(f.key) \in Seq(Symbols) /\ NoNUL(InQuotes(f.key))
<1>1. f.key \in Seq(Symbols) /\ f.value \in Seq(Symbols)
  BY WordsTyped DEF Writable
<1>2. NoNUL(f.key) /\ NoNUL(f.value)
  BY DEF Clean
<1>3. /\ InQuotes(f.key) \in Seq(Symbols) /\ NoNUL(InQuotes(f.key))
      /\ InQuotes(f.value) \in Seq(Symbols) /\ NoNUL(InQuotes(f.value))
  BY <1>1, <1>2, QuotedClean
<1> QED
  BY <1>1, <1>2, <1>3, ShortClean, ShortSymbols DEF Said

\* The members of an object: those of the fields that are there.
LEMMA MembersAre ==
  ASSUME NEW fs \in Seq(Writable), \A i \in 1 .. Len(fs) : Clean(fs[i]),
         NEW lost, NEW to, NEW inner \in Seq(Symbols), NoNUL(inner),
         NEW Q, Q = Into(fs, Len(fs), lost, to), NEW T, T = MembersOf(fs, lost, to, inner)
  PROVE  MembersIn(fs, inner, Q, T)
<1>1. Len(fs) \in Nat /\ \A i \in 1 .. Len(fs) : fs[i] \in Writable
  <2> DEFINE W == Writable
  <2>1. fs \in Seq(W)
    OBVIOUS
  <2> HIDE DEF W
  <2>2. Len(fs) \in Nat /\ \A i \in 1 .. Len(fs) : fs[i] \in W
    BY <2>1
  <2> QED
    BY <2>2 DEF W
<1> DEFINE comma(i) == IF \E j \in Q : j > i THEN <<",">> ELSE <<>>
           member(i) == InQuotes(fs[i].key) \o <<":">> \o Said(fs[i], inner)
           U == [i \in 1 .. Len(fs) |-> IF i \in Q THEN member(i) \o comma(i) ELSE <<>>]
<1>2. T = U
  <2>1. Q = {i \in 1 .. Len(fs) : fs[i].to = to} \ lost
    BY DEF Into
  <2>2. \A i \in 1 .. Len(fs) : Member(fs[i], inner) = member(i)
    BY DEF Member, Said
  <2> HIDE DEF member
  <2> QED
    BY <2>1, <2>2 DEF MembersOf
<1>3. Q \subseteq 1 .. Len(fs)
  BY DEF Into
<1>4. ASSUME NEW i \in Q PROVE comma(i) = Comma(Q, i)
  <2>1. \A j \in Q : j > i <=> ~(j <= i)
    BY <1>1, <1>3, <1>4
  <2>2. CASE IsLast(Q, i)
    BY <2>1, <2>2 DEF Comma, IsLast
  <2>3. CASE ~IsLast(Q, i)
    BY <2>1, <2>3 DEF Comma, IsLast
  <2> QED
    BY <2>2, <2>3
<1>5. ASSUME NEW i \in 1 .. Len(fs)
      PROVE  member(i) \o comma(i) \in Seq(Symbols) /\ NoNUL(member(i) \o comma(i))
  <2> DEFINE a == InQuotes(fs[i].key)
             b == Said(fs[i], inner)
             c == comma(i)
  <2>1. a \in Seq(Symbols) /\ NoNUL(a) /\ b \in Seq(Symbols) /\ NoNUL(b)
    BY <1>1, <1>5, SaidClean
  <2>2. NoNUL(<<":">>) /\ NoNUL(<<",">>) /\ NoNUL(<<>>) /\ <<>> \in Seq(Symbols)
    BY ShortClean, NoText
  <2>3. c \in Seq(Symbols) /\ NoNUL(c)
    BY <2>2, ShortSymbols
  <2> HIDE DEF a, b, c
  <2>4. a \o <<":">> \in Seq(Symbols) /\ NoNUL(a \o <<":">>)
    BY <2>1, <2>2, ShortSymbols, NoNULJoined
  <2>5. (a \o <<":">>) \o b \in Seq(Symbols) /\ NoNUL((a \o <<":">>) \o b)
    BY <2>1, <2>4, NoNULJoined
  <2>6. ((a \o <<":">>) \o b) \o c \in Seq(Symbols) /\ NoNUL(((a \o <<":">>) \o b) \o c)
    BY <2>3, <2>5, NoNULJoined
  <2> QED
    BY <2>6 DEF a, b, c
<1>6. NoNUL(<<>>) /\ <<>> \in Seq(Symbols)
  BY NoText, ShortClean
<1> HIDE DEF comma, member
<1>7. Len(U) = Len(fs) /\ \A i \in 1 .. Len(fs) : U[i] = IF i \in Q THEN member(i) \o comma(i) ELSE <<>>
  BY <1>1
<1> HIDE DEF U
<1>8. \A i \in 1 .. Len(fs) : U[i] \in Seq(Symbols) /\ NoNUL(U[i]) /\ (i \notin Q => U[i] = <<>>)
  BY <1>5, <1>6, <1>7
<1>9. \A i \in Q : U[i] = member(i) \o Comma(Q, i)
  BY <1>3, <1>4, <1>7
<1> QED
  BY <1>1, <1>2, <1>7, <1>8, <1>9 DEF member, MembersIn


\* Texts of which those from the i-th to the one before the j-th are empty.
Strings(T) == Len(T) \in Nat /\ \A k \in 1 .. Len(T) : T[k] \in Seq(Symbols)
Void(T, i, j) == \A k \in i .. j - 1 : T[k] = <<>>

LEMMA SkipsTo ==
  ASSUME NEW T, Strings(T), NEW j \in 1 .. Len(T) + 1, NEW i \in 1 .. j, Void(T, i, j)
  PROVE  TextFrom(T)[i] = TextFrom(T)[j]
<1>1. Len(T) \in Nat /\ (\A k \in 1 .. Len(T) : T[k] \in Seq(Symbols))
  BY DEF Strings
<1>2. \A k \in i .. j - 1 : T[k] = <<>>
  BY DEF Void
<1> QED
  BY <1>1, <1>2, TextSkips

\* The texts of the items of Q, and of the one behind the i-th of them, which has
\* the text of all that is to come.
TextsOf(m, node, Q, T) ==
  m[Null] = <<>> /\ \A j \in Q : node[j] # Null /\ m[node[j]] = TextFrom(T)[j]
Reads(m, x, Q, i, T) == m[x] = TextFrom(T)[i + 1] /\ (x = Null <=> IsLast(Q, i))

LEMMA ListText ==
  ASSUME NEW h, NEW p, NEW fs, NEW inner, NEW Q, Q \subseteq 1 .. Len(fs), NEW node,
         Listed(h, p, Q, node), NEW T, MembersIn(fs, inner, Q, T), NEW m, TextsOf(m, node, Q, T),
         NEW i \in Q \cup {0}
  PROVE  Reads(m, LinkOf(h, p, node, i), Q, i, T)
<1> DEFINE f == TextFrom(T)
           x == LinkOf(h, p, node, i)
           n == Len(fs)
<1>1. /\ n \in Nat /\ Len(T) = n /\ Strings(T)
      /\ \A k \in 1 .. n : k \notin Q => T[k] = <<>>
  BY DEF MembersIn, Strings
<1>2. f[n + 1] = <<>>
  BY <1>1, TextFromStep
<1>3. i \in Nat /\ i + 1 \in 1 .. n + 1 /\ Q \subseteq Nat
  BY <1>1
<1> HIDE DEF f, n
<1>4. CASE IsLast(Q, i)
  <2>1. x = Null
    BY <1>4 DEF Listed, IsLast
  <2>2. Void(T, i + 1, n + 1)
    <3> SUFFICES ASSUME NEW k \in i + 1 .. (n + 1) - 1 PROVE T[k] = <<>>
      BY DEF Void
    <3>1. k \in 1 .. n /\ ~(k <= i)
      BY <1>1, <1>3
    <3>2. k \notin Q
      BY <1>4, <3>1 DEF IsLast
    <3> QED
      BY <1>1, <3>1, <3>2
  <2>3. f[i + 1] = f[n + 1]
    <3>1. n + 1 \in 1 .. Len(T) + 1 /\ i + 1 \in 1 .. n + 1
      BY <1>1, <1>3
    <3> QED
      BY <1>1, <2>2, <3>1, SkipsTo DEF f
  <2> HIDE DEF x
  <2>4. m[Null] = <<>>
    BY DEF TextsOf
  <2>5. m[x] = f[i + 1] /\ x = Null
    BY <1>2, <2>1, <2>3, <2>4
  <2> QED
    BY <1>4, <2>5 DEF f, x, Reads
<1>5. CASE ~IsLast(Q, i)
  <2> DEFINE Z == {j \in Q : ~(j <= i)}
  <2>1. Z \in SUBSET Nat
    BY <1>3
  <2>2. Z # {}
    BY <1>5 DEF IsLast
  <2>3. PICK j \in Z : \A k \in Z : j <= k
    BY <2>1, <2>2, Least
  <2>4. j \in Q /\ j \in Nat /\ ~(j <= i)
    BY <2>1, <2>3
  <2>5. \A k \in Q : k <= i \/ j <= k
    BY <2>3
  <2> HIDE DEF Z
  <2>6. i < j /\ j \in 1 .. n /\ \A k \in Q : k <= i \/ k >= j
    BY <1>3, <2>4, <2>5 DEF n
  <2>7. x = node[j]
    BY <2>4, <2>6 DEF Listed
  <2>8. Void(T, i + 1, j)
    <3> SUFFICES ASSUME NEW k \in i + 1 .. j - 1 PROVE T[k] = <<>>
      BY DEF Void
    <3>1. k \in 1 .. n /\ ~(k <= i) /\ ~(k >= j)
      BY <1>1, <1>3, <2>6
    <3>2. k \notin Q
      BY <2>6, <3>1
    <3> QED
      BY <1>1, <3>1, <3>2
  <2>9. f[i + 1] = f[j]
    <3>1. j \in 1 .. Len(T) + 1 /\ i + 1 \in 1 .. j
      BY <1>1, <1>3, <2>6
    <3> QED
      BY <1>1, <2>8, <3>1, SkipsTo DEF f
  <2>10. m[node[j]] = f[j] /\ node[j] # Null
    BY <2>4 DEF TextsOf, f
  <2> HIDE DEF x
  <2>11. m[x] = f[i + 1] /\ x # Null
    BY <2>7, <2>9, <2>10
  <2> QED
    BY <1>5, <2>11 DEF f, x, Reads
<1> QED
  BY <1>4, <1>5

\* A member and what is behind it, as Spells has it.
Rest(Q, i, F) == IF IsLast(Q, i) THEN <<>> ELSE <<",">> \o F
Splits(a, b, Q, i, F) ==
  (a \o <<":">> \o b \o Comma(Q, i)) \o F = a \o (<<":">> \o (b \o Rest(Q, i, F)))

LEMMA MemberText ==
  ASSUME NEW a \in Seq(Symbols), NEW b \in Seq(Symbols), NEW F \in Seq(Symbols),
         NEW Q, NEW i, IsLast(Q, i) => F = <<>>
  PROVE  Splits(a, b, Q, i, F)
<1> DEFINE c == Comma(Q, i)
           s == <<":">>
<1>1. c \in Seq(Symbols) /\ s \in Seq(Symbols)
  BY ShortSymbols, NoText DEF Comma
<1>2. c \o F = Rest(Q, i, F)
  BY NoText DEF Comma, Rest
<1> HIDE DEF c, s
<1>3. Four(a, s, b, c) /\ Five(a, s, b, c, F)
  BY <1>1, InFour, InFive
<1>4. (((a \o s) \o b) \o c) \o F = a \o (s \o (b \o (c \o F)))
  BY <1>3, Zenon DEF Four, Five
<1> QED
  BY <1>2, <1>4 DEF c, s, Splits

\* The items of a list are the members of the object that they are in.
ItemsSaid(fs, inner, Q, node, v) ==
  \A j \in Q : item[node[j]].string = fs[j].key /\ v[node[j]] = Said(fs[j], inner)
AllClean(fs) == fs \in Seq(Writable) /\ \A i \in 1 .. Len(fs) : Clean(fs[i])
MemberSpelled(n, v, m) == m[n] = InQuotes(item[n].string) \o (<<":">> \o (v[n] \o Later(n, m)))
ListSpells(p, Q, node, T, v, m) ==
  m[item[p].child] = TextFrom(T)[1] /\ \A i \in Q : MemberSpelled(node[i], v, m)

LEMMA ListSpelled ==
  ASSUME NEW fs, AllClean(fs),
         NEW inner \in Seq(Symbols), NoNUL(inner), NEW Q, Q \subseteq 1 .. Len(fs),
         NEW T, MembersIn(fs, inner, Q, T), NEW p, NEW node, Listed(item, p, Q, node),
         NEW v, NEW m, TextsOf(m, node, Q, T), ItemsSaid(fs, inner, Q, node, v)
  PROVE  ListSpells(p, Q, node, T, v, m)
<1> DEFINE f == TextFrom(T)
           n == Len(fs)
<1> USE DEF AllClean
<1>1. /\ Len(T) = n /\ n \in Nat /\ (\A i \in 1 .. n : T[i] \in Seq(Symbols))
      /\ \A i \in Q : T[i] = InQuotes(fs[i].key) \o <<":">> \o Said(fs[i], inner) \o Comma(Q, i)
  BY DEF MembersIn
<1>2. \A i \in Q \cup {0} : Reads(m, LinkOf(item, p, node, i), Q, i, T)
  BY ListText
<1>3. m[item[p].child] = f[1]
  <2>1. Reads(m, LinkOf(item, p, node, 0), Q, 0, T)
    BY <1>2
  <2>2. LinkOf(item, p, node, 0) = item[p].child /\ 0 + 1 = 1
    BY DEF LinkOf
  <2> QED
    BY <2>1, <2>2 DEF Reads
<1>4. ASSUME NEW i \in Q PROVE MemberSpelled(node[i], v, m)
  <2> DEFINE a == InQuotes(fs[i].key)
             b == Said(fs[i], inner)
             x == item[node[i]].next
             F == f[i + 1]
  <2>1. i \in 1 .. n /\ i # 0
    BY <1>1
  <2>2. x = LinkOf(item, p, node, i)
    BY <2>1 DEF LinkOf
  <2>3. m[x] = F /\ (x = Null <=> IsLast(Q, i))
    BY <1>2, <2>2 DEF Reads
  <2>4. a \in Seq(Symbols) /\ b \in Seq(Symbols)
    <3>1. fs[i] \in Writable
      <4> DEFINE W == Writable
      <4>1. fs \in Seq(W)
        OBVIOUS
      <4> HIDE DEF W
      <4>2. fs[i] \in W
        BY <2>1, <4>1
      <4> QED
        BY <4>2 DEF W
    <3> QED
      BY <2>1, <3>1, SaidClean
  <2>5. f[i] = T[i] \o F /\ F \in Seq(Symbols)
    <3>1. Len(T) \in Nat /\ \A k \in 1 .. Len(T) : T[k] \in Seq(Symbols)
      BY <1>1
    <3>2. i \in 1 .. Len(T) /\ i + 1 \in 1 .. Len(T) + 1
      BY <1>1, <2>1
    <3> QED
      BY <3>1, <3>2, TextFromStep, TextFromType
  <2>6. T[i] = a \o <<":">> \o b \o Comma(Q, i)
    BY <1>1
  <2>7. node[i] # Null /\ m[node[i]] = f[i]
    BY DEF TextsOf
  <2>8. Later(node[i], m) = Rest(Q, i, F)
    <3> HIDE DEF F
    <3> QED
      BY <2>3, <2>7 DEF Later, Rest
  <2>9. IsLast(Q, i) => F = <<>>
    <3>1. m[Null] = <<>>
      BY DEF TextsOf
    <3> QED
      BY <2>3, <3>1
  <2>10. InQuotes(item[node[i]].string) = a /\ v[node[i]] = b
    BY DEF ItemsSaid
  <2> HIDE DEF a, b, x, F, f
  <2>11. Splits(a, b, Q, i, F)
    BY <2>4, <2>5, <2>9, MemberText
  <2>12. m[node[i]] = a \o (<<":">> \o (b \o Rest(Q, i, F)))
    BY <2>5, <2>6, <2>7, <2>11 DEF Splits
  <2> QED
    BY <2>8, <2>10, <2>12 DEF MemberSpelled
<1> QED
  BY <1>3, <1>4 DEF ListSpells

\* The body is the text of its root, and the text of each item is that of its field.
LEMMA ObjectSpelled ==
  ASSUME Items, root # Null, adding = Null,
         NEW fs, NEW o, Sendable(fs, o), NEW lost, NEW node, Built(fs, o, Len(fs), lost, node)
  PROVE  \E v, m : Spells(v, m) /\ NoNUL(v[root]) /\ v[root] = ObjectText(fs, lost)
<1>1. PICK R, S, P : Goes(fs, Len(fs), lost, R, S) /\ P = There(R, S, o)
  BY DEF Goes
<1>2. /\ node \in [1 .. Len(fs) -> Nat]
      /\ Tree(item, root, sub, fs, o, R, S, node)
      /\ DOMAIN item = {node[i] : i \in P} \cup ({root, adding} \ {Null})
      /\ \A i \in P : node[i] \in DOMAIN item /\ node[i] # root
      /\ root \in DOMAIN item
  <2>1. PICK d : d = Len(fs)
    OBVIOUS
  <2>2. Built(fs, o, d, lost, node) /\ Goes(fs, d, lost, R, S)
    BY <1>1, <2>1
  <2>3. /\ d \in 0 .. Len(fs) /\ fields = SubSeq(fs, d + 1, Len(fs)) /\ lost \subseteq 1 .. d
        /\ node \in [1 .. Len(fs) -> Nat]
        /\ Tree(item, root, sub, fs, o, R, S, node)
        /\ DOMAIN item = {node[i] : i \in There(R, S, o)} \cup ({root, adding} \ {Null})
        /\ d \in Nat /\ 0 \notin R /\ 0 \notin S
        /\ \A i \in There(R, S, o) : node[i] \in DOMAIN item /\ node[i] # root
        /\ root \in DOMAIN item
    BY <2>2, BuiltParts
  <2> QED
    BY <1>1, <2>3
<1>3. /\ fs \in Seq(Writable) /\ (\A i \in 1 .. Len(fs) : Clean(fs[i]))
      /\ o \in 1 .. Len(fs) /\ fs[o].type = "Object" /\ fs[o].to = "root"
      /\ \A i \in 1 .. Len(fs) : i # o => fs[i].type \in LeafTypes
  BY DEF Sendable, Ordered
<1>4. /\ R \subseteq 1 .. Len(fs) /\ S \subseteq 1 .. Len(fs) /\ o \notin S
      /\ P \subseteq 1 .. Len(fs) /\ R \subseteq P /\ (o \in R => S \subseteq P) /\ P \subseteq R \cup S
      /\ P \subseteq R \/ o \in R
      /\ R = Into(fs, Len(fs), lost, "root") /\ S = Into(fs, Len(fs), lost, "sub")
      /\ R \cap S = {}
  BY <1>1, <1>3 DEF Goes, Into, There
\* The texts.
<1>5. PICK sT : sT = MembersOf(fs, lost, "sub", <<>>)
  OBVIOUS
<1>6. MembersIn(fs, <<>>, S, sT)
  BY <1>3, <1>4, <1>5, MembersAre, NoText, ShortClean
<1>7. PICK inner : inner = Braced(TextFrom(sT)[1])
  OBVIOUS
<1>8. /\ \A i \in 1 .. Len(fs) + 1 : TextFrom(sT)[i] \in Seq(Symbols)
      /\ inner \in Seq(Symbols) /\ NoNUL(inner)
  <2>1. /\ Len(sT) = Len(fs) /\ Len(sT) \in Nat
        /\ \A i \in 1 .. Len(sT) : sT[i] \in Seq(Symbols) /\ NoNUL(sT[i])
    BY <1>6 DEF MembersIn
  <2>2. \A i \in 1 .. Len(sT) + 1 : TextFrom(sT)[i] \in Seq(Symbols) /\ NoNUL(TextFrom(sT)[i])
    BY <2>1, CleanFrom
  <2>3. 1 \in 1 .. Len(sT) + 1
    BY <2>1
  <2>4. inner \in Seq(Symbols) /\ NoNUL(inner)
    BY <1>7, <2>2, <2>3, BracedClean
  <2> QED
    BY <2>1, <2>2, <2>4
<1>9. PICK rT : rT = MembersOf(fs, lost, "root", inner)
  OBVIOUS
<1>10. MembersIn(fs, inner, R, rT)
  BY <1>3, <1>4, <1>8, <1>9, MembersAre
<1>11. PICK all : all = Braced(TextFrom(rT)[1])
  OBVIOUS
<1>12. /\ \A i \in 1 .. Len(fs) + 1 : TextFrom(rT)[i] \in Seq(Symbols)
       /\ all \in Seq(Symbols) /\ NoNUL(all)
  <2>1. /\ Len(rT) = Len(fs) /\ Len(rT) \in Nat
        /\ \A i \in 1 .. Len(rT) : rT[i] \in Seq(Symbols) /\ NoNUL(rT[i])
    BY <1>10 DEF MembersIn
  <2>2. \A i \in 1 .. Len(rT) + 1 : TextFrom(rT)[i] \in Seq(Symbols) /\ NoNUL(TextFrom(rT)[i])
    BY <2>1, CleanFrom
  <2>3. 1 \in 1 .. Len(rT) + 1
    BY <2>1
  <2>4. all \in Seq(Symbols) /\ NoNUL(all)
    BY <1>11, <2>2, <2>3, BracedClean
  <2> QED
    BY <2>1, <2>2, <2>4
<1>13. all = ObjectText(fs, lost)
  BY <1>5, <1>7, <1>9, <1>11 DEF ObjectText, Braced
\* The items' values and members.
<1> DEFINE Of(n) == CHOOSE i \in P : node[i] = n
           Key(s) == InQuotes(s) \o (<<":">> \o all)
           TextOf(i) == IF i \in R THEN TextFrom(rT)[i] ELSE TextFrom(sT)[i]
           v0 == [n \in D |-> IF n = root THEN all ELSE Said(fs[Of(n)], inner)]
           m0 == [n \in D \cup {Null} |-> IF n = Null THEN <<>>
                                          ELSE IF n = root THEN Key(item[root].string)
                                          ELSE TextOf(Of(n))]
<1>14. \A i \in P : Of(node[i]) = i
  <2>1. \A i, j \in P : node[i] = node[j] => i = j
    BY <1>1, <1>2 DEF Tree, Apart
  <2> QED
    BY <2>1
<1>15. /\ Null \notin D /\ D = DOMAIN item /\ \A n \in D : InQuotes(item[n].string) \in Seq(Symbols)
  <2>1. Null \notin D /\ D = DOMAIN item
    BY DEF Items, D
  <2>2. ASSUME NEW n \in D PROVE InQuotes(item[n].string) \in Seq(Symbols)
    <3>1. item[n] \in ItemsOf(D)
      BY DEF Items
    <3>2. item[n].string \in Words \cup {NoString}
      BY <3>1 DEF ItemsOf
    <3>3. item[n].string \in Seq(Symbols)
      BY <3>2, WordsTyped
    <3> QED
      BY <3>3, EscapedText
  <2> QED
    BY <2>1, <2>2
<1>16. ASSUME NEW n \in D, n # root PROVE \E i \in P : node[i] = n /\ Of(n) = i
  BY <1>2, <1>14, <1>15, <1>16
<1> HIDE DEF Of, Key, TextOf
<1>17. PICK v, m : v = v0 /\ m = m0
  OBVIOUS
<1>18. /\ v[root] = all /\ m[Null] = <<>> /\ m[root] = Key(item[root].string)
       /\ \A i \in P : v[node[i]] = Said(fs[i], inner) /\ m[node[i]] = TextOf(i) /\ node[i] # Null
  BY <1>2, <1>14, <1>15, <1>17
<1>19. v \in [D -> Seq(Symbols)] /\ m \in [D \cup {Null} -> Seq(Symbols)]
  <2>1. \A i \in P : fs[i] \in Writable /\ Clean(fs[i])
    <3> DEFINE W == Writable
    <3>1. fs \in Seq(W)
      BY <1>3
    <3> HIDE DEF W
    <3>2. \A i \in 1 .. Len(fs) : fs[i] \in W
      BY <3>1
    <3> QED
      BY <1>3, <1>4, <3>2 DEF W
  <2>2. \A i \in P : Said(fs[i], inner) \in Seq(Symbols)
    BY <1>8, <2>1, SaidClean
  <2>3. \A i \in P : TextOf(i) \in Seq(Symbols)
    <3>1. \A i \in P : i \in 1 .. Len(fs) + 1
      BY <1>3, <1>4
    <3> QED
      BY <1>8, <1>12, <3>1 DEF TextOf
  <2>4. Key(item[root].string) \in Seq(Symbols)
    BY <1>2, <1>12, <1>15, ShortSymbols, Appends DEF Key
  <2>5. \A n \in D : n # root =>
          Said(fs[Of(n)], inner) \in Seq(Symbols) /\ TextOf(Of(n)) \in Seq(Symbols)
    BY <1>16, <2>2, <2>3
  <2> QED
    BY <1>12, <1>17, <2>4, <2>5, NoText
<1> HIDE DEF v0, m0
<1>20. /\ Listed(item, root, R, node) /\ (o \in R => Listed(item, sub, S, node) /\ sub = node[o])
       /\ item[root].type = "Object" /\ item[root].next = Null
       /\ \A i \in P : Holds(item, node[i], fs[i], TRUE) /\ item[node[i]].string = fs[i].key
  BY <1>1, <1>2 DEF Tree, Placed
<1>21. m[item[root].child] = TextFrom(rT)[1] /\ \A i \in R : MemberSpelled(node[i], v, m)
  <2>1. TextsOf(m, node, R, rT)
    BY <1>4, <1>18 DEF TextsOf, TextOf
  <2>2. ItemsSaid(fs, inner, R, node, v)
    BY <1>4, <1>18, <1>20 DEF ItemsSaid
  <2>3. AllClean(fs) /\ R \subseteq 1 .. Len(fs) /\ Listed(item, root, R, node)
    BY <1>3, <1>4, <1>20 DEF AllClean
  <2>4. ListSpells(root, R, node, rT, v, m)
    BY <1>8, <1>10, <2>1, <2>2, <2>3, ListSpelled
  <2> QED
    BY <2>4 DEF ListSpells
<1>22. ASSUME o \in R
       PROVE  m[item[sub].child] = TextFrom(sT)[1] /\ \A i \in S : MemberSpelled(node[i], v, m)
  <2>1. TextsOf(m, node, S, sT)
    <3>1. \A i \in S : i \notin R /\ i \in P
      BY <1>4, <1>22
    <3> QED
      BY <1>18, <3>1 DEF TextsOf, TextOf
  <2>2. \A i \in S : Said(fs[i], inner) = Said(fs[i], <<>>)
    <3>1. \A i \in S : fs[i].type \in LeafTypes
      BY <1>3, <1>4
    <3> QED
      BY <3>1 DEF Said, LeafTypes
  <2>3. ItemsSaid(fs, <<>>, S, node, v)
    BY <1>4, <1>18, <1>20, <1>22, <2>2 DEF ItemsSaid
  <2>4. Listed(item, sub, S, node)
    BY <1>20, <1>22
  <2>5. AllClean(fs) /\ S \subseteq 1 .. Len(fs)
    BY <1>3, <1>4 DEF AllClean
  <2>6. ListSpells(sub, S, node, sT, v, m)
    BY <1>6, <2>1, <2>3, <2>4, <2>5, ListSpelled, NoText, ShortClean
  <2> QED
    BY <2>6 DEF ListSpells
<1>23. \A n \in D : v[n] = ValueText(n, m)
  <2>1. v[root] = ValueText(root, m)
    BY <1>11, <1>18, <1>20, <1>21 DEF ValueText, Braced
  <2>2. ASSUME NEW i \in P PROVE v[node[i]] = ValueText(node[i], m)
    <3>1. v[node[i]] = Said(fs[i], inner) /\ Holds(item, node[i], fs[i], TRUE)
      BY <1>18, <1>20
    <3>2. CASE i = o
      <4>1. o \in R
        BY <1>4, <2>2, <3>2
      <4>2. item[node[i]].type = "Object" /\ Said(fs[i], inner) = inner
        BY <1>3, <3>1, <3>2 DEF Holds, Said
      <4>3. inner = Braced(m[item[node[i]].child])
        BY <1>7, <1>20, <1>22, <3>2, <4>1
      <4> QED
        BY <3>1, <4>2, <4>3 DEF ValueText, Braced
    <3>3. CASE i # o
      <4>1. fs[i].type \in LeafTypes
        BY <1>3, <1>4, <3>3
      <4> QED
        BY <3>1, <4>1 DEF Holds, Said, ValueText, LeafTypes
    <3> QED
      BY <3>2, <3>3
  <2> QED
    BY <1>16, <2>1, <2>2
<1>24. \A n \in D : MemberSpelled(n, v, m)
  <2>1. MemberSpelled(root, v, m)
    <3>1. Later(root, m) = <<>> /\ v[root] \o <<>> = v[root]
      BY <1>12, <1>18, <1>20, NoText DEF Later
    <3> QED
      BY <1>18, <3>1 DEF MemberSpelled, Key
  <2>2. ASSUME NEW i \in P PROVE MemberSpelled(node[i], v, m)
    BY <1>4, <1>21, <1>22
  <2> QED
    BY <1>16, <2>1, <2>2
<1>25. Spells(v, m)
  BY <1>18, <1>19, <1>23, <1>24 DEF Spells, MemberSpelled
<1> QED
  BY <1>12, <1>13, <1>18, <1>25

-----------------------------------------------------------------------------
(* The steps of an upload and a report *)

LEMMA FieldsStay ==
  ASSUME UNCHANGED <<call, arg>>
  PROVE  AllFields' = AllFields
BY DEF AllFields

\* Where a body is built, and where it is not.
LEMMA BuildingSteps ==
  ASSUME PhaseInv, ResponseInv, [Next]_vars, pc' \in Building
  PROVE  /\ CreateRoot \/ AddItem \/ AddValue \/ AddKey \/ AddDrop \/ PrintBody \/ UNCHANGED vars
         /\ UNCHANGED <<call, arg>>
<1>1. CASE PrintDone \/ PollAnswered \/ PollRefused \/ PollParsed
  <2>1. pc' \in {"url", "failed", "parse", "idle"}
    BY <1>1 DEF PrintDone, PollAnswered, PollRefused, PollParsed, Ends, Return
  <2> QED
    BY <2>1 DEF Building
<1>2. CASE ParseBody
  BY <1>2 DEF ParseBody, Building
<1>3. CASE Aside
  BY <1>3, AsideFrame DEF Building
<1>4. CASE CreateRoot \/ AddItem \/ AddValue \/ AddKey \/ AddDrop \/ PrintBody \/ UNCHANGED vars
  BY <1>4 DEF CreateRoot, AddItem, AddValue, AddKey, AddDrop, PrintBody, vars, locals
<1> QED
  BY <1>1, <1>2, <1>3, <1>4, StepsOf

\* Built is about these variables only.
LEMMA BuiltStays ==
  ASSUME UNCHANGED <<item, root, pc, fields, adding, sub>>,
         NEW fs, NEW o, NEW d, NEW lost, NEW node, Built(fs, o, d, lost, node)
  PROVE  Built(fs, o, d, lost, node)'
BY Zenon DEF Built

LEMMA BuildStep ==
  ASSUME SentInv, BuildInv, PhaseInv, FieldsInv, HeapInv, ResponseInv, [Next]_vars
  PROVE  BuildInv'
<1> SUFFICES ASSUME pc' \in Building, root' # Null,
                    NEW fs, NEW o, fs = AllFields', Sendable(fs, o)
             PROVE  \E d, lost, node : Built(fs, o, d, lost, node)' /\ Loses(lost, refused', Len(fs))
  BY Zenon DEF BuildInv
<1>1. fs = AllFields /\ fs \in Seq(Writable) /\ Ordered(fs, o)
  BY BuildingSteps, FieldsStay DEF Sendable
<1>2. Len(fs) \in Nat /\ refused \in Nat
  <2>1. Len(fs) \in Nat
    BY <1>1
  <2> QED
    BY <2>1, ItemsAssumption DEF PhaseInv
<1>3. CASE CreateRoot
  <2>1. fields = fs
    BY <1>1, <1>3 DEF SentInv, CreateRoot
  <2> QED
    BY <1>1, <1>3, <2>1, CreateBuilds
<1>4. CASE AddItem \/ AddValue \/ AddKey \/ AddDrop \/ PrintBody \/ UNCHANGED vars
  <2>1. root' = root /\ pc \in Building
    <3>1. CASE AddItem \/ AddValue \/ AddKey \/ AddDrop
      BY <3>1 DEF AddItem, AddValue, AddKey, AddDrop, Building
    <3>2. CASE PrintBody
      BY <3>2, PrintFrame DEF PrintBody, Building
    <3>3. CASE UNCHANGED vars
      BY <3>3 DEF vars
    <3> QED
      BY <1>4, <3>1, <3>2, <3>3
  <2>2. PICK d, lost, node : Built(fs, o, d, lost, node) /\ Loses(lost, refused, Len(fs))
    BY <1>1, <2>1 DEF BuildInv
  <2>3. root # Null
    BY <2>1
  <2>4. CASE AddItem
    <3>1. Built(fs, o, d, lost, node)' /\ refused' = refused
      BY <1>1, <2>2, <2>3, <2>4, ItemBuilds DEF AddItem
    <3> QED
      BY <2>2, <3>1
  <2>5. CASE AddValue
    <3>1. Built(fs, o, d, lost, node)' /\ refused' = refused
      BY <1>1, <2>2, <2>3, <2>5, ValueBuilds DEF AddValue
    <3> QED
      BY <2>2, <3>1
  <2>6. CASE AddKey
    <3>1. \E new : Built(fs, o, d + 1, lost, new)'
      BY <1>1, <2>2, <2>3, <2>6, KeyBuilds
    <3>2. refused' = refused
      BY <2>6 DEF AddKey
    <3> QED
      BY <2>2, <3>1, <3>2
  <2>7. CASE AddDrop
    <3>1. \E l : Built(fs, o, d + 1, l, node)' /\ Loses(l, refused', Len(fs))
      BY <1>1, <2>2, <2>3, <2>7, DropBuilds
    <3> QED
      BY <3>1
  <2>8. CASE PrintBody \/ UNCHANGED vars
    <3>1. UNCHANGED <<item, root, pc, fields, adding, sub>> /\ (Refuse \/ refused' = refused)
      <4>1. CASE PrintBody
        BY <4>1, PrintFrame DEF PrintBody, locals
      <4>2. CASE UNCHANGED vars
        BY <4>2 DEF vars, heap, locals
      <4> QED
        BY <2>8, <4>1, <4>2
    <3>2. Built(fs, o, d, lost, node)'
      BY <2>2, <3>1, BuiltStays
    <3>3. Loses(lost, refused', Len(fs))
      BY <1>2, <2>2, <3>1, LosesKept
    <3> QED
      BY <3>2, <3>3
  <2> QED
    BY <1>4, <2>4, <2>5, <2>6, <2>7, <2>8
<1> QED
  BY <1>3, <1>4, BuildingSteps

\* What C sees of a text has no NUL in it.
LEMMA CStringClean ==
  ASSUME NEW S, NEW w \in Seq(S)
  PROVE  CString(w) \in Seq(S) /\ NoNUL(CString(w))
<1> DEFINE plain == {i \in 1 .. Len(w) : \A j \in 1 .. i : w[j] # NUL}
<1>1. Len(w) \in Nat
  OBVIOUS
<1>2. CASE \A i \in 1 .. Len(w) : w[i] # NUL
  <2>1. CString(w) = SubSeq(w, 1, Len(w))
    BY <1>1, <1>2, CStringUpTo
  <2>2. SubSeq(w, 1, Len(w)) = w
    BY <1>1
  <2> QED
    BY <1>2, <2>1, <2>2 DEF NoNUL
<1>3. CASE \E i \in 1 .. Len(w) : w[i] = NUL
  <2>1. PICK k \in 1 .. Len(w) : w[k] = NUL /\ \A j \in 1 .. k - 1 : w[j] # NUL
    <3> DEFINE T == {i \in 1 .. Len(w) : w[i] = NUL}
    <3>1. T \in SUBSET Nat /\ T # {}
      BY <1>3
    <3>2. PICK k \in T : \A i \in T : k <= i
      BY <3>1, Least
    <3>3. k \in 1 .. Len(w) /\ w[k] = NUL
      OBVIOUS
    <3>4. ASSUME NEW j \in 1 .. k - 1 PROVE w[j] # NUL
      BY <1>1, <3>2, <3>3
    <3> QED
      BY <3>3, <3>4
  <2> DEFINE n == k - 1
  <2>2. n \in 0 .. Len(w) /\ n < Len(w) /\ n + 1 = k
    BY <1>1
  <2>3. (\A i \in 1 .. n : w[i] # NUL) /\ w[n + 1] = NUL
    BY <2>1, <2>2
  <2> HIDE DEF n
  <2>4. CString(w) = SubSeq(w, 1, n)
    BY <2>2, <2>3, CStringUpTo
  <2>5. /\ SubSeq(w, 1, n) \in Seq(S) /\ Len(SubSeq(w, 1, n)) = n
        /\ \A i \in 1 .. n : SubSeq(w, 1, n)[i] = w[i]
    BY <1>1, <2>2
  <2> QED
    BY <2>3, <2>4, <2>5 DEF NoNUL
<1> QED
  BY <1>2, <1>3

\* strlcpy copies no NUL but the one at the end.
LEMMA CopyClean ==
  ASSUME NEW s \in Words, NEW n \in Nat \ {0}
  PROVE  NoNUL(Copy(s, n))
<1> DEFINE S == Symbols \ {"bad"}
           c == CString(s)
<1>1. s \in Seq(S)
  BY DEF Words
<1>2. Copy(s, n) = IF Len(c) < n THEN c ELSE SubSeq(c, 1, n - 1)
  BY DEF Copy
<1> HIDE DEF S
<1>3. c \in Seq(S) /\ NoNUL(c)
  BY <1>1, CStringClean
<1> HIDE DEF c
<1>4. Len(c) \in Nat
  BY <1>3
<1>5. CASE Len(c) < n
  BY <1>2, <1>3, <1>5
<1>6. CASE ~(Len(c) < n)
  <2>1. /\ Len(SubSeq(c, 1, n - 1)) = n - 1
        /\ \A i \in 1 .. n - 1 : SubSeq(c, 1, n - 1)[i] = c[i] /\ i \in 1 .. Len(c)
    BY <1>3, <1>4, <1>6
  <2> QED
    BY <1>2, <1>3, <1>6, <2>1 DEF NoNUL
<1> QED
  BY <1>5, <1>6

\* The id that was polled, which is reported.
LEMMA CommandClean ==
  ASSUME ParseHeap, step = "done"
  PROVE  NoNUL(Extracted.cmd_id)
<1> DEFINE cmd == GetObjectItem(root, <<"cmd">>)
           cmd_id == GetObjectItem(root, <<"cmd_id">>)
           name == GetObjectItem(cmd, <<"cmd">>)
<1>1. CASE Extracted = NoCommand
  BY <1>1 DEF NoCommand, NoNUL
<1>2. CASE Extracted # NoCommand
  <2> DEFINE a == Copy(item[cmd_id].valuestring, MaxId)
             b == Copy(item[name].valuestring, MaxName)
  <2>1. IsString(cmd_id) /\ Extracted = [cmd_id |-> a, cmd |-> b, has_command |-> TRUE]
    BY <1>2, Zenon DEF Extracted
  <2>2. item[cmd_id].valuestring \in Words
    <3>1. /\ Typed(item) /\ Heap(item, Roots(frames, root)) /\ root \in DOMAIN item
          /\ \A n \in DOMAIN item \cup {Null} : IsString(n) => item[n].valuestring \in Words
      BY ReplyItems
    <3>2. cmd_id \in DOMAIN item \cup {Null}
      BY <3>1, LookupType
    <3> QED
      BY <2>1, <3>1, <3>2
  <2>3. NoNUL(a)
    BY <2>2, CopyClean, ClientAssumption
  <2> HIDE DEF a, b
  <2> QED
    BY <2>1, <2>3
<1> QED
  BY <1>1, <1>2

\* What is sent is a device's status, or the result of a command whose id was polled.
LEMMA SentStep ==
  ASSUME SentInv, PhaseInv, HeapInv, OutInv, ResponseInv, [Next]_vars
  PROVE  SentInv'
<1>1. pc' = "create" => fields' = AllFields' /\ \E o : Sendable(AllFields', o)
  <2> SUFFICES ASSUME pc' = "create" PROVE fields' = AllFields' /\ \E o : Sendable(AllFields', o)
    OBVIOUS
  <2>1. CASE \E d \in Devices : Upload(d)
    <3>1. PICK d \in Devices : Upload(d)
      BY <2>1
    <3>2. /\ Accepts(d.packet) /\ call' = "upload" /\ arg' = d
          /\ fields' = UploadFields(d, ParsePacket(d.packet))
      BY <3>1 DEF Upload
    <3>3. d.measured \in Status /\ ParsePacket(d.packet) = d.measured
      BY <3>2, AsMeasured
    <3>4. AllFields' = UploadFields(d, d.measured)
      BY <3>2 DEF AllFields
    <3>5. \E o : Sendable(UploadFields(d, d.measured), o)
      BY <3>3, UploadSendable
    <3> QED
      BY <3>2, <3>3, <3>4, <3>5
  <2>2. CASE \E success \in BOOLEAN, m \in Messages : Report(success, m)
    <3>1. PICK success \in BOOLEAN, m \in Messages : Report(success, m)
      BY <2>2
    <3>2. PICK r : r = [cmd_id |-> out.cmd_id, success |-> success, message |-> m]
      OBVIOUS
    <3>3. pc # "create" /\ call' = "report" /\ arg' = r /\ fields' = ReportFields(arg')
      BY <3>1, <3>2 DEF Report
    <3>4. r.cmd_id \in Words /\ NoNUL(r.cmd_id) /\ r.message \in Words /\ NoNUL(r.message)
      <4>1. r.cmd_id = out.cmd_id /\ r.message = m
        BY <3>2
      <4>2. m \in Words /\ NoNUL(m)
        BY ClientAssumption, BodyAssumption, WordsTyped
      <4> QED
        BY <4>1, <4>2 DEF OutInv, SentInv
    <3>5. \E o : Sendable(ReportFields(r), o)
      BY <3>4, ReportSendable
    <3>6. AllFields' = ReportFields(r)
      BY <3>3 DEF AllFields
    <3> QED
      BY <3>3, <3>5, <3>6
  <2>3. CASE UNCHANGED vars
    <3>1. pc = "create" /\ UNCHANGED <<call, arg, fields>>
      BY <2>3 DEF vars, locals
    <3>2. AllFields' = AllFields
      BY <3>1, FieldsStay
    <3> QED
      BY <3>1, <3>2 DEF SentInv
  <2>4. ~(\/ CreateRoot \/ AddItem \/ AddValue \/ AddKey \/ AddDrop \/ PrintBody \/ PrintDone
          \/ PollAnswered \/ ParseBody \/ PollRefused \/ PollParsed)
    BY DEF CreateRoot, AddItem, AddValue, AddKey, AddDrop, NextField, PrintBody, PrintDone,
           PollAnswered, ParseBody, PollRefused, PollParsed, Ends, Return
  <2>5. Aside => \/ \E d \in Devices : Upload(d)
                 \/ \E success \in BOOLEAN, m \in Messages : Report(success, m)
    <3>1. ~Poll /\ ~RequestBegins /\ ~RequestNoMemory /\ ~PerformEnds /\ ~CallEnds
      BY DEF Poll, RequestBegins, RequestNoMemory, PerformEnds, CallEnds, Ends, Return
    <3>2. /\ ~(\E r \in IF call = "poll" THEN Replies ELSE Acks : Answer(r))
          /\ ~(\E n \in Pieces : Arrive(n))
      BY DEF Answer, Arrive
    <3>3. ~Store /\ ~Grow /\ ~GrowStore /\ ~Drop
      BY DEF ResponseInv, Store, Grow, GrowStore, Drop
    <3> QED
      BY <3>1, <3>2, <3>3 DEF Aside
  <2> QED
    BY <2>1, <2>2, <2>3, <2>4, <2>5, StepsOf
<1>2. pc' \in Building => \E o : Sendable(AllFields', o)
  <2> SUFFICES ASSUME pc' \in Building PROVE \E o : Sendable(AllFields', o)
    OBVIOUS
  <2>1. AllFields' = AllFields
    BY BuildingSteps, FieldsStay
  <2>2. pc \in Building \cup {"create"}
    BY BuildingSteps DEF Building, CreateRoot, AddItem, AddValue, AddKey, AddDrop, PrintBody, vars
  <2> QED
    BY <2>1, <2>2 DEF SentInv
<1>3. NoNUL(out'.cmd_id)
  <2>1. Forgets => NoNUL(out'.cmd_id)
    BY DEF Forgets, NoCommand, NoNUL
  <2>2. out' = out => NoNUL(out'.cmd_id)
    BY DEF SentInv
  <2>3. CASE PollParsed
    <3>1. ParseHeap /\ step = "done"
      BY <2>3 DEF PollParsed, HeapInv
    <3>2. out' = Extracted \/ Forgets
      BY <2>3 DEF PollParsed
    <3> QED
      BY <2>1, <3>1, <3>2, CommandClean
  <2>4. CASE PollRefused \/ CallEnds
    BY <2>1, <2>4 DEF PollRefused, CallEnds
  <2>5. CASE \E success \in BOOLEAN, m \in Messages : Report(success, m)
    BY <2>1, <2>2, <2>5 DEF Report, polled
  <2>6. CASE CreateRoot \/ AddItem \/ AddValue \/ AddKey \/ AddDrop \/ PrintBody \/ PrintDone
              \/ PollAnswered \/ ParseBody \/ UNCHANGED vars
    BY <2>2, <2>6 DEF CreateRoot, AddItem, AddValue, AddKey, AddDrop, PrintBody, PrintDone,
                      PollAnswered, ParseBody, polled, vars
  <2>7. CASE Poll \/ (\E d \in Devices : Upload(d)) \/ RequestBegins \/ RequestNoMemory
              \/ (\E r \in IF call = "poll" THEN Replies ELSE Acks : Answer(r))
              \/ (\E n \in Pieces : Arrive(n)) \/ Store \/ Grow \/ GrowStore \/ Drop \/ PerformEnds
    BY <2>2, <2>7 DEF Poll, Upload, RequestBegins, RequestNoMemory, Answer, Arrive, Store, Grow,
                      GrowStore, Drop, PerformEnds, polled
  <2> QED
    BY <2>3, <2>4, <2>5, <2>6, <2>7, StepsOf DEF Aside
<1> QED
  BY <1>1, <1>2, <1>3, Zenon DEF SentInv

\* The text that is printed is that of the items, and there is none before.
LEMMA PrintedStep ==
  ASSUME PrintedInv, PrintInv, PhaseInv, ResponseInv, [Next]_vars
  PROVE  PrintedInv'
<1> SUFFICES ASSUME NEW v, NEW m PROVE TextInv(v, m)'
  BY Zenon DEF PrintedInv
<1>1. TextInv(v, m)
  BY DEF PrintedInv
<1>2. CASE PrintBody \/ UNCHANGED vars
  <2>1. [PrintStart \/ PrintStep]_printVars
    BY <1>2 DEF PrintBody, vars, printVars
  <2> QED
    BY <1>1, <2>1, TextInvStep
<1>3. CASE ~PrintBody /\ ~UNCHANGED vars
  <2>1. mode' = "off" /\ stack' = <<>>
    <3>1. CASE PrintDone
      <4>1. mode \notin Running /\ mode' = "off" /\ stack' = stack
        BY <3>1 DEF PrintDone, Running
      <4> QED
        BY <4>1 DEF PrintInv, Stack
    <3>2. CASE ~PrintDone
      <4>1. UNCHANGED printer /\ pc # "print"
        <5>1. CASE CreateRoot \/ AddItem \/ AddValue \/ AddKey \/ AddDrop
          BY <5>1 DEF CreateRoot, AddItem, AddValue, AddKey, AddDrop
        <5>2. CASE PollAnswered \/ ParseBody \/ PollRefused \/ PollParsed
          BY <5>2 DEF PollAnswered, ParseBody, PollRefused, PollParsed
        <5>3. CASE Aside
          BY <5>3, AsideFrame
        <5> QED
          BY <1>3, <3>2, <5>1, <5>2, <5>3, StepsOf
      <4>2. mode = "off" /\ UNCHANGED <<mode, stack>>
        BY <4>1 DEF PhaseInv, printer
      <4>3. stack = <<>>
        BY <4>2 DEF PrintInv, Stack, Running
      <4> QED
        BY <4>2, <4>3
    <3> QED
      BY <3>1, <3>2
  <2>2. Spelling(v, m)'
    BY <2>1 DEF Spelling, Running
  <2> QED
    BY <2>1, <2>2 DEF TextInv
<1> QED
  BY <1>2, <1>3

\* The body is the text of the fields but for those that are lost, from when it
\* is printed until the call ends.
LEMMA BodyStep ==
  ASSUME BodyInv, SentInv, BuildInv, PrintedInv, PrintInv, PhaseInv, ResponseInv, [Next]_vars
  PROVE  BodyInv'
<1> SUFFICES ASSUME body' # NoString, NEW fs, fs = AllFields'
             PROVE  /\ fs \in Seq(Writable)
                    /\ \E lost : Loses(lost, refused', Len(fs)) /\ body' = ObjectText(fs, lost)
  BY Zenon DEF BodyInv
<1>1. CASE PrintDone /\ mode = "printed"
  <2>1. /\ pc = "print" /\ body' = CString(text) /\ UNCHANGED <<refused, call, arg>>
        /\ adding = Null /\ Items
    BY <1>1 DEF PrintDone, PhaseInv, PrintInv, locals
  <2>2. fs = AllFields
    BY <2>1, FieldsStay
  <2>3. root # Null
    <3>1. TextInv(<<>>, <<>>)
      BY DEF PrintedInv
    <3> QED
      BY <1>1, <3>1 DEF TextInv
  <2>4. PICK o : Sendable(fs, o)
    BY <2>1, <2>2 DEF SentInv, Building
  <2>5. fs \in Seq(Writable)
    BY <2>4 DEF Sendable
  <2>6. PICK d, lost, node : Built(fs, o, d, lost, node) /\ Loses(lost, refused, Len(fs))
    BY <2>1, <2>2, <2>3, <2>4 DEF BuildInv, Building
  <2>7. d = Len(fs)
    BY <2>1, <2>6 DEF Built
  <2>8. PICK v, m : Spells(v, m) /\ NoNUL(v[root]) /\ v[root] = ObjectText(fs, lost)
    BY <2>1, <2>3, <2>4, <2>6, <2>7, ObjectSpelled
  <2>9. Spelling(v, m)
    BY <2>3, <2>8 DEF PrintedInv, TextInv
  <2>10. CString(text) = v[root]
    BY <1>1, <2>9 DEF Spelling
  <2> QED
    BY <2>1, <2>5, <2>6, <2>8, <2>10
<1>2. CASE /\ body' = body /\ UNCHANGED <<call, arg>>
           /\ Refuse \/ refused' = refused
  <2>1. fs = AllFields
    BY <1>2, FieldsStay
  <2>2. /\ fs \in Seq(Writable)
        /\ \E lost : Loses(lost, refused, Len(fs)) /\ body = ObjectText(fs, lost)
    BY <1>2, <2>1 DEF BodyInv
  <2>3. PICK lost : Loses(lost, refused, Len(fs)) /\ body = ObjectText(fs, lost)
    BY <2>2
  <2>4. Len(fs) \in Nat /\ refused \in Nat
    BY <2>2, ItemsAssumption DEF PhaseInv
  <2>5. Loses(lost, refused', Len(fs))
    BY <1>2, <2>3, <2>4, LosesKept
  <2> QED
    BY <1>2, <2>2, <2>3, <2>5
<1>3. \/ PrintDone /\ mode = "printed"
      \/ body' = body /\ UNCHANGED <<call, arg>> /\ (Refuse \/ refused' = refused)
  <2>1. CASE CreateRoot \/ AddItem \/ AddValue \/ AddKey \/ AddDrop
    BY <2>1 DEF CreateRoot, AddItem, AddValue, AddKey, AddDrop, locals
  <2>2. CASE PrintBody
    BY <2>2, PrintFrame DEF PrintBody, locals
  <2>3. CASE PrintDone
    BY <2>3 DEF PrintDone
  <2>4. CASE PollAnswered
    BY <2>4 DEF PollAnswered, ParseStart, heap, locals
  <2>5. CASE ParseBody
    BY <2>5, ParseFrame DEF ParseBody, locals
  <2>6. CASE PollRefused \/ PollParsed \/ CallEnds
    BY <2>6 DEF PollRefused, PollParsed, CallEnds, Ends
  <2>7. CASE Poll \/ (\E d \in Devices : Upload(d))
              \/ (\E success \in BOOLEAN, m \in Messages : Report(success, m))
    BY <2>7 DEF Poll, Upload, Report, PhaseInv
  <2>8. CASE RequestBegins \/ RequestNoMemory \/ PerformEnds
              \/ (\E r \in IF call = "poll" THEN Replies ELSE Acks : Answer(r))
              \/ (\E n \in Pieces : Arrive(n)) \/ Store \/ Grow \/ GrowStore \/ Drop
    BY <2>8 DEF RequestBegins, RequestNoMemory, PerformEnds, Answer, Arrive, Store, Grow,
                GrowStore, Drop, heap, locals
  <2>9. CASE UNCHANGED vars
    BY <2>9 DEF vars, heap, locals
  <2> QED
    BY <2>1, <2>2, <2>3, <2>4, <2>5, <2>6, <2>7, <2>8, <2>9, StepsOf DEF Aside
<1> QED
  BY <1>1, <1>2, <1>3

-----------------------------------------------------------------------------
(* The bodies *)

LEMMA BodiesInit == Init => SentInv /\ BuildInv /\ PrintedInv /\ BodyInv
<1> SUFFICES ASSUME Init PROVE SentInv /\ BuildInv /\ PrintedInv /\ BodyInv
  OBVIOUS
<1>1. pc = "idle" /\ root = Null /\ mode = "off" /\ stack = <<>> /\ body = NoString
      /\ out = NoCommand
  BY DEF Init, NoItems, NoPrint
<1>2. SentInv /\ BuildInv /\ BodyInv
  BY <1>1 DEF SentInv, BuildInv, BodyInv, Building, NoCommand, NoNUL
<1>3. ASSUME NEW v, NEW m PROVE TextInv(v, m)
  BY <1>1 DEF TextInv, Spelling, Running
<1> QED
  BY <1>2, <1>3 DEF PrintedInv

\* Every body that is sent is right, whatever the device measured, was polled or is
\* reported, and whichever allocations are refused: what cloud_client_upload_status
\* and cloud_client_report_command_result post is the JSON text of the fields that
\* add_status_json and they add, in their order and each with its value, without
\* those that an allocation was refused for: at most one for each that was refused.
THEOREM BodiesAreRight == Spec => []BodyRight
<1> DEFINE Client == ResponseInv /\ ParserInv /\ ClientInv
           Inv == SentInv /\ BuildInv /\ PrintedInv /\ BodyInv
<1>1. Spec => []Client
  BY ClientKept
<1>2. Init => Inv
  BY BodiesInit
<1>3. Client /\ Inv /\ [Next]_vars => Inv'
  <2> SUFFICES ASSUME Client, Inv, [Next]_vars PROVE Inv'
    OBVIOUS
  <2>1. ResponseInv /\ PhaseInv /\ FieldsInv /\ HeapInv /\ OutInv /\ PrintInv
    BY DEF ClientInv
  <2>2. SentInv' /\ BuildInv' /\ PrintedInv' /\ BodyInv'
    BY <2>1, SentStep, BuildStep, PrintedStep, BodyStep
  <2> QED
    BY <2>2
<1>4. Client /\ Inv => BodyRight
  BY BodySays, ItemsAssumption DEF ClientInv, PhaseInv
<1> HIDE DEF Client, Inv
<1> QED
  BY <1>1, <1>2, <1>3, <1>4, PTL DEF Spec
=============================================================================
