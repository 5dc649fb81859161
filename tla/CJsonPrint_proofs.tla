------------------------- MODULE CJsonPrint_proofs --------------------------
(***************************************************************************)
(* cJSON_PrintUnformatted by itself, on any items at all: any number of    *)
(* them, linked in any way, with any strings and numbers.                  *)
(***************************************************************************)
EXTENDS CJsonPrint, CJsonItems_proofs, SequenceTheorems

PrintInit ==
  /\ NoPrint
  /\ \E D \in SUBSET (Nat \ {Null}) : item \in [D -> ItemsOf(D)]
  /\ root \in DOMAIN item \cup {Null}
  /\ strings \in Nat /\ refused = 0

printVars == <<heap, root, printer>>
PrintSpec == PrintInit /\ [][PrintStart \/ PrintStep]_printVars

-----------------------------------------------------------------------------
(* The inductive invariant *)

D == DOMAIN item
Items ==
  /\ D \subseteq Nat \ {Null} /\ item \in [D -> ItemsOf(D)]
  /\ root \in D \cup {Null}

\* Where an object is printed, there is a member that it is at, except in
\* front of its closing bracket.
Running == {"key", "copykey", "colon", "value", "copyvalue", "after", "close"}
Stack ==
  /\ stack \in Seq(D \cup {Null})
  /\ \A i \in 2 .. Len(stack) : stack[i] \in D
  /\ mode \in {"key", "copykey", "colon", "close"} => stack # <<>>
  /\ mode \in Running \ {"close"} /\ stack # <<>> => stack[1] \in D
  /\ mode = "copyvalue" => Current # Null
  /\ mode \notin Running => stack = <<>>

Buffer ==
  /\ text \in Seq(Symbols) /\ offset \in Nat /\ length \in Nat
  /\ offset <= Len(text) /\ Len(text) <= length /\ length <= IntMax
  /\ mode \notin {"off", "failed"} => offset < length
  /\ mode = "off" => Len(text) = 0 /\ offset = 0 /\ length = 0
  /\ mode = "after" => offset < Len(text)

\* While a string is escaped: what has been written, and what the rest of the
\* string takes, is what was reckoned for it.
Copying ==
  mode \in {"copykey", "copyvalue"} =>
    LET s == ThisString
    IN  /\ copied \in Nat /\ copied <= Len(s)
        /\ Len(text) + (Len(s) - copied) + From(s, copied + 1, OneChar)
             + 5 * From(s, copied + 1, Control) = offset + 1 + OutputLength(s)
        /\ offset + OutputLength(s) + 4 <= length

PrintInv ==
  /\ mode \in Running \cup {"off", "failed", "printed"}
  /\ Items /\ Stack /\ Buffer /\ Copying

-----------------------------------------------------------------------------
(* Texts *)

\* What is counted from the i-th symbol on is that symbol and the rest.
LEMMA FromStep ==
  ASSUME NEW s \in Seq(Symbols), NEW i \in Nat \ {0}, i <= Len(s), NEW S
  PROVE  /\ From(s, i + 1, S) \in Nat
         /\ From(s, i, S) = From(s, i + 1, S) + (IF s[i] \in S THEN 1 ELSE 0)
<1> DEFINE later == {j \in i + 1 .. Len(s) : s[j] \in S}
           now == {j \in i .. Len(s) : s[j] \in S}
<1>1. From(s, i + 1, S) = Cardinality(later) /\ From(s, i, S) = Cardinality(now)
  BY DEF From
<1>2. IsFiniteSet(later) /\ Cardinality(later) \in Nat
  <2>1. later \in SUBSET (i + 1 .. Len(s)) /\ i + 1 \in Int /\ Len(s) \in Int
    OBVIOUS
  <2> QED
    BY <2>1, SubsetOfInterval
<1>3. i \notin later
  OBVIOUS
<1>4. now = IF s[i] \in S THEN later \cup {i} ELSE later
  OBVIOUS
<1>5. Cardinality(later \cup {i}) = Cardinality(later) + 1
  BY <1>2, <1>3, FS_AddElement
<1> HIDE DEF later, now
<1>6. CASE s[i] \in S
  BY <1>1, <1>2, <1>4, <1>5, <1>6
<1>7. CASE s[i] \notin S
  BY <1>1, <1>2, <1>4, <1>7
<1> QED
  BY <1>6, <1>7

LEMMA FromType ==
  ASSUME NEW s \in Seq(Symbols), NEW i \in Nat, NEW S
  PROVE  From(s, i, S) \in Nat /\ (i > Len(s) => From(s, i, S) = 0)
<1> DEFINE now == {j \in i .. Len(s) : s[j] \in S}
<1>1. now \in SUBSET (i .. Len(s)) /\ i \in Int /\ Len(s) \in Int
  OBVIOUS
<1>2. Cardinality(now) \in Nat
  BY <1>1, SubsetOfInterval
<1>3. i > Len(s) => now = {}
  BY <1>1
<1> QED
  BY <1>2, <1>3, FS_EmptySet DEF From

\* What print_string_ptr reckons for a string, and that what is escaped of one
\* symbol takes exactly its share of that.
LEMMA OutputLengthType ==
  ASSUME NEW s \in Seq(Symbols)
  PROVE  /\ OutputLength(s) \in Nat
         /\ OutputLength(s) = Len(s) + From(s, 1, OneChar) + 5 * From(s, 1, Control)
         /\ Plain(s) => OutputLength(s) = Len(s)
<1>1. From(s, 1, OneChar) \in Nat /\ From(s, 1, Control) \in Nat /\ Len(s) \in Nat
  BY FromType
<1> QED
  BY <1>1 DEF OutputLength, EscapeCharacters, Plain

LEMMA EscapeLength ==
  ASSUME NEW c \in Symbols
  PROVE  /\ EscapeOf(c) \in Seq(Symbols)
         /\ Len(EscapeOf(c)) = 1 + (IF c \in OneChar THEN 1 ELSE 0)
                                + 5 * (IF c \in Control THEN 1 ELSE 0)
<1>1. {c, Quote, Backslash, "b", "f", "n", "r", "t", "u", "0", "1"} \subseteq Symbols
  BY SymbolsOf DEF Literals, Quote, Backslash, NUL
<1>2. CASE c \in {"bs", "ff", "lf", "cr", "tab"}
  <2>1. /\ \E k \in {"b", "f", "n", "r", "t"} : EscapeOf(c) = <<Backslash, k>>
        /\ c \in OneChar /\ c \notin Control
    BY <1>2 DEF EscapeOf, OneChar, Control, Quote, Backslash
  <2> QED
    BY <1>1, <2>1
<1>3. CASE c \in {Quote, Backslash}
  <2>1. EscapeOf(c) = <<Backslash, c>> /\ c \in OneChar /\ c \notin Control
    BY <1>3 DEF EscapeOf, OneChar, Control, Quote, Backslash
  <2> QED
    BY <1>1, <2>1
<1>4. CASE c = "ctl"
  <2>1. /\ EscapeOf(c) = <<Backslash, "u", "0", "0", "1", "f">>
        /\ c \notin OneChar /\ c \in Control
    BY <1>4 DEF EscapeOf, OneChar, Control, Quote, Backslash
  <2> QED
    BY <1>1, <2>1
<1>5. CASE c \notin {"bs", "ff", "lf", "cr", "tab", Quote, Backslash, "ctl"}
  <2>1. EscapeOf(c) = <<c>> /\ c \notin OneChar /\ c \notin Control
    BY <1>5 DEF EscapeOf, OneChar, Control
  <2> QED
    BY <1>1, <2>1
<1> QED
  BY <1>2, <1>3, <1>4, <1>5

-----------------------------------------------------------------------------
(* Room *)

\* ensure gives what was asked for, and a NUL's room more.
LEMMA EnsureRoom ==
  ASSUME Buffer, Asked \in Nat, Fits \/ CanGrow
  PROVE  /\ NewLength \in Nat /\ NewLength <= IntMax
         /\ offset + Asked + 1 <= NewLength
  BY PrintAssumption DEF Buffer, Fits, CanGrow, Valid, Needed, NewLength

\* What is written there stays in the buffer.
LEMMA WriteRoom ==
  ASSUME Buffer, Asked \in Nat, NEW w \in Seq(Symbols), Writes(w), Len(w) <= Asked
  PROVE  /\ text' \in Seq(Symbols) /\ Len(text') = offset + Len(w)
         /\ length' \in Nat /\ length' <= IntMax /\ offset + Asked + 1 <= length'
<1>1. /\ length' \in Nat /\ length' <= IntMax /\ offset + Asked + 1 <= length'
  BY EnsureRoom DEF Writes
<1>2. /\ SubSeq(text, 1, offset) \in Seq(Symbols)
      /\ Len(SubSeq(text, 1, offset)) = offset
  BY DEF Buffer
<1>3. text' = SubSeq(text, 1, offset) \o w
  BY DEF Writes
<1> QED
  BY <1>1, <1>2, <1>3

LEMMA EmitRoom ==
  ASSUME Buffer, Asked \in Nat, NEW w \in Seq(Symbols), Emit(w), Len(w) <= Asked,
         mode' \in Running, mode' = "after" => Len(w) > 0 /\ w[Len(w)] = NUL
  PROVE  Buffer'
<1>1. /\ text' \in Seq(Symbols) /\ Len(text') = offset + Len(w)
      /\ length' \in Nat /\ length' <= IntMax /\ offset + Asked + 1 <= length'
  BY WriteRoom DEF Emit
<1>2. offset' = offset + Len(CString(w))
  BY DEF Emit
<1>3. /\ Len(CString(w)) \in Nat /\ Len(CString(w)) <= Len(w)
      /\ mode' = "after" => Len(CString(w)) < Len(w)
  BY CStringPart
<1>4. mode' # "off"
  BY DEF Running
<1> QED
  BY <1>1, <1>2, <1>3, <1>4 DEF Buffer

-----------------------------------------------------------------------------
(* One step *)

\* The string that is printed, and the member that an object is at.
LEMMA StringType ==
  ASSUME Items, Stack, mode \in Running, IsKey \/ Current # Null, mode # "close"
  PROVE  Current \in D /\ ThisString \in Seq(Symbols)
<1>1. Current \in D
  BY DEF Items, Stack, Current, IsKey, Running
<1>2. item[Current] \in ItemsOf(D)
  BY <1>1 DEF Items
<1> QED
  BY <1>1, <1>2, WordsTyped DEF ThisString, ItemsOf

LEMMA LiteralType ==
  ASSUME Items, Stack, IsLiteral
  PROVE  Literal \in Seq(Symbols)
<1>1. Current \in D
  BY DEF Items, Stack, Current, IsLiteral, OfType, Running
<1>2. item[Current].number \in Seq(Symbols)
  BY <1>1 DEF Items, ItemsOf
<1> QED
  <2>1. Literal \in {item[Current].number, <<"true">>, <<"false">>, <<>>}
    BY DEF Literal
  <2>2. {"true", "false"} \subseteq Symbols
    BY SymbolsOf DEF Literals, Quote, Backslash, NUL
  <2>3. <<"true">> \in Seq(Symbols) /\ <<"false">> \in Seq(Symbols) /\ <<>> \in Seq(Symbols)
    BY <2>2
  <2>4. item[Current].number \in Seq(Symbols)
    BY <1>2
  <2> QED
    BY <2>1, <2>3, <2>4

LEMMA ItemsStep ==
  ASSUME Items, PrintStart \/ PrintStep \/ UNCHANGED printVars
  PROVE  /\ Items' /\ D' = D /\ item' = item /\ root' = root
<1>1. item' = item /\ root' = root
  BY DEF PrintStart, PrintStep, PrintPlain, PrintQuote, PrintCopy, PrintUnquote,
         PrintLiteral, PrintOpen, PrintColon, PrintComma, PrintClose, PrintUnprintable,
         PrintNoRoom, EnsureFails, PrintEnd, PrintEndFails, Fails, printVars, heap
<1> QED
  BY <1>1 DEF Items, D

LEMMA FailsStep ==
  ASSUME PrintInv, Fails
  PROVE  PrintInv'
<1>1. Items'
  BY DEF Fails, PrintInv, Items, D
<1>2. Stack'
  BY DEF Fails, Stack, Running
<1>3. Buffer'
  BY PrintAssumption DEF Fails, Buffer
<1>4. Copying'
  BY DEF Fails, Copying
<1> QED
  BY <1>1, <1>2, <1>3, <1>4 DEF PrintInv, Fails

LEMMA StringSteps ==
  ASSUME PrintInv, PrintPlain \/ PrintQuote \/ PrintCopy \/ PrintUnquote
  PROVE  Buffer' /\ Copying'
<1>. DEFINE s == ThisString
<1>1. mode \in Running /\ mode # "close" /\ (IsKey \/ Current # Null)
  BY DEF PrintInv, Stack, PrintPlain, PrintQuote, PrintCopy, PrintUnquote, IsText, OfType,
         IsKey, Running
<1>2. s \in Seq(Symbols) /\ Len(s) \in Nat
  BY <1>1, StringType DEF PrintInv
<1>3. /\ OutputLength(s) \in Nat
      /\ OutputLength(s) = Len(s) + From(s, 1, OneChar) + 5 * From(s, 1, Control)
      /\ Plain(s) => OutputLength(s) = Len(s)
  BY <1>2, OutputLengthType
<1>4. AfterString \in {"colon", "after"}
  BY DEF AfterString
<1>5. Buffer /\ Copying
  BY DEF PrintInv
<1>6. {NUL, Quote} \subseteq Symbols
  BY SymbolsOf DEF Literals, Quote, Backslash, NUL
<1>. HIDE DEF s
<1>7. CASE PrintPlain
  <2>. DEFINE w == <<Quote>> \o s \o <<Quote, NUL>>
  <2>1. w \in Seq(Symbols) /\ Len(w) = Len(s) + 3 /\ w[Len(w)] = NUL
    BY <1>2, <1>6
  <2>2. Asked \in Nat /\ Len(w) <= Asked
    <3>1. Asked = OutputLength(s) + 3 /\ Plain(s)
      BY <1>7 DEF Asked, PrintPlain, s, IsText, IsLiteral, OfType
    <3> QED
      BY <1>2, <1>3, <2>1, <3>1
  <2>3. Emit(w) /\ mode' \in {"colon", "after"}
    BY <1>4, <1>7 DEF PrintPlain, s
  <2>. HIDE DEF w
  <2>4. Buffer'
    BY <1>2, <1>5, <2>1, <2>2, <2>3, EmitRoom DEF Running
  <2> QED
    BY <2>3, <2>4 DEF Copying
<1>8. CASE PrintQuote
  <2>1. <<Quote>> \in Seq(Symbols) /\ Len(<<Quote>>) = 1
    BY <1>6
  <2>2. Asked = OutputLength(s) + 3
    BY <1>8 DEF Asked, PrintQuote, s, IsText, IsLiteral, OfType
  <2>3. /\ text' \in Seq(Symbols) /\ Len(text') = offset + 1
        /\ length' \in Nat /\ length' <= IntMax /\ offset + Asked + 1 <= length'
    <3>. DEFINE w == <<Quote>>
    <3>1. Writes(w) /\ w \in Seq(Symbols) /\ Len(w) = 1
      BY <1>8, <2>1 DEF PrintQuote
    <3>. HIDE DEF w
    <3>2. Asked \in Nat /\ Len(w) <= Asked
      BY <1>3, <2>2, <3>1
    <3> QED
      BY <1>5, <3>1, <3>2, WriteRoom
  <2>4. Buffer'
    BY <1>3, <1>5, <1>8, <2>2, <2>3 DEF Buffer, PrintQuote
  <2>5. ThisString' = s
    BY <1>8 DEF PrintQuote, s, ThisString, IsKey, Current, IsText, OfType, heap
  <2>6. From(s, 1, OneChar) \in Nat /\ From(s, 1, Control) \in Nat
    BY <1>2, FromType
  <2>7. offset \in Nat /\ offset' = offset /\ copied' = 0
    BY <1>5, <1>8 DEF Buffer, PrintQuote
  <2>8. Copying'
    <3>1. /\ copied' + 1 = 1 /\ Len(s) - copied' = Len(s)
          /\ offset' + OutputLength(s) + 4 <= length'
      BY <1>2, <1>3, <2>2, <2>3, <2>7
    <3>2. Len(text') + (Len(s) - copied') + From(s, copied' + 1, OneChar)
            + 5 * From(s, copied' + 1, Control) = offset' + 1 + OutputLength(s)
      <4>. DEFINE one == From(s, 1, OneChar)
                  control == From(s, 1, Control)
      <4>1. From(s, copied' + 1, OneChar) = one /\ From(s, copied' + 1, Control) = control
        BY <3>1, Zenon
      <4>2. OutputLength(s) = Len(s) + one + 5 * control /\ one \in Nat /\ control \in Nat
        BY <1>3, <2>6
      <4>. HIDE DEF one, control
      <4> QED
        BY <1>2, <2>3, <2>7, <3>1, <4>1, <4>2
    <3>3. copied' \in Nat /\ copied' <= Len(s)
      BY <1>2, <2>7
    <3> QED
      BY <2>5, <3>1, <3>2, <3>3 DEF Copying
  <2> QED
    BY <2>4, <2>8
<1>9. CASE PrintCopy
  <2>. DEFINE c == s[copied + 1]
              one == From(s, copied + 1, OneChar)
              control == From(s, copied + 1, Control)
              one2 == From(s, copied + 2, OneChar)
              control2 == From(s, copied + 2, Control)
  <2>1. /\ copied \in Nat /\ copied < Len(s) /\ copied' = copied + 1
        /\ text' = text \o EscapeOf(c) /\ mode' = mode /\ offset' = offset
        /\ length' = length
    BY <1>5, <1>9 DEF PrintCopy, Copying, s
  <2>2. c \in Symbols
    BY <1>2, <2>1
  <2>3. /\ EscapeOf(c) \in Seq(Symbols)
        /\ Len(EscapeOf(c)) = 1 + (IF c \in OneChar THEN 1 ELSE 0)
                               + 5 * (IF c \in Control THEN 1 ELSE 0)
    BY <2>2, EscapeLength
  <2>4. /\ one2 \in Nat /\ one = one2 + (IF c \in OneChar THEN 1 ELSE 0)
        /\ control2 \in Nat /\ control = control2 + (IF c \in Control THEN 1 ELSE 0)
    <3>1. /\ copied + 1 \in Nat \ {0} /\ copied + 1 <= Len(s)
          /\ (copied + 1) + 1 = copied + 2
      BY <1>2, <2>1
    <3>. DEFINE i == copied + 1
    <3>2. i \in Nat \ {0} /\ i <= Len(s) /\ s \in Seq(Symbols)
      BY <1>2, <3>1
    <3>. HIDE DEF i
    <3>3. \A S : /\ From(s, i + 1, S) \in Nat
                 /\ From(s, i, S) = From(s, i + 1, S) + (IF s[i] \in S THEN 1 ELSE 0)
      BY <3>2, FromStep
    <3>. HIDE DEF s
    <3>4. i + 1 = copied + 2 /\ c = s[i]
      BY <3>1 DEF i
    <3>5. /\ From(s, copied + 2, OneChar) \in Nat
          /\ From(s, i, OneChar)
               = From(s, copied + 2, OneChar) + (IF c \in OneChar THEN 1 ELSE 0)
          /\ From(s, copied + 2, Control) \in Nat
          /\ From(s, i, Control)
               = From(s, copied + 2, Control) + (IF c \in Control THEN 1 ELSE 0)
      BY <3>3, <3>4
    <3> QED
      BY <3>5 DEF i
  <2>5. /\ text \in Seq(Symbols) /\ Len(text) \in Nat /\ offset \in Nat /\ length \in Nat
        /\ Len(text) + (Len(s) - copied) + one + 5 * control = offset + 1 + OutputLength(s)
        /\ offset + OutputLength(s) + 4 <= length
    BY <1>5, <1>9 DEF Copying, Buffer, PrintCopy, s
  <2>6. text' \in Seq(Symbols) /\ Len(text') = Len(text) + Len(EscapeOf(c))
    BY <2>1, <2>3, <2>5
  <2>. DEFINE a == IF c \in OneChar THEN 1 ELSE 0
              b == IF c \in Control THEN 1 ELSE 0
  <2>12. /\ a \in 0 .. 1 /\ b \in 0 .. 1 /\ one = one2 + a /\ control = control2 + b
         /\ Len(EscapeOf(c)) = 1 + a + 5 * b
    BY <2>3, <2>4
  <2>13. one2 \in Nat /\ control2 \in Nat
    BY <2>4
  <2>. HIDE DEF c, one, control, one2, control2, a, b
  <2>7. /\ Len(text') + (Len(s) - (copied + 1)) + one2 + 5 * control2
             = offset + 1 + OutputLength(s)
        /\ Len(text') \in Nat /\ Len(text') >= Len(text)
    <3>. DEFINE l == Len(s)
                o == OutputLength(s)
                t == Len(text)
                e == Len(EscapeOf(c))
                r == Len(text')
    <3>1. /\ l \in Nat /\ o \in Nat /\ t \in Nat /\ r = t + e /\ copied \in Nat /\ offset \in Nat
          /\ t + (l - copied) + one + 5 * control = offset + 1 + o
      BY <1>2, <1>3, <2>1, <2>5, <2>6
    <3>2. e = 1 + a + 5 * b /\ a \in 0 .. 1 /\ b \in 0 .. 1
      BY <2>12
    <3>. HIDE DEF l, o, t, e, r
    <3>3. /\ r + (l - (copied + 1)) + one2 + 5 * control2 = offset + 1 + o
          /\ r \in Nat /\ r >= t
      BY <2>12, <2>13, <3>1, <3>2
    <3> QED
      BY <3>3 DEF l, o, t, r
  <2>8. Len(text') <= length
    BY <1>2, <1>3, <2>1, <2>5, <2>7, <2>13
  <2>9. ThisString' = s
    BY <1>9 DEF PrintCopy, s, ThisString, IsKey, Current, heap
  <2>10. Buffer'
    BY <1>5, <1>9, <2>1, <2>5, <2>6, <2>7, <2>8 DEF Buffer, PrintCopy
  <2>11. Copying'
    BY <1>2, <2>1, <2>5, <2>7, <2>9 DEF Copying, one2, control2
  <2> QED
    BY <2>10, <2>11
<1>10. CASE PrintUnquote
  <2>. DEFINE end == offset + OutputLength(s) + 1
  <2>1. /\ mode \in {"copykey", "copyvalue"} /\ copied = Len(s)
        /\ text' = SubSeq(text, 1, end) \o <<Quote, NUL>> /\ offset' = end + 1
        /\ length' = length /\ mode' \in {"colon", "after"}
    BY <1>4, <1>10 DEF PrintUnquote, s
  <2>2. From(s, copied + 1, OneChar) = 0 /\ From(s, copied + 1, Control) = 0
    BY <1>2, <2>1, FromType
  <2>3. /\ text \in Seq(Symbols) /\ offset \in Nat /\ length \in Nat /\ length <= IntMax
        /\ Len(text) + (Len(s) - copied) + From(s, copied + 1, OneChar)
             + 5 * From(s, copied + 1, Control) = offset + 1 + OutputLength(s)
        /\ offset + OutputLength(s) + 4 <= length
    BY <1>5, <2>1 DEF Copying, Buffer, s
  <2>4. /\ end \in Nat /\ Len(text) = end /\ end + 3 <= length
    <3>. DEFINE one == From(s, copied + 1, OneChar)
                control == From(s, copied + 1, Control)
    <3>1. /\ one = 0 /\ control = 0 /\ Len(text) \in Nat
          /\ Len(text) + (Len(s) - copied) + one + 5 * control = offset + 1 + OutputLength(s)
      BY <2>2, <2>3
    <3>. HIDE DEF one, control
    <3>. DEFINE o == OutputLength(s)
                t == Len(text)
    <3>2. /\ o \in Nat /\ t \in Nat /\ offset \in Nat /\ length \in Nat /\ offset + o + 4 <= length
      BY <1>3, <2>3, <3>1
    <3>3. t + 0 + one + 5 * control = offset + 1 + o
      <4>1. Len(s) - copied = 0
        BY <1>2, <2>1
      <4> QED
        BY <3>1, <4>1
    <3>. HIDE DEF o, t
    <3>4. offset + o + 1 \in Nat /\ t = offset + o + 1 /\ (offset + o + 1) + 3 <= length
      BY <3>1, <3>2, <3>3
    <3> QED
      BY <3>4 DEF o, t
  <2>5. text' \in Seq(Symbols) /\ Len(text') = end + 2
    BY <1>6, <2>1, <2>3, <2>4
  <2>. HIDE DEF end
  <2>6. Buffer'
    BY <2>1, <2>3, <2>4, <2>5 DEF Buffer
  <2> QED
    BY <2>1, <2>6 DEF Copying
<1> QED
  BY <1>7, <1>8, <1>9, <1>10

LEMMA ShortTexts ==
  ASSUME NEW x \in Symbols, NEW y \in Symbols
  PROVE  /\ <<x>> \in Seq(Symbols) /\ Len(<<x>>) = 1 /\ <<x>>[Len(<<x>>)] = x
         /\ <<x, y>> \in Seq(Symbols) /\ Len(<<x, y>>) = 2
         /\ <<x, y>>[Len(<<x, y>>)] = y
OBVIOUS

LEMMA OtherSteps ==
  ASSUME PrintInv, PrintLiteral \/ PrintOpen \/ PrintColon \/ PrintComma \/ PrintClose
  PROVE  Buffer' /\ Copying'
<1>1. Buffer /\ Items /\ Stack
  BY DEF PrintInv
<1>2. {"{", ":", ",", "}", NUL} \subseteq Symbols
  BY SymbolsOf DEF Literals, Quote, Backslash, NUL
<1>3. CASE PrintLiteral
  <2>. DEFINE w == Literal \o <<NUL>>
  <2>1. Literal \in Seq(Symbols)
    BY <1>1, <1>3, LiteralType DEF PrintLiteral
  <2>2. w \in Seq(Symbols) /\ Len(w) = Len(Literal) + 1 /\ w[Len(w)] = NUL
    <3>1. NUL \in Symbols
      BY <1>2
    <3> QED
      BY <2>1, <3>1
  <2>3. Asked = Len(Literal) + 1
    BY <1>3 DEF Asked, PrintLiteral, IsText, IsLiteral, OfType
  <2>4. Emit(w) /\ mode' = "after"
    BY <1>3 DEF PrintLiteral
  <2>5. Len(w) \in Nat /\ Len(w) > 0 /\ Asked \in Nat /\ Len(w) <= Asked
    BY <2>1, <2>2, <2>3
  <2>. HIDE DEF w
  <2> QED
    BY <1>1, <2>2, <2>4, <2>5, EmitRoom DEF Copying, Running
<1>4. CASE PrintOpen
  <2>. DEFINE w == <<"{">>
  <2>1. w \in Seq(Symbols) /\ Len(w) = 1
    BY <1>2, ShortTexts, Zenon
  <2>2. Asked = 2
    BY <1>4 DEF Asked, PrintOpen, IsObject, IsText, IsLiteral, OfType
  <2>3. Emit(w) /\ mode' \in {"close", "key"}
    BY <1>4 DEF PrintOpen
  <2>. HIDE DEF w
  <2>4. Asked \in Nat /\ Len(w) <= Asked
    BY <2>1, <2>2
  <2>5. mode' \in Running /\ mode' \notin {"copykey", "copyvalue"}
    BY <2>3 DEF Running
  <2>6. mode' = "after" => Len(w) > 0 /\ w[Len(w)] = NUL
    BY <2>1, <2>3
  <2>7. Buffer'
    BY <1>1, <2>1, <2>3, <2>4, <2>5, <2>6, EmitRoom
  <2> QED
    BY <2>5, <2>7 DEF Copying
<1>5. CASE PrintColon
  <2>. DEFINE w == <<":">>
  <2>1. w \in Seq(Symbols) /\ Len(w) = 1
    BY <1>2, ShortTexts, Zenon
  <2>2. Asked = 1
    BY <1>5 DEF Asked, PrintColon, IsText, IsLiteral, OfType
  <2>3. Emit(w) /\ mode' = "value"
    BY <1>5 DEF PrintColon
  <2>. HIDE DEF w
  <2>4. Asked \in Nat /\ Len(w) <= Asked
    BY <2>1, <2>2
  <2>5. mode' \in Running /\ mode' \notin {"copykey", "copyvalue"}
    BY <2>3 DEF Running
  <2>6. mode' = "after" => Len(w) > 0 /\ w[Len(w)] = NUL
    BY <2>1, <2>3
  <2>7. Buffer'
    BY <1>1, <2>1, <2>3, <2>4, <2>5, <2>6, EmitRoom
  <2> QED
    BY <2>5, <2>7 DEF Copying
<1>6. CASE PrintComma
  <2>1. Separator \in Seq(Symbols) /\ Len(Separator) \in Nat
    <3>1. <<NUL>> \in Seq(Symbols) /\ Len(<<NUL>>) = 1
      BY <1>2, ShortTexts, Zenon
    <3>2. <<",", NUL>> \in Seq(Symbols) /\ Len(<<",", NUL>>) = 2
      BY <1>2, ShortTexts, Zenon
    <3>3. Separator = <<NUL>> \/ Separator = <<",", NUL>>
      BY Zenon DEF Separator
    <3>4. Separator \in Seq(Symbols)
      BY <3>1, <3>2, <3>3, Zenon
    <3> QED
      BY <3>4
  <2>2. Asked = Len(Separator)
    BY <1>6 DEF Asked, PrintComma, IsText, IsLiteral, OfType
  <2>3. Emit(Separator) /\ mode' \in {"close", "key"}
    BY <1>6 DEF PrintComma
  <2> QED
    BY <1>1, <2>1, <2>2, <2>3, EmitRoom DEF Copying, Running
<1>7. CASE PrintClose
  <2>. DEFINE w == <<"}", NUL>>
  <2>1. w \in Seq(Symbols) /\ Len(w) = 2 /\ w[Len(w)] = NUL
    BY <1>2, ShortTexts, Zenon
  <2>2. Asked = 2
    BY <1>7 DEF Asked, PrintClose, IsText, IsLiteral, OfType
  <2>3. Emit(w) /\ mode' = "after"
    BY <1>7 DEF PrintClose
  <2>. HIDE DEF w
  <2>4. Asked \in Nat /\ Len(w) <= Asked
    BY <2>1, <2>2
  <2>5. mode' \in Running /\ mode' \notin {"copykey", "copyvalue"}
    BY <2>3 DEF Running
  <2>6. mode' = "after" => Len(w) > 0 /\ w[Len(w)] = NUL
    BY <2>1, <2>3
  <2>7. Buffer'
    BY <1>1, <2>1, <2>3, <2>4, <2>5, <2>6, EmitRoom
  <2> QED
    BY <2>5, <2>7 DEF Copying
<1> QED
  BY <1>3, <1>4, <1>5, <1>6, <1>7

\* The stack follows the members, and its entries stay in the items.
LEMMA StackStep ==
  ASSUME PrintInv, PrintStart \/ PrintStep
  PROVE  Stack'
<1>1. Items /\ Stack /\ D' = D /\ item' = item /\ root' = root
  BY ItemsStep DEF PrintInv
<1>2. \A n \in D : item[n].child \in D \cup {Null} /\ item[n].next \in D \cup {Null}
  BY <1>1 DEF Items, ItemsOf
<1>3. Null \notin D
  BY <1>1 DEF Items
<1>4. CASE PrintPlain \/ PrintQuote \/ PrintCopy \/ PrintUnquote
  <2>1. /\ stack' = stack /\ mode \in Running \ {"close"}
        /\ mode' \in {"colon", "after", "copykey", "copyvalue"}
        /\ mode' \in {"colon", "copykey"} => mode \in {"key", "copykey"}
        /\ mode' = "copyvalue" => Current # Null
    BY <1>1, <1>4 DEF PrintPlain, PrintQuote, PrintCopy, PrintUnquote, AfterString, IsKey,
       IsText, OfType, Stack, Running
  <2> QED
    BY <1>1, <2>1 DEF Stack, Current, Running
<1>5. CASE PrintLiteral \/ PrintColon
  <2>1. /\ stack' = stack /\ mode \in Running \ {"close"} /\ mode' \in {"after", "value"}
    BY <1>5 DEF PrintLiteral, PrintColon, IsLiteral, OfType, Running
  <2> QED
    BY <1>1, <2>1 DEF Stack, Running
<1>6. CASE PrintOpen
  <2>1. /\ Current \in D /\ stack' = <<item[Current].child>> \o stack
        /\ mode' = IF item[Current].child = Null THEN "close" ELSE "key"
        /\ stack # <<>> => stack[1] \in D
    <3>1. mode = "value" /\ Current # Null
      BY <1>6 DEF PrintOpen, IsObject, OfType
    <3>2. stack # <<>> => stack[1] \in D
      BY <1>1, <3>1 DEF Stack, Running
    <3>3. Current \in D
      BY <1>1, <3>1, <3>2 DEF Items, Stack, Current
    <3> QED
      BY <1>6, <3>2, <3>3 DEF PrintOpen
  <2>2. stack \in Seq(D \cup {Null}) /\ \A i \in 1 .. Len(stack) : stack[i] \in D
    BY <1>1, <2>1 DEF Stack
  <2>. DEFINE c == item[Current].child
  <2>3. c \in D \cup {Null}
    BY <1>2, <2>1
  <2>. HIDE DEF c
  <2>4. /\ stack' \in Seq(D \cup {Null}) /\ stack' # <<>> /\ stack'[1] = c
        /\ Len(stack') = Len(stack) + 1
        /\ \A i \in 2 .. Len(stack') : stack'[i] = stack[i - 1]
    BY <2>1, <2>2, <2>3 DEF c
  <2>5. \A i \in 2 .. Len(stack') : stack'[i] \in D
    BY <2>2, <2>4
  <2> QED
    BY <1>1, <2>1, <2>3, <2>4, <2>5 DEF Stack, Running, c
<1>7. CASE PrintComma
  <2>. DEFINE n == item[Head(stack)].next
  <2>1. /\ stack # <<>> /\ stack \in Seq(D \cup {Null}) /\ stack[1] \in D
        /\ stack' = <<n>> \o Tail(stack)
        /\ mode' = IF n = Null THEN "close" ELSE "key"
    BY <1>1, <1>7 DEF PrintComma, Stack, Running
  <2>2. n \in D \cup {Null}
    BY <1>2, <2>1
  <2>. HIDE DEF n
  <2>3. /\ stack' \in Seq(D \cup {Null}) /\ stack' # <<>> /\ stack'[1] = n
        /\ Len(stack') = Len(stack)
        /\ \A i \in 2 .. Len(stack') : stack'[i] = stack[i]
    BY <2>1, <2>2
  <2>4. \A i \in 2 .. Len(stack') : stack'[i] \in D
    BY <1>1, <2>3 DEF Stack
  <2> QED
    BY <1>1, <2>1, <2>2, <2>3, <2>4 DEF Stack, Running
<1>8. CASE PrintClose
  <2>1. stack # <<>> /\ stack \in Seq(D \cup {Null}) /\ stack' = Tail(stack) /\ mode' = "after"
    BY <1>1, <1>8 DEF PrintClose, Stack
  <2>2. /\ stack' \in Seq(D \cup {Null}) /\ Len(stack') = Len(stack) - 1
        /\ \A i \in 1 .. Len(stack') : stack'[i] = stack[i + 1]
    BY <2>1
  <2>3. \A i \in 1 .. Len(stack') : stack'[i] \in D
    BY <1>1, <2>1, <2>2 DEF Stack
  <2>4. stack' # <<>> => 1 \in 1 .. Len(stack')
    BY <2>2
  <2> QED
    BY <1>1, <2>1, <2>2, <2>3, <2>4 DEF Stack, Running
<1>9. CASE PrintStart \/ PrintEnd
  <2>1. stack' = stack /\ stack = <<>> /\ mode' \in {"value", "failed", "printed"}
    BY <1>1, <1>9 DEF PrintStart, PrintEnd, Stack, Running
  <2> QED
    BY <1>1, <2>1 DEF Stack, Running
<1>10. CASE PrintUnprintable \/ PrintNoRoom \/ PrintEndFails
  BY <1>10, FailsStep DEF PrintUnprintable, PrintNoRoom, EnsureFails, PrintEndFails, PrintInv
<1> QED
  BY <1>4, <1>5, <1>6, <1>7, <1>8, <1>9, <1>10 DEF PrintStep

LEMMA PrintInvInit == PrintInit => PrintInv
<1>. SUFFICES ASSUME PrintInit PROVE PrintInv
  OBVIOUS
<1>1. Items
  BY DEF PrintInit, Items, D
<1>2. Stack
  BY DEF PrintInit, NoPrint, Stack, Running
<1>3. Buffer /\ Copying /\ mode \in {"off"}
  BY PrintAssumption DEF PrintInit, NoPrint, Buffer, Copying
<1> QED
  BY <1>1, <1>2, <1>3 DEF PrintInv

LEMMA PrintInvStep == PrintInv /\ [PrintStart \/ PrintStep]_printVars => PrintInv'
<1>. SUFFICES ASSUME PrintInv, [PrintStart \/ PrintStep]_printVars PROVE PrintInv'
  OBVIOUS
<1>1. CASE UNCHANGED printVars
  <2>1. UNCHANGED <<item, root, mode, text, offset, length, copied, stack>>
    BY <1>1 DEF printVars, heap, printer
  <2>2. Items' /\ Stack'
    BY <2>1 DEF PrintInv, Items, Stack, D, Current
  <2>3. Buffer' /\ Copying'
    BY <2>1 DEF PrintInv, Buffer, Copying, ThisString, IsKey, Current
  <2> QED
    BY <2>1, <2>2, <2>3 DEF PrintInv
<1>2. CASE PrintStart \/ PrintStep
  <2>1. Items' /\ Stack'
    BY <1>2, ItemsStep, StackStep DEF PrintInv
  <2>2. CASE PrintPlain \/ PrintQuote \/ PrintCopy \/ PrintUnquote
    <3>1. mode' \in Running
      BY <2>2 DEF PrintPlain, PrintQuote, PrintCopy, PrintUnquote, AfterString, Running
    <3> QED
      BY <2>1, <2>2, <3>1, StringSteps DEF PrintInv
  <2>3. CASE PrintLiteral \/ PrintOpen \/ PrintColon \/ PrintComma \/ PrintClose
    <3>1. mode' \in Running
      BY <2>3 DEF PrintLiteral, PrintOpen, PrintColon, PrintComma, PrintClose, Running
    <3> QED
      BY <2>1, <2>3, <3>1, OtherSteps DEF PrintInv
  <2>4. CASE PrintUnprintable \/ PrintNoRoom \/ PrintEndFails
    BY <2>4, FailsStep DEF PrintUnprintable, PrintNoRoom, EnsureFails, PrintEndFails
  <2>5. CASE PrintStart
    <3>1. /\ mode = "off" /\ text' = text /\ offset' = offset
          /\ \/ mode' = "value" /\ length' = PrintSize
             \/ mode' = "failed" /\ length' = length
      BY <2>5 DEF PrintStart
    <3>2. Buffer /\ (mode = "off" => Len(text) = 0 /\ offset = 0)
      BY DEF PrintInv, Buffer
    <3>3. Buffer' /\ Copying' /\ mode' \in Running \cup {"failed"}
      BY <3>1, <3>2, PrintAssumption DEF Buffer, Copying, Running
    <3> QED
      BY <2>1, <3>3 DEF PrintInv
  <2>6. CASE PrintEnd
    <3>1. /\ mode = "after" /\ mode' = "printed" /\ length' = offset + 1
          /\ text' = SubSeq(text, 1, offset + 1) /\ offset' = offset
      BY <2>6 DEF PrintEnd
    <3>2. Buffer /\ offset < Len(text) /\ text \in Seq(Symbols) /\ offset \in Nat
      BY <3>1 DEF PrintInv, Buffer
    <3>3. text' \in Seq(Symbols) /\ Len(text') = offset + 1
      BY <3>1, <3>2
    <3>4. Buffer' /\ Copying'
      BY <3>1, <3>2, <3>3, PrintAssumption DEF Buffer, Copying
    <3> QED
      BY <2>1, <3>1, <3>4 DEF PrintInv
  <2> QED
    BY <1>2, <2>2, <2>3, <2>4, <2>5, <2>6 DEF PrintStep
<1> QED
  BY <1>1, <1>2

\* Whatever items are printed, and wherever memory runs out, every write is
\* inside the buffer that ensure has grown, and the offset stays in it
\* (ensure, print_string_ptr, print_number, print_object, print).
THEOREM PrinterSafe == PrintSpec => []PrintInBounds
<1>1. PrintInv => PrintInBounds
  BY DEF PrintInv, Buffer, PrintInBounds
<1> QED
  BY PrintInvInit, PrintInvStep, <1>1, PTL DEF PrintSpec

-----------------------------------------------------------------------------
(* Texts one after the other *)

\* What holds at the end, and at every place if it does at the next, holds everywhere.
LEMMA Downward ==
  ASSUME NEW n \in Nat, NEW T, n + 1 \in T, \A i \in 1 .. n : i + 1 \in T => i \in T
  PROVE  \A i \in 1 .. n + 1 : i \in T
<1> DEFINE U == {j \in Nat : j <= n /\ n + 1 - j \notin T}
<1>1. ASSUME U # {} PROVE FALSE
  <2>1. U \in SUBSET Nat
    OBVIOUS
  <2>2. PICK j \in U : \A k \in U : j <= k
    BY <1>1, <2>1, Least
  <2>3. j \in Nat /\ j <= n /\ n + 1 - j \notin T
    BY <2>2
  <2>4. j # 0
    BY <2>3
  <2>5. j - 1 \in Nat /\ j - 1 \notin U
    BY <2>2, <2>3, <2>4
  <2>6. n + 1 - (j - 1) \in T
    BY <2>3, <2>5
  <2>7. n + 1 - j \in 1 .. n /\ (n + 1 - j) + 1 = n + 1 - (j - 1)
    BY <2>3, <2>4
  <2> HIDE DEF U
  <2>8. (n + 1 - j) + 1 \in T
    BY <2>6, <2>7
  <2> QED
    BY <2>3, <2>7, <2>8
<1>2. ASSUME NEW i \in 1 .. n + 1, i \notin T PROVE FALSE
  <2>1. n + 1 - i \in Nat /\ n + 1 - i <= n /\ n + 1 - (n + 1 - i) = i
    OBVIOUS
  <2>2. n + 1 - i \in U
    BY <1>2, <2>1
  <2> HIDE DEF U
  <2> QED
    BY <1>1, <2>2
<1> QED
  BY <1>2

LEMMA TextFromStep ==
  ASSUME NEW texts, Len(texts) \in Nat
  PROVE  /\ TextFrom(texts)[Len(texts) + 1] = <<>>
         /\ \A i \in 1 .. Len(texts) : TextFrom(texts)[i] = texts[i] \o TextFrom(texts)[i + 1]
<1> DEFINE n == Len(texts)
           W(f, i) == IF i > n THEN <<>> ELSE texts[i] \o f[i + 1]
           Is(f, k) == f = [i \in k .. n + 1 |-> W(f, i)]
           T == {k \in 1 .. n + 1 : \E f : Is(f, k)}
           from == CHOOSE f : f = [i \in 1 .. n + 1 |-> W(f, i)]
<1>1. n \in Nat
  OBVIOUS
<1>2. n + 1 \in T
  <2> DEFINE f == [i \in n + 1 .. n + 1 |-> <<>>]
  <2>1. \A i \in n + 1 .. n + 1 : W(f, i) = <<>>
    BY <1>1
  <2>2. Is(f, n + 1)
    BY <2>1
  <2>3. n + 1 \in 1 .. n + 1
    BY <1>1
  <2> HIDE DEF Is, f
  <2> QED
    BY <2>2, <2>3
<1>3. ASSUME NEW k \in 1 .. n, k + 1 \in T PROVE k \in T
  <2>1. PICK f : Is(f, k + 1)
    BY <1>3
  <2> DEFINE g == [i \in k .. n + 1 |-> IF i = k THEN W(f, k) ELSE f[i]]
  <2>2. \A i \in k + 1 .. n + 1 : g[i] = f[i] /\ f[i] = W(f, i)
    BY <1>1, <2>1
  <2>3. ASSUME NEW i \in k .. n + 1 PROVE g[i] = W(g, i)
    <3>1. W(g, i) = W(f, i)
      <4>1. CASE i > n
        BY <4>1
      <4>2. CASE ~(i > n)
        <5>1. i + 1 \in k + 1 .. n + 1
          BY <1>1, <4>2
        <5>2. g[i + 1] = f[i + 1]
          BY <2>2, <5>1
        <5> HIDE DEF g
        <5> QED
          BY <5>2
      <4> QED
        BY <4>1, <4>2
    <3>2. g[i] = W(f, i)
      <4>1. CASE i = k
        BY <1>1, <4>1
      <4>2. CASE i # k
        <5>1. i \in k + 1 .. n + 1
          BY <1>1, <4>2
        <5> HIDE DEF g, W
        <5> QED
          BY <2>2, <5>1
      <4> QED
        BY <4>1, <4>2
    <3> HIDE DEF g, W
    <3> QED
      BY <3>1, <3>2
  <2>4. Is(g, k)
    <3>1. g = [i \in k .. n + 1 |-> g[i]]
      OBVIOUS
    <3> HIDE DEF g, W
    <3> QED
      BY <2>3, <3>1
  <2>5. k \in 1 .. n + 1
    BY <1>1
  <2> HIDE DEF Is, g
  <2> QED
    BY <2>4, <2>5
<1>4. 1 \in T
  <2> HIDE DEF T
  <2>1. \A i \in 1 .. n + 1 : i \in T
    BY <1>1, <1>2, <1>3, Downward
  <2> QED
    BY <1>1, <2>1
<1>5. from = [i \in 1 .. n + 1 |-> W(from, i)]
  <2>1. PICK f : Is(f, 1)
    BY <1>4
  <2> HIDE DEF W
  <2> QED
    BY <2>1
<1>6. TextFrom(texts) = from
  BY DEF TextFrom
<1> HIDE DEF from
<1>7. \A i \in 1 .. n + 1 : from[i] = W(from, i)
  <2> HIDE DEF W
  <2> QED
    BY <1>5
<1>8. from[n + 1] = <<>>
  BY <1>1, <1>7
<1>9. ASSUME NEW i \in 1 .. n PROVE from[i] = texts[i] \o from[i + 1]
  <2>1. i \in 1 .. n + 1 /\ ~(i > n)
    BY <1>1
  <2>2. W(from, i) = texts[i] \o from[i + 1]
    BY <2>1, Zenon
  <2> HIDE DEF W
  <2> QED
    BY <1>7, <2>1, <2>2
<1> QED
  BY <1>6, <1>8, <1>9

\* They are texts; where there is nothing for a while, what comes next is next.
LEMMA TextFromType ==
  ASSUME NEW S, NEW texts, Len(texts) \in Nat,
         \A i \in 1 .. Len(texts) : texts[i] \in Seq(S)
  PROVE  \A i \in 1 .. Len(texts) + 1 : TextFrom(texts)[i] \in Seq(S)
<1> DEFINE n == Len(texts)
           f == TextFrom(texts)
           T == {i \in Nat : f[i] \in Seq(S)}
<1>1. f[n + 1] = <<>> /\ \A i \in 1 .. n : f[i] = texts[i] \o f[i + 1]
  BY TextFromStep
<1> HIDE DEF f
<1>2. n + 1 \in T
  <2>1. n + 1 \in Nat /\ <<>> \in Seq(S)
    OBVIOUS
  <2> QED
    BY <1>1, <2>1
<1>3. ASSUME NEW i \in 1 .. n, i + 1 \in T PROVE i \in T
  <2>1. texts[i] \in Seq(S) /\ f[i + 1] \in Seq(S) /\ f[i] = texts[i] \o f[i + 1]
    BY <1>1, <1>3
  <2>2. f[i] \in Seq(S)
    BY <2>1, ConcatProperties
  <2> QED
    BY <2>2
<1> HIDE DEF T
<1>4. \A i \in 1 .. n + 1 : i \in T
  BY <1>2, <1>3, Downward
<1> QED
  BY <1>4 DEF T, f

LEMMA TextSkips ==
  ASSUME NEW S, NEW texts, Len(texts) \in Nat,
         \A i \in 1 .. Len(texts) : texts[i] \in Seq(S),
         NEW j \in 1 .. Len(texts) + 1, NEW i \in 1 .. j,
         \A k \in i .. j - 1 : texts[k] = <<>>
  PROVE  TextFrom(texts)[i] = TextFrom(texts)[j]
<1> DEFINE f == TextFrom(texts)
           T == {k \in Nat : k >= i => f[k] = f[j]}
           n == j - 1
<1>1. \A k \in 1 .. Len(texts) : f[k] = texts[k] \o f[k + 1]
  BY TextFromStep
<1>2. \A k \in 1 .. Len(texts) + 1 : f[k] \in Seq(S)
  BY TextFromType
<1> HIDE DEF f
<1>3. n \in Nat /\ n + 1 \in T
  OBVIOUS
<1>4. ASSUME NEW k \in 1 .. n, k + 1 \in T PROVE k \in T
  <2>1. CASE k >= i
    <3>1. k \in 1 .. Len(texts) /\ k + 1 \in 1 .. Len(texts) + 1 /\ k \in i .. j - 1
      BY <2>1
    <3>2. f[k] = texts[k] \o f[k + 1] /\ texts[k] = <<>> /\ f[k + 1] \in Seq(S)
      BY <1>1, <1>2, <3>1
    <3>3. f[k] = f[k + 1]
      BY <3>2, ConcatEmptySeq
    <3>4. f[k + 1] = f[j]
      BY <1>4, <2>1
    <3> QED
      BY <3>3, <3>4
  <2>2. CASE ~(k >= i)
    BY <2>2
  <2> QED
    BY <2>1, <2>2
<1>5. i \in 1 .. n + 1
  OBVIOUS
<1> HIDE DEF T, n
<1>6. i \in T
  BY <1>3, <1>4, <1>5, Downward
<1> QED
  BY <1>6 DEF T, f

\* The escapes of a text, one by one.
LEMMA EscapesType ==
  ASSUME NEW s \in Seq(Symbols)
  PROVE  /\ Len(Escapes(s)) = Len(s) /\ Len(s) \in Nat
         /\ \A i \in 1 .. Len(s) : Escapes(s)[i] = EscapeOf(s[i])
         /\ \A i \in 1 .. Len(s) : Escapes(s)[i] \in Seq(Symbols)
<1>1. Len(Escapes(s)) = Len(s) /\ Len(s) \in Nat
  BY DEF Escapes
<1>2. \A i \in 1 .. Len(s) : Escapes(s)[i] = EscapeOf(s[i])
  BY DEF Escapes
<1>3. ASSUME NEW i \in 1 .. Len(s) PROVE EscapeOf(s[i]) \in Seq(Symbols)
  <2>1. s[i] \in Symbols
    BY ElementOfSeq
  <2> QED
    BY <2>1, EscapeLength
<1> QED
  BY <1>1, <1>2, <1>3

LEMMA EscapedText ==
  ASSUME NEW s \in Seq(Symbols)
  PROVE  /\ \A i \in 1 .. Len(s) + 1 : TextFrom(Escapes(s))[i] \in Seq(Symbols)
         /\ TextFrom(Escapes(s))[Len(s) + 1] = <<>>
         /\ \A i \in 1 .. Len(s) :
              TextFrom(Escapes(s))[i] = EscapeOf(s[i]) \o TextFrom(Escapes(s))[i + 1]
         /\ InQuotes(s) \in Seq(Symbols)
         /\ <<Quote>> \in Seq(Symbols)
<1> DEFINE e == Escapes(s)
           f == TextFrom(e)
<1>1. /\ Len(e) = Len(s) /\ Len(s) \in Nat /\ \A i \in 1 .. Len(s) : e[i] = EscapeOf(s[i])
      /\ \A i \in 1 .. Len(e) : e[i] \in Seq(Symbols)
  BY EscapesType
<1> HIDE DEF e
<1>2. f[Len(e) + 1] = <<>> /\ \A i \in 1 .. Len(e) : f[i] = e[i] \o f[i + 1]
  BY <1>1, TextFromStep
<1>3. \A i \in 1 .. Len(e) + 1 : f[i] \in Seq(Symbols)
  BY <1>1, TextFromType
<1>4. InQuotes(s) = <<Quote>> \o f[1] \o <<Quote>>
  BY DEF InQuotes, e
<1>5. <<Quote>> \in Seq(Symbols)
  <2>1. Quote \in Symbols
    BY SymbolsOf DEF Literals
  <2> QED
    BY <2>1
<1> HIDE DEF f
<1>6. InQuotes(s) \in Seq(Symbols)
  <2>1. f[1] \in Seq(Symbols)
    BY <1>1, <1>3
  <2>2. <<Quote>> \o f[1] \in Seq(Symbols)
    BY <1>5, <2>1, ConcatProperties
  <2>3. (<<Quote>> \o f[1]) \o <<Quote>> \in Seq(Symbols)
    BY <1>5, <2>2, ConcatProperties
  <2> QED
    BY <1>4, <2>3
<1> QED
  BY <1>1, <1>2, <1>3, <1>5, <1>6 DEF f, e

\* A text that needs no escape is its own.
LEMMA PlainText ==
  ASSUME NEW s \in Seq(Symbols), Plain(s)
  PROVE  TextFrom(Escapes(s))[1] = s
<1> DEFINE f == TextFrom(Escapes(s))
           n == Len(s)
           T == {i \in Nat : f[i] = SubSeq(s, i, n)}
<1>1. /\ f[n + 1] = <<>> /\ \A i \in 1 .. n : f[i] = EscapeOf(s[i]) \o f[i + 1]
  BY EscapedText
<1>2. n \in Nat
  OBVIOUS
<1>3. ASSUME NEW i \in 1 .. n PROVE EscapeOf(s[i]) = <<s[i]>>
  <2>1. ASSUME NEW S, s[i] \in S, From(s, 1, S) = 0 PROVE FALSE
    <3> DEFINE now == {j \in 1 .. Len(s) : s[j] \in S}
    <3>1. now \in SUBSET (1 .. n) /\ i \in now
      BY <2>1
    <3>2. IsFiniteSet(now)
      <4>1. 1 \in Int /\ n \in Int
        BY <1>2
      <4> HIDE DEF now, n
      <4> QED
        BY <3>1, <4>1, SubsetOfInterval
    <3>3. Cardinality(now) = 0
      BY <2>1 DEF From
    <3> HIDE DEF now
    <3>4. now = {}
      BY <3>2, <3>3, FS_EmptySet
    <3> QED
      BY <3>1, <3>4
  <2>2. From(s, 1, OneChar) = 0 /\ From(s, 1, Control) = 0
    <3> DEFINE a == From(s, 1, OneChar)
               b == From(s, 1, Control)
    <3>1. a \in Nat /\ b \in Nat
      BY FromType
    <3>2. a + 5 * b = 0
      BY DEF Plain, EscapeCharacters
    <3> HIDE DEF a, b
    <3>3. a = 0 /\ b = 0
      BY <3>1, <3>2
    <3> QED
      BY <3>3 DEF a, b
  <2>3. s[i] \notin OneChar /\ s[i] \notin Control
    BY <2>1, <2>2
  <2> QED
    BY <2>3 DEF EscapeOf, OneChar, Control
<1> HIDE DEF f
<1>4. n + 1 \in T
  <2>1. SubSeq(s, n + 1, n) = <<>>
    BY <1>2, SubSeqEmpty
  <2>2. n + 1 \in Nat /\ f[n + 1] = SubSeq(s, n + 1, n)
    BY <1>1, <1>2, <2>1
  <2> QED
    BY <2>2, Zenon
<1>5. ASSUME NEW i \in 1 .. n, i + 1 \in T PROVE i \in T
  <2>1. f[i] = <<s[i]>> \o SubSeq(s, i + 1, n)
    BY <1>1, <1>3, <1>5
  <2>2. i \in 1 .. Len(s) /\ n \in i .. Len(s)
    BY <1>2
  <2>3. SubSeq(s, i, n) = <<s[i]>> \o SubSeq(s, i + 1, n)
    BY <2>2, SubSeqRecursiveFirst
  <2>4. i \in Nat /\ f[i] = SubSeq(s, i, n)
    BY <2>1, <2>3
  <2> QED
    BY <2>4, Zenon
<1>6. 1 \in T
  <2> HIDE DEF T, n
  <2>1. \A i \in 1 .. n + 1 : i \in T
    BY <1>2, <1>4, <1>5, Downward
  <2> QED
    BY <1>2, <2>1
<1>7. SubSeq(s, 1, n) = s
  BY SubSeqFull
<1> QED
  BY <1>6, <1>7 DEF f

\* What a C function sees of a text that has a NUL at one place only, or none.
LEMMA CStringUpTo ==
  ASSUME NEW S, NEW w \in Seq(S), NEW n \in 0 .. Len(w), \A i \in 1 .. n : w[i] # NUL,
         n < Len(w) => w[n + 1] = NUL
  PROVE  CString(w) = SubSeq(w, 1, n)
<1> DEFINE plain == {i \in 1 .. Len(w) : \A j \in 1 .. i : w[j] # NUL}
<1>1. Len(w) \in Nat
  OBVIOUS
<1>2. plain = 1 .. n
  BY <1>1
<1>3. Cardinality(1 .. n) = n
  <2>1. 1 \in Int /\ n \in Int /\ (1 > n => n = 0) /\ n - 1 + 1 = n
    BY <1>1
  <2>2. Cardinality(1 .. n) = IF 1 > n THEN 0 ELSE n - 1 + 1
    BY <2>1, FS_Interval
  <2> QED
    BY <2>1, <2>2
<1> QED
  BY <1>2, <1>3 DEF CString

LEMMA CStringOf ==
  ASSUME NEW x \in Seq(Symbols), NoNUL(x)
  PROVE  CString(x) = x /\ CString(x \o <<NUL>>) = x
<1>1. NUL \in Symbols
  BY SymbolsOf DEF Literals
<1>2. Len(x) \in Nat /\ x \o <<NUL>> \in Seq(Symbols) /\ Len(x \o <<NUL>>) = Len(x) + 1
      /\ (x \o <<NUL>>)[Len(x) + 1] = NUL /\ \A i \in 1 .. Len(x) : (x \o <<NUL>>)[i] = x[i]
  BY <1>1
<1>3. SubSeq(x, 1, Len(x)) = x /\ SubSeq(x \o <<NUL>>, 1, Len(x)) = x
  <2>1. SubSeq(x, 1, Len(x)) = x
    BY SubSeqFull
  <2>2. /\ SubSeq(x \o <<NUL>>, 1, Len(x)) \in Seq(Symbols)
        /\ Len(SubSeq(x \o <<NUL>>, 1, Len(x))) = Len(x)
        /\ \A i \in 1 .. Len(x) : SubSeq(x \o <<NUL>>, 1, Len(x))[i] = x[i]
    BY <1>2
  <2>3. SubSeq(x \o <<NUL>>, 1, Len(x)) = x
    BY <2>2, SeqEqual
  <2> QED
    BY <2>1, <2>3
<1>4. CString(x) = x
  <2>1. Len(x) \in 0 .. Len(x) /\ \A i \in 1 .. Len(x) : x[i] # NUL
    BY <1>2 DEF NoNUL
  <2>2. CString(x) = SubSeq(x, 1, Len(x))
    BY <2>1, CStringUpTo
  <2> QED
    BY <1>3, <2>2
<1>5. CString(x \o <<NUL>>) = x
  <2> DEFINE w == x \o <<NUL>>
             n == Len(x)
  <2>1. w \in Seq(Symbols) /\ n \in 0 .. Len(w) /\ w[n + 1] = NUL
    BY <1>2
  <2>2. \A i \in 1 .. n : w[i] # NUL
    BY <1>2 DEF NoNUL
  <2> HIDE DEF w, n
  <2>3. CString(w) = SubSeq(w, 1, n)
    BY <2>1, <2>2, CStringUpTo
  <2> QED
    BY <1>3, <2>3 DEF w, n
<1> QED
  BY <1>4, <1>5

LEMMA Concatenated ==
  ASSUME NEW S, NEW x \in Seq(S), NEW y \in Seq(S)
  PROVE  /\ x \o y \in Seq(S) /\ Len(x \o y) = Len(x) + Len(y)
         /\ Len(x) \in Nat /\ Len(y) \in Nat
         /\ \A i \in 1 .. Len(x) : (x \o y)[i] = x[i]
         /\ \A i \in 1 .. Len(y) : (x \o y)[Len(x) + i] = y[i]
OBVIOUS

LEMMA WithNUL ==
  ASSUME NEW x \in Seq(Symbols)
  PROVE  /\ x \o <<NUL>> \in Seq(Symbols) /\ Len(x \o <<NUL>>) = Len(x) + 1
         /\ \A i \in 1 .. Len(x) : (x \o <<NUL>>)[i] = x[i]
         /\ (x \o <<NUL>>)[Len(x) + 1] = NUL
         /\ x # x \o <<NUL>>
<1>1. NUL \in Symbols
  BY SymbolsOf DEF Literals
<1>2. /\ x \o <<NUL>> \in Seq(Symbols) /\ Len(x \o <<NUL>>) = Len(x) + 1
      /\ \A i \in 1 .. Len(x) : (x \o <<NUL>>)[i] = x[i]
      /\ (x \o <<NUL>>)[Len(x) + 1] = NUL /\ Len(x) \in Nat
  BY <1>1
<1>3. ASSUME x = x \o <<NUL>> PROVE FALSE
  <2>1. Len(x) = Len(x) + 1
    BY <1>2, <1>3
  <2> QED
    BY <1>2, <2>1
<1> QED
  BY <1>2, <1>3

LEMMA NoNULParts ==
  ASSUME NEW x \in Seq(Symbols), NEW y \in Seq(Symbols)
  PROVE  NoNUL(x \o y) <=> NoNUL(x) /\ NoNUL(y)
<1>1. /\ Len(x \o y) = Len(x) + Len(y) /\ Len(x) \in Nat /\ Len(y) \in Nat
      /\ \A i \in 1 .. Len(x) : (x \o y)[i] = x[i]
      /\ \A i \in 1 .. Len(y) : (x \o y)[Len(x) + i] = y[i]
  OBVIOUS
<1>2. ASSUME NoNUL(x \o y) PROVE NoNUL(x) /\ NoNUL(y)
  <2>1. ASSUME NEW i \in 1 .. Len(x) PROVE x[i] # NUL
    BY <1>1, <1>2 DEF NoNUL
  <2>2. ASSUME NEW i \in 1 .. Len(y) PROVE y[i] # NUL
    <3>1. Len(x) + i \in 1 .. Len(x \o y)
      BY <1>1
    <3> QED
      BY <1>1, <1>2, <3>1 DEF NoNUL
  <2> QED
    BY <2>1, <2>2 DEF NoNUL
<1>3. ASSUME NoNUL(x), NoNUL(y), NEW i \in 1 .. Len(x \o y) PROVE (x \o y)[i] # NUL
  <2>1. CASE i <= Len(x)
    BY <1>1, <1>3, <2>1 DEF NoNUL
  <2>2. CASE i > Len(x)
    <3>1. i - Len(x) \in 1 .. Len(y) /\ Len(x) + (i - Len(x)) = i
      BY <1>1, <1>3, <2>2
    <3>2. (x \o y)[Len(x) + (i - Len(x))] = y[i - Len(x)]
      BY <1>1, <3>1
    <3> QED
      BY <1>3, <3>1, <3>2 DEF NoNUL
  <2> QED
    BY <1>1, <1>3, <2>1, <2>2
<1> QED
  BY <1>2, <1>3 DEF NoNUL

-----------------------------------------------------------------------------
(* What is printed *)

\* v[n] is the text of the item n's value, and m[n] that of the members from
\* the item n on.
ValueText(n, m) ==
  CASE item[n].type = "String" -> InQuotes(item[n].valuestring)
    [] item[n].type = "Number" -> item[n].number
    [] item[n].type = "True" -> <<"true">>
    [] item[n].type = "False" -> <<"false">>
    [] OTHER -> <<"{">> \o m[item[n].child] \o <<"}">>
Later(n, m) ==
  IF n = Null \/ item[n].next = Null THEN <<>> ELSE <<",">> \o m[item[n].next]
Spells(v, m) ==
  /\ v \in [D -> Seq(Symbols)] /\ m \in [D \cup {Null} -> Seq(Symbols)]
  /\ m[Null] = <<>>
  /\ \A n \in D :
       /\ v[n] = ValueText(n, m)
       /\ m[n] = InQuotes(item[n].string) \o (<<":">> \o (v[n] \o Later(n, m)))

\* d[i] is what is to come when the i-th member of a stack is through.
Follow(members, d, m) ==
  /\ d \in [1 .. Len(members) + 1 -> Seq(Symbols)] /\ d[Len(members) + 1] = <<>>
  /\ \A i \in 1 .. Len(members) : d[i] = Later(members[i], m) \o (<<"}">> \o d[i + 1])

\* What is behind a string that is printed; what has been written; what is to
\* come of all.
AfterThis(v, d) == IF IsKey THEN <<":">> \o (v[Current] \o d[1]) ELSE d[1]
Copies == {"copykey", "copyvalue"}
Written == IF mode \in Copies THEN text ELSE SubSeq(text, 1, offset)
ToCome(v, d) ==
  IF mode = "key" THEN InQuotes(ThisString) \o AfterThis(v, d)
  ELSE IF mode \in Copies
         THEN TextFrom(Escapes(ThisString))[copied + 1] \o (<<Quote>> \o AfterThis(v, d))
  ELSE IF mode = "colon" THEN <<":">> \o (v[Current] \o d[1])
  ELSE IF mode = "value" THEN v[Current] \o d[1]
  ELSE IF mode = "after" THEN d[1]
  ELSE <<"}">> \o d[2]

Spelling(v, m) ==
  /\ mode \in Running => \E d : Follow(stack, d, m) /\ Written \o ToCome(v, d) = v[root]
  /\ mode = "after" => text[offset + 1] = NUL
  /\ mode = "printed" => CString(text) = v[root]

\* If there is anything to print, its text is printed.
TextInv(v, m) ==
  IF root = Null THEN mode \in {"off", "value", "failed"} /\ stack = <<>>
  ELSE Spells(v, m) /\ NoNUL(v[root]) => Spelling(v, m)

LEMMA Assoc == \A x, y, z \in Seq(Symbols) : (x \o y) \o z = x \o (y \o z)
BY ConcatAssociative

LEMMA Appends == \A x, y \in Seq(Symbols) : x \o y \in Seq(Symbols)
BY ConcatProperties

LEMMA NoText == <<>> \in Seq(Symbols) /\ \A x \in Seq(Symbols) : <<>> \o x = x /\ x \o <<>> = x
BY ConcatEmptySeq

\* The ways in which texts are regrouped, each with a name, by which an instance of
\* it is found.
Three(a, b, c) == (a \o b) \o c = a \o (b \o c)
Four(a, b, c, d) == ((a \o b) \o c) \o d = a \o (b \o (c \o d))
Five(a, b, c, d, e) == (a \o (b \o (c \o d))) \o e = a \o (b \o (c \o (d \o e)))

LEMMA InThree == \A a, b, c \in Seq(Symbols) : Three(a, b, c)
BY Assoc DEF Three

LEMMA InFour == \A a, b, c, d \in Seq(Symbols) : Four(a, b, c, d)
<1>. SUFFICES ASSUME NEW a \in Seq(Symbols), NEW b \in Seq(Symbols),
                     NEW c \in Seq(Symbols), NEW d \in Seq(Symbols)
              PROVE  Four(a, b, c, d)
  OBVIOUS
<1>1. b \o c \in Seq(Symbols)
  BY Appends
<1>2. Three(a, b, c) /\ Three(a, b \o c, d) /\ Three(b, c, d)
  BY <1>1, InThree
<1> QED
  BY <1>2, Zenon DEF Three, Four

LEMMA InFive == \A a, b, c, d, e \in Seq(Symbols) : Five(a, b, c, d, e)
<1>. SUFFICES ASSUME NEW a \in Seq(Symbols), NEW b \in Seq(Symbols),
                     NEW c \in Seq(Symbols), NEW d \in Seq(Symbols), NEW e \in Seq(Symbols)
              PROVE  Five(a, b, c, d, e)
  OBVIOUS
<1>1. c \o d \in Seq(Symbols) /\ b \o (c \o d) \in Seq(Symbols)
  BY Appends
<1>2. Three(a, b \o (c \o d), e) /\ Three(b, c \o d, e) /\ Three(c, d, e)
  BY <1>1, InThree
<1> QED
  BY <1>2, Zenon DEF Three, Five

LEMMA ShortSymbols ==
  /\ <<Quote>> \in Seq(Symbols) /\ <<":">> \in Seq(Symbols) /\ <<",">> \in Seq(Symbols)
  /\ <<"{">> \in Seq(Symbols) /\ <<"}">> \in Seq(Symbols) /\ <<NUL>> \in Seq(Symbols)
  /\ <<"true">> \in Seq(Symbols) /\ <<"false">> \in Seq(Symbols)
<1>1. {"{", ":", ",", "}", NUL, Quote, "true", "false"} \subseteq Symbols
  BY SymbolsOf DEF Literals
<1>2. \A c \in Symbols : <<c>> \in Seq(Symbols)
  BY SingleText
<1> QED
  BY <1>1, <1>2

\* Of a text behind another, the beginning is seen with that one.
Seen(old, w, x) ==
  /\ SubSeq(old \o w, 1, Len(old) + Len(x)) = old \o x
  /\ Len(x) < Len(w) => (old \o w)[Len(old) + Len(x) + 1] = w[Len(x) + 1]

LEMMA TextSeen ==
  ASSUME NEW old \in Seq(Symbols), NEW w \in Seq(Symbols), NEW x \in Seq(Symbols),
         Len(x) <= Len(w), \A i \in 1 .. Len(x) : w[i] = x[i]
  PROVE  Seen(old, w, x)
<1> DEFINE n == Len(old)
           v == old \o w
           t == SubSeq(v, 1, n + Len(x))
           u == old \o x
<1>1. Len(x) \in Nat /\ Len(w) \in Nat /\ n \in Nat
  OBVIOUS
<1>2. /\ v \in Seq(Symbols) /\ Len(v) = n + Len(w)
      /\ \A i \in 1 .. n : v[i] = old[i]
      /\ \A i \in 1 .. Len(w) : v[n + i] = w[i]
  BY Concatenated
<1>3. /\ u \in Seq(Symbols) /\ Len(u) = n + Len(x)
      /\ \A i \in 1 .. n : u[i] = old[i]
      /\ \A i \in 1 .. Len(x) : u[n + i] = x[i]
  BY Concatenated
<1> HIDE DEF n, v, u
<1>5. /\ t \in Seq(Symbols) /\ Len(t) = n + Len(x)
      /\ \A i \in 1 .. n + Len(x) : t[i] = v[i]
  BY <1>1, <1>2
<1> HIDE DEF t
<1>6. ASSUME NEW i \in 1 .. n + Len(x) PROVE t[i] = u[i]
  <2>1. CASE i <= n
    BY <1>1, <1>2, <1>3, <1>5, <2>1
  <2>2. CASE i > n
    <3>1. i - n \in 1 .. Len(x) /\ i - n \in 1 .. Len(w) /\ n + (i - n) = i
      BY <1>1, <2>2
    <3>2. v[n + (i - n)] = w[i - n] /\ u[n + (i - n)] = x[i - n] /\ w[i - n] = x[i - n]
      BY <1>2, <1>3, <3>1
    <3> QED
      BY <1>5, <3>1, <3>2
  <2> QED
    BY <1>1, <2>1, <2>2
<1>7. t = u
  BY <1>3, <1>5, <1>6, SeqEqual
<1>8. ASSUME Len(x) < Len(w) PROVE v[n + Len(x) + 1] = w[Len(x) + 1]
  <2>1. Len(x) + 1 \in 1 .. Len(w) /\ n + (Len(x) + 1) = n + Len(x) + 1
    BY <1>1, <1>8
  <2> QED
    BY <1>2, <2>1
<1> QED
  BY <1>7, <1>8 DEF Seen, n, t, u, v

\* A write moves what it writes, but for its NUL, to what has been written.
LEMMA TextMoves ==
  ASSUME Buffer, mode \notin Copies, mode' \notin Copies, NEW w \in Seq(Symbols), Emit(w),
         NEW x \in Seq(Symbols), NEW y \in Seq(Symbols), w = x \/ w = x \o <<NUL>>,
         NoNUL(Written \o (x \o y))
  PROVE  /\ Written' \o y = Written \o (x \o y)
         /\ w = x \o <<NUL>> => text'[offset' + 1] = NUL
<1>1. /\ text \in Seq(Symbols) /\ offset \in Nat /\ offset <= Len(text)
      /\ Written = SubSeq(text, 1, offset) /\ Written' = SubSeq(text', 1, offset')
  BY DEF Buffer, Written
<1>0. PICK old : old = SubSeq(text, 1, offset)
  OBVIOUS
<1>2. old \in Seq(Symbols) /\ Len(old) = offset
  BY <1>0, <1>1
<1>3. text' = old \o w /\ offset' = offset + Len(CString(w))
  BY <1>0 DEF Emit, Writes
<1>4. NoNUL(x)
  <2>1. x \o y \in Seq(Symbols) /\ Written \in Seq(Symbols)
    BY <1>0, <1>1, <1>2, Appends
  <2>2. NoNUL(x \o y)
    BY <2>1, NoNULParts
  <2> QED
    BY <2>2, NoNULParts
<1>5. CString(w) = x
  BY <1>4, CStringOf
<1>6. /\ w \in Seq(Symbols) /\ Len(x) \in Nat /\ Len(x) <= Len(w) /\ Len(w) \in Nat
      /\ \A i \in 1 .. Len(x) : w[i] = x[i]
      /\ w = x \o <<NUL>> => Len(w) = Len(x) + 1 /\ w[Len(x) + 1] = NUL
  <2>1. Len(x) \in Nat /\ Len(w) \in Nat
    OBVIOUS
  <2>2. CASE w = x
    <3>1. w # x \o <<NUL>>
      BY <2>2, WithNUL
    <3> QED
      BY <2>1, <2>2, <3>1
  <2>3. CASE w = x \o <<NUL>>
    <3>1. /\ Len(w) = Len(x) + 1 /\ \A i \in 1 .. Len(x) : w[i] = x[i]
          /\ w[Len(x) + 1] = NUL
      BY <2>3, WithNUL
    <3> QED
      BY <2>1, <3>1
  <2> QED
    BY <2>1, <2>2, <2>3
<1>7. /\ SubSeq(old \o w, 1, Len(old) + Len(x)) = old \o x
      /\ (old \o x) \o y = old \o (x \o y)
      /\ Len(x) < Len(w) => (old \o w)[Len(old) + Len(x) + 1] = w[Len(x) + 1]
  <2>1. Seen(old, w, x)
    BY <1>2, <1>6, TextSeen, Zenon
  <2>2. Three(old, x, y)
    BY <1>2, InThree, Zenon
  <2> QED
    BY <2>1, <2>2, Zenon DEF Seen, Three
<1>8. SubSeq(text', 1, offset') = old \o x
  <2>1. offset' = Len(old) + Len(x)
    BY <1>2, <1>3, <1>5
  <2> QED
    BY <1>3, <1>7, <2>1
<1>9. ASSUME w = x \o <<NUL>> PROVE text'[offset' + 1] = NUL
  <2>1. Len(x) < Len(w) /\ w[Len(x) + 1] = NUL
    BY <1>6, <1>9
  <2>2. (old \o w)[Len(old) + Len(x) + 1] = NUL
    BY <1>7, <2>1
  <2>3. offset' + 1 = Len(old) + Len(x) + 1
    BY <1>2, <1>3, <1>5
  <2> QED
    BY <1>3, <2>2, <2>3
<1> QED
  BY <1>0, <1>1, <1>7, <1>8, <1>9

LEMMA SpellTypes ==
  ASSUME Items, NEW v, NEW m, Spells(v, m)
  PROVE  /\ \A n \in D : /\ v[n] \in Seq(Symbols) /\ Later(n, m) \in Seq(Symbols)
                         /\ InQuotes(item[n].string) \in Seq(Symbols)
                         /\ item[n].child \in D \cup {Null} /\ item[n].next \in D \cup {Null}
                         /\ item[n].string \in Seq(Symbols)
                         /\ item[n].valuestring \in Seq(Symbols)
         /\ \A n \in D \cup {Null} : m[n] \in Seq(Symbols)
<1>1. /\ \A n \in D : v[n] \in Seq(Symbols)
      /\ \A n \in D \cup {Null} : m[n] \in Seq(Symbols)
  BY DEF Spells
<1>2. ASSUME NEW n \in D
      PROVE  /\ item[n].child \in D \cup {Null} /\ item[n].next \in D \cup {Null}
             /\ item[n].string \in Seq(Symbols) /\ item[n].valuestring \in Seq(Symbols)
  <2>1. item[n] \in ItemsOf(D)
    BY DEF Items
  <2>2. /\ item[n].child \in D \cup {Null} /\ item[n].next \in D \cup {Null}
        /\ item[n].string \in Words \cup {NoString}
        /\ item[n].valuestring \in Words \cup {NoString}
    BY <2>1 DEF ItemsOf
  <2> QED
    BY <2>2, WordsTyped
<1>3. ASSUME NEW n \in D PROVE Later(n, m) \in Seq(Symbols)
  <2>1. m[item[n].next] \in Seq(Symbols)
    BY <1>1, <1>2
  <2>2. <<",">> \o m[item[n].next] \in Seq(Symbols) /\ <<>> \in Seq(Symbols)
    BY <2>1, ShortSymbols, Appends, NoText
  <2> QED
    BY <2>2 DEF Later
<1>4. ASSUME NEW n \in D PROVE InQuotes(item[n].string) \in Seq(Symbols)
  BY <1>2, EscapedText
<1> QED
  BY <1>1, <1>2, <1>3, <1>4

\* The members from n on, and what is behind them.
MembersAhead(n, v, m, e) ==
  m[n] \o e = InQuotes(item[n].string) \o (<<":">> \o (v[n] \o (Later(n, m) \o e)))

LEMMA MembersToCome ==
  ASSUME Items, NEW v, NEW m, Spells(v, m), NEW n \in D, NEW e \in Seq(Symbols)
  PROVE  MembersAhead(n, v, m, e)
<1>1. m[n] = InQuotes(item[n].string) \o (<<":">> \o (v[n] \o Later(n, m)))
  BY DEF Spells
<1>2. /\ v[n] \in Seq(Symbols) /\ Later(n, m) \in Seq(Symbols)
      /\ InQuotes(item[n].string) \in Seq(Symbols) /\ <<":">> \in Seq(Symbols)
  BY SpellTypes, ShortSymbols
<1>3. Five(InQuotes(item[n].string), <<":">>, v[n], Later(n, m), e)
  BY <1>2, InFive, Zenon
<1> QED
  BY <1>1, <1>3, Zenon DEF Five, MembersAhead

\* A string, and what is behind it.
LEMMA StringToCome ==
  ASSUME PrintInv, mode \in Running \ {"close"}, root \in D,
         IsKey \/ OfType({"String"}) \/ (mode = "copyvalue" /\ item[Current].type = "String"),
         NEW v, NEW m, Spells(v, m), NEW d, Follow(stack, d, m)
  PROVE  /\ Current \in D /\ ThisString \in Seq(Symbols)
         /\ AfterThis(v, d) \in Seq(Symbols) /\ d[1] \in Seq(Symbols)
         /\ v[Current] \in Seq(Symbols)
         /\ IsText => ToCome(v, d) = InQuotes(ThisString) \o AfterThis(v, d)
<1>1. Current \in D /\ ThisString \in Seq(Symbols)
  <2>1. IsKey \/ Current # Null
    BY DEF PrintInv, Stack, OfType
  <2> QED
    BY <2>1, StringType DEF PrintInv
<1>2. v[Current] \in Seq(Symbols) /\ v[Current] = ValueText(Current, m)
  BY <1>1 DEF Spells
<1>3. d[1] \in Seq(Symbols)
  <2>1. Len(stack) \in Nat
    BY DEF PrintInv, Stack
  <2>2. 1 \in 1 .. Len(stack) + 1
    BY <2>1
  <2>3. d \in [1 .. Len(stack) + 1 -> Seq(Symbols)]
    BY Zenon DEF Follow
  <2> QED
    BY <2>2, <2>3, Zenon
<1>4. <<":">> \o (v[Current] \o d[1]) \in Seq(Symbols)
  BY <1>2, <1>3, ShortSymbols, Appends, Zenon
<1>5. AfterThis(v, d) \in Seq(Symbols)
  BY <1>3, <1>4 DEF AfterThis
<1>6. ASSUME IsText PROVE ToCome(v, d) = InQuotes(ThisString) \o AfterThis(v, d)
  <2>1. CASE mode = "key"
    BY <2>1, Zenon DEF ToCome
  <2>2. CASE mode # "key"
    <3>1. mode = "value" /\ item[Current].type = "String" /\ ~IsKey
      BY <1>6, <2>2 DEF IsText, OfType, IsKey
    <3>2. ThisString = item[Current].valuestring /\ AfterThis(v, d) = d[1]
      BY <3>1 DEF ThisString, AfterThis
    <3>3. v[Current] = InQuotes(item[Current].valuestring)
      BY <1>2, <3>1 DEF ValueText
    <3>4. ToCome(v, d) = v[Current] \o d[1]
      BY <3>1 DEF ToCome, Copies
    <3> QED
      BY <3>2, <3>3, <3>4
  <2> QED
    BY <2>1, <2>2
<1> QED
  BY <1>1, <1>2, <1>3, <1>5, <1>6

\* In front of a member is what is behind it.
Ahead(n, m, e, d) == d[1] = Later(n, m) \o (<<"}">> \o e) /\ d[2] = e

\* Where a stack grows or shrinks, what follows its other members stays.
LEMMA FollowPush ==
  ASSUME NEW S, NEW s \in Seq(S), NEW n, NEW m, Later(n, m) \in Seq(Symbols),
         NEW e, Follow(s, e, m)
  PROVE  /\ e[1] \in Seq(Symbols)
         /\ \E d : Follow(<<n>> \o s, d, m) /\ Ahead(n, m, e[1], d)
<1>1. Len(s) \in Nat /\ <<n>> \o s \in Seq(S \cup {n})
  OBVIOUS
<1>2. /\ Len(<<n>> \o s) = Len(s) + 1 /\ (<<n>> \o s)[1] = n
      /\ \A i \in 2 .. Len(s) + 1 : (<<n>> \o s)[i] = s[i - 1]
  OBVIOUS
<1>3. /\ e \in [1 .. Len(s) + 1 -> Seq(Symbols)] /\ e[Len(s) + 1] = <<>>
      /\ \A i \in 1 .. Len(s) : e[i] = Later(s[i], m) \o (<<"}">> \o e[i + 1])
  BY Zenon DEF Follow
<1>4. PICK t : t = <<n>> \o s
  OBVIOUS
<1>5. PICK k \in Nat : k = Len(s)
  BY <1>1
<1>6. 1 \in 1 .. k + 1
  BY <1>5
<1>7. e[1] \in Seq(Symbols)
  BY <1>3, <1>5, <1>6, Zenon
<1>8. PICK z \in Seq(Symbols) : z = Later(n, m) \o (<<"}">> \o e[1])
  BY <1>7, ShortSymbols, Appends, Zenon
<1> DEFINE d == [i \in 1 .. k + 2 |-> IF i = 1 THEN z ELSE e[i - 1]]
<1>9. d \in [1 .. k + 2 -> Seq(Symbols)]
  <2>1. ASSUME NEW i \in 1 .. k + 2, i # 1 PROVE e[i - 1] \in Seq(Symbols)
    <3>1. i - 1 \in 1 .. k + 1
      BY <2>1
    <3> QED
      BY <1>3, <1>5, <3>1, Zenon
  <2> QED
    BY <2>1
<1>10. /\ d[1] = z /\ \A i \in 1 .. k + 1 : d[i + 1] = e[i]
  BY DEF d
<1> HIDE DEF d
<1>11. d[2] = e[1] /\ d[k + 2] = <<>>
  <2>1. 1 + 1 = 2 /\ k + 1 \in 1 .. k + 1 /\ (k + 1) + 1 = k + 2
    OBVIOUS
  <2>2. d[1 + 1] = e[1] /\ d[(k + 1) + 1] = e[k + 1]
    BY <1>6, <1>10, <2>1, Zenon
  <2> QED
    BY <1>3, <1>5, <2>1, <2>2
<1>12. ASSUME NEW i \in 1 .. k + 1 PROVE d[i] = Later(t[i], m) \o (<<"}">> \o d[i + 1])
  <2>1. CASE i = 1
    BY <1>2, <1>4, <1>8, <1>10, <1>11, <2>1
  <2>2. CASE i # 1
    <3>1. PICK j \in 1 .. k : j = i - 1
      BY <2>2
    <3>2. i = j + 1 /\ i \in 2 .. k + 1 /\ j \in 1 .. k + 1
      BY <2>2, <3>1
    <3>3. d[i] = e[j] /\ d[i + 1] = e[j + 1] /\ t[i] = s[j]
      BY <1>2, <1>4, <1>5, <1>10, <3>1, <3>2
    <3>4. e[j] = Later(s[j], m) \o (<<"}">> \o e[j + 1])
      BY <1>3, <1>5, <3>1, Zenon
    <3> QED
      BY <3>3, <3>4, Zenon
  <2> QED
    BY <2>1, <2>2
<1>13. Follow(t, d, m)
  <2>1. Len(t) = k + 1 /\ Len(t) + 1 = k + 2
    BY <1>2, <1>4, <1>5
  <2> QED
    BY <1>9, <1>11, <1>12, <2>1, Zenon DEF Follow
<1> QED
  BY <1>4, <1>7, <1>8, <1>10, <1>11, <1>13, Zenon DEF Ahead

LEMMA FollowPop ==
  ASSUME NEW S, NEW s \in Seq(S), s # <<>>, NEW m, NEW d, Follow(s, d, m)
  PROVE  /\ Ahead(s[1], m, d[2], d)
         /\ d[1] \in Seq(Symbols) /\ d[2] \in Seq(Symbols)
         /\ \E e : Follow(Tail(s), e, m) /\ e[1] = d[2]
<1>1. /\ Len(s) \in Nat \ {0} /\ Len(Tail(s)) = Len(s) - 1
      /\ \A i \in 1 .. Len(s) - 1 : Tail(s)[i] = s[i + 1]
  OBVIOUS
<1>2. /\ d \in [1 .. Len(s) + 1 -> Seq(Symbols)] /\ d[Len(s) + 1] = <<>>
      /\ \A i \in 1 .. Len(s) : d[i] = Later(s[i], m) \o (<<"}">> \o d[i + 1])
  BY Zenon DEF Follow
<1>3. PICK t : t = Tail(s)
  OBVIOUS
<1>4. PICK k \in Nat \ {0} : k = Len(s)
  BY <1>1
<1>5. 1 \in 1 .. k + 1 /\ 2 \in 1 .. k + 1 /\ 1 \in 1 .. k /\ 1 + 1 = 2
  BY <1>4
<1>6. d[1] \in Seq(Symbols) /\ d[2] \in Seq(Symbols)
  BY <1>2, <1>4, <1>5, Zenon
<1>7. d[1] = Later(s[1], m) \o (<<"}">> \o d[2])
  <2>1. d[1] = Later(s[1], m) \o (<<"}">> \o d[1 + 1])
    BY <1>2, <1>4, <1>5, Zenon
  <2> QED
    BY <1>5, <2>1, Zenon
<1> DEFINE e == [i \in 1 .. k |-> d[i + 1]]
<1>8. /\ e \in [1 .. k -> Seq(Symbols)]
      /\ \A i \in 1 .. k : e[i] = d[i + 1]
  <2>1. ASSUME NEW i \in 1 .. k PROVE d[i + 1] \in Seq(Symbols)
    <3>1. i + 1 \in 1 .. k + 1
      OBVIOUS
    <3> QED
      BY <1>2, <1>4, <3>1, Zenon
  <2> QED
    BY <2>1
<1> HIDE DEF e
<1>9. e[1] = d[2] /\ e[k] = <<>>
  <2>1. k \in 1 .. k
    BY <1>4
  <2>2. e[k] = d[k + 1] /\ e[1] = d[1 + 1]
    BY <1>5, <1>8, <2>1, Zenon
  <2> QED
    BY <1>2, <1>4, <1>5, <2>2
<1>10. ASSUME NEW i \in 1 .. k - 1 PROVE e[i] = Later(t[i], m) \o (<<"}">> \o e[i + 1])
  <2>1. PICK j \in 1 .. k : j = i + 1
    BY <1>4
  <2>2. i \in 1 .. k
    BY <1>4
  <2>3. e[i] = d[j] /\ e[i + 1] = d[j + 1] /\ t[i] = s[j]
    BY <1>1, <1>3, <1>4, <1>8, <2>1, <2>2
  <2>4. d[j] = Later(s[j], m) \o (<<"}">> \o d[j + 1])
    BY <1>2, <1>4, <2>1, Zenon
  <2> QED
    BY <2>3, <2>4, Zenon
<1>11. Follow(t, e, m)
  <2>1. Len(t) = k - 1 /\ Len(t) + 1 = k
    BY <1>1, <1>3, <1>4
  <2> QED
    BY <1>8, <1>9, <1>10, <2>1, Zenon DEF Follow
<1> QED
  BY <1>3, <1>6, <1>7, <1>9, <1>11, Zenon DEF Ahead

\* After a write, what has been written and what is to come is still the text.
LEMMA SpellingMoves ==
  ASSUME PrintInv, item' = item, root' = root, mode \in Running \ Copies,
         mode' \in Running \ Copies, NEW v, NEW m, NoNUL(v[root]), NEW d,
         Written \o ToCome(v, d) = v[root], NEW w \in Seq(Symbols), Emit(w),
         NEW x \in Seq(Symbols), NEW y \in Seq(Symbols), ToCome(v, d) = x \o y,
         w = x \/ w = x \o <<NUL>>, mode' = "after" => w = x \o <<NUL>>,
         NEW e, Follow(stack, e, m)', ToCome(v, e)' = y
  PROVE  Spelling(v, m)'
<1>1. Buffer /\ mode \notin Copies /\ mode' \notin Copies
  BY DEF PrintInv
<1>2. Written \o (x \o y) = v[root]
  BY Zenon
<1>3. NoNUL(Written \o (x \o y))
  BY <1>2, Zenon
<1>4. /\ Written' \o y = Written \o (x \o y)
      /\ w = x \o <<NUL>> => text'[offset' + 1] = NUL
  BY <1>1, <1>3, TextMoves, Zenon
<1>5. Written' \o ToCome(v, e)' = v[root']
  BY <1>2, <1>4, Zenon
<1>6. mode' = "after" => text'[offset' + 1] = NUL
  BY <1>4, Zenon
<1>7. mode' # "printed"
  BY DEF Running
<1> QED
  BY <1>5, <1>6, <1>7, Zenon DEF Spelling

\* What follows the members of a stack does not hang on the printer.
LEMMA FollowNext ==
  ASSUME item' = item, NEW d, NEW m, NEW s, s = stack', Follow(s, d, m)
  PROVE  Follow(stack, d, m)'
BY Zenon DEF Follow, Later

LEMMA Pairs == \A x, y : <<x, y>> = <<x>> \o <<y>>
<1>. SUFFICES ASSUME NEW x, NEW y PROVE <<x, y>> = <<x>> \o <<y>>
  OBVIOUS
<1>1. <<x>> \in Seq({x, y}) /\ <<y>> \in Seq({x, y}) /\ <<x, y>> \in Seq({x, y})
  OBVIOUS
<1>2. /\ Len(<<x>> \o <<y>>) = 2 /\ <<x>> \o <<y>> \in Seq({x, y})
      /\ (<<x>> \o <<y>>)[1] = x /\ (<<x>> \o <<y>>)[2] = y
  OBVIOUS
<1>3. Len(<<x, y>>) = 2 /\ <<x, y>>[1] = x /\ <<x, y>>[2] = y
  OBVIOUS
<1>4. \A i \in 1 .. 2 : <<x, y>>[i] = (<<x>> \o <<y>>)[i]
  BY <1>2, <1>3
<1> QED
  BY <1>1, <1>2, <1>3, <1>4, SeqEqual

LEMMA PlainQuoted ==
  ASSUME NEW s \in Seq(Symbols), Plain(s)
  PROVE  <<Quote>> \o s \o <<Quote, NUL>> = InQuotes(s) \o <<NUL>>
<1>1. InQuotes(s) = (<<Quote>> \o s) \o <<Quote>>
  BY PlainText, Zenon DEF InQuotes
<1>2. <<Quote>> \o s \in Seq(Symbols) /\ <<Quote>> \in Seq(Symbols) /\ <<NUL>> \in Seq(Symbols)
  BY ShortSymbols, Appends, Zenon
<1>3. Three(<<Quote>> \o s, <<Quote>>, <<NUL>>)
  BY <1>2, InThree, Zenon
<1> QED
  BY <1>1, <1>3, Pairs, Zenon DEF Three

LEMMA PlainSpelled ==
  ASSUME PrintInv, PrintPlain, root \in D, NEW v, NEW m, Spells(v, m), NoNUL(v[root]),
         Spelling(v, m)
  PROVE  Spelling(v, m)'
<1>1. IsKey \/ OfType({"String"})
  BY Zenon DEF PrintPlain, IsText, IsKey
<1>2. mode \in {"key", "value"} /\ IsText /\ Plain(ThisString)
  BY Zenon DEF PrintPlain, IsText, OfType
<1>3. mode \in Running \ {"close"} /\ mode \in Running \ Copies
  BY <1>2 DEF Running, Copies
<1>4. PICK d : Follow(stack, d, m) /\ Written \o ToCome(v, d) = v[root]
  BY <1>3, Zenon DEF Spelling
<1>5. /\ ThisString \in Seq(Symbols) /\ AfterThis(v, d) \in Seq(Symbols)
      /\ ToCome(v, d) = InQuotes(ThisString) \o AfterThis(v, d)
  BY <1>1, <1>2, <1>3, <1>4, StringToCome, Zenon
<1>6. /\ Emit(<<Quote>> \o ThisString \o <<Quote, NUL>>) /\ mode' = AfterString
      /\ item' = item /\ root' = root /\ stack' = stack
  BY DEF PrintPlain, heap
<1>7. PICK x \in Seq(Symbols) : x = InQuotes(ThisString)
  BY <1>5, EscapedText
<1>8. PICK w \in Seq(Symbols) : w = <<Quote>> \o ThisString \o <<Quote, NUL>> /\ w = x \o <<NUL>>
  <2>1. <<Quote>> \o ThisString \o <<Quote, NUL>> = InQuotes(ThisString) \o <<NUL>>
    BY <1>2, <1>5, PlainQuoted, Zenon
  <2>2. x \o <<NUL>> \in Seq(Symbols)
    BY <1>7, ShortSymbols, Appends, Zenon
  <2> QED
    BY <1>7, <2>1, <2>2, Zenon
<1>9. mode' \in Running \ Copies
  BY <1>6 DEF AfterString, Running, Copies
<1>10. Follow(stack, d, m)'
  BY <1>4, <1>6, FollowNext, Zenon
<1>11. ToCome(v, d)' = AfterThis(v, d)
  <2>1. Current' = Current
    BY <1>6 DEF Current
  <2>2. mode' = IF IsKey THEN "colon" ELSE "after"
    BY <1>6, Zenon DEF AfterString
  <2>3. CASE IsKey
    <3>1. mode' = "colon" /\ mode' # "key" /\ mode' \notin Copies
      BY <2>2, <2>3 DEF Copies
    <3>2. ToCome(v, d)' = <<":">> \o (v[Current'] \o d[1])
      BY <3>1, Zenon DEF ToCome
    <3> QED
      BY <2>1, <2>3, <3>2, Zenon DEF AfterThis
  <2>4. CASE ~IsKey
    <3>1. mode' = "after" /\ mode' \notin {"key", "colon", "value"} /\ mode' \notin Copies
      BY <2>2, <2>4 DEF Copies
    <3>2. ToCome(v, d)' = d[1]
      BY <3>1 DEF ToCome
    <3> QED
      BY <2>4, <3>2, Zenon DEF AfterThis
  <2> QED
    BY <2>3, <2>4
<1>12. Emit(w)
  BY <1>6, <1>8, Zenon
<1>13. PICK y \in Seq(Symbols) : y = AfterThis(v, d)
  BY <1>5, Zenon
<1> QED
  BY <1>3, <1>4, <1>5, <1>6, <1>7, <1>8, <1>9, <1>10, <1>11, <1>12, <1>13, SpellingMoves

LEMMA QuoteSpelled ==
  ASSUME PrintInv, PrintQuote, root \in D, NEW v, NEW m, Spells(v, m), NoNUL(v[root]),
         Spelling(v, m)
  PROVE  Spelling(v, m)'
<1>1. IsKey \/ OfType({"String"})
  BY Zenon DEF PrintQuote, IsText, IsKey
<1>2. mode \in {"key", "value"} /\ IsText
  BY Zenon DEF PrintQuote, IsText, OfType
<1>3. mode \in Running \ {"close"} /\ mode \in Running \ Copies
  BY <1>2 DEF Running, Copies
<1>4. PICK d : Follow(stack, d, m) /\ Written \o ToCome(v, d) = v[root]
  BY <1>3, Zenon DEF Spelling
<1>5. /\ ThisString \in Seq(Symbols) /\ AfterThis(v, d) \in Seq(Symbols)
      /\ ToCome(v, d) = InQuotes(ThisString) \o AfterThis(v, d)
  BY <1>1, <1>2, <1>3, <1>4, StringToCome, Zenon
<1>6. /\ text' = SubSeq(text, 1, offset) \o <<Quote>> /\ copied' = 0
      /\ mode' = IF IsKey THEN "copykey" ELSE "copyvalue"
      /\ item' = item /\ root' = root /\ stack' = stack
  BY DEF PrintQuote, heap, Writes
<1>7. /\ mode' \in Copies /\ mode' \notin {"key", "after", "printed"} /\ mode' \in Running
      /\ IsKey' = IsKey
  BY <1>2, <1>6 DEF Copies, IsKey, Running
<1>8. Current' = Current /\ ThisString' = ThisString
  BY <1>6, <1>7 DEF Current, ThisString
<1>9. AfterThis(v, d)' = AfterThis(v, d)
  BY <1>7, <1>8, Zenon DEF AfterThis
<1>10. PICK e \in Seq(Symbols) : e = TextFrom(Escapes(ThisString))[1]
  <2>1. Len(ThisString) \in Nat
    BY <1>5
  <2>2. 1 \in 1 .. Len(ThisString) + 1
    BY <2>1
  <2> QED
    BY <1>5, <2>2, EscapedText, Zenon
<1>11. ToCome(v, d)' = e \o (<<Quote>> \o AfterThis(v, d))
  <2>1. copied' + 1 = 1
    BY <1>6
  <2>2. ToCome(v, d)' = TextFrom(Escapes(ThisString'))[copied' + 1] \o (<<Quote>> \o AfterThis(v, d)')
    BY <1>7 DEF ToCome
  <2> QED
    BY <1>8, <1>9, <1>10, <2>1, <2>2, Zenon
<1>12. ToCome(v, d) = ((<<Quote>> \o e) \o <<Quote>>) \o AfterThis(v, d)
  BY <1>5, <1>10, Zenon DEF InQuotes
<1>13. Written' = Written \o <<Quote>> /\ Written \in Seq(Symbols)
  <2>1. mode \notin Copies
    BY <1>3
  <2>2. Written = SubSeq(text, 1, offset) /\ Written' = text'
    BY <1>7, <2>1, Zenon DEF Written
  <2>3. text \in Seq(Symbols) /\ offset \in Nat /\ offset <= Len(text)
    BY DEF PrintInv, Buffer
  <2> QED
    BY <1>6, <2>2, <2>3
<1>14. /\ Four(<<Quote>>, e, <<Quote>>, AfterThis(v, d))
       /\ e \o (<<Quote>> \o AfterThis(v, d)) \in Seq(Symbols)
  BY <1>5, <1>10, ShortSymbols, InFour, Appends, Zenon
<1>15. Three(Written, <<Quote>>, e \o (<<Quote>> \o AfterThis(v, d)))
  BY <1>13, <1>14, ShortSymbols, InThree, Zenon
<1>16. Written' \o ToCome(v, d)' = v[root']
  BY <1>4, <1>6, <1>11, <1>12, <1>13, <1>14, <1>15, Zenon DEF Three, Four
<1>17. Follow(stack, d, m)'
  BY <1>4, <1>6, FollowNext, Zenon
<1> QED
  BY <1>7, <1>16, <1>17, Zenon DEF Spelling

\* Where a string is copied.
LEMMA CopyTypes ==
  ASSUME PrintInv, mode \in Copies, root \in D, NEW v, NEW m, Spells(v, m), Spelling(v, m)
  PROVE  /\ text \in Seq(Symbols) /\ Written = text
         /\ ThisString \in Seq(Symbols) /\ copied \in Nat
         /\ \E d : /\ Follow(stack, d, m) /\ Written \o ToCome(v, d) = v[root]
                   /\ AfterThis(v, d) \in Seq(Symbols)
                   /\ ToCome(v, d) = TextFrom(Escapes(ThisString))[copied + 1]
                                       \o (<<Quote>> \o AfterThis(v, d))
<1>1. mode \in {"copykey", "copyvalue"} /\ mode # "key"
  BY DEF Copies
<1>2. mode \in Running \ {"close"} /\ mode \in Running
  BY <1>1 DEF Running
<1>3. PICK d : Follow(stack, d, m) /\ Written \o ToCome(v, d) = v[root]
  BY <1>2, Zenon DEF Spelling
<1>4. text \in Seq(Symbols) /\ copied \in Nat /\ Written = text
  BY <1>1 DEF PrintInv, Buffer, Copying, Written
<1>5. IsKey \/ Current # Null
  BY <1>1 DEF PrintInv, Stack, IsKey
<1>6. Current \in D /\ ThisString \in Seq(Symbols)
  BY <1>2, <1>5, StringType DEF PrintInv
<1>7. v[Current] \in Seq(Symbols)
  BY <1>6, SpellTypes, Zenon DEF PrintInv
<1>8. d[1] \in Seq(Symbols)
  <2>1. Len(stack) \in Nat
    BY DEF PrintInv, Stack
  <2>2. 1 \in 1 .. Len(stack) + 1
    BY <2>1
  <2>3. d \in [1 .. Len(stack) + 1 -> Seq(Symbols)]
    BY <1>3, Zenon DEF Follow
  <2> QED
    BY <2>2, <2>3, Zenon
<1>9. <<":">> \o (v[Current] \o d[1]) \in Seq(Symbols)
  BY <1>7, <1>8, ShortSymbols, Appends, Zenon
<1>10. AfterThis(v, d) \in Seq(Symbols)
  BY <1>8, <1>9, Zenon DEF AfterThis
<1>11. ToCome(v, d) = TextFrom(Escapes(ThisString))[copied + 1] \o (<<Quote>> \o AfterThis(v, d))
  BY <1>1, Zenon DEF ToCome
<1> QED
  BY <1>3, <1>4, <1>6, <1>10, <1>11, Zenon

LEMMA CopySpelled ==
  ASSUME PrintInv, PrintCopy, root \in D, NEW v, NEW m, Spells(v, m), NoNUL(v[root]),
         Spelling(v, m)
  PROVE  Spelling(v, m)'
<1>1. /\ mode \in {"copykey", "copyvalue"} /\ copied < Len(ThisString)
      /\ text' = text \o EscapeOf(ThisString[copied + 1]) /\ copied' = copied + 1
      /\ mode' = mode /\ item' = item /\ root' = root /\ stack' = stack
  BY DEF PrintCopy, heap
<1>2. mode \in Copies /\ mode' \in Copies
  BY <1>1 DEF Copies
<1>3. text \in Seq(Symbols) /\ Written = text /\ ThisString \in Seq(Symbols) /\ copied \in Nat
  BY <1>2, CopyTypes, Zenon
<1>4. PICK d : /\ Follow(stack, d, m) /\ Written \o ToCome(v, d) = v[root]
               /\ AfterThis(v, d) \in Seq(Symbols)
               /\ ToCome(v, d) = TextFrom(Escapes(ThisString))[copied + 1]
                                   \o (<<Quote>> \o AfterThis(v, d))
  BY <1>2, CopyTypes, Zenon
<1>5. IsKey' = IsKey /\ Current' = Current /\ ThisString' = ThisString
  BY <1>1 DEF IsKey, Current, ThisString
<1>6. AfterThis(v, d)' = AfterThis(v, d)
  BY <1>5, Zenon DEF AfterThis
<1>7. PICK z \in Seq(Symbols) : z = <<Quote>> \o AfterThis(v, d)
  BY <1>4, ShortSymbols, Appends, Zenon
<1>8. PICK c \in Seq(Symbols), e \in Seq(Symbols) :
        /\ c = EscapeOf(ThisString[copied + 1])
        /\ e = TextFrom(Escapes(ThisString))[(copied + 1) + 1]
        /\ TextFrom(Escapes(ThisString))[copied + 1] = c \o e
  <2>1. Len(ThisString) \in Nat
    BY <1>3
  <2>2. copied + 1 \in 1 .. Len(ThisString) /\ (copied + 1) + 1 \in 1 .. Len(ThisString) + 1
    BY <1>1, <1>3, <2>1
  <2>3. EscapeOf(ThisString[copied + 1]) \in Seq(Symbols)
    BY <1>3, <2>2, EscapesType
  <2>4. /\ TextFrom(Escapes(ThisString))[(copied + 1) + 1] \in Seq(Symbols)
        /\ TextFrom(Escapes(ThisString))[copied + 1]
             = EscapeOf(ThisString[copied + 1]) \o TextFrom(Escapes(ThisString))[(copied + 1) + 1]
    BY <1>3, <2>2, EscapedText, Zenon
  <2> QED
    BY <2>3, <2>4, Zenon
<1>9. ToCome(v, d) = (c \o e) \o z
  BY <1>4, <1>7, <1>8, Zenon
<1>10. ToCome(v, d)' = e \o z
  <2>1. mode' # "key"
    BY <1>1
  <2>2. ToCome(v, d)' = TextFrom(Escapes(ThisString'))[copied' + 1] \o (<<Quote>> \o AfterThis(v, d)')
    BY <1>2, <2>1, Zenon DEF ToCome
  <2> QED
    BY <1>1, <1>5, <1>6, <1>7, <1>8, <2>2, Zenon
<1>11. Written' = text \o c
  BY <1>1, <1>2, <1>8, Zenon DEF Written
<1>12. Three(c, e, z) /\ e \o z \in Seq(Symbols)
  BY InThree, Appends, Zenon
<1>13. Three(text, c, e \o z)
  BY <1>3, <1>12, InThree, Zenon
<1>14. Written' \o ToCome(v, d)' = v[root']
  BY <1>1, <1>3, <1>4, <1>9, <1>10, <1>11, <1>12, <1>13, Zenon DEF Three
<1>15. Follow(stack, d, m)'
  BY <1>1, <1>4, FollowNext, Zenon
<1>16. mode' \notin {"after", "printed"}
  BY <1>1
<1> QED
  BY <1>14, <1>15, <1>16, Zenon DEF Spelling

LEMMA UnquoteSpelled ==
  ASSUME PrintInv, PrintUnquote, root \in D, NEW v, NEW m, Spells(v, m), NoNUL(v[root]),
         Spelling(v, m)
  PROVE  Spelling(v, m)'
<1>1. /\ mode \in {"copykey", "copyvalue"} /\ copied = Len(ThisString)
      /\ text' = SubSeq(text, 1, offset + OutputLength(ThisString) + 1) \o <<Quote, NUL>>
      /\ offset' = offset + OutputLength(ThisString) + 1 + 1
      /\ mode' = AfterString /\ item' = item /\ root' = root /\ stack' = stack
  BY DEF PrintUnquote, heap
<1>2. mode \in Copies
  BY <1>1 DEF Copies
<1>3. text \in Seq(Symbols) /\ Written = text /\ ThisString \in Seq(Symbols) /\ copied \in Nat
  BY <1>2, CopyTypes, Zenon
<1>4. PICK d : /\ Follow(stack, d, m) /\ Written \o ToCome(v, d) = v[root]
               /\ AfterThis(v, d) \in Seq(Symbols)
               /\ ToCome(v, d) = TextFrom(Escapes(ThisString))[copied + 1]
                                   \o (<<Quote>> \o AfterThis(v, d))
  BY <1>2, CopyTypes, Zenon
<1>5. PICK z \in Seq(Symbols) : z = AfterThis(v, d)
  BY <1>4, Zenon
<1>6. ToCome(v, d) = <<Quote>> \o z
  <2>1. TextFrom(Escapes(ThisString))[copied + 1] = <<>>
    BY <1>1, <1>3, EscapedText, Zenon
  <2>2. <<Quote>> \o z \in Seq(Symbols)
    BY ShortSymbols, Appends, Zenon
  <2> QED
    BY <1>4, <1>5, <2>1, <2>2, NoText, Zenon
<1>7. Len(text) = offset + OutputLength(ThisString) + 1 /\ offset \in Nat
  <2>1. /\ From(ThisString, copied + 1, OneChar) = 0 /\ From(ThisString, copied + 1, Control) = 0
    BY <1>1, <1>3, FromType
  <2>2. OutputLength(ThisString) \in Nat /\ Len(ThisString) \in Nat /\ Len(text) \in Nat
    BY <1>3, OutputLengthType
  <2>3. /\ Len(text) + (Len(ThisString) - copied) + From(ThisString, copied + 1, OneChar)
              + 5 * From(ThisString, copied + 1, Control) = offset + 1 + OutputLength(ThisString)
        /\ offset \in Nat
    BY <1>1, Zenon DEF PrintInv, Copying, Buffer
  <2> QED
    BY <1>1, <2>1, <2>2, <2>3
<1>8. text' = text \o <<Quote, NUL>> /\ offset' = Len(text) + 1
  <2>1. SubSeq(text, 1, Len(text)) = text
    BY <1>3, SubSeqFull
  <2> QED
    BY <1>1, <1>7, <2>1, Zenon
<1>9. SubSeq(text', 1, offset') = text \o <<Quote>> /\ text'[offset' + 1] = NUL
  <2>1. PICK w \in Seq(Symbols), x \in Seq(Symbols) : w = <<Quote, NUL>> /\ x = <<Quote>>
    <3>1. {Quote, NUL} \subseteq Symbols
      BY SymbolsOf DEF Literals
    <3> QED
      BY <3>1, ShortTexts, ShortSymbols
  <2>2. /\ Len(x) = 1 /\ Len(w) = 2 /\ \A i \in 1 .. Len(x) : w[i] = x[i]
        /\ w[Len(x) + 1] = NUL /\ Len(x) <= Len(w) /\ Len(x) < Len(w)
    BY <2>1
  <2>3. Seen(text, w, x)
    BY <1>3, <2>2, TextSeen, Zenon
  <2>4. /\ SubSeq(text \o w, 1, Len(text) + Len(x)) = text \o x
        /\ (text \o w)[Len(text) + Len(x) + 1] = w[Len(x) + 1]
    BY <2>2, <2>3, Zenon DEF Seen
  <2> QED
    BY <1>8, <2>1, <2>2, <2>4
<1>10. mode' \in Running \ Copies /\ mode' # "printed"
  BY <1>1 DEF AfterString, Running, Copies
<1>11. Written' = text \o <<Quote>>
  BY <1>9, <1>10, Zenon DEF Written
<1>12. ToCome(v, d)' = z
  <2>1. Current' = Current
    BY <1>1 DEF Current
  <2>2. mode' = IF IsKey THEN "colon" ELSE "after"
    BY <1>1, Zenon DEF AfterString
  <2>3. CASE IsKey
    <3>1. mode' = "colon" /\ mode' # "key" /\ mode' \notin Copies
      BY <2>2, <2>3 DEF Copies
    <3>2. ToCome(v, d)' = <<":">> \o (v[Current'] \o d[1])
      BY <3>1, Zenon DEF ToCome
    <3> QED
      BY <1>5, <2>1, <2>3, <3>2, Zenon DEF AfterThis
  <2>4. CASE ~IsKey
    <3>1. mode' = "after" /\ mode' \notin {"key", "colon", "value"} /\ mode' \notin Copies
      BY <2>2, <2>4 DEF Copies
    <3>2. ToCome(v, d)' = d[1]
      BY <3>1 DEF ToCome
    <3> QED
      BY <1>5, <2>4, <3>2, Zenon DEF AfterThis
  <2> QED
    BY <2>3, <2>4
<1>13. Three(text, <<Quote>>, z)
  BY <1>3, ShortSymbols, InThree, Zenon
<1>14. Written' \o ToCome(v, d)' = v[root']
  BY <1>1, <1>3, <1>4, <1>6, <1>11, <1>12, <1>13, Zenon DEF Three
<1>15. Follow(stack, d, m)'
  BY <1>1, <1>4, FollowNext, Zenon
<1> QED
  BY <1>9, <1>10, <1>14, <1>15, Zenon DEF Spelling

LEMMA LiteralSpelled ==
  ASSUME PrintInv, PrintLiteral, root \in D, NEW v, NEW m, Spells(v, m), NoNUL(v[root]),
         Spelling(v, m)
  PROVE  Spelling(v, m)'
<1>1. /\ mode = "value" /\ Current # Null /\ mode' = "after"
      /\ item[Current].type \in {"Number", "True", "False"}
      /\ Emit(Literal \o <<NUL>>) /\ item' = item /\ root' = root /\ stack' = stack
  BY DEF PrintLiteral, IsLiteral, OfType, heap
<1>2. mode \in Running \ Copies /\ mode' \in Running \ Copies /\ mode \in Running \ {"close"}
  BY <1>1 DEF Running, Copies
<1>3. PICK d : Follow(stack, d, m) /\ Written \o ToCome(v, d) = v[root]
  BY <1>2, Zenon DEF Spelling
<1>4. Current \in D
  BY <1>1, <1>2, StringType DEF PrintInv
<1>5. v[Current] \in Seq(Symbols) /\ v[Current] = Literal
  <2>1. v[Current] = ValueText(Current, m)
    BY <1>4, Zenon DEF Spells
  <2>2. ValueText(Current, m) = Literal
    BY <1>1 DEF ValueText, Literal
  <2> QED
    BY <1>4, <2>1, <2>2, SpellTypes, Zenon DEF PrintInv
<1>6. d[1] \in Seq(Symbols)
  <2>1. stack \in Seq(D \cup {Null}) /\ Len(stack) \in Nat
    BY DEF PrintInv, Stack
  <2>2. 1 \in 1 .. Len(stack) + 1
    BY <2>1
  <2> QED
    BY <1>3, <2>2, Zenon DEF Follow
<1>7. ToCome(v, d) = v[Current] \o d[1]
  <2>1. mode # "key" /\ mode \notin Copies /\ mode # "colon"
    BY <1>1 DEF Copies
  <2> QED
    BY <1>1, <2>1, Zenon DEF ToCome
<1>8. ToCome(v, d)' = d[1]
  <2>1. mode' \notin {"key", "colon", "value"} /\ mode' \notin Copies
    BY <1>1 DEF Copies
  <2> QED
    BY <1>1, <2>1 DEF ToCome
<1>9. PICK x \in Seq(Symbols), y \in Seq(Symbols), w \in Seq(Symbols) :
        /\ x = Literal /\ y = d[1] /\ w = x \o <<NUL>>
  BY <1>5, <1>6, ShortSymbols, Appends, Zenon
<1>10. Emit(w) /\ ToCome(v, d) = x \o y /\ ToCome(v, d)' = y
  BY <1>1, <1>5, <1>7, <1>8, <1>9, Zenon
<1>11. Follow(stack, d, m)'
  BY <1>1, <1>3, FollowNext, Zenon
<1> QED
  BY <1>1, <1>2, <1>3, <1>9, <1>10, <1>11, SpellingMoves

LEMMA ColonSpelled ==
  ASSUME PrintInv, PrintColon, root \in D, NEW v, NEW m, Spells(v, m), NoNUL(v[root]),
         Spelling(v, m)
  PROVE  Spelling(v, m)'
<1>1. /\ mode = "colon" /\ mode' = "value"
      /\ Emit(<<":">>) /\ item' = item /\ root' = root /\ stack' = stack
  BY DEF PrintColon, heap
<1>2. mode \in Running \ Copies /\ mode' \in Running \ Copies
  BY <1>1 DEF Running, Copies
<1>3. PICK d : Follow(stack, d, m) /\ Written \o ToCome(v, d) = v[root]
  BY <1>2, Zenon DEF Spelling
<1>4. stack # <<>> /\ stack \in Seq(D \cup {Null}) /\ stack[1] \in D
  BY <1>1 DEF PrintInv, Stack, Running
<1>5. v[Current] \in Seq(Symbols) /\ d[1] \in Seq(Symbols) /\ Current' = Current
  <2>1. Current \in D /\ Current' = Current
    BY <1>1, <1>4 DEF Current
  <2>2. d[1] \in Seq(Symbols)
    BY <1>3, <1>4, FollowPop, Zenon
  <2> QED
    BY <2>1, <2>2, SpellTypes, Zenon DEF PrintInv
<1>6. ToCome(v, d) = <<":">> \o (v[Current] \o d[1])
  <2>1. mode # "key" /\ mode \notin Copies
    BY <1>1 DEF Copies
  <2> QED
    BY <1>1, <2>1, Zenon DEF ToCome
<1>7. ToCome(v, d)' = v[Current] \o d[1]
  <2>1. mode' # "key" /\ mode' # "colon" /\ mode' \notin Copies
    BY <1>1 DEF Copies
  <2>2. ToCome(v, d)' = v[Current'] \o d[1]
    BY <1>1, <2>1, Zenon DEF ToCome
  <2> QED
    BY <1>5, <2>2, Zenon
<1>8. PICK x \in Seq(Symbols), y \in Seq(Symbols) : x = <<":">> /\ y = v[Current] \o d[1]
  BY <1>5, ShortSymbols, Appends, Zenon
<1>9. Emit(x) /\ ToCome(v, d) = x \o y /\ ToCome(v, d)' = y
  BY <1>1, <1>6, <1>7, <1>8, Zenon
<1>10. Follow(stack, d, m)'
  BY <1>1, <1>3, FollowNext, Zenon
<1>11. mode' # "after"
  BY <1>1
<1> QED
  BY <1>1, <1>2, <1>3, <1>8, <1>9, <1>10, <1>11, SpellingMoves

LEMMA CloseSpelled ==
  ASSUME PrintInv, PrintClose, root \in D, NEW v, NEW m, Spells(v, m), NoNUL(v[root]),
         Spelling(v, m)
  PROVE  Spelling(v, m)'
<1>1. /\ mode = "close" /\ mode' = "after"
      /\ Emit(<<"}", NUL>>) /\ item' = item /\ root' = root /\ stack' = Tail(stack)
  BY DEF PrintClose, heap
<1>2. mode \in Running \ Copies /\ mode' \in Running \ Copies
  BY <1>1 DEF Running, Copies
<1>3. PICK d : Follow(stack, d, m) /\ Written \o ToCome(v, d) = v[root]
  BY <1>2, Zenon DEF Spelling
<1>4. stack # <<>> /\ stack \in Seq(D \cup {Null})
  BY <1>1 DEF PrintInv, Stack
<1>5. d[2] \in Seq(Symbols) /\ \E e : Follow(Tail(stack), e, m) /\ e[1] = d[2]
  BY <1>3, <1>4, FollowPop, Zenon
<1>6. PICK e : Follow(Tail(stack), e, m) /\ e[1] = d[2]
  BY <1>5
<1>7. ToCome(v, d) = <<"}">> \o d[2]
  <2>1. mode \notin {"key", "colon", "value", "after"} /\ mode \notin Copies
    BY <1>1 DEF Copies
  <2> QED
    BY <2>1 DEF ToCome
<1>8. ToCome(v, e)' = e[1]
  <2>1. mode' \notin {"key", "colon", "value"} /\ mode' \notin Copies
    BY <1>1 DEF Copies
  <2> QED
    BY <1>1, <2>1 DEF ToCome
<1>9. PICK x \in Seq(Symbols), y \in Seq(Symbols), w \in Seq(Symbols) :
        x = <<"}">> /\ y = d[2] /\ w = x \o <<NUL>> /\ w = <<"}", NUL>>
  BY <1>5, ShortSymbols, Appends, Pairs, Zenon
<1>10. Emit(w) /\ ToCome(v, d) = x \o y /\ ToCome(v, e)' = y
  BY <1>1, <1>6, <1>7, <1>8, <1>9, Zenon
<1>11. Follow(stack, e, m)'
  BY <1>1, <1>6, FollowNext, Zenon
<1> QED
  BY <1>1, <1>2, <1>3, <1>9, <1>10, <1>11, SpellingMoves

\* In front of the member n, of which e is behind the object: what is to come.
ComesNext(v, d, m, n, e) == ToCome(v, d) = m[n] \o (<<"}">> \o e)

LEMMA MemberNext ==
  ASSUME Items, NEW v, NEW m, Spells(v, m), NEW n \in D \cup {Null}, NEW e \in Seq(Symbols),
         NEW d, Ahead(n, m, e, d),
         item' = item, stack' # <<>>, Head(stack') = n,
         mode' = IF n = Null THEN "close" ELSE "key"
  PROVE  ComesNext(v, d, m, n, e)'
<1>1. <<"}">> \o e \in Seq(Symbols)
  BY ShortSymbols, Appends, Zenon
<1>2. CASE n = Null
  <2>1. mode' \notin {"key", "colon", "value", "after"} /\ mode' \notin Copies
    BY <1>2 DEF Copies
  <2>2. ToCome(v, d)' = <<"}">> \o d[2]
    BY <2>1 DEF ToCome
  <2>3. m[n] = <<>>
    BY <1>2, Zenon DEF Spells
  <2>4. <<>> \o (<<"}">> \o e) = <<"}">> \o e
    BY <1>1, NoText, Zenon
  <2> QED
    BY <2>2, <2>3, <2>4, Zenon DEF Ahead, ComesNext
<1>3. CASE n # Null
  <2>1. n \in D /\ mode' = "key"
    BY <1>3
  <2>2. Current' = n /\ IsKey' /\ ThisString' = item[n].string
    BY <2>1 DEF Current, IsKey, ThisString
  <2>3. ToCome(v, d)' = InQuotes(ThisString') \o AfterThis(v, d)'
    BY <2>1, Zenon DEF ToCome
  <2>4. AfterThis(v, d)' = <<":">> \o (v[n] \o d[1])
    BY <2>2, Zenon DEF AfterThis
  <2>5. MembersAhead(n, v, m, <<"}">> \o e)
    BY <1>1, <2>1, MembersToCome, Zenon
  <2> QED
    BY <2>2, <2>3, <2>4, <2>5, Zenon DEF MembersAhead, Ahead, ComesNext
<1> QED
  BY <1>2, <1>3

LEMMA Pushed ==
  ASSUME NEW S, NEW s \in Seq(S), NEW n
  PROVE  <<n>> \o s # <<>> /\ Head(<<n>> \o s) = n
OBVIOUS

LEMMA OpenSpelled ==
  ASSUME PrintInv, PrintOpen, root \in D, NEW v, NEW m, Spells(v, m), NoNUL(v[root]),
         Spelling(v, m)
  PROVE  Spelling(v, m)'
<1>1. /\ mode = "value" /\ Current # Null /\ item[Current].type = "Object"
      /\ Emit(<<"{">>) /\ item' = item /\ root' = root
      /\ stack' = <<item[Current].child>> \o stack
      /\ mode' = IF item[Current].child = Null THEN "close" ELSE "key"
  BY DEF PrintOpen, IsObject, OfType, heap
<1>2. /\ mode \in Running \ Copies /\ mode' \in Running \ Copies
      /\ mode \in Running \ {"close"} /\ mode' # "after"
  BY <1>1 DEF Running, Copies
<1>3. PICK d : Follow(stack, d, m) /\ Written \o ToCome(v, d) = v[root]
  BY <1>2, Zenon DEF Spelling
<1>4. stack \in Seq(D \cup {Null}) /\ Items /\ Current \in D
  BY <1>1, <1>2, StringType DEF PrintInv, Stack
<1>5. PICK n \in D \cup {Null} : n = item[Current].child
  BY <1>4, SpellTypes, Zenon
<1>6. m[n] \in Seq(Symbols) /\ Later(n, m) \in Seq(Symbols)
  <2>1. CASE n = Null
    BY <2>1, <1>4, SpellTypes, NoText, Zenon DEF Later
  <2>2. CASE n # Null
    BY <2>2, <1>4, SpellTypes, Zenon
  <2> QED
    BY <2>1, <2>2
<1>7. /\ d[1] \in Seq(Symbols)
      /\ \E e : Follow(<<n>> \o stack, e, m) /\ Ahead(n, m, d[1], e)
  BY <1>3, <1>4, <1>6, FollowPush, Zenon
<1>8. PICK e : Follow(<<n>> \o stack, e, m) /\ Ahead(n, m, d[1], e)
  BY <1>7
<1>9. stack' # <<>> /\ Head(stack') = n /\ stack' = <<n>> \o stack
  <2>1. stack' = <<n>> \o stack
    BY <1>1, <1>5, Zenon
  <2> QED
    BY <1>4, <2>1, Pushed
<1>10. ToCome(v, e)' = m[n] \o (<<"}">> \o d[1])
  <2>1. ComesNext(v, e, m, n, d[1])'
    BY <1>1, <1>4, <1>5, <1>7, <1>8, <1>9, MemberNext, Zenon
  <2> QED
    BY <2>1, Zenon DEF ComesNext
<1>11. v[Current] = (<<"{">> \o m[n]) \o <<"}">>
  <2>1. v[Current] = ValueText(Current, m)
    BY <1>4, Zenon DEF Spells
  <2> QED
    BY <1>1, <1>5, <2>1 DEF ValueText
<1>12. ToCome(v, d) = v[Current] \o d[1]
  <2>1. mode # "key" /\ mode \notin Copies /\ mode # "colon"
    BY <1>1 DEF Copies
  <2> QED
    BY <1>1, <2>1, Zenon DEF ToCome
<1>13. Four(<<"{">>, m[n], <<"}">>, d[1])
  BY <1>6, <1>7, ShortSymbols, InFour, Zenon
<1>14. PICK x \in Seq(Symbols), y \in Seq(Symbols) :
         x = <<"{">> /\ y = m[n] \o (<<"}">> \o d[1])
  BY <1>6, <1>7, ShortSymbols, Appends, Zenon
<1>15. Emit(x) /\ ToCome(v, d) = x \o y /\ ToCome(v, e)' = y
  BY <1>1, <1>10, <1>11, <1>12, <1>13, <1>14, Zenon DEF Four
<1>16. Follow(stack, e, m)'
  BY <1>1, <1>8, <1>9, FollowNext, Zenon
<1> QED
  BY <1>1, <1>2, <1>3, <1>14, <1>15, <1>16, SpellingMoves

LEMMA CommaSpelled ==
  ASSUME PrintInv, PrintComma, root \in D, NEW v, NEW m, Spells(v, m), NoNUL(v[root]),
         Spelling(v, m)
  PROVE  Spelling(v, m)'
<1>1. /\ mode = "after" /\ stack # <<>>
      /\ Emit(Separator) /\ item' = item /\ root' = root
      /\ stack' = <<item[Head(stack)].next>> \o Tail(stack)
      /\ mode' = IF item[Head(stack)].next = Null THEN "close" ELSE "key"
  BY DEF PrintComma, heap
<1>2. /\ mode \in Running \ Copies /\ mode' \in Running \ Copies /\ mode' # "after"
  BY <1>1 DEF Running, Copies
<1>3. PICK d : Follow(stack, d, m) /\ Written \o ToCome(v, d) = v[root]
  BY <1>2, Zenon DEF Spelling
<1>4. /\ stack \in Seq(D \cup {Null}) /\ Tail(stack) \in Seq(D \cup {Null}) /\ Items
      /\ stack[1] \in D /\ Head(stack) = stack[1]
  BY <1>1 DEF PrintInv, Stack, Running
<1>5. PICK n \in D \cup {Null} : n = item[stack[1]].next
  BY <1>4, SpellTypes, Zenon
<1>6. m[n] \in Seq(Symbols) /\ Later(n, m) \in Seq(Symbols)
  <2>1. CASE n = Null
    BY <2>1, <1>4, SpellTypes, NoText, Zenon DEF Later
  <2>2. CASE n # Null
    BY <2>2, <1>4, SpellTypes, Zenon
  <2> QED
    BY <2>1, <2>2
<1>7. /\ d[1] = Later(stack[1], m) \o (<<"}">> \o d[2])
      /\ d[1] \in Seq(Symbols) /\ d[2] \in Seq(Symbols)
      /\ \E c : Follow(Tail(stack), c, m) /\ c[1] = d[2]
  <2>1. /\ Ahead(stack[1], m, d[2], d) /\ d[1] \in Seq(Symbols) /\ d[2] \in Seq(Symbols)
        /\ \E c : Follow(Tail(stack), c, m) /\ c[1] = d[2]
    BY <1>1, <1>3, <1>4, FollowPop, Zenon
  <2> QED
    BY <2>1, Zenon DEF Ahead
<1>8. PICK c : Follow(Tail(stack), c, m) /\ c[1] = d[2]
  BY <1>7
<1>9. \E e : Follow(<<n>> \o Tail(stack), e, m) /\ Ahead(n, m, c[1], e)
  BY <1>4, <1>6, <1>8, FollowPush, Zenon
<1>10. PICK e : Follow(<<n>> \o Tail(stack), e, m) /\ Ahead(n, m, d[2], e)
  BY <1>8, <1>9, Zenon
<1>11. stack' # <<>> /\ Head(stack') = n /\ stack' = <<n>> \o Tail(stack)
  <2>1. stack' = <<n>> \o Tail(stack)
    BY <1>1, <1>4, <1>5, Zenon
  <2> QED
    BY <1>4, <2>1, Pushed
<1>12. mode' = IF n = Null THEN "close" ELSE "key"
  BY <1>1, <1>4, <1>5, Zenon
<1>13. ToCome(v, e)' = m[n] \o (<<"}">> \o d[2])
  <2>1. ComesNext(v, e, m, n, d[2])'
    BY <1>1, <1>4, <1>5, <1>7, <1>10, <1>11, <1>12, MemberNext, Zenon
  <2> QED
    BY <2>1, Zenon DEF ComesNext
<1>14. ToCome(v, d) = d[1]
  <2>1. mode \notin {"key", "colon", "value"} /\ mode \notin Copies
    BY <1>1 DEF Copies
  <2> QED
    BY <1>1, <2>1 DEF ToCome
<1>15. PICK y \in Seq(Symbols), z \in Seq(Symbols) :
         y = m[n] \o z /\ z = <<"}">> \o d[2]
  BY <1>6, <1>7, ShortSymbols, Appends, Zenon
<1>16. PICK x \in Seq(Symbols) : Later(stack[1], m) = x \o m[n] /\ Separator = x \o <<NUL>>
  <2>1. CASE n = Null
    <3>1. m[n] = <<>> /\ Later(stack[1], m) = <<>> /\ Separator = <<NUL>>
      BY <1>4, <1>5, <2>1, Zenon DEF Later, Separator, Spells
    <3> QED
      BY <3>1, NoText, ShortSymbols, Zenon
  <2>2. CASE n # Null
    <3>1. stack[1] # Null
      BY <1>4 DEF Items
    <3>2. Later(stack[1], m) = <<",">> \o m[n] /\ Separator = <<",", NUL>>
      BY <1>4, <1>5, <2>2, <3>1, Zenon DEF Later, Separator
    <3> QED
      BY <3>2, Pairs, ShortSymbols, Zenon
  <2> QED
    BY <2>1, <2>2
<1>17. PICK w \in Seq(Symbols) : w = x \o <<NUL>>
  BY ShortSymbols, Appends, Zenon
<1>18. Three(x, m[n], z)
  BY <1>6, InThree, Zenon
<1>19. Emit(w) /\ ToCome(v, d) = x \o y /\ ToCome(v, e)' = y
  BY <1>1, <1>7, <1>13, <1>14, <1>15, <1>16, <1>17, <1>18, Zenon DEF Three
<1>20. Follow(stack, e, m)'
  BY <1>1, <1>10, <1>11, FollowNext, Zenon
<1> QED
  BY <1>1, <1>2, <1>3, <1>17, <1>19, <1>20, SpellingMoves

LEMMA StartSpelled ==
  ASSUME PrintInv, PrintStart, root \in D, NEW v, NEW m, Spells(v, m)
  PROVE  Spelling(v, m)'
<1>1. /\ mode = "off" /\ mode' \in {"value", "failed"} /\ item' = item /\ root' = root
      /\ text' = text /\ offset' = offset /\ stack' = stack
  BY DEF PrintStart
<1>2. CASE mode' = "failed"
  BY <1>2 DEF Spelling, Running
<1>3. CASE mode' = "value"
  <2>1. text \in Seq(Symbols) /\ Len(text) = 0 /\ offset = 0 /\ stack = <<>>
    BY <1>1 DEF PrintInv, Buffer, Stack, Running
  <2>2. mode' \notin Copies /\ mode' # "key" /\ mode' # "colon" /\ mode' # "after"
    BY <1>3 DEF Copies
  <2>3. SubSeq(text', 1, offset') = <<>>
    BY <1>1, <2>1
  <2>4. Written' = <<>>
    BY <2>2, <2>3, Zenon DEF Written
  <2> DEFINE d == [i \in 1 .. 1 |-> <<>>]
  <2>5. /\ d \in [1 .. 1 -> Seq(Symbols)] /\ d[1] = <<>>
    BY NoText
  <2> HIDE DEF d
  <2>6. Len(stack') + 1 = 1 /\ 1 .. Len(stack') = {}
    BY <1>1, <2>1
  <2>7. Follow(stack, d, m)'
    BY <2>5, <2>6, Zenon DEF Follow
  <2>8. Current' = root
    BY <1>1, <2>1 DEF Current
  <2>9. ToCome(v, d)' = v[root] \o <<>>
    <3>1. ToCome(v, d)' = v[Current'] \o d[1]
      BY <1>3, <2>2, Zenon DEF ToCome
    <3> QED
      BY <2>5, <2>8, <3>1, Zenon
  <2>10. v[root] \in Seq(Symbols)
    BY SpellTypes, Zenon DEF PrintInv
  <2>11. ToCome(v, d)' = v[root] /\ <<>> \o v[root] = v[root]
    BY <2>9, <2>10, NoText, Zenon
  <2>12. Written' \o ToCome(v, d)' = v[root']
    BY <1>1, <2>4, <2>11, Zenon
  <2>13. mode' # "after" /\ mode' # "printed"
    BY <1>3
  <2> QED
    BY <2>7, <2>12, <2>13, Zenon DEF Spelling
<1> QED
  BY <1>1, <1>2, <1>3

LEMMA EndSpelled ==
  ASSUME PrintInv, PrintEnd, root \in D, NEW v, NEW m, Spells(v, m), NoNUL(v[root]),
         Spelling(v, m)
  PROVE  Spelling(v, m)'
<1>1. /\ mode = "after" /\ stack = <<>> /\ mode' = "printed" /\ root' = root
      /\ text' = SubSeq(text, 1, offset + 1)
  BY DEF PrintEnd
<1>2. mode \in Running /\ mode \notin Copies /\ mode \notin {"key", "colon", "value"}
  BY <1>1 DEF Running, Copies
<1>3. PICK d : Follow(stack, d, m) /\ Written \o ToCome(v, d) = v[root]
  BY <1>2, Zenon DEF Spelling
<1>4. text[offset + 1] = NUL
  BY <1>1, Zenon DEF Spelling
<1>5. text \in Seq(Symbols) /\ offset \in Nat /\ offset < Len(text) /\ Len(text) \in Nat
  BY <1>1 DEF PrintInv, Buffer
<1>6. ToCome(v, d) = <<>>
  <2>1. ToCome(v, d) = d[1]
    BY <1>1, <1>2 DEF ToCome
  <2>2. Len(stack) + 1 = 1
    BY <1>1
  <2> QED
    BY <1>3, <2>1, <2>2, Zenon DEF Follow
<1>7. PICK w \in Seq(Symbols) : w = SubSeq(text, 1, offset) /\ v[root] = w
  <2>1. SubSeq(text, 1, offset) \in Seq(Symbols)
    BY <1>5
  <2>2. Written = SubSeq(text, 1, offset)
    BY <1>2, Zenon DEF Written
  <2> QED
    BY <1>3, <1>6, <2>1, <2>2, NoText, Zenon
<1>8. /\ Len(w) = offset /\ \A i \in 1 .. offset : w[i] = text[i]
      /\ \A i \in 1 .. offset : w[i] # NUL
  BY <1>5, <1>7 DEF NoNUL
<1>9. PICK t \in Seq(Symbols) : t = text'
  <2>1. SubSeq(text, 1, offset + 1) \in Seq(Symbols)
    BY <1>5
  <2> QED
    BY <1>1, <2>1, Zenon
<1>10. /\ Len(t) = offset + 1 /\ \A i \in 1 .. offset + 1 : t[i] = text[i]
  BY <1>1, <1>5, <1>9
<1>11. CString(t) = SubSeq(t, 1, offset)
  <2>1. offset \in 0 .. Len(t) /\ offset + 1 \in 1 .. offset + 1
    BY <1>5, <1>10
  <2>2. \A i \in 1 .. offset : t[i] # NUL
    BY <1>5, <1>8, <1>10
  <2>3. t[offset + 1] = NUL
    BY <1>4, <1>10, <2>1
  <2> QED
    BY <2>1, <2>2, <2>3, CStringUpTo
<1>12. SubSeq(t, 1, offset) = w
  <2>1. /\ SubSeq(t, 1, offset) \in Seq(Symbols) /\ Len(SubSeq(t, 1, offset)) = offset
        /\ \A i \in 1 .. offset : SubSeq(t, 1, offset)[i] = t[i]
    BY <1>5, <1>10
  <2>2. \A i \in 1 .. offset : SubSeq(t, 1, offset)[i] = w[i]
    BY <1>5, <1>8, <1>10, <2>1
  <2> QED
    BY <1>8, <2>1, <2>2, SeqEqual
<1>13. CString(text') = v[root']
  BY <1>1, <1>7, <1>9, <1>11, <1>12, Zenon
<1>14. mode' \notin Running /\ mode' # "after"
  BY <1>1 DEF Running
<1> QED
  BY <1>13, <1>14, Zenon DEF Spelling

LEMMA SpellingStep ==
  ASSUME PrintInv, [PrintStart \/ PrintStep]_printVars, root \in D, NEW v, NEW m,
         Spells(v, m), NoNUL(v[root]), Spelling(v, m)
  PROVE  Spelling(v, m)'
<1>1. CASE UNCHANGED printVars
  <2>1. UNCHANGED <<item, root, mode, text, offset, length, copied, stack>>
    BY <1>1 DEF printVars, heap, printer
  <2>2. Written' = Written /\ Current' = Current /\ ThisString' = ThisString /\ IsKey' = IsKey
    BY <2>1 DEF Written, Current, ThisString, IsKey
  <2>3. ASSUME NEW d PROVE /\ AfterThis(v, d)' = AfterThis(v, d)
                           /\ (Follow(stack, d, m) => Follow(stack, d, m)')
    <3>1. AfterThis(v, d)' = AfterThis(v, d)
      BY <2>2, Zenon DEF AfterThis
    <3> QED
      BY <2>1, <3>1, FollowNext, Zenon
  <2>4. ASSUME NEW d PROVE ToCome(v, d)' = ToCome(v, d)
    <3>1. AfterThis(v, d)' = AfterThis(v, d)
      BY <2>3
    <3> QED
      BY <2>1, <2>2, <3>1, Zenon DEF ToCome
  <2> QED
    BY <2>1, <2>2, <2>3, <2>4, Zenon DEF Spelling
<1>2. CASE PrintStart
  BY <1>2, StartSpelled
<1>3. CASE PrintPlain \/ PrintQuote \/ PrintCopy \/ PrintUnquote
  BY <1>3, PlainSpelled, QuoteSpelled, CopySpelled, UnquoteSpelled
<1>4. CASE PrintLiteral \/ PrintOpen \/ PrintColon \/ PrintComma \/ PrintClose
  BY <1>4, LiteralSpelled, OpenSpelled, ColonSpelled, CommaSpelled, CloseSpelled
<1>5. CASE PrintUnprintable \/ PrintNoRoom \/ PrintEndFails
  <2>1. mode' = "failed"
    BY <1>5 DEF PrintUnprintable, PrintNoRoom, EnsureFails, PrintEndFails, Fails
  <2> QED
    BY <2>1 DEF Spelling, Running
<1>6. CASE PrintEnd
  BY <1>6, EndSpelled
<1> QED
  BY <1>1, <1>2, <1>3, <1>4, <1>5, <1>6 DEF PrintStep

LEMMA TextInvStep ==
  ASSUME PrintInv, [PrintStart \/ PrintStep]_printVars, NEW v, NEW m, TextInv(v, m)
  PROVE  TextInv(v, m)'
<1>1. item' = item /\ root' = root /\ D' = D /\ Items
  <2>1. item' = item /\ root' = root
    BY ItemsStep DEF PrintInv, printVars, heap
  <2> QED
    BY <2>1 DEF D, PrintInv
<1>2. Null \notin D /\ (root # Null => root \in D)
  BY <1>1 DEF Items
<1>3. CASE root = Null
  <2>1. mode \in {"off", "value", "failed"} /\ stack = <<>> /\ Current = Null
    BY <1>3 DEF TextInv, Current
  <2>2. mode' \in {"off", "value", "failed"} /\ stack' = <<>>
    BY <2>1 DEF PrintStart, PrintStep, PrintPlain, PrintQuote, PrintCopy, PrintUnquote,
       PrintLiteral, PrintOpen, PrintColon, PrintComma, PrintClose, PrintUnprintable,
       PrintNoRoom, PrintEnd, PrintEndFails, EnsureFails, Fails, IsText, IsLiteral,
       IsObject, OfType, printVars, printer
  <2> QED
    BY <1>1, <1>3, <2>2 DEF TextInv
<1>4. CASE root # Null
  <2>1. ASSUME Spells(v, m)', NoNUL(v[root']) PROVE Spelling(v, m)'
    <3>1. Spells(v, m)
      BY <1>1, <2>1, Zenon DEF Spells, ValueText, Later
    <3>2. NoNUL(v[root])
      BY <1>1, <2>1
    <3>3. Spelling(v, m)
      BY <1>4, <3>1, <3>2, Zenon DEF TextInv
    <3> QED
      BY <1>2, <1>4, <3>1, <3>2, <3>3, SpellingStep, Zenon
  <2> QED
    BY <1>1, <1>4, <2>1, Zenon DEF TextInv
<1> QED
  BY <1>3, <1>4

LEMMA TextInvInit == ASSUME PrintInit, NEW v, NEW m PROVE TextInv(v, m)
BY DEF PrintInit, NoPrint, TextInv, Spelling, Running

\* What cJSON_PrintUnformatted returns is the text of what it is given: if v and m
\* are texts of the items such as JSON has them (the strings escaped, the members in
\* the order of their list, a comma between any two), and there is no NUL among them
\* for C to see the end in, the string is that of the root, whatever is escaped on
\* the way and however often the buffer grows (print_string_ptr, print_number,
\* print_object, print_value, print).
THEOREM PrinterRight ==
  ASSUME NEW v, NEW m
  PROVE  PrintSpec =>
           [](mode = "printed" /\ Spells(v, m) /\ NoNUL(v[root]) => CString(text) = v[root])
<1> DEFINE Inv == PrintInv /\ TextInv(v, m)
           Goal == mode = "printed" /\ Spells(v, m) /\ NoNUL(v[root]) => CString(text) = v[root]
<1>1. PrintInit => Inv
  BY PrintInvInit, TextInvInit
<1>2. Inv /\ [PrintStart \/ PrintStep]_printVars => Inv'
  BY PrintInvStep, TextInvStep
<1>3. Inv => Goal
  BY DEF TextInv, Spelling
<1> QED
  BY <1>1, <1>2, <1>3, PTL DEF PrintSpec
=============================================================================
