------------------------- MODULE CloudClient_proofs -------------------------
(***************************************************************************)
(* For every reply, every way it is cut into pieces and every allocation   *)
(* that is refused: the response buffer holds what is written to it, the   *)
(* JSON parser never leaves the text, the lists of items are sound, and a  *)
(* call that returns leaves nothing behind.                                *)
(***************************************************************************)
EXTENDS CloudClient, CJsonPrint_proofs, SequenceTheorems

-----------------------------------------------------------------------------
(* The response buffer *)

\* The reply's type, and a piece that is part of what has not yet arrived.
ResponseInv ==
  /\ data \in Seq(STRING) /\ rest \in Seq(STRING)
  /\ cap \in Nat /\ next \in Nat /\ piece \in Nat /\ piece <= Len(rest)
  /\ pc # "receive" => piece = 0
  /\ ResponseInBounds

LEMMA ResponseInit == Init => ResponseInv
BY DEF Init, ResponseInv, ResponseInBounds

\* What is left of a sequence, and what is taken of it.
LEMMA TakePart ==
  ASSUME NEW s \in Seq(STRING), NEW n \in Nat, n <= Len(s)
  PROVE  /\ SubSeq(s, 1, n) \in Seq(STRING) /\ Len(SubSeq(s, 1, n)) = n
         /\ SubSeq(s, n + 1, Len(s)) \in Seq(STRING)
OBVIOUS

\* A step that leaves the response and the reply alone, and does not end a
\* transfer within a piece.
LEMMA ResponseUnchanged ==
  ASSUME ResponseInv, UNCHANGED <<response, rest>>, pc' # "receive" => piece = 0
  PROVE  ResponseInv'
BY DEF ResponseInv, ResponseInBounds, response

\* A call that returns leaves nothing of either.
LEMMA ResponseGone ==
  ASSUME Ends
  PROVE  ResponseInv'
BY DEF Ends, Return, ResponseInv, ResponseInBounds

LEMMA ResponseStep == ResponseInv /\ [Next]_vars => ResponseInv'
<1>. SUFFICES ASSUME ResponseInv, [Next]_vars PROVE ResponseInv'
  OBVIOUS
<1>. USE ClientAssumption
<1>1. CASE UNCHANGED vars
  BY <1>1, ResponseUnchanged DEF ResponseInv, vars, http, response
<1>2. CASE Poll \/ (\E d \in Devices : Upload(d))
              \/ (\E success \in BOOLEAN, m \in Messages : Report(success, m))
  BY <1>2, ResponseUnchanged DEF ResponseInv, Poll, Upload, Report, http, response
<1>3. CASE CreateRoot \/ AddItem \/ AddValue \/ AddKey \/ AddDrop \/ PrintBody \/ PrintDone
  BY <1>3, ResponseUnchanged
     DEF ResponseInv, CreateRoot, AddItem, AddValue, AddKey, AddDrop, PrintBody, PrintDone, http, response
<1>4. CASE RequestBegins \/ RequestNoMemory \/ PerformEnds \/ PollAnswered \/ ParseBody
  BY <1>4, ResponseUnchanged
     DEF ResponseInv, RequestBegins, RequestNoMemory, PerformEnds, PollAnswered, ParseBody, http, response
<1>5. CASE CallEnds \/ PollRefused \/ PollParsed
  BY <1>5, ResponseGone DEF CallEnds, PollRefused, PollParsed
<1>6. ASSUME NEW r \in Replies \cup Acks, Answer(r) PROVE ResponseInv'
  BY <1>6 DEF Answer, ResponseInv, ResponseInBounds, response
<1>7. ASSUME NEW n \in Pieces, Arrive(n) PROVE ResponseInv'
  BY <1>7 DEF Arrive, ResponseInv, ResponseInBounds, http
<1>8. CASE Grow
  BY <1>8 DEF Grow, ResponseInv, ResponseInBounds, http
<1>9. CASE Store
  BY <1>9, TakePart DEF Store, Take, NeededRoom, ResponseInv, ResponseInBounds
<1>10. CASE GrowStore
  BY <1>10, TakePart DEF GrowStore, Take, NeededRoom, ResponseInv, ResponseInBounds
<1>11. CASE Drop
  BY <1>11, TakePart DEF Drop, ResponseInv, ResponseInBounds
<1>. QED
  BY <1>1, <1>2, <1>3, <1>4, <1>5, <1>6, <1>7, <1>8, <1>9, <1>10, <1>11 DEF Next, CallStep

\* No reply of any length, cut in any way, is written beyond its buffer, the
\* final NUL included (http_event_handler).
THEOREM ResponseSafe == Spec => []ResponseInBounds
<1>1. ResponseInv => ResponseInBounds
  BY DEF ResponseInv
<1>. QED
  BY ResponseInit, ResponseStep, <1>1, PTL DEF Spec

-----------------------------------------------------------------------------
(* The parser *)

\* A text with one more symbol.
LEMMA EndsWith ==
  ASSUME NEW S, NEW s \in Seq(S), NEW x \in S, NEW t, t = s \o <<x>>
  PROVE  t \in Seq(S) /\ Len(t) > 0 /\ t[Len(t)] = x
<1>1. t \in Seq(S)
  OBVIOUS
<1>2. Len(t) = Len(s) + 1 /\ Len(s) \in Nat
  OBVIOUS
<1>3. t[Len(t)] = x
  BY <1>2
<1> QED
  BY <1>1, <1>2, <1>3

\* The text ends with its NUL; the parser stands in it, and in front of it
\* when it looks for the next element.
ParserInv ==
  /\ step = "off" => pos = 0
  /\ step # "off" =>
       /\ content \in Seq(Symbols) /\ Size > 0 /\ Char(Size - 1) = NUL
       /\ pos \in Nat /\ pos < Size
       /\ step = "next" => pos + 1 < Size

\* Symbols are counted within the text: at most up to its end, and not up to
\* its end if the NUL is not counted.
LEMMA PastBounds ==
  ASSUME content \in Seq(Symbols), NEW i \in Nat, i <= Size, NEW S
  PROVE  /\ Past(i, S) \in i .. Size
         /\ i < Size /\ Char(Size - 1) \notin S => Past(i, S) < Size
<1> DEFINE run == {j \in i .. Size - 1 : \A k \in i .. j : Char(k) \in S}
<1>1. Size \in Nat /\ Past(i, S) = i + Cardinality(run)
  BY DEF Size, Past
<1>2. Cardinality(run) \in 0 .. Size - i
  <2>1. i \in Int /\ Size - 1 \in Int /\ i <= (Size - 1) + 1
    BY <1>1
  <2>2. Cardinality(run) \in Nat /\ Cardinality(run) <= (Size - 1) - i + 1
    BY <2>1, SubsetOfInterval
  <2> QED
    BY <1>1, <2>2
<1>3. ASSUME i < Size, Char(Size - 1) \notin S PROVE Cardinality(run) \in 0 .. Size - 1 - i
  <2>1. i \in Int /\ Size - 2 \in Int /\ i <= (Size - 2) + 1
    BY <1>1, <1>3
  <2>2. run \in SUBSET (i .. Size - 2)
    BY <1>1, <1>3
  <2>3. Cardinality(run) \in Nat /\ Cardinality(run) <= (Size - 2) - i + 1
    BY <2>1, <2>2, SubsetOfInterval
  <2> QED
    BY <1>1, <2>3
<1> QED
  BY <1>1, <1>2, <1>3

\* buffer_skip_whitespace stays in the text, wherever in it it begins.
LEMMA SkipBounds ==
  ASSUME content \in Seq(Symbols), NEW i \in Nat, i <= Size
  PROVE  /\ Skip(i) \in i .. Size
         /\ i < Size => Skip(i) < Size
<1>1. Size \in Nat
  BY DEF Size
<1>2. Past(i, Whitespace) \in i .. Size
  BY PastBounds
<1> QED
  BY <1>1, <1>2 DEF Skip

\* Where another symbol stands, the text's NUL comes later.
LEMMA BeforeNul ==
  ASSUME NEW i \in Nat, i < Size, Size \in Nat, Char(Size - 1) = NUL, Char(i) # NUL
  PROVE  i + 1 < Size
BY DEF NUL

\* A number is taken from within the text.
LEMMA NumeralBounds ==
  ASSUME content \in Seq(Symbols), pos \in Nat, pos < Size, Char(Size - 1) = NUL,
         Numeral(pos) # <<>>
  PROVE  pos + Len(Numeral(pos)) \in Nat /\ pos + Len(Numeral(pos)) < Size
<1> DEFINE first == IF IsAt(pos, "-") THEN pos + 1 ELSE pos
           end == Past(first, {"7"})
<1>1. Size \in Nat /\ Size = Len(content)
  BY DEF Size
<1>2. first \in Nat /\ first < Size /\ pos <= first
  BY <1>1, BeforeNul DEF IsAt, NUL
<1>3. end \in first .. Size /\ end < Size
  BY <1>1, <1>2, PastBounds DEF NUL
<1>4. Numeral(pos) = SubSeq(content, pos + 1, end)
  BY DEF Numeral
<1>5. Len(SubSeq(content, pos + 1, end)) = end - pos
  BY <1>1, <1>2, <1>3
<1> QED
  BY <1>1, <1>2, <1>3, <1>4, <1>5

LEMMA ParserInit == Init => ParserInv
BY DEF Init, NoParse, ParserInv

\* A step that leaves the parser alone, or ends it.
LEMMA ParserUnchanged ==
  ASSUME ParserInv, UNCHANGED parser \/ ParseEnds
  PROVE  ParserInv'
BY DEF ParserInv, parser, ParseEnds, Size, Char

\* The text that is parsed: what of the response is in front of a NUL.
LEMMA ParserBegins ==
  ASSUME ResponseInv, ParserInv, ParseStart(data)
  PROVE  ParserInv'
<1>1. data \in Seq(Symbols) /\ NUL \in Symbols
  BY WordsTyped, SymbolsOf DEF ResponseInv, Literals
<1>2. CString(data) \in Seq(Symbols)
  BY <1>1, CStringPart
<1>3. content' = CString(data) \o <<NUL>> /\ pos' = pos /\ pos = 0 /\ step' = "root"
  BY DEF ParseStart, ParserInv
<1>4. content' \in Seq(Symbols) /\ Len(content') > 0 /\ content'[Len(content')] = NUL
  BY <1>1, <1>2, <1>3, EndsWith
<1> QED
  BY <1>3, <1>4 DEF ParseStart, ParserInv, Size, Char, NUL

\* One step of the parser.
LEMMA ParseStepBounds ==
  ASSUME ParserInv, ParseStep, step # "off"
  PROVE  ParserInv'
<1>. USE DEF ParserInv
<1>1. content' = content => Size' = Size /\ Char(Size - 1)' = Char(Size - 1)
  BY DEF Size, Char
<1>2. Size \in Nat
  BY DEF Size
<1>3. SUFFICES ASSUME content' = content
               PROVE  /\ step' # "off" /\ pos' \in Nat /\ pos' < Size
                      /\ step' = "next" => pos' + 1 < Size
  <2>1. content' = content
    BY DEF ParseStep, ParseRoot, ParseLiteral, ParseNumber, ParseString, ParseEmpty,
           ParseOpen, ParseNext, ParseName, ParseComma, ParseClose, ParseBad,
           ParseNoMemory, ParseUnwind, ParseGiveUp
  <2> QED
    BY <1>1, <2>1
<1>4. \A f : Resume(f) \in {"done", "after"}
  BY DEF Resume
<1>5. CASE ParseRoot
  <2>1. 0 < Size /\ (Size >= 3 => 1 < Size)
    BY <1>2, <1>5 DEF ParseRoot
  <2>2. pos' = Skip(0) \/ (Size >= 3 /\ pos' = Skip(1))
    BY <1>5 DEF ParseRoot
  <2> QED
    BY <1>2, <1>5, <2>1, <2>2, SkipBounds DEF ParseRoot
<1>6. CASE ParseLiteral
  <2>1. Char(pos) # NUL
    BY <1>6 DEF ParseLiteral, Starts, TypeAt, NUL
  <2> QED
    BY <1>2, <1>4, <1>6, <2>1, BeforeNul DEF ParseLiteral
<1>7. CASE ParseNumber
  BY <1>2, <1>4, <1>7, NumeralBounds DEF ParseNumber
<1>8. CASE ParseString
  <2>1. Closing(pos) \in Nat /\ Closing(pos) < Size /\ Char(Closing(pos)) # NUL
    BY <1>8 DEF ParseString, GoodString, Closed, IsAt, NUL, Quote
  <2> QED
    BY <1>2, <1>4, <1>8, <2>1, BeforeNul DEF ParseString
<1>9. ASSUME Opens PROVE pos + 1 < Size /\ Skip(pos + 1) \in pos + 1 .. Size - 1
  <2>1. Char(pos) # NUL
    BY <1>9 DEF Opens, Starts, TypeAt, NUL
  <2> QED
    BY <1>2, <2>1, BeforeNul, SkipBounds
<1>10. \A type : Closer(type) # NUL
  BY DEF Closer, NUL
<1>11. CASE ParseEmpty
  <2>1. Skip(pos + 1) \in Nat /\ Skip(pos + 1) < Size /\ Char(Skip(pos + 1)) # NUL
    BY <1>2, <1>9, <1>10, <1>11 DEF ParseEmpty, OpensEmpty, IsAt
  <2> QED
    BY <1>2, <1>4, <1>11, <2>1, BeforeNul DEF ParseEmpty
<1>12. CASE ParseOpen
  BY <1>2, <1>9, <1>12 DEF ParseOpen
<1>13. CASE ParseNext
  <2>1. pos + 1 \in Nat /\ pos + 1 < Size /\ pos' = Skip(pos + 1)
    BY <1>2, <1>13 DEF ParseNext
  <2>2. step' \in {"value", "name", "fail"}
    BY <1>13 DEF ParseNext
  <2> QED
    BY <1>2, <2>1, <2>2, SkipBounds
<1>14. CASE ParseName
  <2> DEFINE colon == Skip(Closing(pos) + 1)
  <2>1. Closing(pos) \in Nat /\ Closing(pos) < Size /\ Char(Closing(pos)) # NUL
    BY <1>14 DEF ParseName, GoodString, Closed, IsAt, NUL, Quote
  <2>2. colon \in Nat /\ colon < Size
    BY <1>2, <2>1, BeforeNul, SkipBounds
  <2>3. CASE IsAt(colon, ":")
    <3>1. colon + 1 < Size
      BY <1>2, <2>2, <2>3, BeforeNul DEF IsAt, NUL
    <3> QED
      BY <1>2, <1>14, <2>2, <2>3, <3>1, SkipBounds DEF ParseName
  <2>4. CASE ~IsAt(colon, ":")
    BY <1>14, <2>2, <2>4 DEF ParseName
  <2> QED
    BY <2>3, <2>4
<1>15. Skip(pos) \in Nat /\ Skip(pos) < Size
  BY <1>2, SkipBounds
<1>16. CASE ParseComma
  BY <1>2, <1>15, <1>16, BeforeNul DEF ParseComma, IsAt, NUL
<1>17. CASE ParseClose
  <2>1. Char(Skip(pos)) # NUL
    BY <1>10, <1>17 DEF ParseClose, IsAt
  <2>2. Skip(pos) + 1 < Size
    BY <1>2, <1>15, <2>1, BeforeNul
  <2>3. pos' = Skip(pos) + 1 /\ step' = Resume(Tail(frames)) /\ UNCHANGED content
    BY <1>17 DEF ParseClose
  <2> QED
    BY <1>4, <1>15, <2>2, <2>3
<1>18. CASE ParseBad \/ ParseNoMemory \/ ParseUnwind \/ ParseGiveUp
  BY <1>18 DEF ParseBad, ParseNoMemory, ParseUnwind, ParseGiveUp
<1> QED
  BY <1>5, <1>6, <1>7, <1>8, <1>11, <1>12, <1>13, <1>14, <1>16, <1>17, <1>18
     DEF ParseStep

LEMMA ParserStep == ResponseInv /\ ParserInv /\ [Next]_vars => ParserInv'
<1>. SUFFICES ASSUME ResponseInv, ParserInv, [Next]_vars PROVE ParserInv'
  OBVIOUS
<1>1. CASE ParseBody
  <2>1. step # "off"
    BY <1>1 DEF ParseBody, ParseStep, ParseRoot, ParseLiteral, ParseNumber, ParseString,
                ParseEmpty, ParseOpen, ParseNext, ParseName, ParseComma, ParseClose,
                ParseBad, ParseNoMemory, ParseUnwind, ParseGiveUp, Starts, Opens, Stuck,
                Allocates
  <2> QED
    BY <1>1, <2>1, ParseStepBounds DEF ParseBody
<1>2. CASE PollAnswered
  BY <1>2, ParserBegins DEF PollAnswered
<1>3. CASE PollRefused \/ PollParsed
  BY <1>3, ParserUnchanged DEF PollRefused, PollParsed
<1>4. CASE UNCHANGED vars
  BY <1>4, ParserUnchanged DEF vars
<1>5. CASE Poll \/ (\E d \in Devices : Upload(d))
              \/ (\E success \in BOOLEAN, m \in Messages : Report(success, m))
  BY <1>5, ParserUnchanged DEF Poll, Upload, Report
<1>6. CASE CreateRoot \/ AddItem \/ AddValue \/ AddKey \/ AddDrop \/ PrintBody \/ PrintDone
  BY <1>6, ParserUnchanged
     DEF CreateRoot, AddItem, AddValue, AddKey, AddDrop, PrintBody, PrintDone
<1>7. CASE RequestBegins \/ RequestNoMemory \/ PerformEnds
  BY <1>7, ParserUnchanged DEF RequestBegins, RequestNoMemory, PerformEnds
<1>8. CASE (\E r \in IF call = "poll" THEN Replies ELSE Acks : Answer(r))
              \/ (\E n \in Pieces : Arrive(n))
  BY <1>8, ParserUnchanged DEF Answer, Arrive
<1>9. CASE Store \/ Grow \/ GrowStore \/ Drop
  BY <1>9, ParserUnchanged DEF Store, Grow, GrowStore, Drop
<1>10. CASE CallEnds
  BY <1>10, ParserUnchanged DEF CallEnds, parser
<1> QED
  BY <1>1, <1>2, <1>3, <1>4, <1>5, <1>6, <1>7, <1>8, <1>9, <1>10 DEF Next, CallStep

\* Whatever the reply holds, buffer.offset stays within the text
\* (buffer_skip_whitespace, parse_string, parse_number, parse_array,
\* parse_object).
THEOREM ParserSafe == Spec => []ParseInBounds
<1>1. ParserInv => ParseInBounds
  BY DEF ParserInv, ParseInBounds
<1> QED
  BY ResponseInit, ResponseStep, ParserInit, ParserStep, <1>1, PTL DEF Spec

-----------------------------------------------------------------------------
(* The texts that are parsed *)

\* What one turn of the copying loop appends is a symbol.
LEMMA EscapedType ==
  /\ \A c : Escaped(c) \in Symbols
  /\ {"pair", "bad"} \subseteq Symbols
<1>1. \A c : Escaped(c) \in Literals
  <2>1. \A c : Escaped(c) \in {Quote, Backslash, "/", "bs", "ff", "lf", "cr", "tab", "A",
                              NUL, "high", "bad"}
    BY DEF Escaped
  <2>2. {Quote, Backslash, "/", "bs", "ff", "lf", "cr", "tab", "A", NUL, "high", "bad"}
          \subseteq Literals
    BY DEF Literals
  <2> QED
    BY <2>1, <2>2
<1>2. {"pair", "bad"} \subseteq Literals
  BY DEF Literals
<1> QED
  BY <1>1, <1>2, SymbolsOf

\* parse_string's copying loop ends, and what it copies is made of symbols.
LEMMA UnescapeType ==
  ASSUME NEW s \in Seq(Symbols)
  PROVE  Unescape(s) \in Seq(Symbols)
<1> DEFINE W(f, i) ==
             IF i > Len(s) THEN <<>>
             ELSE IF s[i] # Backslash THEN <<s[i]>> \o f[i + 1]
             ELSE IF Escaped(s[i + 1]) # "high" THEN <<Escaped(s[i + 1])>> \o f[i + 2]
             ELSE IF i + 3 <= Len(s) /\ s[i + 2] = Backslash /\ s[i + 3] = "uDE00"
                    THEN <<"pair">> \o f[i + 4]
                    ELSE <<"bad">>
           Up(m) == {i \in Nat : i >= m}
           Is(f, m) == f = [i \in Up(m) |-> W(f, i)]
           T == {m \in Nat : \E f : Is(f, m)}
           from == CHOOSE f : f = [i \in Nat |-> W(f, i)]
<1>1. Len(s) \in Nat
  OBVIOUS
\* The loop is defined behind the end, and from each symbol on.
<1>2. Len(s) + 1 \in T
  <2> DEFINE f == [i \in Up(Len(s) + 1) |-> <<>>]
  <2>1. \A i \in Up(Len(s) + 1) : W(f, i) = <<>>
    BY <1>1
  <2>2. Is(f, Len(s) + 1)
    BY <2>1
  <2>3. Len(s) + 1 \in Nat
    BY <1>1
  <2> HIDE DEF Is, f
  <2> QED
    BY <2>2, <2>3
<1>3. ASSUME NEW m \in T, m # 0 PROVE m - 1 \in T
  <2>1. PICK f : Is(f, m)
    BY <1>3
  <2>2. m \in Nat /\ m - 1 \in Nat
    BY <1>3
  <2> DEFINE g == [i \in Up(m - 1) |-> IF i = m - 1 THEN W(f, i) ELSE f[i]]
  <2>3. \A i \in Up(m) : g[i] = f[i]
    BY <2>2
  <2>4. \A i \in Up(m) : f[i] = W(f, i)
    BY <2>1
  <2>5. ASSUME NEW i \in Up(m - 1) PROVE g[i] = W(f, i)
    <3>1. CASE i = m - 1
      BY <2>5, <3>1
    <3>2. CASE i # m - 1
      <4>1. i \in Up(m)
        BY <2>2, <2>5, <3>2
      <4> QED
        BY <2>3, <2>4, <4>1
    <3> QED
      BY <3>1, <3>2
  <2>6. ASSUME NEW i \in Up(m - 1) PROVE W(g, i) = W(f, i)
    <3>1. i + 1 \in Up(m) /\ i + 2 \in Up(m) /\ i + 4 \in Up(m)
      BY <2>2, <2>6
    <3>2. g[i + 1] = f[i + 1] /\ g[i + 2] = f[i + 2] /\ g[i + 4] = f[i + 4]
      BY <2>3, <3>1
    <3> HIDE DEF g
    <3> QED
      BY <3>2
  <2>7. Is(g, m - 1)
    <3>1. g = [i \in Up(m - 1) |-> g[i]]
      OBVIOUS
    <3>2. \A i \in Up(m - 1) : g[i] = W(g, i)
      BY <2>5, <2>6
    <3> HIDE DEF g, Up, W
    <3> QED
      BY <3>1, <3>2
  <2> QED
    BY <2>2, <2>7
<1>4. 0 \in T
  <2>1. PICK m \in T : \A n \in T : m <= n
    <3>1. T \in SUBSET Nat /\ T # {}
      BY <1>2
    <3> HIDE DEF T
    <3> QED
      BY <3>1, Least
  <2>2. ASSUME m # 0 PROVE FALSE
    <3>1. m - 1 \in T /\ m \in Nat
      BY <1>3, <2>2
    <3> HIDE DEF T
    <3> QED
      BY <2>1, <3>1
  <2> QED
    BY <2>1, <2>2
<1>5. \E f : f = [i \in Nat |-> W(f, i)]
  <2>1. Up(0) = Nat
    OBVIOUS
  <2>2. PICK f : Is(f, 0)
    BY <1>4
  <2> HIDE DEF W, Up
  <2> QED
    BY <2>1, <2>2
<1>6. \A i \in Nat : from[i] = W(from, i)
  <2> HIDE DEF W
  <2>1. from = [i \in Nat |-> W(from, i)]
    BY <1>5
  <2> HIDE DEF from
  <2> QED
    BY <2>1
<1>7. Unescape(s) = from[1]
  BY DEF Unescape
<1> HIDE DEF T, Is, Up, from
\* From each symbol on, it copies a sequence of symbols.
<1> DEFINE U == {m \in Nat \ {0} : \A i \in Nat : i >= m => from[i] \in Seq(Symbols)}
<1>8. Len(s) + 1 \in U
  <2>1. ASSUME NEW i \in Nat, i >= Len(s) + 1 PROVE from[i] \in Seq(Symbols)
    <3>1. i > Len(s)
      BY <1>1, <2>1
    <3>2. from[i] = <<>>
      BY <1>6, <3>1, Zenon
    <3> QED
      BY <3>2
  <2> QED
    BY <1>1, <2>1
<1>9. ASSUME NEW m \in U, m # 1 PROVE m - 1 \in U
  <2>1. m - 1 \in Nat \ {0} /\ m \in Nat
    BY <1>9
  <2>2. from[m - 1] \in Seq(Symbols)
    <3> DEFINE j == m - 1
    <3>1. /\ from[j + 1] \in Seq(Symbols) /\ from[j + 2] \in Seq(Symbols)
          /\ from[j + 4] \in Seq(Symbols)
      BY <1>9, <2>1
    <3>2. j \in Nat \ {0} /\ from[j] = W(from, j)
      BY <1>6, <2>1
    <3> HIDE DEF j, U, W
    <3>3. j <= Len(s) => s[j] \in Symbols
      BY <1>1, <3>2
    <3>4. ASSUME j > Len(s) PROVE from[j] \in Seq(Symbols)
      <4>1. from[j] = <<>>
        BY <3>2, <3>4, Zenon DEF W
      <4> QED
        BY <4>1
    <3>5. ASSUME ~(j > Len(s)) PROVE from[j] \in Seq(Symbols)
      <4>1. /\ <<s[j]>> \in Seq(Symbols) /\ <<Escaped(s[j + 1])>> \in Seq(Symbols)
            /\ <<"pair">> \in Seq(Symbols) /\ <<"bad">> \in Seq(Symbols)
        <5>1. s[j] \in Symbols
          BY <1>1, <3>2, <3>3, <3>5
        <5> QED
          BY <5>1, EscapedType, SingleText
      <4>2. /\ <<s[j]>> \o from[j + 1] \in Seq(Symbols)
            /\ <<Escaped(s[j + 1])>> \o from[j + 2] \in Seq(Symbols)
            /\ <<"pair">> \o from[j + 4] \in Seq(Symbols)
        BY <3>1, <4>1
      <4>3. W(from, j) \in {<<s[j]>> \o from[j + 1], <<Escaped(s[j + 1])>> \o from[j + 2],
                           <<"pair">> \o from[j + 4], <<"bad">>}
        BY <3>5, Zenon DEF W
      <4> QED
        BY <3>2, <4>1, <4>2, <4>3
    <3> QED
      BY <3>4, <3>5 DEF j
  <2>3. \A i \in Nat : i >= m - 1 => i = m - 1 \/ i >= m
    BY <2>1
  <2> QED
    BY <1>9, <2>1, <2>2, <2>3
<1>10. 1 \in U
  <2>1. PICK m \in U : \A n \in U : m <= n
    <3>1. U \in SUBSET Nat /\ U # {}
      BY <1>8
    <3> HIDE DEF U
    <3> QED
      BY <3>1, Least
  <2>2. ASSUME m # 1 PROVE FALSE
    <3>1. m - 1 \in U /\ m \in Nat
      BY <1>9, <2>2
    <3> HIDE DEF U
    <3> QED
      BY <2>1, <3>1
  <2> QED
    BY <2>1, <2>2
<1> QED
  BY <1>7, <1>10

\* What parse_string accepts is a word.
LEMMA StringAtType ==
  ASSUME content \in Seq(Symbols), NEW i \in Nat, GoodString(i)
  PROVE  StringAt(i) \in Words
<1>1. Closing(i) \in Nat /\ Closing(i) < Len(content)
  BY DEF GoodString, Closed, IsAt, Size
<1>2. SubSeq(content, i + 2, Closing(i)) \in Seq(Symbols)
  BY <1>1
<1>3. StringAt(i) \in Seq(Symbols)
  BY <1>2, UnescapeType DEF StringAt
<1>4. \A k \in 1 .. Len(StringAt(i)) : StringAt(i)[k] \in Symbols \ {"bad"}
  BY <1>3 DEF GoodString
<1> DEFINE w == StringAt(i)
           Other == Symbols \ {"bad"}
<1>5. w \in Seq(Symbols) /\ \A k \in 1 .. Len(w) : w[k] \in Other
  BY <1>3, <1>4
<1> HIDE DEF w, Other
<1>6. w \in Seq(Other)
  BY <1>5
<1> QED
  BY <1>6 DEF w, Other, Words

-----------------------------------------------------------------------------
(* The fields of a body *)

\* A field as the client adds it; the text of a string is a word.
Writable ==
  {f \in [to : {"root", "sub"}, key : Words, type : Types, value : Seq(Symbols)] :
     f.type = "String" => f.value \in Words}

LEMMA FieldType ==
  ASSUME NEW to \in {"root", "sub"}, NEW key \in Literals \ {"bad"}, NEW type \in Types,
         NEW value \in Seq(Symbols), type = "String" => value \in Words
  PROVE  Field(to, key, type, value) \in Writable
<1>1. <<key>> \in Words
  <2>1. key \in Symbols \ {"bad"}
    BY SymbolsOf
  <2> QED
    BY <2>1, SingleText DEF Words
<1> QED
  BY <1>1 DEF Field, Writable

LEMMA LiteralWords ==
  /\ \A c \in Literals \ {"bad"} : <<c>> \in Words
  /\ <<>> \in Words /\ <<>> \in Seq(Symbols)
<1>1. ASSUME NEW c \in Literals \ {"bad"} PROVE <<c>> \in Words
  <2>1. c \in Symbols \ {"bad"}
    BY SymbolsOf
  <2> QED
    BY <2>1, SingleText DEF Words
<1> QED
  BY <1>1 DEF Words

LEMMA NumeralType ==
  ASSUME NEW n \in Int, NEW d \in Nat \ {0}
  PROVE  NumeralOf(n, d) \in Seq(Symbols)
<1> DEFINE abs == IF n < 0 THEN -n ELSE n
           r == abs % d
           tenth == (10 * r) \div d
           hundredth == (((10 * r) % d) * 10) \div d
           N(k) == ToString(k)
<1>1. abs \in Int /\ abs \div d \in Int /\ r \in Int
  OBVIOUS
<1>2. tenth \in Int /\ hundredth \in Int
  <2>1. r \in Int
    BY <1>1
  <2> HIDE DEF r
  <2>2. 10 * r \in Int /\ ((10 * r) % d) * 10 \in Int
    BY <2>1
  <2> QED
    BY <2>2
<1>3. N(abs \div d) \in Symbols /\ N(tenth) \in Symbols /\ N(hundredth) \in Symbols
  BY <1>1, <1>2, SymbolsOf
<1>4. "-" \in Symbols /\ "." \in Symbols
  BY SymbolsOf DEF Literals
<1>5. NumeralOf(n, d) =
        (IF n < 0 THEN <<"-">> ELSE <<>>) \o <<N(abs \div d)>>
          \o (IF r = 0 THEN <<>> ELSE <<".", N(tenth)>>)
          \o (IF hundredth = 0 THEN <<>> ELSE <<N(hundredth)>>)
  BY DEF NumeralOf
<1> DEFINE a == IF n < 0 THEN <<"-">> ELSE <<>>
           b == <<N(abs \div d)>>
           c == IF r = 0 THEN <<>> ELSE <<".", N(tenth)>>
           e == IF hundredth = 0 THEN <<>> ELSE <<N(hundredth)>>
<1>6. a \in Seq(Symbols) /\ b \in Seq(Symbols) /\ c \in Seq(Symbols) /\ e \in Seq(Symbols)
  <2> HIDE DEF abs, r, tenth, hundredth, N, Symbols
  <2>1. a \in Seq(Symbols)
    BY <1>4
  <2>2. b \in Seq(Symbols)
    BY <1>3
  <2>3. c \in Seq(Symbols)
    BY <1>3, <1>4
  <2>4. e \in Seq(Symbols)
    BY <1>3
  <2> QED
    BY <2>1, <2>2, <2>3, <2>4
<1>7. NumeralOf(n, d) = a \o b \o c \o e
  BY <1>5
<1> HIDE DEF a, b, c, e
<1> QED
  BY <1>6, <1>7

LEMMA FieldTypes ==
  ASSUME NEW to \in {"root", "sub"}, NEW key \in Literals \ {"bad"}
  PROVE  /\ \A w \in Words : Text(to, key, w) \in Writable
         /\ \A n \in Int, d \in Nat \ {0} : Number(to, key, n, d) \in Writable
         /\ \A b : Bool(to, key, b) \in Writable
         /\ Field(to, key, "Object", <<>>) \in Writable
<1>1. {"String", "Number", "True", "False", "Object"} \subseteq Types
  BY DEF Types
<1>2. ASSUME NEW w \in Words PROVE Text(to, key, w) \in Writable
  BY <1>1, FieldType, WordsTyped DEF Text
<1>3. ASSUME NEW n \in Int, NEW d \in Nat \ {0} PROVE Number(to, key, n, d) \in Writable
  <2>1. NumeralOf(n, d) \in Seq(Symbols)
    BY NumeralType
  <2> QED
    BY <1>1, <2>1, FieldType DEF Number
<1>4. ASSUME NEW type \in {"True", "False", "Object"}
      PROVE  Field(to, key, type, <<>>) \in Writable
  BY <1>1, <1>4, FieldType, LiteralWords
<1>5. ASSUME NEW b PROVE Bool(to, key, b) \in Writable
  BY <1>4 DEF Bool
<1> QED
  BY <1>2, <1>3, <1>4, <1>5

LEMMA ElementType ==
  ASSUME NEW S, NEW s \in Seq(S), NEW i \in 1 .. Len(s)
  PROVE  s[i] \in S
OBVIOUS

LEMMA PacketType ==
  ASSUME NEW data_in \in Seq(Byte), Accepts(data_in)
  PROVE  LET s == ParsePacket(data_in)
         IN  s.temp_x10 \in Int /\ s.ph_x100 \in Int /\ s.seq \in Int
<1>1. \A i \in 1 .. 11 : data_in[i] \in Int
  <2>1. Len(data_in) = 11
    BY DEF Accepts
  <2>2. \A i \in 1 .. 11 : data_in[i] \in Byte
    BY <2>1, ElementType
  <2>3. Byte \subseteq Int
    BY DEF Byte
  <2> QED
    BY <2>2, <2>3
<1>2. \A low, high \in Int : ReadU16(low, high) \in Int /\ ReadI16(low, high) \in Int
  BY DEF ReadU16, ReadI16
<1>3. /\ data_in[3] \in Int /\ data_in[4] \in Int /\ data_in[5] \in Int
      /\ data_in[6] \in Int /\ data_in[11] \in Int
  BY <1>1
<1>4. /\ ReadI16(data_in[3], data_in[4]) \in Int /\ ReadU16(data_in[5], data_in[6]) \in Int
  BY <1>2, <1>3
<1>5. /\ ParsePacket(data_in).temp_x10 = ReadI16(data_in[3], data_in[4])
      /\ ParsePacket(data_in).ph_x100 = ReadU16(data_in[5], data_in[6])
      /\ ParsePacket(data_in).seq = data_in[11]
  BY DEF ParsePacket
<1> QED
  BY <1>3, <1>4, <1>5

LEMMA Joined11 ==
  ASSUME NEW S, NEW a \in S, NEW b \in S, NEW c \in S, NEW d \in S, NEW e \in S, NEW f \in S,
         NEW g \in S, NEW h \in S, NEW i \in S, NEW j \in S, NEW k \in S
  PROVE  <<a, b, c, d, e, f, g, h, i, j, k>> \in Seq(S)
OBVIOUS

\* More fields behind two that are there.
LEMMA FieldsFollow ==
  ASSUME NEW S, NEW s \in Seq(S), NEW t \in Seq(S), Len(s) >= 2
  PROVE  s \o t \in Seq(S) /\ Len(s \o t) >= 2
<1>1. Len(s) \in Nat /\ Len(t) \in Nat
  OBVIOUS
<1>2. s \o t \in Seq(S) /\ Len(s \o t) = Len(s) + Len(t)
  BY ConcatProperties
<1> QED
  BY <1>1, <1>2

\* The fields of every upload and of every report can be written.
LEMMA UploadType ==
  ASSUME NEW d \in Devices, Accepts(d.packet)
  PROVE  UploadFields(d, ParsePacket(d.packet)) \in Seq(Writable)
           /\ UploadFields(d, ParsePacket(d.packet)) # <<>>
<1> DEFINE s == ParsePacket(d.packet)
<1>1. s.temp_x10 \in Int /\ s.ph_x100 \in Int /\ s.seq \in Int
  BY ClientAssumption, PacketType
<1>2. d.device_id \in Words /\ d.reg_code \in Words
  BY ClientAssumption, WordsTyped
<1> HIDE DEF s
<1>3. StatusFields(s) \in Seq(Writable)
  <2>1. {"temp_x10", "temp_c", "ph_x100", "ph", "water_ok", "light", "heater", "pump",
         "ctrl_mode", "alarm_enable", "seq"} \subseteq Literals \ {"bad"}
    BY DEF Literals
  <2>2. (IF s.ctrl_mode_auto THEN <<"AUTO">> ELSE <<"MANUAL">>) \in Words
    <3>1. {"AUTO", "MANUAL"} \subseteq Literals \ {"bad"}
      BY DEF Literals
    <3> QED
      BY <3>1, LiteralWords
  <2>3. {1, 10, 100} \subseteq Nat \ {0} /\ "sub" \in {"root", "sub"}
    OBVIOUS
  <2>4. /\ Number("sub", "temp_x10", s.temp_x10, 1) \in Writable
        /\ Number("sub", "temp_c", s.temp_x10, 10) \in Writable
        /\ Number("sub", "ph_x100", s.ph_x100, 1) \in Writable
        /\ Number("sub", "ph", s.ph_x100, 100) \in Writable
        /\ Number("sub", "seq", s.seq, 1) \in Writable
    BY <1>1, <2>1, <2>3, FieldTypes
  <2>5. /\ Bool("sub", "water_ok", s.water_ok) \in Writable
        /\ Bool("sub", "light", s.light) \in Writable
        /\ Bool("sub", "heater", s.heater) \in Writable
        /\ Bool("sub", "pump", s.pump) \in Writable
        /\ Bool("sub", "alarm_enable", s.alarm_enable) \in Writable
    BY <2>1, <2>3, FieldTypes
  <2>6. Text("sub", "ctrl_mode", IF s.ctrl_mode_auto THEN <<"AUTO">> ELSE <<"MANUAL">>)
          \in Writable
    BY <2>1, <2>2, <2>3, FieldTypes
  <2> QED
    BY <2>4, <2>5, <2>6, Joined11 DEF StatusFields
<1>4. {"gateway_id", "device_id", "reg_code", "device_type", "status", "ts_ms", "GW-1",
       "smart_reef_tank"} \subseteq Literals \ {"bad"} /\ "root" \in {"root", "sub"}
  BY DEF Literals
<1>5. <<"GW-1">> \in Words /\ <<"smart_reef_tank">> \in Words
  BY <1>4, LiteralWords
<1>6. /\ Text("root", "gateway_id", <<"GW-1">>) \in Writable
      /\ Text("root", "device_id", d.device_id) \in Writable
      /\ Text("root", "reg_code", d.reg_code) \in Writable
      /\ Text("root", "device_type", <<"smart_reef_tank">>) \in Writable
  BY <1>2, <1>4, <1>5, FieldTypes
<1>7. Field("root", "status", "Object", <<>>) \in Writable
  BY <1>4, FieldTypes
<1>8. Number("root", "ts_ms", 7, 1) \in Writable
  BY <1>4, FieldTypes
<1> DEFINE a == <<Text("root", "gateway_id", <<"GW-1">>), Text("root", "device_id", d.device_id)>>
           b == IF d.reg_code = <<>> THEN <<>> ELSE <<Text("root", "reg_code", d.reg_code)>>
           c == <<Text("root", "device_type", <<"smart_reef_tank">>),
                  Field("root", "status", "Object", <<>>)>>
           e == <<Number("root", "ts_ms", 7, 1)>>
           f == StatusFields(s)
<1>9. a \in Seq(Writable) /\ Len(a) = 2
  <2> HIDE DEF Writable
  <2> QED
    BY <1>6
<1>10. b \in Seq(Writable) /\ c \in Seq(Writable) /\ e \in Seq(Writable)
  BY <1>6, <1>7, <1>8
<1>11. UploadFields(d, s) = a \o b \o c \o f \o e
  BY DEF UploadFields
<1>12. f \in Seq(Writable)
  BY <1>3
<1> HIDE DEF a, b, c, e, f
<1>13. UploadFields(d, s) \in Seq(Writable) /\ Len(UploadFields(d, s)) >= 2
  <2> HIDE DEF Writable
  <2>1. a \o b \in Seq(Writable) /\ Len(a \o b) >= 2
    <3>1. Len(a) >= 2
      BY <1>9
    <3> QED
      BY <1>9, <1>10, <3>1, FieldsFollow, ZenonT(40)
  <2>2. a \o b \o c \in Seq(Writable) /\ Len(a \o b \o c) >= 2
    BY <1>10, <2>1, FieldsFollow, ZenonT(40)
  <2>3. a \o b \o c \o f \in Seq(Writable) /\ Len(a \o b \o c \o f) >= 2
    BY <1>12, <2>2, FieldsFollow, ZenonT(40)
  <2>4. a \o b \o c \o f \o e \in Seq(Writable) /\ Len(a \o b \o c \o f \o e) >= 2
    BY <1>10, <2>3, FieldsFollow, ZenonT(40)
  <2> QED
    BY <1>11, <2>4
<1> QED
  BY <1>13 DEF s

LEMMA ReportType ==
  ASSUME NEW r, r.cmd_id \in Words, r.message \in Words
  PROVE  ReportFields(r) \in Seq(Writable) /\ ReportFields(r) # <<>>
<1>1. {"cmd_id", "status", "result", "message", "success", "failed"} \subseteq Literals \ {"bad"}
      /\ {"root", "sub"} \subseteq {"root", "sub"}
  BY DEF Literals
<1>2. (IF r.success THEN <<"success">> ELSE <<"failed">>) \in Words
  BY <1>1, LiteralWords
<1> DEFINE a == Text("root", "cmd_id", r.cmd_id)
           b == Text("root", "status", IF r.success THEN <<"success">> ELSE <<"failed">>)
           c == Field("root", "result", "Object", <<>>)
           e == Text("sub", "message", r.message)
<1>3. a \in Writable /\ b \in Writable /\ c \in Writable /\ e \in Writable
  BY <1>1, <1>2, FieldTypes
<1>4. ReportFields(r) = <<a, b, c, e>>
  BY DEF ReportFields
<1> HIDE DEF a, b, c, e
<1> QED
  BY <1>3, <1>4

-----------------------------------------------------------------------------
(* The containers that are open *)

\* A frame of parse_array or parse_object; the item that the next inner one is
\* filling in, or the outermost; the roots of the trees while text is parsed.
FrameType == [type : {"Array", "Object"}, item : Nat, head : Nat, cur : Nat]
Above(fr, r, i) == IF i = Len(fr) THEN r ELSE fr[i + 1].cur
Roots(fr, r) == ({r} \cup {fr[i].head : i \in 1 .. Len(fr)}) \ {Null}

\* The container has no child yet; its elements hang on a head of their own,
\* the current one is their last, and no finished list ends with it.
OpenFrame(h, fr, r, i) ==
  /\ fr[i].item = Above(fr, r, i) /\ h[fr[i].item].child = Null
  /\ fr[i].head = Null => i = 1 /\ fr[i].cur = Null
  /\ fr[i].head # Null =>
       /\ fr[i].head # r /\ fr[i].cur \in Leads(h, fr[i].head)
       /\ h[fr[i].cur].next = Null /\ ~IsTail(h, fr[i].cur)

OpenFrames(h, fr, r) ==
  /\ fr \in Seq(FrameType) /\ (r = Null => fr = <<>>)
  /\ \A i \in 1 .. Len(fr) : OpenFrame(h, fr, r, i)
  /\ \A i, j \in 1 .. Len(fr) : fr[i].head # Null /\ fr[i].head = fr[j].head => i = j

LEMMA PushFrame ==
  ASSUME NEW S, NEW s \in Seq(S), NEW x \in S, NEW t, t = <<x>> \o s
  PROVE  /\ t \in Seq(S) /\ Len(t) = Len(s) + 1 /\ t[1] = x /\ t # <<>> /\ Len(s) \in Nat
         /\ \A i \in 1 .. Len(s) : t[i + 1] = s[i]
OBVIOUS

LEMMA PopFrame ==
  ASSUME NEW S, NEW s \in Seq(S), s # <<>>, NEW t, t = Tail(s)
  PROVE  /\ t \in Seq(S) /\ Len(s) = Len(t) + 1 /\ Head(s) = s[1] /\ s[1] \in S
         /\ Len(t) \in Nat /\ Len(s) \in Nat
         /\ \A i \in 1 .. Len(t) : t[i] = s[i + 1]
OBVIOUS

LEMMA TopFrame ==
  ASSUME NEW S, NEW s \in Seq(S), s # <<>>, NEW x \in S, NEW t, t = <<x>> \o Tail(s)
  PROVE  /\ t \in Seq(S) /\ Len(t) = Len(s) /\ t[1] = x /\ t # <<>> /\ Len(s) \in Nat \ {0}
         /\ Head(s) = s[1] /\ s[1] \in S
         /\ \A i \in 2 .. Len(s) : t[i] = s[i]
<1> DEFINE u == Tail(s)
<1>1. /\ u \in Seq(S) /\ Len(s) = Len(u) + 1 /\ Head(s) = s[1] /\ s[1] \in S
      /\ Len(u) \in Nat /\ \A i \in 1 .. Len(u) : u[i] = s[i + 1]
  BY PopFrame
<1>2. t = <<x>> \o u
  OBVIOUS
<1> HIDE DEF u
<1>3. /\ t \in Seq(S) /\ Len(t) = Len(u) + 1 /\ t[1] = x /\ t # <<>>
      /\ \A i \in 1 .. Len(u) : t[i + 1] = u[i]
  BY <1>1, <1>2, PushFrame
<1>4. ASSUME NEW i \in 2 .. Len(s) PROVE t[i] = s[i]
  <2>1. i - 1 \in 1 .. Len(u) /\ (i - 1) + 1 = i
    BY <1>1
  <2>2. t[(i - 1) + 1] = u[i - 1] /\ u[i - 1] = s[(i - 1) + 1]
    BY <1>1, <1>3, <2>1
  <2> QED
    BY <2>1, <2>2
<1> QED
  BY <1>1, <1>3, <1>4

\* The roots, one by one.
LEMMA RootsOf ==
  ASSUME NEW fr, NEW r
  PROVE  /\ r # Null => r \in Roots(fr, r)
         /\ \A i \in 1 .. Len(fr) : fr[i].head # Null => fr[i].head \in Roots(fr, r)
         /\ fr = <<>> => Roots(fr, r) = {r} \ {Null}
<1>1. fr = <<>> => 1 .. Len(fr) = {}
  OBVIOUS
<1> QED
  BY <1>1 DEF Roots

\* What the open containers hold is apart: each list of elements is a tree of
\* its own, and no container is within the list of its elements.
LEMMA FramesApart ==
  ASSUME NEW h, NEW c, NEW fr, NEW r, Sound(h, c, Roots(fr, r)), OpenFrames(h, fr, r)
  PROVE  /\ r # Null => r \in DOMAIN h
         /\ \A i \in 1 .. Len(fr) :
              /\ fr[i].head # Null =>
                   /\ fr[i].head \in DOMAIN h /\ fr[i].cur \in DOMAIN h
                   /\ r \notin Leads(h, fr[i].head)
              /\ fr[i].item \in DOMAIN h /\ fr[i].item # Null
              /\ fr[i].head # Null => fr[i].item \notin Leads(h, fr[i].head)
         /\ \A i, j \in 1 .. Len(fr) :
              i # j /\ fr[i].head # Null /\ fr[j].head # Null
                => fr[i].cur # fr[j].cur /\ fr[i].cur \notin Leads(h, fr[j].head)
         /\ \A i, j \in 1 .. Len(fr) : i # j => fr[i].item # fr[j].item
         /\ Null \notin DOMAIN h
<1> DEFINE E == Roots(fr, r)
           H(i) == fr[i].head
<1>1. /\ Heap(h, E) /\ E \subseteq DOMAIN h /\ Null \notin DOMAIN h /\ Pointers(h)
      /\ fr \in Seq(FrameType) /\ Len(fr) \in Nat
  <2>1. Heap(h, E) /\ fr \in Seq(FrameType) /\ Len(fr) \in Nat
    BY DEF Sound, OpenFrames
  <2>2. Pointers(h) /\ Forest(Edges(h), E) /\ DOMAIN h \subseteq Nat \ {Null}
    BY <2>1 DEF Heap
  <2>3. DOMAIN Edges(h) = DOMAIN h
    BY <2>2, EdgesOf
  <2>4. E \subseteq DOMAIN h
    BY <2>2, <2>3 DEF Forest
  <2> QED
    BY <2>1, <2>2, <2>4
<1>2. r # Null => r \in E
  BY RootsOf
<1>3. \A i \in 1 .. Len(fr) : H(i) # Null => H(i) \in E
  BY RootsOf
<1>4. \A i \in 1 .. Len(fr) : OpenFrame(h, fr, r, i)
  BY DEF OpenFrames
<1> HIDE DEF E
<1>5. ASSUME NEW i \in 1 .. Len(fr), H(i) # Null
      PROVE  /\ fr[i].head \in DOMAIN h /\ fr[i].cur \in DOMAIN h
             /\ fr[i].cur \in Leads(h, H(i)) /\ r # Null /\ r \notin Leads(h, H(i))
  <2>1. H(i) \in E /\ H(i) \in DOMAIN h /\ H(i) # r /\ fr[i].cur \in Leads(h, H(i))
    BY <1>1, <1>3, <1>4, <1>5 DEF OpenFrame
  <2>2. fr[i].cur \in DOMAIN h
    BY <1>1, <2>1, LeadsOf
  <2>3. r # Null
    <3>1. fr # <<>>
      BY <1>5
    <3> QED
      BY <3>1 DEF OpenFrames
  <2>4. r \in E /\ r \in Leads(h, r)
    BY <1>1, <1>2, <2>3, LeadsOf
  <2>5. Leads(h, r) \cap Leads(h, H(i)) = {}
    BY <1>1, <2>1, <2>4, TreesApart
  <2> QED
    BY <2>1, <2>2, <2>3, <2>4, <2>5
<1>6. ASSUME NEW i \in 1 .. Len(fr), NEW j \in 1 .. Len(fr), i # j, H(i) # Null, H(j) # Null
      PROVE  fr[i].cur # fr[j].cur /\ fr[i].cur \notin Leads(h, H(j))
  <2>1. H(i) # H(j)
    BY <1>6 DEF OpenFrames
  <2>2. Leads(h, H(i)) \cap Leads(h, H(j)) = {}
    BY <1>1, <1>3, <1>6, <2>1, TreesApart
  <2>3. fr[i].cur \in Leads(h, H(i)) /\ fr[j].cur \in Leads(h, H(j))
    BY <1>5, <1>6
  <2> QED
    BY <2>2, <2>3
\* A container is the outermost, or the current element of the next.
<1>7. ASSUME NEW i \in 1 .. Len(fr)
      PROVE  \/ i = Len(fr) /\ fr[i].item = r /\ r # Null
             \/ i + 1 \in 1 .. Len(fr) /\ fr[i].item = fr[i + 1].cur /\ H(i + 1) # Null
  <2>1. fr # <<>> /\ r # Null
    <3>1. fr # <<>>
      BY <1>7
    <3> QED
      BY <3>1 DEF OpenFrames
  <2>2. fr[i].item = Above(fr, r, i)
    BY <1>4 DEF OpenFrame
  <2>3. CASE i = Len(fr)
    BY <2>1, <2>2, <2>3 DEF Above
  <2>4. CASE i # Len(fr)
    <3>1. i + 1 \in 1 .. Len(fr) /\ i + 1 # 1
      BY <1>1, <2>4
    <3>2. H(i + 1) # Null
      BY <1>4, <3>1 DEF OpenFrame
    <3> QED
      BY <2>2, <2>4, <3>1, <3>2 DEF Above
  <2> QED
    BY <2>3, <2>4
<1>8. ASSUME NEW i \in 1 .. Len(fr)
      PROVE  /\ fr[i].item \in DOMAIN h
             /\ H(i) # Null => fr[i].item \notin Leads(h, H(i))
  <2>1. CASE i = Len(fr) /\ fr[i].item = r /\ r # Null
    BY <1>1, <1>2, <1>5, <2>1
  <2>2. CASE i + 1 \in 1 .. Len(fr) /\ fr[i].item = fr[i + 1].cur /\ H(i + 1) # Null
    <3>1. i + 1 # i
      OBVIOUS
    <3> QED
      BY <1>5, <1>6, <2>2, <3>1
  <2> QED
    BY <1>7, <2>1, <2>2
<1>9. ASSUME NEW i \in 1 .. Len(fr), NEW j \in 1 .. Len(fr), i # j
      PROVE  fr[i].item # fr[j].item
  <2>1. ASSUME NEW m \in 1 .. Len(fr), m + 1 \in 1 .. Len(fr), fr[m].item = fr[m + 1].cur,
               H(m + 1) # Null
        PROVE  fr[m].item # r
    BY <1>5, <2>1
  <2>2. CASE i = Len(fr) /\ fr[i].item = r
    <3>1. fr[j].item # r
      BY <1>7, <1>9, <2>1, <2>2
    <3> QED
      BY <2>2, <3>1
  <2>3. CASE j = Len(fr) /\ fr[j].item = r
    <3>1. fr[i].item # r
      BY <1>7, <1>9, <2>1, <2>3
    <3> QED
      BY <2>3, <3>1
  <2>4. CASE /\ i + 1 \in 1 .. Len(fr) /\ fr[i].item = fr[i + 1].cur /\ H(i + 1) # Null
             /\ j + 1 \in 1 .. Len(fr) /\ fr[j].item = fr[j + 1].cur /\ H(j + 1) # Null
    <3>1. i + 1 # j + 1
      BY <1>9
    <3> QED
      BY <1>6, <2>4, <3>1
  <2> QED
    BY <1>7, <2>2, <2>3, <2>4
<1> QED
  BY <1>1, <1>2, <1>5, <1>6, <1>8, <1>9

-----------------------------------------------------------------------------
(* The items while a text is parsed *)

\* Each list that is not finished hangs on its frame and nothing else is
\* outside the tree; where a value or a name is read its item is still empty,
\* and a string has its text once its value was read.
ParseHeap ==
  /\ step \in {"root", "value", "name", "next", "after", "fail", "failed", "done"}
  /\ Sound(item, strings, Roots(frames, root)) /\ OpenFrames(item, frames, root)
  /\ step \in {"root", "failed", "done"} => frames = <<>>
  /\ step \in {"root", "failed"} <=> root = Null
  /\ step \in {"next", "after", "name"} => frames # <<>>
  /\ frames # <<>> /\ frames[1].head = Null => step \in {"next", "fail"}
  /\ step \in {"value", "name"} =>
       /\ at = Above(frames, root, 0)
       /\ item[at].child = Null /\ item[at].valuestring = NoString
       /\ step = "name" => item[at].string = NoString
  /\ step \notin {"fail", "failed"} =>
       \A n \in DOMAIN item : item[n].type = "String" /\ item[n].valuestring = NoString =>
         (step = "value" /\ n = at) \/ \E i \in 1 .. Len(frames) : n = frames[i].item

LEMMA FramesKept ==
  ASSUME NEW h, NEW fr, NEW r, NEW k, OpenFrames(h, fr, r),
         \A i \in 1 .. Len(fr) : k[fr[i].item].child = h[fr[i].item].child,
         \A i \in 1 .. Len(fr) : fr[i].head # Null =>
           /\ fr[i].cur \in Leads(k, fr[i].head)
           /\ k[fr[i].cur].next = Null /\ ~IsTail(k, fr[i].cur)
  PROVE  OpenFrames(k, fr, r)
<1>1. ASSUME NEW i \in 1 .. Len(fr) PROVE OpenFrame(k, fr, r, i)
  <2>1. OpenFrame(h, fr, r, i)
    BY <1>1 DEF OpenFrames
  <2> QED
    BY <2>1 DEF OpenFrame
<1> QED
  BY <1>1 DEF OpenFrames

\* The item that is filled in exists.
LEMMA AtExists ==
  ASSUME ParseHeap, step \in {"value", "name"}
  PROVE  at \in DOMAIN item /\ at = Above(frames, root, 0) /\ root # Null
<1>1. at = Above(frames, root, 0) /\ root # Null
  BY DEF ParseHeap
<1>2. CASE frames = <<>>
  <2>1. Above(frames, root, 0) = root
    BY <1>2 DEF Above
  <2> QED
    BY <1>1, <2>1, FramesApart DEF ParseHeap
<1>3. CASE frames # <<>>
  <2>1. frames \in Seq(FrameType) /\ frames[1].head # Null
    BY <1>3 DEF ParseHeap, OpenFrames
  <2>2. Len(frames) # 0 /\ 1 \in 1 .. Len(frames)
    BY <1>3, <2>1
  <2>3. Above(frames, root, 0) = frames[1].cur
    BY <2>2 DEF Above
  <2>4. frames[1].cur \in DOMAIN item
    BY <2>1, <2>2, FramesApart DEF ParseHeap
  <2> QED
    BY <1>1, <2>3, <2>4
<1> QED
  BY <1>2, <1>3

\* The frames stay open while a text, a type or a key is filled in.
LEMMA FillFrames ==
  ASSUME ParseHeap, NEW x \in DOMAIN item, NEW k, DOMAIN k = DOMAIN item,
         \A n \in DOMAIN item \ {x} : k[n] = item[n],
         k[x].next = item[x].next, k[x].child = item[x].child,
         \A p : Leads(k, p) = Leads(item, p), \A t : IsTail(k, t) <=> IsTail(item, t)
  PROVE  OpenFrames(k, frames, root)
<1>1. OpenFrames(item, frames, root) /\ \A i \in 1 .. Len(frames) : OpenFrame(item, frames, root, i)
  BY DEF ParseHeap, OpenFrames
<1>2. \A n \in DOMAIN item : k[n].next = item[n].next /\ k[n].child = item[n].child
  OBVIOUS
<1>3. ASSUME NEW i \in 1 .. Len(frames) PROVE k[frames[i].item].child = item[frames[i].item].child
  <2>1. frames[i].item \in DOMAIN item
    BY <1>3, FramesApart DEF ParseHeap
  <2> QED
    BY <1>2, <2>1
<1>4. ASSUME NEW i \in 1 .. Len(frames), frames[i].head # Null
      PROVE  /\ frames[i].cur \in Leads(k, frames[i].head)
             /\ k[frames[i].cur].next = Null /\ ~IsTail(k, frames[i].cur)
  <2>1. frames[i].cur \in DOMAIN item
    BY <1>4, FramesApart DEF ParseHeap
  <2>2. OpenFrame(item, frames, root, i)
    BY <1>1, <1>4
  <2> QED
    BY <1>2, <1>4, <2>1, <2>2 DEF OpenFrame
<1> QED
  BY <1>1, <1>3, <1>4, FramesKept

\* A value is read: only a string needs its text.
LEMMA ValueRead ==
  ASSUME ParseHeap, step = "value", NEW k, k = item', DOMAIN k = DOMAIN item,
         \A n \in DOMAIN item \ {at} : k[n] = item[n],
         k[at].next = item[at].next, k[at].child = item[at].child,
         \A p : Leads(k, p) = Leads(item, p), \A t : IsTail(k, t) <=> IsTail(item, t),
         Sound(k, strings', Roots(frames, root)),
         k[at].type # "String" \/ k[at].valuestring # NoString,
         step' = Resume(frames), frames' = frames, root' = root
  PROVE  ParseHeap'
<1>1. at \in DOMAIN item /\ root # Null
  BY AtExists
<1>2. OpenFrames(k, frames, root)
  BY <1>1, FillFrames
<1>3. step' = IF frames = <<>> THEN "done" ELSE "after"
  BY DEF Resume
<1>4. \A n \in DOMAIN k : k[n].type = "String" /\ k[n].valuestring = NoString =>
        \E i \in 1 .. Len(frames) : n = frames[i].item
  <2> SUFFICES ASSUME NEW n \in DOMAIN k, k[n].type = "String", k[n].valuestring = NoString
               PROVE  \E i \in 1 .. Len(frames) : n = frames[i].item
    OBVIOUS
  <2>1. n # at /\ n \in DOMAIN item
    OBVIOUS
  <2>2. item[n].type = "String" /\ item[n].valuestring = NoString
    BY <2>1
  <2> QED
    BY <2>1, <2>2 DEF ParseHeap
<1>5. frames = <<>> \/ frames[1].head # Null
  BY DEF ParseHeap
<1> QED
  BY <1>1, <1>2, <1>3, <1>4, <1>5 DEF ParseHeap

\* An item that is filled in has its type.
LEMMA ItemFilled ==
  ASSUME NEW S, NEW r \in ItemsOf(S), NEW type \in Types, NEW w \in Words \cup {NoString},
         NEW v \in Seq(Symbols)
  PROVE  /\ [r EXCEPT !.type = type] \in ItemsOf(S)
         /\ [r EXCEPT !.type = type, !.number = v] \in ItemsOf(S)
         /\ [r EXCEPT !.type = type, !.valuestring = w] \in ItemsOf(S)
         /\ [r EXCEPT !.type = type, !.string = w] \in ItemsOf(S)
         /\ [r EXCEPT !.valuestring = w] \in ItemsOf(S)
<1> DEFINE W == Words \cup {NoString}
           V == Seq(Symbols)
           P == S \cup {Null}
<1>1. ItemsOf(S) = [type : Types, valuestring : W, number : V, string : W, child : P,
                    prev : P, next : P]
  BY DEF ItemsOf
<1>2. w \in W /\ v \in V
  OBVIOUS
<1> HIDE DEF W, V, P
<1>3. r \in [type : Types, valuestring : W, number : V, string : W, child : P,
             prev : P, next : P]
  BY <1>1
<1>4. [r EXCEPT !.type = type] \in ItemsOf(S)
  BY <1>1, <1>3
<1>5. [r EXCEPT !.type = type, !.number = v] \in ItemsOf(S)
  BY <1>1, <1>2, <1>3
<1>6. [r EXCEPT !.type = type, !.valuestring = w] \in ItemsOf(S)
  BY <1>1, <1>2, <1>3
<1>7. [r EXCEPT !.type = type, !.string = w] \in ItemsOf(S)
  BY <1>1, <1>2, <1>3
<1>8. [r EXCEPT !.valuestring = w] \in ItemsOf(S)
  BY <1>1, <1>2, <1>3
<1> QED
  BY <1>4, <1>5, <1>6, <1>7, <1>8

LEMMA NumeralWord ==
  ASSUME content \in Seq(Symbols), pos \in Nat, pos < Size
  PROVE  Numeral(pos) \in Seq(Symbols)
<1> DEFINE first == IF IsAt(pos, "-") THEN pos + 1 ELSE pos
           end == Past(first, {"7"})
<1>1. Size \in Nat /\ Size = Len(content)
  BY DEF Size
<1>2. first \in Nat /\ first <= Size /\ pos <= first
  BY <1>1
<1>3. end \in first .. Size
  BY <1>1, <1>2, PastBounds
<1>4. Numeral(pos) = <<>> \/ Numeral(pos) = SubSeq(content, pos + 1, end)
  BY DEF Numeral
<1>5. SubSeq(content, pos + 1, end) \in Seq(Symbols)
  BY <1>1, <1>2, <1>3
<1> HIDE DEF end, first
<1> QED
  BY <1>4, <1>5, LiteralWords

LEMMA TypeRead ==
  /\ TypeAt(pos) \in Types /\ "Number" \in Types /\ "String" \in Types
BY DEF TypeAt, Types

\* null, false and true; an empty container.
LEMMA LiteralRead ==
  ASSUME ParseHeap, ParseLiteral \/ ParseEmpty
  PROVE  ParseHeap'
<1> DEFINE k == [item EXCEPT ![at].type = TypeAt(pos)]
           E == Roots(frames, root)
<1>1. /\ step = "value" /\ item' = k /\ strings' = strings /\ step' = Resume(frames)
      /\ frames' = frames /\ root' = root /\ TypeAt(pos) # "String"
  BY DEF ParseLiteral, ParseEmpty, Opens, Starts
<1>2. at \in DOMAIN item
  BY <1>1, AtExists
<1>3. Sound(item, strings, E) /\ item[at] \in ItemsOf(DOMAIN item) /\ item = [n \in DOMAIN item |-> item[n]]
  BY <1>2, FieldsTyped DEF ParseHeap, Sound, Typed
<1>4. k[at] \in ItemsOf(DOMAIN item) /\ k[at] = [item[at] EXCEPT !.type = TypeAt(pos)]
  <2>1. k[at] = [item[at] EXCEPT !.type = TypeAt(pos)]
    BY <1>2
  <2>2. NoString \in Words \cup {NoString} /\ <<>> \in Seq(Symbols)
    OBVIOUS
  <2>3. TypeAt(pos) \in Types
    BY TypeRead
  <2>4. [item[at] EXCEPT !.type = TypeAt(pos)] \in ItemsOf(DOMAIN item)
    BY <1>3, <2>2, <2>3, ItemFilled
  <2> QED
    BY <2>1, <2>4
<1>5. DOMAIN k = DOMAIN item /\ IsHeap(k) /\ \A n \in DOMAIN item \ {at} : k[n] = item[n]
  BY <1>3 DEF IsHeap
<1> HIDE DEF k, E
<1>6. /\ k[at].next = item[at].next /\ k[at].child = item[at].child
      /\ k[at].prev = item[at].prev /\ k[at].valuestring = item[at].valuestring
      /\ k[at].string = item[at].string /\ k[at].type = TypeAt(pos)
  BY <1>3, <1>4 DEF ItemsOf
<1>7. Filled(at, k)
  BY <1>4, <1>5, <1>6 DEF Filled
<1>8. /\ Sound(k, strings, E) /\ \A p : Leads(k, p) = Leads(item, p)
      /\ \A t : IsTail(k, t) <=> IsTail(item, t)
  BY <1>2, <1>3, <1>6, <1>7, FillItem
<1> QED
  BY <1>1, <1>5, <1>6, <1>8, ValueRead DEF E

\* parse_number
LEMMA NumberRead ==
  ASSUME ParserInv, ParseHeap, ParseNumber
  PROVE  ParseHeap'
<1> DEFINE v == Numeral(pos)
           k == [item EXCEPT ![at].type = "Number", ![at].number = v]
           E == Roots(frames, root)
<1>1. /\ step = "value" /\ item' = k /\ strings' = strings /\ step' = Resume(frames)
      /\ frames' = frames /\ root' = root
  BY DEF ParseNumber, Starts
<1>2. at \in DOMAIN item /\ v \in Seq(Symbols)
  BY <1>1, AtExists, NumeralWord DEF ParserInv
<1>3. Sound(item, strings, E) /\ item[at] \in ItemsOf(DOMAIN item) /\ item = [n \in DOMAIN item |-> item[n]]
  BY <1>2, FieldsTyped DEF ParseHeap, Sound, Typed
<1> HIDE DEF v
<1>4. /\ k[at] \in ItemsOf(DOMAIN item)
      /\ k[at] = [item[at] EXCEPT !.type = "Number", !.number = v]
  <2>1. k[at] = [item[at] EXCEPT !.type = "Number", !.number = v]
    BY <1>2
  <2>2. NoString \in Words \cup {NoString}
    OBVIOUS
  <2> QED
    BY <1>2, <1>3, <2>1, <2>2, TypeRead, ItemFilled
<1>5. DOMAIN k = DOMAIN item /\ IsHeap(k) /\ \A n \in DOMAIN item \ {at} : k[n] = item[n]
  BY <1>3 DEF IsHeap
<1> HIDE DEF k, E
<1>6. /\ k[at].next = item[at].next /\ k[at].child = item[at].child
      /\ k[at].prev = item[at].prev /\ k[at].valuestring = item[at].valuestring
      /\ k[at].string = item[at].string /\ k[at].type = "Number"
  BY <1>3, <1>4 DEF ItemsOf
<1>7. Filled(at, k)
  BY <1>4, <1>5, <1>6 DEF Filled
<1>8. /\ Sound(k, strings, E) /\ \A p : Leads(k, p) = Leads(item, p)
      /\ \A t : IsTail(k, t) <=> IsTail(item, t)
  BY <1>2, <1>3, <1>6, <1>7, FillItem
<1> QED
  BY <1>1, <1>5, <1>6, <1>8, ValueRead DEF E

\* parse_string
LEMMA StringRead ==
  ASSUME ParserInv, ParseHeap, ParseString
  PROVE  ParseHeap'
<1> DEFINE w == StringAt(pos)
           k == [item EXCEPT ![at].type = "String", ![at].valuestring = w]
           E == Roots(frames, root)
           c == strings + 1
<1>1. /\ step = "value" /\ item' = k /\ strings' = c /\ step' = Resume(frames)
      /\ frames' = frames /\ root' = root
  BY DEF ParseString, Starts
<1>2. at \in DOMAIN item /\ w \in Words /\ w # NoString /\ item[at].valuestring = NoString
  <2>1. content \in Seq(Symbols) /\ pos \in Nat /\ GoodString(pos)
    BY <1>1 DEF ParserInv, ParseString
  <2> QED
    BY <1>1, <2>1, AtExists, StringAtType, WordsTyped DEF ParseHeap
<1>3. Sound(item, strings, E) /\ item[at] \in ItemsOf(DOMAIN item) /\ item = [n \in DOMAIN item |-> item[n]]
  BY <1>2, FieldsTyped DEF ParseHeap, Sound, Typed
<1> HIDE DEF w
<1>4. /\ k[at] \in ItemsOf(DOMAIN item)
      /\ k[at] = [item[at] EXCEPT !.type = "String", !.valuestring = w]
  <2>1. k[at] = [item[at] EXCEPT !.type = "String", !.valuestring = w]
    BY <1>2
  <2>2. w \in Words \cup {NoString} /\ <<>> \in Seq(Symbols) /\ "String" \in Types
    BY <1>2, TypeRead
  <2> HIDE DEF k
  <2>3. [item[at] EXCEPT !.type = "String", !.valuestring = w] \in ItemsOf(DOMAIN item)
    BY <1>3, <2>2, ItemFilled
  <2> QED
    BY <2>1, <2>3
<1>5. DOMAIN k = DOMAIN item /\ IsHeap(k) /\ \A n \in DOMAIN item \ {at} : k[n] = item[n]
  BY <1>3 DEF IsHeap
<1> HIDE DEF k, E
<1>6. /\ k[at].next = item[at].next /\ k[at].child = item[at].child
      /\ k[at].prev = item[at].prev /\ k[at].valuestring = w
      /\ k[at].string = item[at].string
  BY <1>3, <1>4 DEF ItemsOf
<1>7. Filled(at, k)
  BY <1>4, <1>5, <1>6 DEF Filled
<1>8. /\ Sound(k, c, E) /\ \A p : Leads(k, p) = Leads(item, p)
      /\ \A t : IsTail(k, t) <=> IsTail(item, t)
  BY <1>2, <1>3, <1>6, <1>7, FillItem
<1> HIDE DEF c
<1> QED
  BY <1>1, <1>2, <1>5, <1>6, <1>8, ValueRead DEF E

\* parse_object: a name becomes the key of its member.
LEMMA NameRead ==
  ASSUME ParserInv, ParseHeap, ParseName
  PROVE  ParseHeap'
<1> DEFINE w == StringAt(pos)
           k == [item EXCEPT ![at].type = "String", ![at].string = w]
           E == Roots(frames, root)
           c == strings + 1
<1>1. /\ step = "name" /\ item' = k /\ strings' = c /\ step' \in {"value", "fail"}
      /\ frames' = frames /\ root' = root /\ at' = at
  BY DEF ParseName
<1>2. /\ at \in DOMAIN item /\ w \in Words /\ w # NoString /\ item[at].string = NoString
      /\ item[at].valuestring = NoString /\ item[at].child = Null
      /\ at = Above(frames, root, 0) /\ root # Null
  <2>1. content \in Seq(Symbols) /\ pos \in Nat /\ GoodString(pos)
    BY <1>1 DEF ParserInv, ParseName
  <2> QED
    BY <1>1, <2>1, AtExists, StringAtType, WordsTyped DEF ParseHeap
<1>3. Sound(item, strings, E) /\ item[at] \in ItemsOf(DOMAIN item) /\ item = [n \in DOMAIN item |-> item[n]]
  BY <1>2, FieldsTyped DEF ParseHeap, Sound, Typed
<1> HIDE DEF w
<1>4. /\ k[at] \in ItemsOf(DOMAIN item)
      /\ k[at] = [item[at] EXCEPT !.type = "String", !.string = w]
  <2>1. k[at] = [item[at] EXCEPT !.type = "String", !.string = w]
    BY <1>2
  <2>2. w \in Words \cup {NoString} /\ <<>> \in Seq(Symbols) /\ "String" \in Types
    BY <1>2, TypeRead
  <2> HIDE DEF k
  <2>3. [item[at] EXCEPT !.type = "String", !.string = w] \in ItemsOf(DOMAIN item)
    BY <1>3, <2>2, ItemFilled
  <2> QED
    BY <2>1, <2>3
<1>5. DOMAIN k = DOMAIN item /\ IsHeap(k) /\ \A n \in DOMAIN item \ {at} : k[n] = item[n]
  BY <1>3 DEF IsHeap
<1> HIDE DEF k, E
<1>6. /\ k[at].next = item[at].next /\ k[at].child = item[at].child
      /\ k[at].prev = item[at].prev /\ k[at].valuestring = item[at].valuestring
      /\ k[at].string = w
  BY <1>3, <1>4 DEF ItemsOf
<1>7. Filled(at, k)
  BY <1>4, <1>5, <1>6 DEF Filled
<1>8. /\ Sound(k, c, E) /\ \A p : Leads(k, p) = Leads(item, p)
      /\ \A t : IsTail(k, t) <=> IsTail(item, t)
  BY <1>2, <1>3, <1>6, <1>7, FillItem
<1> HIDE DEF c
<1>9. OpenFrames(k, frames, root)
  BY <1>2, <1>5, <1>6, <1>8, FillFrames
<1>10. \A n \in DOMAIN k : k[n].type = "String" /\ k[n].valuestring = NoString =>
         n = at \/ \E i \in 1 .. Len(frames) : n = frames[i].item
  <2> SUFFICES ASSUME NEW n \in DOMAIN k, k[n].type = "String", k[n].valuestring = NoString,
                      n # at
               PROVE  \E i \in 1 .. Len(frames) : n = frames[i].item
    OBVIOUS
  <2>1. n \in DOMAIN item /\ item[n].type = "String" /\ item[n].valuestring = NoString
    BY <1>5
  <2> QED
    BY <1>1, <2>1 DEF ParseHeap
<1>11. frames # <<>> /\ frames[1].head # Null
  BY <1>1 DEF ParseHeap
<1> QED
  BY <1>1, <1>2, <1>6, <1>8, <1>9, <1>10, <1>11 DEF ParseHeap, E

\* A container is opened; it has no list yet.
LEMMA ContainerOpens ==
  ASSUME ParseHeap, ParseOpen
  PROVE  ParseHeap'
<1> DEFINE x == [type |-> TypeAt(pos), item |-> at, head |-> Null, cur |-> Null]
           fr == <<x>> \o frames
           E == Roots(frames, root)
<1>1. /\ step = "value" /\ step' = "next" /\ frames' = fr /\ TypeAt(pos) \in {"Array", "Object"}
      /\ UNCHANGED <<item, strings, root, at>>
  BY DEF ParseOpen, Opens, Starts, heap
<1>2. /\ at \in DOMAIN item /\ at = Above(frames, root, 0) /\ root # Null
      /\ item[at].child = Null /\ DOMAIN item \subseteq Nat
  BY <1>1, AtExists DEF ParseHeap, Sound, Heap
<1>3. /\ frames \in Seq(FrameType) /\ Sound(item, strings, E)
      /\ \A i \in 1 .. Len(frames) : OpenFrame(item, frames, root, i) /\ frames[i].head # Null
      /\ \A i, j \in 1 .. Len(frames) : frames[i].head = frames[j].head => i = j
  <2>1. ASSUME NEW i \in 1 .. Len(frames), frames[i].head = Null PROVE FALSE
    <3>1. OpenFrame(item, frames, root, i)
      BY <2>1 DEF ParseHeap, OpenFrames
    <3>2. i = 1 /\ frames # <<>>
      BY <2>1, <3>1 DEF OpenFrame
    <3> QED
      BY <1>1, <2>1, <3>2 DEF ParseHeap
  <2> QED
    BY <2>1 DEF ParseHeap, OpenFrames
<1>4. x \in FrameType /\ x.item = at /\ x.head = Null /\ x.cur = Null
  BY <1>1, <1>2 DEF FrameType, Null
<1>5. /\ fr \in Seq(FrameType) /\ Len(fr) = Len(frames) + 1 /\ fr[1] = x /\ fr # <<>>
      /\ Len(frames) \in Nat /\ \A i \in 1 .. Len(frames) : fr[i + 1] = frames[i]
  BY <1>3, <1>4, PushFrame
<1> HIDE DEF x, fr, E
<1>6. \A i \in 1 .. Len(fr) : i = 1 \/ (i - 1 \in 1 .. Len(frames) /\ fr[i] = frames[i - 1])
  <2> TAKE i \in 1 .. Len(fr)
  <2>1. CASE i # 1
    <3>1. i - 1 \in 1 .. Len(frames) /\ (i - 1) + 1 = i
      BY <1>5, <2>1
    <3> QED
      BY <1>5, <3>1
  <2> QED
    BY <2>1
<1>7. \A i \in 0 .. Len(frames) : Above(fr, root, i + 1) = Above(frames, root, i)
  <2> TAKE i \in 0 .. Len(frames)
  <2>1. CASE i = Len(frames)
    BY <1>5, <2>1 DEF Above
  <2>2. CASE i # Len(frames)
    <3>1. i + 1 \in 1 .. Len(frames) /\ i + 1 # Len(fr)
      BY <1>5, <2>2
    <3>2. fr[(i + 1) + 1] = frames[i + 1]
      BY <1>5, <3>1
    <3> QED
      BY <2>2, <3>1, <3>2 DEF Above
  <2> QED
    BY <2>1, <2>2
<1>8. ASSUME NEW i \in 1 .. Len(fr) PROVE OpenFrame(item, fr, root, i)
  <2>1. CASE i = 1
    <3>1. Above(fr, root, 1) = at
      BY <1>2, <1>5, <1>7
    <3> QED
      BY <1>2, <1>4, <1>5, <2>1, <3>1 DEF OpenFrame
  <2>2. CASE i # 1
    <3>1. i - 1 \in 1 .. Len(frames) /\ fr[i] = frames[i - 1] /\ (i - 1) + 1 = i
      BY <1>6, <2>2
    <3>2. OpenFrame(item, frames, root, i - 1) /\ frames[i - 1].head # Null
      BY <1>3, <3>1
    <3>3. Above(fr, root, i) = Above(frames, root, i - 1)
      BY <1>7, <3>1
    <3> QED
      BY <3>1, <3>2, <3>3 DEF OpenFrame
  <2> QED
    BY <2>1, <2>2
<1>9. \A i, j \in 1 .. Len(fr) : fr[i].head # Null /\ fr[i].head = fr[j].head => i = j
  <2> SUFFICES ASSUME NEW i \in 1 .. Len(fr), NEW j \in 1 .. Len(fr),
                      fr[i].head # Null, fr[i].head = fr[j].head
               PROVE  i = j
    OBVIOUS
  <2>1. i # 1 /\ j # 1
    BY <1>4, <1>5
  <2>2. /\ i - 1 \in 1 .. Len(frames) /\ fr[i] = frames[i - 1]
        /\ j - 1 \in 1 .. Len(frames) /\ fr[j] = frames[j - 1]
    BY <1>6, <2>1
  <2>3. i - 1 = j - 1
    BY <1>3, <2>2
  <2> QED
    BY <2>3
<1>10. Roots(fr, root) = E
  <2>1. ASSUME NEW n PROVE n \in Roots(fr, root) <=> n \in E
    <3>1. ASSUME NEW i \in 1 .. Len(fr), fr[i].head # Null
          PROVE  \E j \in 1 .. Len(frames) : fr[i].head = frames[j].head
      <4>1. i - 1 \in 1 .. Len(frames) /\ fr[i] = frames[i - 1]
        BY <1>4, <1>5, <1>6, <3>1
      <4> QED
        BY <4>1
    <3>2. ASSUME NEW i \in 1 .. Len(frames)
          PROVE  \E j \in 1 .. Len(fr) : fr[j].head = frames[i].head
      <4>1. i + 1 \in 1 .. Len(fr) /\ fr[i + 1] = frames[i]
        BY <1>5
      <4> QED
        BY <4>1
    <3>3. n \in Roots(fr, root) <=> n # Null /\ (n = root \/ \E i \in 1 .. Len(fr) : n = fr[i].head)
      BY DEF Roots
    <3>4. n \in E <=> n # Null /\ (n = root \/ \E i \in 1 .. Len(frames) : n = frames[i].head)
      BY DEF Roots, E
    <3> QED
      BY <3>1, <3>2, <3>3, <3>4
  <2> QED
    BY <2>1
<1>11. OpenFrames(item, fr, root)
  BY <1>2, <1>5, <1>8, <1>9 DEF OpenFrames
<1>12. \A n \in DOMAIN item : item[n].type = "String" /\ item[n].valuestring = NoString =>
         \E i \in 1 .. Len(fr) : n = fr[i].item
  <2> SUFFICES ASSUME NEW n \in DOMAIN item, item[n].type = "String",
                      item[n].valuestring = NoString
               PROVE  \E i \in 1 .. Len(fr) : n = fr[i].item
    OBVIOUS
  <2>1. n = at \/ \E i \in 1 .. Len(frames) : n = frames[i].item
    BY <1>1 DEF ParseHeap
  <2>2. CASE n = at
    <3>1. 1 \in 1 .. Len(fr) /\ fr[1].item = at
      BY <1>4, <1>5
    <3> QED
      BY <2>2, <3>1
  <2>3. ASSUME NEW i \in 1 .. Len(frames), n = frames[i].item
        PROVE  \E j \in 1 .. Len(fr) : n = fr[j].item
    <3>1. i + 1 \in 1 .. Len(fr) /\ fr[i + 1] = frames[i]
      BY <1>5
    <3> QED
      BY <2>3, <3>1
  <2> QED
    BY <2>1, <2>2, <2>3
<1> QED
  BY <1>1, <1>2, <1>3, <1>5, <1>10, <1>11, <1>12 DEF ParseHeap

LEMMA TailExists ==
  ASSUME NEW h, Pointers(h), NEW t, t # Null, IsTail(h, t)
  PROVE  t \in DOMAIN h
<1>1. PICK q \in DOMAIN h : h[q].child # Null /\ h[h[q].child].prev = t
  BY DEF IsTail
<1>2. h[q].child \in DOMAIN h
  BY <1>1 DEF Pointers
<1> QED
  BY <1>1, <1>2 DEF Pointers

\* The innermost frame is at its new element.
TopMoved(f, g) ==
  /\ g \in FrameType /\ g.item = f.item /\ g.cur = Fresh
  /\ g.head = IF f.head = Null THEN Fresh ELSE f.head

\* parse_array and parse_object, once the new element is linked.
LEMMA ElementAdded ==
  ASSUME ParseHeap, step = "next", NEW k, NEW g, NEW fr, TopMoved(frames[1], g),
         fr = <<g>> \o Tail(frames), Sound(k, strings, Roots(fr, root)),
         Fresh \in Nat \ {Null}, Fresh \notin DOMAIN item,
         DOMAIN k = DOMAIN item \cup {Fresh}, k[Fresh] = [Blank EXCEPT !.prev = frames[1].cur],
         \A n \in DOMAIN item : /\ k[n].child = item[n].child /\ k[n].type = item[n].type
                                /\ k[n].valuestring = item[n].valuestring,
         \A n \in DOMAIN item \ {frames[1].cur} : k[n].next = item[n].next,
         \A p \in DOMAIN item : Leads(item, p) \subseteq Leads(k, p),
         Fresh \in Leads(k, g.head), \A t : IsTail(k, t) => IsTail(item, t),
         item' = k, strings' = strings, frames' = fr, root' = root, at' = Fresh,
         step' \in {"value", "name", "fail"}
  PROVE  ParseHeap'
<1> DEFINE E == Roots(frames, root)
<1>1. /\ frames # <<>> /\ root # Null /\ frames \in Seq(FrameType)
      /\ Sound(item, strings, E) /\ OpenFrames(item, frames, root)
      /\ \A i \in 1 .. Len(frames) : OpenFrame(item, frames, root, i)
      /\ Pointers(item)
  BY DEF ParseHeap, OpenFrames, Sound, Heap
<1>2. /\ fr \in Seq(FrameType) /\ Len(fr) = Len(frames) /\ fr[1] = g /\ fr # <<>>
      /\ Len(frames) \in Nat \ {0} /\ \A i \in 2 .. Len(frames) : fr[i] = frames[i]
  BY <1>1, TopFrame DEF TopMoved
<1>3. /\ g.item = frames[1].item /\ g.cur = Fresh /\ g.head # Null
      /\ g.head = Fresh \/ (frames[1].head # Null /\ g.head = frames[1].head)
  BY DEF TopMoved
<1>4. /\ \A i \in 1 .. Len(fr) : Above(fr, root, i) = Above(frames, root, i)
      /\ Above(fr, root, 0) = Fresh
  <2>1. ASSUME NEW i \in 1 .. Len(fr) PROVE Above(fr, root, i) = Above(frames, root, i)
    <3>1. i = Len(fr) \/ fr[i + 1] = frames[i + 1]
      BY <1>2
    <3> QED
      BY <1>2, <3>1 DEF Above
  <2>2. Above(fr, root, 0) = Fresh
    BY <1>2, <1>3 DEF Above
  <2> QED
    BY <2>1, <2>2
<1>5. ASSUME NEW i \in 1 .. Len(fr)
      PROVE  fr[i].item = frames[i].item /\ fr[i].item \in DOMAIN item
  <2>1. fr[i].item = frames[i].item
    BY <1>2, <1>3
  <2>2. frames[i].item \in DOMAIN item
    BY <1>1, <1>2, FramesApart
  <2> QED
    BY <2>1, <2>2
<1>6. root \in DOMAIN item
  BY <1>1, FramesApart
<1>7. ~IsTail(k, Fresh)
  BY <1>1, TailExists
<1>8. ASSUME NEW i \in 2 .. Len(fr)
      PROVE  /\ fr[i] = frames[i] /\ frames[i].head # Null /\ frames[i].head \in DOMAIN item
             /\ OpenFrame(item, frames, root, i)
             /\ frames[i].cur \in DOMAIN item /\ frames[i].cur # frames[1].cur
  <2>1. i \in 1 .. Len(frames) /\ i # 1 /\ 1 \in 1 .. Len(frames)
    BY <1>2
  <2>2. fr[i] = frames[i] /\ OpenFrame(item, frames, root, i)
    BY <1>1, <1>2, <2>1
  <2>3. frames[i].head # Null
    BY <2>1, <2>2 DEF OpenFrame
  <2>4. frames[i].cur \in DOMAIN item /\ frames[i].head \in DOMAIN item /\ Null \notin DOMAIN item
    BY <1>1, <2>1, <2>3, FramesApart
  <2>5. frames[i].cur # frames[1].cur
    <3>1. CASE frames[1].head = Null
      <4>1. frames[1].cur = Null
        BY <1>1, <2>1, <3>1 DEF OpenFrame
      <4> QED
        BY <2>4, <4>1
    <3>2. CASE frames[1].head # Null
      BY <1>1, <2>1, <2>3, <3>2, FramesApart
    <3> QED
      BY <3>1, <3>2
  <2> QED
    BY <2>2, <2>3, <2>4, <2>5
<1>9. ASSUME NEW i \in 1 .. Len(fr) PROVE OpenFrame(k, fr, root, i)
  <2>1. fr[i].item = Above(fr, root, i) /\ k[fr[i].item].child = Null
    <3>1. frames[i].item = Above(frames, root, i) /\ item[frames[i].item].child = Null
      BY <1>1, <1>2 DEF OpenFrame
    <3>2. Above(fr, root, i) = Above(frames, root, i)
      BY <1>4
    <3>3. fr[i].item = frames[i].item /\ fr[i].item \in DOMAIN item
      BY <1>5
    <3>4. k[fr[i].item].child = item[fr[i].item].child
      BY <3>3
    <3> QED
      BY <3>1, <3>2, <3>3, <3>4
  <2>2. CASE i = 1
    <3>1. fr[1].head # root
      <4>1. frames[1].head # Null => frames[1].head # root
        BY <1>1, <1>2 DEF OpenFrame
      <4> QED
        BY <1>2, <1>3, <1>6, <4>1
    <3>2. k[Fresh].next = Null
      BY DEF Blank
    <3> QED
      BY <1>2, <1>3, <1>7, <2>1, <2>2, <3>1, <3>2 DEF OpenFrame
  <2>3. CASE i # 1
    <3>1. i \in 2 .. Len(fr)
      BY <1>2, <2>3
    <3>2. /\ frames[i].head # root /\ frames[i].cur \in Leads(item, frames[i].head)
          /\ item[frames[i].cur].next = Null /\ ~IsTail(item, frames[i].cur)
      BY <1>8, <3>1 DEF OpenFrame
    <3>3. frames[i].cur \in Leads(k, frames[i].head) /\ k[frames[i].cur].next = Null
      BY <1>8, <3>1, <3>2
    <3> QED
      BY <1>8, <2>1, <3>1, <3>2, <3>3 DEF OpenFrame
  <2> QED
    BY <2>2, <2>3
<1>10. \A i, j \in 1 .. Len(fr) : fr[i].head # Null /\ fr[i].head = fr[j].head => i = j
  <2>1. ASSUME NEW i \in 2 .. Len(fr) PROVE fr[i].head # fr[1].head
    <3>1. i \in 1 .. Len(frames) /\ 1 \in 1 .. Len(frames) /\ i # 1
      BY <1>2
    <3>2. frames[i].head # frames[1].head
      BY <1>1, <1>8, <2>1, <3>1 DEF OpenFrames
    <3> QED
      BY <1>2, <1>3, <1>8, <2>1, <3>2
  <2>2. ASSUME NEW i \in 2 .. Len(fr), NEW j \in 2 .. Len(fr), fr[i].head = fr[j].head
        PROVE  i = j
    <3>1. i \in 1 .. Len(frames) /\ j \in 1 .. Len(frames)
      BY <1>2
    <3>2. frames[i].head = frames[j].head /\ frames[i].head # Null
      BY <1>8, <2>2
    <3> QED
      BY <1>1, <3>1, <3>2 DEF OpenFrames
  <2> SUFFICES ASSUME NEW i \in 1 .. Len(fr), NEW j \in 1 .. Len(fr), fr[i].head = fr[j].head
               PROVE  i = j
    OBVIOUS
  <2>3. (i = 1 \/ i \in 2 .. Len(fr)) /\ (j = 1 \/ j \in 2 .. Len(fr))
    BY <1>2
  <2>4. CASE i = 1 /\ j = 1
    BY <2>4
  <2>5. CASE i \in 2 .. Len(fr) /\ j \in 2 .. Len(fr)
    BY <2>2, <2>5
  <2>6. CASE i \in 2 .. Len(fr) /\ j = 1
    BY <2>1, <2>6
  <2>7. CASE i = 1 /\ j \in 2 .. Len(fr)
    <3>1. fr[j].head # fr[1].head
      BY <2>1, <2>7
    <3> QED
      BY <2>7, <3>1
  <2> QED
    BY <2>3, <2>4, <2>5, <2>6, <2>7
<1>11. OpenFrames(k, fr, root)
  BY <1>1, <1>2, <1>9, <1>10 DEF OpenFrames
<1>12. \A n \in DOMAIN k : k[n].type = "String" /\ k[n].valuestring = NoString =>
         \E i \in 1 .. Len(fr) : n = fr[i].item
  <2> SUFFICES ASSUME NEW n \in DOMAIN k, k[n].type = "String", k[n].valuestring = NoString
               PROVE  \E i \in 1 .. Len(fr) : n = fr[i].item
    OBVIOUS
  <2>1. n # Fresh
    <3>1. k[Fresh].type = "Invalid"
      BY DEF Blank
    <3> QED
      BY <3>1
  <2>2. n \in DOMAIN item /\ item[n].type = "String" /\ item[n].valuestring = NoString
    BY <2>1
  <2>3. \E i \in 1 .. Len(frames) : n = frames[i].item
    BY <2>2 DEF ParseHeap
  <2> QED
    BY <1>2, <1>5, <2>3
<1>13. /\ k[Fresh].child = Null /\ k[Fresh].valuestring = NoString
       /\ k[Fresh].string = NoString
  BY DEF Blank
<1> QED
  BY <1>1, <1>2, <1>3, <1>4, <1>11, <1>12, <1>13 DEF ParseHeap

LEMMA BlankType ==
  ASSUME NEW S, NEW p \in S \cup {Null}
  PROVE  /\ [Blank EXCEPT !.prev = p] \in ItemsOf(S)
         /\ [Blank EXCEPT !.prev = Null] = Blank
         /\ Blank.next = Null /\ Blank.child = Null /\ Blank.prev = Null
         /\ Blank.valuestring = NoString /\ Blank.string = NoString
<1> DEFINE W == Words \cup {NoString}
           V == Seq(Symbols)
           P == S \cup {Null}
<1>1. ItemsOf(S) = [type : Types, valuestring : W, number : V, string : W, child : P,
                    prev : P, next : P]
  BY DEF ItemsOf
<1>2. NoString \in W /\ <<>> \in V /\ p \in P /\ Null \in P /\ "Invalid" \in Types
  BY LiteralWords DEF Types
<1> HIDE DEF W, V, P
<1>3. [Blank EXCEPT !.prev = p] \in ItemsOf(S)
  BY <1>1, <1>2 DEF Blank
<1>4. [Blank EXCEPT !.prev = Null] = Blank
  BY DEF Blank
<1> QED
  BY <1>3, <1>4 DEF Blank

LEMMA ElementParsed ==
  ASSUME ParseHeap, ParseNext
  PROVE  ParseHeap'
<1> DEFINE f == frames[1]
           g == [f EXCEPT !.head = IF f.head = Null THEN Fresh ELSE f.head, !.cur = Fresh]
           fr == <<g>> \o Tail(frames)
           E == Roots(frames, root)
           new == WithNew([Blank EXCEPT !.prev = f.cur])
           k == item'
<1>1. /\ step = "next" /\ frames # <<>> /\ root # Null /\ frames \in Seq(FrameType)
      /\ Sound(item, strings, E) /\ OpenFrames(item, frames, root)
      /\ \A i \in 1 .. Len(frames) : OpenFrame(item, frames, root, i)
  BY DEF ParseHeap, OpenFrames, ParseNext
<1>2. Head(frames) = f /\ f \in FrameType /\ Len(frames) \in Nat \ {0} /\ 1 \in 1 .. Len(frames)
  <2> HIDE DEF f
  <2>1. Len(frames) \in Nat \ {0}
    BY <1>1
  <2> QED
    BY <1>1, <2>1 DEF f
<1>3. /\ k = (IF f.head = Null THEN new ELSE [new EXCEPT ![f.cur].next = Fresh])
      /\ frames' = fr /\ step' \in {"value", "name", "fail"} /\ at' = Fresh
      /\ strings' = strings /\ root' = root
  BY <1>2 DEF ParseNext
<1>4. Fresh \in Nat \ {Null} /\ Fresh \notin DOMAIN item
  BY <1>1, FreshAddress DEF Sound
<1>5. TopMoved(f, g)
  <2> HIDE DEF f
  <2>1. g \in FrameType
    BY <1>2, <1>4 DEF FrameType
  <2> QED
    BY <1>2, <2>1 DEF TopMoved, FrameType
<1>6. /\ Len(fr) = Len(frames) /\ fr[1] = g
      /\ \A i \in 2 .. Len(frames) : fr[i] = frames[i]
  BY <1>1, <1>5, TopFrame DEF TopMoved
<1>7. g.head = (IF f.head = Null THEN Fresh ELSE f.head) /\ g.cur = Fresh
  BY <1>5 DEF TopMoved
<1>8. OpenFrame(item, frames, root, 1)
  BY <1>1, <1>2
<1> HIDE DEF f, g, fr, new, k, E
<1>9. Roots(fr, root) = IF f.head = Null THEN E \cup {Fresh} ELSE E
  <2>1. /\ \A i \in 1 .. Len(fr) : fr[i].head = IF i = 1 THEN g.head ELSE frames[i].head
        /\ Len(fr) = Len(frames) /\ 1 \in 1 .. Len(fr)
    <3>1. \A i \in 1 .. Len(fr) : i = 1 \/ i \in 2 .. Len(frames)
      BY <1>2, <1>6
    <3> QED
      BY <1>2, <1>6, <3>1
  <2>2. frames[1].head = f.head
    BY DEF f
  <2>3. ASSUME NEW n
        PROVE  n \in Roots(fr, root) <=> n \in E \/ (f.head = Null /\ n = Fresh)
    BY <1>4, <1>7, <2>1, <2>2, <2>3 DEF Roots, E
  <2> QED
    BY <2>3
\* The first element,
<1>10. CASE f.head = Null
  <2>1. f.cur = Null /\ k = WithNew(Blank) /\ g.head = Fresh
    <3>1. f.cur = Null
      BY <1>8, <1>10 DEF OpenFrame, f
    <3>2. [Blank EXCEPT !.prev = f.cur] = Blank
      BY <3>1 DEF Blank
    <3> QED
      BY <1>3, <1>7, <1>10, <3>1, <3>2 DEF new
  <2>2. Blank \in ItemsOf(DOMAIN item) /\ Blank = [Blank EXCEPT !.prev = f.cur]
    <3>1. f.cur \in DOMAIN item \cup {Null}
      BY <2>1
    <3> QED
      BY <2>1, <3>1, BlankType
  <2>3. /\ Sound(k, strings, E \cup {Fresh})
        /\ DOMAIN k = DOMAIN item \cup {Fresh} /\ k[Fresh] = Blank
        /\ \A n \in DOMAIN item : k[n] = item[n]
        /\ Leads(k, Fresh) = {Fresh} /\ \A p \in DOMAIN item : Leads(item, p) \subseteq Leads(k, p)
        /\ \A t : IsTail(k, t) => IsTail(item, t)
    <3> DEFINE b == Blank
    <3>1. /\ b \in ItemsOf(DOMAIN item) /\ b.next = Null /\ b.child = Null /\ b.prev = Null
          /\ b.valuestring = NoString /\ b.string = NoString /\ k = WithNew(b)
      BY <2>1, <2>2, BlankType
    <3> HIDE DEF b
    <3> SUFFICES /\ Sound(k, strings, E \cup {Fresh})
                 /\ DOMAIN k = DOMAIN item \cup {Fresh} /\ k[Fresh] = b
                 /\ \A n \in DOMAIN item : k[n] = item[n]
                 /\ Leads(k, Fresh) = {Fresh}
                 /\ \A p \in DOMAIN item : Leads(item, p) \subseteq Leads(k, p)
                 /\ \A t : IsTail(k, t) => IsTail(item, t)
      BY DEF b
    <3>2. Sound(item, strings, E)
      BY <1>1
    <3> HIDE DEF k, E
    <3> QED
      BY <3>1, <3>2, CreateItem, SMTT(60)
  <2>4. Sound(k, strings, Roots(fr, root)) /\ Fresh \in Leads(k, g.head)
    BY <1>9, <1>10, <2>1, <2>3
  <2>5. k[Fresh] = [Blank EXCEPT !.prev = frames[1].cur]
    BY <2>2, <2>3 DEF f
  <2>6. TopMoved(frames[1], g) /\ fr = <<g>> \o Tail(frames) /\ k = item'
    BY <1>5 DEF f, fr, k
  <2>7. \A n \in DOMAIN item : /\ k[n].child = item[n].child /\ k[n].type = item[n].type
                               /\ k[n].valuestring = item[n].valuestring
                               /\ k[n].next = item[n].next
    BY <2>3
  <2> QED
    BY <1>1, <1>3, <1>4, <2>3, <2>4, <2>5, <2>6, <2>7, ElementAdded
\* or one more, behind the current one.
<1>11. CASE f.head # Null
  <2>1. /\ f.cur \in Leads(item, f.head) /\ item[f.cur].next = Null /\ ~IsTail(item, f.cur)
        /\ f.cur \in DOMAIN item /\ f.head \in DOMAIN item /\ g.head = f.head
    <3>1. frames[1].head # Null => frames[1].cur \in DOMAIN item /\ frames[1].head \in DOMAIN item
      BY <1>1, <1>2, FramesApart DEF E
    <3> QED
      BY <1>7, <1>8, <1>11, <3>1 DEF OpenFrame, f
  <2>2. Continued(f.cur, k)
    BY <1>3, <1>11 DEF Continued, new
  <2>3. /\ Sound(k, strings, E)
        /\ DOMAIN k = DOMAIN item \cup {Fresh} /\ k[Fresh] = [Blank EXCEPT !.prev = f.cur]
        /\ \A n \in DOMAIN item \ {f.cur} : k[n] = item[n]
        /\ k[f.cur] = [item[f.cur] EXCEPT !.next = Fresh]
        /\ \A p \in DOMAIN item : Leads(item, p) \subseteq Leads(k, p)
        /\ \A p \in DOMAIN item : f.cur \in Leads(item, p) => Fresh \in Leads(k, p)
        /\ \A t : IsTail(k, t) => IsTail(item, t)
    <3> DEFINE x == f.cur
    <3>1. /\ Sound(item, strings, E) /\ x \in DOMAIN item /\ item[x].next = Null
          /\ ~IsTail(item, x) /\ Continued(x, k)
      BY <1>1, <2>1, <2>2
    <3> HIDE DEF x
    <3>2. /\ Sound(k, strings, E)
          /\ DOMAIN k = DOMAIN item \cup {Fresh} /\ k[Fresh] = [Blank EXCEPT !.prev = x]
          /\ \A n \in DOMAIN item \ {x} : k[n] = item[n]
          /\ k[x] = [item[x] EXCEPT !.next = Fresh]
          /\ \A p \in DOMAIN item : Leads(item, p) \subseteq Leads(k, p)
          /\ \A p \in DOMAIN item : x \in Leads(item, p) => Fresh \in Leads(k, p)
          /\ \A t : IsTail(k, t) => IsTail(item, t)
      BY <3>1, NextElement
    <3> QED
      BY <3>2 DEF x
  <2>4. Sound(k, strings, Roots(fr, root)) /\ Fresh \in Leads(k, g.head)
    BY <1>9, <1>11, <2>1, <2>3
  <2>5. k[Fresh] = [Blank EXCEPT !.prev = frames[1].cur]
        /\ \A n \in DOMAIN item \ {frames[1].cur} : k[n].next = item[n].next
    BY <2>3 DEF f
  <2>6. TopMoved(frames[1], g) /\ fr = <<g>> \o Tail(frames) /\ k = item'
    BY <1>5 DEF f, fr, k
  <2>7. \A n \in DOMAIN item : /\ k[n].child = item[n].child /\ k[n].type = item[n].type
                               /\ k[n].valuestring = item[n].valuestring
    <3>1. item[f.cur] \in ItemsOf(DOMAIN item)
      BY <1>1, <2>1, FieldsTyped DEF Sound
    <3>2. /\ k[f.cur].child = item[f.cur].child /\ k[f.cur].type = item[f.cur].type
          /\ k[f.cur].valuestring = item[f.cur].valuestring
      BY <2>3, <3>1 DEF ItemsOf
    <3> QED
      BY <2>3, <3>2
  <2> QED
    BY <1>1, <1>3, <1>4, <2>3, <2>4, <2>5, <2>6, <2>7, ElementAdded
<1> QED
  BY <1>10, <1>11

\* Without its innermost frame: what is above the others is what was.
LEMMA InnerGone ==
  ASSUME frames \in Seq(FrameType), frames # <<>>, NEW fr, fr = Tail(frames)
  PROVE  /\ fr \in Seq(FrameType) /\ Len(frames) = Len(fr) + 1 /\ Len(fr) \in Nat
         /\ Head(frames) = frames[1] /\ frames[1] \in FrameType
         /\ \A i \in 1 .. Len(fr) :
              i + 1 \in 1 .. Len(frames) /\ i + 1 # 1 /\ fr[i] = frames[i + 1]
         /\ \A i \in 0 .. Len(fr) : Above(fr, root, i) = Above(frames, root, i + 1)
         /\ 1 \in 1 .. Len(frames)
<1>1. /\ fr \in Seq(FrameType) /\ Len(frames) = Len(fr) + 1 /\ Head(frames) = frames[1]
      /\ frames[1] \in FrameType /\ Len(fr) \in Nat /\ Len(frames) \in Nat
      /\ \A i \in 1 .. Len(fr) : fr[i] = frames[i + 1]
  BY PopFrame
<1>2. \A i \in 1 .. Len(fr) : i + 1 \in 1 .. Len(frames) /\ i + 1 # 1
  BY <1>1
<1>3. ASSUME NEW i \in 0 .. Len(fr) PROVE Above(fr, root, i) = Above(frames, root, i + 1)
  <2>1. CASE i = Len(fr)
    BY <1>1, <2>1 DEF Above
  <2>2. CASE i # Len(fr)
    <3>1. i + 1 \in 1 .. Len(fr) /\ i + 1 # Len(frames)
      <4> DEFINE m == Len(fr)
                 n == Len(frames)
      <4>1. m \in Nat /\ n = m + 1 /\ i \in 0 .. m /\ i # m
        BY <1>1, <1>3, <2>2
      <4> HIDE DEF m, n
      <4>2. i + 1 \in 1 .. m /\ i + 1 # n
        BY <4>1
      <4> QED
        BY <4>2 DEF m, n
    <3>2. fr[i + 1] = frames[(i + 1) + 1]
      BY <1>1, <3>1
    <3> QED
      BY <2>2, <3>1, <3>2 DEF Above
  <2> QED
    BY <2>1, <2>2
<1>4. 1 \in 1 .. Len(frames)
  BY <1>1
<1> QED
  BY <1>1, <1>2, <1>3, <1>4

\* The roots without the innermost head.
LEMMA RootsLeft ==
  ASSUME ParseHeap, frames # <<>>
  PROVE  Roots(Tail(frames), root) = Roots(frames, root) \ {frames[1].head}
<1> DEFINE fr == Tail(frames)
<1>1. /\ frames \in Seq(FrameType) /\ OpenFrames(item, frames, root) /\ root # Null
  BY DEF ParseHeap, OpenFrames
<1>2. /\ Len(frames) = Len(fr) + 1 /\ Len(fr) \in Nat
      /\ \A i \in 1 .. Len(fr) :
           i + 1 \in 1 .. Len(frames) /\ i + 1 # 1 /\ fr[i] = frames[i + 1]
      /\ 1 \in 1 .. Len(frames)
  BY <1>1, InnerGone
<1> HIDE DEF fr
<1>3. ASSUME NEW i \in 1 .. Len(frames), i # 1
      PROVE  i - 1 \in 1 .. Len(fr) /\ fr[i - 1] = frames[i]
  <2>1. i - 1 \in 1 .. Len(fr) /\ (i - 1) + 1 = i
    BY <1>2, <1>3
  <2> QED
    BY <1>2, <2>1
<1>4. ASSUME NEW i \in 1 .. Len(fr) PROVE fr[i].head # frames[1].head \/ fr[i].head = Null
  BY <1>1, <1>2 DEF OpenFrames
<1>5. root # frames[1].head
  BY <1>1, <1>2 DEF OpenFrames, OpenFrame
<1>6. ASSUME NEW n
      PROVE  n \in Roots(fr, root) <=> n \in Roots(frames, root) /\ n # frames[1].head
  <2>1. ASSUME n \in Roots(fr, root)
        PROVE  n \in Roots(frames, root) /\ n # frames[1].head
    BY <1>2, <1>4, <1>5, <2>1 DEF Roots
  <2>2. ASSUME n \in Roots(frames, root), n # frames[1].head
        PROVE  n \in Roots(fr, root)
    <3>1. n # Null /\ (n = root \/ \E i \in 1 .. Len(frames) : n = frames[i].head)
      BY <2>2 DEF Roots
    <3>2. ASSUME NEW i \in 1 .. Len(frames), n = frames[i].head
          PROVE  \E j \in 1 .. Len(fr) : n = fr[j].head
      <4>1. i - 1 \in 1 .. Len(fr) /\ fr[i - 1] = frames[i]
        BY <1>3, <2>2, <3>2
      <4> QED
        BY <3>2, <4>1
    <3> QED
      BY <3>1, <3>2 DEF Roots
  <2> QED
    BY <2>1, <2>2
<1> QED
  BY <1>6 DEF fr

\* The frames around the innermost stay open in a heap k that leaves what they
\* rest on alone.
LEMMA OuterFrames ==
  ASSUME ParseHeap, frames # <<>>, NEW fr, fr = Tail(frames), NEW k,
         \A i \in 2 .. Len(frames) :
           /\ k[frames[i].item].child = item[frames[i].item].child
           /\ frames[i].head # Null =>
                /\ frames[i].cur \in Leads(k, frames[i].head)
                /\ k[frames[i].cur].next = Null /\ ~IsTail(k, frames[i].cur)
  PROVE  OpenFrames(k, fr, root) /\ \A i \in 1 .. Len(fr) : fr[i].head # Null
<1>1. /\ frames \in Seq(FrameType) /\ root # Null
      /\ \A i \in 1 .. Len(frames) : OpenFrame(item, frames, root, i)
      /\ \A i, j \in 1 .. Len(frames) :
           frames[i].head # Null /\ frames[i].head = frames[j].head => i = j
  BY DEF ParseHeap, OpenFrames
<1>2. /\ fr \in Seq(FrameType) /\ Len(frames) = Len(fr) + 1 /\ Len(fr) \in Nat
      /\ \A i \in 1 .. Len(fr) :
           i + 1 \in 1 .. Len(frames) /\ i + 1 # 1 /\ fr[i] = frames[i + 1]
      /\ \A i \in 0 .. Len(fr) : Above(fr, root, i) = Above(frames, root, i + 1)
  BY <1>1, InnerGone
<1>3. ASSUME NEW i \in 1 .. Len(fr) PROVE OpenFrame(k, fr, root, i) /\ fr[i].head # Null
  <2>1. i + 1 \in 2 .. Len(frames) /\ fr[i] = frames[i + 1] /\ i + 1 # 1
    BY <1>2
  <2>2. OpenFrame(item, frames, root, i + 1) /\ frames[i + 1].head # Null
    BY <1>1, <1>2, <2>1 DEF OpenFrame
  <2>3. Above(fr, root, i) = Above(frames, root, i + 1)
    BY <1>2
  <2> QED
    BY <2>1, <2>2, <2>3 DEF OpenFrame
<1>4. \A i, j \in 1 .. Len(fr) : fr[i].head # Null /\ fr[i].head = fr[j].head => i = j
  <2> SUFFICES ASSUME NEW i \in 1 .. Len(fr), NEW j \in 1 .. Len(fr),
                      fr[i].head # Null, fr[i].head = fr[j].head
               PROVE  i = j
    OBVIOUS
  <2>1. i + 1 = j + 1
    BY <1>1, <1>2
  <2> QED
    BY <2>1
<1> QED
  BY <1>1, <1>2, <1>3, <1>4 DEF OpenFrames

\* The elements' lists of the outer frames lie apart from the innermost's.
LEMMA OuterApart ==
  ASSUME ParseHeap, frames # <<>>, NEW i \in 2 .. Len(frames)
  PROVE  /\ frames[i].head # Null /\ frames[i].cur \in Leads(item, frames[i].head)
         /\ frames[i].head \in DOMAIN item /\ frames[i].cur \in DOMAIN item
         /\ item[frames[i].cur].next = Null /\ ~IsTail(item, frames[i].cur)
         /\ frames[i].item \in DOMAIN item /\ item[frames[i].item].child = Null
         /\ frames[i].item # frames[1].item
         /\ frames[1].head # Null =>
              /\ frames[i].cur # frames[1].cur
              /\ frames[i].cur \notin Leads(item, frames[1].head)
              /\ frames[i].head # frames[1].head
<1>1. /\ frames \in Seq(FrameType) /\ root # Null /\ OpenFrames(item, frames, root)
      /\ Sound(item, strings, Roots(frames, root))
  BY DEF ParseHeap, OpenFrames
<1>2. i \in 1 .. Len(frames) /\ 1 \in 1 .. Len(frames) /\ i # 1
  BY <1>1
<1>3. OpenFrame(item, frames, root, i)
  BY <1>1, <1>2 DEF OpenFrames
<1>4. frames[i].head # Null
  BY <1>2, <1>3 DEF OpenFrame
<1>5. /\ frames[i].head \in DOMAIN item /\ frames[i].cur \in DOMAIN item
      /\ frames[i].item \in DOMAIN item /\ frames[i].item # frames[1].item
  BY <1>1, <1>2, <1>4, FramesApart
<1>6. frames[1].head # Null =>
        frames[i].cur # frames[1].cur /\ frames[i].cur \notin Leads(item, frames[1].head)
  BY <1>1, <1>2, <1>4, FramesApart
<1>7. frames[i].head # frames[1].head \/ frames[1].head = Null
  BY <1>1, <1>2 DEF OpenFrames
<1> QED
  BY <1>3, <1>4, <1>5, <1>6, <1>7 DEF OpenFrame

\* A container is closed: its elements become its children.
LEMMA ContainerCloses ==
  ASSUME ParseHeap, ParseClose
  PROVE  ParseHeap'
<1> DEFINE f == frames[1]
           x == f.item
           y == f.head
           t == f.cur
           ty == f.type
           fr == Tail(frames)
           E == Roots(frames, root)
           k == item'
<1>1. /\ step = "after" /\ frames # <<>> /\ root # Null /\ frames \in Seq(FrameType)
      /\ Sound(item, strings, E) /\ OpenFrames(item, frames, root)
      /\ \A i \in 1 .. Len(frames) : OpenFrame(item, frames, root, i)
  BY DEF ParseHeap, OpenFrames, ParseClose
<1>2. /\ fr \in Seq(FrameType) /\ Len(frames) = Len(fr) + 1 /\ Len(fr) \in Nat
      /\ Head(frames) = frames[1] /\ frames[1] \in FrameType
      /\ \A i \in 1 .. Len(fr) :
           i + 1 \in 1 .. Len(frames) /\ i + 1 # 1 /\ fr[i] = frames[i + 1]
      /\ \A i \in 0 .. Len(fr) : Above(fr, root, i) = Above(frames, root, i + 1)
      /\ 1 \in 1 .. Len(frames)
  BY <1>1, InnerGone
<1>3. /\ k = [item EXCEPT ![y].prev = t, ![x].type = ty, ![x].child = y]
      /\ at' = x /\ frames' = fr /\ step' = Resume(fr) /\ strings' = strings /\ root' = root
  BY <1>2 DEF ParseClose
<1>4. y # Null /\ ty \in Types /\ ty # "String"
  BY <1>1, <1>2 DEF ParseHeap, FrameType, Types
<1>5. /\ x \in DOMAIN item /\ y \in DOMAIN item /\ t \in DOMAIN item /\ x \notin Leads(item, y)
  BY <1>1, <1>2, <1>4, FramesApart
<1>6. /\ t \in Leads(item, y) /\ item[t].next = Null /\ ~IsTail(item, t)
      /\ item[x].child = Null
  BY <1>1, <1>2, <1>4 DEF OpenFrame
<1>7. y \in E /\ Roots(fr, root) = E \ {y}
  BY <1>1, <1>2, <1>4, RootsOf, RootsLeft
<1>8. \A i \in 2 .. Len(frames) :
        /\ frames[i].head # Null /\ frames[i].cur \in Leads(item, frames[i].head)
        /\ frames[i].head \in DOMAIN item /\ frames[i].cur \in DOMAIN item
        /\ item[frames[i].cur].next = Null /\ ~IsTail(item, frames[i].cur)
        /\ frames[i].item \in DOMAIN item /\ frames[i].item # x /\ frames[i].cur # t
  BY <1>1, <1>4, OuterApart
<1>9. Finished(x, y, t, ty, k)
  BY <1>3 DEF Finished
<1>10. /\ frames' = fr /\ fr = Tail(frames) /\ k = item'
       /\ \A n : (\E i \in 1 .. Len(frames) : n = frames[i].item)
                   => n = x \/ \E i \in 1 .. Len(fr) : n = fr[i].item
  <2>1. ASSUME NEW i \in 1 .. Len(frames), i # 1
        PROVE  i - 1 \in 1 .. Len(fr) /\ fr[i - 1] = frames[i]
    <3>1. i - 1 \in 1 .. Len(fr) /\ (i - 1) + 1 = i
      BY <1>2, <2>1
    <3> QED
      BY <1>2, <3>1
  <2> QED
    BY <1>3, <2>1
<1> HIDE DEF f, x, y, t, ty, fr, E, k
<1>12. /\ Sound(k, strings, E \ {y}) /\ DOMAIN k = DOMAIN item
       /\ \A n \in DOMAIN item : k[n].next = item[n].next
       /\ \A n \in DOMAIN item \ {x} :
            /\ k[n].child = item[n].child /\ k[n].type = item[n].type
            /\ k[n].valuestring = item[n].valuestring
       /\ k[x].type = ty
       /\ \A p \in DOMAIN item : Leads(item, p) \subseteq Leads(k, p)
       /\ NoOtherTail(item, k, t)
  <2>1. Sound(item, strings, E) /\ Finishes(item, E, x, y, t)
    BY <1>1, <1>5, <1>6, <1>7 DEF Finishes
  <2> QED
    BY <1>4, <1>9, <2>1, CloseList
<1>16. ASSUME NEW i \in 2 .. Len(frames)
       PROVE  /\ k[frames[i].item].child = item[frames[i].item].child
              /\ frames[i].cur \in Leads(k, frames[i].head)
              /\ k[frames[i].cur].next = Null /\ ~IsTail(k, frames[i].cur)
  BY <1>8, <1>12, <1>16 DEF NoOtherTail
<1>17. OpenFrames(k, fr, root) /\ \A i \in 1 .. Len(fr) : fr[i].head # Null
  BY <1>1, <1>10, <1>16, OuterFrames
<1>18. Sound(k, strings, Roots(fr, root))
  BY <1>7, <1>12
<1>19. step' = (IF fr = <<>> THEN "done" ELSE "after") /\ (fr # <<>> => 1 \in 1 .. Len(fr))
  BY <1>2, <1>3 DEF Resume
<1>20. \A n \in DOMAIN k : k[n].type = "String" /\ k[n].valuestring = NoString =>
         \E i \in 1 .. Len(fr) : n = fr[i].item
  <2> SUFFICES ASSUME NEW n \in DOMAIN k, k[n].type = "String", k[n].valuestring = NoString
               PROVE  \E i \in 1 .. Len(fr) : n = fr[i].item
    OBVIOUS
  <2>1. n # x /\ n \in DOMAIN item
    BY <1>4, <1>12
  <2>2. item[n].type = "String" /\ item[n].valuestring = NoString
    BY <1>12, <2>1
  <2>3. \E i \in 1 .. Len(frames) : n = frames[i].item
    BY <1>1, <2>1, <2>2 DEF ParseHeap
  <2> QED
    BY <1>10, <2>1, <2>3
<1>21. /\ item' = k /\ frames' = fr /\ strings' = strings /\ root' = root
       /\ step' \in {"done", "after"} /\ (step' = "done" <=> fr = <<>>)
       /\ (fr # <<>> => fr[1].head # Null)
  <2>1. step' \in {"done", "after"} /\ (step' = "done" <=> fr = <<>>)
    BY <1>19
  <2>2. fr # <<>> => fr[1].head # Null
    BY <1>17, <1>19
  <2> QED
    BY <1>3, <1>10, <2>1, <2>2
<1> QED
  BY <1>1, <1>17, <1>18, <1>20, <1>21 DEF ParseHeap

\* A container that is given up deletes its elements.
LEMMA ContainerUnwinds ==
  ASSUME ParseHeap, ParseUnwind
  PROVE  ParseHeap'
<1> DEFINE y == frames[1].head
           fr == Tail(frames)
           E == Roots(frames, root)
           k == item'
<1>1. /\ step = "fail" /\ frames # <<>> /\ root # Null /\ frames \in Seq(FrameType)
      /\ Sound(item, strings, E) /\ Heap(item, E)
  BY DEF ParseHeap, OpenFrames, ParseUnwind, Sound
<1>2. /\ Head(frames) = frames[1] /\ 1 \in 1 .. Len(frames) /\ Len(frames) \in Nat
  BY <1>1, PopFrame
<1>3. /\ Delete(y) /\ frames' = fr /\ step' = "fail" /\ root' = root
  BY <1>1, <1>2 DEF ParseUnwind
<1>4. y \in E \cup {Null} /\ Roots(fr, root) = E \ {y}
  BY <1>1, <1>2, RootsOf, RootsLeft
<1>5. \A i \in 2 .. Len(frames) :
        /\ frames[i].head # Null /\ frames[i].cur \in Leads(item, frames[i].head)
        /\ frames[i].head \in DOMAIN item /\ frames[i].cur \in DOMAIN item
        /\ item[frames[i].cur].next = Null /\ ~IsTail(item, frames[i].cur)
        /\ frames[i].item \in DOMAIN item
        /\ y # Null => frames[i].head # y
  BY <1>1, OuterApart
<1>6. \A i \in 2 .. Len(frames) : frames[i].head \in E \ {y}
  <2> TAKE i \in 2 .. Len(frames)
  <2>1. frames[i].head # Null /\ frames[i].head # y /\ i \in 1 .. Len(frames)
    BY <1>2, <1>5
  <2> QED
    BY <2>1, RootsOf
\* What an outer container is: the root, or within the list of another frame.
<1>7. \A i \in 2 .. Len(frames) : \E e \in E \ {y} : frames[i].item \in Leads(item, e)
  <2> TAKE i \in 2 .. Len(frames)
  <2>1. frames[i].item = Above(frames, root, i) /\ i \in 1 .. Len(frames)
    BY <1>2 DEF ParseHeap, OpenFrames, OpenFrame
  <2>2. CASE i = Len(frames)
    <3>1. frames[i].item = root
      BY <2>1, <2>2 DEF Above
    <3>2. root \in E /\ root # y
      <4>1. y # Null => y # root
        BY <1>2 DEF ParseHeap, OpenFrames, OpenFrame
      <4> QED
        BY <1>1, <4>1, RootsOf
    <3>3. root \in Leads(item, root)
      <4>1. root \in DOMAIN item /\ Pointers(item)
        BY <1>1, <3>2 DEF Heap, Forest, Edges
      <4> QED
        BY <4>1, LeadsOf
    <3> QED
      BY <3>1, <3>2, <3>3
  <2>3. CASE i # Len(frames)
    <3>1. i + 1 \in 2 .. Len(frames) /\ frames[i].item = frames[i + 1].cur
      BY <1>2, <2>1, <2>3 DEF Above
    <3> QED
      BY <1>5, <1>6, <3>1
  <2> QED
    BY <2>2, <2>3
<1>8. /\ frames' = fr /\ fr = Tail(frames) /\ k = item'
  BY <1>3
<1> HIDE DEF y, fr, E, k
<1>9. /\ Sound(k, strings', E \ {y}) /\ DOMAIN k \subseteq DOMAIN item
      /\ \A n \in DOMAIN k : k[n] = item[n]
      /\ \A e \in E \ {y} : e \in DOMAIN k /\ Leads(item, e) \subseteq DOMAIN k
      /\ \A p \in DOMAIN k : Leads(item, p) \subseteq Leads(k, p)
      /\ \A s : IsTail(k, s) => IsTail(item, s)
  <2>0. /\ Sound(item, strings, E) /\ y \in E \cup {Null} /\ Delete(y)
    BY <1>1, <1>3, <1>4
  <2>1. /\ Sound(item', strings', E \ {y})
        /\ DOMAIN item' = DOMAIN item \ (IF y = Null THEN {} ELSE Leads(item, y))
        /\ \A n \in DOMAIN item' : item'[n] = item[n]
        /\ \A e \in E \ {y} : e \in DOMAIN item' /\ Leads(item, e) \subseteq DOMAIN item'
        /\ \A p \in DOMAIN item' : Leads(item, p) \subseteq Leads(item', p)
        /\ \A s : IsTail(item', s) => IsTail(item, s)
    BY <2>0, DeleteItems
  <2> QED
    BY <2>1 DEF k
<1>10. ASSUME NEW i \in 2 .. Len(frames)
       PROVE  /\ k[frames[i].item].child = item[frames[i].item].child
              /\ frames[i].cur \in Leads(k, frames[i].head)
              /\ k[frames[i].cur].next = Null /\ ~IsTail(k, frames[i].cur)
  <2>1. /\ frames[i].head \in DOMAIN k /\ frames[i].cur \in DOMAIN k
        /\ frames[i].item \in DOMAIN k
    BY <1>5, <1>6, <1>7, <1>9, <1>10
  <2> QED
    BY <1>5, <1>9, <1>10, <2>1
<1>11. OpenFrames(k, fr, root)
  BY <1>1, <1>8, <1>10, OuterFrames
<1>12. Sound(k, strings', Roots(fr, root))
  BY <1>4, <1>9
<1> QED
  BY <1>1, <1>3, <1>8, <1>11, <1>12 DEF ParseHeap

\* The first item: nothing else is allocated then.
LEMMA RootParsed ==
  ASSUME ParseHeap, ParseRoot
  PROVE  ParseHeap'
<1> DEFINE b == Blank
           k == item'
<1>1. /\ step = "root" /\ root = Null /\ frames = <<>> /\ Roots(frames, root) = {}
      /\ step' = "value" /\ root' = Fresh /\ at' = Fresh /\ frames' = <<>>
      /\ strings' = strings /\ k = WithNew(b)
  BY RootsOf DEF ParseHeap, ParseRoot
<1>2. Sound(item, strings, {})
  BY <1>1 DEF ParseHeap
<1>3. /\ Fresh \in Nat \ {Null} /\ Fresh \notin DOMAIN item /\ Fresh # Null
  BY <1>2, FreshAddress DEF Sound
<1>4. /\ b \in ItemsOf(DOMAIN item) /\ b.next = Null /\ b.child = Null /\ b.prev = Null
      /\ b.valuestring = NoString /\ b.string = NoString
  <2>1. Null \in DOMAIN item \cup {Null}
    OBVIOUS
  <2> QED
    BY <2>1, BlankType
<1>5. b.type = "Invalid"
  BY DEF Blank
<1> HIDE DEF b, k
<1>6. /\ Sound(k, strings, {} \cup {Fresh}) /\ DOMAIN k = DOMAIN item \cup {Fresh}
      /\ k[Fresh] = b /\ \A n \in DOMAIN item : k[n] = item[n]
  <2>1. /\ b \in ItemsOf(DOMAIN item) /\ b.next = Null /\ b.child = Null /\ b.prev = Null
        /\ b.valuestring = NoString /\ b.string = NoString /\ k = WithNew(b)
    BY <1>1, <1>4
  <2> DEFINE E == {}
  <2>2. Sound(item, strings, E)
    BY <1>2
  <2> HIDE DEF E
  <2>3. /\ Sound(k, strings, E \cup {Fresh}) /\ DOMAIN k = DOMAIN item \cup {Fresh}
        /\ k[Fresh] = b /\ \A n \in DOMAIN item : k[n] = item[n]
    BY <2>1, <2>2, CreateItem
  <2> QED
    BY <2>3 DEF E
<1>7. Roots(<<>>, Fresh) = {} \cup {Fresh}
  BY <1>3, RootsOf
<1>8. Above(<<>>, Fresh, 0) = Fresh
  BY DEF Above
<1>9. OpenFrames(k, <<>>, Fresh)
  BY DEF OpenFrames
<1>10. \A n \in DOMAIN k : ~(k[n].type = "String" /\ k[n].valuestring = NoString)
  <2> SUFFICES ASSUME NEW n \in DOMAIN k, k[n].type = "String", k[n].valuestring = NoString
               PROVE  FALSE
    OBVIOUS
  <2>1. n # Fresh
    BY <1>5, <1>6
  <2>2. n \in DOMAIN item
    BY <1>6, <2>1
  <2>3. item = <<>>
    BY <1>2, EmptySound
  <2> QED
    BY <2>2, <2>3
<1>11. item' = k
  BY DEF k
<1> QED
  BY <1>1, <1>3, <1>4, <1>6, <1>7, <1>8, <1>9, <1>10, <1>11 DEF ParseHeap

\* What was parsed is deleted with its root.
LEMMA RootDeleted ==
  ASSUME ParseHeap, frames = <<>>, Delete(root)
  PROVE  item' = <<>> /\ strings' = 0 /\ Sound(item', strings', {})
<1>1. Roots(frames, root) = {root} \ {Null}
  BY RootsOf
<1> DEFINE E == {root} \ {Null}
<1>2. Sound(item, strings, E) /\ root \in E \cup {Null} /\ E \ {root} = {}
  BY <1>1 DEF ParseHeap
<1> HIDE DEF E
<1>3. Sound(item', strings', E \ {root}) /\ (E \ {root} = {} => item' = <<>> /\ strings' = 0)
  BY <1>2, DeleteItems
<1> QED
  BY <1>2, <1>3

LEMMA ParseGivenUp ==
  ASSUME ParseHeap, ParseGiveUp
  PROVE  ParseHeap'
<1>1. /\ frames = <<>> /\ frames' = <<>> /\ root' = Null /\ step' = "failed" /\ Delete(root)
  BY DEF ParseGiveUp
<1>2. Sound(item', strings', {})
  BY <1>1, RootDeleted
<1>3. Roots(<<>>, Null) = {} /\ OpenFrames(item', <<>>, Null)
  BY RootsOf DEF OpenFrames
<1> QED
  BY <1>1, <1>2, <1>3 DEF ParseHeap

\* What leaves the items and the frames alone.
LEMMA ParseGoesOn ==
  ASSUME ParseHeap, ParseComma \/ ParseBad \/ ParseNoMemory
  PROVE  ParseHeap'
<1>1. UNCHANGED <<item, strings, root, frames, at>>
  BY DEF ParseComma, ParseBad, ParseNoMemory, heap
<1>2. CASE ParseComma
  <2>1. step = "after" /\ step' = "next"
    BY <1>2 DEF ParseComma
  <2> QED
    BY <1>1, <2>1 DEF ParseHeap
<1>3. CASE ParseBad \/ (ParseNoMemory /\ step # "root")
  <2>1. step' = "fail" /\ root # Null
    BY <1>3 DEF ParseBad, Stuck, ParseNoMemory, Allocates, Starts, ParseHeap
  <2> QED
    BY <1>1, <2>1 DEF ParseHeap
<1>4. CASE ParseNoMemory /\ step = "root"
  <2>1. step' = "failed" /\ root = Null /\ frames = <<>>
    BY <1>4 DEF ParseNoMemory, ParseHeap
  <2> QED
    BY <1>1, <2>1 DEF ParseHeap
<1> QED
  BY <1>2, <1>3, <1>4

\* One step of the parser, whatever the text and whatever is refused.
LEMMA ParseHeapStep ==
  ASSUME ParserInv, ParseHeap, ParseStep
  PROVE  ParseHeap'
BY LiteralRead, NumberRead, StringRead, NameRead, ContainerOpens, ElementParsed,
   ContainerCloses, ContainerUnwinds, RootParsed, ParseGivenUp, ParseGoesOn
   DEF ParseStep

-----------------------------------------------------------------------------
(* The calls *)

\* What exists when: the parser and the printer run only within their step of
\* a call; the root of a body or a reply, the item that is being added, and
\* URL and client exist only while they are needed.
PhaseInv ==
  /\ pc \in {"idle", "create", "item", "value", "key", "print", "url", "client",
             "perform", "receive", "answered", "parse", "failed"}
  /\ call \in {"none", "upload", "report", "poll"}
  /\ refused \in 0 .. MaxRefused
  /\ (step = "off" <=> pc # "parse") /\ (step = "off" => frames = <<>>)
  /\ pc # "print" => mode = "off"
  /\ pc \notin {"item", "value", "key", "print", "parse"} => root = Null
  /\ adding # Null <=> pc \in {"value", "key"}
  /\ pc \notin {"client", "perform", "receive"} => held = {}
  /\ pc = "idle" => body = NoString /\ cap = 0

\* The fields that are still to be added.
FieldsInv ==
  /\ pc \in {"create", "item", "value", "key"} => fields \in Seq(Writable) /\ fields # <<>>
  /\ pc = "value" => This.type = "String"
  /\ pc \in {"idle", "create"} => sub = Null

\* The items that a call holds: its tree, the object inside it that fields go
\* to, and an item that is being added, which has no key yet, and no text before
\* that was copied.
HeapInv ==
  /\ pc = "parse" => ParseHeap
  /\ pc # "parse" => Sound(item, strings, {root, adding} \ {Null})
  /\ pc \in {"item", "value", "key"} => sub \in DOMAIN item \cup {Null}
  /\ adding # Null =>
       /\ adding # root /\ adding # sub
       /\ item[adding].next = Null /\ item[adding].child = Null
       /\ item[adding].string = NoString
       /\ pc = "value" => item[adding].valuestring = NoString

\* The command that was polled fits its fields.
OutInv ==
  /\ whole \in BOOLEAN /\ out.has_command \in BOOLEAN
  /\ out.cmd_id \in Words /\ Len(out.cmd_id) < MaxId /\ Len(out.cmd) < MaxName

ClientInv == PhaseInv /\ FieldsInv /\ HeapInv /\ OutInv /\ PrintInv

LEMMA ClientInit == Init => ClientInv
<1> SUFFICES ASSUME Init PROVE ClientInv
  OBVIOUS
<1>1. PhaseInv
  BY ItemsAssumption DEF Init, PhaseInv, NoItems, NoPrint, NoParse
<1>2. FieldsInv
  BY DEF Init, FieldsInv
<1>3. HeapInv
  <2>1. DOMAIN item = {} /\ {root, adding} \ {Null} = {} /\ strings = 0 /\ adding = Null
        /\ item = <<>> /\ pc = "idle"
    BY DEF Init, NoItems
  <2>2. Heap(item, {})
    BY <2>1, EmptyHeap
  <2>3. Typed(item)
    BY <2>1 DEF Typed
  <2>4. StringsIn(item, DOMAIN item) = 0
    BY <2>1, FS_EmptySet DEF StringsIn
  <2> QED
    BY <2>1, <2>2, <2>3, <2>4 DEF HeapInv, Sound
<1>4. OutInv
  BY ClientAssumption DEF Init, OutInv, NoCommand, Words
<1>5. PrintInv
  <2>1. NoPrint /\ root \in DOMAIN item \cup {Null} /\ strings \in Nat /\ refused = 0
    BY DEF Init, NoItems
  <2>2. item \in [{} -> ItemsOf({})]
    BY DEF Init, NoItems
  <2>3. PrintInit
    BY <2>1, <2>2 DEF PrintInit
  <2> QED
    BY <2>3, PrintInvInit
<1> QED
  BY <1>1, <1>2, <1>3, <1>4, <1>5 DEF ClientInv

\* What the printer and the parser leave alone.
LEMMA PrintFrame ==
  ASSUME PrintStart \/ PrintStep
  PROVE  UNCHANGED <<item, strings, root>> /\ (Refuse \/ refused' = refused)
BY DEF PrintStart, PrintStep, PrintPlain, PrintQuote, PrintCopy, PrintUnquote, PrintLiteral,
       PrintOpen, PrintColon, PrintComma, PrintClose, PrintUnprintable, PrintNoRoom, PrintEnd,
       PrintEndFails, EnsureFails, Fails, heap

LEMMA ParseFrame ==
  ASSUME ParseStep
  PROVE  Refuse \/ refused' = refused
BY DEF ParseStep, ParseRoot, ParseLiteral, ParseNumber, ParseString, ParseEmpty, ParseOpen,
       ParseNext, ParseName, ParseComma, ParseClose, ParseBad, ParseNoMemory, ParseUnwind,
       ParseGiveUp, heap

LEMMA RefusedBounds ==
  ASSUME refused \in 0 .. MaxRefused, Refuse \/ refused' = refused
  PROVE  refused' \in 0 .. MaxRefused
BY ItemsAssumption DEF Refuse

LEMMA FieldOf ==
  ASSUME fields \in Seq(Writable), fields # <<>>
  PROVE  /\ This.type \in Types /\ This.value \in Seq(Symbols) /\ This.key \in Words
         /\ This.type = "String" => This.value \in Words
         /\ Tail(fields) \in Seq(Writable)
<1>1. This \in Writable /\ Tail(fields) \in Seq(Writable)
  <2> DEFINE S == Writable
  <2>1. fields \in Seq(S)
    OBVIOUS
  <2> HIDE DEF S
  <2>2. Head(fields) \in S /\ Tail(fields) \in Seq(S)
    BY <2>1
  <2> QED
    BY <2>2 DEF S, This
<1>2. /\ This \in [to : {"root", "sub"}, key : Words, type : Types, value : Seq(Symbols)]
      /\ This.type = "String" => This.value \in Words
  BY <1>1 DEF Writable
<1> QED
  BY <1>1, <1>2

LEMMA NewType ==
  ASSUME NEW S, NEW type \in Types, NEW v \in Seq(Symbols)
  PROVE  /\ [Blank EXCEPT !.type = type, !.number = v] \in ItemsOf(S)
         /\ [Blank EXCEPT !.type = type] \in ItemsOf(S)
<1> DEFINE W == Words \cup {NoString}
           V == Seq(Symbols)
           P == S \cup {Null}
<1>1. ItemsOf(S) = [type : Types, valuestring : W, number : V, string : W, child : P,
                    prev : P, next : P]
  BY DEF ItemsOf
<1>2. NoString \in W /\ v \in V /\ <<>> \in V /\ Null \in P
  BY LiteralWords
<1> HIDE DEF W, V, P
<1>3. [Blank EXCEPT !.type = type, !.number = v] \in ItemsOf(S)
  BY <1>1, <1>2 DEF Blank
<1>4. [Blank EXCEPT !.type = type] \in ItemsOf(S)
  BY <1>1, <1>2 DEF Blank
<1> QED
  BY <1>3, <1>4

LEMMA NewFields ==
  ASSUME NEW type, NEW v, NEW new,
         \/ new = [Blank EXCEPT !.type = type, !.number = v]
         \/ new = [Blank EXCEPT !.type = type]
  PROVE  /\ new.next = Null /\ new.child = Null /\ new.prev = Null
         /\ new.valuestring = NoString /\ new.string = NoString
BY DEF Blank

\* Outside the parser the trees are the body and the item that is added.
Trees == {root, adding} \ {Null}

LEMMA TreesOf ==
  ASSUME HeapInv, pc # "parse"
  PROVE  /\ Sound(item, strings, Trees) /\ Heap(item, Trees)
         /\ root # Null => root \in Trees /\ root \in DOMAIN item
         /\ adding # Null => adding \in Trees /\ adding \in DOMAIN item
         /\ Null \notin DOMAIN item
<1>1. Sound(item, strings, Trees)
  BY DEF HeapInv, Trees
<1>2. Heap(item, Trees) /\ Trees \subseteq DOMAIN item /\ DOMAIN item \subseteq Nat \ {Null}
  BY <1>1, EdgesOf DEF Sound, Heap, Forest
<1> QED
  BY <1>1, <1>2 DEF Trees

\* A step that leaves the items alone.
LEMMA HeapKept ==
  ASSUME HeapInv, UNCHANGED <<item, strings, root, adding>>, adding = Null,
         pc # "parse", pc' \notin {"parse", "item", "value", "key"}
  PROVE  HeapInv'
BY DEF HeapInv

\* cJSON_CreateObject
LEMMA RootCreated ==
  ASSUME PhaseInv, FieldsInv, HeapInv, CreateRoot
  PROVE  HeapInv'
<1>1. /\ pc = "create" /\ pc' = "item" /\ root = Null /\ adding = Null /\ sub = Null
      /\ UNCHANGED <<strings, adding, sub>>
  BY DEF CreateRoot, PhaseInv, FieldsInv, locals
<1>2. Sound(item, strings, Trees) /\ Heap(item, Trees) /\ Trees = {}
  BY <1>1, TreesOf DEF Trees
<1>3. CASE UNCHANGED <<item, root>>
  <2>1. sub' \in DOMAIN item' \cup {Null}
    BY <1>1
  <2> QED
    BY <1>1, <1>2, <1>3, <2>1 DEF HeapInv, Trees
<1>4. CASE item' = WithNew([Blank EXCEPT !.type = "Object"]) /\ root' = Fresh
  <2> DEFINE b == [Blank EXCEPT !.type = "Object"]
             k == item'
             E == {}
  <2>1. /\ b \in ItemsOf(DOMAIN item) /\ b.next = Null /\ b.child = Null /\ b.prev = Null
        /\ b.valuestring = NoString /\ b.string = NoString
    <3>1. "Object" \in Types /\ <<>> \in Seq(Symbols) /\ "Object" = "Object"
      BY LiteralWords DEF Types
    <3>2. b \in ItemsOf(DOMAIN item)
      BY <3>1, NewType
    <3> QED
      BY <3>2, NewFields
  <2>2. k = WithNew(b)
    BY <1>4
  <2>3. Sound(item, strings, E) /\ Fresh # Null
    BY <1>2, FreshAddress
  <2>4. item' = k
    OBVIOUS
  <2> HIDE DEF b, k, E
  <2>5. Sound(k, strings, E \cup {Fresh})
    BY <2>1, <2>2, <2>3, CreateItem
  <2>6. E \cup {Fresh} = {root', adding'} \ {Null}
    BY <1>1, <1>4, <2>3 DEF E
  <2>7. Sound(k, strings, {root', adding'} \ {Null})
    BY <2>5, <2>6
  <2> QED
    BY <1>1, <2>4, <2>7 DEF HeapInv
<1> QED
  BY <1>3, <1>4 DEF CreateRoot

\* An item for a field.
LEMMA ItemAdded ==
  ASSUME PhaseInv, FieldsInv, HeapInv, AddItem
  PROVE  HeapInv' /\ adding' # Null
<1> DEFINE v == IF This.type = "Number" THEN This.value ELSE <<>>
           ty == This.type
           b == [Blank EXCEPT !.type = ty, !.number = v]
           k == item'
           E == Trees
<1>1. /\ pc = "item" /\ pc' \in {"value", "key"} /\ adding = Null /\ adding' = Fresh
      /\ UNCHANGED <<strings, root, sub>> /\ k = WithNew(b)
      /\ sub \in DOMAIN item \cup {Null} /\ item' = k
  BY DEF AddItem, PhaseInv, HeapInv
<1>2. /\ Sound(item, strings, E) /\ Heap(item, E) /\ (root # Null => root \in DOMAIN item)
      /\ Fresh \in Nat \ {Null} /\ Fresh \notin DOMAIN item
  BY <1>1, TreesOf, FreshAddress
<1>3. v \in Seq(Symbols) /\ ty \in Types
  BY <1>1, FieldOf, LiteralWords DEF FieldsInv
<1> HIDE DEF v, ty
<1>4. /\ b \in ItemsOf(DOMAIN item) /\ b.next = Null /\ b.child = Null /\ b.prev = Null
      /\ b.valuestring = NoString /\ b.string = NoString
  <2>1. b \in ItemsOf(DOMAIN item)
    BY <1>3, NewType
  <2>2. /\ b.next = Null /\ b.child = Null /\ b.prev = Null
        /\ b.valuestring = NoString /\ b.string = NoString
    BY DEF Blank
  <2> QED
    BY <2>1, <2>2
<1>5. E \cup {Fresh} = {root', adding'} \ {Null}
  BY <1>1, <1>2 DEF Trees
<1> HIDE DEF b, k, E
<1>6. /\ Sound(k, strings, E \cup {Fresh}) /\ DOMAIN k = DOMAIN item \cup {Fresh}
      /\ k[Fresh] = b
  <2>1. k = WithNew(b)
    BY <1>1
  <2> QED
    BY <1>2, <1>4, <2>1, CreateItem
<1>7. Sound(k, strings, {root', adding'} \ {Null})
  BY <1>5, <1>6
<1>8. /\ k[Fresh].next = Null /\ k[Fresh].child = Null /\ k[Fresh].string = NoString
      /\ k[Fresh].valuestring = NoString
  BY <1>4, <1>6
<1>9. sub \in DOMAIN k \cup {Null} /\ Fresh # sub /\ Fresh # root /\ Fresh # Null
  BY <1>1, <1>2, <1>6
<1> QED
  BY <1>1, <1>7, <1>8, <1>9 DEF HeapInv

\* cJSON_strdup of a string's value.
LEMMA ValueAdds ==
  ASSUME PhaseInv, FieldsInv, HeapInv, AddValue
  PROVE  HeapInv'
<1> DEFINE w == This.value
           k == item'
           E == Trees
           c == strings + 1
           x == adding
<1>1. /\ pc = "value" /\ pc' = "key" /\ adding # Null /\ strings' = c
      /\ UNCHANGED <<root, adding, sub>>
      /\ k = [item EXCEPT ![x].valuestring = w] /\ item' = k
      /\ sub \in DOMAIN item \cup {Null}
      /\ x # root /\ x # sub /\ item[x].next = Null /\ item[x].child = Null
      /\ item[x].string = NoString /\ item[x].valuestring = NoString
  BY DEF AddValue, PhaseInv, HeapInv, locals
<1>2. /\ Sound(item, strings, E) /\ x \in DOMAIN item
      /\ item[x] \in ItemsOf(DOMAIN item) /\ item = [n \in DOMAIN item |-> item[n]]
  BY <1>1, TreesOf, FieldsTyped DEF Sound, Typed
<1>3. w \in Words /\ w # NoString
  BY <1>1, FieldOf, WordsTyped DEF FieldsInv
<1>4. E = {root', adding'} \ {Null}
  BY <1>1 DEF Trees
<1> HIDE DEF w
<1>5. k[x] = [item[x] EXCEPT !.valuestring = w] /\ DOMAIN k = DOMAIN item /\ IsHeap(k)
      /\ \A n \in DOMAIN item \ {x} : k[n] = item[n]
  BY <1>1, <1>2 DEF IsHeap
<1>6. k[x] \in ItemsOf(DOMAIN item)
  <2>1. w \in Words \cup {NoString} /\ "Number" \in Types /\ <<>> \in Seq(Symbols)
    BY <1>3, TypeRead
  <2>2. [item[x] EXCEPT !.valuestring = w] \in ItemsOf(DOMAIN item)
    BY <1>2, <2>1, ItemFilled
  <2> QED
    BY <1>5, <2>2
<1> HIDE DEF k, E, x
<1>7. /\ k[x].next = item[x].next /\ k[x].child = item[x].child /\ k[x].prev = item[x].prev
      /\ k[x].string = item[x].string /\ k[x].valuestring = w
  BY <1>2, <1>5 DEF ItemsOf
<1>8. Filled(x, k)
  BY <1>5, <1>6, <1>7 DEF Filled
<1>9. item[x].valuestring = NoString /\ k[x].valuestring # NoString /\ k[x].string = item[x].string
  BY <1>1, <1>3, <1>7
<1>10. Sound(k, c, E)
  BY <1>2, <1>8, <1>9, FillItem
<1>11. /\ k[x].next = Null /\ k[x].child = Null /\ k[x].string = NoString
  BY <1>1, <1>7
<1> HIDE DEF c
<1>12. Sound(k, c, {root', adding'} \ {Null})
  BY <1>4, <1>10
<1>13. sub \in DOMAIN k \cup {Null}
  BY <1>1, <1>5
<1> QED
  BY <1>1, <1>11, <1>12, <1>13 DEF HeapInv, x

\* add_item_to_object: the item joins its parent, and the next field is next.
LEMMA FieldJoins ==
  ASSUME PhaseInv, FieldsInv, HeapInv, AddKey
  PROVE  HeapInv'
<1> DEFINE key == This.key
           k == item'
           E == Trees
           x == adding
           p == Parent
           ty == This.type
<1>1. /\ pc = "key" /\ pc' \in {"print", "item"} /\ x # Null /\ p # Null /\ adding' = Null
      /\ root' = root /\ sub' = (IF ty = "Object" THEN x ELSE sub)
      /\ k = [Appended(p, x) EXCEPT ![x].string = key] /\ item' = k /\ strings' = strings + 1
      /\ sub \in DOMAIN item \cup {Null} /\ p \in {root, sub}
      /\ x # root /\ x # sub /\ item[x].next = Null /\ item[x].child = Null
      /\ item[x].string = NoString
  BY DEF AddKey, NextField, PhaseInv, HeapInv, Parent
<1>2. /\ Sound(item, strings, E) /\ x \in E /\ x \in DOMAIN item
      /\ (root # Null => root \in DOMAIN item)
  BY <1>1, TreesOf
<1>3. key \in Words
  BY <1>1, FieldOf DEF FieldsInv
<1>4. p \in DOMAIN item /\ p # x
  BY <1>1, <1>2
<1>5. E \ {x} = {root', adding'} \ {Null}
  BY <1>1 DEF Trees
<1>6. Joins(p, x, key, k)
  BY <1>1 DEF Joins
<1> HIDE DEF key, k, E, x, p, ty
<1>7. Sound(k, strings + 1, E \ {x}) /\ DOMAIN k = DOMAIN item
  <2>1. /\ Sound(item, strings, E) /\ p \in DOMAIN item /\ x \in E /\ p # x
        /\ item[x].next = Null /\ item[x].child = Null /\ item[x].string = NoString
        /\ key \in Words /\ Joins(p, x, key, k)
    BY <1>1, <1>2, <1>3, <1>4, <1>6
  <2> QED
    BY <2>1, JoinItem
<1>8. Sound(k, strings + 1, {root', adding'} \ {Null})
  BY <1>5, <1>7
<1>9. sub' \in DOMAIN k \cup {Null}
  BY <1>1, <1>2, <1>7
<1>10. pc' # "parse" /\ adding' = Null /\ item' = k /\ strings' = strings + 1
  BY <1>1
<1> QED
  BY <1>8, <1>9, <1>10 DEF HeapInv

\* cJSON_Delete of an item that could not be added.
LEMMA ItemDropped ==
  ASSUME PhaseInv, FieldsInv, HeapInv, AddDrop
  PROVE  HeapInv'
<1> DEFINE E == Trees
           x == adding
           ty == This.type
<1>1. /\ pc \in {"item", "value", "key"} /\ pc' \in {"print", "item"} /\ adding' = Null
      /\ root' = root /\ sub' = (IF ty = "Object" THEN Null ELSE sub) /\ Delete(x)
      /\ sub \in DOMAIN item \cup {Null}
      /\ x # Null => x # root /\ x # sub /\ item[x].next = Null /\ item[x].child = Null
  BY DEF AddDrop, NextField, PhaseInv, HeapInv
<1>2. /\ Sound(item, strings, E) /\ x \in E \cup {Null} /\ Null \notin DOMAIN item
      /\ Pointers(item) /\ (x # Null => x \in DOMAIN item)
  BY <1>1, TreesOf DEF Heap
<1>3. E \ {x} = {root', adding'} \ {Null}
  BY <1>1 DEF Trees
<1>4. x # Null => Leads(item, x) = {x}
  BY <1>1, <1>2, LoneItem
<1> HIDE DEF E, x, ty
<1>5. /\ Sound(item', strings', E \ {x})
      /\ DOMAIN item' = DOMAIN item \ (IF x = Null THEN {} ELSE Leads(item, x))
  <2>1. Sound(item, strings, E) /\ x \in E \cup {Null} /\ Delete(x)
    BY <1>1, <1>2
  <2> QED
    BY <2>1, DeleteItems
<1>6. sub' \in DOMAIN item' \cup {Null}
  BY <1>1, <1>2, <1>4, <1>5
<1>7. Sound(item', strings', {root', adding'} \ {Null})
  BY <1>3, <1>5
<1> QED
  BY <1>1, <1>6, <1>7 DEF HeapInv

\* cJSON_Delete(root) of a body.
LEMMA BodyDeleted ==
  ASSUME PhaseInv, HeapInv, PrintDone
  PROVE  HeapInv'
<1> DEFINE E == {root} \ {Null}
<1>1. /\ pc = "print" /\ pc' \in {"url", "failed"} /\ adding = Null /\ adding' = Null
      /\ root' = Null /\ Delete(root)
  BY DEF PrintDone, PhaseInv, locals
<1>2. Sound(item, strings, E) /\ root \in E \cup {Null} /\ E \ {root} = {}
  BY <1>1, TreesOf DEF Trees
<1> HIDE DEF E
<1>3. Sound(item', strings', {})
  <2>1. Sound(item', strings', E \ {root})
    BY <1>1, <1>2, DeleteItems
  <2> QED
    BY <1>2, <2>1
<1>4. {root', adding'} \ {Null} = {}
  BY <1>1
<1>5. Sound(item', strings', {root', adding'} \ {Null})
  BY <1>3, <1>4
<1> QED
  BY <1>1, <1>5 DEF HeapInv

\* cJSON_Parse begins with no item, ...
LEMMA ParseBegins ==
  ASSUME PhaseInv, HeapInv, PollAnswered
  PROVE  HeapInv'
<1>1. /\ pc = "answered" /\ pc' = "parse" /\ root = Null /\ adding = Null /\ adding' = Null
      /\ frames = <<>> /\ frames' = <<>> /\ root' = Null /\ step' = "root"
      /\ UNCHANGED <<item, strings>>
  BY DEF PollAnswered, ParseStart, PhaseInv, locals, heap
<1>2. Sound(item, strings, {})
  BY <1>1, TreesOf DEF Trees
<1>3. Roots(<<>>, Null) = {} /\ OpenFrames(item', <<>>, Null)
  BY RootsOf DEF OpenFrames
<1>4. ParseHeap'
  <2>1. DOMAIN item' = {} /\ Sound(item', strings', {})
    BY <1>1, <1>2, EmptySound
  <2> QED
    BY <1>1, <1>3, <2>1 DEF ParseHeap
<1> QED
  BY <1>1, <1>4 DEF HeapInv

\* ... and leaves none, when it fails or the command was extracted.
LEMMA ParseOver ==
  ASSUME PhaseInv, HeapInv, PollRefused \/ PollParsed
  PROVE  HeapInv'
<1>1. /\ pc = "parse" /\ pc' = "idle" /\ adding' = Null /\ sub' = Null /\ ParseHeap
  BY DEF PollRefused, PollParsed, Ends, Return, HeapInv
<1>2. root' = Null /\ Sound(item', strings', {})
  <2>1. CASE PollRefused
    <3>1. root = Null /\ frames = <<>> /\ UNCHANGED <<item, strings, root>>
      BY <1>1, <2>1 DEF PollRefused, ParseHeap
    <3>2. Sound(item, strings, Roots(<<>>, Null)) /\ Roots(<<>>, Null) = {}
      BY <1>1, <3>1, RootsOf DEF ParseHeap
    <3> QED
      BY <3>1, <3>2
  <2>2. CASE PollParsed
    <3>1. root' = Null /\ Delete(root) /\ frames = <<>>
      BY <1>1, <2>2 DEF PollParsed, ParseHeap
    <3> QED
      BY <1>1, <3>1, RootDeleted
  <2> QED
    BY <2>1, <2>2
<1>3. {root', adding'} \ {Null} = {}
  BY <1>1, <1>2
<1>4. Sound(item', strings', {root', adding'} \ {Null})
  BY <1>2, <1>3
<1> QED
  BY <1>1, <1>4 DEF HeapInv

-----------------------------------------------------------------------------
(* Every step of a call *)

\* The steps that leave the items alone, and need none to be added.
Aside ==
  \/ Poll \/ (\E d \in Devices : Upload(d))
  \/ (\E success \in BOOLEAN, m \in Messages : Report(success, m))
  \/ RequestBegins \/ RequestNoMemory
  \/ (\E r \in IF call = "poll" THEN Replies ELSE Acks : Answer(r))
  \/ (\E n \in Pieces : Arrive(n)) \/ Store \/ Grow \/ GrowStore \/ Drop
  \/ PerformEnds \/ CallEnds

LEMMA StepsOf ==
  ASSUME [Next]_vars
  PROVE  \/ CreateRoot \/ AddItem \/ AddValue \/ AddKey \/ AddDrop \/ PrintBody \/ PrintDone
         \/ PollAnswered \/ ParseBody \/ PollRefused \/ PollParsed \/ Aside
         \/ UNCHANGED vars
BY DEF Next, CallStep, Aside

LEMMA AsideFrame ==
  ASSUME PhaseInv, ResponseInv, Aside
  PROVE  /\ UNCHANGED <<item, strings, root, printer, parser>>
         /\ adding = Null /\ adding' = Null /\ sub' \in {sub, Null}
         /\ pc \notin {"create", "item", "value", "key", "print", "parse"}
         /\ pc' \notin {"item", "value", "key", "print", "parse"}
         /\ Refuse \/ refused' = refused \/ refused' = 0
<1>1. CASE Poll \/ (\E d \in Devices : Upload(d))
            \/ (\E success \in BOOLEAN, m \in Messages : Report(success, m))
  BY <1>1 DEF PhaseInv, Poll, Upload, Report, heap
<1>2. CASE RequestBegins \/ RequestNoMemory
  BY <1>2 DEF PhaseInv, RequestBegins, RequestNoMemory, heap, locals
<1>3. CASE (\E r \in IF call = "poll" THEN Replies ELSE Acks : Answer(r))
            \/ (\E n \in Pieces : Arrive(n))
  BY <1>3 DEF PhaseInv, Answer, Arrive, heap, locals
<1>4. CASE Store \/ Grow \/ GrowStore \/ Drop
  <2>1. pc = "receive" /\ pc' = pc
    BY <1>4 DEF ResponseInv, Store, Grow, GrowStore, Drop
  <2> QED
    BY <1>4, <2>1 DEF PhaseInv, Store, Grow, GrowStore, Drop, heap, locals
<1>5. CASE PerformEnds \/ CallEnds
  BY <1>5 DEF PhaseInv, PerformEnds, CallEnds, Ends, Return, heap, locals
<1> QED
  BY <1>1, <1>2, <1>3, <1>4, <1>5 DEF Aside

LEMMA HeapStep ==
  ASSUME PhaseInv, FieldsInv, HeapInv, ParserInv, ResponseInv, [Next]_vars
  PROVE  HeapInv'
<1>1. CASE CreateRoot \/ AddItem \/ AddValue \/ AddKey \/ AddDrop \/ PrintDone
  BY <1>1, RootCreated, ItemAdded, ValueAdds, FieldJoins, ItemDropped, BodyDeleted
<1>2. CASE PollAnswered \/ PollRefused \/ PollParsed
  BY <1>2, ParseBegins, ParseOver
<1>3. CASE PrintBody
  <2>1. UNCHANGED <<item, strings, root>>
    BY <1>3, PrintFrame DEF PrintBody
  <2>2. pc = "print" /\ pc' = "print" /\ adding' = adding /\ adding = Null
    BY <1>3 DEF PrintBody, PhaseInv, locals
  <2> QED
    BY <2>1, <2>2, HeapKept
<1>4. CASE ParseBody
  <2>1. ParseHeap /\ ParseStep /\ pc' = "parse" /\ adding = Null /\ adding' = Null
    BY <1>4 DEF ParseBody, HeapInv, PhaseInv, locals
  <2>2. ParseHeap'
    BY <2>1, ParseHeapStep
  <2> QED
    BY <2>1, <2>2 DEF HeapInv
<1>5. CASE Aside
  BY <1>5, AsideFrame, HeapKept
<1>6. CASE UNCHANGED vars
  <2>1. /\ UNCHANGED <<item, strings, root, adding, sub, pc>>
        /\ UNCHANGED <<step, pos, at, frames>>
    BY <1>6 DEF vars, heap, locals, parser
  <2>2. ParseHeap => ParseHeap'
    BY <2>1 DEF ParseHeap
  <2> QED
    BY <2>1, <2>2 DEF HeapInv
<1> QED
  BY <1>1, <1>2, <1>3, <1>4, <1>5, <1>6, StepsOf

LEMMA FieldsStep ==
  ASSUME PhaseInv, FieldsInv, OutInv, ResponseInv, [Next]_vars
  PROVE  FieldsInv'
<1>1. CASE CreateRoot \/ AddValue
  BY <1>1 DEF CreateRoot, AddValue, FieldsInv, locals, This
<1>2. CASE AddItem
  BY <1>2 DEF AddItem, FieldsInv, This
<1>3. CASE AddKey \/ AddDrop
  <2>1. fields \in Seq(Writable) /\ fields # <<>>
    BY <1>3 DEF AddKey, AddDrop, FieldsInv
  <2>2. Tail(fields) \in Seq(Writable)
    BY <2>1, FieldOf
  <2>3. fields' = Tail(fields) /\ pc' = (IF Tail(fields) = <<>> THEN "print" ELSE "item")
    BY <1>3 DEF AddKey, AddDrop, NextField
  <2> QED
    BY <2>2, <2>3 DEF FieldsInv
<1>4. CASE PrintBody \/ PrintDone \/ PollAnswered \/ ParseBody \/ PollRefused \/ PollParsed
  BY <1>4 DEF FieldsInv, PrintBody, PrintDone, PollAnswered, ParseBody, PollRefused, PollParsed,
              Ends, Return
<1>5. CASE \E d \in Devices : Upload(d)
  <2>1. PICK d \in Devices : Upload(d)
    BY <1>5
  <2>2. fields' \in Seq(Writable) /\ fields' # <<>>
    BY <2>1, UploadType DEF Upload
  <2>3. pc = "idle" /\ pc' = "create" /\ sub' = sub
    BY <2>1 DEF Upload
  <2> QED
    BY <2>2, <2>3 DEF FieldsInv
<1>6. CASE \E success \in BOOLEAN, m \in Messages : Report(success, m)
  <2>1. PICK success \in BOOLEAN, m \in Messages : Report(success, m)
    BY <1>6
  <2>2. pc = "idle" /\ sub' = sub
    BY <2>1 DEF Report
  <2>3. CASE out.cmd_id = <<>>
    BY <2>1, <2>2, <2>3 DEF Report, FieldsInv
  <2>4. CASE out.cmd_id # <<>>
    <3> DEFINE r == [cmd_id |-> out.cmd_id, success |-> success, message |-> m]
    <3>1. pc' = "create" /\ fields' = ReportFields(r)
      BY <2>1, <2>4 DEF Report
    <3>2. r.cmd_id \in Words /\ r.message \in Words
      BY ClientAssumption, WordsTyped DEF OutInv
    <3> HIDE DEF r
    <3>3. fields' \in Seq(Writable) /\ fields' # <<>>
      BY <3>1, <3>2, ReportType
    <3> QED
      BY <2>2, <3>1, <3>3 DEF FieldsInv
  <2> QED
    BY <2>3, <2>4
<1>7. CASE Aside /\ ~(\E d \in Devices : Upload(d))
            /\ ~(\E success \in BOOLEAN, m \in Messages : Report(success, m))
  <2>1. /\ pc' \notin {"item", "value", "key", "print", "parse"} /\ sub' \in {sub, Null}
        /\ pc \notin {"create", "item", "value", "key", "print", "parse"}
    BY <1>7, AsideFrame
  <2>2. pc' # "create" /\ (pc' = "idle" => sub' = Null)
    BY <1>7 DEF Aside, Poll, RequestBegins, RequestNoMemory, Answer, Arrive, Store, Grow,
                GrowStore, Drop, PerformEnds, CallEnds, Ends, Return, FieldsInv, ResponseInv,
                PhaseInv
  <2> QED
    BY <2>1, <2>2 DEF FieldsInv
<1>8. CASE UNCHANGED vars
  BY <1>8 DEF vars, locals, FieldsInv, This
<1> QED
  BY <1>1, <1>2, <1>3, <1>4, <1>5, <1>6, <1>7, <1>8, StepsOf

LEMMA PhaseStep ==
  ASSUME PhaseInv, FieldsInv, HeapInv, HeapInv', ResponseInv, [Next]_vars
  PROVE  PhaseInv'
<1> USE DEF PhaseInv
<1>1. CASE CreateRoot
  <2>1. refused' \in 0 .. MaxRefused
    BY <1>1, RefusedBounds DEF CreateRoot
  <2> QED
    BY <1>1, <2>1 DEF CreateRoot, printer, parser, locals, http, response
<1>2. CASE AddItem
  <2>1. adding' # Null
    BY <1>2, ItemAdded
  <2> QED
    BY <1>2, <2>1 DEF AddItem, printer, parser, http, response
<1>3. CASE AddValue \/ AddKey \/ AddDrop
  <2>1. refused' \in 0 .. MaxRefused
    BY <1>3, RefusedBounds DEF AddValue, AddKey, AddDrop
  <2> QED
    BY <1>3, <2>1 DEF AddValue, AddKey, AddDrop, NextField, printer, parser, locals, http, response
<1>4. CASE PrintBody
  <2>1. root' = root /\ refused' \in 0 .. MaxRefused
    BY <1>4, PrintFrame, RefusedBounds DEF PrintBody
  <2> QED
    BY <1>4, <2>1 DEF PrintBody, parser, locals, http, response
<1>5. CASE PrintDone
  BY <1>5 DEF PrintDone, parser, locals, http, response
<1>6. CASE PollAnswered
  BY <1>6 DEF PollAnswered, ParseStart, printer, locals, http, response, heap
<1>7. CASE ParseBody
  <2>1. step' # "off"
    BY <1>7 DEF ParseBody, HeapInv, ParseHeap
  <2>2. refused' \in 0 .. MaxRefused
    BY <1>7, ParseFrame, RefusedBounds DEF ParseBody
  <2> QED
    BY <1>7, <2>1, <2>2 DEF ParseBody, printer, locals, http, response
<1>8. CASE PollRefused \/ PollParsed
  <2>1. root' = Null
    BY <1>8 DEF PollRefused, PollParsed, HeapInv, ParseHeap
  <2>2. refused' = 0 /\ 0 \in 0 .. MaxRefused
    BY <1>8, ItemsAssumption DEF PollRefused, PollParsed, Ends, Return
  <2> QED
    BY <1>8, <2>1, <2>2 DEF PollRefused, PollParsed, ParseEnds, Ends, Return, printer
<1>9. CASE Aside
  <2>1. /\ UNCHANGED <<root, mode, step, frames>> /\ adding = Null /\ adding' = Null
        /\ pc \notin {"create", "item", "value", "key", "print", "parse"}
        /\ pc' \notin {"item", "value", "key", "print", "parse"}
        /\ Refuse \/ refused' = refused \/ refused' = 0
    BY <1>9, AsideFrame DEF printer, parser
  <2>2. refused' \in 0 .. MaxRefused
    BY <2>1, RefusedBounds, ItemsAssumption
  <2>3. /\ pc' \in {"idle", "create", "url", "client", "perform", "receive", "answered", "failed"}
        /\ call' \in {"none", "upload", "report", "poll"}
        /\ pc' \notin {"client", "perform", "receive"} => held' = {}
        /\ pc' = "idle" => body' = NoString /\ cap' = 0
    <3>1. CASE Poll \/ (\E d \in Devices : Upload(d))
                \/ (\E success \in BOOLEAN, m \in Messages : Report(success, m))
      BY <3>1 DEF Poll, Upload, Report, http, response
    <3>2. CASE RequestBegins \/ RequestNoMemory \/ PerformEnds
      BY <3>2 DEF RequestBegins, RequestNoMemory, PerformEnds, locals
    <3>3. CASE (\E r \in IF call = "poll" THEN Replies ELSE Acks : Answer(r))
                \/ (\E n \in Pieces : Arrive(n))
      BY <3>3 DEF Answer, Arrive, locals, http
    <3>4. CASE Store \/ Grow \/ GrowStore \/ Drop
      <4>1. pc = "receive" /\ pc' = pc
        BY <3>4 DEF ResponseInv, Store, Grow, GrowStore, Drop
      <4> QED
        BY <3>4, <4>1 DEF Store, Grow, GrowStore, Drop, locals, http
    <3>5. CASE CallEnds
      BY <3>5 DEF CallEnds, Ends, Return
    <3> QED
      BY <1>9, <3>1, <3>2, <3>3, <3>4, <3>5 DEF Aside
  <2> QED
    BY <2>1, <2>2, <2>3
<1>10. CASE UNCHANGED vars
  BY <1>10 DEF vars, heap, printer, parser, locals, http, response
<1> QED
  BY <1>1, <1>2, <1>3, <1>4, <1>5, <1>6, <1>7, <1>8, <1>9, <1>10, StepsOf

\* strlcpy to n bytes: less than n of the text, its NUL not counted.
LEMMA CopyFits ==
  ASSUME NEW s \in Words, NEW n \in Nat \ {0}
  PROVE  Copy(s, n) \in Words /\ Len(Copy(s, n)) < n
<1> DEFINE S == Symbols \ {"bad"}
           c == CString(s)
<1>1. c \in Seq(S)
  BY CStringPart DEF Words
<1>2. Copy(s, n) = IF Len(c) < n THEN c ELSE SubSeq(c, 1, n - 1)
  BY DEF Copy
<1>3. Words = Seq(S)
  BY DEF Words
<1> HIDE DEF c, S
<1>4. Len(c) \in Nat
  BY <1>1
<1>5. ~(Len(c) < n) => SubSeq(c, 1, n - 1) \in Seq(S) /\ Len(SubSeq(c, 1, n - 1)) = n - 1
  BY <1>1, <1>4
<1> QED
  BY <1>1, <1>2, <1>3, <1>5

\* The items of a reply that was parsed, and their texts.
LEMMA ReplyItems ==
  ASSUME ParseHeap, step = "done"
  PROVE  /\ Typed(item) /\ Heap(item, Roots(frames, root)) /\ root \in DOMAIN item
         /\ \A n \in DOMAIN item \cup {Null} : IsString(n) => item[n].valuestring \in Words
<1>1. /\ frames = <<>> /\ Typed(item) /\ Heap(item, Roots(frames, root))
      /\ root \in DOMAIN item
      /\ \A n \in DOMAIN item : item[n].type = "String" => item[n].valuestring # NoString
  <2>1. frames = <<>> /\ root # Null /\ Sound(item, strings, Roots(frames, root))
        /\ OpenFrames(item, frames, root)
    BY DEF ParseHeap
  <2>2. Len(frames) = 0 /\ 1 .. 0 = {}
    BY <2>1
  <2> QED
    BY <2>1, <2>2, FramesApart DEF ParseHeap, Sound
<1>2. ASSUME NEW n \in DOMAIN item \cup {Null}, IsString(n) PROVE item[n].valuestring \in Words
  BY <1>1, <1>2, FieldsTyped DEF IsString
<1> QED
  BY <1>1, <1>2

\* The command in a reply: what it is made of are texts, whatever was replied.
LEMMA CommandFits ==
  ASSUME ParseHeap, step = "done"
  PROVE  /\ Extracted.cmd_id \in Words /\ Len(Extracted.cmd_id) < MaxId
         /\ Len(Extracted.cmd) < MaxName /\ Extracted.has_command \in BOOLEAN
<1> DEFINE cmd == GetObjectItem(root, <<"cmd">>)
           cmd_id == GetObjectItem(root, <<"cmd_id">>)
           name == GetObjectItem(cmd, <<"cmd">>)
<1>1. /\ Typed(item) /\ Heap(item, Roots(frames, root)) /\ root \in DOMAIN item
      /\ \A n \in DOMAIN item \cup {Null} : IsString(n) => item[n].valuestring \in Words
  BY ReplyItems
<1>2. cmd \in DOMAIN item \cup {Null} /\ cmd_id \in DOMAIN item \cup {Null}
  BY <1>1, LookupType
<1>3. name \in DOMAIN item \cup {Null}
  BY <1>1, <1>2, LookupType
<1> HIDE DEF cmd, cmd_id, name
<1>4. /\ IsString(cmd_id) => item[cmd_id].valuestring \in Words
      /\ IsString(name) => item[name].valuestring \in Words
  BY <1>1, <1>2, <1>3
<1>5. CASE cmd = Null \/ IsNull(cmd) \/ ~IsString(cmd_id) \/ ~IsString(name)
  <2>1. Extracted = NoCommand
    BY <1>5, Zenon DEF Extracted, cmd, cmd_id, name
  <2> QED
    BY <2>1, LiteralWords, ClientAssumption DEF NoCommand
<1>6. CASE ~(cmd = Null \/ IsNull(cmd) \/ ~IsString(cmd_id) \/ ~IsString(name))
  <2> DEFINE a == Copy(item[cmd_id].valuestring, MaxId)
             b == Copy(item[name].valuestring, MaxName)
  <2>1. Extracted = [cmd_id |-> a, cmd |-> b, has_command |-> TRUE]
    BY <1>6, Zenon DEF Extracted, cmd, cmd_id, name
  <2>2. a \in Words /\ Len(a) < MaxId /\ b \in Words /\ Len(b) < MaxName
    BY <1>2, <1>3, <1>4, <1>6, CopyFits, ClientAssumption
  <2> HIDE DEF a, b
  <2> QED
    BY <2>1, <2>2
<1> QED
  BY <1>5, <1>6

LEMMA OutStep ==
  ASSUME HeapInv, OutInv, [Next]_vars
  PROVE  OutInv'
<1>1. Forgets => OutInv'
  BY LiteralWords, ClientAssumption DEF Forgets, OutInv, NoCommand
<1>2. UNCHANGED polled => OutInv'
  BY DEF polled, OutInv
<1>3. CASE PollParsed
  <2>1. ParseHeap /\ step = "done"
    BY <1>3 DEF PollParsed, HeapInv
  <2>2. CASE Extracted.has_command
    <3>1. out' = Extracted /\ whole' = whole
      BY <1>3, <2>2 DEF PollParsed
    <3>2. /\ Extracted.cmd_id \in Words /\ Len(Extracted.cmd_id) < MaxId
          /\ Len(Extracted.cmd) < MaxName /\ Extracted.has_command \in BOOLEAN
      BY <2>1, CommandFits
    <3> QED
      BY <3>1, <3>2 DEF OutInv
  <2>3. CASE ~Extracted.has_command
    BY <1>1, <1>3, <2>3 DEF PollParsed
  <2> QED
    BY <2>2, <2>3
<1>4. CASE PollRefused \/ CallEnds
  BY <1>1, <1>4 DEF PollRefused, CallEnds
<1>5. CASE Drop
  <2>1. out' = out /\ whole' = (whole /\ call # "poll")
    BY <1>5 DEF Drop
  <2>2. whole' \in BOOLEAN
    BY <2>1
  <2> QED
    BY <2>1, <2>2 DEF OutInv
<1>6. CASE Poll \/ (\E r \in IF call = "poll" THEN Replies ELSE Acks : Answer(r))
  BY <1>6 DEF Poll, Answer, OutInv
<1>7. CASE \E success \in BOOLEAN, m \in Messages : Report(success, m)
  BY <1>1, <1>2, <1>7 DEF Report
<1>8. CASE CreateRoot \/ AddItem \/ AddValue \/ AddKey \/ AddDrop \/ PrintBody \/ PrintDone
  BY <1>2, <1>8 DEF CreateRoot, AddItem, AddValue, AddKey, AddDrop, PrintBody, PrintDone
<1>9. CASE PollAnswered \/ ParseBody \/ UNCHANGED vars
  BY <1>2, <1>9 DEF PollAnswered, ParseBody, vars
<1>10. CASE (\E d \in Devices : Upload(d)) \/ RequestBegins \/ RequestNoMemory
             \/ (\E n \in Pieces : Arrive(n)) \/ Store \/ Grow \/ GrowStore \/ PerformEnds
  BY <1>2, <1>10 DEF Upload, RequestBegins, RequestNoMemory, Arrive, Store, Grow, GrowStore,
                     PerformEnds
<1> QED
  BY <1>3, <1>4, <1>5, <1>6, <1>7, <1>8, <1>9, <1>10, StepsOf DEF Aside

\* Items of the printer: those of the call.
LEMMA SoundItems ==
  ASSUME NEW h, NEW c, NEW E, Sound(h, c, E), NEW r \in E \cup {Null}
  PROVE  /\ DOMAIN h \subseteq Nat \ {Null} /\ h \in [DOMAIN h -> ItemsOf(DOMAIN h)]
         /\ r \in DOMAIN h \cup {Null}
BY EdgesOf DEF Sound, Typed, Heap, Forest

LEMMA ItemsPrinted ==
  ASSUME HeapInv'
  PROVE  Items'
<1>1. CASE pc' = "parse"
  <2>1. Sound(item', strings', Roots(frames', root'))
    BY <1>1 DEF HeapInv, ParseHeap
  <2>2. root' \in Roots(frames', root') \cup {Null}
    BY RootsOf
  <2> QED
    BY <2>1, <2>2, SoundItems DEF Items, D
<1>2. CASE pc' # "parse"
  <2>1. Sound(item', strings', {root', adding'} \ {Null})
    BY <1>2 DEF HeapInv
  <2> QED
    BY <2>1, SoundItems DEF Items, D
<1> QED
  BY <1>1, <1>2

LEMMA PrinterStep ==
  ASSUME PhaseInv, HeapInv', PrintInv, ResponseInv, [Next]_vars
  PROVE  PrintInv'
<1>1. CASE PrintBody \/ UNCHANGED vars
  <2>1. [PrintStart \/ PrintStep]_printVars
    BY <1>1 DEF PrintBody, vars, printVars
  <2> QED
    BY <2>1, PrintInvStep
<1>2. Items'
  BY ItemsPrinted
<1>3. CASE PrintDone
  <2>1. /\ mode \notin Running /\ mode' = "off" /\ text' = <<>> /\ offset' = 0 /\ length' = 0
        /\ stack' = stack
    BY <1>3 DEF PrintDone, Running
  <2>2. stack = <<>>
    BY <2>1 DEF PrintInv, Stack
  <2>3. Stack' /\ Buffer' /\ Copying'
    BY <2>1, <2>2, PrintAssumption DEF Stack, Buffer, Copying, Running
  <2> QED
    BY <1>2, <2>1, <2>3 DEF PrintInv
<1>4. CASE ~PrintBody /\ ~PrintDone /\ ~UNCHANGED vars
  <2>1. UNCHANGED printer /\ pc # "print"
    <3>1. CASE CreateRoot \/ AddItem \/ AddValue \/ AddKey \/ AddDrop
      BY <3>1 DEF CreateRoot, AddItem, AddValue, AddKey, AddDrop
    <3>2. CASE PollAnswered \/ ParseBody \/ PollRefused \/ PollParsed
      BY <3>2 DEF PollAnswered, ParseBody, PollRefused, PollParsed
    <3>3. CASE Aside
      BY <3>3, AsideFrame
    <3> QED
      BY <1>4, <3>1, <3>2, <3>3, StepsOf
  <2>2. mode = "off" /\ UNCHANGED <<mode, text, offset, length, stack>>
    BY <2>1 DEF PhaseInv, printer
  <2>3. stack = <<>> /\ Buffer
    BY <2>2 DEF PrintInv, Stack, Running
  <2>4. Stack' /\ Buffer' /\ Copying'
    BY <2>2, <2>3 DEF Stack, Buffer, Copying, Running
  <2>5. mode' = "off"
    BY <2>2
  <2> QED
    BY <1>2, <2>4, <2>5 DEF PrintInv
<1> QED
  BY <1>1, <1>3, <1>4

LEMMA ClientStep == ResponseInv /\ ParserInv /\ ClientInv /\ [Next]_vars => ClientInv'
<1> SUFFICES ASSUME ResponseInv, ParserInv, ClientInv, [Next]_vars PROVE ClientInv'
  OBVIOUS
<1>1. PhaseInv /\ FieldsInv /\ HeapInv /\ OutInv /\ PrintInv
  BY DEF ClientInv
<1>2. HeapInv'
  BY <1>1, HeapStep
<1>3. PhaseInv' /\ FieldsInv' /\ OutInv' /\ PrintInv'
  BY <1>1, <1>2, PhaseStep, FieldsStep, OutStep, PrinterStep
<1> QED
  BY <1>2, <1>3 DEF ClientInv

\* Whatever runs, the items form trees, and their strings are those allocated.
LEMMA ClientSound == ClientInv => \E E : Sound(item, strings, E)
<1> SUFFICES ASSUME ClientInv PROVE \E E : Sound(item, strings, E)
  OBVIOUS
<1>1. CASE pc = "parse"
  BY <1>1 DEF ClientInv, HeapInv, ParseHeap
<1>2. CASE pc # "parse"
  BY <1>2 DEF ClientInv, HeapInv
<1> QED
  BY <1>1, <1>2

LEMMA ClientTyped == ResponseInv /\ ClientInv => TypeOK
<1> SUFFICES ASSUME ResponseInv, ClientInv PROVE TypeOK
  OBVIOUS
<1>1. strings \in Nat
  <2>1. PICK E : Sound(item, strings, E)
    BY ClientSound
  <2> QED
    BY <2>1, StringsType DEF Sound, Heap
<1> QED
  BY <1>1 DEF ClientInv, PhaseInv, OutInv, ResponseInv, TypeOK

LEMMA ClientLists == ClientInv => ListsSound
BY ClientSound, SoundLists

LEMMA ClientLeaves == ClientInv => NothingLeft
<1> SUFFICES ASSUME ClientInv, pc = "idle" PROVE NothingLeft
  BY DEF NothingLeft
<1>1. /\ root = Null /\ adding = Null /\ mode = "off" /\ held = {}
      /\ body = NoString /\ cap = 0
  BY DEF ClientInv, PhaseInv
<1>2. Sound(item, strings, {})
  <2>1. Sound(item, strings, {root, adding} \ {Null}) /\ {root, adding} \ {Null} = {}
    BY <1>1 DEF ClientInv, HeapInv
  <2> QED
    BY <2>1
<1>3. item = <<>> /\ strings = 0
  BY <1>2, EmptySound
<1>4. length = 0
  BY <1>1 DEF ClientInv, PrintInv, Buffer
<1> QED
  BY <1>1, <1>3, <1>4 DEF NothingLeft

LEMMA ClientKept == Spec => [](ResponseInv /\ ParserInv /\ ClientInv)
<1>1. Init => ResponseInv /\ ParserInv /\ ClientInv
  BY ResponseInit, ParserInit, ClientInit
<1>2. ResponseInv /\ ParserInv /\ ClientInv /\ [Next]_vars => (ResponseInv /\ ParserInv /\ ClientInv)'
  BY ResponseStep, ParserStep, ClientStep
<1> QED
  BY <1>1, <1>2, PTL DEF Spec

\* The state of every call has its types, the piece that is handled is one of the
\* reply, and a polled command fits gateway_command_t with its NUL (strlcpy), for
\* every reply, every capacity and every number of refused allocations.
THEOREM ClientTypes == Spec => []TypeOK
BY ClientKept, ClientTyped, PTL

\* A call that has returned has freed all that it took: the items and strings of
\* body and reply (cJSON_Delete, and the parser's and the client's failure paths),
\* the printed body, the URL, the client and the response, on every path.
THEOREM ClientFreesAll == Spec => []NothingLeft
BY ClientKept, ClientLeaves, PTL

\* At every step of a call, while a reply is parsed, a body built or either is
\* deleted, no item points to a freed one, lists can be walked both ways, and the
\* head of a finished list knows its tail (add_item_to_array, parse_array,
\* parse_object, cJSON_Delete).
THEOREM ItemsListed == Spec => []ListsSound
BY ClientKept, ClientLists, PTL

\* Printing the body of any upload or report, in the calls that print it, never
\* writes beyond the buffer that ensure has grown.
THEOREM ClientPrints == Spec => []PrintInBounds
<1>1. ClientInv => PrintInBounds
  BY DEF ClientInv, PrintInv, Buffer, PrintInBounds
<1> QED
  BY ClientKept, <1>1, PTL

-----------------------------------------------------------------------------
(* The reply that is kept *)

\* Nothing is kept before the reply arrives; what is taken is next in it.
ReplyInv ==
  /\ ReplyInOrder
  /\ pc \notin {"receive", "answered", "parse", "failed"} => data = <<>>

\* A piece moves from what is to come to what is kept.
LEMMA PieceMoves ==
  ASSUME NEW d \in Seq(STRING), NEW s \in Seq(STRING), NEW n \in Nat, n <= Len(s)
  PROVE  (d \o SubSeq(s, 1, n)) \o SubSeq(s, n + 1, Len(s)) = d \o s
<1> DEFINE t == SubSeq(s, 1, n)
           u == SubSeq(s, n + 1, Len(s))
<1>1. /\ t \in Seq(STRING) /\ Len(t) = n /\ u \in Seq(STRING) /\ Len(u) = Len(s) - n
      /\ \A i \in 1 .. n : t[i] = s[i]
      /\ \A i \in 1 .. Len(s) - n : u[i] = s[n + i]
      /\ Len(s) \in Nat
  <2>1. Len(s) \in Nat /\ \A i \in 1 .. Len(s) : s[i] \in STRING
    OBVIOUS
  <2>2. t \in Seq(STRING) /\ Len(t) = n /\ \A i \in 1 .. n : t[i] = s[i]
    BY <2>1, SubSeqProperties
  <2>3. u \in Seq(STRING) /\ Len(u) = Len(s) - n
    BY <2>1, SubSeqProperties
  <2>4. \A i \in 1 .. Len(s) - n : u[i] = s[n + i]
    BY <2>1, SubSeqProperties
  <2> QED
    BY <2>1, <2>2, <2>3, <2>4
<1> HIDE DEF t, u
<1>2. t \o u = s
  <2>1. t \o u \in Seq(STRING) /\ Len(t \o u) = Len(s)
    <3>1. t \o u \in Seq(STRING) /\ Len(t \o u) = Len(t) + Len(u)
      BY <1>1, ConcatProperties
    <3>2. Len(t) + Len(u) = Len(s)
      BY <1>1
    <3> QED
      BY <3>1, <3>2
  <2>2. ASSUME NEW i \in 1 .. Len(s) PROVE (t \o u)[i] = s[i]
    <3>1. CASE i <= n
      BY <1>1, <3>1
    <3>2. CASE ~(i <= n)
      <4>1. (t \o u)[i] = u[i - n] /\ i - n \in 1 .. Len(s) - n /\ n + (i - n) = i
        BY <1>1, <3>2
      <4> QED
        BY <1>1, <4>1
    <3> QED
      BY <3>1, <3>2
  <2>3. \A i \in 1 .. Len(t \o u) : (t \o u)[i] = s[i]
    BY <2>1, <2>2
  <2> HIDE DEF t, u
  <2> QED
    BY <2>1, <2>3, SeqEqual
<1>3. (d \o t) \o u = d \o (t \o u)
  BY <1>1, ConcatAssociative, SMTT(60)
<1> QED
  BY <1>2, <1>3 DEF t, u

LEMMA ReplyStep == ResponseInv /\ ReplyInv /\ [Next]_vars => ReplyInv'
<1> SUFFICES ASSUME ResponseInv, ReplyInv, [Next]_vars PROVE ReplyInv'
  OBVIOUS
<1> USE DEF ReplyInv, ReplyInOrder
<1>1. CASE CreateRoot \/ AddItem \/ AddValue \/ AddKey \/ AddDrop \/ PrintBody \/ PrintDone
  BY <1>1 DEF CreateRoot, AddItem, AddValue, AddKey, AddDrop, NextField, PrintBody, PrintDone,
              response
<1>2. CASE PollAnswered \/ ParseBody \/ UNCHANGED vars
  <2>1. UNCHANGED <<call, data, rest, reply, whole>>
    BY <1>2 DEF PollAnswered, ParseBody, vars, locals, http, response, polled
  <2>2. pc' = pc \/ (pc = "answered" /\ pc' = "parse")
    BY <1>2 DEF PollAnswered, ParseBody, vars
  <2> QED
    BY <2>1, <2>2
<1>3. CASE PollRefused \/ PollParsed \/ CallEnds
  BY <1>3 DEF PollRefused, PollParsed, CallEnds, Ends, Return
<1>4. CASE Poll \/ (\E d \in Devices : Upload(d))
             \/ (\E success \in BOOLEAN, m \in Messages : Report(success, m))
  BY <1>4 DEF Poll, Upload, Report, response
<1>5. CASE RequestBegins \/ RequestNoMemory
  BY <1>5 DEF RequestBegins, RequestNoMemory, response
<1>6. CASE PerformEnds
  BY <1>6, ConcatEmptySeq DEF PerformEnds, ResponseInv, locals, response, polled
<1>7. ASSUME NEW r \in IF call = "poll" THEN Replies ELSE Acks, Answer(r) PROVE ReplyInv'
  <2>1. r \in Seq(STRING) /\ data = <<>> /\ data' = data /\ pc' = "receive" /\ rest' = r
    BY <1>7, ClientAssumption DEF Answer, response
  <2>2. data' \o rest' = r
    BY <2>1, ConcatEmptySeq
  <2>3. call' = call /\ (call = "poll" => reply' = r)
    BY <1>7 DEF Answer, locals
  <2> QED
    BY <2>1, <2>2, <2>3
<1>8. CASE (\E n \in Pieces : Arrive(n)) \/ Grow
  <2>1. UNCHANGED <<pc, call, data, rest, reply, whole>>
    BY <1>8 DEF Arrive, Grow, locals, http, polled
  <2> QED
    BY <2>1
<1>9. CASE Store \/ GrowStore
  <2>1. /\ pc = "receive" /\ pc' = pc /\ call' = call /\ UNCHANGED <<reply, whole>>
        /\ data' = data \o SubSeq(rest, 1, piece)
        /\ rest' = SubSeq(rest, piece + 1, Len(rest))
    BY <1>9 DEF ResponseInv, Store, GrowStore, Take, locals, polled
  <2>2. data' \o rest' = data \o rest
    BY <2>1, PieceMoves DEF ResponseInv
  <2> QED
    BY <2>1, <2>2
<1>10. CASE Drop
  <2>1. pc = "receive" /\ pc' = pc /\ call' = call /\ whole' = (whole /\ call # "poll")
    BY <1>10 DEF ResponseInv, Drop, locals
  <2> QED
    BY <2>1
<1> QED
  BY <1>1, <1>2, <1>3, <1>4, <1>5, <1>6, <1>7, <1>8, <1>9, <1>10, StepsOf DEF Aside

\* A polled reply that was answered is handed to cJSON_Parse whole and in order,
\* however http_event_handler was given it and its buffer grew, if no piece was
\* dropped for want of memory.
THEOREM ReplyKept == Spec => []ReplyInOrder
<1>1. Init => ReplyInv
  BY DEF Init, ReplyInv, ReplyInOrder
<1>2. ReplyInv => ReplyInOrder
  BY DEF ReplyInv
<1> QED
  BY ResponseInit, ResponseStep, <1>1, ReplyStep, <1>2, PTL DEF Spec
=============================================================================
