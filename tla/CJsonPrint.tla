----------------------------- MODULE CJsonPrint -----------------------------
(***************************************************************************)
(* cJSON_PrintUnformatted: the tree of items is written into a buffer that *)
(* grows by realloc.  Each function first makes sure of the room it needs, *)
(* by its own reckoning, and then writes; update_offset finds the end of   *)
(* what was written by its NUL.  print_object's recursion is the stack.    *)
(* Arrays and null are left out: no request of the firmware has one.       *)
(***************************************************************************)
EXTENDS CJsonItems

CONSTANTS
  PrintSize,     \* default_buffer_size
  IntMax         \* INT_MAX

ASSUME PrintAssumption ==
  /\ PrintSize \in Nat \ {0} /\ IntMax \in Nat /\ PrintSize <= IntMax

VARIABLES
  mode,    \* what print does next; "off" when it is not running
  text,    \* what has been written to the buffer
  offset,  \* p->offset
  length,  \* p->length
  copied,  \* how much of a string is escaped and copied
  stack    \* of each print_object that is running, the child it is at

printer == <<mode, text, offset, length, copied, stack>>

NoPrint ==
  /\ mode = "off" /\ text = <<>> /\ offset = 0 /\ length = 0
  /\ copied = 0 /\ stack = <<>>

-----------------------------------------------------------------------------
(* What is printed next. *)

OneChar == {Quote, Backslash, "bs", "ff", "lf", "cr", "tab"}
Control == {"ctl"}
EscapeOf(c) ==
  CASE c = "bs" -> <<Backslash, "b">>
    [] c = "ff" -> <<Backslash, "f">>
    [] c = "lf" -> <<Backslash, "n">>
    [] c = "cr" -> <<Backslash, "r">>
    [] c = "tab" -> <<Backslash, "t">>
    [] c \in {Quote, Backslash} -> <<Backslash, c>>
    [] c \in Control -> <<Backslash, "u", "0", "0", "1", "f">>
    [] OTHER -> <<c>>

\* How many symbols of s, from the i-th on, are in S.
From(s, i, S) == Cardinality({j \in i .. Len(s) : s[j] \in S})
EscapeCharacters(s) == From(s, 1, OneChar) + 5 * From(s, 1, Control)

\* Mutant: a control character takes one more character, as the others do.
OutputLengthShort(s) == Len(s) + From(s, 1, OneChar \cup Control)

\* What print_string_ptr reckons the escaped string to take.
OutputLength(s) == Len(s) + EscapeCharacters(s)
Plain(s) == EscapeCharacters(s) = 0

\* The item that is printed; of an object's member, the key comes first.
Current == IF stack = <<>> THEN root ELSE Head(stack)
IsKey == mode \in {"key", "copykey"}
ThisString == IF IsKey THEN item[Current].string ELSE item[Current].valuestring
AfterString == IF IsKey THEN "colon" ELSE "after"

\* A number is held as the shortest numeral that denotes it, which is what
\* print_number's formats find.
Literal ==
  CASE item[Current].type = "Number" -> item[Current].number
    [] item[Current].type = "True" -> <<"true">>
    [] item[Current].type = "False" -> <<"false">>
    [] OTHER -> <<>>

OfType(T) == mode = "value" /\ Current # Null /\ item[Current].type \in T
IsText == mode = "key" \/ OfType({"String"})
IsLiteral == OfType({"Number", "True", "False"})
IsObject == OfType({"Object"})

\* Between two members, and behind the last.
Separator == IF item[Head(stack)].next = Null THEN <<NUL>> ELSE <<",", NUL>>

-----------------------------------------------------------------------------
(* ensure *)

\* The room that is asked for before the write.
Asked ==
  CASE IsText -> OutputLength(ThisString) + 3
    [] IsLiteral -> Len(Literal) + 1
    [] mode = "colon" -> 1
    [] mode = "after" -> Len(Separator)
    [] OTHER -> 2

\* Mutant: the room for what is already there is forgotten.
NeededAlone == Asked + 1

Needed == Asked + offset + 1
Valid == offset < length /\ Asked <= IntMax
Fits == Valid /\ Needed <= length
CanGrow == Valid /\ ~Fits /\ Needed <= IntMax
NewLength ==
  IF Fits THEN length ELSE IF Needed > IntMax \div 2 THEN IntMax ELSE Needed * 2

\* ensure succeeds and w is written at the offset.
Writes(w) ==
  /\ Fits \/ CanGrow
  /\ length' = NewLength
  /\ text' = SubSeq(text, 1, offset) \o w

\* The offset moves behind it, to its NUL if it has one.
Emit(w) == Writes(w) /\ offset' = offset + Len(CString(w))

\* Everything returns false; ensure or print frees the buffer.
Fails ==
  /\ mode' = "failed"
  /\ text' = <<>> /\ offset' = 0 /\ length' = 0 /\ copied' = 0 /\ stack' = <<>>
  /\ UNCHANGED <<item, strings, root>>

\* ensure returns NULL: no int is large enough, or there is no memory.
EnsureFails ==
  /\ \/ ~Fits /\ ~CanGrow /\ UNCHANGED refused
     \/ CanGrow /\ Refuse
  /\ Fails

-----------------------------------------------------------------------------
(* print_string_ptr *)

PrintPlain ==
  /\ IsText /\ Plain(ThisString)
  /\ Emit(<<Quote>> \o ThisString \o <<Quote, NUL>>)
  /\ mode' = AfterString
  /\ UNCHANGED <<heap, root, copied, stack>>

PrintQuote ==
  /\ IsText /\ ~Plain(ThisString)
  /\ Writes(<<Quote>>)
  /\ mode' = IF IsKey THEN "copykey" ELSE "copyvalue"
  /\ copied' = 0
  /\ UNCHANGED <<heap, root, offset, stack>>

\* One turn of the copying loop.
PrintCopy ==
  /\ mode \in {"copykey", "copyvalue"}
  /\ copied < Len(ThisString)
  /\ text' = text \o EscapeOf(ThisString[copied + 1])
  /\ copied' = copied + 1
  /\ UNCHANGED <<heap, root, mode, offset, length, stack>>

\* The closing quote goes where the reckoning says that the copy ends.
PrintUnquote ==
  /\ mode \in {"copykey", "copyvalue"}
  /\ copied = Len(ThisString)
  /\ LET end == offset + OutputLength(ThisString) + 1
     IN  text' = SubSeq(text, 1, end) \o <<Quote, NUL>> /\ offset' = end + 1
  /\ mode' = AfterString /\ copied' = 0
  /\ UNCHANGED <<heap, root, length, stack>>

-----------------------------------------------------------------------------
(* print_value, print_object, print *)

PrintLiteral ==
  /\ IsLiteral
  /\ Emit(Literal \o <<NUL>>)
  /\ mode' = "after"
  /\ UNCHANGED <<heap, root, copied, stack>>

PrintOpen ==
  /\ IsObject /\ Len(stack) < NestingLimit
  /\ Emit(<<"{">>)
  /\ stack' = <<item[Current].child>> \o stack
  /\ mode' = IF item[Current].child = Null THEN "close" ELSE "key"
  /\ UNCHANGED <<heap, root, copied>>

PrintColon ==
  /\ mode = "colon"
  /\ Emit(<<":">>)
  /\ mode' = "value"
  /\ UNCHANGED <<heap, root, copied, stack>>

PrintComma ==
  /\ mode = "after" /\ stack # <<>>
  /\ Emit(Separator)
  /\ stack' = <<item[Head(stack)].next>> \o Tail(stack)
  /\ mode' = IF item[Head(stack)].next = Null THEN "close" ELSE "key"
  /\ UNCHANGED <<heap, root, copied>>

PrintClose ==
  /\ mode = "close"
  /\ Emit(<<"}", NUL>>)
  /\ stack' = Tail(stack)
  /\ mode' = "after"
  /\ UNCHANGED <<heap, root, copied>>

\* There is no item, or it is nested too deeply.
Unprintable ==
  mode = "value" /\ (Current = Null \/ (IsObject /\ Len(stack) >= NestingLimit))
PrintUnprintable ==
  /\ Unprintable
  /\ Fails /\ UNCHANGED refused

Writing ==
  IsText \/ IsLiteral \/ (IsObject /\ ~Unprintable) \/ mode \in {"colon", "close"}
    \/ (mode = "after" /\ stack # <<>>)
PrintNoRoom == Writing /\ EnsureFails

\* print: the first allocation, and the last, which cuts the buffer to size.
PrintStart ==
  /\ mode = "off"
  /\ \/ mode' = "value" /\ length' = PrintSize /\ UNCHANGED refused
     \/ mode' = "failed" /\ UNCHANGED length /\ Refuse
  /\ UNCHANGED <<item, strings, root, text, offset, copied, stack>>

PrintEnd ==
  /\ mode = "after" /\ stack = <<>>
  /\ mode' = "printed"
  /\ length' = offset + 1 /\ text' = SubSeq(text, 1, offset + 1)
  /\ UNCHANGED <<heap, root, offset, copied, stack>>

PrintEndFails ==
  /\ mode = "after" /\ stack = <<>>
  /\ Refuse /\ Fails

PrintStep ==
  \/ PrintPlain \/ PrintQuote \/ PrintCopy \/ PrintUnquote \/ PrintLiteral
  \/ PrintOpen \/ PrintColon \/ PrintComma \/ PrintClose
  \/ PrintUnprintable \/ PrintNoRoom \/ PrintEnd \/ PrintEndFails

-----------------------------------------------------------------------------
\* No write of the printer goes beyond the buffer, whatever is escaped and
\* however often the buffer has grown, and the offset stays inside it.
PrintInBounds ==
  /\ Len(text) <= length /\ length <= IntMax
  /\ mode \notin {"off", "failed"} => offset < length

-----------------------------------------------------------------------------
(* What should be printed. *)

NoNUL(s) == \A i \in 1 .. Len(s) : s[i] # NUL

\* Texts one after the other: all of them from the i-th on.
TextFrom(texts) ==
  LET from[i \in 1 .. Len(texts) + 1] ==
        IF i > Len(texts) THEN <<>> ELSE texts[i] \o from[i + 1]
  IN  from

Escapes(s) == [i \in 1 .. Len(s) |-> EscapeOf(s[i])]
InQuotes(s) == <<Quote>> \o TextFrom(Escapes(s))[1] \o <<Quote>>
=============================================================================
