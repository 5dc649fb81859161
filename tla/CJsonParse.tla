----------------------------- MODULE CJsonParse -----------------------------
(***************************************************************************)
(* cJSON_Parse, as cloud_client_poll_command calls it: a zero-terminated   *)
(* text, nothing required after the value.  The recursion of parse_array   *)
(* and parse_object is the list frames; each frame has the list of items   *)
(* that is deleted if the container is not finished.                       *)
(***************************************************************************)
EXTENDS CJsonItems

VARIABLES
  step,      \* what the parser does next; "off" when it is not running
  content,   \* buffer.content
  pos,       \* buffer.offset
  at,        \* the item that is filled in
  frames     \* the containers that are open, the innermost first

parser == <<step, content, pos, at, frames>>

NoParse ==
  step = "off" /\ content = <<>> /\ pos = 0 /\ at = Null /\ frames = <<>>

-----------------------------------------------------------------------------
(* The text.  Positions count from 0, as in the code. *)

Size == Len(content)
Char(i) == content[i + 1]
IsAt(i, c) == i < Size /\ Char(i) = c

\* Every control character is whitespace.
Whitespace == {" ", "ctl", "bs", "ff", "lf", "cr", "tab", NUL}

\* The first position from i on with a symbol that is not in S, or Size.
Past(i, S) == i + Cardinality({j \in i .. Size - 1 : \A k \in i .. j : Char(k) \in S})

\* Mutant: the end of the text is not stepped back from.
SkipToEnd(i) == Past(i, Whitespace)

\* buffer_skip_whitespace counts the final NUL as whitespace, and steps back.
Skip(i) ==
  IF i < Size /\ Past(i, Whitespace) = Size THEN Size - 1 ELSE Past(i, Whitespace)

\* Where the string that opens at i is closed, or the end of the text.
Closing(i) ==
  LET find[j \in Nat] ==
        IF j >= Size THEN Size
        ELSE IF Char(j) = Quote THEN j
        ELSE IF Char(j) = Backslash THEN find[j + 2]
        ELSE find[j + 1]
  IN  find[i + 1]

\* One escape: after \u, utf16_literal_to_utf8, where the symbol stands for
\* its four digits; digits that are none count as zero (parse_hex4), and a zero
\* ends a C string.  Half of a surrogate pair needs the other half.
Escaped(c) ==
  CASE c \in {Quote, Backslash, "/"} -> c
    [] c = "b" -> "bs"
    [] c = "f" -> "ff"
    [] c = "n" -> "lf"
    [] c = "r" -> "cr"
    [] c = "t" -> "tab"
    [] c = "u0041" -> "A"
    [] c = "uzzzz" -> NUL
    [] c = "uD83D" -> "high"
    [] OTHER -> "bad"

\* parse_string's copying loop over what is between the quotes; what contains
\* "bad" is not accepted.
Unescape(s) ==
  LET from[i \in Nat] ==
        IF i > Len(s) THEN <<>>
        ELSE IF s[i] # Backslash THEN <<s[i]>> \o from[i + 1]
        ELSE IF Escaped(s[i + 1]) # "high" THEN <<Escaped(s[i + 1])>> \o from[i + 2]
        ELSE IF i + 3 <= Len(s) /\ s[i + 2] = Backslash /\ s[i + 3] = "uDE00"
               THEN <<"pair">> \o from[i + 4]
               ELSE <<"bad">>
  IN  from[1]

StringAt(i) == Unescape(SubSeq(content, i + 2, Closing(i)))
Closed(i) == IsAt(i, Quote) /\ Closing(i) \in Nat /\ IsAt(Closing(i), Quote)
GoodString(i) == Closed(i) /\ \A k \in 1 .. Len(StringAt(i)) : StringAt(i)[k] # "bad"

\* What strtod takes of the number characters at i.
Numeral(i) ==
  LET first == IF IsAt(i, "-") THEN i + 1 ELSE i
      end == Past(first, {"7"})
  IN  IF end = first THEN <<>> ELSE SubSeq(content, i + 1, end)

TypeAt(i) ==
  CASE Char(i) = "null" -> "NULL"
    [] Char(i) = "false" -> "False"
    [] Char(i) = "true" -> "True"
    [] Char(i) = Quote -> "String"
    [] Char(i) \in {"-", "7"} -> "Number"
    [] Char(i) = "[" -> "Array"
    [] Char(i) = "{" -> "Object"
    [] OTHER -> "Invalid"
Closer(type) == IF type = "Array" THEN "]" ELSE "}"

-----------------------------------------------------------------------------
(* cJSON_ParseWithLengthOpts, parse_value *)

Starts(type) == step = "value" /\ TypeAt(pos) = type
Resume(rest) == IF rest = <<>> THEN "done" ELSE "after"

\* The content is the C string in s with its NUL.
ParseStart(s) ==
  /\ step = "off" /\ step' = "root"
  /\ content' = CString(s) \o <<NUL>>
  /\ UNCHANGED <<heap, root, pos, at, frames>>

\* A byte order mark is skipped if more than the NUL follows it.
ParseRoot ==
  /\ step = "root" /\ step' = "value"
  /\ item' = WithNew(Blank) /\ root' = Fresh /\ at' = Fresh
  /\ pos' = Skip(IF IsAt(0, "bom") /\ Size >= 3 THEN 1 ELSE 0)
  /\ UNCHANGED <<strings, refused, content, frames>>

ParseLiteral ==
  /\ Starts("NULL") \/ Starts("False") \/ Starts("True")
  /\ item' = [item EXCEPT ![at].type = TypeAt(pos)]
  /\ pos' = pos + 1 /\ step' = Resume(frames)
  /\ UNCHANGED <<strings, refused, root, content, at, frames>>

\* The temporary copy of the digits is freed again.
ParseNumber ==
  /\ Starts("Number") /\ Numeral(pos) # <<>>
  /\ item' = [item EXCEPT ![at].type = "Number", ![at].number = Numeral(pos)]
  /\ pos' = pos + Len(Numeral(pos)) /\ step' = Resume(frames)
  /\ UNCHANGED <<strings, refused, root, content, at, frames>>

ParseString ==
  /\ Starts("String") /\ GoodString(pos)
  /\ item' = [item EXCEPT ![at].type = "String", ![at].valuestring = StringAt(pos)]
  /\ strings' = strings + 1
  /\ pos' = Closing(pos) + 1 /\ step' = Resume(frames)
  /\ UNCHANGED <<refused, root, content, at, frames>>

-----------------------------------------------------------------------------
(* parse_array, parse_object *)

\* Mutant: one container deeper.
OpensDeeper == (Starts("Array") \/ Starts("Object")) /\ Len(frames) <= NestingLimit

Opens == (Starts("Array") \/ Starts("Object")) /\ Len(frames) < NestingLimit
OpensEmpty == IsAt(Skip(pos + 1), Closer(TypeAt(pos)))

ParseEmpty ==
  /\ Opens /\ OpensEmpty
  /\ item' = [item EXCEPT ![at].type = TypeAt(pos)]
  /\ pos' = Skip(pos + 1) + 1 /\ step' = Resume(frames)
  /\ UNCHANGED <<strings, refused, root, content, at, frames>>

\* It steps back to the symbol in front of the first element.
ParseOpen ==
  /\ Opens /\ ~OpensEmpty
  /\ frames' = <<[type |-> TypeAt(pos), item |-> at, head |-> Null, cur |-> Null]>>
                 \o frames
  /\ pos' = Skip(pos + 1) - 1 /\ step' = "next"
  /\ UNCHANGED <<heap, root, content, at>>

\* The next element is allocated and linked before its text is looked at.
ParseNext ==
  /\ step = "next"
  /\ LET f == Head(frames)
         new == WithNew([Blank EXCEPT !.prev = f.cur])
     IN  /\ item' = IF f.head = Null THEN new ELSE [new EXCEPT ![f.cur].next = Fresh]
         /\ frames' = <<[f EXCEPT !.head = IF @ = Null THEN Fresh ELSE @, !.cur = Fresh]>>
                        \o Tail(frames)
         /\ step' = IF f.type = "Array" THEN "value"
                    ELSE IF pos + 1 < Size THEN "name" ELSE "fail"
  /\ at' = Fresh /\ pos' = Skip(pos + 1)
  /\ UNCHANGED <<strings, refused, root, content>>

\* The name is a string; it moves from the item's value to its key.
ParseName ==
  /\ step = "name" /\ GoodString(pos)
  /\ item' = [item EXCEPT ![at].type = "String", ![at].string = StringAt(pos)]
  /\ strings' = strings + 1
  /\ LET colon == Skip(Closing(pos) + 1)
     IN  IF IsAt(colon, ":") THEN step' = "value" /\ pos' = Skip(colon + 1)
                             ELSE step' = "fail" /\ pos' = colon
  /\ UNCHANGED <<refused, root, content, at, frames>>

ParseComma ==
  /\ step = "after" /\ IsAt(Skip(pos), ",")
  /\ step' = "next" /\ pos' = Skip(pos)
  /\ UNCHANGED <<heap, root, content, at, frames>>

\* Mutant: the head is not told its tail.
ParseCloseOpen ==
  /\ step = "after" /\ IsAt(Skip(pos), Closer(Head(frames).type))
  /\ LET f == Head(frames)
     IN  /\ item' = [item EXCEPT ![f.item].type = f.type, ![f.item].child = f.head]
         /\ at' = f.item
  /\ frames' = Tail(frames) /\ pos' = Skip(pos) + 1 /\ step' = Resume(Tail(frames))
  /\ UNCHANGED <<strings, refused, root, content>>

ParseClose ==
  /\ step = "after" /\ IsAt(Skip(pos), Closer(Head(frames).type))
  /\ LET f == Head(frames)
     IN  /\ item' = [item EXCEPT ![f.head].prev = f.cur,
                                 ![f.item].type = f.type, ![f.item].child = f.head]
         /\ at' = f.item
  /\ frames' = Tail(frames) /\ pos' = Skip(pos) + 1 /\ step' = Resume(Tail(frames))
  /\ UNCHANGED <<strings, refused, root, content>>

-----------------------------------------------------------------------------
(* Failure *)

\* The text goes on with nothing that is accepted here.
Stuck ==
  \/ /\ step = "value"
     /\ \/ TypeAt(pos) = "Invalid"
        \/ TypeAt(pos) = "Number" /\ Numeral(pos) = <<>>
        \/ TypeAt(pos) = "String" /\ ~GoodString(pos)
        \/ TypeAt(pos) \in {"Array", "Object"} /\ Len(frames) >= NestingLimit
  \/ step = "name" /\ ~GoodString(pos)
  \/ step = "after" /\ Char(Skip(pos)) \notin {",", Closer(Head(frames).type)}

ParseBad ==
  /\ Stuck /\ step' = "fail"
  /\ UNCHANGED <<heap, root, content, pos, at, frames>>

\* Where the parser allocates.
Allocates ==
  \/ step \in {"root", "next"} \/ Starts("Number")
  \/ (step = "name" \/ Starts("String")) /\ Closed(pos)

ParseNoMemory ==
  /\ Allocates /\ Refuse
  /\ step' = IF step = "root" THEN "failed" ELSE "fail"
  /\ UNCHANGED <<item, strings, root, content, pos, at, frames>>

\* Each open container deletes its elements, and returns false.
ParseUnwind ==
  /\ step = "fail" /\ frames # <<>>
  /\ Delete(Head(frames).head)
  /\ frames' = Tail(frames)
  /\ UNCHANGED <<refused, root, step, content, pos, at>>

ParseGiveUp ==
  /\ step = "fail" /\ frames = <<>>
  /\ Delete(root) /\ root' = Null
  /\ step' = "failed"
  /\ UNCHANGED <<refused, content, pos, at, frames>>

ParseStep ==
  \/ ParseRoot \/ ParseLiteral \/ ParseNumber \/ ParseString
  \/ ParseEmpty \/ ParseOpen \/ ParseNext \/ ParseName \/ ParseComma \/ ParseClose
  \/ ParseBad \/ ParseNoMemory \/ ParseUnwind \/ ParseGiveUp

-----------------------------------------------------------------------------
\* The parser never stands beyond the final NUL, although it counts that NUL
\* as whitespace and steps back and forth around it.
ParseInBounds == step # "off" => pos < Size
=============================================================================
