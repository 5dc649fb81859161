---------------------------- MODULE CloudContent ----------------------------
(***************************************************************************)
(* What the texts that CloudClient receives should mean: the value of a    *)
(* text, defined by its shape (where it splits at commas that are in no    *)
(* string and no bracket) and not by a reader that goes through it.        *)
(*                                                                         *)
(* The texts are those of cJSON's dialect: JSON of at most NestingLimit    *)
(* levels, and what else cJSON takes.  Every control character may stand   *)
(* for a blank, and may stand in a string as it is; \u and what is no      *)
(* number denotes a NUL; a byte order mark may come first, and anything    *)
(* may come behind the value.                                              *)
(***************************************************************************)
EXTENDS CloudBody

\* The symbols that no backslash escapes: there is an even number in front.
Unescaped(s) ==
  LET slashes[i \in 0 .. Len(s)] ==
        IF i = 0 \/ s[i] # Backslash THEN 0 ELSE slashes[i - 1] + 1
  IN  {i \in 1 .. Len(s) : slashes[i - 1] % 2 = 0}

\* The quotes that open or close a string, and what is outside of strings.
Marks(s) == {i \in Unescaped(s) : s[i] = Quote}
Outside(s) ==
  {i \in 1 .. Len(s) : Cardinality({q \in Marks(s) : q < i}) % 2 = 0} \ Marks(s)

\* Those outside that are also outside of all brackets of s.
Top(s) ==
  LET free == Outside(s)
      Count(i, S) == Cardinality({j \in free : j < i /\ s[j] \in S})
  IN  {i \in free : Count(i, {"[", "{"}) = Count(i, {"]", "}"}) }

Spaces == {" ", "tab", "lf", "cr"} \cup {"bs", "ff", "ctl"}
Trim(s) ==
  LET solid == {i \in 1 .. Len(s) : s[i] \notin Spaces}
  IN  IF solid = {} THEN <<>>
      ELSE SubSeq(s, CHOOSE i \in solid : \A j \in solid : i <= j,
                     CHOOSE i \in solid : \A j \in solid : i >= j)

\* s cut at the symbol c.
RECURSIVE Split(_, _)
Split(s, c) ==
  LET cuts == {i \in Top(s) : s[i] = c}
  IN  IF cuts = {} THEN <<s>>
      ELSE LET i == CHOOSE i \in cuts : \A j \in cuts : i <= j
           IN  <<SubSeq(s, 1, i - 1)>> \o Split(SubSeq(s, i + 1, Len(s)), c)

Leaf(type, s) == [type |-> type, text |-> s, names |-> <<>>, members |-> <<>>]
NoValue == Leaf("none", <<>>)

\* What is denoted by an escape, given the symbol behind the backslash.  The
\* halves of a surrogate pair denote one symbol together.
Denotes ==
  Quote :> <<Quote>> @@ Backslash :> <<Backslash>> @@ "/" :> <<"/">>
    @@ "b" :> <<"bs">> @@ "f" :> <<"ff">> @@ "n" :> <<"lf">> @@ "r" :> <<"cr">>
    @@ "t" :> <<"tab">> @@ "u0041" :> <<"A">> @@ "uzzzz" :> <<NUL>>
    @@ "uD83D" :> <<"pair">> @@ "uDE00" :> <<>>

\* The escapes of s, each at its backslash.
EscapesOf(s) == {i \in Unescaped(s) : s[i] = Backslash}
Named(s, c) == {i \in EscapesOf(s) : i < Len(s) /\ s[i + 1] = c}

\* A string in its quotes, each of its escapes one that denotes something, and
\* its surrogates in pairs; and what it denotes.
GoodQuoted(s) ==
  /\ Len(s) >= 2 /\ Marks(s) = {1, Len(s)}
  /\ \A i \in EscapesOf(s) : s[i + 1] \in DOMAIN Denotes
  /\ Named(s, "uDE00") = {i + 2 : i \in Named(s, "uD83D")}
Unquoted(s) ==
  TextFrom([i \in 1 .. Len(s) |->
             IF i \in Marks(s) \/ i - 1 \in EscapesOf(s) THEN <<>>
             ELSE IF i \in EscapesOf(s) THEN Denotes[s[i + 1]] ELSE <<s[i]>>])[1]
IsNumeral(s) ==
  /\ \A i \in 1 .. Len(s) : s[i] = "7" \/ (i = 1 /\ s[i] = "-")
  /\ s # <<>> /\ s # <<"-">>

\* The value of s, within d brackets; NoValue if it has none.
RECURSIVE ValueOf(_, _)
ValueOf(t, d) ==
  LET s == Trim(t)
      inner == SubSeq(s, 2, Len(s) - 1)
      parts == IF Trim(inner) = <<>> THEN <<>> ELSE Split(inner, ",")
      array == s # <<>> /\ s[1] = "["
      pair(i) == Split(parts[i], ":")
      value(i) == ValueOf(IF array THEN parts[i] ELSE pair(i)[2], d + 1)
  IN  IF s \in {<<"null">>, <<"true">>, <<"false">>}
        THEN Leaf(CASE s[1] = "null" -> "NULL" [] s[1] = "true" -> "True"
                    [] OTHER -> "False", <<>>)
      ELSE IF IsNumeral(s) THEN Leaf("Number", s)
      ELSE IF GoodQuoted(s) THEN Leaf("String", Unquoted(s))
      ELSE IF /\ Len(s) >= 2 /\ d < NestingLimit
              /\ <<s[1], s[Len(s)]>> \in {<<"[", "]">>, <<"{", "}">>}
              /\ \A i \in 1 .. Len(parts) :
                   /\ array \/ (Len(pair(i)) = 2 /\ GoodQuoted(Trim(pair(i)[1])))
                   /\ value(i) # NoValue
        THEN [type |-> IF array THEN "Array" ELSE "Object", text |-> <<>>,
              names |-> [i \in 1 .. Len(parts) |->
                           IF array THEN NoString ELSE Unquoted(Trim(pair(i)[1]))],
              members |-> [i \in 1 .. Len(parts) |-> value(i)]]
      ELSE NoValue

\* The values that s begins with: nothing is asked of what follows one.
ValuesOf(s) ==
  LET t == IF Len(s) >= 2 /\ s[1] = "bom" THEN Tail(s) ELSE s
  IN  {ValueOf(SubSeq(t, 1, k), 0) : k \in 1 .. Len(t)} \ {NoValue}

\* The value that the items at p hold.
RECURSIVE TreeAt(_)
TreeAt(p) ==
  LET list[n \in DOMAIN item \cup {Null}] ==
        IF n = Null THEN <<>> ELSE <<n>> \o list[item[n].next]
      children == list[item[p].child]
  IN  [type |-> item[p].type,
       text |-> CASE item[p].type = "String" -> item[p].valuestring
                  [] item[p].type = "Number" -> item[p].number
                  [] OTHER -> <<>>,
       names |-> [i \in 1 .. Len(children) |-> item[children[i]].string],
       members |-> [i \in 1 .. Len(children) |-> TreeAt(children[i])]]

\* The parser accepts a text if and only if a text of the dialect begins it, and
\* makes the items of that text's value; only memory can keep it from doing so.
ParseRight ==
  /\ step = "done" => TreeAt(root) \in ValuesOf(CString(data))
  /\ step = "failed" /\ refused = 0 => ValuesOf(CString(data)) = {}

\* The member of an object that has a name, or a leaf of no type.
MemberOf(v, name) ==
  LET found == {i \in 1 .. Len(v.names) : SameName(name, v.names[i])}
  IN  IF found = {} THEN NoValue ELSE v.members[CHOOSE i \in found : \A j \in found : i <= j]

\* The command that a reply holds.
Told(s) ==
  LET commands ==
        {v \in ValuesOf(CString(s)) :
           /\ MemberOf(v, <<"cmd_id">>).type = "String"
           /\ MemberOf(MemberOf(v, <<"cmd">>), <<"cmd">>).type = "String"}
      v == CHOOSE v \in commands : TRUE
  IN  IF commands = {} THEN NoCommand
      ELSE [cmd_id |-> Copy(MemberOf(v, <<"cmd_id">>).text, MaxId),
            cmd |-> Copy(MemberOf(MemberOf(v, <<"cmd">>), <<"cmd">>).text, MaxName),
            has_command |-> TRUE]
ToldBy == [r \in Replies |-> Told(r)]

\* The command that is executed and reported is the one in the cloud's reply,
\* cut to the size of its fields: however the reply was cut into pieces, and
\* unless one of them was dropped for want of memory.
CommandAsTold == out.has_command /\ whole => out = ToldBy[reply]
=============================================================================
