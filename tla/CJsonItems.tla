----------------------------- MODULE CJsonItems -----------------------------
(***************************************************************************)
(* The items of cJSON.c as main/cloud_client.c uses them: allocation,      *)
(* deletion, the sibling lists (the head's prev is the tail) and lookup.   *)
(* An item owns its key and its string.  A text is a sequence of symbols;  *)
(* a symbol is a character or a run of ordinary characters, and "bad" is   *)
(* none: it stands for what is no text.                                    *)
(***************************************************************************)
EXTENDS Integers, Sequences, FiniteSets, Functions

CONSTANTS
  NestingLimit,  \* CJSON_NESTING_LIMIT
  MaxRefused     \* bound on the allocations refused within one call

ASSUME ItemsAssumption == NestingLimit \in Nat /\ MaxRefused \in Nat

VARIABLES
  item,      \* the items allocated
  strings,   \* how many strings are allocated
  refused,   \* how many allocations were refused
  root       \* the item that the running call has created or parsed

heap == <<item, strings, refused>>

Null == 0
NoString == <<"bad">>
NUL == "NUL"
Texts == Seq(STRING \ {"bad"})
Quote == "\""
Backslash == "\\"
Types == {"Invalid", "False", "True", "NULL", "Number", "String", "Array",
          "Object"}

NoItems == item = <<>> /\ strings = 0 /\ refused = 0 /\ root = Null

\* An allocation returns NULL.
Refuse ==
  /\ refused < MaxRefused
  /\ refused' = refused + 1

\* What a C function sees of a text: everything before the first NUL.
CString(s) ==
  SubSeq(s, 1, Cardinality({i \in 1 .. Len(s) : \A j \in 1 .. i : s[j] # NUL}))

-----------------------------------------------------------------------------
\* cJSON_New_Item: the address, and the zeroed item at it.
Fresh == CHOOSE n \in 1 .. Cardinality(DOMAIN item) + 1 : n \notin DOMAIN item
Blank == [type |-> "Invalid", valuestring |-> NoString, number |-> <<>>,
          string |-> NoString, child |-> Null, prev |-> Null, next |-> Null]
WithNew(new) == [n \in DOMAIN item \cup {Fresh} |->
                   IF n = Fresh THEN new ELSE item[n]]

\* What cJSON_Delete(p) walks over: p, its later siblings, and their children.
Owned(p) ==
  LET own[n \in DOMAIN item \cup {Null}] ==
        IF n = Null THEN {} ELSE {n} \cup own[item[n].next] \cup own[item[n].child]
  IN  own[p]

\* The strings that the items of a set own.
StringsOf(S) ==
  Cardinality({n \in S : item[n].valuestring # NoString})
    + Cardinality({n \in S : item[n].string # NoString})

Delete(p) ==
  /\ item' = Restrict(item, DOMAIN item \ Owned(p))
  /\ strings' = strings - StringsOf(Owned(p))

\* add_item_to_array: the tail is found as the head's prev.
Appended(parent, n) ==
  LET head == item[parent].child
      tail == item[head].prev
  IN  IF head = Null
        THEN [item EXCEPT ![parent].child = n, ![n].prev = n, ![n].next = Null]
        ELSE [item EXCEPT ![tail].next = n, ![n].prev = tail, ![head].prev = n]

-----------------------------------------------------------------------------
\* tolower, for the names that differ in it.
Lower(c) == CASE c = "CMD" -> "cmd" [] c = "CMD_ID" -> "cmd_id" [] OTHER -> c

\* case_insensitive_strcmp = 0, which no NULL equals.
SameName(s, t) ==
  /\ s # NoString /\ t # NoString
  /\ LET u == CString(s)
         v == CString(t)
     IN  /\ Len(u) = Len(v)
         /\ \A i \in 1 .. Len(u) : Lower(u[i]) = Lower(v[i])

\* cJSON_GetObjectItem: the first child of that name.
GetObjectItem(object, name) ==
  LET find[n \in DOMAIN item \cup {Null}] ==
        IF n = Null \/ SameName(name, item[n].string) THEN n
        ELSE find[item[n].next]
  IN  IF object = Null THEN Null ELSE find[item[object].child]

IsString(p) == p # Null /\ item[p].type = "String"
IsNull(p) == p # Null /\ item[p].type = "NULL"

-----------------------------------------------------------------------------
\* No pointer of an item leads to freed memory, every list can be walked back
\* the way it is walked, and a finished list leads to its tail: what every
\* append and every cJSON_Delete relies on.
ListsSound ==
  \A n \in DOMAIN item :
    /\ {item[n].child, item[n].prev, item[n].next} \subseteq DOMAIN item \cup {Null}
    /\ item[n].next # Null => item[item[n].next].prev = n
    /\ item[n].child # Null =>
         LET tail == item[item[n].child].prev
         IN  tail \in Owned(item[n].child) /\ item[tail].next = Null
=============================================================================
