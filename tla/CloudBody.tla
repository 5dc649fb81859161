----------------------------- MODULE CloudBody ------------------------------
(***************************************************************************)
(* What the bodies that CloudClient sends should say: the JSON text of a   *)
(* list of fields, of which some are lost, defined by what it consists of  *)
(* and not by a printer that goes through items.                           *)
(***************************************************************************)
EXTENDS CloudClient

MaxUint16 == 65535
Numerals == {ToString(n) : n \in 0 .. MaxUint16}

\* Ids and messages are C strings, a device sends what it measures, and no
\* numeral is a NUL.
ASSUME BodyAssumption ==
  /\ \A m \in Messages : NoNUL(m)
  /\ \A d \in Devices : /\ NoNUL(d.device_id) /\ NoNUL(d.reg_code) /\ d.measured \in Status
                        /\ Accepts(d.packet) => d.packet = Packet(d.measured)
  /\ NUL \notin Numerals

\* A field with its key; inner is the text of the inner object.
Member(f, inner) ==
  InQuotes(f.key) \o <<":">> \o
    CASE f.type = "String" -> InQuotes(f.value)
      [] f.type = "Number" -> f.value
      [] f.type = "True" -> <<"true">>
      [] f.type = "False" -> <<"false">>
      [] OTHER -> inner

\* The members of one object, with a comma between any two.
MembersOf(fs, lost, to, inner) ==
  LET there == {i \in 1 .. Len(fs) : fs[i].to = to} \ lost
      comma(i) == IF \E j \in there : j > i THEN <<",">> ELSE <<>>
  IN  [i \in 1 .. Len(fs) |-> IF i \in there THEN Member(fs[i], inner) \o comma(i) ELSE <<>>]

\* The text of an object with these fields, those of its inner object included,
\* but for the lost ones.
ObjectText(fs, lost) ==
  LET object(to, inner) == <<"{">> \o TextFrom(MembersOf(fs, lost, to, inner))[1] \o <<"}">>
  IN  object("root", object("sub", <<>>))

\* The body of an upload is the JSON text of what the device measured, and that
\* of a report the text of the result: every field that is there is right and
\* in its place, and a refused allocation costs at most one of them (if it is
\* the inner object, with all that was to go into it).
BodyRight ==
  body # NoString =>
    LET all == IF call = "upload" THEN UploadFields(arg, arg.measured) ELSE ReportFields(arg)
    IN  \E lost \in [1 .. refused -> 0 .. Len(all)] :
          body = ObjectText(all, {lost[k] : k \in 1 .. refused})
=============================================================================
