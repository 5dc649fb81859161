---------------------------- MODULE CloudClient ----------------------------
(***************************************************************************)
(* main/cloud_client.c: one of its three calls after the other, each with  *)
(* the cJSON calls it makes, every allocation of which may be refused.  A  *)
(* command that was polled is reported next, as gateway_core_poll_now does.*)
(*                                                                         *)
(* The HTTP client and the cloud are external: a reply arrives in pieces,   *)
(* the transfer may break off at any point, and a piece that the handler   *)
(* had no memory for is gone.                                              *)
(***************************************************************************)
EXTENDS CJsonPrint, CJsonParse, StatusCodec, TLC

CONSTANTS
  Devices,      \* device records: ids, and the last packet they sent
  Replies,      \* what the cloud may answer to a poll
  Acks,         \* ... and to an upload or a report
  Messages,     \* the messages of gateway_core_poll_now
  Pieces,       \* the sizes a reply may arrive in
  FirstCap,     \* the response buffer's first capacity
  MaxId,        \* GATEWAY_CMD_ID_MAX_LEN
  MaxName       \* GATEWAY_CMD_NAME_MAX_LEN

ASSUME ClientAssumption ==
  /\ FirstCap \in Nat \ {0} /\ MaxId \in Nat \ {0} /\ MaxName \in Nat \ {0}
  /\ Pieces \subseteq Nat \ {0}
  /\ Replies \subseteq Seq(STRING) /\ Acks \subseteq Seq(STRING)
  /\ Messages \subseteq Texts
  /\ \A d \in Devices : {d.device_id, d.reg_code} \subseteq Texts /\ d.packet \in Seq(Byte)

VARIABLES
  pc,      \* where the running call is; "idle" between calls
  call,    \* which one it is
  arg,     \* the device, or the result that is reported
  fields,  \* what is still to be added to the body
  adding,  \* the item of the field that is being added
  sub,     \* the object inside the body
  body,    \* the printed body
  held,    \* url and HTTP client, while they exist
  rest,    \* what has not yet arrived of the reply
  data,    \* response.data
  cap,     \* response.cap
  piece,   \* evt->data_len while http_event_handler runs, or 0
  next,    \* next_cap
  reply,   \* what the cloud answered to the last poll
  whole,   \* no piece of that was dropped
  out      \* the command that was polled

locals == <<call, arg, fields, adding, sub>>
http == <<held, rest>>
response == <<data, cap, piece, next>>
polled == <<reply, whole, out>>
vars == <<heap, root, printer, parser, pc, locals, body, http, response, polled>>

NoCommand == [cmd_id |-> <<>>, cmd |-> <<>>, has_command |-> FALSE]

Init ==
  /\ NoItems /\ NoPrint /\ NoParse
  /\ pc = "idle" /\ call = "none" /\ arg = <<>> /\ fields = <<>>
  /\ adding = Null /\ sub = Null /\ body = NoString
  /\ held = {} /\ rest = <<>>
  /\ data = <<>> /\ cap = 0 /\ piece = 0 /\ next = 0
  /\ reply = <<>> /\ whole = TRUE /\ out = NoCommand

\* A call returns: its locals are gone; the heap is as it left it.
Return ==
  /\ pc' = "idle" /\ call' = "none" /\ arg' = <<>> /\ fields' = <<>>
  /\ adding' = Null /\ sub' = Null /\ rest' = <<>>
  /\ piece' = 0 /\ next' = 0 /\ refused' = 0

\* The command that was polled is dealt with, or there is none.
Forgets == reply' = <<>> /\ whole' = TRUE /\ out' = NoCommand

-----------------------------------------------------------------------------
(* The bodies *)

\* The shortest numeral of n / d, for d up to 100.
NumeralOf(n, d) ==
  LET abs == IF n < 0 THEN -n ELSE n
      r == abs % d
      tenth == (10 * r) \div d
      hundredth == (((10 * r) % d) * 10) \div d
  IN  (IF n < 0 THEN <<"-">> ELSE <<>>) \o <<ToString(abs \div d)>>
        \o (IF r = 0 THEN <<>> ELSE <<".", ToString(tenth)>>)
        \o (IF hundredth = 0 THEN <<>> ELSE <<ToString(hundredth)>>)

Field(to, key, type, value) == [to |-> to, key |-> <<key>>, type |-> type, value |-> value]
Text(to, key, value) == Field(to, key, "String", value)
Number(to, key, n, d) == Field(to, key, "Number", NumeralOf(n, d))
Bool(to, key, b) == Field(to, key, IF b THEN "True" ELSE "False", <<>>)

\* add_status_json
StatusFields(s) ==
  <<Number("sub", "temp_x10", s.temp_x10, 1), Number("sub", "temp_c", s.temp_x10, 10),
    Number("sub", "ph_x100", s.ph_x100, 1), Number("sub", "ph", s.ph_x100, 100),
    Bool("sub", "water_ok", s.water_ok), Bool("sub", "light", s.light),
    Bool("sub", "heater", s.heater), Bool("sub", "pump", s.pump),
    Text("sub", "ctrl_mode", IF s.ctrl_mode_auto THEN <<"AUTO">> ELSE <<"MANUAL">>),
    Bool("sub", "alarm_enable", s.alarm_enable), Number("sub", "seq", s.seq, 1)>>

UploadFields(d, s) ==
  <<Text("root", "gateway_id", <<"GW-1">>), Text("root", "device_id", d.device_id)>>
    \o (IF d.reg_code = <<>> THEN <<>> ELSE <<Text("root", "reg_code", d.reg_code)>>)
    \o <<Text("root", "device_type", <<"smart_reef_tank">>),
         Field("root", "status", "Object", <<>>)>>
    \o StatusFields(s) \o <<Number("root", "ts_ms", 7, 1)>>

ReportFields(r) ==
  <<Text("root", "cmd_id", r.cmd_id),
    Text("root", "status", IF r.success THEN <<"success">> ELSE <<"failed">>),
    Field("root", "result", "Object", <<>>), Text("sub", "message", r.message)>>

\* cloud_client_upload_status; a device whose packet the codec rejects has no
\* valid status, and nothing is uploaded of it.
Upload(d) ==
  /\ pc = "idle" /\ ~out.has_command
  /\ Accepts(d.packet)
  /\ pc' = "create" /\ call' = "upload" /\ arg' = d
  /\ fields' = UploadFields(d, ParsePacket(d.packet))
  /\ UNCHANGED <<heap, root, printer, parser, adding, sub, body, http, response, polled>>

\* cloud_client_report_command_result refuses an id without a symbol.
Report(success, message) ==
  /\ pc = "idle" /\ out.has_command
  /\ IF out.cmd_id = <<>>
       THEN Forgets /\ UNCHANGED <<pc, call, arg, fields>>
       ELSE /\ pc' = "create" /\ call' = "report"
            /\ arg' = [cmd_id |-> out.cmd_id, success |-> success, message |-> message]
            /\ fields' = ReportFields(arg')
            /\ UNCHANGED polled
  /\ UNCHANGED <<heap, root, printer, parser, adding, sub, body, http, response>>

\* cJSON_CreateObject
CreateRoot ==
  /\ pc = "create" /\ pc' = "item"
  /\ \/ /\ item' = WithNew([Blank EXCEPT !.type = "Object"]) /\ root' = Fresh
        /\ UNCHANGED refused
     \/ Refuse /\ UNCHANGED <<item, root>>
  /\ UNCHANGED <<strings, printer, parser, locals, body, http, response, polled>>

-----------------------------------------------------------------------------
(* cJSON_AddStringToObject, _AddNumber, _AddBool, _AddObject: an item is     *)
(* created, its string copied, its key copied, and it joins its parent.     *)

This == Head(fields)
Parent == IF This.to = "root" THEN root ELSE sub

\* The field is through, added or not; an object is where sub points from now.
NextField(p) ==
  /\ fields' = Tail(fields) /\ adding' = Null
  /\ sub' = IF This.type = "Object" THEN p ELSE sub
  /\ pc' = IF Tail(fields) = <<>> THEN "print" ELSE "item"

AddItem ==
  /\ pc = "item"
  /\ item' = WithNew([Blank EXCEPT !.type = This.type,
                        !.number = IF This.type = "Number" THEN This.value ELSE <<>>])
  /\ adding' = Fresh
  /\ pc' = IF This.type = "String" THEN "value" ELSE "key"
  /\ UNCHANGED <<strings, refused, root, printer, parser, call, arg, fields, sub, body,
                 http, response, polled>>

AddValue ==
  /\ pc = "value"
  /\ item' = [item EXCEPT ![adding].valuestring = This.value]
  /\ strings' = strings + 1
  /\ pc' = "key"
  /\ UNCHANGED <<refused, root, printer, parser, locals, body, http, response, polled>>

\* add_item_to_object
AddKey ==
  /\ pc = "key" /\ Parent # Null
  /\ item' = [Appended(Parent, adding) EXCEPT ![adding].string = This.key]
  /\ strings' = strings + 1
  /\ NextField(adding)
  /\ UNCHANGED <<refused, root, printer, parser, call, arg, body, http, response, polled>>

\* Mutant: an item that could not be added is forgotten.
AddDropLeaky ==
  /\ pc \in {"item", "value", "key"}
  /\ IF pc = "key" /\ Parent = Null THEN UNCHANGED refused ELSE Refuse
  /\ NextField(Null)
  /\ UNCHANGED <<item, strings, root, printer, parser, call, arg, body, http, response,
                 polled>>

\* No memory for item, string or key, or no parent: the item is deleted, and
\* nobody is told.
AddDrop ==
  /\ pc \in {"item", "value", "key"}
  /\ IF pc = "key" /\ Parent = Null THEN UNCHANGED refused ELSE Refuse
  /\ Delete(adding)
  /\ NextField(Null)
  /\ UNCHANGED <<root, printer, parser, call, arg, body, http, response, polled>>

\* cJSON_PrintUnformatted, then cJSON_Delete(root)
PrintBody ==
  /\ pc = "print"
  /\ PrintStart \/ PrintStep
  /\ UNCHANGED <<parser, pc, locals, body, http, response, polled>>

PrintDone ==
  /\ pc = "print" /\ mode \in {"printed", "failed"}
  /\ mode' = "off" /\ text' = <<>> /\ offset' = 0 /\ length' = 0
  /\ Delete(root) /\ root' = Null
  /\ pc' = IF mode = "printed" THEN "url" ELSE "failed"
  /\ body' = IF mode = "printed" THEN CString(text) ELSE NoString
  /\ UNCHANGED <<refused, copied, stack, parser, locals, http, response, polled>>

-----------------------------------------------------------------------------
(* perform_request *)

\* cloud_client_poll_command
Poll ==
  /\ pc = "idle" /\ ~out.has_command
  /\ pc' = "url" /\ call' = "poll" /\ reply' = <<>>
  /\ UNCHANGED <<heap, root, printer, parser, arg, fields, adding, sub, body, http,
                 response, whole, out>>

\* build_url; esp_http_client_init
RequestBegins ==
  /\ \/ pc = "url" /\ pc' = "client" /\ held' = {"url"}
     \/ pc = "client" /\ pc' = "perform" /\ held' = held \cup {"client"}
  /\ UNCHANGED <<heap, root, printer, parser, locals, body, rest, response, polled>>

RequestNoMemory ==
  /\ pc \in {"url", "client"} /\ Refuse
  /\ pc' = "failed" /\ held' = {}
  /\ UNCHANGED <<item, strings, root, printer, parser, locals, body, rest,
                 response, polled>>

\* The cloud answers.
Answer(r) ==
  /\ pc = "perform"
  /\ pc' = "receive" /\ rest' = r
  /\ reply' = IF call = "poll" THEN r ELSE reply
  /\ UNCHANGED <<heap, root, printer, parser, locals, body, held, response, whole, out>>

Arrive(n) ==
  /\ pc = "receive" /\ piece = 0 /\ rest # <<>>
  /\ piece' = IF n < Len(rest) THEN n ELSE Len(rest)
  /\ UNCHANGED <<heap, root, printer, parser, pc, locals, body, http, data, cap, next,
                 polled>>

-----------------------------------------------------------------------------
(* http_event_handler *)

\* Mutant: no room for the NUL.
NeededBare == Len(data) + piece

NeededRoom == Len(data) + piece + 1

\* Mutant: every piece is copied to the buffer's beginning.
TakeOver ==
  /\ data' = SubSeq(rest, 1, piece)
  /\ rest' = SubSeq(rest, piece + 1, Len(rest))
  /\ piece' = 0

\* The piece is copied behind what is there, and ended by a NUL.
Take ==
  /\ data' = data \o SubSeq(rest, 1, piece)
  /\ rest' = SubSeq(rest, piece + 1, Len(rest))
  /\ piece' = 0

Store ==
  /\ piece > 0 /\ NeededRoom <= cap
  /\ Take
  /\ UNCHANGED <<heap, root, printer, parser, pc, locals, body, held, cap, next,
                 polled>>

\* Mutant: what was doubled is doubled anew.
GrowOnce ==
  /\ piece > 0 /\ NeededRoom > cap /\ next < NeededRoom
  /\ next' = IF cap = 0 THEN FirstCap ELSE cap * 2
  /\ UNCHANGED <<heap, root, printer, parser, pc, locals, body, http, data, cap, piece,
                 polled>>

\* The capacity is doubled until it is enough, ...
Grow ==
  /\ piece > 0 /\ NeededRoom > cap /\ next < NeededRoom
  /\ next' = IF next > 0 THEN next * 2 ELSE IF cap = 0 THEN FirstCap ELSE cap * 2
  /\ UNCHANGED <<heap, root, printer, parser, pc, locals, body, http, data, cap, piece,
                 polled>>

\* ... and the buffer reallocated; ...
GrowStore ==
  /\ piece > 0 /\ NeededRoom > cap /\ next >= NeededRoom
  /\ cap' = next /\ next' = 0
  /\ Take
  /\ UNCHANGED <<heap, root, printer, parser, pc, locals, body, held, polled>>

\* ... or the piece is dropped, and the client goes on.
Drop ==
  /\ piece > 0 /\ NeededRoom > cap /\ next >= NeededRoom
  /\ Refuse
  /\ next' = 0 /\ piece' = 0 /\ whole' = (whole /\ call # "poll")
  /\ rest' = SubSeq(rest, piece + 1, Len(rest))
  /\ UNCHANGED <<item, strings, root, printer, parser, pc, locals, body, held, data, cap,
                 reply, out>>

\* esp_http_client_perform returns: the reply is complete, or it broke off.
PerformEnds ==
  /\ pc = "perform" \/ (pc = "receive" /\ piece = 0)
  /\ held' = {}
  /\ \/ pc' = "failed"
     \/ pc = "receive" /\ rest = <<>> /\ pc' = "answered"
  /\ UNCHANGED <<heap, root, printer, parser, locals, body, rest, response, polled>>

-----------------------------------------------------------------------------
(* The calls end. *)

\* What the call still has is freed, and it returns.
Ends ==
  /\ data' = <<>> /\ cap' = 0 /\ body' = NoString
  /\ Return

\* The call has failed, an upload or a report was answered, or a poll was and
\* there is no data.
CallEnds ==
  /\ pc = "failed" \/ (pc = "answered" /\ (call # "poll" \/ data = <<>>))
  /\ Ends /\ Forgets
  /\ UNCHANGED <<item, strings, root, printer, parser, held>>

\* cJSON_Parse(response.data)
PollAnswered ==
  /\ pc = "answered" /\ call = "poll" /\ data # <<>>
  /\ ParseStart(data)
  /\ pc' = "parse"
  /\ UNCHANGED <<printer, locals, body, http, response, polled>>

ParseBody ==
  /\ pc = "parse" /\ ParseStep
  /\ UNCHANGED <<printer, pc, locals, body, http, response, polled>>

ParseEnds ==
  step' = "off" /\ content' = <<>> /\ pos' = 0 /\ at' = Null /\ frames' = <<>>

PollRefused ==
  /\ pc = "parse" /\ step = "failed"
  /\ ParseEnds /\ Ends /\ Forgets
  /\ UNCHANGED <<item, strings, root, printer, held>>

\* Mutant: strncpy to n bytes, which leaves no NUL.
CopyFull(s, n) ==
  LET c == CString(s) IN IF Len(c) <= n THEN c ELSE SubSeq(c, 1, n)

\* strlcpy to n bytes.
Copy(s, n) ==
  LET c == CString(s) IN IF Len(c) < n THEN c ELSE SubSeq(c, 1, n - 1)

\* The command in the reply; there is none if "cmd" is missing or null, and
\* none is made of an answer with other types.
Extracted ==
  LET cmd == GetObjectItem(root, <<"cmd">>)
      cmd_id == GetObjectItem(root, <<"cmd_id">>)
      name == GetObjectItem(cmd, <<"cmd">>)
  IN  IF cmd = Null \/ IsNull(cmd) \/ ~IsString(cmd_id) \/ ~IsString(name) THEN NoCommand
      ELSE [cmd_id |-> Copy(item[cmd_id].valuestring, MaxId),
            cmd |-> Copy(item[name].valuestring, MaxName), has_command |-> TRUE]

PollParsed ==
  /\ pc = "parse" /\ step = "done"
  /\ IF Extracted.has_command THEN out' = Extracted /\ UNCHANGED <<reply, whole>>
                              ELSE Forgets
  /\ Delete(root) /\ root' = Null
  /\ ParseEnds /\ Ends
  /\ UNCHANGED <<printer, held>>

-----------------------------------------------------------------------------
CallStep ==
  \/ CreateRoot \/ AddItem \/ AddValue \/ AddKey \/ AddDrop \/ PrintBody \/ PrintDone
  \/ RequestBegins \/ RequestNoMemory
  \/ (\E r \in IF call = "poll" THEN Replies ELSE Acks : Answer(r))
  \/ (\E n \in Pieces : Arrive(n)) \/ Store \/ Grow \/ GrowStore \/ Drop
  \/ PerformEnds \/ CallEnds \/ PollAnswered \/ ParseBody \/ PollRefused \/ PollParsed

Next ==
  \/ Poll \/ (\E d \in Devices : Upload(d))
  \/ (\E success \in BOOLEAN, m \in Messages : Report(success, m))
  \/ CallStep

Spec == Init /\ [][Next]_vars

\* A call that has begun goes on; the HTTP client has a timeout.  No call need
\* be made.
FairSpec == Spec /\ WF_vars(CallStep)

-----------------------------------------------------------------------------
(* Properties. *)

\* The variables have their types; the piece that is handled is one of the
\* reply, and the polled texts fit gateway_command_t's fields with their NUL.
TypeOK ==
  /\ pc \in {"idle", "create", "item", "value", "key", "print", "url", "client",
             "perform", "receive", "answered", "parse", "failed"}
  /\ call \in {"none", "upload", "report", "poll"}
  /\ refused \in 0 .. MaxRefused /\ strings \in Nat
  /\ data \in Seq(STRING) /\ rest \in Seq(STRING)
  /\ {cap, next} \subseteq Nat /\ piece \in 0 .. Len(rest)
  /\ whole \in BOOLEAN /\ out.has_command \in BOOLEAN
  /\ Len(out.cmd_id) < MaxId /\ Len(out.cmd) < MaxName

\* A reply never goes beyond its buffer, its NUL included.
ResponseInBounds == IF cap = 0 THEN data = <<>> ELSE Len(data) < cap

\* What has been kept of a reply and what is still to come of it are the reply, in
\* its order, and what is parsed is all of it, unless memory for a piece was
\* refused: however it was cut, and however the buffer grew meanwhile.
ReplyInOrder ==
  call = "poll" /\ whole =>
    /\ pc = "receive" => data \o rest = reply
    /\ pc \in {"answered", "parse"} => data = reply

\* When a call returns, by whatever way and whichever allocation was refused,
\* it has freed every item, every string, the printed body, the URL, the
\* client and the response, and none of them twice.
NothingLeft ==
  pc = "idle" =>
    /\ item = <<>> /\ strings = 0
    /\ body = NoString /\ held = {} /\ cap = 0 /\ length = 0

\* Every call ends, whatever text arrives: no loop of the parser, the printer
\* or the growing buffer runs for ever.
CallsEnd == pc # "idle" ~> pc = "idle"

=============================================================================
