--------------------------- MODULE MCCloudClient ---------------------------
(* Small instances of CloudClient. *)
EXTENDS CloudContent

Measured == [temp_x10 |-> -4, ph_x100 |-> 805, water_ok |-> TRUE, light |-> FALSE,
             heater |-> TRUE, pump |-> FALSE, ctrl_mode_auto |-> TRUE,
             alarm_enable |-> FALSE, seq |-> 255]
Device(id, code, s, packet) ==
  [device_id |-> id, reg_code |-> code, device_type |-> <<"smart_reef_tank">>,
   measured |-> s, packet |-> packet]
DevicesMC ==
  {Device(<<"SR-1">>, <<>>, Measured, Packet(Measured)),
   Device(<<"ctl", "lf", Quote>>, <<"R1">>,
          [Measured EXCEPT !.temp_x10 = 250, !.ph_x100 = 820, !.light = TRUE],
          Packet([Measured EXCEPT !.temp_x10 = 250, !.ph_x100 = 820, !.light = TRUE])),
   Device([i \in 1 .. 60 |-> "long"], <<>>, Measured, Packet(Measured)),
   Device(<<"SR-2">>, <<>>, Measured, <<83, 2, 0, 0, 0, 0, 0, 0, 0, 0, 0>>)}

Str(s) == <<Quote>> \o s \o <<Quote>>
Pair(name, value) == Str(name) \o <<":">> \o value
Obj(members) == <<"{">> \o members \o <<"}">>
CmdOf(name) == Pair(<<"cmd">>, Obj(Pair(<<"cmd">>, Str(name))))
IdOf(id) == Pair(<<"cmd_id">>, Str(id))
Command(id, name) == Obj(IdOf(id) \o <<",">> \o CmdOf(name))

Without(s, i) == SubSeq(s, 1, i - 1) \o SubSeq(s, i + 1, Len(s))
Insert(s, i, c) == SubSeq(s, 1, i) \o <<c>> \o SubSeq(s, i + 1, Len(s))

Plain1 == Command(<<"i1">>, <<"light_on">>)
Edited ==
  {Without(Plain1, i) : i \in 1 .. Len(Plain1)}
    \cup {Insert(Plain1, i, c) : i \in 0 .. Len(Plain1), c \in {" ", ",", Quote, NUL}}
Chosen ==
  {Plain1, <<"bom">> \o Plain1,
   Command(<<>>, <<"light_on">>), Command(<<"i1", "i2", "i3">>, <<"a", "b", "c", "d">>),
   Command(<<Backslash, "u0041", Backslash, "n">>, <<Backslash, "uzzzz", "x">>),
   Command(<<Backslash, "uD83D", Backslash, "uDE00">>, <<Backslash, Quote>>),
   Command(<<Backslash, "uD83D", "x">>, <<"light_on">>),
   Command(<<Backslash, "x">>, <<"light_on">>),
   Command(<<Backslash, "t", Backslash, "/">>, <<Backslash, "b", Backslash, "f">>),
   <<"tab">> \o Command(<<"lf", Backslash, "r">>, <<"tab">>) \o <<"ctl">>,
   Command(<<Backslash, "uDE00">>, <<"light_on">>),
   Command(<<Backslash, "uDE00", Backslash, "uD83D">>, <<"light_on">>),
   Command(<<Backslash, Backslash, "uD83D">>, <<Backslash, Backslash, Backslash, Quote>>),
   Obj(CmdOf(<<"x">>) \o <<",">> \o IdOf(<<"i1">>) \o <<",">> \o IdOf(<<"i2">>)),
   Obj(Pair(<<"CMD_ID">>, Str(<<"i1">>)) \o <<",">> \o Pair(<<"CMD", Backslash, "uzzzz", "x">>,
         Obj(Pair(<<"CMD">>, Str(<<"x">>))))),
   Obj(Pair(<<"cmd">>, <<"null">>)), Obj(Pair(<<"cmd">>, Str(<<"x">>))),
   Obj(IdOf(<<"i1">>) \o <<",">> \o Pair(<<"cmd">>, <<"true">>)),
   Obj(Pair(<<"cmd_id">>, <<"-", "7">>) \o <<",">> \o CmdOf(<<"x">>)),
   Obj(Pair(<<"cmd">>, <<"[", "{", "}", ",", "[", "7", "]", "]">>)),
   <<"[", "7", ",", "7", "]", " ">> \o Plain1,
   [i \in 1 .. 6 |-> IF i <= 3 THEN "[" ELSE "]"], [i \in 1 .. 8 |-> IF i <= 4 THEN "[" ELSE "]"],
   <<"{", "bad">>, <<Quote, Backslash>>, <<Quote, Backslash, Quote>>}
Short == UNION {[1 .. n -> {"[", "]", "7", ",", "false"}] : n \in 0 .. 3}
           \cup [1 .. 4 -> {"[", "]", "{", "}"}] \cup [1 .. 3 -> {"-", "7", " ", "bom"}]
RepliesMC == Edited \cup Chosen \cup Short
AcksMC == {<<>>, <<"{", "}">>}
MessagesMC == {<<"Unsupported command">>, <<>>}
=============================================================================
