----------------------------- MODULE MCServices -----------------------------
(* Two users, two numerics of ours, one channel and two interpreters.  The *)
(* lines are those a P10 server sends.                                     *)
EXTENDS Services

MCUser == {"U1", "U2", "M1", "M2"}
MCOwn == <<"M1", "M2">>
MCServer == {"S", "T", "AB", "AA"}
MCSnum == [n \in 0..4095 |-> IF n = 1 THEN "AB" ELSE "AA"]
MCNickOf == "ann" :> "U1" @@ "bob" :> "U2"
MCValueOf == "1" :> 1 @@ "5" :> 5 @@ "10" :> 10 @@ "20" :> 20
MCSpell ==
  "+i" :> <<"+", "i">> @@ "+or" :> <<"+", "o", "r">> @@ "+O" :> <<"+", "O">> @@ "-o" :> <<"-", "o">>
  @@ "+o" :> <<"+", "o">> @@ "+v" :> <<"+", "v">> @@ "+b" :> <<"+", "b">> @@ "-b+o" :> <<"-", "b", "+", "o">>
  @@ "+l" :> <<"+", "l">> @@ "-l" :> <<"-", "l">> @@ "+k" :> <<"+", "k">> @@ "-k" :> <<"-", "k">>
  @@ "+n" :> <<"+", "n">> @@ "-n" :> <<"-", "n">> @@ "bkl" :> <<"b", "k", "l">> @@ "ov" :> <<"o", "v">>
  @@ "+nl" :> <<"+", "n", "l">> @@ "+hn" :> <<"+", "h", "n">> @@ "+ho" :> <<"+", "h", "o">> @@ "+no" :> <<"+", "n", "o">>
MCMaskList == "%U2" :> {"U2"}   \* a mask can be read as a numeric
MCUserList == "U1:o,U2" :> <<[unum |-> "U1", status |-> {"o"}], [unum |-> "U2", status |-> None]>>
              @@ "U2" :> <<[unum |-> "U2", status |-> None]>>
MCStray == {"5", "text", "+O"}

MCCommandOf == "load a" :> <<"load", "a">> @@ "unload a" :> <<"unload", "a">>
               @@ "load b" :> <<"load", "b">> @@ "text" :> <<>>

Section(name) == [kind |-> "section", name |-> name]
Pair(key) == [kind |-> "pair", key |-> key, value |-> "1"]
Uplinked == <<Section("core.uplink"), Pair("host"), Pair("port"), Pair("pass")>>
MCConfigFile == {
  Uplinked \o <<Section("core.server"), Pair("numeric"), Pair("name"), Pair("description")>>,
  Uplinked \o <<Section("core.server"), Pair("name"), Pair("description")>>,
  Uplinked \o <<Section("core.server"), Pair("numeric"), [kind |-> "bare"]>>,
  Uplinked \o <<Section("core.server"), Pair("numeric"), Pair("name"), Section(""), Pair("description")>>}

L(from, token, words) == [from |-> from, token |-> token, words |-> words]
Greeting(from, numeric, prot, flags) ==
  L(from, "SERVER", <<"name", "1", "1", "1", prot, numeric, flags, "text">>)

Ack == L("S", "EOB_ACK", <<>>)
Greetings == {L(None, "PASS", <<"pass">>), Greeting(None, "S", "J10", "+hn"), L("S", "END_OF_BURST", <<>>)}
OperNames == Greeting(None, "S", "J10", "+no")
MCHandshake == Greetings \cup {Ack, OperNames}

Ann == L("S", "NICK", <<"ann", "1", "10", "id", "host", "+or", "acc", "acc", "ip", "U1", "text">>)
Status == Greetings \cup {
  L("S", "NICK", <<"ann", "1", "10", "id", "host", "+i", "ip", "U1", "text">>), Ann,
  L("S", "NICK", <<"bob", "1", "10", "id", "host", "ip", "U2", "text">>),
  L("U1", "MODE", <<"ann", "+O">>), L("U1", "MODE", <<"ann", "-o">>),
  L("S", "BURST", <<"#c", "20", "+nl", "5", "U1:o,U2", "%U2">>), L("S", "BURST", <<"#c", "20", "U2">>),
  L("U1", "MODE", <<"#c", "+o", "U2">>), L("U1", "MODE", <<"#c", "-o", "U1">>), L("U1", "MODE", <<"#c", "+v", "U2">>),
  L("U1", "MODE", <<"#c", "-b+o", "m", "U2">>), L("S", "OPMODE", <<"#c", "+o", "U1">>), L("S", "CLEARMODE", <<"#c", "ov">>),
  L("U2", "JOIN", <<"#c", "20">>), L("U2", "JOIN", <<"0">>), L("U1", "CREATE", <<"#c", "10">>),
  L("U1", "DESTRUCT", <<"#c", "20">>), L("U2", "PART", <<"#c", "bye">>), L("U1", "KICK", <<"#c", "U2", "odd bye">>),
  L("S", "ACCOUNT", <<"U1", "acc", "10">>), L("S", "ACCOUNT", <<"U1", "odd">>), L("S", "ACCOUNT", <<"U1", "R", "acc", "10">>)}

Modes == Greetings \cup {
  Ann, L("S", "BURST", <<"#c", "20", "+nl", "5", "U1:o,U2", "%U2">>),
  L("S", "BURST", <<"#c", "20", "%U2">>), L("S", "BURST", <<"#c", "20", "+n">>),
  L("U1", "MODE", <<"#c", "+l", "5">>), L("U1", "MODE", <<"#c", "-l">>), L("U1", "MODE", <<"#c", "-n">>), L("U1", "MODE", <<"#c", "+b", "U2">>),
  L("U1", "MODE", <<"#c", "+k", "key">>), L("U1", "MODE", <<"#c", "-k", "key">>),
  L("S", "MODE", <<"#c", "+l", "5", "10">>), L("S", "MODE", <<"#c", "+n", "20">>), L("S", "CLEARMODE", <<"#c", "bkl">>),
  L("U1", "JOIN", <<"#c", "20">>), L("U1", "CREATE", <<"#c", "10">>),
  L("S", "PING", <<"a", "b", "c">>), L("U1", "WALLOPS", <<"text">>), L("S", "SQUIT", <<"name", "10">>)}

Servers == MCHandshake \cup {
  Greeting("S", "T", "J10", "+hn"), Greeting("S", "T", "P10", "+ho"),
  L("T", "END_OF_BURST", <<>>), L("T", "EOB_ACK", <<>>), L("S", "ERROR", <<"text">>), Ann}

Commands == MCHandshake \cup {
  Ann, L("U1", "CREATE", <<"#c", "10">>), L("U1", "PART", <<"#c">>),
  L("U1", "PRIVMSG", <<"M1", "load a">>), L("U1", "PRIVMSG", <<"M1", "unload a">>),
  L("U1", "PRIVMSG", <<"M1", "load b">>), L("U1", "PRIVMSG", <<"M2", "text">>), L("U1", "PRIVMSG", <<"#c", "text">>), L("U1", "NOTICE", <<"M2", "text">>),
  L("U1", "QUIT", <<"bye">>), L("U1", "KILL", <<"M2", "text">>), L("S", "KILL", <<"M1", "text">>)}

MCTraffic == {Status \cup Modes, Servers, Commands}
MCLine == UNION MCTraffic

=============================================================================
