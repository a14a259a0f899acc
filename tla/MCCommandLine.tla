----------------------------- MODULE MCCommandLine -----------------------------
(***************************************************************************)
(* Command lines that differ from a good one in up to two places: a pair   *)
(* replaced, added or left out, or the last argument cut off.              *)
(***************************************************************************)
EXTENDS CommandLine, TLC

Flat(pairs) == [i \in 1..(2 * Len(pairs)) |-> pairs[(i + 1) \div 2][2 - (i % 2)]]

Edits(pairs, more) ==
  {pairs} \cup {[pairs EXCEPT ![i] = p] : i \in DOMAIN pairs, p \in more}
  \cup {Append(pairs, p) : p \in more} \cup {<<p>> \o pairs : p \in more}
  \cup {SubSeq(pairs, 1, i - 1) \o SubSeq(pairs, i + 1, Len(pairs)) : i \in DOMAIN pairs}

Twice(pairs, more) == UNION {Edits(e, more) : e \in Edits(pairs, more)}

WithCuts(lines) == lines \cup {SubSeq(l, 1, Len(l) - 1) : l \in {l \in lines : l # <<>>}}

ClientLine ==
  <<<<"-dn", "tcp">>, <<"-dp", "7000">>, <<"-da", "host">>, <<"-cn", "fixed">>, <<"-pn", "random">>>>
ClientMore ==
  {<<"-dn", "none">>, <<"-dn", "mine">>, <<"-dp", "wraps">>, <<"-dp", "-v">>, <<"-L", "dir">>,
   <<"-n", "2">>, <<"-n", "host">>, <<"/ptime", "7000">>, <<"-cmax", "2">>, <<"-cm", "2">>,
   <<"-v", "x">>, <<"word", "-dn">>}

ServerLine == <<<<"-rn", "ack">>, <<"-sn", "basic">>, <<"tcp", "7000">>>>
ServerMore ==
  {<<"udp", "7000">>, <<"none", "wraps">>, <<"tcp", "-5">>, <<"tcp", "host">>, <<"-L", "dir">>,
   <<"-s", "none">>, <<"-rn", "mine">>, <<"-x", "y">>, <<"-v", "x">>, <<"/r", "-sn">>}

MCLines ==
  [client |-> WithCuts({Flat(l) : l \in Twice(ClientLine, ClientMore)}) \cup {<<"/v">>, <<"-v">>},
   server |-> WithCuts({Flat(l) : l \in Twice(ServerLine, ServerMore)}) \cup {<<"-v">>}]

MCDashed ==
  {"-dn", "-dp", "-da", "-cn", "-pn", "-L", "-n", "/ptime", "-cmax", "-cm", "-v", "/v",
   "-rn", "-sn", "-5", "-s", "-x", "/r"}
MCMisspelt == {"-cm"}
MCSpelling == "/ptime" :> "-ptim" @@ "/v" :> "-v" @@ "-s" :> "-sn" @@ "/r" :> "-rn"
MCNumberOf == "7000" :> 7000 @@ "2" :> 2 @@ "-5" :> -5 @@ "wraps" :> 65536
MCInstalled ==
  {<<"protocol", "tcp">>, <<"protocol", "udp">>, <<"client", "fixed">>, <<"payload", "random">>,
   <<"server", "basic">>, <<"reply", "ack">>}
MCInLibDir == {<<"dir", "protocol", "mine">>, <<"dir", "reply", "mine">>}
=============================================================================
