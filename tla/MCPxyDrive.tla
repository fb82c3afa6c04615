----------------------------- MODULE MCPxyDrive -----------------------------
(***************************************************************************)
(* The scripts and the proxies of the tutorial, and some beyond it: one    *)
(* that duplicates requests with and without their headers, and scripts    *)
(* that disrupt, repeat a name, wait for a name that is not there or do    *)
(* away with the proxy or start it again.                                  *)
(***************************************************************************)
EXTENDS PxyDrive

Message(full, line) == [kind |-> "request", id |-> full, response |-> full, required |-> full,
                        host |-> TRUE, term |-> TRUE, line |-> line]
Full == Message(TRUE, "get")
Stripped == Message(FALSE, "get")

ProxyRef == [messages |-> {Full}, bodies |-> {"same"}, forwards |-> 1,
             hangsUp |-> FALSE, crashes |-> FALSE, starts |-> {TRUE}]
ProxyCorrupt == [ProxyRef EXCEPT !.bodies = {"corrupt", "noheader"}]
ProxyStrip == [ProxyRef EXCEPT !.messages = {Stripped}]
ProxyOverrun == [ProxyRef EXCEPT !.messages = {Full, NoMessage}, !.crashes = TRUE,
                                  !.starts = BOOLEAN]
ProxyAny == [messages |-> {Full, Stripped, NoMessage}, bodies |-> {"same", "corrupt"},
             forwards |-> 2, hangsUp |-> TRUE, crashes |-> FALSE, starts |-> {TRUE}]

ProxyOdd == [ProxyRef EXCEPT !.messages =
  {Message(TRUE, line) : line \in {"post", "version", "1.1", "url", "malformed"}}
    \cup {[Full EXCEPT !.term = FALSE], [Full EXCEPT !.host = FALSE]}]

Request(r, fetch) == [cmd |-> "request", id |-> r, uri |-> "data1.txt", fetch |-> fetch]
Respond(r) == [cmd |-> "respond", id |-> r]
Wait(ids) == [cmd |-> "wait", ids |-> ids]
Check(r) == [cmd |-> "check", id |-> r]
Disrupt(what, who) == [cmd |-> "disrupt", what |-> what, who |-> who]
Proxy(path) == [cmd |-> "proxy", path |-> path]

S01 == <<Request("r1", TRUE), Wait({}), Check("r1")>>
S02 == <<Request("r1", FALSE), Wait({}), Respond("r1"), Wait({}), Check("r1")>>
Both == <<Request("r1", TRUE), Request("r2", TRUE), Wait({"r2"}), Check("r2")>>
Disrupted == <<Disrupt("request", "server"), Request("r1", TRUE), Wait({"r1"}),
               Disrupt("response", "client"), Request("r2", TRUE), Wait({"r2"}), Check("r2")>>
Restarted == <<Request("r1", FALSE), Request("r1", FALSE), Proxy(TRUE), Wait({"r1"}), Respond("r1"),
               Wait({"r1"}), Check("r1")>>

Lost == <<Disrupt("request", "client"), Request("r1", TRUE), Wait({"r2"})>>
Missing == <<[Request("r1", TRUE) EXCEPT !.uri = "nofile.txt"], Wait({}),
             Disrupt("none", "client"), Check("r1")>>
Misspelt == <<Request("r1", TRUE), Wait({"r1", "r2"}), Wait({}), Check("r1")>>
NoProxy == <<Request("r1", TRUE), Proxy(FALSE), Request("r2", TRUE), Wait({}), Check("r1")>>

Case(commands, habit) == [script |-> commands, proxy |-> habit]
MCCases ==
  {Case(S01, p) : p \in {ProxyCorrupt, ProxyOverrun, ProxyAny}}
    \cup {Case(S02, p) : p \in {ProxyRef, ProxyCorrupt, ProxyStrip, ProxyOverrun}}
    \cup {Case(S02, ProxyOdd), Case(Missing, ProxyRef), Case(Lost, ProxyRef),
          Case(Both, ProxyStrip)}
    \cup {Case(Misspelt, ProxyRef), Case(NoProxy, ProxyRef)}
    \cup {Case(Disrupted, p) : p \in {ProxyRef, ProxyStrip}}
    \cup {Case(Restarted, p) : p \in {ProxyRef, ProxyOverrun}}
=============================================================================
