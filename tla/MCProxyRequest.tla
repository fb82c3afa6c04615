--------------------------- MODULE MCProxyRequest ---------------------------
(***************************************************************************)
(* A small site for the proxy: a page that fits the cache, a program's     *)
(* output that does not, a page that is missing, and a host whose first    *)
(* address refuses the connection and whose second never answers.          *)
(***************************************************************************)
EXTENDS ProxyRequest, TLC

MCFiles == "/home.html" :> "static" @@ "/cgi-bin/adder" :> "cgi" @@ "/no" :> "missing"
MCPages == "/home.html" :> <<"home">> @@ "/cgi-bin/adder" :> <<"1+", "2", "=3">>

Uri(host, port, path) == [host |-> host, port |-> port, path |-> path]
MCUris == {Uri("tiny", "", ""), Uri("tiny", "8080", "/cgi-bin/adder"),
           Uri("tiny", "", "/no"), Uri("nop", "", "")}
MCHeaders == {<<"Host", "HOST">>}
MCLeftovers == {<<>>, <<"garbage">>}

MCAddresses == "tiny" :> <<"up">> @@ "nop" :> <<"down", "silent">>

(* A host both of whose addresses refuse the connection.                   *)
DownUris == {Uri("down", "", "")}
DownAddresses == "down" :> <<"down", "down">>
=============================================================================
