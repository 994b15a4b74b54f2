------------------------------ MODULE MCLspServer -----------------------------
(* A small editor and two files for the language server.                   *)
EXTENDS LspServer

CONSTANTS d, e

Sends(method, request, doc) == [method |-> method, request |-> request, doc |-> doc]

\* Every method well framed, a request framed in every way, and invalid JSON or
\* UTF-8 as well.
MCTraffic ==
  {[message |-> m, shape |-> "plain"] : m \in
     {Sends("initialize", TRUE, NoDoc), Sends("initialized", FALSE, NoDoc),
      Sends("document", FALSE, d), Sends("document", FALSE, e),
      Sends("document", FALSE, NoDoc), Sends("other", FALSE, NoDoc),
      Sends("exit", FALSE, NoDoc)}}
  \cup {[message |-> Sends("other", TRUE, NoDoc), shape |-> s] : s \in Shapes}
  \cup {[message |-> Sends("invalid", FALSE, NoDoc), shape |-> s] :
          s \in {"plain", "missing"}}

\* The change to the one file removes it.
MCMissing == {<<d, 1>>}

===============================================================================
