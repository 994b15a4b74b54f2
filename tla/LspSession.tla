------------------------------ MODULE LspSession ------------------------------
(***************************************************************************)
(* What the language server promises its editor (zuit-lsp, src/lib.rs):    *)
(* messages are handled one by one in the order they were sent, none twice *)
(* and none that was not sent; each is answered as its method demands, and *)
(* the server ends at `exit`.  From a message that was badly framed on,    *)
(* messages may be passed over, and the server may end of itself.          *)
(***************************************************************************)
EXTENDS Naturals, Sequences

CONSTANTS
  Message,         \* [method, request, doc]: what an editor sends
  Replies(_, _),   \* the sequences of answers to the i-th message sent
  NoExit(_)        \* whether the server goes on after a message

VARIABLES
  pending,  \* [number, message, framed]: sent and not handled yet
  sent,     \* how many messages have been sent
  broken,   \* whether a badly framed one has been passed over
  gone,     \* whether the editor has left
  replies,  \* what the server has answered
  over      \* whether the server has ended

vars == <<pending, sent, broken, gone, replies, over>>

Init ==
  /\ pending = <<>> /\ sent = 0 /\ replies = <<>>
  /\ broken = FALSE /\ gone = FALSE /\ over = FALSE

Send(m, framed) ==
  /\ ~gone
  /\ sent' = sent + 1
  /\ pending' = Append(pending, [number |-> sent + 1, message |-> m, framed |-> framed])
  /\ UNCHANGED <<broken, gone, replies, over>>

Leave ==
  /\ gone' = TRUE
  /\ UNCHANGED <<pending, sent, broken, replies, over>>

\* The first message, or a later one if a badly framed one came before it.
Handle(i) ==
  /\ ~over
  /\ pending[i].framed
  /\ i > 1 => broken \/ \E j \in 1..i - 1 : ~pending[j].framed
  /\ broken' = (broken \/ i > 1)
  /\ pending' = SubSeq(pending, i + 1, Len(pending))
  /\ \E r \in Replies(pending[i].number, pending[i].message) : replies' = replies \o r
  /\ over' = ~NoExit(pending[i].message)
  /\ UNCHANGED <<sent, gone>>

\* An editor that has left cannot be answered; and what a badly framed message
\* leaves in the stream may be no text.
GiveUp ==
  /\ gone \/ broken \/ \E k \in 1..Len(pending) : ~pending[k].framed
  /\ over' = TRUE
  /\ UNCHANGED <<pending, sent, broken, gone, replies>>

Next ==
  \/ \E m \in Message, framed \in BOOLEAN : Send(m, framed)
  \/ Leave
  \/ \E i \in 1..Len(pending) : Handle(i)
  \/ GiveUp

Spec == Init /\ [][Next]_vars

===============================================================================
