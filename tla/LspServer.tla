------------------------------- MODULE LspServer ------------------------------
(***************************************************************************)
(* The language server (zuit-lsp, src/lib.rs and src/protocol.rs) and the  *)
(* stream it shares with an editor.  The server reads header lines up to a *)
(* blank one and then as many bytes as Content-Length says, handles the    *)
(* message and answers it, one at a time.  Editors may frame a message     *)
(* badly, and may leave at any time, also in the middle of a message.      *)
(*                                                                         *)
(* A body of Size units has no line end of its own, as editors send it; a  *)
(* message whose JSON or UTF-8 is bad is one of method "invalid", and a    *)
(* unit of a body may end within a character.  The answers are never held  *)
(* up.                                                                     *)
(***************************************************************************)
EXTENDS Integers, Sequences

CONSTANTS
  Doc,       \* documents whose URI is a file's
  Escaped,   \* those of them whose URI has percent escapes
  Missing,   \* <<document, edition>>: when its file is not there or not readable
  NoDoc,     \* no document, or one that has no file
  Traffic,   \* [message, shape]: what the editor may send, see Header
  Size,      \* units of a body
  MaxLength, \* MAX_CONTENT_LENGTH
  MaxSends,  \* bound: messages
  MaxEdits   \* bound: changes to a file

VARIABLES
  wire,    \* what the editor has written and the server not yet read
  gone,    \* whether the editor has left
  sent,    \* history: the messages sent, each with how it was framed and the
           \* edition its document had then
  pc,      \* where the server is
  length,  \* content_length: what the headers have said so far
  reading, \* the message that is handled
  report,  \* the edition of its document that was analysed
  replies, \* what the server has answered
  done,    \* history: the last message handled
  edition  \* per document: changes to its file

vars == <<wire, gone, sent, pc, length, reading, report, replies, done, edition>>

None == -1     \* no Content-Length yet
Wrong == -2    \* a Content-Length that is no number

Methods == {"initialize", "initialized", "document", "shutdown", "exit", "other", "invalid"}

Shapes  == {"plain", "typed", "trailed", "missing", "wrong", "huge", "short", "long"}

ASSUME LspConstants ==
  /\ NoDoc \notin Doc /\ Escaped \subseteq Doc
  /\ Missing \subseteq Doc \X (0..MaxEdits)
  /\ Traffic \subseteq
       [message : [method : Methods, request : BOOLEAN, doc : Doc \cup {NoDoc}],
        shape : Shapes]
  /\ Size \in Nat \ {0} /\ MaxLength \in Nat /\ MaxLength > Size
  /\ MaxSends \in Nat /\ MaxEdits \in Nat

-----------------------------------------------------------------------------
(* The stream.  A unit is a piece of a line or of a body, or a line's end. *)

Message == {t.message : t \in Traffic}

Unit(is, n, at) == [is |-> is, n |-> n, at |-> at]
End    == Unit("end", 0, 0)
Other  == <<Unit("other", 0, 0), End>>          \* Content-Type and the like
Says(n) == <<Unit("length", n, 0), End>>        \* Content-Length: n

\* The header lines: as they should be, Content-Length alone, after or before
\* another one; or with a length that is missing, not a number, over the cap,
\* too small or too large.
Header(shape) ==
  CASE shape = "plain"   -> Says(Size)
    [] shape = "typed"   -> Other \o Says(Size)
    [] shape = "trailed" -> Says(Size) \o Other
    [] shape = "missing" -> Other
    [] shape = "wrong"   -> Says(Wrong)
    [] shape = "huge"    -> Says(MaxLength + 1)
    [] shape = "short"   -> Says(Size - 1)
    [] shape = "long"    -> Says(Size + 1)

Framed(shape) == shape \in {"plain", "typed", "trailed"}

Body(i) == [k \in 1..Size |-> Unit("part", i, k)]

\* write_message, as the editor does it, too.
Frame(i, shape) == Header(shape) \o <<End>> \o Body(i)

-----------------------------------------------------------------------------
(* The editor.                                                             *)

EditionOf(m) == IF m.doc \in Doc THEN edition[m.doc] ELSE 0

Send(t) ==
  /\ ~gone /\ Len(sent) < MaxSends
  /\ wire' = wire \o Frame(Len(sent) + 1, t.shape)
  /\ sent' = Append(sent, [message |-> t.message, framed |-> Framed(t.shape),
                           edition |-> EditionOf(t.message)])
  /\ UNCHANGED <<gone, pc, length, reading, report, replies, done, edition>>

\* The editor leaves, and the first cut units of a message may be the last
\* that is heard of it.
Leave(cut) ==
  /\ ~gone
  /\ gone' = TRUE
  /\ wire' = wire \o SubSeq(Frame(Len(sent) + 1, "plain"), 1, cut)
  /\ UNCHANGED <<sent, pc, length, reading, report, replies, done, edition>>

\* The file of a document whose URI has escapes is never looked at.
Edit(d) ==
  /\ edition[d] < MaxEdits
  /\ edition' = [edition EXCEPT ![d] = @ + 1]
  /\ UNCHANGED <<wire, gone, sent, pc, length, reading, report, replies, done>>

-----------------------------------------------------------------------------
(* The server.                                                             *)

\* BufRead::read_line: up to a line end, or to the end of the stream.
Ends == {k \in 1..Len(wire) : wire[k] = End}
LineEnd ==
  IF Ends # {} THEN CHOOSE k \in Ends : \A j \in Ends : k <= j ELSE Len(wire)

Rest(k) == SubSeq(wire, k + 1, Len(wire))

Server == <<gone, sent, edition>>   \* what the server leaves alone

\* A protocol error is logged, and the next message is looked for from here.
ProtocolError ==
  /\ length' = None
  /\ UNCHANGED <<pc, reading, report, replies, done>>

\* Mutant: no cap.
AcceptableAny == length # None

Acceptable == length # None /\ length <= MaxLength

\* Whether the next line may be something else than UTF-8: it begins with a piece
\* of a body that is not whole, or whose own UTF-8 may be bad.
Garbled ==
  LET parts == {k \in 1..LineEnd : wire[k].is = "part"}
      whole == {wire[k].at : k \in parts} = 1..Size
  IN  parts # {} /\ ~(whole /\ sent[wire[1].n].message.method # "invalid")

\* A line that is not UTF-8 is an I/O error, which ends the server.
ReadHeader ==
  /\ pc = "headers"
  /\ Ends # {} \/ (gone /\ wire # <<>>)
  /\ wire' = Rest(LineEnd)
  /\ LET first == wire[1]
     IN \/ /\ first = End
           /\ IF Acceptable
                THEN pc' = "body" /\ UNCHANGED <<length, reading, report, replies, done>>
                ELSE ProtocolError
        \/ /\ first.is = "length"
           /\ IF first.n = Wrong
                THEN ProtocolError
                ELSE length' = first.n /\ UNCHANGED <<pc, reading, report, replies, done>>
        \/ /\ first.is \in {"other", "part"}
           /\ UNCHANGED <<pc, length, reading, report, replies, done>>
        \/ /\ first.is = "part" /\ Garbled
           /\ pc' = "ended"
           /\ UNCHANGED <<length, reading, report, replies, done>>
  /\ UNCHANGED Server

\* At the end of the stream the loop goes round for ever.
HeaderEof ==
  /\ pc = "headers" /\ gone /\ wire = <<>>
  /\ ProtocolError
  /\ UNCHANGED <<wire, Server>>

\* Mutant: a new BufReader for every message, which loses what it has buffered.
AfterBodyRewrapped == <<>>

AfterBody == Rest(length)

\* read_exact, then parse_request.
ReadBody ==
  /\ pc = "body" /\ Len(wire) >= length
  /\ wire' = AfterBody
  /\ length' = None
  /\ LET body == SubSeq(wire, 1, length)
         whole == {i \in 1..Len(sent) : body = Body(i)}
     IN \/ \E i \in whole :
             /\ sent[i].message.method # "invalid"
             /\ reading' = i /\ pc' = "handle"
             /\ UNCHANGED done
        \/ \E i \in whole :
             /\ sent[i].message.method = "invalid"
             /\ done' = i /\ pc' = "headers"
             /\ UNCHANGED reading
        \/ /\ whole = {}
           /\ pc' = "headers"
           /\ UNCHANGED <<reading, done>>
  /\ UNCHANGED <<report, replies, Server>>

\* The end of the stream in a body is an I/O error: the server ends.
BodyEof ==
  /\ pc = "body" /\ Len(wire) < length /\ gone
  /\ pc' = "ended"
  /\ UNCHANGED <<wire, length, reading, report, replies, done, Server>>

Reply(kind, i, shown) == [kind |-> kind, to |-> i, edition |-> shown]

Finish(answers, next) ==
  /\ replies' = replies \o answers
  /\ done' = reading
  /\ pc' = next
  /\ UNCHANGED <<wire, length, reading, report, Server>>

\* An answer that cannot be written ends the server.
Answer(reply) ==
  \/ Finish(<<reply>>, "headers")
  \/ /\ gone
     /\ pc' = "ended"
     /\ UNCHANGED <<wire, length, reading, report, replies, done, Server>>

\* handle_message, for all but the events of documents that have a file.
Handle ==
  /\ pc = "handle"
  /\ LET m == sent[reading].message
     IN \/ m.method \in {"initialize", "shutdown"} /\ Answer(Reply("result", reading, 0))
        \/ m.method = "other" /\ m.request /\ Answer(Reply("error", reading, 0))
        \/ /\ \/ m.method = "other" /\ ~m.request
              \/ m.method = "initialized"
              \/ m.method = "document" /\ m.doc \notin Doc
           /\ Finish(<<>>, "headers")
        \/ m.method = "exit" /\ Finish(<<>>, "ended")

\* Mutant: a file is analysed once.
AnalyseOnce ==
  /\ pc = "handle"
  /\ LET m == sent[reading].message
     IN /\ m.method = "document" /\ m.doc \in Doc
        /\ report' = IF replies = <<>> THEN edition[m.doc] ELSE report
  /\ pc' = "publish"
  /\ UNCHANGED <<wire, length, reading, replies, done, Server>>

\* publish_diagnostics: the file is analysed, and then the editor told its
\* diagnostics or, where there is nothing to analyse, an empty list.  uri_to_path
\* does not decode percent escapes: what it takes for the path is no file's.
Diagnostics == {"publish", "clear"}

Shows(doc, e) ==
  IF doc \in Escaped \/ <<doc, e>> \in Missing THEN "clear" ELSE "publish"

Analyse ==
  /\ pc = "handle"
  /\ LET m == sent[reading].message
     IN /\ m.method = "document" /\ m.doc \in Doc
        /\ report' = edition[m.doc]
  /\ pc' = "publish"
  /\ UNCHANGED <<wire, length, reading, replies, done, Server>>

ToPublish == Reply(Shows(sent[reading].message.doc, report), reading, report)

\* Mutant: diagnostics wait until there is nothing more to read.
PublishDebounced == pc = "publish" /\ wire = <<>> /\ Answer(ToPublish)

Publish == pc = "publish" /\ Answer(ToPublish)

-----------------------------------------------------------------------------

Init ==
  /\ wire = <<>> /\ gone = FALSE /\ sent = <<>>
  /\ pc = "headers" /\ length = None /\ reading = 0 /\ report = 0
  /\ replies = <<>> /\ done = 0
  /\ edition = [d \in Doc |-> 0]

ServerStep ==
  ReadHeader \/ HeaderEof \/ ReadBody \/ BodyEof \/ Handle \/ Analyse \/ Publish

Next ==
  \/ \E t \in Traffic : Send(t)
  \/ \E cut \in 0..Len(Frame(1, "plain")) - 1 : Leave(cut)
  \/ \E d \in Doc \ Escaped : Edit(d)
  \/ ServerStep

\* The server is a loop that runs whenever there is something to read.
Spec == Init /\ [][Next]_vars /\ WF_vars(ServerStep)

-----------------------------------------------------------------------------
(* Properties.                                                             *)

\* Types.
TypeOK ==
  /\ \A k \in 1..Len(wire) : wire[k] \in
       [is : {"length", "other", "end", "part"}, n : -2..MaxLength + MaxSends + 1, at : 0..Size]
  /\ gone \in BOOLEAN
  /\ \A i \in 1..Len(sent) : sent[i] \in
       [message : Message, framed : BOOLEAN, edition : 0..MaxEdits]
  /\ pc \in {"headers", "body", "handle", "publish", "ended"}
  /\ length \in -1..MaxLength + 1
  /\ pc = "body" => length \in 0..MaxLength
  /\ reading \in 0..Len(sent) /\ done \in 0..Len(sent)
  /\ pc \in {"handle", "publish"} => reading > 0
  /\ report \in 0..MaxEdits
  /\ \A k \in 1..Len(replies) : replies[k] \in
       [kind : {"result", "error"} \cup Diagnostics, to : 1..MaxSends, edition : 0..MaxEdits]
  /\ edition \in [Doc -> 0..MaxEdits]

\* What handle_message (lib.rs 115) answers to the i-th message.
RepliesTo(i, m) ==
  CASE m.method \in {"initialize", "shutdown"} -> {<<Reply("result", i, 0)>>}
    [] m.method = "other" /\ m.request -> {<<Reply("error", i, 0)>>}
    [] m.method = "document" /\ m.doc \in Doc ->
         {<<Reply(Shows(m.doc, e), i, e)>> : e \in 0..MaxEdits}
    [] OTHER -> {<<>>}

GoesOn(m) == m.method # "exit"

Waiting == [k \in 1..Len(sent) - done |->
  [number |-> done + k, message |-> sent[done + k].message,
   framed |-> sent[done + k].framed]]

\* Whatever the editor does to the stream (protocol.rs 69), the server handles
\* only messages that were sent, each at most once and in the order they were
\* sent, answers each as its method demands (lib.rs 115), and until a message
\* is badly framed passes none over and goes on while the editor is there.
Session == INSTANCE LspSession WITH
  Replies <- RepliesTo, NoExit <- GoesOn,
  pending <- Waiting, sent <- Len(sent),
  broken <- \E j \in 1..done : ~sent[j].framed, over <- pc = "ended"
ImplementsSession == Session!Spec

\* The diagnostics an editor was sent last for a document (lib.rs 196) are
\* those of its file as it was when the last of its events was sent, or later,
\* and none if it was not there then: what is analysed is the file, not the text
\* of the event.  Documents whose URI has percent escapes are excepted: for them
\* the editor is told of no diagnostics, whatever is in their files.
DiagnosticsOfLastEvent ==
  \A i \in 1..done :
    LET m == sent[i].message
        told == {k \in 1..Len(replies) :
                   replies[k].kind \in Diagnostics /\ sent[replies[k].to].message = m}
    IN m.method = "document" /\ m.doc \in Doc \ Escaped /\ (\A j \in 1..i : sent[j].framed)
         => \E k \in told :
              /\ \A j \in told : j <= k
              /\ replies[k].edition >= sent[i].edition
              /\ replies[k].kind = "clear" <=> <<m.doc, replies[k].edition>> \in Missing

\* A message before which all were well framed is handled in the end, or the
\* server ends (run, lib.rs 81): no message waits for ever.
WellFramedAreHandled ==
  \A i \in 1..MaxSends :
    (Len(sent) >= i /\ \A j \in 1..i : sent[j].framed)
      ~> (done >= i \/ pc = "ended")

===============================================================================
