------------------------------ MODULE Dashboard -------------------------------
(***************************************************************************)
(* The reading side of the dashboard server (zuit-show, router.rs): its one*)
(* worker lists a project's scans and answers from their analytics sidecars*)
(* and envelopes, without the lock, while `zuit analyze` processes of this *)
(* or of an older version record and prune scans.                          *)
(*                                                                         *)
(* A sidecar is written by the process that recorded the scan and, when a  *)
(* request finds none that it can use, by the server: both write it through*)
(* the one temporary name <id>.analytics.tmp.  Scan ids come in the order  *)
(* of the recordings; HistoryStore has the lock, meta.json and the order   *)
(* within a second.                                                        *)
(***************************************************************************)
EXTENDS Analytics

CONSTANTS
  Report,      \* reports of an analysis, to choose from
  OldFormat,   \* formats of the sidecars that older versions of zuit write
  MaxScans,    \* history.max_scans_per_project
  NoFile,      \* no such file
  Torn,        \* a file that is not a whole document
  NoAnswer,    \* the server has not answered anything yet
  MaxRecords,  \* bound: how many scans are recorded
  MaxRequests  \* bound: how many requests are made

ASSUME Formats == OldFormat \subseteq SUBSET (Current \ {"version"})

\* Formats of the sidecars that an installed zuit may write.
Format == OldFormat \cup {Current}

ASSUME SpecialFiles == NoFile # Torn /\ {NoFile, Torn} \cap Format = {}

ASSUME Findings == \A report \in Report : report.findings \in Seq(Finding)

ASSUME Bounds ==
  MaxScans \in Nat \ {0} /\ MaxRecords \in Nat /\ MaxRequests \in Nat

ScanId == 1 .. MaxRecords

\* GET /api/projects/:hash/...; each but the last two lists the scans first.
Listing == {"scans", "summary", "trends", "heatmap"}

VARIABLES
  recorded,        \* the reports recorded so far, by scan id (history)
  envelope,        \* the scans whose envelope is there
  sidecar, tmp,    \* per scan: its sidecar and the temporary name, each a
                   \* format if whole
  recorder,        \* per scan: where the process recording it is
  at,              \* per scan, for recorder and server: the name now borne
                   \* by the temporary file it has open
  pc, kind,        \* the server: where it is, in which request
  listed,          \* the scans the request is about
  todo,            \* those of them it has not dealt with
  got,             \* what it has read, in that order: formats of sidecars
  answer,          \* its last answer, with what it had read for it
  leaving,         \* scans whose envelope was pruned, but not their sidecar
  began,           \* history: the envelopes and the number of recordings when
                   \* the request came
  pruned, mixed,   \* history: during the request, an envelope was removed; a
                   \* recorder was at a sidecar or one could not be written
  requests         \* counter for the bound

files  == <<envelope, leaving, sidecar, tmp, at>>
writer == <<recorded, recorder>>
server == <<pc, kind, listed, todo, got, answer, began, requests>>
ghost  == <<pruned, mixed>>
vars   == <<files, writer, server, ghost>>

Goto(there) == pc' = there

Init ==
  /\ recorded = <<>>
  /\ envelope = {} /\ leaving = {}
  /\ sidecar = [s \in ScanId |-> NoFile] /\ tmp = [s \in ScanId |-> NoFile]
  /\ recorder = [s \in ScanId |-> "none"]
  /\ at = [s \in ScanId |-> [w \in {"recorder", "server"} |-> "closed"]]
  /\ pc = "idle" /\ kind = "none"
  /\ listed = <<>> /\ todo = <<>> /\ got = <<>>
  /\ answer = NoAnswer
  /\ began = [scans |-> {}, count |-> 0]
  /\ pruned = FALSE /\ mixed = FALSE
  /\ requests = 0

-----------------------------------------------------------------------------
(* atomic_write of a sidecar by w, the recorder or the server.             *)

OpenTmp(s, w) ==
  /\ tmp' = [tmp EXCEPT ![s] = Torn]
  /\ at' = [at EXCEPT ![s][w] = "tmp"]
  /\ UNCHANGED sidecar

\* A document with more fields is longer: the end of it outlasts one with fewer
\* that is written over it.  (Of the two writers of a sidecar one is current.)
Filled(old, v) == IF old \in Format /\ ~ old \subseteq v THEN Torn ELSE v

\* The file that was opened is filled, whatever its name by now.
WriteTmp(s, w, v) ==
  /\ tmp' = [tmp EXCEPT ![s] = IF at[s][w] = "tmp" THEN Filled(@, v) ELSE @]
  /\ sidecar' = [sidecar EXCEPT ![s] =
                   IF at[s][w] = "sidecar" THEN Filled(@, v) ELSE @]
  /\ UNCHANGED at

\* rename publishes the temporary name's file as it is; the other writer may
\* still have that file open, or the one it replaces.
RenameTmp(s, w) ==
  LET moved == [tmp |-> "sidecar", sidecar |-> "unlinked"]
  IN  /\ tmp[s] # NoFile
      /\ sidecar' = [sidecar EXCEPT ![s] = tmp[s]]
      /\ tmp' = [tmp EXCEPT ![s] = NoFile]
      /\ at' = [at EXCEPT ![s] =
                  [x \in DOMAIN @ |->
                     IF x = w THEN "closed"
                     ELSE IF @[x] \in DOMAIN moved THEN moved[@[x]] ELSE @[x]]]

\* An error at any step, or a rename that finds no temporary name.
CloseTmp(s, w) ==
  /\ at' = [at EXCEPT ![s][w] = "closed"]
  /\ UNCHANGED <<sidecar, tmp>>

-----------------------------------------------------------------------------
(* HistoryStore::record, as far as envelopes and sidecars go.              *)

Disturb == mixed' = (mixed \/ pc # "idle") /\ UNCHANGED pruned

WriteEnvelope(report) ==
  LET s == Len(recorded) + 1
  IN  /\ s \in ScanId
      /\ recorded' = Append(recorded, report)
      /\ envelope' = envelope \cup {s}
      /\ recorder' = [recorder EXCEPT ![s] = "open"]
      /\ UNCHANGED <<leaving, sidecar, tmp, at, server, ghost>>

RecorderAt(s, here, there) ==
  /\ recorder[s] = here
  /\ recorder' = [recorder EXCEPT ![s] = there]
  /\ Disturb
  /\ UNCHANGED <<recorded, envelope, leaving, server>>

RecorderOpens(s) == RecorderAt(s, "open", "write") /\ OpenTmp(s, "recorder")

\* In the format of its own version of zuit.
RecorderWrites(s, v) ==
  RecorderAt(s, "write", "rename") /\ WriteTmp(s, "recorder", v)

RecorderRenames(s) == RecorderAt(s, "rename", "done") /\ RenameTmp(s, "recorder")

\* The sidecar is best effort, and the process may be killed.
RecorderEnds(s) ==
  /\ \E here \in {"open", "write", "rename"} : RecorderAt(s, here, "done")
  /\ CloseTmp(s, "recorder")

\* Some recorder prunes the oldest scan, its envelope first ...
PruneEnvelope ==
  /\ Cardinality(envelope) > MaxScans
  /\ envelope' = envelope \ {Min(envelope)}
  /\ leaving' = leaving \cup {Min(envelope)}
  /\ pruned' = (pruned \/ pc # "idle")
  /\ UNCHANGED <<sidecar, tmp, at, writer, server, mixed>>

\* ... and then, unless it is killed, the sidecar.
PruneSidecar(s) ==
  /\ s \in leaving
  /\ leaving' = leaving \ {s}
  /\ sidecar' = [sidecar EXCEPT ![s] = NoFile]
  /\ at' = [at EXCEPT ![s] =
              [x \in DOMAIN @ |-> IF @[x] = "sidecar" THEN "unlinked" ELSE @[x]]]
  /\ Disturb
  /\ UNCHANGED <<envelope, tmp, writer, server>>

-----------------------------------------------------------------------------
(* A request.                                                              *)

store == <<files, writer, ghost>>

Ascending(scans) ==
  CHOOSE names \in [1 .. Cardinality(scans) -> scans] :
    \A i, j \in DOMAIN names : i < j => names[i] < names[j]

Request(k, scans, there) ==
  /\ pc = "idle"
  /\ requests < MaxRequests
  /\ requests' = requests + 1
  /\ kind' = k
  /\ Goto(there)
  /\ listed' = scans /\ todo' = scans /\ got' = <<>>
  /\ answer' = NoAnswer
  /\ began' = [scans |-> envelope, count |-> Len(recorded)]
  /\ pruned' = FALSE /\ mixed' = FALSE
  /\ UNCHANGED <<files, writer>>

GetListing(k) == k \in Listing /\ Request(k, <<>>, "list")

GetAnalytics(s) == Request("analytics", <<s>>, "gather")

GetDiff(from, to) == Request("diff", <<from, to>>, "load")

\* DELETE: the envelope only.
DeleteScan(s) ==
  /\ pc = "idle"
  /\ requests < MaxRequests
  /\ requests' = requests + 1
  /\ envelope' = envelope \ {s}
  /\ UNCHANGED <<leaving, sidecar, tmp, at, writer, pc, kind, listed, todo, got,
                 answer, began, ghost>>

Answer(status, body) ==
  /\ Goto("idle")
  /\ answer' = [kind |-> kind, status |-> status, scans |-> listed, read |-> got,
                body |-> body]
  /\ todo' = <<>> /\ got' = <<>> /\ listed' = <<>>
  /\ kind' = "none"
  /\ UNCHANGED <<began, requests>>

\* Mutant: the sidecars listed.
ReadDirSidecars ==
  LET names == Ascending({s \in ScanId : sidecar[s] # NoFile})
  IN  /\ pc = "list"
      /\ Goto("entries")
      /\ listed' = names /\ todo' = names
      /\ UNCHANGED <<kind, got, answer, began, requests, store>>

\* list_scans: the names in the directory, sorted ...
ReadDir ==
  LET names == Ascending(envelope)
  IN  /\ pc = "list"
      /\ Goto("entries")
      /\ listed' = names /\ todo' = names
      /\ UNCHANGED <<kind, got, answer, began, requests, store>>

\* ... and then each envelope, none of which may be gone.
ReadEntry ==
  /\ pc = "entries" /\ todo # <<>>
  /\ IF Head(todo) \in envelope
       THEN /\ todo' = Tail(todo)
            /\ UNCHANGED <<pc, kind, listed, got, answer, began, requests>>
       ELSE Answer(500, <<>>)
  /\ UNCHANGED store

Listed ==
  /\ pc = "entries" /\ todo = <<>>
  /\ IF kind = "scans"
       THEN Answer(200, listed)
       ELSE /\ Goto("gather")
            /\ todo' = listed
            /\ UNCHANGED <<kind, listed, got, answer, began, requests>>
  /\ UNCHANGED store

\* Mutant: the heatmap content with any format, as the others are.
UsableAny(s) == sidecar[s] \in Format

\* A sidecar with findings but no files is taken for one that lacks the counts
\* per file, also if its findings are about no file.
CountsFiles(findings) == findings = <<>> \/ Files(findings) # {}

\* Any sidecar will do but for the heatmap, which needs the current version.
Usable(s) ==
  /\ sidecar[s] \in Format
  /\ kind = "heatmap" =>
       sidecar[s] = Current /\ CountsFiles(recorded[s].findings)

Gathered(v) == got' = Append(got, v) /\ todo' = Tail(todo) /\ Goto("gather")

ReadSidecar ==
  /\ pc = "gather" /\ todo # <<>>
  /\ IF Usable(Head(todo))
       THEN Gathered(sidecar[Head(todo)])
       ELSE Goto("load") /\ UNCHANGED <<got, todo>>
  /\ UNCHANGED <<kind, listed, answer, began, requests, store>>

\* Mutant: what is computed is not written.
LoadEnvelopeOnly ==
  /\ pc = "load" /\ todo # <<>>
  /\ IF Head(todo) \notin envelope THEN Answer(404, <<>>)
     ELSE /\ IF kind = "diff"
               THEN todo' = Tail(todo) /\ UNCHANGED <<pc, got>>
               ELSE Gathered(Current)
          /\ UNCHANGED <<kind, listed, answer, began, requests>>
  /\ UNCHANGED store

\* load_envelope: for the diff its findings, otherwise to compute the analytics
\* and write them.
LoadEnvelope ==
  /\ pc = "load" /\ todo # <<>>
  /\ IF Head(todo) \notin envelope THEN Answer(404, <<>>)
     ELSE /\ IF kind = "diff"
               THEN todo' = Tail(todo) /\ UNCHANGED pc
               ELSE Goto("open") /\ UNCHANGED todo
          /\ UNCHANGED <<kind, listed, got, answer, began, requests>>
  /\ UNCHANGED store

Regenerating ==
  UNCHANGED <<kind, listed, answer, began, requests, envelope, leaving, writer>>

RegenOpens ==
  /\ pc = "open" /\ Goto("write")
  /\ OpenTmp(Head(todo), "server")
  /\ UNCHANGED <<got, todo, ghost>> /\ Regenerating

RegenWrites ==
  /\ pc = "write" /\ Goto("rename")
  /\ WriteTmp(Head(todo), "server", Current)
  /\ UNCHANGED <<got, todo, ghost>> /\ Regenerating

RegenRenames ==
  /\ pc = "rename"
  /\ RenameTmp(Head(todo), "server")
  /\ Gathered(Current)
  /\ UNCHANGED ghost /\ Regenerating

\* A write that fails is logged: what was computed is used all the same.
RegenFails ==
  /\ pc \in {"open", "write", "rename"}
  /\ CloseTmp(Head(todo), "server")
  /\ Gathered(Current)
  /\ Disturb /\ Regenerating

\* The analytics of the i-th listed scan, as read or computed.
AnalyticsOf(i) ==
  LET s == listed[i]
  IN  Deserialised(got[i], compute_scan_analytics(s, recorded[s]))

Entry(s) == [scan_id |-> s, report |-> recorded[s]]

Body ==
  LET all == [i \in DOMAIN got |-> AnalyticsOf(i)]
  IN  CASE kind = "analytics" -> all[1]
        [] kind = "summary" -> compute_project_summary_from_analytics(all)
        [] kind = "trends"  -> compute_trends_from_analytics(all)
        [] kind = "heatmap" -> compute_heatmap_from_analytics(all)
        [] kind = "diff"    -> compute_scan_diff(Entry(listed[1]), Entry(listed[2]))

Reply ==
  /\ pc = IF kind = "diff" THEN "load" ELSE "gather"
  /\ todo = <<>>
  /\ Answer(200, Body)
  /\ UNCHANGED store

\* The daemon is stopped or dies; another one serves the next request.
ServerDies ==
  /\ pc # "idle"
  /\ Goto("idle")
  /\ IF pc \in {"open", "write", "rename"}
       THEN CloseTmp(Head(todo), "server") ELSE UNCHANGED <<sidecar, tmp, at>>
  /\ todo' = <<>> /\ got' = <<>> /\ listed' = <<>>
  /\ UNCHANGED <<kind, answer, began, requests, envelope, leaving, writer, ghost>>

-----------------------------------------------------------------------------

ServerStep ==
  \/ ReadDir \/ ReadEntry \/ Listed
  \/ ReadSidecar \/ LoadEnvelope
  \/ RegenOpens \/ RegenWrites \/ RegenRenames \/ RegenFails
  \/ Reply

RecorderStep(s) ==
  \/ RecorderOpens(s) \/ RecorderRenames(s)
  \/ \E v \in Format : RecorderWrites(s, v)
  \/ RecorderEnds(s) \/ PruneSidecar(s)

Next ==
  \/ \E report \in Report : WriteEnvelope(report)
  \/ \E s \in ScanId : RecorderStep(s)
  \/ PruneEnvelope
  \/ \E k \in Listing : GetListing(k)
  \/ \E s \in 1 .. Len(recorded) : GetAnalytics(s) \/ DeleteScan(s)
  \/ \E from, to \in 1 .. Len(recorded) : GetDiff(from, to)
  \/ ServerStep
  \/ ServerDies

Spec == Init /\ [][Next]_vars

-----------------------------------------------------------------------------

Answered(k) == answer # NoAnswer /\ answer.kind = k /\ answer.status = 200

\* The scans an answer is about, with their reports.
Entries == [i \in DOMAIN answer.scans |-> Entry(answer.scans[i])]

AgreeBut(missing, a, b) ==
  DOMAIN a = DOMAIN b /\ \A f \in DOMAIN b \ missing : a[f] = b[f]

\* Whoever wrote the sidecars, whatever became of them, and even if they are
\* published half-written, an answer is what the envelopes give, scan by scan: a
\* heatmap in all, the others but for the fields that the sidecar they were read
\* from lacks.  Those are not what the envelopes give: older sidecars are served
\* as they are, without their version, counts and weights, and as scans without
\* failures, although the comment on ScanAnalytics has them regenerated.
AnswersOfEnvelopes ==
  LET lacks(i) == Current \ answer.read[i]
      failures(i) == IF "failures" \in lacks(i) THEN 0 ELSE Entries[i].report.failures
  IN  /\ Answered("heatmap") => answer.body = compute_heatmap(Entries)
      /\ Answered("trends") =>
           LET trends == compute_trends(Entries)
           IN  /\ DOMAIN answer.body = DOMAIN trends
               /\ \A i \in DOMAIN trends : AgreeBut(lacks(i), answer.body[i], trends[i])
      /\ Answered("summary") =>
           LET summary == compute_project_summary(Entries)
               latest == Len(answer.scans)
           IN  /\ AgreeBut({"latest", "failures"}, answer.body, summary)
               /\ DOMAIN answer.body.latest = DOMAIN summary.latest
               /\ \A i \in DOMAIN summary.latest :
                    AgreeBut(lacks(latest), answer.body.latest[i], summary.latest[i])
               /\ answer.body.failures =
                    SumOf([i \in DOMAIN answer.read |-> failures(i)])
      /\ Answered("analytics") =>
           LET s == answer.scans[1]
           IN  AgreeBut(lacks(1), answer.body, compute_scan_analytics(s, recorded[s]))

\* A listing has, oldest first, every scan that was there from the request to
\* its answer and none that had been deleted before; and a request fails only
\* if a scan it is about was not there or has been pruned meanwhile.
ListsWhatIsThere ==
  answer # NoAnswer =>
    LET asked   == ToSet(answer.scans)
        current == {s \in asked : s > began.count} \cup began.scans
    IN  /\ answer.kind \in Listing /\ answer.status = 200 =>
             /\ \A i, j \in DOMAIN answer.scans : i < j =>
                  answer.scans[i] < answer.scans[j]
             /\ asked \subseteq current
             /\ began.scans \ asked # {} => pruned
        /\ answer.status # 200 =>
             pruned \/ (answer.kind \notin Listing /\ ~ asked \subseteq began.scans)

\* The dashboard's numbers agree: unless a scan repeats a finding, the new and
\* the resolved findings of a diff account for the change in the totals that
\* summary and trends show.
DiffAccounts ==
  LET findings(i) == recorded[answer.scans[i]].findings
      distinct(i) == \A j, k \in DOMAIN findings(i) :
        /\ findings(i)[j].file = findings(i)[k].file
        /\ findings(i)[j].line = findings(i)[k].line
        /\ findings(i)[j].rule = findings(i)[k].rule
        /\ findings(i)[j].message = findings(i)[k].message
        => j = k
  IN  Answered("diff") /\ distinct(1) /\ distinct(2) =>
        Cardinality(DOMAIN answer.body.new) - Cardinality(DOMAIN answer.body.resolved)
          = Len(findings(2)) - Len(findings(1))

\* A heatmap leaves every scan it is about with a current sidecar, unless
\* meanwhile a recorder wrote or pruned sidecars too, or a write failed.
HeatmapHeals ==
  [][pc # "idle" /\ pc' = "idle" /\ answer' # NoAnswer
       /\ answer'.kind = "heatmap" /\ answer'.status = 200 /\ ~mixed
     => \A s \in ToSet(answer'.scans) : sidecar'[s] = Current]_vars
=============================================================================
