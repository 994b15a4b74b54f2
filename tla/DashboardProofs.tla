--------------------------- MODULE DashboardProofs ---------------------------
(***************************************************************************)
(* The reads of the dashboard, for any reports, number of scans, of        *)
(* requests and of scans kept.                                             *)
(***************************************************************************)
EXTENDS Dashboard, FiniteSetTheorems, TLAPS

-----------------------------------------------------------------------------
(* Sorted listings.                                                        *)

\* The elements of a finite set of numbers can be put in order.
LEMMA OrderExists ==
  ASSUME NEW S, IsFiniteSet(S), S \subseteq Nat
  PROVE  \E names \in [1 .. Cardinality(S) -> S] :
           \A i, j \in DOMAIN names : i < j => names[i] < names[j]
  <1> DEFINE n == Cardinality(S)
             Upto(g) == {h \in S : h <= g}
             rank == [g \in S |-> Cardinality(Upto(g))]
  <1>1. n \in Nat /\ IsFiniteSet(1 .. n) /\ Cardinality(1 .. n) = n
    BY FS_CardinalityType, FS_Interval
  <1>2. \A g \in S : Upto(g) \in SUBSET S /\ IsFiniteSet(Upto(g))
    <2>1. \A g \in S : Upto(g) \in SUBSET S
      OBVIOUS
    <2> QED
      BY <2>1, FS_Subset
  <1>3. \A g \in S : rank[g] \in 1 .. n
    <2> TAKE g \in S
    <2>1. g \in Upto(g)
      OBVIOUS
    <2> HIDE DEF Upto
    <2>2. Upto(g) # {} /\ Cardinality(Upto(g)) \in Nat /\ Cardinality(Upto(g)) <= n
      BY <1>2, <2>1, FS_Subset, FS_CardinalityType
    <2>3. Cardinality(Upto(g)) # 0
      BY <1>2, <2>2, FS_EmptySet
    <2> QED
      BY <1>1, <2>2, <2>3
  <1>4. \A g, h \in S : g < h => rank[g] < rank[h]
    <2> SUFFICES ASSUME NEW g \in S, NEW h \in S, g < h PROVE rank[g] < rank[h]
      OBVIOUS
    <2>1. g \in Nat /\ h \in Nat /\ \A w \in S : w \in Nat
      OBVIOUS
    <2>2. Upto(g) \in SUBSET Upto(h) /\ h \in Upto(h) /\ h \notin Upto(g)
      <3>1. h <= h /\ ~(h <= g) /\ \A w \in S : w <= g => w <= h
        BY <2>1
      <3> QED
        BY <3>1
    <2>3. Upto(g) # Upto(h)
      BY <2>2
    <2>4. IsFiniteSet(Upto(h))
      BY <1>2
    <2> HIDE DEF Upto
    <2>5. Cardinality(Upto(g)) < Cardinality(Upto(h))
      <3>1. /\ Cardinality(Upto(g)) <= Cardinality(Upto(h))
            /\ Cardinality(Upto(g)) # Cardinality(Upto(h))
        BY <2>2, <2>3, <2>4, FS_Subset
      <3>2. Cardinality(Upto(g)) \in Nat /\ Cardinality(Upto(h)) \in Nat
        BY <1>2, FS_CardinalityType
      <3> QED
        BY <3>1, <3>2
    <2> QED
      BY <2>5
  <1> HIDE DEF n, rank, Upto
  <1>5. rank \in Injection(S, 1 .. n)
    <2>1. \A g, h \in S : rank[g] = rank[h] => g = h
      <3> SUFFICES ASSUME NEW g \in S, NEW h \in S, rank[g] = rank[h] PROVE g = h
        OBVIOUS
      <3>1. g \in Nat /\ h \in Nat
        OBVIOUS
      <3>2. rank[g] \in Nat /\ rank[h] \in Nat
        BY <1>1, <1>3
      <3>3. ~(g < h) /\ ~(h < g)
        BY <1>4, <3>2
      <3> QED
        BY <3>1, <3>3
    <2>2. rank \in [S -> 1 .. n]
      BY <1>3 DEF rank
    <2> QED
      BY <2>1, <2>2 DEF Injection, IsInjective
  <1>6. rank \in Surjection(S, 1 .. n)
    BY <1>1, <1>5, FS_Injection DEF n
  <1>7. \A i \in 1 .. n : \E g \in S : rank[g] = i
    BY <1>6 DEF Surjection
  <1> DEFINE names == [i \in 1 .. n |-> CHOOSE g \in S : rank[g] = i]
  <1>8. \A i \in 1 .. n : names[i] \in S /\ rank[names[i]] = i
    BY <1>7
  <1>9. names \in [1 .. n -> S]
    BY <1>8
  <1> HIDE DEF names
  <1>10. ASSUME NEW i \in 1 .. n, NEW j \in 1 .. n, i < j
         PROVE  names[i] < names[j]
    <2>1. names[i] \in Nat /\ names[j] \in Nat
      BY <1>8
    <2>2. i \in Nat /\ j \in Nat /\ ~(j < i) /\ i # j
      BY <1>1, <1>10
    <2>3. ~(names[j] < names[i]) /\ names[i] # names[j]
      BY <1>4, <1>8, <1>10, <2>2
    <2> QED
      BY <2>1, <2>3
  <1> QED
    BY <1>9, <1>10 DEF n

\* A listing of them has them all, in order.
LEMMA AscendingIs ==
  ASSUME NEW S, IsFiniteSet(S), S \subseteq Nat
  PROVE  /\ Ascending(S) \in Seq(S)
         /\ \A i, j \in DOMAIN Ascending(S) : i < j => Ascending(S)[i] < Ascending(S)[j]
         /\ \A s \in S : \E i \in DOMAIN Ascending(S) : Ascending(S)[i] = s
  <1> DEFINE n == Cardinality(S)
  <1>1. n \in Nat /\ IsFiniteSet(1 .. n) /\ Cardinality(1 .. n) = n
    BY FS_CardinalityType, FS_Interval
  <1>2. PICK names \in [1 .. n -> S] :
          /\ \A i, j \in DOMAIN names : i < j => names[i] < names[j]
          /\ names = Ascending(S)
    <2>1. \E names \in [1 .. n -> S] :
            \A i, j \in DOMAIN names : i < j => names[i] < names[j]
      BY OrderExists
    <2> QED
      BY <2>1 DEF Ascending
  <1> HIDE DEF n
  <1>3. names \in Seq(S)
    BY <1>1
  <1>4. names \in Injection(1 .. n, S)
    <2>1. \A i, j \in 1 .. n : names[i] = names[j] => i = j
      <3> SUFFICES ASSUME NEW i \in 1 .. n, NEW j \in 1 .. n, names[i] = names[j]
                   PROVE  i = j
        OBVIOUS
      <3>1. i \in Nat /\ j \in Nat /\ names[i] \in Nat
        <4>1. i \in Nat /\ j \in Nat
          BY <1>1
        <4>2. names[i] \in S
          OBVIOUS
        <4>3. \A s \in S : s \in Nat
          OBVIOUS
        <4> QED
          BY <4>1, <4>2, <4>3
      <3>2. ~(names[i] < names[j]) /\ ~(names[j] < names[i])
        BY <3>1
      <3>3. ~(i < j) /\ ~(j < i)
        BY <1>2, <3>2
      <3> QED
        BY <3>1, <3>3
    <2> QED
      BY <2>1 DEF Injection, IsInjective
  <1>5. names \in Surjection(1 .. n, S)
    BY <1>1, <1>4, FS_Injection DEF n
  <1>6. \A s \in S : \E i \in 1 .. n : names[i] = s
    BY <1>5 DEF Surjection
  <1> QED
    BY <1>2, <1>3, <1>6

-----------------------------------------------------------------------------
(* The inductive invariant.                                                *)

\* The kinds of request that are answered from sidecars, and where in them the
\* server writes one.
Analysed == {"analytics", "summary", "trends", "heatmap"}

Regenerates == {"open", "write", "rename"}

Typed ==
  /\ recorded \in Seq(Report) /\ Len(recorded) <= MaxRecords
  /\ envelope \subseteq 1 .. Len(recorded)
  /\ DOMAIN sidecar = ScanId /\ DOMAIN tmp = ScanId
  /\ DOMAIN recorder = ScanId /\ DOMAIN at = ScanId
  /\ \A s \in ScanId : DOMAIN at[s] = {"recorder", "server"}
  /\ listed \in Seq(ScanId) /\ todo \in Seq(ScanId) /\ got \in Seq(Format)
  /\ \A i \in 1 .. Len(listed) : listed[i] <= Len(recorded)
  /\ began.count \in Nat /\ began.scans \subseteq 1 .. began.count
  /\ began.count <= Len(recorded)
  /\ pruned \in BOOLEAN /\ mixed \in BOOLEAN

\* How a request proceeds: what is to be done is the rest of what is listed.
Proceeds ==
  /\ pc \in {"idle", "list", "entries", "gather", "load"} \cup Regenerates
  /\ pc # "idle" => answer = NoAnswer
  /\ pc \in {"list", "entries"} => kind \in Listing /\ got = <<>>
  /\ pc \in {"gather"} \cup Regenerates => kind \in Analysed
  /\ pc = "load" => kind \in Analysed \cup {"diff"}
  /\ pc \in Regenerates \/ (pc = "load" /\ kind \in Analysed) => todo # <<>>
  /\ pc # "idle" => /\ kind = "analytics" => Len(listed) = 1
                    /\ kind = "diff" => Len(listed) = 2
  /\ \A i \in 1 .. Len(todo) : \E j \in 1 .. Len(listed) : todo[i] = listed[j]
  /\ pc \in {"gather", "load"} \cup Regenerates /\ kind \in Analysed =>
       /\ Len(got) + Len(todo) = Len(listed)
       /\ \A i \in 1 .. Len(todo) : todo[i] = listed[Len(got) + i]
       /\ kind = "heatmap" =>
            \A i \in 1 .. Len(got) : got[i] = Current

\* What a request knows of the envelopes.
Asks ==
  pc # "idle" =>
    /\ \A s \in began.scans : s \in envelope \/ pruned
    /\ \A s \in envelope : s \in began.scans \/ s > began.count
    /\ pc # "list" /\ kind \in Listing =>
         /\ \A i, j \in 1 .. Len(listed) : i < j => listed[i] < listed[j]
         /\ \A i \in 1 .. Len(listed) :
              /\ listed[i] \in began.scans \/ listed[i] > began.count
              /\ listed[i] \in envelope \/ pruned
         /\ \A s \in began.scans :
              (\E i \in 1 .. Len(listed) : listed[i] = s) \/ pruned

Inv == Typed /\ Proceeds /\ Asks

LEMMA InitInv == Init => Inv
  <1> SUFFICES ASSUME Init PROVE Inv
    OBVIOUS
  <1>1. ScanId \subseteq Nat /\ Len(recorded) = 0 /\ Len(listed) = 0 /\ Len(todo) = 0
    BY DEF Init, ScanId
  <1>2. Typed
    <2>1. recorded \in Seq(Report) /\ Len(recorded) <= MaxRecords
      BY <1>1, Bounds DEF Init
    <2>2. listed \in Seq(ScanId) /\ todo \in Seq(ScanId) /\ got \in Seq(Format)
      BY DEF Init
    <2>3. began.count = 0 /\ began.scans = {}
      BY DEF Init
    <2>4. \A s \in ScanId : DOMAIN at[s] = {"recorder", "server"}
      BY DEF Init
    <2>5. DOMAIN sidecar = ScanId /\ DOMAIN tmp = ScanId
          /\ DOMAIN recorder = ScanId /\ DOMAIN at = ScanId
      BY DEF Init
    <2>6. envelope = {} /\ pruned \in BOOLEAN /\ mixed \in BOOLEAN
      BY DEF Init
    <2>7. /\ \A i \in 1 .. Len(listed) : listed[i] <= Len(recorded)
          /\ began.count \in Nat /\ began.count <= Len(recorded)
      BY <1>1, <2>3
    <2> QED
      BY <2>1, <2>2, <2>3, <2>4, <2>5, <2>6, <2>7 DEF Typed
  <1> QED
    BY <1>1, <1>2 DEF Init, Inv, Proceeds, Asks, Regenerates

-----------------------------------------------------------------------------
(* What a step of the other processes leaves alone.                        *)

SameRequest == UNCHANGED <<pc, kind, listed, todo, got, answer, began>>

LEMMA StoreTyped ==
  ASSUME Typed, NEW s \in ScanId, NEW w \in {"recorder", "server"}, NEW v,
         OpenTmp(s, w) \/ WriteTmp(s, w, v) \/ RenameTmp(s, w) \/ CloseTmp(s, w)
  PROVE  /\ DOMAIN sidecar' = ScanId /\ DOMAIN tmp' = ScanId /\ DOMAIN at' = ScanId
         /\ \A t \in ScanId : DOMAIN at'[t] = {"recorder", "server"}
  <1>1. CASE OpenTmp(s, w)
    BY <1>1 DEF Typed, OpenTmp
  <1>2. CASE WriteTmp(s, w, v)
    BY <1>2 DEF Typed, WriteTmp
  <1>3. CASE RenameTmp(s, w)
    BY <1>3 DEF Typed, RenameTmp
  <1>4. CASE CloseTmp(s, w)
    BY <1>4 DEF Typed, CloseTmp
  <1> QED
    BY <1>1, <1>2, <1>3, <1>4

\* A recorder that is writing a sidecar or pruning one.
LEMMA RecorderFrame ==
  ASSUME Typed, NEW s \in ScanId, RecorderStep(s)
  PROVE  /\ SameRequest /\ UNCHANGED <<recorded, envelope, pruned>>
         /\ mixed' = (mixed \/ pc # "idle")
         /\ DOMAIN recorder' = ScanId
         /\ DOMAIN sidecar' = ScanId /\ DOMAIN tmp' = ScanId /\ DOMAIN at' = ScanId
         /\ \A t \in ScanId : DOMAIN at'[t] = {"recorder", "server"}
  <1>1. CASE PruneSidecar(s)
    BY <1>1 DEF Typed, SameRequest, PruneSidecar, Disturb, writer, server
  <1>2. CASE \/ RecorderOpens(s) \/ RecorderRenames(s)
             \/ \E v \in Format : RecorderWrites(s, v)
             \/ RecorderEnds(s)
    <2>1. \E here, there : RecorderAt(s, here, there)
      BY <1>2 DEF RecorderOpens, RecorderRenames, RecorderWrites, RecorderEnds
    <2>2. \E v : \/ OpenTmp(s, "recorder") \/ WriteTmp(s, "recorder", v)
                 \/ RenameTmp(s, "recorder") \/ CloseTmp(s, "recorder")
      BY <1>2 DEF RecorderOpens, RecorderRenames, RecorderWrites, RecorderEnds
    <2>3. /\ SameRequest /\ UNCHANGED <<recorded, envelope, pruned>>
          /\ mixed' = (mixed \/ pc # "idle")
          /\ DOMAIN recorder' = ScanId
      BY <2>1 DEF Typed, SameRequest, RecorderAt, Disturb, server
    <2>4. PICK v : \/ OpenTmp(s, "recorder") \/ WriteTmp(s, "recorder", v)
                   \/ RenameTmp(s, "recorder") \/ CloseTmp(s, "recorder")
      BY <2>2
    <2> QED
      BY <2>3, <2>4, StoreTyped
  <1> QED
    BY <1>1, <1>2 DEF RecorderStep

LEMMA RecorderInv ==
  ASSUME Inv, NEW s \in ScanId, RecorderStep(s)
  PROVE  Inv'
  <1>1. /\ SameRequest /\ UNCHANGED <<recorded, envelope, pruned>>
        /\ mixed' = (mixed \/ pc # "idle")
        /\ DOMAIN recorder' = ScanId
        /\ DOMAIN sidecar' = ScanId /\ DOMAIN tmp' = ScanId /\ DOMAIN at' = ScanId
        /\ \A t \in ScanId : DOMAIN at'[t] = {"recorder", "server"}
    BY RecorderFrame DEF Inv
  <1>2. Typed'
    BY <1>1 DEF Inv, Typed, SameRequest
  <1>3. Proceeds'
    BY <1>1 DEF Inv, Proceeds, SameRequest
  <1>4. Asks'
    BY <1>1 DEF Inv, Asks, SameRequest
  <1> QED
    BY <1>2, <1>3, <1>4 DEF Inv

\* A scan is recorded.
LEMMA WriteEnvelopeInv ==
  ASSUME Inv, NEW report \in Report, WriteEnvelope(report)
  PROVE  Inv'
  <1>1. Len(recorded) \in Nat /\ recorded' = Append(recorded, report)
    BY DEF Inv, Typed, WriteEnvelope
  <1>2. /\ recorded' \in Seq(Report) /\ Len(recorded') = Len(recorded) + 1
        /\ Len(recorded') <= MaxRecords
    BY <1>1, Bounds DEF Inv, Typed, WriteEnvelope, ScanId
  <1>3. /\ envelope' = envelope \cup {Len(recorded) + 1}
        /\ SameRequest /\ UNCHANGED <<sidecar, tmp, at, pruned, mixed>>
        /\ DOMAIN recorder' = DOMAIN recorder
    BY DEF WriteEnvelope, SameRequest, server, ghost
  <1>4. Typed'
    <2>1. envelope' \subseteq 1 .. Len(recorded')
      <3>1. \A s \in envelope : s \in 1 .. Len(recorded)
        BY DEF Inv, Typed
      <3>2. \A s \in 1 .. Len(recorded) : s \in 1 .. Len(recorded) + 1
        BY <1>1
      <3>3. Len(recorded) + 1 \in 1 .. Len(recorded) + 1
        BY <1>1
      <3> QED
        BY <1>2, <1>3, <3>1, <3>2, <3>3
    <2>2. ASSUME NEW i \in 1 .. Len(listed')
          PROVE  listed'[i] <= Len(recorded')
      <3>1. listed' = listed
        BY <1>3 DEF SameRequest
      <3>2. listed[i] \in ScanId /\ listed[i] <= Len(recorded)
        BY <2>2, <3>1 DEF Inv, Typed
      <3>3. listed[i] \in Nat
        BY <3>2 DEF ScanId
      <3> QED
        BY <1>1, <1>2, <3>1, <3>2, <3>3
    <2>3. began' = began /\ began'.count \in Nat /\ began'.count <= Len(recorded')
      BY <1>1, <1>2, <1>3 DEF Inv, Typed, SameRequest
    <2> QED
      BY <1>2, <1>3, <2>1, <2>2, <2>3 DEF Inv, Typed, SameRequest
  <1>5. Proceeds'
    BY <1>3 DEF Inv, Proceeds, SameRequest
  <1>6. Asks'
    <2>1. began.count \in Nat /\ Len(recorded) + 1 > began.count
      BY <1>1 DEF Inv, Typed
    <2> QED
      BY <1>3, <2>1 DEF Inv, Asks, SameRequest
  <1> QED
    BY <1>4, <1>5, <1>6 DEF Inv

\* A scan is pruned, or deleted by a request.
LEMMA RemovalInv ==
  ASSUME Inv, PruneEnvelope \/ \E s \in 1 .. Len(recorded) : DeleteScan(s)
  PROVE  Inv'
  <1>1. /\ SameRequest /\ UNCHANGED <<recorded, recorder, sidecar, tmp, at, mixed>>
        /\ envelope' \subseteq envelope
        /\ pc # "idle" => pruned'
        /\ pruned' \in BOOLEAN
    <2>1. CASE PruneEnvelope
      BY <2>1 DEF Inv, Typed, PruneEnvelope, SameRequest, writer, server
    <2>2. CASE \E s \in 1 .. Len(recorded) : DeleteScan(s)
      BY <2>2 DEF Inv, Typed, DeleteScan, SameRequest, writer, ghost
    <2> QED
      BY <2>1, <2>2
  <1>2. Typed'
    BY <1>1 DEF Inv, Typed, SameRequest
  <1>3. Proceeds'
    BY <1>1 DEF Inv, Proceeds, SameRequest
  <1>4. Asks'
    BY <1>1 DEF Inv, Asks, SameRequest
  <1> QED
    BY <1>2, <1>3, <1>4 DEF Inv

-----------------------------------------------------------------------------
(* The steps of a request.                                                 *)

\* What the server's steps keep of the files' shape, for the invariant.
FilesTyped ==
  /\ DOMAIN sidecar = ScanId /\ DOMAIN tmp = ScanId /\ DOMAIN at = ScanId
  /\ \A s \in ScanId : DOMAIN at[s] = {"recorder", "server"}

LEMMA RequestInv ==
  ASSUME Inv, NEW k, NEW scans, NEW there, Request(k, scans, there),
         scans \in Seq(1 .. Len(recorded)),
         \/ k \in Listing /\ scans = <<>> /\ there = "list"
         \/ k = "analytics" /\ Len(scans) = 1 /\ there = "gather"
         \/ k = "diff" /\ Len(scans) = 2 /\ there = "load"
  PROVE  Inv'
  <1>1. /\ UNCHANGED <<recorded, recorder, envelope, sidecar, tmp, at>>
        /\ kind' = k /\ pc' = there /\ answer' = NoAnswer
        /\ listed' = scans /\ todo' = scans /\ got' = <<>>
        /\ began'.scans = envelope /\ began'.count = Len(recorded)
        /\ pruned' \in BOOLEAN /\ mixed' \in BOOLEAN
    BY DEF Request, Goto, files, writer
  <1>2. Len(recorded) \in Nat /\ Len(recorded) <= MaxRecords
    BY DEF Inv, Typed
  <1>3. Typed'
    <2>1. \A n \in 1 .. Len(recorded) : n \in ScanId
      BY <1>2, Bounds DEF ScanId
    <2>2. scans \in Seq(ScanId)
      BY <2>1
    <2>3. \A i \in 1 .. Len(scans) : scans[i] <= Len(recorded)
      BY <1>2
    <2>4. got' \in Seq(Format)
      BY <1>1
    <2>5. envelope \subseteq 1 .. Len(recorded)
      BY DEF Inv, Typed
    <2> QED
      BY <1>1, <1>2, <2>2, <2>3, <2>4, <2>5 DEF Inv, Typed
  <1>4. Proceeds'
    <2>1. Len(got') = 0
      BY <1>1
    <2>2. /\ Len(scans) \in Nat /\ \A i \in 1 .. Len(got') : FALSE
          /\ \A i \in 1 .. Len(scans) : scans[i] = scans[Len(got') + i]
      BY <2>1
    <2> QED
      BY <1>1, <2>1, <2>2 DEF Proceeds, Listing, Analysed, Regenerates
  <1>5. Asks'
    BY <1>1 DEF Asks, Listing
  <1> QED
    BY <1>3, <1>4, <1>5 DEF Inv

\* A request that ends.
LEMMA EndInv ==
  ASSUME Inv, pc' = "idle", todo' = <<>>, got' = <<>>, listed' = <<>>, FilesTyped',
         UNCHANGED <<recorded, recorder, envelope, began, pruned, mixed>>
  PROVE  Inv'
  <1>1. Typed'
    <2>1. /\ listed' \in Seq(ScanId) /\ todo' \in Seq(ScanId) /\ got' \in Seq(Format)
          /\ Len(listed') = 0
      OBVIOUS
    <2> QED
      BY <2>1 DEF Inv, Typed, FilesTyped
  <1>2. Proceeds' /\ Asks'
    BY DEF Proceeds, Asks, Regenerates
  <1> QED
    BY <1>1, <1>2 DEF Inv

LEMMA ReadDirInv == ASSUME Inv, ReadDir PROVE Inv'
  <1>1. /\ UNCHANGED <<recorded, recorder, envelope, sidecar, tmp, at, began,
                       pruned, mixed, kind, got, answer>>
        /\ pc = "list" /\ pc' = "entries"
        /\ listed' = Ascending(envelope) /\ todo' = Ascending(envelope)
    BY DEF ReadDir, Goto, store, files, writer, ghost
  <1>2. /\ Len(recorded) \in Nat /\ Len(recorded) <= MaxRecords
        /\ envelope \subseteq 1 .. Len(recorded)
    BY DEF Inv, Typed
  <1>3. IsFiniteSet(envelope) /\ envelope \subseteq Nat
    <2>1. IsFiniteSet(1 .. Len(recorded))
      BY <1>2, FS_Interval
    <2>2. envelope \in SUBSET (1 .. Len(recorded))
      BY <1>2
    <2>3. IsFiniteSet(envelope)
      BY <2>1, <2>2, FS_Subset
    <2>4. \A s \in 1 .. Len(recorded) : s \in Nat
      BY <1>2
    <2> QED
      BY <1>2, <2>3, <2>4
  <1> DEFINE names == Ascending(envelope)
  <1>4. /\ names \in Seq(envelope)
        /\ \A i, j \in DOMAIN names : i < j => names[i] < names[j]
        /\ \A s \in envelope : \E i \in DOMAIN names : names[i] = s
    BY <1>3, AscendingIs
  <1>5. /\ DOMAIN names = 1 .. Len(names) /\ Len(names) \in Nat
        /\ \A i \in 1 .. Len(names) : names[i] \in envelope
    BY <1>4
  <1>6. listed' = names /\ todo' = names
    BY <1>1
  <1> HIDE DEF names
  <1>7. Typed'
    <2>1. \A s \in envelope : s \in ScanId /\ s <= Len(recorded)
      BY <1>2, Bounds DEF ScanId
    <2>2. names \in Seq(ScanId) /\ \A i \in 1 .. Len(names) : names[i] <= Len(recorded)
      BY <1>4, <1>5, <2>1
    <2> QED
      BY <1>1, <1>6, <2>2 DEF Inv, Typed
  <1>8. Proceeds'
    BY <1>1, <1>6 DEF Inv, Proceeds, Listing, Regenerates
  <1>9. Asks'
    BY <1>1, <1>4, <1>5, <1>6 DEF Inv, Asks
  <1> QED
    BY <1>7, <1>8, <1>9 DEF Inv

LEMMA AnswerEnds ==
  ASSUME Inv, NEW status, NEW body, Answer(status, body), UNCHANGED store
  PROVE  Inv'
  <1>1. FilesTyped'
    BY DEF Inv, Typed, FilesTyped, store, files
  <1> QED
    BY <1>1, EndInv DEF Answer, Goto, store, files, writer, ghost

\* The rest of what is to be done.
LEMMA RestTyped ==
  ASSUME Inv, todo # <<>>
  PROVE  /\ Tail(todo) \in Seq(ScanId) /\ Len(Tail(todo)) = Len(todo) - 1
         /\ Len(todo) \in Nat \ {0} /\ Head(todo) = todo[1] /\ Head(todo) \in ScanId
         /\ \A i \in 1 .. Len(Tail(todo)) : Tail(todo)[i] = todo[i + 1]
         /\ \A i \in 1 .. Len(Tail(todo)) : i + 1 \in 1 .. Len(todo)
  <1>1. todo \in Seq(ScanId)
    BY DEF Inv, Typed
  <1>2. Len(todo) \in Nat \ {0}
    BY <1>1
  <1>3. Tail(todo) \in Seq(ScanId) /\ Len(Tail(todo)) = Len(todo) - 1
    BY <1>1
  <1>4. Head(todo) = todo[1] /\ todo[1] \in ScanId
    BY <1>1, <1>2
  <1>5. \A i \in 1 .. Len(Tail(todo)) : Tail(todo)[i] = todo[i + 1]
    BY <1>1, <1>3
  <1>6. \A i \in 1 .. Len(Tail(todo)) : i + 1 \in 1 .. Len(todo)
    BY <1>2, <1>3
  <1> QED
    BY <1>2, <1>3, <1>4, <1>5, <1>6

\* An entry is read, or the findings of one side of a diff.
LEMMA NextTodo ==
  ASSUME Inv, todo # <<>>, todo' = Tail(todo),
         pc = "entries" \/ (pc = "load" /\ kind = "diff"),
         UNCHANGED <<pc, kind, listed, got, answer, began, store>>
  PROVE  Inv'
  <1> DEFINE rest == Tail(todo)
  <1>1. /\ rest \in Seq(ScanId)
        /\ \A i \in 1 .. Len(rest) : rest[i] = todo[i + 1] /\ i + 1 \in 1 .. Len(todo)
    BY RestTyped
  <1>2. todo' = rest
    OBVIOUS
  <1> HIDE DEF rest
  <1>3. Typed'
    BY <1>1, <1>2 DEF Inv, Typed, store, files, writer, ghost
  <1>4. Proceeds'
    <2>1. \A i \in 1 .. Len(rest) : \E j \in 1 .. Len(listed) : rest[i] = listed[j]
      BY <1>1 DEF Inv, Proceeds
    <2> QED
      BY <1>2, <2>1 DEF Inv, Proceeds, Regenerates, Analysed, Listing
  <1>5. Asks'
    BY DEF Inv, Asks, store, files, ghost
  <1> QED
    BY <1>3, <1>4, <1>5 DEF Inv

\* What is dealt with has been read or computed.
LEMMA GatheredInv ==
  ASSUME Inv, NEW v \in Format, Gathered(v), todo # <<>>,
         kind = "heatmap" => v = Current,
         pc \in {"gather"} \cup Regenerates, FilesTyped', mixed' \in BOOLEAN,
         UNCHANGED <<kind, listed, answer, began, recorded, recorder, envelope, pruned>>
  PROVE  Inv'
  <1> DEFINE rest == Tail(todo)
             read == Append(got, v)
  <1>1. /\ rest \in Seq(ScanId) /\ Len(rest) = Len(todo) - 1
        /\ Len(todo) \in Nat \ {0}
        /\ \A i \in 1 .. Len(rest) : rest[i] = todo[i + 1]
        /\ \A i \in 1 .. Len(rest) : i + 1 \in 1 .. Len(todo)
    BY RestTyped
  <1>2. /\ read \in Seq(Format) /\ Len(read) = Len(got) + 1 /\ Len(got) \in Nat
        /\ \A i \in 1 .. Len(read) : read[i] = IF i \in 1 .. Len(got) THEN got[i] ELSE v
    BY DEF Inv, Typed
  <1>3. todo' = rest /\ got' = read /\ pc' = "gather"
    BY DEF Gathered, Goto
  <1> HIDE DEF rest, read
  <1>4. Typed'
    BY <1>1, <1>2, <1>3 DEF Inv, Typed, FilesTyped
  <1>5. /\ kind \in Analysed /\ Len(got) + Len(todo) = Len(listed)
        /\ \A i \in 1 .. Len(todo) : todo[i] = listed[Len(got) + i]
        /\ \A i \in 1 .. Len(todo) : \E j \in 1 .. Len(listed) : todo[i] = listed[j]
        /\ pc # "idle" /\ answer = NoAnswer
    BY DEF Inv, Proceeds, Regenerates
  <1>6. Proceeds'
    <2>1. \A i \in 1 .. Len(rest) : \E j \in 1 .. Len(listed) : rest[i] = listed[j]
      BY <1>1, <1>5
    <2>2. Len(read) + Len(rest) = Len(listed)
      <3>1. Len(got) + 1 + (Len(todo) - 1) = Len(got) + Len(todo)
        BY <1>1, <1>2
      <3> QED
        BY <1>1, <1>2, <1>5, <3>1
    <2>3. ASSUME NEW i \in 1 .. Len(rest)
          PROVE  rest[i] = listed[Len(read) + i]
      <3>1. rest[i] = listed[Len(got) + (i + 1)]
        BY <1>1, <1>5
      <3>2. Len(got) + (i + 1) = Len(read) + i
        BY <1>1, <1>2
      <3> QED
        BY <3>1, <3>2
    <2>4. kind # "diff" /\ kind = kind'
      BY <1>5 DEF Analysed
    <2>5. kind = "analytics" => Len(listed) = 1
      BY <1>5 DEF Inv, Proceeds
    <2>6. kind = "heatmap" => \A i \in 1 .. Len(read) : read[i] = Current
      <3>1. kind = "heatmap" => \A i \in 1 .. Len(got) : got[i] = Current
        BY <1>5 DEF Inv, Proceeds, Regenerates
      <3> QED
        BY <1>2, <3>1
    <2> QED
      BY <1>3, <1>5, <2>1, <2>2, <2>3, <2>4, <2>5, <2>6 DEF Proceeds, Regenerates
  <1>7. Asks'
    BY <1>3, <1>5 DEF Inv, Asks, Analysed, Regenerates
  <1> QED
    BY <1>4, <1>6, <1>7 DEF Inv

LEMMA ReadEntryInv == ASSUME Inv, ReadEntry PROVE Inv'
  <1>1. CASE Head(todo) \in envelope
    BY <1>1, NextTodo DEF ReadEntry
  <1>2. CASE Head(todo) \notin envelope
    BY <1>2, AnswerEnds DEF ReadEntry
  <1> QED
    BY <1>1, <1>2

LEMMA ListedInv == ASSUME Inv, Listed PROVE Inv'
  <1>1. CASE kind = "scans"
    BY <1>1, AnswerEnds DEF Listed
  <1>2. CASE kind # "scans"
    <2>1. /\ pc = "entries" /\ pc' = "gather" /\ todo' = listed
          /\ UNCHANGED <<kind, listed, got, answer, began, requests, store>>
      BY <1>2 DEF Listed, Goto
    <2>2. Typed'
      BY <2>1 DEF Inv, Typed, store, files, writer, ghost
    <2>3. Proceeds'
      <3>1. kind \in Analysed /\ kind # "diff" /\ kind # "analytics"
        BY <1>2, <2>1 DEF Inv, Proceeds, Listing, Analysed
      <3>2. got = <<>>
        BY <2>1 DEF Inv, Proceeds
      <3>3. Len(listed) \in Nat
        BY DEF Inv, Typed
      <3>4. /\ Len(got) + Len(listed) = Len(listed)
            /\ \A i \in 1 .. Len(listed) : listed[i] = listed[Len(got) + i]
            /\ \A i \in 1 .. Len(got) : FALSE
        BY <3>2, <3>3
      <3> QED
        BY <2>1, <3>1, <3>4 DEF Inv, Proceeds, Regenerates
    <2>4. Asks'
      BY <2>1 DEF Inv, Asks, store, files, ghost
    <2> QED
      BY <2>2, <2>3, <2>4 DEF Inv
  <1> QED
    BY <1>1, <1>2

LEMMA ReadSidecarInv == ASSUME Inv, ReadSidecar PROVE Inv'
  <1>1. CASE Usable(Head(todo))
    <2>1. /\ sidecar[Head(todo)] \in Format
          /\ kind = "heatmap" => sidecar[Head(todo)] = Current
      BY <1>1 DEF Usable
    <2>2. /\ pc = "gather" /\ todo # <<>> /\ Gathered(sidecar[Head(todo)])
          /\ UNCHANGED <<kind, listed, answer, began, requests, store>>
      BY <1>1 DEF ReadSidecar
    <2>3. FilesTyped' /\ mixed' \in BOOLEAN
      BY <2>2 DEF Inv, Typed, FilesTyped, store, files, ghost
    <2> QED
      BY <2>1, <2>2, <2>3, GatheredInv DEF store, files, writer, ghost
  <1>2. CASE ~ Usable(Head(todo))
    <2>1. /\ pc = "gather" /\ pc' = "load" /\ todo # <<>>
          /\ UNCHANGED <<todo, kind, listed, got, answer, began, requests, store>>
      BY <1>2 DEF ReadSidecar, Goto
    <2>2. Typed'
      BY <2>1 DEF Inv, Typed, store, files, writer, ghost
    <2>3. Proceeds'
      BY <2>1 DEF Inv, Proceeds, Regenerates
    <2>4. Asks'
      BY <2>1 DEF Inv, Asks, store, files, ghost
    <2> QED
      BY <2>2, <2>3, <2>4 DEF Inv
  <1> QED
    BY <1>1, <1>2

LEMMA LoadEnvelopeInv == ASSUME Inv, LoadEnvelope PROVE Inv'
  <1>1. CASE Head(todo) \notin envelope
    BY <1>1, AnswerEnds DEF LoadEnvelope
  <1>2. CASE Head(todo) \in envelope /\ kind = "diff"
    BY <1>2, NextTodo DEF LoadEnvelope
  <1>3. CASE Head(todo) \in envelope /\ kind # "diff"
    <2>1. /\ pc = "load" /\ pc' = "open" /\ todo # <<>>
          /\ UNCHANGED <<todo, kind, listed, got, answer, began, requests, store>>
      BY <1>3 DEF LoadEnvelope, Goto
    <2>2. Typed'
      BY <2>1 DEF Inv, Typed, store, files, writer, ghost
    <2>3. Proceeds'
      <3>1. kind \in Analysed
        BY <1>3, <2>1 DEF Inv, Proceeds
      <3> QED
        BY <2>1, <3>1 DEF Inv, Proceeds, Regenerates
    <2>4. Asks'
      BY <2>1 DEF Inv, Asks, store, files, ghost
    <2> QED
      BY <2>2, <2>3, <2>4 DEF Inv
  <1> QED
    BY <1>1, <1>2, <1>3

\* The server writes a sidecar, or fails to.
LEMMA RegenInv ==
  ASSUME Inv, RegenOpens \/ RegenWrites \/ RegenRenames \/ RegenFails
  PROVE  Inv'
  <1>1. /\ pc \in Regenerates /\ todo # <<>> /\ kind \in Analysed
        /\ UNCHANGED <<kind, listed, answer, began, envelope, recorded, recorder,
                       pruned>>
    BY DEF Inv, Proceeds, Regenerates, Regenerating, writer, ghost, Disturb,
           RegenOpens, RegenWrites, RegenRenames, RegenFails
  <1>2. Head(todo) \in ScanId
    BY <1>1, RestTyped
  <1>3. mixed' \in BOOLEAN
    <2>1. CASE RegenFails
      BY <2>1, Zenon DEF RegenFails, Disturb
    <2>2. CASE UNCHANGED ghost
      BY <2>2 DEF Inv, Typed, ghost
    <2> QED
      BY <2>1, <2>2 DEF RegenOpens, RegenWrites, RegenRenames
  <1>4. FilesTyped'
    <2>1. \E v : \/ OpenTmp(Head(todo), "server") \/ WriteTmp(Head(todo), "server", v)
                 \/ RenameTmp(Head(todo), "server") \/ CloseTmp(Head(todo), "server")
      BY DEF RegenOpens, RegenWrites, RegenRenames, RegenFails
    <2> QED
      BY <1>2, <2>1, StoreTyped DEF FilesTyped, Inv
  <1>5. CASE RegenOpens \/ RegenWrites
    <2>1. /\ pc' \in Regenerates /\ UNCHANGED <<todo, got>>
      BY <1>5 DEF RegenOpens, RegenWrites, Goto, Regenerates
    <2>2. Typed'
      BY <1>1, <1>3, <1>4, <2>1 DEF Inv, Typed, FilesTyped
    <2>3. Proceeds'
      <3>1. pc # "idle" /\ pc' \notin {"idle", "list", "entries", "gather", "load"}
        BY <1>1, <2>1 DEF Regenerates
      <3> QED
        BY <1>1, <2>1, <3>1 DEF Inv, Proceeds
    <2>4. Asks'
      <3>1. pc \notin {"idle", "list"}
        BY <1>1 DEF Regenerates
      <3> QED
        BY <1>1, <2>1, <3>1 DEF Inv, Asks
    <2> QED
      BY <2>2, <2>3, <2>4 DEF Inv
  <1>6. CASE RegenRenames \/ RegenFails
    <2>1. Gathered(Current) /\ Current \in Format
      BY <1>6 DEF RegenRenames, RegenFails, Format
    <2> QED
      BY <1>1, <1>3, <1>4, <2>1, GatheredInv
  <1> QED
    BY <1>5, <1>6

LEMMA ReplyInv == ASSUME Inv, Reply PROVE Inv'
  BY AnswerEnds DEF Reply

LEMMA ServerDiesInv == ASSUME Inv, ServerDies PROVE Inv'
  <1>1. FilesTyped'
    <2>1. CASE pc \in {"open", "write", "rename"}
      <3>1. Head(todo) \in ScanId
        BY <2>1, RestTyped DEF Inv, Proceeds, Regenerates
      <3> QED
        BY <2>1, <3>1, StoreTyped DEF ServerDies, FilesTyped, Inv
    <2>2. CASE pc \notin {"open", "write", "rename"}
      BY <2>2 DEF ServerDies, FilesTyped, Inv, Typed
    <2> QED
      BY <2>1, <2>2
  <1> QED
    BY <1>1, EndInv DEF ServerDies, Goto, writer, ghost

LEMMA NextInv == Inv /\ [Next]_vars => Inv'
  <1> SUFFICES ASSUME Inv, [Next]_vars PROVE Inv'
    OBVIOUS
  <1>1. ASSUME NEW report \in Report, WriteEnvelope(report) PROVE Inv'
    BY <1>1, WriteEnvelopeInv
  <1>2. ASSUME NEW s \in ScanId, RecorderStep(s) PROVE Inv'
    BY <1>2, RecorderInv
  <1>3. CASE PruneEnvelope \/ \E s \in 1 .. Len(recorded) : DeleteScan(s)
    BY <1>3, RemovalInv
  <1>4. ASSUME NEW k \in Listing, GetListing(k) PROVE Inv'
    <2>1. <<>> \in Seq(1 .. Len(recorded))
      OBVIOUS
    <2> QED
      BY <1>4, <2>1, RequestInv DEF GetListing
  <1>5. ASSUME NEW s \in 1 .. Len(recorded), GetAnalytics(s) PROVE Inv'
    <2>1. <<s>> \in Seq(1 .. Len(recorded)) /\ Len(<<s>>) = 1
      OBVIOUS
    <2> QED
      BY <1>5, <2>1, RequestInv DEF GetAnalytics
  <1>6. ASSUME NEW from \in 1 .. Len(recorded), NEW to \in 1 .. Len(recorded),
               GetDiff(from, to)
        PROVE  Inv'
    <2>1. <<from, to>> \in Seq(1 .. Len(recorded)) /\ Len(<<from, to>>) = 2
      OBVIOUS
    <2> QED
      BY <1>6, <2>1, RequestInv DEF GetDiff
  <1>7. CASE ServerStep
    BY <1>7, ReadDirInv, ReadEntryInv, ListedInv, ReadSidecarInv, LoadEnvelopeInv,
       RegenInv, ReplyInv DEF ServerStep
  <1>8. CASE ServerDies
    BY <1>8, ServerDiesInv
  <1>9. CASE UNCHANGED vars
    <2>1. Typed'
      BY <1>9 DEF Inv, Typed, vars, files, writer, server, ghost
    <2>2. Proceeds' /\ Asks'
      BY <1>9 DEF Inv, Proceeds, Asks, vars, files, writer, server, ghost
    <2> QED
      BY <2>1, <2>2 DEF Inv
  <1> QED
    BY <1>1, <1>2, <1>3, <1>4, <1>5, <1>6, <1>7, <1>8, <1>9 DEF Next

LEMMA AlwaysInv == Spec => []Inv
  BY InitInv, NextInv, PTL DEF Spec

-----------------------------------------------------------------------------
(* Listings.                                                               *)

\* When an answer is given: at these steps, and it stays until the next request.
Answers ==
  \E status, body :
    /\ Answer(status, body) /\ UNCHANGED store
    /\ pc \notin {"idle", "list"}
    /\ \/ status = 200 /\ kind = "scans"
       \/ Reply /\ status = 200 /\ body = Body
       \/ status # 200 /\ todo # <<>> /\ Head(todo) \notin envelope

LEMMA AnswerStands ==
  ASSUME Inv, [Next]_vars
  PROVE  \/ Answers
         \/ answer' = NoAnswer
         \/ UNCHANGED <<answer, began, pruned>>
  <1>1. ASSUME NEW report \in Report, WriteEnvelope(report)
        PROVE  UNCHANGED <<answer, began, pruned>>
    BY <1>1 DEF WriteEnvelope, server, ghost
  <1>2. ASSUME NEW s \in ScanId, RecorderStep(s)
        PROVE  UNCHANGED <<answer, began, pruned>>
    BY <1>2, RecorderFrame DEF Inv, SameRequest
  <1>3. CASE PruneEnvelope
    BY <1>3 DEF Inv, Typed, Proceeds, PruneEnvelope, server
  <1>4. ASSUME NEW s, DeleteScan(s)
        PROVE  UNCHANGED <<answer, began, pruned>>
    BY <1>4 DEF DeleteScan, ghost
  <1>5. ASSUME NEW k, NEW scans, NEW there, Request(k, scans, there)
        PROVE  answer' = NoAnswer
    BY <1>5 DEF Request
  <1>6. CASE ServerDies
    BY <1>6 DEF ServerDies, ghost
  <1>7. CASE ReadDir \/ ReadSidecar
    BY <1>7 DEF ReadDir, ReadSidecar, store, ghost
  <1>8. CASE RegenOpens \/ RegenWrites \/ RegenRenames \/ RegenFails
    BY <1>8 DEF RegenOpens, RegenWrites, RegenRenames, RegenFails, Regenerating,
                Disturb, ghost
  <1>9. CASE ReadEntry
    <2>1. CASE Head(todo) \in envelope
      BY <1>9, <2>1 DEF ReadEntry, store, ghost
    <2>2. CASE Head(todo) \notin envelope
      BY <1>9, <2>2 DEF ReadEntry, Answers
    <2> QED
      BY <2>1, <2>2
  <1>10. CASE Listed
    <2>1. CASE kind = "scans"
      BY <1>10, <2>1 DEF Listed, Answers
    <2>2. CASE kind # "scans"
      BY <1>10, <2>2 DEF Listed, store, ghost
    <2> QED
      BY <2>1, <2>2
  <1>11. CASE LoadEnvelope
    <2>1. CASE Head(todo) \in envelope
      BY <1>11, <2>1 DEF LoadEnvelope, store, ghost
    <2>2. CASE Head(todo) \notin envelope
      BY <1>11, <2>2 DEF LoadEnvelope, Answers
    <2> QED
      BY <2>1, <2>2
  <1>12. CASE Reply
    BY <1>12 DEF Reply, Answers
  <1>13. CASE UNCHANGED vars
    BY <1>13 DEF vars, server, ghost
  <1> QED
    BY <1>1, <1>2, <1>3, <1>4, <1>5, <1>6, <1>7, <1>8, <1>9, <1>10, <1>11, <1>12,
       <1>13 DEF Next, ServerStep, GetListing, GetAnalytics, GetDiff

LEMMA AnswerLists == ASSUME Inv, Answers PROVE ListsWhatIsThere'
  <1>1. PICK status, body :
          /\ Answer(status, body) /\ UNCHANGED store
          /\ pc \notin {"idle", "list"}
          /\ status # 200 => todo # <<>> /\ Head(todo) \notin envelope
    BY DEF Answers
  <1>2. /\ answer'.kind = kind /\ answer'.status = status /\ answer'.scans = listed
        /\ began' = began /\ pruned' = pruned
    BY <1>1 DEF Answer, store, ghost
  <1>3. DOMAIN listed = 1 .. Len(listed)
    BY DEF Inv, Typed
  <1>4. /\ \A s \in began.scans : s \in envelope \/ pruned
        /\ kind \in Listing =>
             /\ \A i, j \in 1 .. Len(listed) : i < j => listed[i] < listed[j]
             /\ \A i \in 1 .. Len(listed) :
                  /\ listed[i] \in began.scans \/ listed[i] > began.count
                  /\ listed[i] \in envelope \/ pruned
             /\ \A s \in began.scans :
                  (\E i \in 1 .. Len(listed) : listed[i] = s) \/ pruned
    BY <1>1 DEF Inv, Asks
  <1>5. ToSet(listed) = {listed[i] : i \in 1 .. Len(listed)}
    BY <1>3 DEF ToSet
  <1>6. ASSUME status # 200
        PROVE  pruned \/ (kind \notin Listing /\ ~ ToSet(listed) \subseteq began.scans)
    <2>1. PICK j \in 1 .. Len(listed) : Head(todo) = listed[j]
      <3>1. 1 \in 1 .. Len(todo) /\ Head(todo) = todo[1]
        BY <1>1, <1>6, RestTyped
      <3> QED
        BY <3>1 DEF Inv, Proceeds
    <2>2. listed[j] \notin envelope /\ listed[j] \in ToSet(listed)
      BY <1>1, <1>5, <1>6, <2>1
    <2> QED
      BY <1>4, <2>2
  <1>7. ASSUME kind \in Listing
        PROVE  /\ \A i, j \in DOMAIN listed : i < j => listed[i] < listed[j]
               /\ ToSet(listed)
                    \subseteq {s \in ToSet(listed) : s > began.count} \cup began.scans
               /\ began.scans \ ToSet(listed) # {} => pruned
    BY <1>3, <1>4, <1>5, <1>7
  <1> QED
    BY <1>2, <1>6, <1>7 DEF ListsWhatIsThere

\* A listing shows, oldest first, every scan that was there throughout the
\* request and none deleted before it, and a request fails only if a scan it is
\* about was not there or was pruned meanwhile: the reads of list_scans and of
\* the envelopes, without the lock.
THEOREM ListingsShowWhatIsThere == Spec => []ListsWhatIsThere
  <1>1. Init => ListsWhatIsThere
    BY DEF Init, ListsWhatIsThere
  <1>2. Inv /\ ListsWhatIsThere /\ [Next]_vars => ListsWhatIsThere'
    <2> SUFFICES ASSUME Inv, ListsWhatIsThere, [Next]_vars PROVE ListsWhatIsThere'
      OBVIOUS
    <2>1. CASE Answers
      BY <2>1, AnswerLists
    <2>2. CASE answer' = NoAnswer
      BY <2>2 DEF ListsWhatIsThere
    <2>3. CASE UNCHANGED <<answer, began, pruned>>
      BY <2>3 DEF ListsWhatIsThere
    <2> QED
      BY <2>1, <2>2, <2>3, AnswerStands
  <1> QED
    BY <1>1, <1>2, AlwaysInv, PTL DEF Spec

-----------------------------------------------------------------------------
(* The sidecars a heatmap leaves.                                          *)

Heals ==
  pc # "idle" /\ ~mixed =>
    /\ pc \in {"write", "rename"} => at[Head(todo)]["server"] = "tmp"
    /\ pc = "write" => tmp[Head(todo)] = Torn
    /\ pc = "rename" => tmp[Head(todo)] = Current
    /\ kind = "heatmap" =>
         \A i \in 1 .. Len(got) : sidecar[listed[i]] = Current

\* Steps of others, and those that only read.
LEMMA HealsFrame ==
  ASSUME Heals, UNCHANGED <<pc, kind, listed, todo, got>>,
         \/ pc = "idle" \/ mixed' \/ UNCHANGED <<sidecar, tmp, at, mixed>>
  PROVE  Heals'
  BY DEF Heals

LEMMA ReadAreListed ==
  ASSUME Inv, pc \in {"gather"} \cup Regenerates
  PROVE  \A i \in 1 .. Len(got) : i \in 1 .. Len(listed) /\ listed[i] \in ScanId
  <1>1. /\ got \in Seq(Format) /\ listed \in Seq(ScanId) /\ todo \in Seq(ScanId)
        /\ Len(got) + Len(todo) = Len(listed)
    BY DEF Inv, Typed, Proceeds, Regenerates
  <1>2. Len(got) \in Nat /\ Len(todo) \in Nat /\ Len(listed) \in Nat
    BY <1>1
  <1>3. \A i \in 1 .. Len(got) : i \in 1 .. Len(listed)
    BY <1>1, <1>2
  <1> QED
    BY <1>1, <1>3

\* A sidecar that was read, or renamed into place.
LEMMA GatheredHeals ==
  ASSUME Inv, Heals, NEW v, Gathered(v), todo # <<>>,
         pc \in {"gather"} \cup Regenerates, UNCHANGED <<kind, listed, mixed>>,
         kind = "heatmap" /\ ~mixed =>
           /\ sidecar'[Head(todo)] = Current
           /\ \A s \in ScanId : s # Head(todo) => sidecar'[s] = sidecar[s]
  PROVE  Heals'
  <1>1. /\ pc' = "gather" /\ got' = Append(got, v) /\ got \in Seq(Format)
        /\ listed \in Seq(ScanId) /\ listed' = listed
    BY DEF Inv, Typed, Gathered, Goto
  <1>2. /\ Len(got) \in Nat /\ Len(got') = Len(got) + 1
    BY <1>1
  <1>3. /\ Len(todo) \in Nat \ {0} /\ Head(todo) = todo[1]
    BY RestTyped
  <1>4. /\ Len(got) + Len(todo) = Len(listed)
        /\ Head(todo) = listed[Len(got) + 1]
    BY <1>3 DEF Inv, Proceeds, Regenerates
  <1>5. SUFFICES ASSUME kind = "heatmap", ~mixed, NEW i \in 1 .. Len(got')
                 PROVE  sidecar'[listed[i]] = Current
    BY <1>1 DEF Heals
  <1>6. CASE i = Len(got) + 1
    BY <1>4, <1>5, <1>6
  <1>7. CASE i \in 1 .. Len(got)
    <2>1. sidecar[listed[i]] = Current
      BY <1>5, <1>7 DEF Heals, Regenerates
    <2>2. listed[i] \in ScanId
      BY <1>7, ReadAreListed
    <2> QED
      BY <1>5, <2>1, <2>2
  <1> QED
    BY <1>2, <1>6, <1>7

LEMMA RegenHeals ==
  ASSUME Inv, Heals, RegenOpens \/ RegenWrites \/ RegenRenames \/ RegenFails
  PROVE  Heals'
  <1>1. /\ pc \in Regenerates /\ todo # <<>> /\ UNCHANGED <<kind, listed>>
        /\ pc # "idle" /\ Head(todo) \in ScanId
    <2>1. pc \in Regenerates /\ UNCHANGED <<kind, listed>>
      BY DEF Regenerating, Regenerates, RegenOpens, RegenWrites, RegenRenames,
             RegenFails
    <2> QED
      BY <2>1, RestTyped DEF Inv, Proceeds, Regenerates
  <1>2. CASE RegenOpens
    <2>1. /\ tmp'[Head(todo)] = Torn /\ at'[Head(todo)]["server"] = "tmp"
          /\ pc' = "write" /\ UNCHANGED <<sidecar, got, todo, mixed>>
      BY <1>1, <1>2 DEF RegenOpens, OpenTmp, Goto, ghost, Inv, Typed
    <2> QED
      BY <1>1, <2>1 DEF Heals
  <1>3. CASE RegenWrites
    <2>1. pc = "write" /\ pc' = "rename" /\ UNCHANGED <<at, got, todo, mixed>>
      BY <1>3 DEF RegenWrites, WriteTmp, Goto, ghost
    <2>2. ASSUME ~mixed
          PROVE  /\ tmp'[Head(todo)] = Current
                 /\ \A s \in ScanId : sidecar'[s] = sidecar[s]
      <3>1. at[Head(todo)]["server"] = "tmp" /\ tmp[Head(todo)] = Torn
        BY <2>1, <2>2 DEF Heals
      <3>2. Torn \notin Format
        BY SpecialFiles
      <3>3. Filled(tmp[Head(todo)], Current) = Current
        BY <3>1, <3>2 DEF Filled
      <3>4. tmp'[Head(todo)] = Current
        BY <1>1, <1>3, <3>1, <3>3 DEF RegenWrites, WriteTmp, Inv, Typed
      <3>5. \A s \in ScanId : sidecar'[s] = sidecar[s]
        BY <1>3, <3>1 DEF RegenWrites, WriteTmp, Inv, Typed
      <3> QED
        BY <3>4, <3>5
    <2>3. \A i \in 1 .. Len(got) : listed[i] \in ScanId
      BY <1>1, ReadAreListed
    <2> QED
      BY <1>1, <2>1, <2>2, <2>3 DEF Heals
  <1>4. CASE RegenRenames
    <2>1. /\ pc = "rename" /\ Gathered(Current) /\ mixed' = mixed
          /\ sidecar' = [sidecar EXCEPT ![Head(todo)] = tmp[Head(todo)]]
      BY <1>4 DEF RegenRenames, RenameTmp, ghost
    <2>2. ~mixed => /\ sidecar'[Head(todo)] = Current
                    /\ \A s \in ScanId : s # Head(todo) => sidecar'[s] = sidecar[s]
      BY <1>1, <2>1 DEF Heals, Inv, Typed
    <2> QED
      BY <1>1, <2>1, <2>2, GatheredHeals
  <1>5. CASE RegenFails
    BY <1>1, <1>5 DEF RegenFails, Disturb, Heals
  <1> QED
    BY <1>2, <1>3, <1>4, <1>5

LEMMA NextHeals ==
  ASSUME Inv, Heals, [Next]_vars
  PROVE  Heals'
  <1>1. ASSUME NEW report \in Report, WriteEnvelope(report) PROVE Heals'
    BY <1>1, HealsFrame DEF WriteEnvelope, server, ghost
  <1>2. ASSUME NEW s \in ScanId, RecorderStep(s) PROVE Heals'
    BY <1>2, RecorderFrame, HealsFrame DEF Inv, SameRequest
  <1>3. CASE PruneEnvelope \/ \E s \in 1 .. Len(recorded) : DeleteScan(s)
    BY <1>3, HealsFrame DEF PruneEnvelope, DeleteScan, server, ghost
  <1>4. ASSUME NEW k, NEW scans, NEW there, Request(k, scans, there),
               there \in {"list", "gather", "load"}
        PROVE  Heals'
    <2>1. got' = <<>> /\ pc' = there
      BY <1>4 DEF Request, Goto
    <2>2. Len(got') = 0
      BY <2>1
    <2> QED
      BY <1>4, <2>1, <2>2 DEF Heals
  <1>5. CASE ReadDir
    <2>1. got = <<>> /\ got' = got /\ pc' = "entries"
      BY <1>5 DEF ReadDir, Goto, Inv, Proceeds
    <2>2. Len(got') = 0
      BY <2>1
    <2> QED
      BY <2>1, <2>2 DEF Heals
  <1>6. CASE ReadSidecar
    <2>1. CASE Usable(Head(todo))
      <3>1. /\ pc = "gather" /\ todo # <<>> /\ Gathered(sidecar[Head(todo)])
            /\ UNCHANGED <<kind, listed, mixed, sidecar>>
        BY <1>6, <2>1 DEF ReadSidecar, store, files, ghost
      <3>2. kind = "heatmap" => sidecar[Head(todo)] = Current
        BY <2>1 DEF Usable
      <3> QED
        BY <3>1, <3>2, GatheredHeals
    <2>2. CASE ~ Usable(Head(todo))
      BY <1>6, <2>2 DEF ReadSidecar, Goto, Heals, store, files, ghost
    <2> QED
      BY <2>1, <2>2
  <1>7. CASE RegenOpens \/ RegenWrites \/ RegenRenames \/ RegenFails
    BY <1>7, RegenHeals
  <1>8. CASE pc' = "idle"
    BY <1>8 DEF Heals
  <1>9. CASE ReadEntry \/ Listed
    <2>1. CASE pc' # "idle"
      <3>1. pc' \in {"entries", "gather"} /\ pc \in {"entries"}
            /\ UNCHANGED <<kind, listed, got, sidecar, mixed>>
        BY <1>9, <2>1 DEF ReadEntry, Listed, Answer, Goto, store, files, ghost
      <3> QED
        BY <3>1 DEF Heals
    <2> QED
      BY <1>8, <2>1
  <1>10. CASE LoadEnvelope
    <2>1. CASE pc' # "idle"
      <3>1. pc' \in {"load", "open"} /\ pc \in {"load"}
            /\ UNCHANGED <<kind, listed, got, sidecar, mixed>>
        BY <1>10, <2>1 DEF LoadEnvelope, Answer, Goto, store, files, ghost
      <3> QED
        BY <3>1 DEF Heals
    <2> QED
      BY <1>8, <2>1
  <1>11. CASE Reply \/ ServerDies
    BY <1>8, <1>11 DEF Reply, ServerDies, Answer, Goto
  <1>12. CASE UNCHANGED vars
    BY <1>12, HealsFrame DEF vars, files, server, ghost
  <1> QED
    BY <1>1, <1>2, <1>3, <1>4, <1>5, <1>6, <1>7, <1>9, <1>10, <1>11, <1>12
       DEF Next, ServerStep, GetListing, GetAnalytics, GetDiff

\* When a heatmap has been answered, every scan it is about has a sidecar of the
\* current version, unless a recorder was at sidecars meanwhile or a write
\* failed: what lets a store of an older version be brought up to date.
THEOREM HeatmapsHeal == Spec => HeatmapHeals
  <1>1. Init => Heals
    BY DEF Init, Heals
  <1>2. Inv /\ Heals /\ [Next]_vars => Heals'
    BY NextHeals
  <1>3. Inv /\ Inv' /\ Heals /\ [Next]_vars
          => [pc # "idle" /\ pc' = "idle" /\ answer' # NoAnswer
                /\ answer'.kind = "heatmap" /\ answer'.status = 200 /\ ~mixed
              => \A s \in ToSet(answer'.scans) : sidecar'[s] = Current]_vars
    <2> SUFFICES ASSUME Inv, Heals, [Next]_vars,
                        pc # "idle", answer' # NoAnswer,
                        answer'.kind = "heatmap", answer'.status = 200, ~mixed,
                        pc' = "idle"
                 PROVE  \A s \in ToSet(answer'.scans) : sidecar'[s] = Current
      OBVIOUS
    <2>1. answer = NoAnswer
      BY DEF Inv, Proceeds
    <2>2. Answers
      BY <2>1, AnswerStands
    <2>3. kind = "heatmap" /\ answer'.scans = listed /\ sidecar' = sidecar
      BY <2>2 DEF Answers, Answer, store, files
    <2>4. pc = "gather" /\ todo = <<>>
      <3>1. PICK status, body : /\ Answer(status, body)
                                /\ \/ status = 200 /\ kind = "scans"
                                   \/ Reply
                                   \/ status # 200
        BY <2>2 DEF Answers
      <3>2. answer'.status = status
        BY <3>1 DEF Answer
      <3> QED
        BY <2>3, <3>1, <3>2 DEF Reply
    <2>5. /\ Len(got) = Len(listed) /\ DOMAIN listed = 1 .. Len(listed)
      <3>1. Len(got) + Len(todo) = Len(listed)
        BY <2>3, <2>4 DEF Inv, Proceeds, Analysed
      <3>2. Len(todo) = 0 /\ Len(got) \in Nat /\ DOMAIN listed = 1 .. Len(listed)
        BY <2>4 DEF Inv, Typed
      <3> QED
        BY <3>1, <3>2
    <2> QED
      BY <2>3, <2>4, <2>5 DEF Heals, ToSet
  <1> QED
    BY <1>1, <1>2, <1>3, AlwaysInv, PTL DEF Spec, HeatmapHeals

-----------------------------------------------------------------------------
(* From sidecars or from envelopes, the results are the same.              *)

\* What a sidecar is read as, field by field.
LEMMA ReadAs ==
  ASSUME NEW scan, NEW report, NEW format
  PROVE  LET full == compute_scan_analytics(scan, report)
             read == Deserialised(format, full)
         IN  /\ AgreeBut(Current \ format, read, full)
             /\ read.scan_id = full.scan_id /\ read.total = full.total
             /\ read.severity = full.severity /\ read.scores = full.scores
             /\ read.failures =
                  IF "failures" \in Current \ format THEN 0 ELSE report.failures
             /\ format = Current => read = full
  <1> DEFINE full == compute_scan_analytics(scan, report)
             read == Deserialised(format, full)
  <1>1. /\ DOMAIN full = {"version", "scan_id", "total", "severity", "counts",
                          "weighted", "scores", "failures"}
        /\ full.failures = report.failures
        /\ full = [f \in DOMAIN full |-> full[f]]
    BY DEF compute_scan_analytics
  <1>2. Current = {"version", "counts", "weighted", "failures"} /\ Absent.failures = 0
    BY DEF Current, Absent
  <1> HIDE DEF full
  <1>3. /\ DOMAIN read = DOMAIN full
        /\ \A f \in DOMAIN full :
             read[f] = IF f \in Current \ format THEN Absent[f] ELSE full[f]
    BY DEF Deserialised
  <1>4. AgreeBut(Current \ format, read, full)
    BY <1>3 DEF AgreeBut
  <1>5. format = Current => read = full
    <2>1. format = Current => read = [f \in DOMAIN full |-> full[f]]
      BY DEF Deserialised
    <2> QED
      BY <1>1, <2>1
  <1> HIDE DEF read
  <1>6. /\ read.scan_id = full.scan_id /\ read.total = full.total
        /\ read.severity = full.severity /\ read.scores = full.scores
        /\ read.failures = IF "failures" \in Current \ format THEN 0 ELSE report.failures
    BY <1>1, <1>2, <1>3
  <1> QED
    BY <1>4, <1>5, <1>6 DEF full, read

LEMMA HeatmapsAgree ==
  ASSUME NEW entries, NEW all, DOMAIN all = DOMAIN entries,
         \A i \in DOMAIN entries :
           all[i] = compute_scan_analytics(entries[i].scan_id, entries[i].report)
  PROVE  compute_heatmap_from_analytics(all) = compute_heatmap(entries)
  <1>1. \A i \in DOMAIN entries :
          /\ all[i].scan_id = entries[i].scan_id
          /\ all[i].counts = Counts(entries[i].report.findings)
          /\ all[i].weighted = Weights(entries[i].report.findings)
          /\ DOMAIN all[i].counts = Files(entries[i].report.findings)
    BY DEF compute_scan_analytics, Counts
  <1>2. UNION {DOMAIN all[i].counts : i \in DOMAIN all}
          = UNION {Files(entries[i].report.findings) : i \in DOMAIN entries}
    BY <1>1
  <1>3. [i \in DOMAIN all |-> all[i].scan_id]
          = [i \in DOMAIN entries |-> entries[i].scan_id]
    BY <1>1
  <1>4. \A f : [i \in DOMAIN all |-> Or0(all[i].counts, f)]
                 = [i \in DOMAIN entries |-> Or0(Counts(entries[i].report.findings), f)]
    BY <1>1
  <1>5. \A f : [i \in DOMAIN all |-> Or0(all[i].weighted, f)]
                 = [i \in DOMAIN entries |-> Or0(Weights(entries[i].report.findings), f)]
    BY <1>1
  <1> QED
    BY <1>2, <1>3, <1>4, <1>5 DEF compute_heatmap, compute_heatmap_from_analytics

\* Analytics of these scans, read from sidecars in these formats.
OfScans(all, formats, entries) ==
  /\ DOMAIN all = DOMAIN entries /\ DOMAIN formats = DOMAIN entries
  /\ \A i \in DOMAIN entries :
       all[i] = Deserialised(formats[i],
                             compute_scan_analytics(entries[i].scan_id, entries[i].report))

\* Analytics read from a sidecar in this format are those of this scan, but for
\* what the format lacks.
AsOf(read, format, entry) ==
  LET full == compute_scan_analytics(entry.scan_id, entry.report)
      lacks == Current \ format
  IN  /\ AgreeBut(lacks, read, full)
      /\ read.scan_id = full.scan_id /\ read.total = full.total
      /\ read.severity = full.severity /\ read.scores = full.scores
      /\ read.failures = IF "failures" \in lacks THEN 0 ELSE entry.report.failures
      /\ format = Current => read = full

LEMMA FieldsAgree ==
  ASSUME NEW entries, NEW formats, NEW all, OfScans(all, formats, entries)
  PROVE  \A i \in DOMAIN entries : AsOf(all[i], formats[i], entries[i])
  <1> TAKE i \in DOMAIN entries
  <1>1. all[i] = Deserialised(formats[i],
                   compute_scan_analytics(entries[i].scan_id, entries[i].report))
    BY DEF OfScans
  <1> QED
    BY <1>1, ReadAs DEF AsOf

\* A point of the trends lacks at most the failures.
LEMMA TrendsAgree ==
  ASSUME NEW entries, NEW formats, NEW all, OfScans(all, formats, entries)
  PROVE  LET body   == compute_trends_from_analytics(all)
             trends == compute_trends(entries)
         IN  /\ DOMAIN body = DOMAIN trends
             /\ \A i \in DOMAIN trends :
                  AgreeBut(Current \ formats[i], body[i], trends[i])
  <1> DEFINE body   == compute_trends_from_analytics(all)
             trends == compute_trends(entries)
  <1>1. DOMAIN body = DOMAIN entries /\ DOMAIN trends = DOMAIN entries
    BY DEF compute_trends, compute_trends_from_analytics, OfScans
  <1>2. ASSUME NEW i \in DOMAIN entries
        PROVE  AgreeBut(Current \ formats[i], body[i], trends[i])
    <2> DEFINE full == compute_scan_analytics(entries[i].scan_id, entries[i].report)
               lacks == Current \ formats[i]
    <2>1. /\ full.scan_id = entries[i].scan_id
          /\ full.scores = entries[i].report.scores
          /\ full.severity = SeverityCounts(entries[i].report.findings)
          /\ full.total = Len(entries[i].report.findings)
      BY DEF compute_scan_analytics
    <2>2. /\ all[i].scan_id = full.scan_id /\ all[i].total = full.total
          /\ all[i].severity = full.severity /\ all[i].scores = full.scores
          /\ "failures" \notin lacks => all[i].failures = entries[i].report.failures
      <3>1. AsOf(all[i], formats[i], entries[i])
        BY FieldsAgree
      <3> QED
        BY <3>1 DEF AsOf
    <2>3. body[i] = [scan_id |-> all[i].scan_id, scores |-> all[i].scores,
                     severity |-> all[i].severity, total |-> all[i].total,
                     failures |-> all[i].failures]
      BY DEF compute_trends_from_analytics, OfScans
    <2>4. trends[i] = [scan_id |-> entries[i].scan_id,
                       scores |-> entries[i].report.scores,
                       severity |-> SeverityCounts(entries[i].report.findings),
                       total |-> Len(entries[i].report.findings),
                       failures |-> entries[i].report.failures]
      BY DEF compute_trends
    <2> HIDE DEF full, lacks, body, trends
    <2>5. DOMAIN body[i] = DOMAIN trends[i]
      BY <2>3, <2>4
    <2>6. \A f \in DOMAIN trends[i] \ lacks : body[i][f] = trends[i][f]
      BY <2>1, <2>2, <2>3, <2>4
    <2>7. AgreeBut(lacks, body[i], trends[i])
      BY <2>5, <2>6 DEF AgreeBut
    <2> QED
      BY <2>7 DEF lacks
  <1> QED
    BY <1>1, <1>2

\* A summary lacks at most fields of its latest scan, and the failures of scans
\* whose sidecars do not have them.
LEMMA SummariesAgree ==
  ASSUME NEW S, NEW T, NEW entries \in Seq(T), NEW all \in Seq(S), NEW formats,
         OfScans(all, formats, entries)
  PROVE  LET body    == compute_project_summary_from_analytics(all)
             summary == compute_project_summary(entries)
             n       == Len(entries)
         IN  /\ AgreeBut({"latest", "failures"}, body, summary)
             /\ DOMAIN body.latest = DOMAIN summary.latest
             /\ \A i \in DOMAIN summary.latest :
                  AgreeBut(Current \ formats[n], body.latest[i], summary.latest[i])
             /\ body.failures =
                  SumOf([i \in DOMAIN entries |->
                           IF "failures" \in Current \ formats[i] THEN 0
                           ELSE entries[i].report.failures])
  <1> DEFINE n == Len(entries)
             whole(i) == compute_scan_analytics(entries[i].scan_id, entries[i].report)
             full == [i \in DOMAIN entries |-> whole(i)]
             sumAll  == SumOf([i \in DOMAIN all |-> all[i].failures])
             sumFull == SumOf([i \in DOMAIN entries |-> entries[i].report.failures])
             body    == SummaryOf(all, sumAll)
             summary == SummaryOf(full, sumFull)
  <1>1. /\ n \in Nat /\ DOMAIN entries = 1 .. n
        /\ DOMAIN all = 1 .. n /\ Len(all) = n
    BY DEF OfScans
  <1>2. full \in Seq({whole(i) : i \in 1 .. n}) /\ Len(full) = n
    <2> HIDE DEF whole, n
    <2>1. full \in [1 .. n -> {whole(i) : i \in 1 .. n}]
      BY <1>1
    <2> QED
      BY <1>1, <2>1
  <1>3. \A i \in 1 .. n :
          /\ AgreeBut(Current \ formats[i], all[i], full[i])
          /\ all[i].scan_id = full[i].scan_id /\ all[i].total = full[i].total
          /\ all[i].severity = full[i].severity /\ all[i].scores = full[i].scores
          /\ all[i].failures = IF "failures" \in Current \ formats[i] THEN 0
                               ELSE entries[i].report.failures
    <2> TAKE i \in 1 .. n
    <2>1. i \in DOMAIN entries /\ full[i] = whole(i)
      BY <1>1
    <2>2. AsOf(all[i], formats[i], entries[i])
      BY <2>1, FieldsAgree
    <2> QED
      BY <2>1, <2>2 DEF AsOf
  <1>4. sumAll = SumOf([i \in DOMAIN entries |->
                          IF "failures" \in Current \ formats[i] THEN 0
                          ELSE entries[i].report.failures])
    <2>1. [i \in DOMAIN all |-> all[i].failures]
            = [i \in DOMAIN entries |->
                 IF "failures" \in Current \ formats[i] THEN 0
                 ELSE entries[i].report.failures]
      BY <1>1, <1>3
    <2> QED
      BY <2>1
  <1> HIDE DEF n, whole, full, sumAll, sumFull
  <1>5. n >= 2 => Delta(all[n - 1], all[n]) = Delta(full[n - 1], full[n])
    <2>1. n >= 2 => n - 1 \in 1 .. n /\ n \in 1 .. n
      BY <1>1
    <2> QED
      BY <1>3, <2>1 DEF Delta
  <1>6. /\ AgreeBut({"latest", "failures"}, body, summary)
        /\ DOMAIN body.latest = DOMAIN summary.latest
        /\ \A i \in DOMAIN summary.latest :
             AgreeBut(Current \ formats[n], body.latest[i], summary.latest[i])
    <2> DEFINE delta == IF n < 2 THEN <<>> ELSE <<Delta(full[n - 1], full[n])>>
    <2>1. CASE n = 0
      <3>1. all = <<>> /\ full = <<>>
        BY <1>1, <1>2, <2>1
      <3>2. /\ body.latest = <<>> /\ summary.latest = <<>>
            /\ body.scans = summary.scans /\ body.delta = summary.delta
            /\ DOMAIN body = {"scans", "latest", "delta", "failures"}
            /\ DOMAIN summary = {"scans", "latest", "delta", "failures"}
        BY <3>1 DEF SummaryOf
      <3> HIDE DEF body, summary
      <3>3. AgreeBut({"latest", "failures"}, body, summary)
        BY <3>2 DEF AgreeBut
      <3> QED
        BY <3>2, <3>3
    <2>2. CASE n # 0
      <3>1. /\ n \in 1 .. n /\ all # <<>> /\ full # <<>>
            /\ Last(all) = all[n] /\ Last(full) = full[n]
        BY <1>1, <1>2, <2>2 DEF Last
      <3>2. body = [scans |-> n, latest |-> <<all[n]>>, delta |-> delta,
                    failures |-> sumAll]
        BY <1>1, <1>5, <3>1 DEF SummaryOf
      <3>3. summary = [scans |-> n, latest |-> <<full[n]>>, delta |-> delta,
                       failures |-> sumFull]
        BY <1>2, <3>1 DEF SummaryOf
      <3> HIDE DEF delta, body, summary
      <3>4. /\ body.latest = <<all[n]>> /\ summary.latest = <<full[n]>>
            /\ body.scans = summary.scans /\ body.delta = summary.delta
            /\ DOMAIN body = {"scans", "latest", "delta", "failures"}
            /\ DOMAIN summary = {"scans", "latest", "delta", "failures"}
        BY <3>2, <3>3
      <3>5. AgreeBut({"latest", "failures"}, body, summary)
        BY <3>4 DEF AgreeBut
      <3>6. AgreeBut(Current \ formats[n], all[n], full[n])
        BY <1>3, <3>1
      <3> QED
        BY <3>4, <3>5, <3>6
    <2> QED
      BY <1>1, <2>1, <2>2
  <1>7. body.failures = sumAll
    BY DEF SummaryOf
  <1>8. /\ compute_project_summary_from_analytics(all) = body
        /\ compute_project_summary(entries) = summary
    BY DEF compute_project_summary, compute_project_summary_from_analytics,
           full, whole, sumAll, sumFull
  <1> HIDE DEF body, summary
  <1> QED
    BY <1>4, <1>6, <1>7, <1>8 DEF n

\* What an answer is about stays recorded.
Stated ==
  answer # NoAnswer /\ answer.status = 200 =>
    /\ answer.scans \in Seq(1 .. Len(recorded))
    /\ answer.kind = "analytics" => Len(answer.scans) = 1
    /\ answer.kind = "diff" => Len(answer.scans) = 2

\* What a good answer says of the scans it is about.
Right ==
  /\ Stated
  /\ AnswersOfEnvelopes
  /\ Answered("diff") =>
       answer.body = compute_scan_diff(Entry(answer.scans[1]), Entry(answer.scans[2]))

LEMMA ListedAreRecorded == ASSUME Inv PROVE listed \in Seq(1 .. Len(recorded))
  <1>1. /\ listed \in Seq(ScanId) /\ Len(recorded) \in Nat
        /\ \A i \in 1 .. Len(listed) : listed[i] <= Len(recorded)
    BY DEF Inv, Typed
  <1>2. ASSUME NEW i \in 1 .. Len(listed) PROVE listed[i] \in 1 .. Len(recorded)
    <2>1. listed[i] \in ScanId
      BY <1>1
    <2> QED
      BY <1>1, <2>1 DEF ScanId
  <1> QED
    BY <1>1, <1>2

LEMMA RecordedStays ==
  ASSUME Inv, [Next]_vars
  PROVE  /\ Len(recorded) \in Nat /\ Len(recorded) <= Len(recorded')
         /\ \A s \in 1 .. Len(recorded) : recorded'[s] = recorded[s]
  <1>1. Len(recorded) \in Nat /\ recorded \in Seq(Report)
    BY DEF Inv, Typed
  <1>2. ASSUME NEW report \in Report, WriteEnvelope(report)
        PROVE  /\ Len(recorded) <= Len(recorded')
               /\ \A s \in 1 .. Len(recorded) : recorded'[s] = recorded[s]
    BY <1>1, <1>2 DEF WriteEnvelope
  <1>3. ASSUME NEW s \in ScanId, RecorderStep(s) PROVE recorded' = recorded
    BY <1>3, RecorderFrame DEF Inv
  <1>4. CASE UNCHANGED recorded
    BY <1>1, <1>4
  <1>5. CASE \/ PruneEnvelope \/ ServerDies \/ UNCHANGED vars
             \/ \E s \in 1 .. Len(recorded) : GetAnalytics(s) \/ DeleteScan(s)
             \/ \E k \in Listing : GetListing(k)
             \/ \E from, to \in 1 .. Len(recorded) : GetDiff(from, to)
    BY <1>4, <1>5 DEF PruneEnvelope, ServerDies, vars, GetAnalytics, DeleteScan,
                      GetListing, GetDiff, Request, writer
  <1>6. CASE ServerStep
    BY <1>4, <1>6 DEF ServerStep, ReadDir, ReadEntry, Listed, ReadSidecar,
                      LoadEnvelope, RegenOpens, RegenWrites, RegenRenames,
                      RegenFails, Regenerating, Reply, store, writer
  <1> QED
    BY <1>1, <1>2, <1>3, <1>4, <1>5, <1>6 DEF Next

\* A good answer stays good.
LEMMA RightStays ==
  ASSUME Inv, [Next]_vars, Right, answer' = answer
  PROVE  Right'
  <1>1. CASE answer = NoAnswer
    BY <1>1 DEF Right, Stated, AnswersOfEnvelopes, Answered
  <1>2. CASE answer # NoAnswer /\ answer.status # 200
    BY <1>2 DEF Right, Stated, AnswersOfEnvelopes, Answered
  <1>3. CASE answer # NoAnswer /\ answer.status = 200
    <2>1. /\ answer.scans \in Seq(1 .. Len(recorded))
          /\ answer.kind = "analytics" => Len(answer.scans) = 1
          /\ answer.kind = "diff" => Len(answer.scans) = 2
      BY <1>3 DEF Right, Stated
    <2>2. /\ Len(recorded) \in Nat /\ Len(recorded') \in Nat
          /\ Len(recorded) <= Len(recorded')
          /\ \A s \in 1 .. Len(recorded) : recorded'[s] = recorded[s]
      BY RecordedStays, NextInv DEF Inv, Typed
    <2>3. Stated'
      <3>1. \A s \in 1 .. Len(recorded) : s \in 1 .. Len(recorded')
        BY <2>2
      <3> QED
        BY <2>1, <3>1 DEF Stated
    <2>4. \A i \in DOMAIN answer.scans :
            /\ answer.scans[i] \in 1 .. Len(recorded)
            /\ recorded'[answer.scans[i]] = recorded[answer.scans[i]]
      BY <2>1, <2>2
    <2>5. Entries' = Entries
      BY <2>4 DEF Entries, Entry
    <2>6. Answered("analytics") => recorded'[answer.scans[1]] = recorded[answer.scans[1]]
      BY <2>1, <2>4 DEF Answered
    <2>7. Answered("diff") => /\ Entry(answer.scans[1])' = Entry(answer.scans[1])
                              /\ Entry(answer.scans[2])' = Entry(answer.scans[2])
      BY <2>1, <2>4 DEF Answered, Entry
    <2>8. AnswersOfEnvelopes'
      BY <2>5, <2>6 DEF Right, AnswersOfEnvelopes, Answered
    <2>9. (Answered("diff") =>
             answer.body = compute_scan_diff(Entry(answer.scans[1]),
                                             Entry(answer.scans[2])))'
      BY <2>7 DEF Right, Answered
    <2> QED
      BY <2>3, <2>8, <2>9 DEF Right
  <1> QED
    BY <1>1, <1>2, <1>3

\* A reply is right.
LEMMA ReplyIsRight ==
  ASSUME Inv, Reply
  PROVE  Right'
  <1> DEFINE all == [i \in DOMAIN got |-> AnalyticsOf(i)]
             entries == [i \in DOMAIN listed |-> Entry(listed[i])]
  <1>1. /\ answer' = [kind |-> kind, status |-> 200, scans |-> listed,
                       read |-> got, body |-> Body]
        /\ recorded' = recorded /\ todo = <<>> /\ pc # "idle"
        /\ pc = IF kind = "diff" THEN "load" ELSE "gather"
    BY DEF Reply, Answer, store, writer, Inv, Proceeds
  <1>2. /\ answer'.kind = kind /\ answer'.scans = listed /\ answer'.body = Body
        /\ answer'.read = got
    BY <1>1
  <1>3. listed \in Seq(1 .. Len(recorded))
    BY ListedAreRecorded
  <1>4. Stated'
    <2>1. /\ kind = "analytics" => Len(listed) = 1
          /\ kind = "diff" => Len(listed) = 2
      BY <1>1 DEF Inv, Proceeds
    <2> QED
      BY <1>1, <1>2, <1>3, <2>1 DEF Stated
  <1>5. Entries' = entries
    BY <1>1, <1>2 DEF Entries, Entry
  <1>6. CASE kind = "diff"
    BY <1>1, <1>2, <1>4, <1>6 DEF Right, Body, AnswersOfEnvelopes, Answered, Entry
  <1>7. CASE kind # "diff"
    <2>1. /\ kind \in Analysed /\ pc = "gather"
          /\ Len(got) = Len(listed) /\ got \in Seq(Format)
      <3>1. kind \in Analysed /\ Len(got) + Len(todo) = Len(listed)
        BY <1>1, <1>7 DEF Inv, Proceeds
      <3>2. /\ got \in Seq(Format) /\ Len(got) \in Nat /\ Len(todo) = 0
        BY <1>1 DEF Inv, Typed
      <3> QED
        BY <1>1, <1>7, <3>1, <3>2
    <2>2. DOMAIN got = DOMAIN listed /\ DOMAIN listed = 1 .. Len(listed)
      BY <1>3, <2>1
    <2>3. \A i \in DOMAIN listed :
            /\ entries[i].scan_id = listed[i]
            /\ entries[i].report = recorded[listed[i]]
            /\ all[i] = AnalyticsOf(i)
      BY <2>2 DEF Entry
    <2>4. OfScans(all, got, entries)
      <3>1. /\ DOMAIN all = DOMAIN entries /\ DOMAIN entries = DOMAIN listed
            /\ DOMAIN got = DOMAIN entries
        BY <2>2
      <3> HIDE DEF all, entries
      <3> QED
        BY <2>3, <3>1 DEF OfScans, AnalyticsOf
    <2>5. kind = "heatmap" =>
            \A i \in DOMAIN entries :
              all[i] = compute_scan_analytics(entries[i].scan_id, entries[i].report)
      <3>1. kind = "heatmap" => \A i \in DOMAIN entries : got[i] = Current
        BY <2>1, <2>2 DEF Inv, Proceeds
      <3> HIDE DEF all, entries
      <3>2. \A i \in DOMAIN entries : AsOf(all[i], got[i], entries[i])
        BY <2>4, FieldsAgree
      <3> QED
        BY <3>1, <3>2 DEF AsOf
    <2>6. /\ all \in Seq({AnalyticsOf(i) : i \in DOMAIN listed})
          /\ entries \in Seq({Entry(listed[i]) : i \in DOMAIN listed})
      <3>1. all \in [1 .. Len(listed) -> {AnalyticsOf(i) : i \in DOMAIN listed}]
        BY <2>2
      <3>2. entries \in [1 .. Len(listed) -> {Entry(listed[i]) : i \in DOMAIN listed}]
        BY <2>2
      <3>3. Len(listed) \in Nat
        BY <1>3
      <3> HIDE DEF all, entries
      <3> QED
        BY <3>1, <3>2, <3>3
    <2> HIDE DEF all, entries
    <2>7. CASE kind = "heatmap"
      <3>1. Body = compute_heatmap(entries)
        <4>1. DOMAIN all = DOMAIN entries
          BY <2>4 DEF OfScans
        <4> QED
          BY <2>5, <2>7, <4>1, HeatmapsAgree DEF Body, all
      <3> QED
        BY <1>2, <1>4, <1>5, <2>7, <3>1 DEF Right, AnswersOfEnvelopes, Answered
    <2>8. CASE kind = "trends"
      <3>1. Body = compute_trends_from_analytics(all)
        BY <2>8 DEF Body, all
      <3>2. /\ DOMAIN Body = DOMAIN compute_trends(entries)
            /\ \A i \in DOMAIN compute_trends(entries) :
                 AgreeBut(Current \ got[i], Body[i], compute_trends(entries)[i])
        BY <2>4, <3>1, TrendsAgree
      <3> QED
        BY <1>2, <1>4, <1>5, <2>8, <3>2 DEF Right, AnswersOfEnvelopes, Answered
    <2>9. CASE kind = "summary"
      <3> DEFINE summary == compute_project_summary(entries)
      <3>1. Body = compute_project_summary_from_analytics(all)
        BY <2>9 DEF Body, all
      <3>2. /\ Len(entries) = Len(listed) /\ DOMAIN got = DOMAIN entries
        <4>1. DOMAIN entries = DOMAIN listed
          BY DEF entries
        <4> QED
          BY <1>3, <2>2, <2>6, <4>1
      <3>3. /\ AgreeBut({"latest", "failures"}, Body, summary)
            /\ DOMAIN Body.latest = DOMAIN summary.latest
            /\ \A i \in DOMAIN summary.latest :
                 AgreeBut(Current \ got[Len(entries)], Body.latest[i], summary.latest[i])
            /\ Body.failures =
                 SumOf([i \in DOMAIN entries |->
                          IF "failures" \in Current \ got[i] THEN 0
                          ELSE entries[i].report.failures])
        BY <2>4, <2>6, <3>1, SummariesAgree
      <3> HIDE DEF summary
      <3>4. \A i \in DOMAIN summary.latest :
              AgreeBut(Current \ got[Len(listed)], Body.latest[i], summary.latest[i])
        BY <3>2, <3>3
      <3>5. Body.failures =
              SumOf([i \in DOMAIN got |->
                       IF "failures" \in Current \ got[i] THEN 0
                       ELSE entries[i].report.failures])
        BY <3>2, <3>3
      <3> QED
        BY <1>2, <1>4, <1>5, <2>9, <3>3, <3>4, <3>5
           DEF Right, AnswersOfEnvelopes, Answered, summary
    <2>10. CASE kind = "analytics"
      <3>1. 1 \in DOMAIN entries /\ Body = all[1]
        <4>1. Len(listed) = 1
          BY <1>1, <2>10 DEF Inv, Proceeds
        <4> QED
          BY <2>2, <2>10, <4>1 DEF Body, all, entries
      <3>2. AgreeBut(Current \ got[1], Body,
                     compute_scan_analytics(entries[1].scan_id, entries[1].report))
        <4>1. AsOf(all[1], got[1], entries[1])
          BY <2>4, <3>1, FieldsAgree
        <4> QED
          BY <3>1, <4>1 DEF AsOf
      <3>3. entries[1].scan_id = listed[1] /\ entries[1].report = recorded[listed[1]]
        BY <2>3, <3>1 DEF entries
      <3> QED
        BY <1>1, <1>2, <1>4, <2>10, <3>2, <3>3
           DEF Right, AnswersOfEnvelopes, Answered
    <2> QED
      BY <2>1, <2>7, <2>8, <2>9, <2>10 DEF Analysed
  <1> QED
    BY <1>6, <1>7

LEMMA AlwaysRight == Spec => []Right
  <1>1. Init => Right
    BY DEF Init, Right, Stated, AnswersOfEnvelopes, Answered
  <1>2. Inv /\ Right /\ [Next]_vars => Right'
    <2> SUFFICES ASSUME Inv, Right, [Next]_vars PROVE Right'
      OBVIOUS
    <2>1. CASE answer' = NoAnswer
      BY <2>1 DEF Right, Stated, AnswersOfEnvelopes, Answered
    <2>2. CASE answer' = answer
      BY <2>2, RightStays
    <2>3. CASE Answers
      <3>1. PICK status, body :
              /\ Answer(status, body)
              /\ UNCHANGED store
              /\ \/ status = 200 /\ kind = "scans"
                 \/ Reply
                 \/ status # 200
        BY <2>3 DEF Answers
      <3>2. /\ answer'.kind = kind /\ answer'.status = status /\ answer'.scans = listed
            /\ recorded' = recorded
        BY <3>1 DEF Answer, store, writer
      <3>3. CASE status # 200
        BY <3>2, <3>3 DEF Right, Stated, AnswersOfEnvelopes, Answered
      <3>4. CASE Reply
        BY <3>4, ReplyIsRight
      <3>5. CASE kind = "scans"
        <4>1. listed \in Seq(1 .. Len(recorded))
          BY ListedAreRecorded
        <4> QED
          BY <3>2, <3>5, <4>1 DEF Right, Stated, AnswersOfEnvelopes, Answered
      <3> QED
        BY <3>1, <3>3, <3>4, <3>5
    <2> QED
      BY <2>1, <2>2, <2>3, AnswerStands
  <1> QED
    BY <1>1, <1>2, AlwaysInv, PTL DEF Spec

\* Heatmap, trends, summary and analytics of a scan are what the envelopes give,
\* whoever wrote the sidecars they were read from and whatever became of those, but
\* for the fields that a sidecar in an older format lacks: the two ways
\* analytics.rs computes them agree.
THEOREM AnswersAreOfEnvelopes == Spec => []AnswersOfEnvelopes
  BY AlwaysRight, PTL DEF Right

-----------------------------------------------------------------------------
(* The arithmetic of diffs.                                                *)

Fingerprints(findings) == {fingerprint(findings[i]) : i \in DOMAIN findings}

LEMMA FingerprintsCount ==
  ASSUME NEW T, NEW findings \in Seq(T),
         \A i, j \in DOMAIN findings :
           fingerprint(findings[i]) = fingerprint(findings[j]) => i = j
  PROVE  /\ IsFiniteSet(Fingerprints(findings))
         /\ Cardinality(Fingerprints(findings)) = Len(findings)
  <1> DEFINE n == Len(findings)
             P == Fingerprints(findings)
             f == [i \in 1 .. n |-> fingerprint(findings[i])]
  <1>1. n \in Nat /\ DOMAIN findings = 1 .. n
    OBVIOUS
  <1>2. f \in Surjection(1 .. n, P) /\ f \in Injection(1 .. n, P)
    <2>1. f \in [1 .. n -> P] /\ \A p \in P : \E i \in 1 .. n : f[i] = p
      BY <1>1 DEF Fingerprints
    <2>2. \A i, j \in 1 .. n : f[i] = f[j] => i = j
      BY <1>1
    <2> HIDE DEF f, P, n
    <2> QED
      BY <2>1, <2>2 DEF Injection, Surjection, IsInjective
  <1>3. IsFiniteSet(1 .. n) /\ Cardinality(1 .. n) = n
    BY <1>1, FS_Interval
  <1> HIDE DEF f, P, n
  <1>4. IsFiniteSet(P) /\ Cardinality(P) = n
    BY <1>2, <1>3, FS_Surjection
  <1> QED
    BY <1>4 DEF P, n

LEMMA DiffCounts ==
  ASSUME NEW from, NEW to, NEW T,
         from.report.findings \in Seq(T), to.report.findings \in Seq(T),
         \A i, j \in DOMAIN from.report.findings :
           fingerprint(from.report.findings[i]) = fingerprint(from.report.findings[j])
             => i = j,
         \A i, j \in DOMAIN to.report.findings :
           fingerprint(to.report.findings[i]) = fingerprint(to.report.findings[j])
             => i = j
  PROVE  LET diff == compute_scan_diff(from, to)
         IN  Cardinality(DOMAIN diff.new) - Cardinality(DOMAIN diff.resolved)
               = Len(to.report.findings) - Len(from.report.findings)
  <1> DEFINE old == Fingerprints(from.report.findings)
             cur == Fingerprints(to.report.findings)
             diff == compute_scan_diff(from, to)
  <1>1. DOMAIN diff.new = cur \ old /\ DOMAIN diff.resolved = old \ cur
    BY DEF compute_scan_diff, ByFingerprint, Restrict, Fingerprints
  <1>2. /\ IsFiniteSet(old) /\ Cardinality(old) = Len(from.report.findings)
        /\ IsFiniteSet(cur) /\ Cardinality(cur) = Len(to.report.findings)
    BY FingerprintsCount
  <1>3. Len(from.report.findings) \in Nat /\ Len(to.report.findings) \in Nat
    OBVIOUS
  <1> HIDE DEF old, cur, diff
  <1>4. /\ Cardinality(cur \ old) = Cardinality(cur) - Cardinality(cur \cap old)
        /\ Cardinality(old \ cur) = Cardinality(old) - Cardinality(old \cap cur)
    BY <1>2, FS_Difference
  <1>5. cur \cap old = old \cap cur /\ Cardinality(old \cap cur) \in Nat
    BY <1>2, FS_Intersection, FS_CardinalityType
  <1>6. Cardinality(DOMAIN diff.new) - Cardinality(DOMAIN diff.resolved)
          = Len(to.report.findings) - Len(from.report.findings)
    <2> DEFINE m == Len(to.report.findings)
               n == Len(from.report.findings)
               k == Cardinality(old \cap cur)
    <2>1. m \in Nat /\ n \in Nat /\ k \in Nat
      BY <1>3, <1>5
    <2>2. Cardinality(DOMAIN diff.new) = m - k /\ Cardinality(DOMAIN diff.resolved) = n - k
      BY <1>1, <1>2, <1>4, <1>5
    <2> HIDE DEF m, n, k
    <2>3. (m - k) - (n - k) = m - n
      BY <2>1
    <2> QED
      BY <2>2, <2>3 DEF m, n
  <1> QED
    BY <1>6 DEF diff

\* New less resolved findings of a diff are the change in the totals that trends
\* and summary show, if neither scan repeats a finding: the fingerprint tells
\* all such findings apart.
THEOREM DiffsAccount == Spec => []DiffAccounts
  <1>1. Inv /\ Right => DiffAccounts
    <2> SUFFICES ASSUME Inv, Right PROVE DiffAccounts
      OBVIOUS
    <2> DEFINE findings(i) == recorded[answer.scans[i]].findings
               distinct(i) == \A j, k \in DOMAIN findings(i) :
                 /\ findings(i)[j].file = findings(i)[k].file
                 /\ findings(i)[j].line = findings(i)[k].line
                 /\ findings(i)[j].rule = findings(i)[k].rule
                 /\ findings(i)[j].message = findings(i)[k].message
                 => j = k
    <2>1. SUFFICES ASSUME Answered("diff"), distinct(1), distinct(2)
                   PROVE  Cardinality(DOMAIN answer.body.new)
                            - Cardinality(DOMAIN answer.body.resolved)
                          = Len(findings(2)) - Len(findings(1))
      BY DEF DiffAccounts
    <2>2. /\ answer.scans \in Seq(1 .. Len(recorded)) /\ Len(answer.scans) = 2
          /\ answer.body = compute_scan_diff(Entry(answer.scans[1]),
                                             Entry(answer.scans[2]))
      BY <2>1 DEF Right, Stated, Answered
    <2>3. /\ Entry(answer.scans[1]).report.findings = findings(1)
          /\ Entry(answer.scans[2]).report.findings = findings(2)
      BY DEF Entry
    <2>4. findings(1) \in Seq(Finding) /\ findings(2) \in Seq(Finding)
      <3>1. /\ answer.scans[1] \in 1 .. Len(recorded)
            /\ answer.scans[2] \in 1 .. Len(recorded)
        BY <2>2
      <3>2. recorded[answer.scans[1]] \in Report /\ recorded[answer.scans[2]] \in Report
        BY <3>1 DEF Inv, Typed
      <3> QED
        BY <3>2, Findings
    <2>5. \A a, b : fingerprint(a) = fingerprint(b) =>
            a.file = b.file /\ a.line = b.line /\ a.rule = b.rule /\ a.message = b.message
      BY DEF fingerprint
    <2>6. ASSUME NEW i, distinct(i)
          PROVE  \A j, k \in DOMAIN findings(i) :
                   fingerprint(findings(i)[j]) = fingerprint(findings(i)[k]) => j = k
      BY <2>5, <2>6
    <2>7. /\ \A j, k \in DOMAIN findings(1) :
               fingerprint(findings(1)[j]) = fingerprint(findings(1)[k]) => j = k
          /\ \A j, k \in DOMAIN findings(2) :
               fingerprint(findings(2)[j]) = fingerprint(findings(2)[k]) => j = k
      BY <2>1, <2>6
    <2> HIDE DEF findings, distinct
    <2> DEFINE from == Entry(answer.scans[1])
               to   == Entry(answer.scans[2])
    <2>8. /\ from.report.findings = findings(1) /\ to.report.findings = findings(2)
          /\ answer.body = compute_scan_diff(from, to)
      BY <2>2, <2>3
    <2> HIDE DEF from, to
    <2>9. Cardinality(DOMAIN compute_scan_diff(from, to).new)
            - Cardinality(DOMAIN compute_scan_diff(from, to).resolved)
          = Len(to.report.findings) - Len(from.report.findings)
      BY <2>4, <2>7, <2>8, DiffCounts
    <2> QED
      BY <2>8, <2>9
  <1> QED
    BY <1>1, AlwaysInv, AlwaysRight, PTL
=============================================================================
