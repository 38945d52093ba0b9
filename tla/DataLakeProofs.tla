----------------------------- MODULE DataLakeProofs -----------------------------
(***************************************************************************)
(* Proofs about one snapshot of the data lake, for all symbols and days,   *)
(* all batches that providers may return, all queries, and any number of   *)
(* ingestions, kills and runs.                                             *)
(*                                                                         *)
(* What is inductive is what an ingestion has behind it at each place      *)
(* (Behind), how the last one ended (Ended), and that a manifest that can  *)
(* be read, by the gate too, was written by an ingestion of a whole batch  *)
(* (Named).                                                                *)
(***************************************************************************)
EXTENDS DataLake, OrderingProofs, TLAPS

(* The rows that an ingestion of a whole batch writes. *)
Whole(rows) == \E batch \in Batches : ~Refused(Deduped(batch)) /\ rows = Written(batch)

Report(rows) == [rows |-> Len(rows), span |-> SpanOf(rows)]
Summary(rows) == [rows |-> Len(rows), span |-> SpanOf(rows), sha |-> rows]

Hashed == {"manifest", "summary", "ingest", "audit", "check"}

(* What an ingestion has behind it at each place. *)
Behind ==
  /\ writer.at # "idle" => Whole(writer.rows)
  /\ writer.at \in {"csv", "rows", "hash"} \cup Hashed => quality = Report(writer.rows)
  /\ writer.at = "rows" =>
       /\ csv \in Seq(Row) /\ Len(csv) <= Len(writer.rows)
       /\ \A k \in 1..Len(csv) : csv[k] = writer.rows[k]
  /\ writer.at \in {"hash"} \cup Hashed => csv = writer.rows
  /\ writer.at \in Hashed => writer.sha = writer.rows
  /\ writer.at \in {"ingest", "audit", "check"} => manifest = Summary(writer.rows)
  /\ writer.at = "check" => ingest = [sha |-> writer.rows]

(* Before its first write an ingestion leaves the snapshot as the last one  *)
(* left it.                                                                 *)
Ended ==
  /\ writer.at \notin {"idle", "quality"} => last = "killed"
  /\ last = "audited" \/ (last = "finished" /\ ingest = NoFile) =>
       Passes(manifest, ingest, quality, csv)

(* A manifest that can be read names all the rows of one ingestion. *)
Names(file) == file \notin {NoFile, Torn} => Whole(file.sha) /\ file = Summary(file.sha)

Named ==
  /\ Names(manifest)
  /\ Names(gate.manifest)
  /\ gate.pass => gate.at = "done" /\ Whole(gate.hashed) /\ gate.manifest = Summary(gate.hashed)

(* Rows that a provider returned, with their time of availability. *)
Sourced(rows) ==
  \A k \in DOMAIN rows :
    \E batch \in Batches : \E i \in DOMAIN batch :
      /\ SameBar(batch[i], rows[k]) /\ batch[i].price = rows[k].price
      /\ AvailableAt(batch[i]) = rows[k].avail

(* In the order of symbol and day, no bar twice. *)
BarOrder(rows) == \A k, l \in DOMAIN rows : k < l => Before(rows[k], rows[l])

FileSourced == csv # NoFile => Sourced(csv) /\ BarOrder(csv)

-----------------------------------------------------------------------------
(* The first rows of the bars of a batch can be put in order.               *)
LEMMA FirstsOrdered ==
  ASSUME NEW batch \in Batches
  PROVE  LET F == Firsts(batch)
             earlier == {p \in F \X F : Before(batch[p[1]], batch[p[2]])}
         IN  IsFiniteSet(F) /\ Orders(earlier, F)
<1> DEFINE n == Len(batch)
           F == Firsts(batch)
           earlier == {p \in F \X F : Before(batch[p[1]], batch[p[2]])}
<1>1. n \in Nat /\ DOMAIN batch = 1..n
  BY BatchesAssumption
<1>2. \A i \in 1..n : batch[i].symbol \in Nat /\ batch[i].dt \in Nat
  <2>1. \A i \in 1..n : batch[i] \in SourceRow
    BY <1>1, BatchesAssumption
  <2> QED BY <2>1, TimeAssumption DEF SourceRow
<1>3. F \in SUBSET (1..n)
  BY <1>1 DEF Firsts
<1>4. IsFiniteSet(F)
  <2>1. IsFiniteSet(1..n)
    BY <1>1, FS_Interval
  <2> HIDE DEF F, n
  <2> QED BY <1>3, <2>1, FS_Subset
<1>5. \A i, j \in F : i # j => ~SameBar(batch[i], batch[j])
  <2> SUFFICES ASSUME NEW i \in F, NEW j \in F, i # j PROVE ~SameBar(batch[i], batch[j])
    OBVIOUS
  <2>1. i \in 1..(j - 1) \/ j \in 1..(i - 1)
    BY <1>1, <1>3
  <2> QED BY <2>1 DEF Firsts, SameBar
<1>6. \A i, j \in F : <<i, j>> \in earlier <=> Before(batch[i], batch[j])
  OBVIOUS
<1> HIDE DEF earlier
<1>7. Orders(earlier, F)
  <2>1. ASSUME NEW i \in F PROVE <<i, i>> \notin earlier
    BY <1>2, <1>3, <1>6 DEF Before
  <2>2. ASSUME NEW i \in F, NEW j \in F, NEW k \in F, <<i, j>> \in earlier, <<j, k>> \in earlier
        PROVE  <<i, k>> \in earlier
    <3>1. Before(batch[i], batch[j]) /\ Before(batch[j], batch[k])
      BY <1>6, <2>2
    <3>2. Before(batch[i], batch[k])
      BY <1>2, <1>3, <3>1 DEF Before
    <3> QED BY <1>6, <3>2
  <2>3. ASSUME NEW i \in F, NEW j \in F, i # j PROVE <<i, j>> \in earlier \/ <<j, i>> \in earlier
    <3>1. ~SameBar(batch[i], batch[j])
      BY <1>5, <2>3
    <3>2. Before(batch[i], batch[j]) \/ Before(batch[j], batch[i])
      BY <1>2, <1>3, <3>1 DEF Before, SameBar
    <3> QED BY <1>6, <3>2
  <2> HIDE DEF F
  <2> QED BY <2>1, <2>2, <2>3 DEF Orders
<1> QED BY <1>4, <1>7 DEF earlier

(* Deduped takes rows of the batch, one of each bar, in order. *)
LEMMA DedupedRows ==
  ASSUME NEW batch \in Batches
  PROVE  LET rows == Deduped(batch)
         IN  /\ rows \in Seq(SourceRow)
             /\ \A k \in DOMAIN rows : \E i \in DOMAIN batch : rows[k] = batch[i]
             /\ \A k, l \in DOMAIN rows : SameBar(rows[k], rows[l]) => k = l
             /\ BarOrder(rows)
<1> DEFINE F == Firsts(batch)
           earlier == {p \in F \X F : Before(batch[p[1]], batch[p[2]])}
           order == InOrder(F, earlier)
           n == Cardinality(F)
           rows == Deduped(batch)
<1>1. IsFiniteSet(F) /\ Orders(earlier, F)
  BY FirstsOrdered
<1>2. /\ n \in Nat /\ order \in [1..n -> F] /\ Len(order) = n
      /\ \A k, l \in 1..n : order[k] = order[l] => k = l
      /\ \A k, l \in 1..n : k < l => <<order[k], order[l]>> \in earlier
  <2> HIDE DEF F, earlier
  <2> QED BY <1>1, InOrderSorts
<1>3. rows = [k \in 1..n |-> batch[order[k]]]
  <2>1. rows = Picked(batch, order)
    BY DEF Deduped
  <2> HIDE DEF rows, order
  <2> QED BY <1>2, <2>1 DEF Picked
<1> HIDE DEF rows, order, n
<1>4. \A k, l \in 1..n : k < l => Before(batch[order[k]], batch[order[l]])
  BY <1>2
<1>5. \A k \in 1..n : order[k] \in DOMAIN batch /\ order[k] \in F
  BY <1>2 DEF Firsts
<1>6. batch \in Seq(SourceRow)
  BY BatchesAssumption
<1>7. DOMAIN rows = 1..n /\ \A k \in 1..n : rows[k] = batch[order[k]] /\ rows[k] \in SourceRow
  BY <1>3, <1>5, <1>6
<1>8. rows \in Seq(SourceRow)
  BY <1>2, <1>3, <1>7
<1>9. \A k \in DOMAIN rows : \E i \in DOMAIN batch : rows[k] = batch[i]
  BY <1>5, <1>7
<1>10. ASSUME NEW k \in DOMAIN rows, NEW l \in DOMAIN rows, SameBar(rows[k], rows[l])
      PROVE  k = l
  <2> SUFFICES ASSUME order[k] # order[l] PROVE FALSE
    BY <1>2, <1>7
  <2>1. order[k] \in Nat /\ order[l] \in Nat /\ order[k] >= 1 /\ order[l] >= 1
    BY <1>5, <1>6, <1>7
  <2>2. order[k] \in 1..(order[l] - 1) \/ order[l] \in 1..(order[k] - 1)
    BY <2>1
  <2>3. order[k] \in F /\ order[l] \in F
    BY <1>5, <1>7
  <2>4. SameBar(batch[order[k]], batch[order[l]])
    BY <1>7, <1>10
  <2> QED BY <2>2, <2>3, <2>4 DEF Firsts, SameBar
<1>11. BarOrder(rows)
  BY <1>7, <1>4 DEF BarOrder
<1> QED BY <1>8, <1>9, <1>10, <1>11 DEF rows

(* What an unrefused batch comes to in the files. *)
LEMMA WrittenRows ==
  ASSUME NEW batch \in Batches, ~Refused(Deduped(batch))
  PROVE  LET rows == Written(batch)
         IN  /\ rows \in Seq(Row) /\ rows # <<>>
             /\ Sourced(rows) /\ BarOrder(rows)
             /\ \A k, l \in DOMAIN rows : SameBar(rows[k], rows[l]) => k = l
<1> DEFINE source == Deduped(batch)
           rows == Written(batch)
           n == Len(source)
<1>1. /\ source \in Seq(SourceRow)
      /\ \A k \in DOMAIN source : \E i \in DOMAIN batch : source[k] = batch[i]
      /\ \A k, l \in DOMAIN source : SameBar(source[k], source[l]) => k = l
      /\ BarOrder(source)
  BY DedupedRows
<1>2. source # <<>> /\ \A k \in DOMAIN source : ~(source[k].price < 0)
  BY DEF Refused
<1>3. rows = [k \in DOMAIN source |-> [symbol |-> source[k].symbol, dt |-> source[k].dt,
                                      avail |-> AvailableAt(source[k]), price |-> source[k].price]]
  BY DEF Written
<1> HIDE DEF source, rows
<1>4. n \in Nat /\ DOMAIN source = 1..n /\ n # 0
  BY <1>1, <1>2
<1>5. ASSUME NEW k \in 1..n
      PROVE  /\ rows[k] \in Row
             /\ rows[k].symbol = source[k].symbol /\ rows[k].dt = source[k].dt
             /\ rows[k].avail = AvailableAt(source[k]) /\ rows[k].price = source[k].price
  <2>1. source[k] \in SourceRow
    BY <1>1, <1>4
  <2>2. source[k].price \in Nat
    <3>1. source[k].price \in Int
      BY <2>1 DEF SourceRow
    <3> QED BY <1>2, <1>4, <3>1
  <2>3. AvailableAt(source[k]) \in Nat
    <3>1. source[k].dt \in Nat /\ source[k].avail \in Nat \cup {Missing} /\ Latency \in Nat
      BY <2>1, TimeAssumption DEF SourceRow
    <3> QED BY <3>1 DEF AvailableAt
  <2>4. source[k].symbol \in Symbols /\ source[k].dt \in Days
    BY <2>1 DEF SourceRow
  <2> QED BY <1>3, <1>4, <2>2, <2>3, <2>4 DEF Row
<1>6. DOMAIN rows = 1..n /\ rows \in Seq(Row) /\ rows # <<>>
  <2>1. rows \in [1..n -> Row]
    BY <1>3, <1>4, <1>5
  <2>2. rows \in Seq(Row) /\ Len(rows) = n
    BY <1>4, <2>1
  <2> QED BY <1>4, <2>1, <2>2
<1>7. Sourced(rows)
  <2> SUFFICES ASSUME NEW k \in 1..n
               PROVE  \E i \in DOMAIN batch :
                        /\ SameBar(batch[i], rows[k]) /\ batch[i].price = rows[k].price
                        /\ AvailableAt(batch[i]) = rows[k].avail
    BY <1>6 DEF Sourced
  <2>1. PICK i \in DOMAIN batch : source[k] = batch[i]
    BY <1>1, <1>4
  <2> QED BY <1>5, <2>1 DEF SameBar
<1>8. \A k, l \in DOMAIN rows : SameBar(rows[k], rows[l]) => k = l
  BY <1>1, <1>4, <1>5, <1>6 DEF SameBar
<1>9. BarOrder(rows)
  BY <1>1, <1>4, <1>5, <1>6 DEF BarOrder, Before
<1> QED BY <1>6, <1>7, <1>8, <1>9 DEF rows

(* The rows are within their span. *)
Within(rows, span) ==
  \A k \in DOMAIN rows :
    /\ span.dtMin <= rows[k].dt /\ rows[k].dt <= span.dtMax
    /\ span.availMin <= rows[k].avail /\ rows[k].avail <= span.availMax

(* The span of rows that are there is made of times in them, and holds them. *)
LEMMA SpanType ==
  ASSUME NEW rows \in Seq(Row), rows # <<>>
  PROVE  SpanOf(rows) \in Span /\ Within(rows, SpanOf(rows))
<1> DEFINE n == Len(rows)
           dt == [k \in 1..n |-> rows[k].dt]
           avail == [k \in 1..n |-> rows[k].avail]
<1>1. n \in Nat /\ n # 0 /\ DOMAIN rows = 1..n
  OBVIOUS
<1>2. dt \in [1..n -> Nat] /\ avail \in [1..n -> Nat]
  <2>1. \A k \in 1..n : rows[k] \in Row
    BY <1>1
  <2> QED BY <2>1, TimeAssumption DEF Row
<1>3. {rows[k].dt : k \in DOMAIN rows} = {dt[k] : k \in 1..n}
      /\ {rows[k].avail : k \in DOMAIN rows} = {avail[k] : k \in 1..n}
  BY <1>1
<1> HIDE DEF n, dt, avail
<1>4. /\ Smallest({dt[k] : k \in 1..n}) \in Nat /\ Greatest({dt[k] : k \in 1..n}) \in Nat
      /\ Smallest({avail[k] : k \in 1..n}) \in Nat /\ Greatest({avail[k] : k \in 1..n}) \in Nat
  BY <1>1, <1>2, ColumnBounds
<1>5. \A k \in 1..n :
        /\ Smallest({dt[i] : i \in 1..n}) <= dt[k] /\ dt[k] <= Greatest({dt[i] : i \in 1..n})
        /\ Smallest({avail[i] : i \in 1..n}) <= avail[k] /\ avail[k] <= Greatest({avail[i] : i \in 1..n})
  BY <1>1, <1>2, ColumnBounds
<1>6. \A k \in 1..n : dt[k] = rows[k].dt /\ avail[k] = rows[k].avail
  BY DEF dt, avail
<1> QED BY <1>1, <1>3, <1>4, <1>5, <1>6 DEF SpanOf, Span, Within

(* What the files of a whole batch hold. *)
LEMMA WholeRows ==
  ASSUME NEW rows, Whole(rows)
  PROVE  /\ rows \in Seq(Row) /\ rows # <<>> /\ Len(rows) \in Nat
         /\ Sourced(rows) /\ BarOrder(rows)
         /\ \A k, l \in DOMAIN rows : SameBar(rows[k], rows[l]) => k = l
         /\ Report(rows) \in QualityReport /\ Summary(rows) \in Manifest
         /\ [sha |-> rows] \in IngestManifest
         /\ Within(rows, SpanOf(rows))
<1>1. PICK batch \in Batches : ~Refused(Deduped(batch)) /\ rows = Written(batch)
  BY DEF Whole
<1>2. /\ rows \in Seq(Row) /\ rows # <<>> /\ Sourced(rows) /\ BarOrder(rows)
      /\ \A k, l \in DOMAIN rows : SameBar(rows[k], rows[l]) => k = l
  BY <1>1, WrittenRows
<1>3. SpanOf(rows) \in Span /\ Len(rows) \in Nat /\ Within(rows, SpanOf(rows))
  BY <1>2, SpanType
<1> QED BY <1>2, <1>3 DEF Report, Summary, QualityReport, Manifest, IngestManifest

-----------------------------------------------------------------------------
(* A report and a summary that go with the rows of the file pass the gate. *)
LEMMA WholePasses ==
  ASSUME NEW rows, Whole(rows), NEW ing, ing = NoFile \/ ing = [sha |-> rows]
  PROVE  Passes(Summary(rows), ing, Report(rows), rows)
<1>1. /\ rows \in Seq(Row)
      /\ Report(rows) \in QualityReport /\ Summary(rows) \in Manifest
      /\ [sha |-> rows] \in IngestManifest
  BY WholeRows
<1>2. /\ NoFile # Torn
      /\ \A f \in {NoFile, Torn} :
           f # rows /\ f # Report(rows) /\ f # Summary(rows) /\ f # [sha |-> rows]
  BY <1>1, FilesAssumption
<1>3. /\ Summary(rows).sha = rows
      /\ Report(rows).rows = Summary(rows).rows /\ Report(rows).span = Summary(rows).span
  BY DEF Report, Summary
<1> QED BY <1>2, <1>3 DEF Passes

(* How a place of the ingestion is left for another.                        *)
LEMMA WriterMoves ==
  ASSUME TypeOK, NEW place, Goto(place)
  PROVE  /\ writer'.at = place /\ writer'.adapter = writer.adapter
         /\ writer'.rows = writer.rows /\ writer'.sha = writer.sha
BY DEF TypeOK, Goto

(* A refused ingestion writes nothing, another starts with a whole batch.   *)
LEMMA BeginInv ==
  ASSUME TypeOK, NEW batch \in Batches, NEW adapter \in BOOLEAN, Begin(batch, adapter)
  PROVE  /\ writer.at = "idle"
         /\ \/ writer' = writer
            \/ /\ writer'.at = "quality" /\ Whole(writer'.rows)
               /\ writer' \in [at : {"quality"}, adapter : BOOLEAN, rows : Seq(Row), sha : Seq(Row)]
<1>1. CASE Refused(Deduped(batch))
  BY <1>1 DEF Begin
<1>2. CASE ~Refused(Deduped(batch))
  <2>1. writer' = [at |-> "quality", adapter |-> adapter, rows |-> Written(batch), sha |-> <<>>]
    BY <1>2 DEF Begin, Idle
  <2>2. Whole(Written(batch))
    BY <1>2 DEF Whole
  <2>3. Written(batch) \in Seq(Row) /\ <<>> \in Seq(Row)
    <3>1. Written(batch) \in Seq(Row)
      BY <2>2, WholeRows
    <3> QED BY <3>1
  <2>4. writer'.at = "quality" /\ writer'.rows = Written(batch)
    BY <2>1
  <2> HIDE DEF Written
  <2> QED BY <2>1, <2>2, <2>3, <2>4 DEF Begin
<1> QED BY <1>1, <1>2 DEF Begin

-----------------------------------------------------------------------------
(* The files, and what the ingestion knows of them. *)
Kept == TypeOK /\ Behind /\ Ended /\ Named /\ FileSourced

LEMMA KeptInit == Init => Kept
<1> SUFFICES ASSUME Init PROVE Kept
  OBVIOUS
<1>1. writer.at = "idle" /\ last = "none"
  BY DEF Init, Idle
<1>2. TypeOK
  BY DEF Init, TypeOK, Idle, NoRun, NoGate, JsonFile
<1>3. Named /\ FileSourced
  BY DEF Init, NoGate, Named, Names, FileSourced
<1> QED BY <1>1, <1>2, <1>3 DEF Kept, Behind, Ended, Hashed

(* Behind, in a state with nothing to say but of a writer that rests.       *)
LEMMA RestBehind ==
  ASSUME writer'.at = "idle" \/ (writer'.at = "quality" /\ Whole(writer'.rows))
  PROVE  Behind'
BY DEF Behind, Hashed, Whole

(* A step of an ingestion keeps the types. *)
LEMMA TypeWrite == TypeOK /\ Behind /\ Write => TypeOK'
<1> SUFFICES ASSUME TypeOK, Behind, Write PROVE TypeOK'
  OBVIOUS
<1> USE DEF readers, files
<1>1. ASSUME Whole(writer.rows)
      PROVE  /\ writer.rows \in Seq(Row) /\ Len(writer.rows) \in Nat
             /\ Report(writer.rows) \in QualityReport /\ Summary(writer.rows) \in Manifest
  BY <1>1, WholeRows
<1>2. ASSUME NEW place, Goto(place), UNCHANGED <<ingests, readers>>,
             last' \in {"none", "finished", "audited", "killed"},
             place \in {"quality", "report", "csv", "rows", "hash", "manifest", "summary",
                       "ingest", "audit", "check"},
             csv' \in Seq(Row) \cup {NoFile}, quality' \in JsonFile(QualityReport),
             manifest' \in JsonFile(Manifest), ingest' \in JsonFile(IngestManifest)
      PROVE  TypeOK'
  BY <1>2 DEF TypeOK, Goto
<1>3. CASE OpenQuality
  BY <1>2, <1>3 DEF OpenQuality, TypeOK, JsonFile
<1>4. CASE WriteQuality
  <2>1. quality' = Report(writer.rows)
    BY <1>4 DEF WriteQuality, Report
  <2>2. quality' \in JsonFile(QualityReport)
    BY <1>1, <1>4, <2>1 DEF WriteQuality, Behind, JsonFile
  <2> QED BY <1>2, <1>4, <2>2 DEF WriteQuality, TypeOK
<1>5. CASE OpenCsv
  <2>1. csv' \in Seq(Row)
    BY <1>5 DEF OpenCsv
  <2> QED BY <1>2, <1>5, <2>1 DEF OpenCsv, TypeOK
<1>6. CASE WriteRow
  <2>1. csv \in Seq(Row) /\ writer.rows \in Seq(Row)
    BY <1>6 DEF WriteRow, Behind, TypeOK
  <2>2. writer.rows[Len(csv) + 1] \in Row
    BY <1>6, <2>1 DEF WriteRow
  <2>3. csv' \in Seq(Row)
    BY <1>6, <2>1, <2>2 DEF WriteRow
  <2> QED BY <1>6, <2>3 DEF WriteRow, TypeOK
<1>7. CASE CloseCsv
  BY <1>2, <1>7 DEF CloseCsv, TypeOK
<1>8. CASE HashCsv
  <2>1. csv \in Seq(Row)
    BY <1>8 DEF HashCsv, Behind, TypeOK
  <2> QED BY <1>8, <2>1 DEF HashCsv, TypeOK
<1>9. CASE OpenManifest
  BY <1>2, <1>9 DEF OpenManifest, TypeOK, JsonFile
<1>10. CASE WriteManifest
  <2>1. manifest' = Summary(writer.rows)
    BY <1>10 DEF WriteManifest, Summary, Behind, Hashed
  <2>2. manifest' \in JsonFile(Manifest)
    BY <1>1, <1>10, <2>1 DEF WriteManifest, Behind, JsonFile
  <2>3. CASE writer.adapter
    BY <1>2, <1>10, <2>2, <2>3 DEF WriteManifest, TypeOK
  <2>4. CASE ~writer.adapter
    <3>1. writer' = Idle /\ last' = "finished" /\ UNCHANGED <<csv, quality, ingest, ingests, readers>>
      BY <1>10, <2>4 DEF WriteManifest
    <3> QED BY <2>2, <3>1 DEF TypeOK, Idle
  <2> QED BY <2>3, <2>4
<1>11. CASE OpenIngestManifest
  BY <1>2, <1>11 DEF OpenIngestManifest, TypeOK, JsonFile
<1>12. CASE WriteIngestManifest
  <2>1. ingest' \in JsonFile(IngestManifest)
    BY <1>12 DEF WriteIngestManifest, TypeOK, JsonFile, IngestManifest
  <2> QED BY <1>2, <1>12, <2>1 DEF WriteIngestManifest, TypeOK
<1>13. CASE DoubleCheck
  BY <1>13 DEF DoubleCheck, TypeOK, Idle
<1> QED
  BY <1>3, <1>4, <1>5, <1>6, <1>7, <1>8, <1>9, <1>10, <1>11, <1>12, <1>13 DEF Write

(* A query answers with rows of the file, those it may see.                 *)
LEMMA QueryRows ==
  ASSUME TypeOK, NEW q \in Queries, Query(q)
  PROVE  /\ csv # NoFile /\ run'.query = q
         /\ run' \in [at : {"read"}, query : Queries, rows : Seq(Row)]
         /\ \A k \in DOMAIN run'.rows :
              \E l \in DOMAIN csv : run'.rows[k] = csv[l] /\ Visible(q, csv[l])
         /\ BarOrder(csv) => BarOrder(run'.rows)
<1> DEFINE seen == {k \in DOMAIN csv : Visible(q, csv[k])}
           order == InOrder(seen, Ascending)
           n == Cardinality(seen)
           answer == Picked(csv, order)
<1>1. csv # NoFile
  BY DEF Query
<1>2. csv \in Seq(Row) /\ Len(csv) \in Nat /\ DOMAIN csv = 1..Len(csv)
  BY <1>1 DEF TypeOK
<1>3. run' = [at |-> "read", query |-> q, rows |-> answer]
  BY <1>1 DEF Query
<1>4. seen \in SUBSET (1..Len(csv)) /\ IsFiniteSet(seen) /\ seen \subseteq Nat
  <2>1. seen \in SUBSET (1..Len(csv))
    BY <1>2
  <2>2. IsFiniteSet(1..Len(csv))
    BY <1>2, FS_Interval
  <2>3. seen \subseteq Nat
    BY <1>2
  <2> HIDE DEF seen
  <2> QED BY <2>1, <2>2, <2>3, FS_Subset
<1>5. /\ n \in Nat /\ order \in [1..n -> seen] /\ Len(order) = n
      /\ \A k, l \in 1..n : k < l => order[k] < order[l]
  <2> HIDE DEF seen
  <2>1. Orders(Ascending, seen)
    BY <1>4, AscendingOrders
  <2>2. /\ n \in Nat /\ order \in [1..n -> seen] /\ Len(order) = n
        /\ \A k, l \in 1..n : k < l => <<order[k], order[l]>> \in Ascending
    BY <1>4, <2>1, InOrderSorts
  <2> QED BY <2>2 DEF Ascending
<1>6. answer = [k \in 1..n |-> csv[order[k]]]
  <2> HIDE DEF order, n
  <2> QED BY <1>5 DEF Picked
<1> HIDE DEF answer, order, n
<1>7. \A k \in 1..n : order[k] \in DOMAIN csv /\ Visible(q, csv[order[k]])
  BY <1>5
<1>8. answer \in Seq(Row) /\ DOMAIN answer = 1..n
  BY <1>2, <1>5, <1>6, <1>7
<1>9. BarOrder(csv) => BarOrder(answer)
  BY <1>5, <1>6, <1>7, <1>8 DEF BarOrder
<1> QED BY <1>1, <1>3, <1>6, <1>7, <1>8, <1>9

(* A reader leaves the files and the ingestion alone. *)
Read ==
  \/ \E q \in Queries : Query(q)
  \/ GateReadsManifest \/ GateReadsIngest \/ GateReadsQuality \/ GateHashes \/ NextRun

LEMMA ReadersOnlyRead == Read => UNCHANGED <<files, writer, last, ingests>>
BY DEF Read, Query, GateReadsManifest, GateReadsIngest, GateReadsQuality, GateHashes, NextRun, files

LEMMA TypeRead == TypeOK /\ Read => TypeOK'
<1> SUFFICES ASSUME TypeOK, Read PROVE TypeOK'
  OBVIOUS
<1>1. UNCHANGED <<files, writer, last, ingests>>
  BY ReadersOnlyRead
<1> SUFFICES /\ run' \in [at : {"due", "read"}, query : Queries \cup {NoFile}, rows : Seq(Row)]
             /\ gate' \in [at : {"manifest", "ingest", "quality", "hash", "done"},
                          manifest : JsonFile(Manifest), ingest : JsonFile(IngestManifest),
                          quality : JsonFile(QualityReport), hashed : Seq(Row), pass : BOOLEAN]
  BY <1>1 DEF TypeOK, files
<1>2. ASSUME NEW q \in Queries, Query(q)
      PROVE  /\ run' \in [at : {"due", "read"}, query : Queries \cup {NoFile}, rows : Seq(Row)]
             /\ gate' = gate
  <2>1. run' \in [at : {"read"}, query : Queries, rows : Seq(Row)]
    BY <1>2, QueryRows
  <2> QED BY <1>2, <2>1 DEF Query
<1>3. CASE GateReadsManifest
  BY <1>3 DEF GateReadsManifest, TypeOK
<1>4. CASE GateReadsIngest
  BY <1>4 DEF GateReadsIngest, TypeOK
<1>5. CASE GateReadsQuality
  BY <1>5 DEF GateReadsQuality, TypeOK
<1>6. CASE GateHashes
  <2> DEFINE hashed == IF csv = NoFile THEN <<>> ELSE csv
             pass == Passes(gate.manifest, gate.ingest, gate.quality, csv)
  <2>1. hashed \in Seq(Row)
    BY DEF TypeOK
  <2>2. pass \in BOOLEAN
    BY DEF Passes
  <2>3. gate' = [gate EXCEPT !.at = "done", !.hashed = hashed, !.pass = pass] /\ run' = run
    BY <1>6 DEF GateHashes
  <2> HIDE DEF hashed, pass
  <2> QED BY <2>1, <2>2, <2>3 DEF TypeOK
<1>7. CASE NextRun
  BY <1>7 DEF NextRun, NoRun, NoGate, JsonFile
<1> QED BY <1>2, <1>3, <1>4, <1>5, <1>6, <1>7 DEF Read, TypeOK

LEMMA TypeStep == TypeOK /\ Behind /\ [Next]_vars => TypeOK'
<1> SUFFICES ASSUME TypeOK, Behind, [Next]_vars PROVE TypeOK'
  OBVIOUS
<1>1. CASE \E batch \in Batches, adapter \in BOOLEAN : Begin(batch, adapter)
  <2>1. PICK batch \in Batches, adapter \in BOOLEAN : Begin(batch, adapter)
    BY <1>1
  <2>2. UNCHANGED <<files, last, readers>> /\ ingests' = ingests + 1
    BY <2>1 DEF Begin
  <2>3. writer' = writer
        \/ writer' \in [at : {"quality"}, adapter : BOOLEAN, rows : Seq(Row), sha : Seq(Row)]
    BY <2>1, BeginInv
  <2>4. writer' \in [at : {"idle", "quality", "report", "csv", "rows", "hash", "manifest", "summary",
                           "ingest", "audit", "check"},
                     adapter : BOOLEAN, rows : Seq(Row), sha : Seq(Row)]
    BY <2>3 DEF TypeOK
  <2> QED BY <2>2, <2>4 DEF TypeOK, files, readers
<1>2. CASE Crash
  BY <1>2 DEF Crash, TypeOK, Idle, files, readers
<1>3. CASE UNCHANGED vars
  BY <1>3 DEF vars, TypeOK, files, readers
<1>4. CASE Write
  BY <1>4, TypeWrite
<1>5. CASE Read
  BY <1>5, TypeRead
<1> QED BY <1>1, <1>2, <1>3, <1>4, <1>5 DEF Next, Read

(* Each write of an ingestion leaves behind what it should.                 *)
LEMMA BehindWrite == TypeOK /\ Behind /\ Write => Behind'
<1> SUFFICES ASSUME TypeOK, Behind, Write PROVE Behind'
  OBVIOUS
<1> USE DEF Behind, Hashed, readers, files
<1>1. Whole(writer.rows) /\ Len(writer.rows) \in Nat /\ writer.at # "idle"
  BY DEF Write, OpenQuality, WriteQuality, OpenCsv, WriteRow, CloseCsv, HashCsv, OpenManifest,
     WriteManifest, OpenIngestManifest, WriteIngestManifest, DoubleCheck, TypeOK
<1>2. CASE OpenQuality
  <2>1. writer'.at = "report" /\ writer'.rows = writer.rows
    BY <1>2, WriterMoves DEF OpenQuality
  <2> QED BY <1>1, <2>1
<1>3. CASE WriteQuality
  <2>1. writer'.at = "csv" /\ writer'.rows = writer.rows /\ quality' = Report(writer.rows)
    BY <1>3, WriterMoves DEF WriteQuality, Report
  <2> QED BY <1>1, <2>1
<1>4. CASE OpenCsv
  <2>1. /\ writer'.at = "rows" /\ writer'.rows = writer.rows /\ writer.at = "csv"
        /\ quality' = quality /\ csv' = <<>>
    BY <1>4, WriterMoves DEF OpenCsv
  <2> QED BY <1>1, <2>1
<1>5. CASE WriteRow
  <2>1. /\ writer' = writer /\ writer.at = "rows" /\ quality' = quality
        /\ csv' = Append(csv, writer.rows[Len(csv) + 1]) /\ Len(csv) < Len(writer.rows)
    BY <1>5 DEF WriteRow
  <2>2. csv \in Seq(Row) /\ writer.rows \in Seq(Row) /\ Len(csv) \in Nat
    BY <2>1 DEF TypeOK
  <2>3. writer.rows[Len(csv) + 1] \in Row
    BY <1>1, <2>1, <2>2
  <2>4. /\ csv' \in Seq(Row) /\ Len(csv') = Len(csv) + 1
        /\ csv'[Len(csv) + 1] = writer.rows[Len(csv) + 1]
        /\ \A k \in 1..Len(csv) : csv'[k] = csv[k]
    BY <2>1, <2>2, <2>3
  <2>5. \A k \in 1..Len(csv') : k = Len(csv) + 1 \/ k \in 1..Len(csv)
    BY <2>2, <2>4
  <2>6. \A k \in 1..Len(csv') : csv'[k] = writer.rows[k]
    BY <2>1, <2>4, <2>5
  <2>7. Len(csv') <= Len(writer.rows)
    BY <1>1, <2>1, <2>2, <2>4
  <2> QED BY <1>1, <2>1, <2>4, <2>6, <2>7
<1>6. CASE CloseCsv
  <2>1. /\ writer'.at = "hash" /\ writer'.rows = writer.rows /\ writer.at = "rows"
        /\ quality' = quality /\ csv' = csv /\ Len(csv) = Len(writer.rows)
    BY <1>6, WriterMoves DEF CloseCsv
  <2>2. csv = writer.rows
    <3>1. csv \in Seq(Row) /\ writer.rows \in Seq(Row) /\ \A k \in 1..Len(csv) : csv[k] = writer.rows[k]
      BY <2>1 DEF TypeOK
    <3> QED BY <2>1, <3>1
  <2> QED BY <1>1, <2>1, <2>2
<1>7. CASE HashCsv
  <2>1. /\ writer'.at = "manifest" /\ writer'.rows = writer.rows /\ writer'.sha = csv
        /\ writer.at = "hash" /\ quality' = quality /\ csv' = csv
    BY <1>7 DEF HashCsv, TypeOK
  <2> QED BY <1>1, <2>1
<1>8. CASE OpenManifest
  <2>1. /\ writer'.at = "summary" /\ writer'.rows = writer.rows /\ writer'.sha = writer.sha
        /\ writer.at = "manifest" /\ quality' = quality /\ csv' = csv
    BY <1>8, WriterMoves DEF OpenManifest
  <2> QED BY <1>1, <2>1
<1>9. CASE WriteManifest
  <2>1. writer.at = "summary" /\ quality' = quality /\ csv' = csv
    BY <1>9 DEF WriteManifest
  <2>2. manifest' = Summary(writer.rows)
    BY <1>9, <2>1 DEF WriteManifest, Summary
  <2>3. CASE writer.adapter
    <3>1. writer'.at = "ingest" /\ writer'.rows = writer.rows /\ writer'.sha = writer.sha
      BY <1>9, <2>3, WriterMoves DEF WriteManifest
    <3> QED BY <1>1, <2>1, <2>2, <3>1
  <2>4. CASE ~writer.adapter
    BY <1>9, <2>4, RestBehind DEF WriteManifest, Idle
  <2> QED BY <2>3, <2>4
<1>10. CASE OpenIngestManifest
  <2>1. /\ writer'.at = "audit" /\ writer'.rows = writer.rows /\ writer'.sha = writer.sha
        /\ writer.at = "ingest" /\ quality' = quality /\ csv' = csv /\ manifest' = manifest
    BY <1>10, WriterMoves DEF OpenIngestManifest
  <2> QED BY <1>1, <2>1
<1>11. CASE WriteIngestManifest
  <2>1. /\ writer'.at = "check" /\ writer'.rows = writer.rows /\ writer'.sha = writer.sha
        /\ writer.at = "audit" /\ quality' = quality /\ csv' = csv /\ manifest' = manifest
        /\ ingest' = [sha |-> writer.sha]
    BY <1>11, WriterMoves DEF WriteIngestManifest
  <2> QED BY <1>1, <2>1
<1>12. CASE DoubleCheck
  BY <1>12, RestBehind DEF DoubleCheck, Idle
<1> QED
  BY <1>2, <1>3, <1>4, <1>5, <1>6, <1>7, <1>8, <1>9, <1>10, <1>11, <1>12 DEF Write

LEMMA BehindStep == TypeOK /\ Behind /\ [Next]_vars => Behind'
<1> SUFFICES ASSUME TypeOK, Behind, [Next]_vars PROVE Behind'
  OBVIOUS
<1>1. CASE \E batch \in Batches, adapter \in BOOLEAN : Begin(batch, adapter)
  <2>1. PICK batch \in Batches, adapter \in BOOLEAN : Begin(batch, adapter)
    BY <1>1
  <2> QED BY <2>1, BeginInv, RestBehind
<1>2. CASE Crash
  BY <1>2, RestBehind DEF Crash, Idle
<1>3. CASE UNCHANGED <<files, writer>>
  BY <1>3 DEF files, Behind, Hashed
<1>4. CASE Write
  BY <1>4, BehindWrite
<1>5. CASE Read \/ UNCHANGED vars
  BY <1>3, <1>5, ReadersOnlyRead DEF vars
<1> QED BY <1>1, <1>2, <1>4, <1>5 DEF Next, Read

(* The last ingestion that wrote anything left the snapshot whole, or is    *)
(* known to have been killed.                                               *)
LEMMA EndedStep == TypeOK /\ Behind /\ Ended /\ [Next]_vars => Ended'
<1> SUFFICES ASSUME TypeOK, Behind, Ended, [Next]_vars PROVE Ended'
  OBVIOUS
<1>1. CASE \E batch \in Batches, adapter \in BOOLEAN : Begin(batch, adapter)
  <2>1. PICK batch \in Batches, adapter \in BOOLEAN : Begin(batch, adapter)
    BY <1>1
  <2>2. UNCHANGED <<files, last>>
    BY <2>1 DEF Begin
  <2>3. writer'.at \in {"idle", "quality"}
    BY <2>1, BeginInv
  <2> QED BY <2>2, <2>3 DEF Ended, files, Passes
<1>2. CASE Crash
  BY <1>2 DEF Crash, Idle, Ended, files, Passes
<1>3. CASE Read \/ UNCHANGED vars
  <2>1. UNCHANGED <<files, writer, last>>
    BY <1>3, ReadersOnlyRead DEF vars
  <2> QED BY <2>1 DEF Ended, files, Passes
<1>4. CASE \/ OpenQuality \/ WriteQuality \/ OpenCsv \/ WriteRow \/ CloseCsv \/ HashCsv
           \/ OpenManifest \/ OpenIngestManifest \/ WriteIngestManifest
           \/ (WriteManifest /\ writer.adapter)
  <2>1. last' = "killed"
    BY <1>4 DEF OpenQuality, WriteQuality, OpenCsv, WriteRow, CloseCsv, HashCsv, OpenManifest,
       OpenIngestManifest, WriteIngestManifest, WriteManifest, Ended
  <2> QED BY <2>1 DEF Ended
<1>5. CASE WriteManifest /\ ~writer.adapter
  <2>1. /\ writer'.at = "idle" /\ csv' = csv /\ quality' = quality /\ ingest' = ingest
        /\ writer.at = "summary" /\ last' = "finished"
    BY <1>5 DEF WriteManifest, Idle
  <2>2. /\ Whole(writer.rows) /\ csv = writer.rows /\ quality = Report(writer.rows)
        /\ manifest' = Summary(writer.rows)
    BY <1>5, <2>1 DEF WriteManifest, Summary, Behind, Hashed
  <2>3. ASSUME ingest = NoFile PROVE Passes(manifest', ingest, quality, csv)
    BY <2>2, <2>3, WholePasses
  <2> QED BY <2>1, <2>3 DEF Ended, Passes
<1>6. CASE DoubleCheck
  <2>1. /\ writer'.at = "idle" /\ UNCHANGED files /\ writer.at = "check"
    BY <1>6 DEF DoubleCheck, Idle
  <2>2. Passes(manifest, ingest, quality, csv)
    <3>1. /\ Whole(writer.rows) /\ csv = writer.rows /\ quality = Report(writer.rows)
          /\ manifest = Summary(writer.rows) /\ ingest = [sha |-> writer.rows]
      BY <2>1 DEF Behind, Hashed
    <3> QED BY <3>1, WholePasses
  <2> QED BY <2>1, <2>2 DEF Ended, Passes, files
<1> QED BY <1>1, <1>2, <1>3, <1>4, <1>5, <1>6 DEF Next, Write, Read

(* What the gate has read of a manifest is what some ingestion wrote.       *)
LEMMA NamedStep == TypeOK /\ Behind /\ Named /\ [Next]_vars => Named'
<1> SUFFICES ASSUME TypeOK, Behind, Named, [Next]_vars PROVE Named'
  OBVIOUS
<1> USE DEF files, readers
<1>1. CASE UNCHANGED <<manifest, gate>>
  BY <1>1 DEF Named, Names, Summary, SpanOf
<1>2. CASE OpenManifest
  BY <1>2 DEF OpenManifest, Named, Names
<1>3. CASE WriteManifest
  <2>1. writer.at = "summary" /\ gate' = gate
    BY <1>3 DEF WriteManifest
  <2>2. manifest' = Summary(writer.rows) /\ Whole(writer.rows)
    BY <1>3, <2>1 DEF WriteManifest, Summary, Behind, Hashed
  <2>3. manifest'.sha = writer.rows
    BY <2>2 DEF Summary
  <2> QED BY <2>1, <2>2, <2>3 DEF Named, Names
<1>4. CASE Read
  <2>1. manifest' = manifest
    BY <1>4, ReadersOnlyRead
  <2>2. CASE GateReadsManifest
    <3>1. gate'.manifest = manifest /\ gate'.pass = gate.pass /\ gate.at = "manifest"
      BY <2>2 DEF GateReadsManifest, TypeOK
    <3> QED BY <2>1, <3>1 DEF Named, Names
  <2>3. CASE GateReadsIngest \/ GateReadsQuality
    <3>1. gate'.manifest = gate.manifest /\ gate'.pass = gate.pass /\ gate.at # "done"
      BY <2>3 DEF GateReadsIngest, GateReadsQuality, TypeOK
    <3> QED BY <2>1, <3>1 DEF Named, Names
  <2>4. CASE GateHashes
    <3>1. /\ gate'.manifest = gate.manifest /\ gate'.at = "done"
          /\ gate'.hashed = IF csv = NoFile THEN <<>> ELSE csv
          /\ gate'.pass = Passes(gate.manifest, gate.ingest, gate.quality, csv)
      BY <2>4 DEF GateHashes, TypeOK
    <3>2. gate'.pass => /\ gate'.hashed = csv /\ gate.manifest \notin {NoFile, Torn}
                        /\ gate.manifest.sha = csv
      BY <3>1 DEF Passes
    <3>3. gate'.pass => Whole(gate'.hashed) /\ gate'.manifest = Summary(gate'.hashed)
      BY <3>1, <3>2 DEF Named, Names
    <3> QED BY <2>1, <3>1, <3>3 DEF Named, Names
  <2>5. CASE NextRun
    BY <2>1, <2>5 DEF NextRun, NoGate, Named, Names
  <2>6. CASE \E q \in Queries : Query(q)
    BY <1>1, <2>1, <2>6 DEF Query
  <2> QED BY <1>4, <2>2, <2>3, <2>4, <2>5, <2>6 DEF Read
<1>5. CASE (\E batch \in Batches, adapter \in BOOLEAN : Begin(batch, adapter)) \/ Crash \/ UNCHANGED vars
  BY <1>1, <1>5 DEF Begin, Crash, vars
<1>6. CASE Write
  BY <1>1, <1>2, <1>3, <1>6 DEF Write, OpenQuality, WriteQuality, OpenCsv, WriteRow, CloseCsv,
     HashCsv, OpenIngestManifest, WriteIngestManifest, DoubleCheck
<1> QED BY <1>4, <1>5, <1>6 DEF Next, Read

(* Every row of the file comes from a provider. *)
LEMMA SourcedStep == TypeOK /\ Behind /\ FileSourced /\ [Next]_vars => FileSourced'
<1> SUFFICES ASSUME TypeOK, Behind, FileSourced, [Next]_vars PROVE FileSourced'
  OBVIOUS
<1> USE DEF files, readers
<1>1. CASE UNCHANGED csv
  BY <1>1 DEF FileSourced, Sourced, BarOrder, Before
<1>2. CASE OpenCsv
  BY <1>2 DEF OpenCsv, FileSourced, Sourced, BarOrder
<1>3. CASE WriteRow
  <2>1. /\ writer.at = "rows" /\ Len(csv) < Len(writer.rows)
        /\ csv' = Append(csv, writer.rows[Len(csv) + 1])
    BY <1>3 DEF WriteRow
  <2>2. /\ csv \in Seq(Row) /\ writer.rows \in Seq(Row)
        /\ \A k \in 1..Len(csv) : csv[k] = writer.rows[k]
        /\ Sourced(writer.rows) /\ BarOrder(writer.rows)
    <3>1. /\ csv \in Seq(Row) /\ Whole(writer.rows)
          /\ \A k \in 1..Len(csv) : csv[k] = writer.rows[k]
      BY <2>1 DEF Behind
    <3> QED BY <3>1, WholeRows
  <2>3. Len(csv) \in Nat /\ Len(writer.rows) \in Nat /\ writer.rows[Len(csv) + 1] \in Row
    BY <2>1, <2>2
  <2>4. \A k \in DOMAIN csv' : k \in DOMAIN writer.rows /\ csv'[k] = writer.rows[k]
    BY <2>1, <2>2, <2>3
  <2>5. Sourced(csv') /\ BarOrder(csv')
    BY <2>2, <2>4 DEF Sourced, BarOrder
  <2> QED BY <2>5 DEF FileSourced
<1>4. CASE Read \/ UNCHANGED vars
  BY <1>1, <1>4, ReadersOnlyRead DEF vars
<1>5. CASE (\E batch \in Batches, adapter \in BOOLEAN : Begin(batch, adapter)) \/ Crash
  BY <1>1, <1>5 DEF Begin, Crash
<1>6. CASE Write
  BY <1>1, <1>2, <1>3, <1>6 DEF Write, OpenQuality, WriteQuality, CloseCsv, HashCsv, OpenManifest,
     WriteManifest, OpenIngestManifest, WriteIngestManifest, DoubleCheck
<1> QED BY <1>4, <1>5, <1>6 DEF Next, Read

(* What a run has got stays until the next run. *)
LEMMA RunStays == [Next]_vars => UNCHANGED run \/ NextRun \/ \E q \in Queries : Query(q)
BY DEF Next, vars, readers, Begin, Crash, Write, OpenQuality, WriteQuality, OpenCsv, WriteRow,
   CloseCsv, HashCsv, OpenManifest, WriteManifest, OpenIngestManifest, WriteIngestManifest,
   DoubleCheck, GateReadsManifest, GateReadsIngest, GateReadsQuality, GateHashes

(* The invariant is one: it holds in every state that can be reached.       *)
THEOREM Invariance == Spec => []Kept
<1>1. Kept /\ [Next]_vars => Kept'
  BY TypeStep, BehindStep, EndedStep, NamedStep, SourcedStep DEF Kept
<1> QED BY <1>1, KeptInit, PTL DEF Spec

(* Every variable keeps its type: what an ingestion sorts, picks and sums   *)
(* up is made of rows and numbers (lake.py 148-285).                        *)
THEOREM TypesHold == Spec => []TypeOK
<1>1. Kept => TypeOK
  BY DEF Kept
<1> QED BY <1>1, Invariance, PTL

(* The snapshot is whole after an ingestion that ran to its end, and until  *)
(* another one writes (lake.py 123-294).                                    *)
THEOREM FinishedIsIntact == Spec => []FinishedMeansIntact
<1>1. Kept => FinishedMeansIntact
  BY DEF Kept, Ended, FinishedMeansIntact
<1> QED BY <1>1, Invariance, PTL

(* The gate passes whole files only, whatever replaced them while it read   *)
(* (data_snapshot_integrity.py 78-158).                                     *)
THEOREM PassedIsWhole == Spec => []IntegrityMeansWhole
<1>1. Kept => IntegrityMeansWhole
  <2> SUFFICES ASSUME Kept, gate.pass
               PROVE  /\ Whole(gate.hashed)
                      /\ gate.manifest.rows = Len(gate.hashed)
                      /\ \A i, j \in DOMAIN gate.hashed :
                           SameBar(gate.hashed[i], gate.hashed[j]) => i = j
    BY DEF IntegrityMeansWhole, Whole
  <2>1. Whole(gate.hashed) /\ gate.manifest = Summary(gate.hashed)
    BY DEF Kept, Named
  <2>2. gate.manifest.rows = Len(gate.hashed)
    BY <2>1 DEF Summary
  <2> QED BY <2>1, <2>2, WholeRows
<1> QED BY <1>1, Invariance, PTL

(* The days and times of availability in a manifest that passes are those   *)
(* of the file: no row lies outside (lake.py 163-198, 247-285).             *)
THEOREM PassedSpanHolds == Spec => [](gate.pass => Within(gate.hashed, gate.manifest.span))
<1>1. Kept /\ gate.pass => Within(gate.hashed, gate.manifest.span)
  <2> SUFFICES ASSUME Kept, gate.pass PROVE Within(gate.hashed, gate.manifest.span)
    OBVIOUS
  <2>1. Whole(gate.hashed) /\ gate.manifest = Summary(gate.hashed)
    BY DEF Kept, Named
  <2>2. gate.manifest.span = SpanOf(gate.hashed)
    BY <2>1 DEF Summary
  <2> QED BY <2>1, <2>2, WholeRows
<1> QED BY <1>1, Invariance, PTL

(* A run gets its rows in the order of symbol and day, no bar twice, from   *)
(* half a file too: sorting them again changes nothing (catalog.py 234).    *)
THEOREM AnswersInOrder == Spec => []BarOrder(run.rows)
<1>1. Init => BarOrder(run.rows)
  BY DEF Init, NoRun, BarOrder
<1>2. Kept /\ BarOrder(run.rows) /\ [Next]_vars => BarOrder(run.rows)'
  <2> SUFFICES ASSUME Kept, BarOrder(run.rows), [Next]_vars PROVE BarOrder(run.rows)'
    OBVIOUS
  <2>1. CASE UNCHANGED run
    BY <2>1 DEF BarOrder, Before
  <2>2. ASSUME NEW q \in Queries, Query(q) PROVE BarOrder(run'.rows)
    BY <2>2, QueryRows DEF Kept, FileSourced
  <2>3. CASE NextRun
    BY <2>3 DEF NextRun, NoRun, BarOrder
  <2> QED BY <2>1, <2>2, <2>3, RunStays DEF BarOrder, Before
<1> QED BY <1>1, <1>2, Invariance, PTL DEF Spec

(* Point in time: a run sees of the file what its provider, or the latency, *)
(* lets it see as of its time, whatever was ingested (catalog.py 131-150).  *)
THEOREM NothingFromTheFuture == Spec => []NoLookahead
<1>1. Init => NoLookahead
  BY DEF Init, NoRun, NoLookahead
<1>2. Kept /\ NoLookahead /\ [Next]_vars => NoLookahead'
  <2> SUFFICES ASSUME Kept, NoLookahead, [Next]_vars PROVE NoLookahead'
    OBVIOUS
  <2>1. CASE UNCHANGED run
    BY <2>1 DEF NoLookahead, SameBar
  <2>2. ASSUME NEW q \in Queries, Query(q) PROVE NoLookahead'
    <3>1. /\ csv # NoFile /\ run'.query = q
          /\ \A k \in DOMAIN run'.rows :
               \E l \in DOMAIN csv : run'.rows[k] = csv[l] /\ Visible(q, csv[l])
      BY <2>2, QueryRows DEF Kept
    <3>2. Sourced(csv)
      BY <3>1 DEF Kept, FileSourced
    <3> SUFFICES ASSUME NEW k \in DOMAIN run'.rows
                 PROVE  \E batch \in Batches : \E i \in DOMAIN batch :
                          /\ SameBar(batch[i], run'.rows[k]) /\ batch[i].price = run'.rows[k].price
                          /\ AvailableAt(batch[i]) <= q.asOf
      BY <3>1 DEF NoLookahead, AvailableAt, SameBar
    <3>3. PICK l \in DOMAIN csv : run'.rows[k] = csv[l] /\ Visible(q, csv[l])
      BY <3>1
    <3>4. PICK batch \in Batches : \E i \in DOMAIN batch :
            /\ SameBar(batch[i], csv[l]) /\ batch[i].price = csv[l].price
            /\ AvailableAt(batch[i]) = csv[l].avail
      BY <3>2 DEF Sourced
    <3> QED BY <3>3, <3>4 DEF Visible
  <2>3. CASE NextRun
    BY <2>3 DEF NextRun, NoRun, NoLookahead
  <2> QED BY <2>1, <2>2, <2>3, RunStays
<1> QED BY <1>1, <1>2, Invariance, PTL DEF Spec
===============================================================================
