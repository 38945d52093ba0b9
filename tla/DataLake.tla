------------------------------- MODULE DataLake -------------------------------
(***************************************************************************)
(* One snapshot of the data lake: ingestions that write its four files in  *)
(* place, one after the other (data_lake/lake.py, ingest/wequant_ohlcv.py),*)
(* a run that queries it as of a time (datacatalog/catalog.py) and the     *)
(* gate that later decides whether the snapshot is whole                   *)
(* (gates/data_snapshot_integrity.py).  An ingestion may be killed between *)
(* any two writes, and the same snapshot id may be ingested again.         *)
(*                                                                         *)
(* A sha256 is the content it is taken of.  Time is counted so that the    *)
(* bar of day d closes at time d.  A CSV file grows row by row.            *)
(***************************************************************************)
EXTENDS Integers, Sequences, FiniteSets, Ordering

CONSTANTS
  Symbols,
  Days,
  Batches,      \* what a provider may return: sequences of rows
  Latency,      \* default_latency_seconds + bar_close_to_signal_seconds
  Queries,      \* segments of a run: symbols, first and last day, as_of
  Missing,      \* an available_at the provider did not give
  NoFile,
  Torn,         \* a JSON file that was opened and not yet written
  MaxIngests

SourceRow == [symbol : Symbols, dt : Days, avail : Nat \cup {Missing}, price : Int]
Row == [symbol : Symbols, dt : Days, avail : Nat, price : Nat]

(* What is in the JSON files. *)
Span == [dtMin : Nat, dtMax : Nat, availMin : Nat, availMax : Nat]
QualityReport == [rows : Nat, span : Span]
Manifest == [rows : Nat, span : Span, sha : Seq(Row)]
IngestManifest == [sha : Seq(Row)]
JsonFile(S) == S \cup {NoFile, Torn}

ASSUME TimeAssumption == Symbols \subseteq Nat /\ Days \subseteq Nat /\ Latency \in Nat
ASSUME MissingAssumption == Missing \notin Int
ASSUME BatchesAssumption == Batches \subseteq Seq(SourceRow)
(* A file that is missing or torn can be told from one with content. *)
ASSUME FilesAssumption ==
  /\ NoFile # Torn
  /\ \A f \in {NoFile, Torn} : f \notin Seq(Row) \cup QualityReport \cup Manifest \cup IngestManifest
ASSUME QueriesAssumption ==
  Queries \subseteq [symbols : SUBSET Symbols, start : Nat, end : Nat, asOf : Nat]

VARIABLES
  csv,       \* <dataset>.csv
  quality,   \* quality_report.json
  manifest,  \* manifest.json
  ingest,    \* ingest_manifest.json, written by the adapter only
  writer,    \* the ingestion that is running
  last,      \* how the last ingestion that wrote anything ended
  ingests,   \* ingestions so far
  run,       \* the run: its query and the rows it got
  gate       \* the gate that judges the run: what it has read, its verdict

files == <<csv, quality, manifest, ingest>>
readers == <<run, gate>>
vars == <<files, writer, last, ingests, readers>>

Idle == [at |-> "idle", adapter |-> FALSE, rows |-> <<>>, sha |-> <<>>]
NoRun == [at |-> "due", query |-> NoFile, rows |-> <<>>]
NoGate == [at |-> "manifest", manifest |-> NoFile, ingest |-> NoFile, quality |-> NoFile,
           hashed |-> <<>>, pass |-> FALSE]

TypeOK ==
  /\ csv \in Seq(Row) \cup {NoFile}
  /\ quality \in JsonFile(QualityReport)
  /\ manifest \in JsonFile(Manifest)
  /\ ingest \in JsonFile(IngestManifest)
  /\ writer \in [at : {"idle", "quality", "report", "csv", "rows", "hash", "manifest", "summary",
                       "ingest", "audit", "check"},
                 adapter : BOOLEAN, rows : Seq(Row), sha : Seq(Row)]
  /\ last \in {"none", "finished", "audited", "killed"}
  /\ ingests \in Nat
  /\ run \in [at : {"due", "read"}, query : Queries \cup {NoFile}, rows : Seq(Row)]
  /\ gate \in [at : {"manifest", "ingest", "quality", "hash", "done"},
               manifest : JsonFile(Manifest), ingest : JsonFile(IngestManifest),
               quality : JsonFile(QualityReport), hashed : Seq(Row), pass : BOOLEAN]

Init ==
  /\ csv = NoFile /\ quality = NoFile /\ manifest = NoFile /\ ingest = NoFile
  /\ writer = Idle
  /\ last = "none"
  /\ ingests = 0
  /\ run = NoRun
  /\ gate = NoGate

-----------------------------------------------------------------------------
(* Slip: a bar is taken to be available at its close. *)
AvailableAtClose(r) == IF r.avail = Missing THEN r.dt ELSE r.avail

(* A time the provider does not give is the bar's close plus the policy's  *)
(* latency.                                                                *)
AvailableAt(r) == IF r.avail = Missing THEN r.dt + Latency ELSE r.avail

SameBar(r, s) == r.symbol = s.symbol /\ r.dt = s.dt
Before(r, s) == r.symbol < s.symbol \/ (r.symbol = s.symbol /\ r.dt < s.dt)

(* The first row of each bar, in the order of symbol and day. *)
Firsts(batch) == {i \in DOMAIN batch : \A j \in 1..(i - 1) : ~SameBar(batch[i], batch[j])}
Deduped(batch) ==
  LET earlier == {p \in Firsts(batch) \X Firsts(batch) : Before(batch[p[1]], batch[p[2]])}
  IN  Picked(batch, InOrder(Firsts(batch), earlier))

Refused(rows) ==
  \/ rows = <<>>
  \/ \E k \in DOMAIN rows : \/ rows[k].avail # Missing /\ rows[k].avail < rows[k].dt
                            \/ rows[k].price < 0

Written(batch) ==
  LET rows == Deduped(batch)
  IN  [k \in DOMAIN rows |-> [symbol |-> rows[k].symbol, dt |-> rows[k].dt,
                              avail |-> AvailableAt(rows[k]), price |-> rows[k].price]]

SpanOf(rows) ==
  LET dts == {rows[k].dt : k \in DOMAIN rows}
      avails == {rows[k].avail : k \in DOMAIN rows}
  IN  [dtMin |-> Smallest(dts), dtMax |-> Greatest(dts),
       availMin |-> Smallest(avails), availMax |-> Greatest(avails)]

-----------------------------------------------------------------------------
(* Slip: a batch is written before all of it has been validated. *)
BeginUnvalidated(batch, adapter) ==
  /\ writer.at = "idle" /\ ingests < MaxIngests
  /\ ingests' = ingests + 1
  /\ batch # <<>>
  /\ writer' = [Idle EXCEPT !.at = "quality", !.adapter = adapter, !.rows = Written(batch)]
  /\ IF Refused(Deduped(batch)) THEN quality' = Torn ELSE UNCHANGED quality
  /\ UNCHANGED <<csv, manifest, ingest, last, readers>>

(* write_ohlcv_1d_snapshot, called by the demo or by the adapter: all      *)
(* validation comes before the first write.                                *)
Begin(batch, adapter) ==
  /\ writer.at = "idle" /\ ingests < MaxIngests
  /\ ingests' = ingests + 1
  /\ IF Refused(Deduped(batch))
     THEN UNCHANGED writer
     ELSE writer' = [Idle EXCEPT !.at = "quality", !.adapter = adapter, !.rows = Written(batch)]
  /\ UNCHANGED <<files, last, readers>>

Goto(place) == writer' = [writer EXCEPT !.at = place]

(* Every file is opened, which empties it, and then written. *)
OpenQuality ==
  /\ writer.at = "quality"
  /\ quality' = Torn /\ last' = "killed"
  /\ Goto("report")
  /\ UNCHANGED <<csv, manifest, ingest, ingests, readers>>

WriteQuality ==
  /\ writer.at = "report"
  /\ quality' = [rows |-> Len(writer.rows), span |-> SpanOf(writer.rows)]
  /\ Goto("csv")
  /\ UNCHANGED <<csv, manifest, ingest, last, ingests, readers>>

OpenCsv ==
  /\ writer.at = "csv"
  /\ csv' = <<>>
  /\ Goto("rows")
  /\ UNCHANGED <<quality, manifest, ingest, last, ingests, readers>>

WriteRow ==
  /\ writer.at = "rows" /\ Len(csv) < Len(writer.rows)
  /\ csv' = Append(csv, writer.rows[Len(csv) + 1])
  /\ UNCHANGED <<quality, manifest, ingest, writer, last, ingests, readers>>

CloseCsv ==
  /\ writer.at = "rows" /\ Len(csv) = Len(writer.rows)
  /\ Goto("hash")
  /\ UNCHANGED <<files, last, ingests, readers>>

(* Slip: a new file keeps the hash the old manifest has. *)
HashAsBefore ==
  /\ writer.at = "hash"
  /\ writer' = [writer EXCEPT !.at = "manifest",
                              !.sha = IF manifest \in JsonFile({}) THEN csv ELSE manifest.sha]
  /\ UNCHANGED <<files, last, ingests, readers>>

(* The hash is taken of the file, not of the rows in memory. *)
HashCsv ==
  /\ writer.at = "hash"
  /\ writer' = [writer EXCEPT !.at = "manifest", !.sha = csv]
  /\ UNCHANGED <<files, last, ingests, readers>>

OpenManifest ==
  /\ writer.at = "manifest"
  /\ manifest' = Torn
  /\ Goto("summary")
  /\ UNCHANGED <<csv, quality, ingest, last, ingests, readers>>

(* A demo ingestion ends here and leaves any ingest manifest as it is. *)
WriteManifest ==
  /\ writer.at = "summary"
  /\ manifest' = [rows |-> Len(writer.rows), span |-> SpanOf(writer.rows), sha |-> writer.sha]
  /\ IF writer.adapter THEN Goto("ingest") /\ UNCHANGED last
                       ELSE writer' = Idle /\ last' = "finished"
  /\ UNCHANGED <<csv, quality, ingest, ingests, readers>>

OpenIngestManifest ==
  /\ writer.at = "ingest"
  /\ ingest' = Torn
  /\ Goto("audit")
  /\ UNCHANGED <<csv, quality, manifest, last, ingests, readers>>

WriteIngestManifest ==
  /\ writer.at = "audit"
  /\ ingest' = [sha |-> writer.sha]
  /\ Goto("check")
  /\ UNCHANGED <<csv, quality, manifest, last, ingests, readers>>

(* The adapter hashes the file once more; a mismatch raises. *)
DoubleCheck ==
  /\ writer.at = "check"
  /\ writer' = Idle
  /\ last' = IF csv = writer.sha THEN "audited" ELSE "killed"
  /\ UNCHANGED <<files, ingests, readers>>

(* Killed, or an exception after the first write: what is written stays. *)
Crash ==
  /\ writer.at # "idle"
  /\ writer' = Idle
  /\ UNCHANGED <<files, last, ingests, readers>>

Write ==
  \/ OpenQuality \/ WriteQuality \/ OpenCsv \/ WriteRow \/ CloseCsv \/ HashCsv
  \/ OpenManifest \/ WriteManifest \/ OpenIngestManifest \/ WriteIngestManifest \/ DoubleCheck

-----------------------------------------------------------------------------
Selected(q, r) == r.symbol \in q.symbols /\ q.start <= r.dt /\ r.dt <= q.end

(* Slip: the gate on available_at compares the day of the bar. *)
VisibleByDay(q, r) == Selected(q, r) /\ r.dt <= q.asOf

Visible(q, r) == Selected(q, r) /\ r.avail <= q.asOf

(* query_ohlcv.  Rows are in the order of symbol and day already.  A query *)
(* of no symbols, or with no rows to return, makes the run invalid.        *)
Query(q) ==
  LET seen == {k \in DOMAIN csv : Visible(q, csv[k])}
      answer == IF csv = NoFile THEN <<>> ELSE Picked(csv, InOrder(seen, Ascending))
  IN  /\ run.at = "due"
      /\ answer # <<>>
      /\ run' = [at |-> "read", query |-> q, rows |-> answer]
      /\ UNCHANGED <<files, writer, last, ingests, gate>>

-----------------------------------------------------------------------------
(* Slip: the hash of the file is compared with nothing. *)
PassesUnhashed(man, ing, qual, file) ==
  /\ man \notin {NoFile, Torn} /\ qual \notin {NoFile, Torn} /\ ing # Torn
  /\ file # NoFile
  /\ qual.rows = man.rows /\ qual.span = man.span

(* The verdict of the gate on what it has read.  A file that does not      *)
(* parse fails it, as does one that is missing, the ingest manifest        *)
(* excepted.                                                               *)
Passes(man, ing, qual, file) ==
  /\ man \notin {NoFile, Torn} /\ qual \notin {NoFile, Torn} /\ ing # Torn
  /\ file # NoFile
  /\ man.sha = file
  /\ ing # NoFile => ing.sha = file
  /\ qual.rows = man.rows /\ qual.span = man.span

GateReadsManifest ==
  /\ run.at = "read" /\ gate.at = "manifest"
  /\ gate' = [gate EXCEPT !.at = "ingest", !.manifest = manifest]
  /\ UNCHANGED <<files, writer, last, ingests, run>>

GateReadsIngest ==
  /\ gate.at = "ingest"
  /\ gate' = [gate EXCEPT !.at = "quality", !.ingest = ingest]
  /\ UNCHANGED <<files, writer, last, ingests, run>>

GateReadsQuality ==
  /\ gate.at = "quality"
  /\ gate' = [gate EXCEPT !.at = "hash", !.quality = quality]
  /\ UNCHANGED <<files, writer, last, ingests, run>>

GateHashes ==
  /\ gate.at = "hash"
  /\ gate' = [gate EXCEPT !.at = "done", !.hashed = IF csv = NoFile THEN <<>> ELSE csv,
                          !.pass = Passes(gate.manifest, gate.ingest, gate.quality, csv)]
  /\ UNCHANGED <<files, writer, last, ingests, run>>

(* The reply of the gate is for one run; the next run is judged anew. *)
NextRun ==
  /\ gate.at = "done"
  /\ run' = NoRun /\ gate' = NoGate
  /\ UNCHANGED <<files, writer, last, ingests>>

Next ==
  \/ \E batch \in Batches, adapter \in BOOLEAN : Begin(batch, adapter)
  \/ Write \/ Crash
  \/ \E q \in Queries : Query(q)
  \/ GateReadsManifest \/ GateReadsIngest \/ GateReadsQuality \/ GateHashes \/ NextRun

Spec == Init /\ [][Next]_vars

-----------------------------------------------------------------------------
(* Point in time: whatever was ingested, killed or ingested again, every   *)
(* row a run gets is a row some provider returned, and that provider's     *)
(* own time of availability, or else the close of the bar plus the         *)
(* policy's latency, is not after the as_of of the run (lake.py:84-120,    *)
(* catalog.py:131-150).                                                    *)
NoLookahead ==
  \A k \in DOMAIN run.rows :
    \E batch \in Batches : \E i \in DOMAIN batch :
      /\ SameBar(batch[i], run.rows[k]) /\ batch[i].price = run.rows[k].price
      /\ (IF batch[i].avail = Missing THEN batch[i].dt + Latency ELSE batch[i].avail)
           <= run.query.asOf

(* When the gate passes a snapshot, the file it hashed is all the rows of  *)
(* one ingestion, each bar once, and the manifest it read counts them:     *)
(* also when it read its four files while an ingestion was replacing them  *)
(* (data_snapshot_integrity.py:78-158).                                    *)
IntegrityMeansWhole ==
  gate.pass =>
    /\ \E batch \in Batches : ~Refused(Deduped(batch)) /\ gate.hashed = Written(batch)
    /\ gate.manifest.rows = Len(gate.hashed)
    /\ \A i, j \in DOMAIN gate.hashed : SameBar(gate.hashed[i], gate.hashed[j]) => i = j

(* After an ingestion that ran to its end, the gate would pass the         *)
(* snapshot, and ingestions refused since have not changed that.  A demo   *)
(* ingestion over a snapshot of the adapter is excepted: it leaves an      *)
(* ingest manifest with another hash (lake.py:123-294).                    *)
FinishedMeansIntact ==
  writer.at = "idle" /\ (last = "audited" \/ (last = "finished" /\ ingest = NoFile)) =>
    Passes(manifest, ingest, quality, csv)
===============================================================================
