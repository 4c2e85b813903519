---------------------------- MODULE SourceImport ----------------------------
(***************************************************************************)
(* One import into the analysis engine, from the source's rows to the      *)
(* dataset that is published: the displayed grid (import_result), the      *)
(* stream of a query (adapters' streamQuery, /analysis/stream of the       *)
(* backend, import_source), a CSV or Parquet file (import_file), and what  *)
(* is first staged as a Parquet file: JSON, S3 and S3 catalogs, the latter *)
(* after the local datasets they join were staged as well.                 *)
(* A row is its number in the source and has a size; its values, their     *)
(* types and their conversion are left out.                                *)
(***************************************************************************)
EXTENDS Option, Naturals, Sequences, FiniteSets

CONSTANTS
  MaxRows,        \* bound: the rows of a source
  RowSizes,       \* their sizes
  Targets,        \* the sizes of samples that are asked for
  BatchRows,      \* batchSize of a stream, batch size of a file reader
  FrameLimit,     \* MAX_ANALYSIS_FRAME_BYTES, and the limit of the reader
  FrameBase,      \* the bytes of a frame without rows
  DatasetBudget,  \* MAX_DATASET_BYTES
  SampleBudget    \* MAX_SAMPLE_BYTES, MAX_SNAPSHOT_BYTES

ASSUME ImportAssumption ==
  /\ MaxRows \in Nat /\ RowSizes \subseteq Nat \ {0} /\ Targets \subseteq Nat \ {0}
  /\ BatchRows \in Nat \ {0} /\ {FrameLimit, FrameBase, DatasetBudget, SampleBudget} \subseteq Nat
  /\ None \notin [rows : Seq(Nat), coverage : {"complete", "truncated", "sampled"}, total : Nat \cup {None}]

VARIABLES
  kind,       \* where the rows come from
  shown,      \* the rows the grid shows; elsewhere all
  selection,  \* ImportSelection: all rows, the first ones, or a sample
  source,     \* the sizes of the rows the source has
  sent,       \* how many of them were read from it
  producer,   \* the backend's side of a stream: "open", "ended" or "broken"
  wire,       \* the messages of the stream that were not read yet
  phase,      \* what the engine does
  batch,      \* the rows of the current batch it has not looked at
  scanned,    \* scanned_rows: how many it has looked at
  table,      \* the rows in the uncommitted table
  sample,     \* the reservoir
  bytes,      \* approximate_bytes
  staged,     \* the temporary files that exist
  stopping,   \* cancel_requested
  dataset     \* the published dataset, or None

request == <<kind, shown, selection, source>>
importVars == <<request, sent, producer, wire, phase, batch, scanned,
                table, sample, bytes, staged, stopping, dataset>>

Kinds == {"grid", "stream", "file", "json", "s3", "catalog"}
Staging == {"json", "s3", "catalog"}
AllRows == [of |-> "full", rows |-> 0]
Selections == {AllRows} \cup [of : {"first", "sample"}, rows : Targets]
Phases == {"joining", "staging", "reading", "failing", "finishing", "removing", "done"}
Joined == "local"    \* the file of a local dataset that is joined
Parquet == "parquet" \* the file the rows are staged in

Rows == 1 .. Len(source)
Numbers(from, to) == [i \in 1 .. to - from + 1 |-> from + i - 1]
(* (A sum and, below, Packed are functions of how many rows were seen: the *)
(* proofs can speak of these, and not of a fold.)                          *)
Bytes(rows) ==
  LET upTo[k \in 0 .. Len(rows)] == IF k = 0 THEN 0 ELSE upTo[k - 1] + source[rows[k]]
  IN upTo[Len(rows)]
Least(a, b) == IF a < b THEN a ELSE b

ImportInit ==
  /\ kind \in Kinds /\ selection \in Selections
  /\ source \in UNION {[1 .. n -> RowSizes] : n \in 0 .. MaxRows}
  /\ sent = 0 /\ scanned = 0 /\ wire = <<>> /\ batch = <<>> /\ table = <<>> /\ sample = <<>>
  /\ shown \in IF kind = "grid" THEN 0 .. Len(source) ELSE {Len(source)}
  /\ producer = IF kind = "stream" THEN "fresh" ELSE "ended"
  /\ phase = CASE kind = "catalog" -> "joining" [] kind \in {"json", "s3"} -> "staging" [] OTHER -> "reading"
  /\ bytes = 0 /\ staged = {} /\ stopping = FALSE /\ dataset = None

-----------------------------------------------------------------------------
(* The backend's side of a stream.  An adapter collects BatchRows rows, or *)
(* what is left; a source without rows yields one empty batch.  The rows   *)
(* of a batch are packed into frames; what does not fit starts another,    *)
(* and a row that does not fit an empty frame is refused.  (A row that     *)
(* starts another frame is looked at again only at the end of the batch.)  *)
Message(type, rows) == [type |-> type, rows |-> rows]
FrameBytes(rows) == FrameBase + Bytes(rows) + (IF rows = <<>> THEN 0 ELSE Len(rows) - 1)

Packing(written, open, refused) == [written |-> written, open |-> open, refused |-> refused]
Unpacked == Packing(<<>>, <<>>, FALSE)

Pack(packed, i) ==
  IF packed.refused THEN packed
  ELSE IF FrameBytes(Append(packed.open, i)) <= FrameLimit
    THEN Packing(packed.written, Append(packed.open, i), FALSE)
  ELSE IF packed.open = <<>> THEN Packing(packed.written, <<>>, TRUE)
  ELSE Packing(Append(packed.written, Message("batch", packed.open)), <<i>>, FALSE)

Packed(rows) ==
  LET upTo[k \in 0 .. Len(rows)] == IF k = 0 THEN Unpacked ELSE Pack(upTo[k - 1], rows[k])
  IN upTo[Len(rows)]
Refused(packed) == packed.refused \/ FrameBytes(packed.open) > FrameLimit

(* A batch is due: a source that has no rows yields one, without rows.  *)
HasBatch == producer = "fresh" \/ (producer = "open" /\ sent < Len(source))
NextRows == Numbers(sent + 1, Least(sent + BatchRows, Len(source)))

Emit ==
  /\ HasBatch
  /\ LET packed == Packed(NextRows) IN
     /\ wire' = wire \o Append(packed.written,
                  IF Refused(packed) THEN Message("error", <<>>) ELSE Message("batch", packed.open))
     /\ producer' = IF Refused(packed) THEN "ended" ELSE "open"
  /\ sent' = sent + Len(NextRows)
  /\ UNCHANGED <<request, phase, batch, scanned, table, sample, bytes, staged, stopping, dataset>>

EndStream(type) ==
  /\ producer \in {"fresh", "open"}
  /\ wire' = Append(wire, Message(type, <<>>))
  /\ producer' = "ended"
  /\ UNCHANGED <<request, sent, phase, batch, scanned, table, sample, bytes, staged, stopping, dataset>>

Completes == ~HasBatch /\ EndStream("complete")

(* The source or the adapter fails, at a stop of the query as well as at a *)
(* value that it could not preserve: the frame of an error, or columns     *)
(* that changed on the way.                                                *)
SourceFails == EndStream("error") \/ EndStream("other")

(* The backend goes, the connection breaks or a timeout of the client      *)
(* passes: what was on its way is cut anywhere.                            *)
Break ==
  /\ kind = "stream" /\ producer # "broken" /\ phase = "reading"
  /\ producer' = "broken"
  /\ \E n \in 0 .. Len(wire) : wire' = SubSeq(wire, 1, n)
  /\ UNCHANGED <<request, sent, phase, batch, scanned, table, sample, bytes, staged, stopping, dataset>>

-----------------------------------------------------------------------------
(* The engine gives up: the transaction rolls back, and what was staged is *)
(* removed next.                                                           *)
GivesUp ==
  /\ phase' = IF kind \in Staging THEN "removing" ELSE "done"
  /\ table' = <<>> /\ batch' = <<>>
  /\ UNCHANGED <<request, producer, scanned, sample, bytes, staged, stopping, dataset>>

(* A read, a statement or a conversion fails, or the loop of a stream, of  *)
(* a file or of a catalog sees that a stop is requested.                   *)
Fail == phase \in {"joining", "staging", "reading", "finishing"} /\ GivesUp /\ UNCHANGED <<sent, wire>>
Exceeded == phase = "failing" /\ GivesUp /\ UNCHANGED <<sent, wire>>

(* with_s3_catalog: each local dataset the SQL joins is exported to a file *)
(* of its own, read and removed; one dataset stands for them.              *)
Join ==
  /\ phase = "joining" /\ staged = {}
  /\ \/ staged' = {Joined} /\ phase' = phase
     \/ staged' = staged /\ phase' = "staging"
  /\ UNCHANGED <<request, sent, producer, wire, batch, scanned, table, sample, bytes, stopping, dataset>>

JoinLoaded ==
  /\ phase = "joining" /\ staged = {Joined}
  /\ staged' = {}
  /\ phase' \in {"staging", "removing"}
  /\ UNCHANGED <<request, sent, producer, wire, batch, scanned, table, sample, bytes, stopping, dataset>>

(* The rows go to a Parquet file: all of them, or from S3 the first ones.  *)
(* What comes from S3 is refused when it is larger than a dataset may be;  *)
(* JSON is looked at as it is read.                                        *)
All == IF kind \in {"s3", "catalog"} /\ selection.of = "first" THEN Least(selection.rows, Len(source)) ELSE Len(source)

Stage ==
  /\ phase = "staging"
  /\ staged' = {Parquet}
  /\ phase' = IF kind # "json" /\ Bytes(Numbers(1, All)) > DatasetBudget THEN "removing" ELSE "reading"
  /\ UNCHANGED <<request, sent, producer, wire, batch, scanned, table, sample, bytes, stopping, dataset>>

(* The file is removed whatever became of the import. *)
RemoveStaged ==
  /\ phase = "removing"
  /\ staged' = {}
  /\ phase' = "done"
  /\ UNCHANGED <<request, sent, producer, wire, batch, scanned, table, sample, bytes, stopping, dataset>>

-----------------------------------------------------------------------------
(* read_stream_message: the next line, or none when the stream has ended.  *)
(* Mutant: the end reads as an empty line for ever. *)
ReceivedAgain == IF wire = <<>> THEN Message("batch", <<>>) ELSE Head(wire)

Received == IF wire = <<>> THEN Message("none", <<>>) ELSE Head(wire)
IsBatch(message) == message.type = "batch" /\ FrameBytes(message.rows) <= FrameLimit

(* Mutant: the end of the stream passes for its completion. *)
IsCompleteAtEnd(message) == message.type \in {"complete", "none"}

IsComplete(message) == message.type = "complete"

(* The loop of import_source: only a completion frame ends it well. *)
ReadMessage ==
  /\ phase = "reading" /\ kind = "stream" /\ batch = <<>>
  /\ wire # <<>> \/ producer = "broken" \/ stopping
  /\ wire' = IF stopping \/ wire = <<>> THEN wire ELSE Tail(wire)
  /\ \/ /\ ~stopping /\ IsBatch(Received)
        /\ batch' = Received.rows
        /\ UNCHANGED <<request, sent, producer, phase, scanned, table, sample, bytes, staged, stopping, dataset>>
     \/ /\ ~stopping /\ IsComplete(Received)
        /\ phase' = "finishing"
        /\ UNCHANGED <<request, sent, producer, batch, scanned, table, sample, bytes, staged, stopping, dataset>>
     \/ /\ stopping \/ ~(IsBatch(Received) \/ IsComplete(Received))
        /\ GivesUp /\ UNCHANGED sent

(* import_result has all its rows at once, and does not look at the        *)
(* request to stop.                                                        *)
ReadGrid ==
  /\ phase = "reading" /\ kind = "grid" /\ batch = <<>>
  /\ batch' = Numbers(sent + 1, shown)
  /\ sent' = shown
  /\ phase' = IF sent = shown THEN "finishing" ELSE phase
  /\ UNCHANGED <<request, producer, wire, scanned, table, sample, bytes, staged, stopping, dataset>>

(* The loop of import_file over the batches of the reader. *)
ReadBatch ==
  /\ phase = "reading" /\ kind \notin {"stream", "grid"} /\ batch = <<>>
  /\ \/ /\ sent = All
        /\ phase' = "finishing"
        /\ UNCHANGED <<request, sent, producer, wire, batch, scanned, table, sample, bytes, staged, stopping, dataset>>
     \/ /\ sent < All /\ stopping
        /\ GivesUp /\ UNCHANGED <<sent, wire>>
     \/ /\ sent < All /\ ~stopping
        /\ batch' = Numbers(sent + 1, Least(sent + BatchRows, All))
        /\ sent' = sent + Len(batch')
        /\ UNCHANGED <<request, producer, wire, phase, scanned, table, sample, bytes, staged, stopping, dataset>>

(* The first rows have been found: the rest is not looked at. *)
Enough == selection.of = "first" /\ Len(table') = selection.rows

(* The budget is looked at after each row of a stream and each batch of a  *)
(* file, unless the first rows have been found; the grid's, smaller, when  *)
(* all its rows are selected.                                              *)
OverBudget ==
  IF kind = "grid" THEN (Enough \/ Len(batch) = 1) /\ bytes' > SampleBudget
  ELSE bytes' > DatasetBudget /\ ~Enough /\ (kind = "stream" \/ Len(batch) = 1)

(* sample_bytes: what a sample would hold with the row that comes in. *)
Overdrawn(i) == selection.of = "sample" /\ kind # "grid" /\ bytes + source[i] > SampleBudget

Keeps(i) ==
  /\ bytes' = bytes + source[i]
  /\ IF selection.of = "sample"
       THEN sample' = Append(sample, i) /\ UNCHANGED table
       ELSE table' = Append(table, i) /\ UNCHANGED sample

(* select_rows and its equals in the loops: the random number falls on a   *)
(* place of the full reservoir.                                            *)
Replaces(i, at) ==
  /\ bytes' = (bytes + source[i]) - source[sample[at]]
  /\ sample' = [sample EXCEPT ![at] = i]
  /\ UNCHANGED table

(* A row is kept, takes the place of another, or is passed over; the       *)
(* import fails when the row does not fit any more.                        *)
TakeRow ==
  /\ phase = "reading" /\ batch # <<>>
  /\ scanned' = scanned + 1
  /\ \E at \in IF selection.of = "sample" /\ Len(sample) = selection.rows THEN 1 .. scanned' ELSE {0} :
       LET i == Head(batch)
           passed == at > selection.rows IN
       /\ IF passed \/ Overdrawn(i) THEN UNCHANGED <<bytes, table, sample>>
          ELSE IF at = 0 THEN Keeps(i) ELSE Replaces(i, at)
       /\ phase' = CASE (Overdrawn(i) /\ ~passed) \/ OverBudget -> "failing"
                     [] Enough -> "finishing"
                     [] OTHER -> phase
  /\ batch' = IF Enough THEN <<>> ELSE Tail(batch)
  /\ UNCHANGED <<request, sent, producer, wire, staged, stopping, dataset>>

More == shown < Len(source)
Coverage == IF selection.of # "full" THEN "sampled" ELSE IF More THEN "truncated" ELSE "complete"

(* source_total: known where every row was looked at. *)
Total == IF kind = "grid" THEN (IF More THEN None ELSE shown)
         ELSE IF selection.of = "first" THEN None ELSE scanned

(* The reservoir is appended, the appender flushed, the registry row       *)
(* written and the transaction committed; DatasetStore has what that does. *)
Commit ==
  /\ phase = "finishing"
  /\ table' = table \o sample
  /\ dataset' = [rows |-> table', coverage |-> Coverage, total |-> Total]
  /\ phase' = IF kind \in Staging THEN "removing" ELSE "done"
  /\ UNCHANGED <<request, sent, producer, wire, batch, scanned, sample, bytes, staged, stopping>>

(* cancel. *)
RequestStop ==
  /\ phase # "done" /\ ~stopping
  /\ stopping' = TRUE
  /\ UNCHANGED <<request, sent, producer, wire, phase, batch, scanned, table, sample, bytes, staged, dataset>>

Engine == Join \/ JoinLoaded \/ Stage \/ RemoveStaged \/ ReadMessage \/ ReadGrid \/ ReadBatch \/ TakeRow \/ Exceeded \/ Commit

ImportNext ==
  \/ Emit \/ Completes \/ SourceFails \/ Break
  \/ Engine \/ Fail \/ RequestStop

ImportSpec == ImportInit /\ [][ImportNext]_importVars

-----------------------------------------------------------------------------
MessageTypes == {"batch", "complete", "error", "other"}

ImportTypeOK ==
  /\ kind \in Kinds /\ selection \in Selections /\ phase \in Phases
  /\ source \in Seq(RowSizes) /\ shown \in 0 .. Len(source) /\ {sent, scanned} \subseteq 0 .. Len(source)
  /\ producer \in {"fresh", "open", "ended", "broken"}
  /\ wire \in Seq([type : MessageTypes, rows : Seq(Rows)])
  /\ {batch, table, sample} \subseteq Seq(Rows)
  /\ bytes \in Nat /\ staged \subseteq {Joined, Parquet} /\ stopping \in BOOLEAN

(* The rows that are to be read, and how far the source was read when the  *)
(* k-th message was written.                                               *)
Wanted == IF kind = "grid" THEN shown ELSE All
Reached(k) ==
  IF k = 0 THEN scanned + Len(batch)
  ELSE IF wire[k].rows = <<>> THEN Len(source)
  ELSE wire[k].rows[Len(wire[k].rows)]

(* What the backend has written goes on where the engine is; it says that  *)
(* it is complete where the source ends.                                   *)
WireInOrder ==
  /\ \A k \in DOMAIN wire :
       /\ wire[k].rows # <<>> => wire[k].type = "batch"
       /\ wire[k].type = "batch" => Reached(k - 1) <= Reached(k) /\ wire[k].rows = Numbers(Reached(k - 1) + 1, Reached(k))
       /\ wire[k].type = "complete" => Reached(k - 1) = Len(source)
  /\ producer \in {"fresh", "open"} => Reached(Len(wire)) = sent

(* No row is left out and none comes twice.                                *)
RowsInOrder ==
  /\ kind # "grid" => shown = Len(source)
  /\ kind # "stream" => producer = "ended" /\ sent <= Wanted
  /\ producer = "fresh" => sent = 0 /\ wire = <<>>
  /\ phase = "reading" =>
       /\ batch = Numbers(scanned + 1, scanned + Len(batch))
       /\ IF kind = "stream" THEN WireInOrder ELSE sent = scanned + Len(batch)
  /\ phase \in {"joining", "staging"} => sent = 0 /\ scanned = 0 /\ batch = <<>> /\ bytes = 0
  /\ phase = "finishing" => scanned = Wanted \/ (selection.of = "first" /\ Len(table) = selection.rows)
  /\ scanned <= Wanted

(* What the engine holds of the rows it has looked at.                     *)
HoldsWhatItSaw ==
  /\ dataset # None => phase \in {"removing", "done"}
  /\ selection.of # "sample" => sample = <<>>
  /\ phase \in {"joining", "staging", "reading", "finishing"} =>
       IF selection.of # "sample"
         THEN /\ table = Numbers(1, scanned)
              /\ selection.of = "first" => scanned <= selection.rows /\ (scanned = selection.rows => phase = "finishing")
         ELSE /\ table = <<>> /\ bytes = Bytes(sample) /\ Len(sample) = Least(selection.rows, scanned)
              /\ \A k \in DOMAIN sample : sample[k] <= scanned
              /\ \A j, k \in DOMAIN sample : sample[j] = sample[k] => j = k

(* Only what stages has files, and it is where they are removed that these *)
(* imports end.                                                            *)
StagedForItself ==
  /\ kind \notin Staging => staged = {} /\ phase \notin {"joining", "staging", "removing"}
  /\ phase \in {"removing", "done"} => dataset # None \/ table = <<>>

(* What a dataset says of itself is true of its source: all the rows in    *)
(* order when it is complete, the first ones, or as many different ones as *)
(* were asked for; and a total is given only if it is the source's.        *)
SaysWhatItHas ==
  dataset # None =>
    LET want == IF selection.of = "full" THEN shown ELSE Least(selection.rows, shown) IN
    /\ dataset.coverage = "complete" => dataset.rows = Numbers(1, Len(source))
    /\ dataset.coverage = "truncated" => More
    /\ Len(dataset.rows) = want
    /\ selection.of # "sample" => dataset.rows = Numbers(1, want)
    /\ Cardinality({dataset.rows[k] : k \in 1 .. want}) = want
    /\ dataset.total \in {None, Len(source)}

(* The memory a sample may take is never exceeded, and its account is that *)
(* of the rows it holds.                                                   *)
SampleFits == sample # <<>> => bytes = Bytes(sample) /\ (kind # "grid" => bytes <= SampleBudget)

(* An import that failed leaves neither rows nor files, and one that       *)
(* published has removed its files when it returns.                        *)
NothingLeft == phase = "done" => staged = {} /\ (dataset = None => table = <<>>)

ImportInv ==
  /\ ImportTypeOK /\ RowsInOrder /\ HoldsWhatItSaw /\ StagedForItself
  /\ SaysWhatItHas /\ SampleFits /\ NothingLeft

(* A dataset does not exceed the budget for one. *)
DatasetFits == dataset # None => Bytes(dataset.rows) <= DatasetBudget
=============================================================================
