----------------------------- MODULE FileWriters -----------------------------
(***************************************************************************)
(* FileWriterPool: the segments of an NZB's files are written by one task  *)
(* per file, created by the first segment that finds none, and flushed     *)
(* before post-processing reads the files.                                 *)
(*                                                                         *)
(* A writer task is named by the segment that created it.                  *)
(***************************************************************************)
EXTENDS Integers, FiniteSets

CONSTANTS
    Segments,       \* article segments of one NZB
    FileOf,         \* [Segments -> files]
    Offset,         \* [Segments -> Nat], segments are one unit long
    NoWriter

ASSUME WritersAssumption ==
    /\ IsFiniteSet(Segments) /\ NoWriter \notin Segments
    /\ Offset \in [Segments -> Nat]

Files == {FileOf[s] : s \in Segments}

VARIABLES
    write,          \* where write_segment stands, per segment
    writer,         \* the writer a segment sends to
    entry,          \* the map: the writer of each file
    task,           \* "none", "running", "gone", per writer
    requests,       \* in the channel of a writer; all are taken at once, and sorted
    batch,          \* requests the task is working on
    allocated,      \* allocated_len of the task
    buffered,       \* segments whose write tokio still does in the background
    disk,           \* [len, has] of each file
    flush, flushing \* "no", "waiting" for the writers in flushing, "done"

writerVars == <<write, writer, entry, task, requests, batch, allocated,
                buffered, disk, flush, flushing>>

WriterInit ==
    /\ write = [s \in Segments |-> "none"]
    /\ writer = [s \in Segments |-> NoWriter]
    /\ entry = [p \in Files |-> NoWriter]
    /\ task = [s \in Segments |-> "none"]
    /\ requests = [s \in Segments |-> {}] /\ batch = [s \in Segments |-> {}]
    /\ allocated = [s \in Segments |-> 0] /\ buffered = {}
    /\ disk = [p \in Files |-> [len |-> 0, has |-> {}]]
    /\ flush = "no" /\ flushing = {}

(* write_segment: the writer in the map is used, if there is one; only     *)
(* then, with the lock released, is the file opened, by as many segments   *)
(* as come before one of them is done.                                     *)
get_or_create(s) ==
    /\ write[s] = "none" /\ flush = "no"
    /\ IF entry[FileOf[s]] # NoWriter
       THEN /\ writer' = [writer EXCEPT ![s] = entry[FileOf[s]]]
            /\ write' = [write EXCEPT ![s] = "ready"]
       ELSE /\ write' = [write EXCEPT ![s] = "creating"] /\ UNCHANGED writer
    /\ UNCHANGED <<entry, task, requests, batch, allocated, buffered, disk, flush, flushing>>

(* The file is opened and its length taken, a task spawned, and the entry  *)
(* of whoever was first kept; the segment goes on with its own task.       *)
open_file(s) ==
    /\ write[s] = "creating" /\ write' = [write EXCEPT ![s] = "ready"]
    /\ writer' = [writer EXCEPT ![s] = s]
    /\ task' = [task EXCEPT ![s] = "running"]
    /\ allocated' = [allocated EXCEPT ![s] = disk[FileOf[s]].len]
    /\ entry' = [entry EXCEPT ![FileOf[s]] = IF @ = NoWriter THEN s ELSE @]
    /\ UNCHANGED <<requests, batch, buffered, disk, flush, flushing>>

create_fails(s) ==
    /\ write[s] = "creating" /\ write' = [write EXCEPT ![s] = "error"]
    /\ UNCHANGED <<writer, entry, task, requests, batch, allocated,
                   buffered, disk, flush, flushing>>

send_request(s) ==
    /\ write[s] = "ready" /\ write' = [write EXCEPT ![s] = "sent"]
    /\ requests' = [requests EXCEPT ![writer[s]] = @ \union {s}]
    /\ UNCHANGED <<writer, entry, task, batch, allocated, buffered, disk, flush, flushing>>
-----------------------------------------------------------------------------
(* writer_task.  An operation on the file first waits for the write that   *)
(* is still in the background, so that at most one is.                     *)

Background(w) == {s \in buffered : writer[s] = w}

Ends(S) == {Offset[s] + 1 : s \in S}
Longest(L) == CHOOSE n \in L : \A m \in L : m <= n

LandsOn(d, S) == [len |-> Longest({d.len} \union Ends(S)), has |-> d.has \union S]

BackgroundWrite(w) ==
    /\ Background(w) # {} /\ buffered' = buffered \ Background(w)
    /\ disk' = [disk EXCEPT ![FileOf[w]] = LandsOn(@, Background(w))]
    /\ UNCHANGED <<write, writer, entry, task, requests, batch, allocated, flush, flushing>>

(* Mutant of set_len: the length is set whatever was allocated before.     *)
set_len_always(w, end) ==
    /\ disk' = [disk EXCEPT ![FileOf[w]] =
          [len |-> end, has |-> {s \in @.has : Offset[s] < end}]]
    /\ allocated' = [allocated EXCEPT ![w] = end]

(* A length shorter than the file cuts it.                                 *)
set_len(w, end) ==
    IF allocated[w] >= end THEN UNCHANGED <<disk, allocated>>
    ELSE /\ disk' = [disk EXCEPT ![FileOf[w]] =
               [len |-> end, has |-> {s \in @.has : Offset[s] < end}]]
         /\ allocated' = [allocated EXCEPT ![w] = end]

take_batch(w) ==
    /\ task[w] = "running" /\ batch[w] = {} /\ requests[w] # {}
    /\ Background(w) = {}
    /\ batch' = [batch EXCEPT ![w] = requests[w]]
    /\ requests' = [requests EXCEPT ![w] = {}]
    /\ \E end \in Ends(requests[w]) :
          /\ \A e \in Ends(requests[w]) : e <= end
          /\ set_len(w, end)
    /\ UNCHANGED <<write, writer, entry, task, buffered, flush, flushing>>

(* By offset.  The reply is sent when tokio has taken the data.            *)
write_one(w) ==
    /\ Background(w) = {}
    /\ \E s \in batch[w] :
          /\ \A t \in batch[w] : Offset[s] <= Offset[t]
          /\ buffered' = buffered \union {s}
          /\ batch' = [batch EXCEPT ![w] = @ \ {s}]
          /\ write' = [write EXCEPT ![s] = "ok"]
    /\ UNCHANGED <<writer, entry, task, requests, allocated, disk, flush, flushing>>

Sender(w) == \E s \in Segments : writer[s] = w /\ write[s] \in {"ready", "sent"}

(* The last sender is gone: the file is flushed and the task ends.         *)
task_ends(w) ==
    /\ task[w] = "running" /\ entry[FileOf[w]] # w /\ ~Sender(w)
    /\ requests[w] = {} /\ batch[w] = {} /\ Background(w) = {}
    /\ task' = [task EXCEPT ![w] = "gone"]
    /\ UNCHANGED <<write, writer, entry, requests, batch, allocated,
                   buffered, disk, flush, flushing>>
-----------------------------------------------------------------------------
(* flush_prefix, called by forward_completions once every article of the   *)
(* NZB has its result, and flush_all at shutdown.                          *)
Settled == \A s \in Segments : write[s] \in {"ok", "error"}

flush_begin ==
    /\ flush = "no" /\ Settled /\ flush' = "waiting"
    /\ flushing' = {entry[p] : p \in Files} \ {NoWriter}
    /\ entry' = [p \in Files |-> NoWriter]
    /\ UNCHANGED <<write, writer, task, requests, batch, allocated, buffered, disk>>

flush_end ==
    /\ flush = "waiting" /\ \A w \in flushing : task[w] = "gone"
    /\ flush' = "done"
    /\ UNCHANGED <<flushing, write, writer, entry, task, requests, batch, allocated,
                   buffered, disk>>

WriterNext ==
    \/ \E s \in Segments :
          \/ get_or_create(s) \/ open_file(s) \/ create_fails(s) \/ send_request(s)
          \/ BackgroundWrite(s) \/ take_batch(s) \/ write_one(s) \/ task_ends(s)
    \/ flush_begin \/ flush_end

-----------------------------------------------------------------------------
(* Properties.                                                             *)

(* A file that no two segments created the writer of: no task but one ever *)
(* had it open.                                                            *)
Sole(p) ==
    \A v, w \in Segments :
       FileOf[v] = p /\ FileOf[w] = p /\ task[v] # "none" /\ task[w] # "none" => v = w

(* Post-processing reads the files after the flush: every segment that was *)
(* reported as downloaded is on disk then, in whatever order the segments  *)
(* came and however they were batched, unless two segments of its file     *)
(* found no writer in the map and opened the file both (writer.rs:101).    *)
SegmentsReachTheFile ==
    flush = "done" =>
       \A s \in Segments :
          write[s] = "ok" /\ Sole(FileOf[s]) => s \in disk[FileOf[s]].has

(* The same of every file.                                                 *)
(* "Segments can arrive out of order — each is written at its `begin - 1`  *)
(* offset" (docs/design/03-download-flow.md).                              *)
EverySegmentIsWritten ==
    flush = "done" =>
       \A s \in Segments : write[s] = "ok" => s \in disk[FileOf[s]].has
=============================================================================
