---------------------------- MODULE WordExports ----------------------------
(***************************************************************************)
(* The cache of generated Word reports (app/utils/ttl_cache.py): per       *)
(* request a document and a sidecar with its file name and task, on disk,  *)
(* shared without a lock by the threads that export, by those that delete  *)
(* what has expired and by an administrator, over restarts. One request    *)
(* (one key) is modelled: no step looks at the files of two.               *)
(***************************************************************************)
EXTENDS Naturals, Sequences

CONSTANTS
  Exporter,      \* threads that export the report
  ReportOf,      \* the task an exporter names in its request; not in the key
  Ttl,           \* how long a document is served; 0 is without a cache
  DefaultTtl,    \* the one "only expired" goes by, whatever Ttl is configured
  MaxMinute,     \* bound: the clock
  MaxWrite,      \* bound: documents written
  NoFile

ASSUME ExportAssumption ==
  {Ttl, DefaultTtl, MaxMinute, MaxWrite} \subseteq Nat /\ NoFile \notin Nat

VARIABLES
  minute,    \* the wall clock
  docx,      \* the document: who wrote it (a number), when, and whether in full
  sidecar,   \* its companion: of which document, when, and for which task
  exporter,  \* a thread in get_or_build_word_export, and what it has in hand
  cleaner,   \* a sweep or an administrator's clear: files about to go
  written    \* bookkeeping: documents written so far

exportVars == <<minute, docx, sidecar, exporter, cleaner, written>>

ExporterPc == {"idle", "name", "open", "stat", "build", "first",
               "second", "served"}
File == {"docx", "sidecar"}
FileOf(f) == IF f = "docx" THEN docx ELSE sidecar
FreshTooLong(file, ttl) == file # NoFile /\ minute - file.at <= ttl + 1
Fresh(file, ttl) == file # NoFile /\ minute - file.at <= ttl

NotExporting == [at |-> "idle", checked |-> 0, name |-> 0, body |-> NoFile, size |-> 0,
                 own |-> 0]

WordExportTypeOK ==
  /\ minute \in 0..MaxMinute /\ written \in 0..MaxWrite
  /\ docx # NoFile => docx.id \in 1..written /\ docx.at \in 0..minute
  /\ sidecar # NoFile => sidecar.id \in 0..written /\ sidecar.at \in 0..minute
  /\ \A x \in Exporter : exporter[x].at \in ExporterPc
  /\ cleaner \in Seq(File)

WordExportInit ==
  /\ minute = 0 /\ docx = NoFile /\ sidecar = NoFile /\ written = 0
  /\ exporter = [x \in Exporter |-> NotExporting]
  /\ cleaner = <<>>

-----------------------------------------------------------------------------
(* One export. The sweep before the lookup is a step of its own.           *)

Goes(x, from, r) == exporter[x].at = from /\ exporter' = [exporter EXCEPT ![x] = r]
Now(x, at) == [exporter[x] EXCEPT !.at = at]

Miss == [NotExporting EXCEPT !.at = "build"]

\* Fresh and with a sidecar, or a miss; no lookup when nothing is kept.
LookUp(x) ==
  /\ Goes(x, "idle", IF Ttl > 0 /\ Fresh(docx, Ttl) /\ sidecar # NoFile
                       THEN [Now(x, "name") EXCEPT !.checked = minute]
                       ELSE Miss)
  /\ UNCHANGED <<minute, docx, sidecar, cleaner, written>>

\* Each of the next three looks at the disk again; a file that is gone by then
\* turns the answer into a miss.
ReadName(x) ==
  /\ Goes(x, "name", IF sidecar = NoFile THEN Miss
                     ELSE [Now(x, "open") EXCEPT !.name = sidecar.id])
  /\ UNCHANGED <<minute, docx, sidecar, cleaner, written>>

OpenDocument(x) ==
  /\ Goes(x, "open", IF docx = NoFile THEN Miss
                     ELSE [Now(x, "stat") EXCEPT !.body = docx])
  /\ UNCHANGED <<minute, docx, sidecar, cleaner, written>>

StatDocument(x) ==
  /\ Goes(x, "stat", IF docx = NoFile THEN Miss
                     ELSE [Now(x, "served") EXCEPT !.size = docx.id])
  /\ UNCHANGED <<minute, docx, sidecar, cleaner, written>>

\* The report is made in memory; it is answered whether or not it can be kept.
Build(x) ==
  /\ written < MaxWrite
  /\ Goes(x, "build", [NotExporting EXCEPT !.at = IF Ttl = 0 THEN "idle" ELSE "first"])
  /\ UNCHANGED <<minute, docx, sidecar, cleaner, written>>

BuildFails(x) ==
  /\ Goes(x, "build", NotExporting)
  /\ UNCHANGED <<minute, docx, sidecar, cleaner, written>>

\* First the document, then the sidecar that says it is there.
SidecarFirst == <<"sidecar", "docx">>
WriteOrder   == <<"docx", "sidecar">>

\* A temporary file replaces the old one: readers see the one or the other.
AtomicWrite(file) == {file}

WriteFile(x, f) ==
  IF f = "docx"
    THEN /\ written < MaxWrite
         /\ written' = written + 1
         /\ docx' \in AtomicWrite([id |-> written + 1, at |-> minute, whole |-> TRUE])
         /\ UNCHANGED sidecar
    ELSE /\ sidecar' = [id |-> IF exporter[x].own = 0 THEN written + 1 ELSE exporter[x].own,
                        at |-> minute, task |-> ReportOf[x]]
         /\ UNCHANGED <<docx, written>>

WriteFirst(x) ==
  /\ WriteFile(x, WriteOrder[1])
  /\ Goes(x, "first", [Now(x, "second") EXCEPT !.own = written'])
  /\ UNCHANGED <<minute, cleaner>>

WriteSecond(x) ==
  /\ WriteFile(x, WriteOrder[2])
  /\ Goes(x, "second", NotExporting)
  /\ UNCHANGED <<minute, cleaner>>

\* No space, or the directory was cleared meanwhile: served from memory.
StoreFails(x) ==
  /\ \E from \in {"first", "second"} : Goes(x, from, NotExporting)
  /\ UNCHANGED <<minute, docx, sidecar, cleaner, written>>

Answered(x) ==
  /\ Goes(x, "served", NotExporting)
  /\ UNCHANGED <<minute, docx, sidecar, cleaner, written>>
-----------------------------------------------------------------------------
(* Deleting. What is found to be old is deleted by name, a moment later.   *)

\* One file of the sweep that every export begins with.
Sweep ==
  /\ cleaner = <<>>
  /\ \E f \in File :
       /\ FileOf(f) # NoFile /\ ~Fresh(FileOf(f), Ttl)
       /\ cleaner' = <<f>>
  /\ UNCHANGED <<minute, docx, sidecar, exporter, written>>

Entry == <<"sidecar", "docx">>

\* Everything, or by way of the sidecar: of a task, or what has expired.
Clear ==
  /\ cleaner = <<>>
  /\ \/ cleaner' \in {Entry, <<"docx", "sidecar">>}
     \/ /\ sidecar # NoFile
        /\ \/ \E x \in Exporter : sidecar.task = ReportOf[x]
           \/ ~Fresh(docx, DefaultTtl)
        /\ cleaner' = Entry
  /\ UNCHANGED <<minute, docx, sidecar, exporter, written>>

Unlink ==
  /\ cleaner # <<>>
  /\ IF Head(cleaner) = "docx"
       THEN docx' = NoFile /\ UNCHANGED sidecar
       ELSE sidecar' = NoFile /\ UNCHANGED docx
  /\ cleaner' = Tail(cleaner)
  /\ UNCHANGED <<minute, exporter, written>>

MinutePasses ==
  /\ minute < MaxMinute
  /\ minute' = minute + 1
  /\ UNCHANGED <<docx, sidecar, exporter, cleaner, written>>

\* The process ends; what is on the disk stays, a temporary file is not looked
\* at by anybody but the sweep.
Restarted ==
  /\ exporter' = [x \in Exporter |-> NotExporting]
  /\ cleaner' = <<>>
  /\ UNCHANGED <<minute, docx, sidecar, written>>

WordExportNext ==
  \/ \E x \in Exporter :
       \/ LookUp(x) \/ ReadName(x) \/ OpenDocument(x) \/ StatDocument(x)
       \/ Build(x) \/ BuildFails(x) \/ WriteFirst(x) \/ WriteSecond(x) \/ StoreFails(x)
       \/ Answered(x)
  \/ Sweep \/ Clear \/ Unlink \/ MinutePasses \/ Restarted

WordExportSpec == WordExportInit /\ [][WordExportNext]_exportVars

-----------------------------------------------------------------------------
\* "The sidecar is there: the entry is complete", and "no reader sees half a
\* file" (ttl_cache.py). A report that is served from the disk is whole, was no
\* older than the configured time when it was looked up, and does not carry the
\* name of a later document; the length that is announced is that of this
\* document or, when it is replaced between open and stat, of a later one. This
\* holds whoever writes, sweeps or clears meanwhile, and after a restart.
ReportServedWhole ==
  \A x \in Exporter : LET e == exporter[x] IN
    e.at = "served" /\ e.body # NoFile =>
      /\ e.body.whole
      /\ e.checked <= e.body.at + Ttl
      /\ e.name <= e.body.id
      /\ e.body.id <= e.size
=============================================================================
