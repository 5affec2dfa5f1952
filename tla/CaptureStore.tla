----------------------------- MODULE CaptureStore -----------------------------
(***************************************************************************)
(* pkg/capture/store.go and pkg/capture/output.go: the list of captures    *)
(* every connection handler shares behind one read-write mutex, and the    *)
(* writer that gives each capture a number and one file per formatter.     *)
(*                                                                         *)
(* A handler is the goroutine that serves a connection.  The steps it      *)
(* takes between two points where another goroutine, a failing disk or a   *)
(* killed process can be noticed are one action.  A process crash loses    *)
(* everything but the files; a start reads the directory again.            *)
(***************************************************************************)
EXTENDS Naturals, Sequences, FiniteSets, FiniteSetsExt

CONSTANTS
  Handlers,      \* connection goroutines
  Records,       \* captures, one per POST /v1/messages
  Formatters,    \* the file suffixes, in the order they are written
  Outdir,        \* TRUE: -outdir may be given, FALSE: it may be left out
  InitialFiles,  \* the directories the first start may find
  Crashes,       \* may the process be killed and started again?
  Nobody,        \* holder of a free mutex
  Junk           \* contents of a truncated, torn or foreign file

Last == Formatters[Len(Formatters)]
Suffixes == {Formatters[i] : i \in DOMAIN Formatters}
Contents == Records \cup {Junk}

(* A file is named by its number and its suffix. *)
Names == Nat \X Suffixes

ASSUME FormattersAssumption ==
  /\ Formatters \in Seq(STRING)
  /\ Formatters # <<>>
  /\ \A i, j \in DOMAIN Formatters : Formatters[i] = Formatters[j] => i = j
ASSUME OutsidersAssumption ==
  /\ Nobody \notin Handlers
  /\ Junk \notin Records
ASSUME FlagsAssumption ==
  /\ Outdir \subseteq BOOLEAN
  /\ Crashes \in BOOLEAN
ASSUME InitialFilesAssumption ==
  \A dir \in InitialFiles :
    /\ IsFiniteSet(DOMAIN dir)
    /\ dir \in [DOMAIN dir -> {Junk}]
    /\ DOMAIN dir \subseteq Names

VARIABLES
  up,       \* is the process running?
  writer,   \* Store.writer # nil
  first,    \* the number it began with
  records,  \* Store.records
  w,        \* Store.mu: the goroutine that took or announced the write side
  outMu,    \* OutputWriter.mu
  next,     \* OutputWriter.next
  files,    \* the output directory: file name |-> contents
  pc,       \* where each handler is in its call
  call,     \* the call it makes
  idx,      \* the formatter its Write has come to
  snap,     \* the records its call returns
  issued    \* captures already handed to Append

vars == <<up, writer, first, records, w, outMu, next, files, pc, call, idx, snap, issued>>
process == <<up, writer, first>>
memory == <<process, records, w, outMu, next, files, issued>>

NoCall == [op |-> "none"]
ReadOrReset == {[op |-> "snapshot"], [op |-> "reset"]}
Calls == [op : {"append"}, record : Records] \cup ReadOrReset

Locations == {"idle", "called", "parked", "reading", "announced", "locked",
              "format", "fill", "unlock", "done"}

(* Locations where a handler holds the write side of Store.mu.             *)
Holding == {"locked", "format", "fill", "unlock"}

Readers == {h \in Handlers : pc[h] = "reading"}

-------------------------------------------------------------------------------
(* The output directory *)

(* Mutant of NextSequence: the largest number found, not the one after it. *)
NextSequence_Last(dir) == Max({0} \cup {name[1] : name \in DOMAIN dir})

(* nextOutputSequence: one more than the largest number any file with a    *)
(* known suffix carries, whoever wrote it and whatever it holds.           *)
NextSequence(dir) == 1 + Max({0} \cup {name[1] : name \in DOMAIN dir})

Put(dir, name, contents) ==
  [x \in DOMAIN dir \cup {name} |-> IF x = name THEN contents ELSE dir[x]]

(* The file a handler's Write has come to.                                 *)
Path(h) == <<next, Formatters[idx[h]]>>

(* A number whose files are all there and hold the same capture.           *)
Complete(dir, n, r) ==
  \A s \in Suffixes : <<n, s>> \in DOMAIN dir /\ dir[<<n, s>>] = r

Archived(dir) ==
  {n \in {name[1] : name \in DOMAIN dir} : \E r \in Records : Complete(dir, n, r)}

-------------------------------------------------------------------------------
(* The first start is yet to come; the directory may already have files.   *)
Init ==
  /\ up = FALSE
  /\ writer = FALSE
  /\ first = 0
  /\ records = <<>>
  /\ w = Nobody
  /\ outMu = Nobody
  /\ next = 0
  /\ files \in InitialFiles
  /\ pc = [h \in Handlers |-> "idle"]
  /\ call = [h \in Handlers |-> NoCall]
  /\ idx = [h \in Handlers |-> 0]
  /\ snap = [h \in Handlers |-> <<>>]
  /\ issued = {}

Goto(h, from, to) ==
  /\ pc[h] = from
  /\ pc' = [pc EXCEPT ![h] = to]

(* server.New: NewOutputWriter reads the directory, NewStore is empty.     *)
Start ==
  /\ ~up
  /\ up' = TRUE
  /\ writer' \in Outdir
  /\ next' = IF writer' THEN NextSequence(files) ELSE 1
  /\ first' = next'
  /\ UNCHANGED <<records, w, outMu, files, pc, call, idx, snap, issued>>

(* The process is killed between any two steps.                            *)
Crash ==
  /\ Crashes
  /\ up
  /\ up' = FALSE
  /\ records' = <<>>
  /\ w' = Nobody
  /\ outMu' = Nobody
  /\ pc' = [h \in Handlers |-> "idle"]
  /\ call' = [h \in Handlers |-> NoCall]
  /\ idx' = [h \in Handlers |-> 0]
  /\ snap' = [h \in Handlers |-> <<>>]
  /\ UNCHANGED <<writer, first, next, files, issued>>

(* A request: POST /v1/messages appends, GET /captures and POST /reset.    *)
Invoke(h) ==
  /\ up
  /\ Goto(h, "idle", "called")
  /\ \E c \in Calls :
       /\ call' = [call EXCEPT ![h] = c]
       /\ \/ /\ c \in ReadOrReset
             /\ UNCHANGED issued
          \/ /\ c \notin ReadOrReset
             /\ c.record \notin issued
             /\ issued' = issued \cup {c.record}
  /\ UNCHANGED <<process, records, w, outMu, next, files, idx, snap>>

(* Mutant of RLock: a reader does not wait for the writer.                 *)
RLock_Barges(h) ==
  /\ call[h].op = "snapshot"
  /\ Goto(h, "called", "reading")
  /\ UNCHANGED <<memory, call, idx, snap>>

(* RLock while a writer holds or has announced the lock: park.  The        *)
(* writer's Unlock hands the read side to everyone it finds parked.        *)
RLock(h) ==
  /\ call[h].op = "snapshot"
  /\ \/ w = Nobody /\ Goto(h, "called", "reading")
     \/ w # Nobody /\ Goto(h, "called", "parked")
  /\ UNCHANGED <<memory, call, idx, snap>>

(* Snapshot: the copy, then the deferred RUnlock. *)
ReadRecords(h) ==
  /\ Goto(h, "reading", "done")
  /\ snap' = [snap EXCEPT ![h] = records]
  /\ UNCHANGED <<memory, call, idx>>

(* Lock: take the writers' mutex and announce, so no new reader gets in... *)
Lock(h) ==
  /\ call[h].op \in {"append", "reset"}
  /\ w = Nobody
  /\ Goto(h, "called", "announced")
  /\ w' = h
  /\ UNCHANGED <<process, records, outMu, next, files, issued, call, idx, snap>>

(* ... and wait for the readers that were before.                          *)
Enter(h) ==
  /\ Readers = {}
  /\ Goto(h, "announced", "locked")
  /\ UNCHANGED <<memory, call, idx, snap>>

(* Mutant of ResetRecords: the numbering starts afresh as well.            *)
ResetRecords_Renumbers(h) ==
  /\ call[h].op = "reset"
  /\ Goto(h, "locked", "unlock")
  /\ records' = <<>>
  /\ next' = 1
  /\ UNCHANGED <<process, w, outMu, files, issued, call, idx, snap>>

ResetRecords(h) ==
  /\ call[h].op = "reset"
  /\ Goto(h, "locked", "unlock")
  /\ records' = <<>>
  /\ UNCHANGED <<process, w, outMu, next, files, issued, call, idx, snap>>

(* Append: the record, the copy, and the call of Write if there is one.    *)
AppendRecord(h) ==
  /\ call[h].op = "append"
  /\ records' = Append(records, call[h].record)
  /\ snap' = [snap EXCEPT ![h] = records']
  /\ \/ /\ ~writer
        /\ Goto(h, "locked", "unlock")
        /\ UNCHANGED <<outMu, idx>>
     \/ /\ writer
        /\ outMu = Nobody
        /\ Goto(h, "locked", "format")
        /\ outMu' = h
        /\ idx' = [idx EXCEPT ![h] = 1]
  /\ UNCHANGED <<process, w, next, files, issued, call>>

(* Mutants of OpenFile: a file that cannot be opened is skipped; the error *)
(* return forgets the mutexes.                                             *)
OpenFile_Skips(h) ==
  /\ idx[h] \in DOMAIN Formatters
  /\ \/ /\ Goto(h, "format", "format")
        /\ idx' = [idx EXCEPT ![h] = @ + 1]
        /\ UNCHANGED files
     \/ /\ Goto(h, "format", "fill")
        /\ files' = Put(files, Path(h), Junk)
        /\ UNCHANGED idx
  /\ UNCHANGED <<process, records, w, outMu, next, issued, call, snap>>

OpenFile_KeepsLocks(h) ==
  /\ idx[h] \in DOMAIN Formatters
  /\ \/ /\ Goto(h, "format", "done")
        /\ UNCHANGED files
     \/ /\ Goto(h, "format", "fill")
        /\ files' = Put(files, Path(h), Junk)
  /\ UNCHANGED <<process, records, w, outMu, next, issued, call, idx, snap>>

(* Write, top of the loop: formatting or opening the file fails, and the   *)
(* files written so far stay; or the file is created or truncated.         *)
OpenFile(h) ==
  /\ idx[h] \in DOMAIN Formatters
  /\ \/ /\ Goto(h, "format", "unlock")
        /\ UNCHANGED files
     \/ /\ Goto(h, "format", "fill")
        /\ files' = Put(files, Path(h), Junk)
  /\ UNCHANGED <<process, records, w, outMu, next, issued, call, idx, snap>>

(* Mutant of FillFile: a failed write uses its number up.                  *)
FillFile_BurnsNumber(h) ==
  /\ \/ /\ Goto(h, "fill", "unlock")
        /\ next' = next + 1
        /\ UNCHANGED <<files, idx>>
     \/ /\ Goto(h, "fill", "format")
        /\ files' = Put(files, Path(h), call[h].record)
        /\ idx' = [idx EXCEPT ![h] = @ + 1]
        /\ UNCHANGED next
  /\ UNCHANGED <<process, records, w, outMu, issued, call, snap>>

(* os.WriteFile: all the data goes in, or it returns an error and what is  *)
(* in the file cannot be relied on.                                        *)
FillFile(h) ==
  /\ \/ /\ Goto(h, "fill", "unlock")
        /\ UNCHANGED <<files, idx>>
     \/ /\ Goto(h, "fill", "format")
        /\ files' = Put(files, Path(h), call[h].record)
        /\ idx' = [idx EXCEPT ![h] = @ + 1]
  /\ UNCHANGED <<process, records, w, outMu, next, issued, call, snap>>

(* Write, after the loop: only now is the number used up.                  *)
FinishWrite(h) ==
  /\ idx[h] = Len(Formatters) + 1
  /\ Goto(h, "format", "unlock")
  /\ next' = next + 1
  /\ UNCHANGED <<process, records, w, outMu, files, issued, call, idx, snap>>

(* The deferred unlocks of Write and of Append or Reset.                   *)
Unlock(h) ==
  /\ pc[h] = "unlock"
  /\ pc' = [g \in Handlers |-> IF g = h THEN "done"
                               ELSE IF pc[g] = "parked" THEN "reading"
                               ELSE pc[g]]
  /\ w' = Nobody
  /\ outMu' = Nobody
  /\ idx' = [idx EXCEPT ![h] = 0]
  /\ UNCHANGED <<process, records, next, files, issued, call, snap>>

(* The reply is built from the returned records; an error is only logged.  *)
Return(h) ==
  /\ Goto(h, "done", "idle")
  /\ call' = [call EXCEPT ![h] = NoCall]
  /\ snap' = [snap EXCEPT ![h] = <<>>]
  /\ UNCHANGED <<memory, idx>>

Step(h) ==
  \/ RLock(h) \/ ReadRecords(h)
  \/ Lock(h) \/ Enter(h)
  \/ ResetRecords(h) \/ AppendRecord(h)
  \/ OpenFile(h) \/ FillFile(h) \/ FinishWrite(h)
  \/ Unlock(h) \/ Return(h)

Next ==
  \/ Start \/ Crash
  \/ \E h \in Handlers : Invoke(h) \/ Step(h)

Spec == Init /\ [][Next]_vars

(* The scheduler runs every goroutine; sync.Mutex, on which the writers of *)
(* an RWMutex queue, hands itself to the longest waiter after 1 ms, so a   *)
(* writer that keeps finding it free takes it in the end.  Nothing obliges *)
(* a client to send a request, or an operator to restart a dead process.   *)
Fairness == \A h \in Handlers : WF_vars(Step(h)) /\ SF_vars(Lock(h))

FairSpec == Spec /\ Fairness

-------------------------------------------------------------------------------
(* Properties *)

(* TypeOK: every variable keeps its type; a running process has a next     *)
(* file number of at least 1, whatever directory it found (output.go:99).  *)
TypeOK ==
  /\ up \in BOOLEAN
  /\ writer \in BOOLEAN
  /\ first \in Nat
  /\ records \in Seq(Records)
  /\ w \in Handlers \cup {Nobody}
  /\ outMu \in Handlers \cup {Nobody}
  /\ next \in Nat
  /\ up => next >= 1
  /\ IsFiniteSet(DOMAIN files)
  /\ DOMAIN files \subseteq Names
  /\ \A name \in DOMAIN files : files[name] \in Contents
  /\ pc \in [Handlers -> Locations]
  /\ call \in [Handlers -> Calls \cup {NoCall}]
  /\ idx \in [Handlers -> 0 .. Len(Formatters) + 1]
  /\ snap \in [Handlers -> Seq(Records)]
  /\ issued \in SUBSET Records

(* ArchiveIntact: once all files of a number hold a capture, no later      *)
(* write, failed write, reset, crash or restart touches them: numbers are  *)
(* reused after a failure, but never one that was completed                *)
(* (output.go:50-64 and the restart numbering of output.go:68-99).         *)
ArchiveIntact ==
  [][\A n \in Archived(files) : \A s \in Suffixes :
       <<n, s>> \in DOMAIN files' /\ files'[<<n, s>>] = files[<<n, s>>]]_vars

(* LastFileSeals: a whole file with the last suffix vouches for its        *)
(* siblings: whoever finds n.sub2api.json whole finds the same capture in  *)
(* n.tlsident.json and n.sub2api.yml, after any mix of failed writes,      *)
(* reused numbers and crashes (output.go:47-62).                           *)
LastFileSeals ==
  \A n \in {name[1] : name \in DOMAIN files}, r \in Records :
    <<n, Last>> \in DOMAIN files /\ files[<<n, Last>>] = r
      => Complete(files, n, r)

(* DenseNumbers: a process leaves no gap in its numbers, even after failed *)
(* writes: its k-th number belongs to the k-th capture it has written, so  *)
(* that the k-th file can be compared with the k-th result of another tool *)
(* (compare-sub2api.sh does; output.go:50-64).                             *)
DenseNumbers == up => \A n \in first .. next - 1 : n \in Archived(files)

(* An Append takes effect when its last file is whole, or when it gives    *)
(* up; until then its record is not in the abstract log.                   *)
Pending(h) ==
  \/ pc[h] = "fill"
  \/ pc[h] = "format" /\ idx[h] \in DOMAIN Formatters

AbstractLog ==
  IF \E h \in Handlers : Pending(h)
  THEN SubSeq(records, 1, Len(records) - 1)
  ELSE records

AbstractPhase(h) ==
  IF pc[h] = "idle" THEN "idle"
  ELSE IF pc[h] \in {"unlock", "done"} \/ (pc[h] = "format" /\ ~Pending(h))
  THEN "returned"
  ELSE "called"

AbstractArchive ==
  [n \in Archived(files) |-> CHOOSE r \in Records : Complete(files, n, r)]

Abstract == INSTANCE CaptureLog WITH
  log <- AbstractLog,
  archive <- AbstractArchive,
  phase <- [h \in Handlers |-> AbstractPhase(h)],
  answer <- [h \in Handlers |->
               IF AbstractPhase(h) = "returned" THEN snap[h] ELSE <<>>]

(* ImplementsCaptureLog: whatever the interleaving of appends, snapshots   *)
(* and resets, each call seems to happen at one instant between its begin  *)
(* and its end, the caller of Append sees its own capture last, and an     *)
(* archived number is above all earlier ones (store.go:15-42).             *)
ImplementsCaptureLog == Abstract!Spec

(* EveryCallReturns: a request that calls the store is answered, whatever  *)
(* the other handlers do and however often a write fails (store.go:16-17,  *)
(* output.go:43-44): no lock is ever left behind.                          *)
EveryCallReturns ==
  \A h \in Handlers : pc[h] # "idle" ~> pc[h] = "idle"

-------------------------------------------------------------------------------
(* The inductive invariant behind TypeOK, ArchiveIntact and LastFileSeals. *)

(* The last file of number n is whole.                                     *)
LastWhole(n) == <<n, Last>> \in DOMAIN files /\ files[<<n, Last>>] \in Records

Writing(h) == pc[h] \in {"format", "fill"}

(* Write has filled its last file and is about to use the number up.       *)
Finishing(h) == pc[h] = "format" /\ idx[h] = Len(Formatters) + 1

DownInv == ~up => \A h \in Handlers : pc[h] = "idle"

(* Who announced, holds Store.mu; while it is held, nobody reads.          *)
LockInv ==
  \A h \in Handlers :
    /\ pc[h] \in Holding \cup {"announced"} => w = h
    /\ pc[h] \in Holding => Readers = {}

(* A Write under way has filled the files before the one it has come to.   *)
WriteInv ==
  \A h \in Handlers : Writing(h) =>
    /\ writer
    /\ call[h].op = "append"
    /\ idx[h] >= 1
    /\ pc[h] = "fill" => idx[h] <= Len(Formatters)
    /\ \A j \in 1 .. idx[h] - 1 :
         /\ <<next, Formatters[j]>> \in DOMAIN files
         /\ files[<<next, Formatters[j]>>] = call[h].record

(* No file has a number above the next; the last file of the next number   *)
(* is whole only between the end of Write's loop and the increment.        *)
NumberInv ==
  up /\ writer =>
    /\ \A name \in DOMAIN files : name[1] <= next
    /\ LastWhole(next) => \E h \in Handlers : Finishing(h)

IInv ==
  TypeOK /\ DownInv /\ LockInv /\ WriteInv /\ NumberInv /\ LastFileSeals

(* The bookkeeping behind ImplementsCaptureLog: who waits to read or reads *)
(* took a Snapshot; a call returns nothing before its effect; the record   *)
(* of a Write under way is the last of the records its caller will see.    *)
CallInv ==
  \A h \in Handlers :
    /\ pc[h] \in {"parked", "reading"} => call[h].op = "snapshot"
    /\ pc[h] \notin {"format", "fill", "unlock", "done"} => snap[h] = <<>>
    /\ Writing(h) =>
         /\ records # <<>>
         /\ records[Len(records)] = call[h].record
         /\ snap[h] = records
===============================================================================
