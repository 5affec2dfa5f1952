--------------------------- MODULE CaptureRefinement ---------------------------
(***************************************************************************)
(* Machine-checked proof that CaptureStore implements CaptureLog: every    *)
(* call of pkg/capture takes effect at one instant.                        *)
(*                                                                         *)
(* The argument: a Snapshot takes effect when it copies, a Reset when it   *)
(* clears, an Append when its last file is whole or it gives up on its     *)
(* files.  Until then the abstract log is the records without the last.    *)
(* Only the holder of Store.mu can be in that state, so nobody else can    *)
(* notice (LockInv); and the archive changes only when the last file of    *)
(* the next number, which is above all archived ones, becomes whole.       *)
(***************************************************************************)
EXTENDS CaptureStoreProofs

-------------------------------------------------------------------------------
(* Sequences and archives *)

(* Without its last element, a sequence is what was appended to.           *)
LEMMA WithoutLast ==
  ASSUME NEW S, NEW s \in Seq(S), NEW x \in S
  PROVE  SubSeq(Append(s, x), 1, Len(Append(s, x)) - 1) = s
<1>1. Len(Append(s, x)) - 1 = Len(s)
  OBVIOUS
<1>2. SubSeq(Append(s, x), 1, Len(s)) = s
  OBVIOUS
<1> QED
  BY <1>1, <1>2

LEMMA LastOfAppend ==
  ASSUME NEW S, NEW s \in Seq(S), NEW x \in S
  PROVE  Append(s, x) # <<>> /\ Append(s, x)[Len(Append(s, x))] = x
OBVIOUS

LEMMA LastBack ==
  ASSUME NEW S, NEW s \in Seq(S), s # <<>>
  PROVE  Append(SubSeq(s, 1, Len(s) - 1), s[Len(s)]) = s
OBVIOUS

(* A complete number holds one capture.                                    *)
LEMMA CompleteUnique ==
  ASSUME NEW dir, NEW n, NEW r \in Records, Complete(dir, n, r)
  PROVE  (CHOOSE x \in Records : Complete(dir, n, x)) = r
<1>1. dir[<<n, Last>>] = r
  BY FormattersFacts DEF Complete
<1>2. \A x \in Records : Complete(dir, n, x) => x = dir[<<n, Last>>]
  BY FormattersFacts DEF Complete
<1> QED
  BY <1>1, <1>2

(* A step that completes no number leaves the archive as it is.            *)
LEMMA ArchiveKept ==
  ASSUME IInv, [Next]_vars, Archived(files') \subseteq Archived(files)
  PROVE  AbstractArchive' = AbstractArchive
<1>1. Archived(files') = Archived(files)
  BY ArchivedGrows
<1>2. ASSUME NEW n \in Archived(files)
      PROVE  (CHOOSE r \in Records : Complete(files', n, r))
             = (CHOOSE r \in Records : Complete(files, n, r))
  <2>1. PICK r \in Records : Complete(files, n, r)
    BY DEF Archived
  <2>2. Complete(files', n, r)
    BY <2>1, StepIntact DEF Complete
  <2> QED
    BY <2>1, <2>2, CompleteUnique
<1>3. AbstractArchive' = [n \in Archived(files') |-> CHOOSE r \in Records : Complete(files', n, r)]
  BY DEF AbstractArchive
<1> QED
  BY <1>1, <1>2, <1>3 DEF AbstractArchive

(* Writing a file of a number that is not complete afterwards completes    *)
(* none.                                                                   *)
LEMMA PutCompletesNone ==
  ASSUME NEW n, NEW s, NEW c, files' = Put(files, <<n, s>>, c),
         ~ \E r \in Records : Complete(files', n, r)
  PROVE  Archived(files') \subseteq Archived(files)
<1> SUFFICES ASSUME NEW m \in Archived(files')
             PROVE  m \in Archived(files)
  OBVIOUS
<1>1. PICK r \in Records : Complete(files', m, r)
  BY DEF Archived
<1>2. m # n
  BY <1>1
<1>3. Complete(files, m, r)
  BY <1>1, <1>2 DEF Complete, Put
<1>4. <<m, Last>> \in DOMAIN files
  BY <1>3, FormattersFacts DEF Complete
<1>5. m \in {name[1] : name \in DOMAIN files}
  BY <1>4
<1> QED
  BY <1>3, <1>5 DEF Archived

-------------------------------------------------------------------------------
(* The invariant *)

LEMMA InitCall == Init => CallInv
BY DEF Init, CallInv, Writing

(* Who holds the write side is the only one in a Write, and up.            *)
LEMMA HolderAlone ==
  ASSUME IInv, NEW h \in Handlers, pc[h] \in Holding
  PROVE  /\ up
         /\ Readers = {}
         /\ \A g \in Handlers : g # h => pc[g] \notin Holding
BY DEF IInv, DownInv, LockInv, Holding

LEMMA CallKeeps ==
  ASSUME IInv, CallInv, [Next]_vars
  PROVE  CallInv'
<1> USE DEF CallInv, Writing, memory, process, Goto
<1>0. /\ \A h \in Handlers : call[h] \in Calls \cup {NoCall}
      /\ records \in Seq(Records)
      /\ pc \in [Handlers -> Locations] /\ call \in [Handlers -> Calls \cup {NoCall}]
      /\ snap \in [Handlers -> Seq(Records)]
  BY DEF IInv, TypeOK
<1>1. CASE Start
  BY <1>1 DEF Start
<1>2. CASE Crash
  BY <1>2 DEF Crash
<1>3. ASSUME NEW h \in Handlers, Invoke(h)
      PROVE  CallInv'
  BY <1>0, <1>3 DEF Invoke
<1>4. ASSUME NEW h \in Handlers, RLock(h) \/ ReadRecords(h)
      PROVE  CallInv'
  BY <1>0, <1>4 DEF RLock, ReadRecords
<1>5. ASSUME NEW h \in Handlers, Lock(h) \/ Enter(h) \/ Return(h)
      PROVE  CallInv'
  BY <1>0, <1>5 DEF Lock, Enter, Return
<1>6. ASSUME NEW h \in Handlers, ResetRecords(h) \/ AppendRecord(h)
      PROVE  CallInv'
  <2>1. \A g \in Handlers : g # h => pc[g] \notin {"format", "fill"}
    BY <1>6, HolderAlone DEF Holding, ResetRecords, AppendRecord
  <2>2. CASE ResetRecords(h)
    BY <1>0, <2>1, <2>2 DEF ResetRecords
  <2>3. CASE AppendRecord(h)
    <3>1. /\ records' = Append(records, call[h].record)
          /\ call[h].record \in Records
          /\ UNCHANGED call
          /\ snap' = [snap EXCEPT ![h] = records']
          /\ pc[h] = "locked"
          /\ pc' = [pc EXCEPT ![h] = "unlock"] \/ pc' = [pc EXCEPT ![h] = "format"]
      BY <1>0, <2>3, AppendCalls DEF AppendRecord
    <3>2. records' # <<>> /\ records'[Len(records')] = call[h].record
      BY <1>0, <3>1, LastOfAppend
    <3> QED
      BY <1>0, <2>1, <3>1, <3>2
  <2> QED
    BY <1>6, <2>2, <2>3
<1>7. ASSUME NEW h \in Handlers, OpenFile(h) \/ FillFile(h) \/ FinishWrite(h)
      PROVE  CallInv'
  BY <1>0, <1>7 DEF OpenFile, FillFile, FinishWrite
<1>8. ASSUME NEW h \in Handlers, Unlock(h)
      PROVE  CallInv'
  BY <1>0, <1>8 DEF Unlock
<1>9. CASE UNCHANGED vars
  BY <1>9 DEF vars
<1> QED
  BY <1>1, <1>2, <1>3, <1>4, <1>5, <1>6, <1>7, <1>8, <1>9 DEF Next, Step

-------------------------------------------------------------------------------
(* The steps *)

(* A step after which everything a caller or a reader of the archive can   *)
(* tell is as before is a stuttering step of the abstract specification.   *)
LEMMA StutterStep ==
  ASSUME UNCHANGED <<AbstractLog, AbstractArchive, call, issued>>,
         \A h \in Handlers :
           /\ AbstractPhase(h)' = AbstractPhase(h)
           /\ AbstractPhase(h) = "returned" => snap'[h] = snap[h]
  PROVE  UNCHANGED Abstract!vars
BY DEF Abstract!vars

LEMMA InitRefines == Init => Abstract!Init
<1> SUFFICES ASSUME Init PROVE Abstract!Init
  OBVIOUS
<1> USE DEF Init
<1>1. \A n : n \notin Archived(files)
  <2> SUFFICES ASSUME NEW n \in Archived(files) PROVE FALSE
    OBVIOUS
  <2>1. PICK r \in Records : Complete(files, n, r)
    BY DEF Archived
  <2>2. <<n, Last>> \in DOMAIN files /\ files[<<n, Last>>] = r
    BY <2>1, FormattersFacts DEF Complete
  <2>3. files[<<n, Last>>] = Junk
    BY <2>2, InitialFilesAssumption
  <2> QED
    BY <2>1, <2>2, <2>3, OutsidersAssumption
<1>2. AbstractArchive = [n \in {} |-> {}]
  BY <1>1 DEF AbstractArchive
<1>3. \A h \in Handlers : ~Pending(h) /\ AbstractPhase(h) = "idle"
  BY DEF Pending, AbstractPhase
<1>4. AbstractLog = <<>>
  BY <1>3 DEF AbstractLog
<1> QED
  BY <1>2, <1>3, <1>4 DEF Abstract!Init, NoCall, Abstract!NoCall

(* Taking locks, starting a process and releasing them shows nothing.      *)
LEMMA QuietSteps ==
  ASSUME IInv, CallInv, [Next]_vars, NEW h \in Handlers,
         Start \/ RLock(h) \/ Lock(h) \/ Enter(h) \/ Unlock(h)
  PROVE  UNCHANGED Abstract!vars
<1> USE DEF Goto, memory, process
<1>1. pc \in [Handlers -> Locations]
  BY DEF IInv, TypeOK
<1>2. UNCHANGED <<records, files, call, snap, issued>>
  BY DEF Start, RLock, Lock, Enter, Unlock
<1>3. \A g \in Handlers :
        /\ AbstractPhase(g)' = AbstractPhase(g)
        /\ Pending(g)' <=> Pending(g)
  <2>1. CASE Start
    BY <2>1 DEF Start, AbstractPhase, Pending
  <2>2. CASE RLock(h) \/ Lock(h) \/ Enter(h)
    BY <1>1, <2>2 DEF RLock, Lock, Enter, AbstractPhase, Pending
  <2>3. CASE Unlock(h)
    BY <1>1, <2>3 DEF Unlock, AbstractPhase, Pending
  <2> QED
    BY <2>1, <2>2, <2>3
<1>4. AbstractLog' = AbstractLog
  BY <1>2, <1>3 DEF AbstractLog
<1>5. AbstractArchive' = AbstractArchive
  BY <1>2 DEF AbstractArchive
<1> QED
  BY <1>2, <1>3, <1>4, <1>5, StutterStep

(* Nor does a crash, but that everything in memory is gone.                *)
LEMMA CrashRefines ==
  ASSUME Crash
  PROVE  Abstract!Lose
<1> USE DEF Crash
<1>1. \A h \in Handlers : ~Pending(h)' /\ AbstractPhase(h)' = "idle"
  BY DEF Pending, AbstractPhase
<1>2. AbstractLog' = <<>>
  BY <1>1 DEF AbstractLog
<1>3. AbstractArchive' = AbstractArchive
  BY DEF AbstractArchive
<1> QED
  BY <1>1, <1>2, <1>3 DEF Abstract!Lose, NoCall, Abstract!NoCall

LEMMA InvokeRefines ==
  ASSUME IInv, CallInv, NEW h \in Handlers, Invoke(h)
  PROVE  Abstract!Invoke(h)
<1> USE DEF Invoke, Goto, process
<1>1. pc \in [Handlers -> Locations]
  BY DEF IInv, TypeOK
<1>2. /\ \A g \in Handlers : Pending(g)' <=> Pending(g)
      /\ \A g \in Handlers : g # h => AbstractPhase(g)' = AbstractPhase(g)
      /\ AbstractPhase(h) = "idle" /\ AbstractPhase(h)' = "called"
  BY <1>1 DEF AbstractPhase, Pending
<1>3. AbstractLog' = AbstractLog
  BY <1>2 DEF AbstractLog
<1>4. AbstractArchive' = AbstractArchive
  BY DEF AbstractArchive
<1> QED
  BY <1>2, <1>3, <1>4
     DEF Abstract!Invoke, Calls, Abstract!Calls, ReadOrReset, Abstract!ReadOrReset

LEMMA ReturnRefines ==
  ASSUME IInv, CallInv, NEW h \in Handlers, Return(h)
  PROVE  Abstract!Return(h)
<1> USE DEF Return, Goto, memory, process
<1>1. /\ pc \in [Handlers -> Locations]
      /\ snap \in [Handlers -> Seq(Records)]
  BY DEF IInv, TypeOK
<1>2. /\ \A g \in Handlers : Pending(g)' <=> Pending(g)
      /\ \A g \in Handlers : g # h => AbstractPhase(g)' = AbstractPhase(g)
      /\ AbstractPhase(h) = "returned" /\ AbstractPhase(h)' = "idle"
  BY <1>1 DEF AbstractPhase, Pending
<1>3. AbstractLog' = AbstractLog
  BY <1>2 DEF AbstractLog
<1>4. AbstractArchive' = AbstractArchive
  BY DEF AbstractArchive
<1> QED
  BY <1>1, <1>2, <1>3, <1>4 DEF Abstract!Return, NoCall, Abstract!NoCall

(* A Snapshot takes effect when it copies the records: while it reads,     *)
(* nobody is in the middle of an Append.                                   *)
LEMMA ReadRecordsRefines ==
  ASSUME IInv, CallInv, NEW h \in Handlers, ReadRecords(h)
  PROVE  Abstract!Effect(h)
<1> USE DEF ReadRecords, Goto, memory, process
<1>1. /\ pc \in [Handlers -> Locations]
      /\ snap \in [Handlers -> Seq(Records)]
      /\ call[h].op = "snapshot"
  BY DEF IInv, TypeOK, CallInv
<1>2. h \in Readers
  BY DEF Readers
<1>3. \A g \in Handlers : ~Pending(g) /\ ~Pending(g)'
  BY <1>1, <1>2, HolderAlone DEF Pending, Holding
<1>4. AbstractLog = records /\ AbstractLog' = records
  BY <1>3 DEF AbstractLog
<1>5. /\ \A g \in Handlers : g # h => AbstractPhase(g)' = AbstractPhase(g)
      /\ AbstractPhase(h) = "called" /\ AbstractPhase(h)' = "returned"
  BY <1>1 DEF AbstractPhase, Pending
<1>6. AbstractArchive' = AbstractArchive
  BY DEF AbstractArchive
<1> QED
  BY <1>1, <1>4, <1>5, <1>6 DEF Abstract!Effect

LEMMA ResetRecordsRefines ==
  ASSUME IInv, CallInv, NEW h \in Handlers, ResetRecords(h)
  PROVE  Abstract!Effect(h)
<1> USE DEF ResetRecords, Goto, process
<1>1. /\ pc \in [Handlers -> Locations]
      /\ snap \in [Handlers -> Seq(Records)]
      /\ snap[h] = <<>>
  BY DEF IInv, TypeOK, CallInv
<1>2. \A g \in Handlers : ~Pending(g) /\ ~Pending(g)'
  BY <1>1, HolderAlone DEF Pending, Holding
<1>3. AbstractLog = records /\ AbstractLog' = <<>>
  BY <1>2 DEF AbstractLog
<1>4. /\ \A g \in Handlers : g # h => AbstractPhase(g)' = AbstractPhase(g)
      /\ AbstractPhase(h) = "called" /\ AbstractPhase(h)' = "returned"
  BY <1>1 DEF AbstractPhase, Pending
<1>5. AbstractArchive' = AbstractArchive
  BY DEF AbstractArchive
<1> QED
  BY <1>1, <1>3, <1>4, <1>5 DEF Abstract!Effect

(* Without a directory an Append takes effect at once; with one, its       *)
(* record stays out of the abstract log for the time being.                *)
LEMMA AppendRecordRefines ==
  ASSUME IInv, CallInv, NEW h \in Handlers, AppendRecord(h)
  PROVE  Abstract!Effect(h) \/ UNCHANGED Abstract!vars
<1> USE DEF AppendRecord, Goto, process
<1>1. /\ pc \in [Handlers -> Locations] /\ pc[h] = "locked"
      /\ snap \in [Handlers -> Seq(Records)] /\ snap[h] = <<>>
      /\ idx \in [Handlers -> 0 .. Len(Formatters) + 1]
      /\ records \in Seq(Records)
      /\ call[h].record \in Records
  BY AppendCalls DEF IInv, TypeOK, CallInv
<1>2. \A g \in Handlers : ~Pending(g) /\ (g # h => ~Pending(g)')
  BY <1>1, HolderAlone DEF Pending, Holding
<1>3. AbstractLog = records
  BY <1>2 DEF AbstractLog
<1>4. /\ \A g \in Handlers : g # h => AbstractPhase(g)' = AbstractPhase(g)
      /\ AbstractPhase(h) = "called"
  BY <1>1 DEF AbstractPhase, Pending
<1>5. AbstractArchive' = AbstractArchive
  BY DEF AbstractArchive
<1>6. CASE pc' = [pc EXCEPT ![h] = "unlock"]
  <2>1. AbstractPhase(h)' = "returned" /\ ~Pending(h)'
    BY <1>1, <1>6 DEF AbstractPhase, Pending
  <2>2. AbstractLog' = records'
    BY <1>2, <2>1 DEF AbstractLog
  <2> QED
    BY <1>1, <1>3, <1>4, <1>5, <2>1, <2>2 DEF Abstract!Effect, Abstract!Kept, Abstract!Shown
<1>7. CASE pc' = [pc EXCEPT ![h] = "format"] /\ idx' = [idx EXCEPT ![h] = 1]
  <2>1. AbstractPhase(h)' = "called" /\ Pending(h)'
    BY <1>1, <1>7, FormattersFacts DEF AbstractPhase, Pending
  <2>2. AbstractLog' = SubSeq(records', 1, Len(records') - 1)
    BY <2>1 DEF AbstractLog
  <2>3. AbstractLog' = records
    BY <1>1, <2>2, WithoutLast
  <2> QED
    BY <1>1, <1>3, <1>4, <1>5, <2>1, <2>3, StutterStep
<1> QED
  BY <1>6, <1>7

(* An Append that gives up, or has written its last file, takes effect.    *)
LEMMA AppendEnds ==
  ASSUME IInv, CallInv, NEW h \in Handlers, Pending(h), ~Pending(h)',
         \A g \in Handlers : g # h => pc'[g] = pc[g],
         AbstractPhase(h)' = "returned",
         UNCHANGED <<records, issued, call, snap>>,
         \/ AbstractArchive' = AbstractArchive
         \/ Abstract!Extends(AbstractArchive', AbstractArchive, call[h].record)
  PROVE  Abstract!Effect(h)
<1>1. /\ Writing(h) /\ pc[h] \in Holding
      /\ AbstractPhase(h) = "called"
  BY DEF Pending, Writing, Holding, AbstractPhase
<1>2. /\ call[h].op = "append"
      /\ records \in Seq(Records) /\ records # <<>>
      /\ records[Len(records)] = call[h].record
      /\ snap[h] = records
      /\ snap \in [Handlers -> Seq(Records)]
  BY <1>1 DEF IInv, TypeOK, WriteInv, CallInv
<1>3. \A g \in Handlers : g # h =>
        /\ pc[g] \notin {"format", "fill"}
        /\ AbstractPhase(g)' = AbstractPhase(g)
  BY <1>1, HolderAlone DEF Holding, AbstractPhase
<1>4. AbstractLog' = records
  BY <1>3 DEF AbstractLog, Pending
<1>5. AbstractLog = SubSeq(records, 1, Len(records) - 1)
  BY DEF AbstractLog
<1>6. AbstractLog' = Append(AbstractLog, call[h].record)
  BY <1>2, <1>4, <1>5, LastBack
<1> QED
  BY <1>1, <1>2, <1>3, <1>4, <1>6 DEF Abstract!Effect, Abstract!Kept, Abstract!Shown

(* What happens between the first and the last file shows nothing.         *)
LEMMA AppendGoesOn ==
  ASSUME IInv, NEW h \in Handlers, Pending(h) <=> Pending(h)', pc[h] \in Holding,
         \A g \in Handlers : g # h => pc'[g] = pc[g],
         AbstractPhase(h)' = AbstractPhase(h),
         UNCHANGED <<records, issued, call, snap>>,
         AbstractArchive' = AbstractArchive
  PROVE  UNCHANGED Abstract!vars
<1>1. \A g \in Handlers : g # h =>
        /\ pc[g] \notin {"format", "fill"}
        /\ AbstractPhase(g)' = AbstractPhase(g)
  BY HolderAlone DEF Holding, AbstractPhase
<1>2. \A g \in Handlers : Pending(g)' <=> Pending(g)
  BY <1>1 DEF Pending
<1>3. AbstractLog' = AbstractLog
  BY <1>2 DEF AbstractLog
<1> QED
  BY <1>1, <1>3, StutterStep

(* A file just created is not whole, so its number is not complete.        *)
LEMMA OpenFileRefines ==
  ASSUME IInv, CallInv, [Next]_vars, NEW h \in Handlers, OpenFile(h)
  PROVE  Abstract!Effect(h) \/ UNCHANGED Abstract!vars
<1>1. /\ pc \in [Handlers -> Locations]
      /\ pc[h] = "format" /\ pc[h] \in Holding
      /\ Pending(h) /\ AbstractPhase(h) = "called"
      /\ \A g \in Handlers : g # h => pc'[g] = pc[g]
      /\ UNCHANGED <<next, idx, records, issued, call, snap>>
      /\ idx[h] \in DOMAIN Formatters
  BY DEF OpenFile, Goto, IInv, TypeOK, Holding, Pending, AbstractPhase
<1>2. CASE pc' = [pc EXCEPT ![h] = "unlock"] /\ UNCHANGED files
  <2>1. ~Pending(h)' /\ AbstractPhase(h)' = "returned"
    BY <1>1, <1>2 DEF Pending, AbstractPhase
  <2>2. AbstractArchive' = AbstractArchive
    BY <1>2 DEF AbstractArchive
  <2> QED
    BY <1>1, <2>1, <2>2, AppendEnds
<1>3. CASE pc' = [pc EXCEPT ![h] = "fill"] /\ files' = Put(files, Path(h), Junk)
  <2>1. Pending(h)' /\ AbstractPhase(h)' = "called"
    BY <1>1, <1>3 DEF Pending, AbstractPhase
  <2> DEFINE suffix == Formatters[idx[h]]
  <2>2. suffix \in Suffixes /\ Path(h) = <<next, suffix>>
    BY <1>1, FormattersFacts DEF Path
  <2>3. files'[<<next, suffix>>] = Junk
    BY <1>3, <2>2 DEF Put
  <2>4. ~ \E r \in Records : Complete(files', next, r)
    BY <2>2, <2>3, OutsidersAssumption DEF Complete
  <2>5. AbstractArchive' = AbstractArchive
    BY <1>3, <2>2, <2>4, PutCompletesNone, ArchiveKept
  <2> QED
    BY <1>1, <2>1, <2>5, AppendGoesOn
<1> QED
  BY <1>2, <1>3 DEF OpenFile, Goto

(* The last file completes the next number, which is above all others.     *)
LEMMA LastFileExtends ==
  ASSUME IInv, [Next]_vars, NEW h \in Handlers, up, writer,
         pc[h] = "fill", idx[h] = Len(Formatters),
         call[h].record \in Records,
         files' = Put(files, <<next, Last>>, call[h].record),
         Complete(files', next, call[h].record)
  PROVE  Abstract!Extends(AbstractArchive', AbstractArchive, call[h].record)
<1> DEFINE record == call[h].record
<1>1. next \in Nat /\ pc[h] \in Holding /\ ~Finishing(h)
  BY DEF IInv, TypeOK, Holding, Finishing
<1>2. ~LastWhole(next)
  BY <1>1, LastNotWhole
<1>3. ASSUME NEW m \in Archived(files)
      PROVE  m \in Nat /\ m < next
  <2>1. LastWhole(m) /\ <<m, Last>> \in DOMAIN files
    BY FormattersFacts DEF Archived, Complete, LastWhole
  <2>2. m \in Nat /\ m <= next
    <3>1. <<m, Last>> \in Names
      BY <2>1 DEF IInv, TypeOK
    <3>2. <<m, Last>>[1] <= next
      BY <2>1 DEF IInv, NumberInv
    <3> QED
      BY <3>1, <3>2 DEF Names
  <2> QED
    BY <1>1, <1>2, <2>1, <2>2
<1>4. Archived(files') = Archived(files) \cup {next}
  <2>1. next \in Archived(files')
    <3>1. <<next, Last>> \in DOMAIN files'
      BY DEF Put
    <3>2. next \in {name[1] : name \in DOMAIN files'}
      BY <3>1
    <3> QED
      BY <3>2 DEF Archived
  <2>2. ASSUME NEW m \in Archived(files'), m # next
        PROVE  m \in Archived(files)
    <3>1. PICK r \in Records : Complete(files', m, r)
      BY DEF Archived
    <3>2. Complete(files, m, r)
      BY <2>2, <3>1 DEF Complete, Put
    <3>3. <<m, Last>> \in DOMAIN files
      BY <3>2, FormattersFacts DEF Complete
    <3>4. m \in {name[1] : name \in DOMAIN files}
      BY <3>3
    <3> QED
      BY <3>2, <3>4 DEF Archived
  <2> QED
    BY <2>1, <2>2, ArchivedGrows
<1>5. ASSUME NEW m \in Archived(files)
      PROVE  (CHOOSE r \in Records : Complete(files', m, r)) = AbstractArchive[m]
  <2>1. PICK r \in Records : Complete(files, m, r)
    BY DEF Archived
  <2>2. Complete(files', m, r)
    BY <2>1, StepIntact DEF Complete
  <2>3. (CHOOSE x \in Records : Complete(files', m, x)) = r
    BY <2>2, CompleteUnique
  <2>4. (CHOOSE x \in Records : Complete(files, m, x)) = r
    BY <2>1, CompleteUnique
  <2> QED
    BY <2>3, <2>4 DEF AbstractArchive
<1>6. (CHOOSE r \in Records : Complete(files', next, r)) = record
  BY CompleteUnique
<1>7. DOMAIN AbstractArchive = Archived(files)
  BY DEF AbstractArchive
<1>8. AbstractArchive' =
        [m \in Archived(files') |-> CHOOSE r \in Records : Complete(files', m, r)]
  BY DEF AbstractArchive
<1>9. DOMAIN AbstractArchive' = Archived(files) \cup {next}
  BY <1>4, <1>8
<1>10. AbstractArchive' =
         [m \in Archived(files) \cup {next} |->
            IF m = next THEN record ELSE AbstractArchive[m]]
  <2>1. ASSUME NEW m \in Archived(files) \cup {next}
        PROVE  (CHOOSE r \in Records : Complete(files', m, r))
               = (IF m = next THEN record ELSE AbstractArchive[m])
    BY <1>5, <1>6
  <2> QED
    BY <1>4, <1>8, <2>1, Zenon
<1> QED
  <2>1. \A m \in DOMAIN AbstractArchive : m < next
    BY <1>3, <1>7
  <2> QED
    BY <1>7, <1>9, <1>10, <2>1 DEF Abstract!Extends

LEMMA FillFileRefines ==
  ASSUME IInv, CallInv, [Next]_vars, NEW h \in Handlers, FillFile(h)
  PROVE  Abstract!Effect(h) \/ UNCHANGED Abstract!vars
<1> USE DEF FillFile, Goto, process
<1> DEFINE k == idx[h]
           record == call[h].record
           path == <<next, Formatters[k]>>
<1>1. /\ pc \in [Handlers -> Locations]
      /\ idx \in [Handlers -> 0 .. Len(Formatters) + 1]
      /\ pc[h] = "fill" /\ pc[h] \in Holding /\ Writing(h)
      /\ Pending(h) /\ AbstractPhase(h) = "called"
      /\ \A g \in Handlers : g # h => pc'[g] = pc[g]
  BY DEF IInv, TypeOK, Holding, Writing, Pending, AbstractPhase
<1>2. /\ writer /\ up /\ call[h].op = "append"
      /\ k \in 1 .. Len(Formatters)
  BY <1>1, HolderAlone, FormattersFacts DEF IInv, WriteInv
<1>3. record \in Records
  BY <1>2, AppendCalls DEF IInv, TypeOK
<1>4. CASE pc' = [pc EXCEPT ![h] = "unlock"] /\ UNCHANGED <<files, idx>>
  <2>1. ~Pending(h)' /\ AbstractPhase(h)' = "returned"
    BY <1>1, <1>4 DEF Pending, AbstractPhase
  <2>2. AbstractArchive' = AbstractArchive
    BY <1>4 DEF AbstractArchive
  <2> QED
    BY <1>1, <2>1, <2>2, AppendEnds
<1>5. CASE /\ pc' = [pc EXCEPT ![h] = "format"]
           /\ files' = Put(files, path, record)
           /\ idx' = [idx EXCEPT ![h] = k + 1]
  <2>1. pc'[h] = "format" /\ idx'[h] = k + 1
    BY <1>1, <1>5
  <2>2. CASE k = Len(Formatters)
    <3>1. ~Pending(h)' /\ AbstractPhase(h)' = "returned"
      BY <2>1, <2>2, FormattersFacts DEF Pending, AbstractPhase
    <3>2. path = <<next, Last>>
      BY <2>2 DEF Last
    <3>3. Complete(files', next, record)
      <4>1. ASSUME NEW j \in 1 .. Len(Formatters)
            PROVE  /\ <<next, Formatters[j]>> \in DOMAIN files'
                   /\ files'[<<next, Formatters[j]>>] = record
        <5>1. CASE j = k
          BY <1>5, <5>1 DEF Put
        <5>2. CASE j # k
          <6>1. j \in 1 .. k - 1
            BY <2>2, <5>2, FormattersFacts
          <6> QED
            BY <1>1, <1>5, <6>1 DEF IInv, WriteInv, Put
        <5> QED
          BY <5>1, <5>2
      <4> QED
        BY <4>1, FormattersFacts DEF Complete
    <3>4. Abstract!Extends(AbstractArchive', AbstractArchive, record)
      BY <1>1, <1>2, <1>3, <1>5, <2>2, <3>2, <3>3, LastFileExtends
    <3> QED
      BY <1>1, <3>1, <3>4, AppendEnds
  <2>3. CASE k # Len(Formatters)
    <3>1. Pending(h)' /\ AbstractPhase(h)' = "called"
      BY <1>2, <2>1, <2>3, FormattersFacts DEF Pending, AbstractPhase
    <3>2. path # <<next, Last>>
      BY <1>2, <2>3, FormattersFacts DEF Last
    <3>3. ~LastWhole(next)
      BY <1>1, <1>2, LastNotWhole DEF Finishing
    <3>4. ~ \E r \in Records : Complete(files', next, r)
      <4> SUFFICES ASSUME NEW r \in Records, Complete(files', next, r) PROVE FALSE
        OBVIOUS
      <4>1. <<next, Last>> \in DOMAIN files' /\ files'[<<next, Last>>] = r
        BY FormattersFacts DEF Complete
      <4>2. <<next, Last>> \in DOMAIN files /\ files[<<next, Last>>] = r
        BY <1>5, <3>2, <4>1 DEF Put
      <4> QED
        BY <3>3, <4>2 DEF LastWhole
    <3>5. AbstractArchive' = AbstractArchive
      BY <1>5, <3>4, PutCompletesNone, ArchiveKept
    <3> QED
      BY <1>1, <3>1, <3>5, AppendGoesOn
  <2> QED
    BY <2>2, <2>3
<1> QED
  BY <1>1, <1>4, <1>5 DEF Path

(* The increment after the last file shows nothing.                        *)
LEMMA FinishWriteRefines ==
  ASSUME IInv, NEW h \in Handlers, FinishWrite(h)
  PROVE  UNCHANGED Abstract!vars
<1> USE DEF FinishWrite, Goto, process
<1>1. /\ pc \in [Handlers -> Locations]
      /\ pc[h] = "format" /\ pc[h] \in Holding
      /\ ~Pending(h) /\ AbstractPhase(h) = "returned"
      /\ \A g \in Handlers : g # h => pc'[g] = pc[g]
  BY FormattersFacts DEF IInv, TypeOK, Holding, Pending, AbstractPhase
<1>2. ~Pending(h)' /\ AbstractPhase(h)' = "returned"
  BY <1>1 DEF Pending, AbstractPhase
<1>3. AbstractArchive' = AbstractArchive
  BY DEF AbstractArchive
<1> QED
  BY <1>1, <1>2, <1>3, AppendGoesOn

-------------------------------------------------------------------------------
(* The theorem *)

LEMMA StepRefines ==
  ASSUME IInv, CallInv, [Next]_vars
  PROVE  [Abstract!Next]_(Abstract!vars)
<1>1. CASE UNCHANGED vars
  <2>1. UNCHANGED <<AbstractLog, AbstractArchive, call, issued>>
    BY <1>1 DEF vars, AbstractLog, AbstractArchive, Pending
  <2>2. \A h \in Handlers : AbstractPhase(h)' = AbstractPhase(h) /\ snap'[h] = snap[h]
    BY <1>1 DEF vars, AbstractPhase, Pending
  <2> QED
    BY <2>1, <2>2, StutterStep
<1>2. CASE Crash
  BY <1>2, CrashRefines DEF Abstract!Next
<1>3. CASE Start
  <2>1. CASE Handlers = {}
    <3>1. UNCHANGED <<AbstractLog, AbstractArchive, call, issued>>
      BY <1>3, <2>1 DEF Start, AbstractLog, AbstractArchive
    <3> QED
      BY <2>1, <3>1, StutterStep
  <2>2. CASE Handlers # {}
    BY <1>3, <2>2, QuietSteps
  <2> QED
    BY <2>1, <2>2
<1>4. ASSUME NEW h \in Handlers, Invoke(h) \/ Step(h)
      PROVE  Abstract!Next \/ UNCHANGED Abstract!vars
  <2>1. Abstract!Invoke(h) \/ Abstract!Effect(h) \/ Abstract!Return(h)
        \/ UNCHANGED Abstract!vars
    BY <1>4, InvokeRefines, QuietSteps, ReadRecordsRefines, ResetRecordsRefines,
       AppendRecordRefines, OpenFileRefines, FillFileRefines, FinishWriteRefines,
       ReturnRefines DEF Step
  <2> QED
    BY <2>1 DEF Abstract!Next
<1> QED
  BY <1>1, <1>2, <1>3, <1>4 DEF Next

(* Whatever appends, snapshots, resets, failures, crashes and restarts     *)
(* come together, each call takes effect at one instant between its begin  *)
(* and its end, an Append shows its caller its own capture last, and the   *)
(* archive grows upwards in capture order (store.go:15-42,                 *)
(* output.go:43-64).                                                       *)
THEOREM CallsAreAtomic == Spec => ImplementsCaptureLog
<1>1. IInv /\ CallInv /\ [Next]_vars => CallInv'
  BY CallKeeps
<1>2. IInv /\ CallInv /\ [Next]_vars => [Abstract!Next]_(Abstract!vars)
  BY StepRefines
<1> QED
  BY Invariance, InitCall, InitRefines, <1>1, <1>2, PTL
     DEF Spec, ImplementsCaptureLog, Abstract!Spec
===============================================================================
