-------------------------- MODULE CaptureStoreProofs --------------------------
(***************************************************************************)
(* Machine-checked proofs about CaptureStore, for any handlers, records,   *)
(* formatters and initial directory, with and without crashes.             *)
(*                                                                         *)
(* The argument: a number that is complete on disk but not yet passed by   *)
(* OutputWriter.next can only be the next one, and only while the handler  *)
(* that completed it stands between its last file and the increment        *)
(* (NumberInv).  It holds Store.mu then (LockInv), so nobody else writes;  *)
(* after a crash the new process begins above every number it finds.       *)
(***************************************************************************)
EXTENDS CaptureStore, FiniteSetTheorems, WellFoundedInduction, TLAPS

-------------------------------------------------------------------------------
(* Numbers and sequences *)

(* A set of natural numbers that has an element has a least one.           *)
LEMMA LeastNatural ==
  ASSUME NEW T \in SUBSET Nat, T # {}
  PROVE  \E x \in T : \A y \in T : x <= y
<1> DEFINE R == OpToRel(<, Nat)
<1>1. IsWellFoundedOn(R, Nat)
  BY NatLessThanWellFounded
<1>2. \A x, y \in Nat : <<y, x>> \in R <=> y < x
  BY DEF OpToRel
<1> HIDE DEF R
<1>3. PICK x \in T : \A y \in T : ~(<<y, x>> \in R)
  BY <1>1, WFMin
<1>4. ASSUME NEW y \in T PROVE x <= y
  <2>1. x \in Nat /\ y \in Nat
    OBVIOUS
  <2>2. ~(y < x)
    BY <1>2, <1>3, <2>1, Zenon
  <2> QED
    BY <2>1, <2>2
<1> QED
  BY <1>4

(* A finite set of natural numbers that has an element has a greatest one. *)
LEMMA FiniteMax ==
  ASSUME NEW T \in SUBSET Nat, IsFiniteSet(T), T # {}
  PROVE  Max(T) \in T /\ \A y \in T : y <= Max(T)
<1> DEFINE Above(x) == {y \in T : y > x}
           Sizes == {Cardinality(Above(x)) : x \in T}
<1>1. \A x \in T : IsFiniteSet(Above(x)) /\ Cardinality(Above(x)) \in Nat
  BY FS_Subset, FS_CardinalityType
<1>2. PICK x \in T : \A z \in T : Cardinality(Above(x)) <= Cardinality(Above(z))
  <2>1. Sizes \in SUBSET Nat /\ Sizes # {}
    BY <1>1
  <2>2. PICK k \in Sizes : \A j \in Sizes : k <= j
    <3> HIDE DEF Sizes
    <3> QED BY <2>1, LeastNatural
  <2> QED BY <2>2
<1>3. \A y \in T : x >= y
  <2> SUFFICES ASSUME NEW y \in T, y > x PROVE FALSE
    OBVIOUS
  <2>1. Above(y) \in SUBSET Above(x)
    <3> SUFFICES ASSUME NEW z \in T, z > y PROVE z > x
      OBVIOUS
    <3>1. x \in Nat /\ y \in Nat /\ z \in Nat
      OBVIOUS
    <3> QED BY <3>1
  <2>2. y \in Above(x) /\ y \notin Above(y)
    OBVIOUS
  <2>3. Cardinality(Above(y)) <= Cardinality(Above(x)) /\ Cardinality(Above(y)) # Cardinality(Above(x))
    BY <1>1, <2>1, <2>2, FS_Subset
  <2> QED BY <1>1, <1>2, <2>3
<1> QED
  BY <1>3 DEF Max
(* There is at least one formatter, and no two share a suffix.             *)
LEMMA FormattersFacts ==
  /\ Len(Formatters) \in Nat
  /\ Len(Formatters) >= 1
  /\ DOMAIN Formatters = 1 .. Len(Formatters)
  /\ \A i \in 1 .. Len(Formatters) : Formatters[i] \in Suffixes
  /\ \A s \in Suffixes : \E i \in 1 .. Len(Formatters) : s = Formatters[i]
  /\ \A i, j \in 1 .. Len(Formatters) : Formatters[i] = Formatters[j] => i = j
  /\ Last \in Suffixes
BY FormattersAssumption DEF Suffixes, Last

(* nextOutputSequence returns a number above all those it finds.           *)
LEMMA NextSequenceAbove ==
  ASSUME NEW dir, IsFiniteSet(DOMAIN dir), DOMAIN dir \subseteq Names
  PROVE  /\ NextSequence(dir) \in Nat
         /\ NextSequence(dir) >= 1
         /\ \A name \in DOMAIN dir : name[1] < NextSequence(dir)
<1> DEFINE Found == {name[1] : name \in DOMAIN dir}
           number == [name \in DOMAIN dir |-> name[1]]
<1>1. Found \in SUBSET Nat
  BY DEF Names
<1>2. IsFiniteSet(Found)
  <2>1. number \in Surjection(DOMAIN dir, Found)
    BY DEF Surjection
  <2> QED
    BY <2>1, FS_Surjection
<1>3. IsFiniteSet({0} \cup Found)
  <2>1. {0} \cup Found = Found \cup {0}
    OBVIOUS
  <2> QED
    BY <1>2, <2>1, FS_AddElement
<1> HIDE DEF number
<1>4. /\ Max({0} \cup Found) \in {0} \cup Found
      /\ \A n \in {0} \cup Found : n <= Max({0} \cup Found)
  <2>1. {0} \cup Found \in SUBSET Nat /\ {0} \cup Found # {}
    BY <1>1
  <2> HIDE DEF Found
  <2> QED
    BY <1>3, <2>1, FiniteMax
<1>5. NextSequence(dir) = 1 + Max({0} \cup Found)
  BY DEF NextSequence
<1>6. Max({0} \cup Found) \in Nat
  BY <1>1, <1>4
<1>7. ASSUME NEW name \in DOMAIN dir
      PROVE  name[1] < NextSequence(dir)
  <2>1. name[1] \in Found /\ name[1] \in Nat
    BY <1>1
  <2>2. name[1] <= Max({0} \cup Found)
    BY <1>4, <2>1
  <2> HIDE DEF Found
  <2> QED
    BY <1>5, <1>6, <2>1, <2>2
<1>8. NextSequence(dir) \in Nat /\ NextSequence(dir) >= 1
  <2> HIDE DEF Found
  <2> DEFINE m == Max({0} \cup Found)
  <2>1. m \in Nat /\ NextSequence(dir) = 1 + m
    BY <1>5, <1>6
  <2> HIDE DEF m
  <2> QED
    BY <2>1
<1> QED
  BY <1>7, <1>8

(* A call of Append carries a record.                                      *)
LEMMA AppendCalls ==
  ASSUME NEW c \in Calls \cup {NoCall}, c.op = "append"
  PROVE  c.record \in Records
<1>1. c \notin ReadOrReset \cup {NoCall}
  BY DEF ReadOrReset, NoCall
<1>2. c \in [op : {"append"}, record : Records]
  BY <1>1 DEF Calls
<1> QED
  BY <1>2

-------------------------------------------------------------------------------
(* The invariant *)

(* The first start finds only foreign files and no process.                *)
LEMMA InitInv == Init => IInv
<1> SUFFICES ASSUME Init PROVE IInv
  OBVIOUS
<1> USE DEF Init
<1>1. \A name \in DOMAIN files : files[name] = Junk
  BY InitialFilesAssumption
<1>2. TypeOK
  <2>1. IsFiniteSet(DOMAIN files) /\ DOMAIN files \subseteq Names
    BY InitialFilesAssumption
  <2>2. idx \in [Handlers -> 0 .. Len(Formatters) + 1]
    BY FormattersFacts
  <2>3. records \in Seq(Records) /\ snap \in [Handlers -> Seq(Records)]
    OBVIOUS
  <2>4. /\ pc \in [Handlers -> Locations]
        /\ call \in [Handlers -> Calls \cup {NoCall}]
    BY DEF Locations
  <2>5. \A name \in DOMAIN files : files[name] \in Contents
    BY <1>1 DEF Contents
  <2> QED
    BY <2>1, <2>2, <2>3, <2>4, <2>5 DEF TypeOK
<1>3. DownInv /\ LockInv
  BY DEF DownInv, LockInv, Holding
<1>4. WriteInv /\ NumberInv
  BY DEF WriteInv, NumberInv, Writing
<1>5. LastFileSeals
  BY <1>1, OutsidersAssumption DEF LastFileSeals
<1> QED
  BY <1>2, <1>3, <1>4, <1>5 DEF IInv

(* A step that leaves the directory, the next number and every Write under *)
(* way alone keeps what the invariant says of files.                       *)
LEMMA FilesUntouched ==
  ASSUME IInv, UNCHANGED <<up, writer, next, files>>,
         \A h \in Handlers :
           Writing(h) \/ Writing(h)' =>
             pc'[h] = pc[h] /\ idx'[h] = idx[h] /\ call'[h] = call[h]
  PROVE  WriteInv' /\ NumberInv' /\ LastFileSeals'
<1>1. WriteInv'
  BY DEF IInv, WriteInv, Writing
<1>2. NumberInv'
  BY DEF IInv, NumberInv, LastWhole, Finishing, Writing
<1>3. LastFileSeals'
  BY DEF IInv, LastFileSeals, Complete
<1> QED
  BY <1>1, <1>2, <1>3

LEMMA InvokeKeeps ==
  ASSUME IInv, NEW h \in Handlers, Invoke(h)
  PROVE  IInv'
<1> USE DEF Invoke, Goto, process
<1>1. TypeOK'
  BY DEF IInv, TypeOK, Locations, Calls
<1>2. DownInv'
  BY DEF IInv, TypeOK, DownInv
<1>3. LockInv'
  BY OutsidersAssumption DEF IInv, TypeOK, LockInv, Holding, Readers
<1>4. WriteInv' /\ NumberInv' /\ LastFileSeals'
  <2>1. \A g \in Handlers :
          Writing(g) \/ Writing(g)' =>
            pc'[g] = pc[g] /\ idx'[g] = idx[g] /\ call'[g] = call[g]
    BY DEF IInv, TypeOK, Writing
  <2> QED
    BY <2>1, FilesUntouched
<1> QED
  BY <1>1, <1>2, <1>3, <1>4 DEF IInv

LEMMA RLockKeeps ==
  ASSUME IInv, NEW h \in Handlers, RLock(h)
  PROVE  IInv'
<1> USE DEF RLock, Goto, memory, process
<1>1. TypeOK'
  BY DEF IInv, TypeOK, Locations, Calls
<1>2. DownInv'
  BY DEF IInv, TypeOK, DownInv
<1>3. LockInv'
  BY OutsidersAssumption DEF IInv, TypeOK, LockInv, Holding, Readers
<1>4. WriteInv' /\ NumberInv' /\ LastFileSeals'
  <2>1. \A g \in Handlers :
          Writing(g) \/ Writing(g)' =>
            pc'[g] = pc[g] /\ idx'[g] = idx[g] /\ call'[g] = call[g]
    BY DEF IInv, TypeOK, Writing
  <2> QED
    BY <2>1, FilesUntouched
<1> QED
  BY <1>1, <1>2, <1>3, <1>4 DEF IInv

LEMMA ReadRecordsKeeps ==
  ASSUME IInv, NEW h \in Handlers, ReadRecords(h)
  PROVE  IInv'
<1> USE DEF ReadRecords, Goto, memory, process
<1>1. TypeOK'
  BY DEF IInv, TypeOK, Locations, Calls
<1>2. DownInv'
  BY DEF IInv, TypeOK, DownInv
<1>3. LockInv'
  BY OutsidersAssumption DEF IInv, TypeOK, LockInv, Holding, Readers
<1>4. WriteInv' /\ NumberInv' /\ LastFileSeals'
  <2>1. \A g \in Handlers :
          Writing(g) \/ Writing(g)' =>
            pc'[g] = pc[g] /\ idx'[g] = idx[g] /\ call'[g] = call[g]
    BY DEF IInv, TypeOK, Writing
  <2> QED
    BY <2>1, FilesUntouched
<1> QED
  BY <1>1, <1>2, <1>3, <1>4 DEF IInv

LEMMA LockKeeps ==
  ASSUME IInv, NEW h \in Handlers, Lock(h)
  PROVE  IInv'
<1> USE DEF Lock, Goto, process
<1>1. TypeOK'
  BY DEF IInv, TypeOK, Locations, Calls
<1>2. DownInv'
  BY DEF IInv, TypeOK, DownInv
<1>3. LockInv'
  BY OutsidersAssumption DEF IInv, TypeOK, LockInv, Holding, Readers
<1>4. WriteInv' /\ NumberInv' /\ LastFileSeals'
  <2>1. \A g \in Handlers :
          Writing(g) \/ Writing(g)' =>
            pc'[g] = pc[g] /\ idx'[g] = idx[g] /\ call'[g] = call[g]
    BY DEF IInv, TypeOK, Writing
  <2> QED
    BY <2>1, FilesUntouched
<1> QED
  BY <1>1, <1>2, <1>3, <1>4 DEF IInv

LEMMA EnterKeeps ==
  ASSUME IInv, NEW h \in Handlers, Enter(h)
  PROVE  IInv'
<1> USE DEF Enter, Goto, memory, process
<1>1. TypeOK'
  BY DEF IInv, TypeOK, Locations, Calls
<1>2. DownInv'
  BY DEF IInv, TypeOK, DownInv
<1>3. LockInv'
  BY OutsidersAssumption DEF IInv, TypeOK, LockInv, Holding, Readers
<1>4. WriteInv' /\ NumberInv' /\ LastFileSeals'
  <2>1. \A g \in Handlers :
          Writing(g) \/ Writing(g)' =>
            pc'[g] = pc[g] /\ idx'[g] = idx[g] /\ call'[g] = call[g]
    BY DEF IInv, TypeOK, Writing
  <2> QED
    BY <2>1, FilesUntouched
<1> QED
  BY <1>1, <1>2, <1>3, <1>4 DEF IInv

LEMMA ResetRecordsKeeps ==
  ASSUME IInv, NEW h \in Handlers, ResetRecords(h)
  PROVE  IInv'
<1> USE DEF ResetRecords, Goto, process
<1>1. TypeOK'
  BY DEF IInv, TypeOK, Locations, Calls
<1>2. DownInv'
  BY DEF IInv, TypeOK, DownInv
<1>3. LockInv'
  BY OutsidersAssumption DEF IInv, TypeOK, LockInv, Holding, Readers
<1>4. WriteInv' /\ NumberInv' /\ LastFileSeals'
  <2>1. \A g \in Handlers :
          Writing(g) \/ Writing(g)' =>
            pc'[g] = pc[g] /\ idx'[g] = idx[g] /\ call'[g] = call[g]
    BY DEF IInv, TypeOK, Writing
  <2> QED
    BY <2>1, FilesUntouched
<1> QED
  BY <1>1, <1>2, <1>3, <1>4 DEF IInv

LEMMA ReturnKeeps ==
  ASSUME IInv, NEW h \in Handlers, Return(h)
  PROVE  IInv'
<1> USE DEF Return, Goto, memory, process
<1>1. TypeOK'
  BY DEF IInv, TypeOK, Locations, Calls
<1>2. DownInv'
  BY DEF IInv, TypeOK, DownInv
<1>3. LockInv'
  BY OutsidersAssumption DEF IInv, TypeOK, LockInv, Holding, Readers
<1>4. WriteInv' /\ NumberInv' /\ LastFileSeals'
  <2>1. \A g \in Handlers :
          Writing(g) \/ Writing(g)' =>
            pc'[g] = pc[g] /\ idx'[g] = idx[g] /\ call'[g] = call[g]
    BY DEF IInv, TypeOK, Writing
  <2> QED
    BY <2>1, FilesUntouched
<1> QED
  BY <1>1, <1>2, <1>3, <1>4 DEF IInv

(* So does Unlock, which lets the parked readers in.                       *)
LEMMA UnlockKeeps ==
  ASSUME IInv, NEW h \in Handlers, Unlock(h)
  PROVE  IInv'
<1> USE DEF Unlock, process
<1>1. TypeOK'
  BY FormattersFacts DEF IInv, TypeOK, Locations
<1>2. DownInv'
  BY DEF IInv, TypeOK, DownInv
<1>3. \A g \in Handlers : pc'[g] \notin Holding \cup {"announced"}
  BY DEF IInv, TypeOK, LockInv, Holding
<1>4. LockInv'
  BY <1>3 DEF LockInv
<1>5. WriteInv' /\ NumberInv' /\ LastFileSeals'
  <2>1. \A g \in Handlers :
          Writing(g) \/ Writing(g)' =>
            pc'[g] = pc[g] /\ idx'[g] = idx[g] /\ call'[g] = call[g]
    BY DEF IInv, TypeOK, Writing
  <2> QED
    BY <2>1, FilesUntouched
<1> QED
  BY <1>1, <1>2, <1>4, <1>5 DEF IInv

(* While a handler holds Store.mu at a point other than the end of its own *)
(* Write, the last file of the next number is not whole.                   *)
LEMMA LastNotWhole ==
  ASSUME IInv, up, writer,
         NEW h \in Handlers, pc[h] \in Holding, ~Finishing(h)
  PROVE  ~LastWhole(next)
<1> SUFFICES ASSUME NEW g \in Handlers, Finishing(g) PROVE FALSE
  BY DEF IInv, NumberInv
<1>1. pc[g] \in Holding
  BY DEF Finishing, Holding
<1>2. g = h
  BY <1>1 DEF IInv, LockInv
<1> QED
  BY <1>2

(* Append adds the record and starts a Write, if there is a directory.     *)
LEMMA AppendRecordKeeps ==
  ASSUME IInv, NEW h \in Handlers, AppendRecord(h)
  PROVE  IInv'
<1> USE DEF AppendRecord, Goto, process
<1>1. call[h].record \in Records /\ pc[h] = "locked"
  BY AppendCalls DEF IInv, TypeOK
<1>2. records' \in Seq(Records)
  BY <1>1 DEF IInv, TypeOK
<1>3. TypeOK'
  <2>1. snap' \in [Handlers -> Seq(Records)]
    BY <1>2 DEF IInv, TypeOK
  <2>2. outMu' \in Handlers \cup {Nobody} /\ pc' \in [Handlers -> Locations]
    BY DEF IInv, TypeOK, Locations
  <2>3. idx' \in [Handlers -> 0 .. Len(Formatters) + 1]
    BY FormattersFacts DEF IInv, TypeOK
  <2> QED
    BY <1>2, <2>1, <2>2, <2>3 DEF IInv, TypeOK
<1>4. up /\ up'
  BY <1>1 DEF IInv, DownInv
<1>5. DownInv'
  BY <1>4 DEF DownInv
<1>6. LockInv'
  BY <1>1 DEF IInv, TypeOK, LockInv, Holding, Readers
<1>7. \A g \in Handlers : g # h => ~Writing(g) /\ ~Writing(g)'
  BY <1>1 DEF IInv, TypeOK, LockInv, Holding, Writing
<1>8. WriteInv'
  <2> SUFFICES ASSUME Writing(h)'
               PROVE  /\ writer
                      /\ call'[h].op = "append"
                      /\ idx'[h] = 1
                      /\ pc'[h] = "format"
    BY <1>7 DEF WriteInv
  <2> QED
    BY DEF Writing, IInv, TypeOK
<1>9. NumberInv'
  <2> SUFFICES ASSUME writer
               PROVE  /\ \A name \in DOMAIN files : name[1] <= next
                      /\ ~LastWhole(next)
    BY DEF NumberInv, LastWhole
  <2>1. ~LastWhole(next)
    BY <1>1, <1>4, LastNotWhole DEF Holding, Finishing
  <2> QED
    BY <1>4, <2>1 DEF IInv, NumberInv
<1>10. LastFileSeals'
  BY DEF IInv, LastFileSeals, Complete
<1> QED
  BY <1>3, <1>5, <1>6, <1>8, <1>9, <1>10 DEF IInv

(* A Write that fails leaves its files behind and keeps the invariant.     *)
LEMMA GiveUpKeeps ==
  ASSUME IInv, NEW h \in Handlers, Writing(h), ~Finishing(h),
         pc' \in [Handlers -> Locations], pc'[h] = "unlock",
         \A g \in Handlers : g # h => pc'[g] = pc[g],
         UNCHANGED <<process, records, w, outMu, next, files, issued, call, idx, snap>>
  PROVE  IInv'
<1> USE DEF process
<1>1. up /\ \A g \in Handlers : g # h => ~Writing(g)
  BY DEF IInv, DownInv, LockInv, Holding, Writing
<1>2. writer => ~LastWhole(next)
  BY <1>1, LastNotWhole DEF Holding, Writing
<1>3. TypeOK'
  BY DEF IInv, TypeOK
<1>4. DownInv'
  BY <1>1 DEF DownInv
<1>5. LockInv'
  BY DEF IInv, LockInv, Holding, Readers, Writing
<1>6. WriteInv'
  BY <1>1 DEF WriteInv, Writing
<1>7. NumberInv'
  BY <1>1, <1>2 DEF IInv, NumberInv, LastWhole
<1>8. LastFileSeals'
  BY DEF IInv, LastFileSeals, Complete
<1> QED
  BY <1>3, <1>4, <1>5, <1>6, <1>7, <1>8 DEF IInv

(* Opening a file, or failing to, keeps the invariant: what the truncated  *)
(* file held belonged to no complete number.                               *)
LEMMA OpenFileKeeps ==
  ASSUME IInv, NEW h \in Handlers, OpenFile(h)
  PROVE  IInv'
<1> USE DEF process
<1> DEFINE k == idx[h]
           path == <<next, Formatters[k]>>
<1>1. /\ pc[h] = "format" /\ writer /\ call[h].op = "append"
      /\ k \in 1 .. Len(Formatters)
      /\ pc' \in [Handlers -> Locations]
      /\ pc'[h] \in {"fill", "unlock"}
      /\ \A g \in Handlers : g # h => pc'[g] = pc[g]
      /\ UNCHANGED <<process, records, w, outMu, next, issued, call, idx, snap>>
  BY FormattersFacts
     DEF OpenFile, Goto, IInv, TypeOK, Locations, WriteInv, Writing
<1>2. up /\ \A g \in Handlers : g # h => ~Writing(g)
  BY <1>1 DEF IInv, DownInv, LockInv, Holding, Writing
<1>3. ~LastWhole(next)
  BY <1>1, <1>2, LastNotWhole DEF Holding, Finishing
<1>4. CASE files' = files /\ pc'[h] = "unlock"
  BY <1>1, <1>4, GiveUpKeeps DEF Writing, Finishing
<1>5. CASE files' = Put(files, path, Junk) /\ pc'[h] = "fill"
  <2>1. /\ DOMAIN files' = DOMAIN files \cup {path}
        /\ files'[path] = Junk
        /\ \A x \in DOMAIN files : x # path => files'[x] = files[x]
    BY <1>5 DEF Put
  <2>2. path \in Names
    BY <1>1, FormattersFacts DEF IInv, TypeOK, Names
  <2>3. TypeOK'
    <3>1. IsFiniteSet(DOMAIN files')
      <4>1. IsFiniteSet(DOMAIN files)
        BY DEF IInv, TypeOK
      <4> HIDE DEF path
      <4>2. IsFiniteSet(DOMAIN files \cup {path})
        BY <4>1, FS_AddElement
      <4> QED
        BY <2>1, <4>2
    <3>2. DOMAIN files' \subseteq Names
      BY <2>1, <2>2 DEF IInv, TypeOK
    <3>3. \A name \in DOMAIN files' : files'[name] \in Contents
      BY <2>1 DEF IInv, TypeOK, Contents
    <3> QED
      BY <1>1, <3>1, <3>2, <3>3 DEF IInv, TypeOK
  <2>4. DownInv'
    BY <1>1, <1>2 DEF DownInv
  <2>5. LockInv'
    BY <1>1, <1>5 DEF IInv, LockInv, Holding, Readers
  <2>6. WriteInv'
    <3>1. ASSUME NEW j \in 1 .. k - 1
          PROVE  /\ <<next, Formatters[j]>> \in DOMAIN files'
                 /\ files'[<<next, Formatters[j]>>] = call[h].record
      <4>1. Formatters[j] # Formatters[k]
        BY <1>1, FormattersFacts
      <4>2. /\ <<next, Formatters[j]>> \in DOMAIN files
            /\ files[<<next, Formatters[j]>>] = call[h].record
        BY <1>1 DEF IInv, WriteInv, Writing
      <4> QED
        BY <2>1, <4>1, <4>2
    <3> QED
      BY <1>1, <1>2, <1>5, <3>1 DEF WriteInv, Writing
  <2>7. NumberInv'
    <3>1. \A name \in DOMAIN files' : name[1] <= next
      BY <1>1, <1>2, <2>1 DEF IInv, NumberInv, TypeOK
    <3>2. ~LastWhole(next)'
      BY <1>1, <1>3, <2>1, OutsidersAssumption DEF LastWhole
    <3> QED
      BY <1>1, <3>1, <3>2 DEF NumberInv
  <2>8. LastFileSeals'
    <3> SUFFICES ASSUME NEW n \in {name[1] : name \in DOMAIN files'},
                        NEW r \in Records,
                        <<n, Last>> \in DOMAIN files',
                        files'[<<n, Last>>] = r
                 PROVE  Complete(files', n, r)
      BY DEF LastFileSeals
    <3>1. <<n, Last>> \in DOMAIN files /\ files[<<n, Last>>] = r
      BY <2>1, OutsidersAssumption
    <3>2. n # next
      BY <1>3, <3>1 DEF LastWhole
    <3>3. n \in {name[1] : name \in DOMAIN files}
      BY <3>1
    <3>4. Complete(files, n, r)
      BY <3>1, <3>3 DEF IInv, LastFileSeals
    <3> QED
      BY <2>1, <3>2, <3>4 DEF Complete
  <2> QED
    BY <2>3, <2>4, <2>5, <2>6, <2>7, <2>8 DEF IInv
<1> QED
  BY <1>1, <1>4, <1>5 DEF OpenFile, Goto, Path, IInv, TypeOK

(* Filling a file, or failing to, keeps the invariant: the last file is    *)
(* filled after its siblings.                                              *)
LEMMA FillFileKeeps ==
  ASSUME IInv, NEW h \in Handlers, FillFile(h)
  PROVE  IInv'
<1> USE DEF process
<1> DEFINE k == idx[h]
           path == <<next, Formatters[k]>>
           record == call[h].record
<1>1. /\ pc[h] = "fill" /\ writer /\ call[h].op = "append"
      /\ k \in 1 .. Len(Formatters)
      /\ record \in Records
      /\ pc' \in [Handlers -> Locations]
      /\ \A g \in Handlers : g # h => pc'[g] = pc[g] /\ idx'[g] = idx[g]
      /\ UNCHANGED <<process, records, w, outMu, next, issued, call, snap>>
  <2>1. /\ pc \in [Handlers -> Locations]
        /\ idx \in [Handlers -> 0 .. Len(Formatters) + 1]
        /\ call \in [Handlers -> Calls \cup {NoCall}]
    BY DEF IInv, TypeOK
  <2>2. /\ pc[h] = "fill"
        /\ \/ pc' = [pc EXCEPT ![h] = "unlock"] /\ UNCHANGED idx
           \/ /\ pc' = [pc EXCEPT ![h] = "format"]
              /\ idx' = [idx EXCEPT ![h] = @ + 1]
        /\ UNCHANGED <<process, records, w, outMu, next, issued, call, snap>>
    BY DEF FillFile, Goto
  <2>3. Writing(h)
    BY <2>2 DEF Writing
  <2>4. writer /\ call[h].op = "append" /\ k \in 1 .. Len(Formatters)
    <3>1. writer /\ call[h].op = "append" /\ idx[h] >= 1 /\ idx[h] <= Len(Formatters)
      BY <2>2, <2>3 DEF IInv, WriteInv
    <3> QED
      BY <2>1, <3>1, FormattersFacts
  <2>5. record \in Records
    BY <2>1, <2>4, AppendCalls
  <2>6. /\ pc' \in [Handlers -> Locations]
        /\ \A g \in Handlers : g # h => pc'[g] = pc[g] /\ idx'[g] = idx[g]
    BY <2>1, <2>2 DEF Locations
  <2> QED
    BY <2>2, <2>4, <2>5, <2>6
<1>2. up /\ \A g \in Handlers : g # h => ~Writing(g)
  BY <1>1 DEF IInv, DownInv, LockInv, Holding, Writing
<1>3. ~LastWhole(next)
  BY <1>1, <1>2, LastNotWhole DEF Holding, Finishing
<1>4. CASE files' = files /\ idx' = idx /\ pc'[h] = "unlock"
  BY <1>1, <1>4, GiveUpKeeps DEF Writing, Finishing
<1>5. CASE /\ files' = Put(files, path, record)
           /\ idx' = [idx EXCEPT ![h] = k + 1]
           /\ pc'[h] = "format"
  <2>1. /\ DOMAIN files' = DOMAIN files \cup {path}
        /\ files'[path] = record
        /\ \A x \in DOMAIN files : x # path => files'[x] = files[x]
    BY <1>5 DEF Put
  <2>2. path \in Names
    BY <1>1, FormattersFacts DEF IInv, TypeOK, Names
  <2>3. /\ idx' \in [Handlers -> 0 .. Len(Formatters) + 1]
        /\ idx'[h] = k + 1
    BY <1>1, <1>5, FormattersFacts DEF IInv, TypeOK
  <2>4. TypeOK'
    <3>1. IsFiniteSet(DOMAIN files')
      <4>1. IsFiniteSet(DOMAIN files)
        BY DEF IInv, TypeOK
      <4> HIDE DEF path
      <4>2. IsFiniteSet(DOMAIN files \cup {path})
        BY <4>1, FS_AddElement
      <4> QED
        BY <2>1, <4>2
    <3>2. DOMAIN files' \subseteq Names
      BY <2>1, <2>2 DEF IInv, TypeOK
    <3>3. \A name \in DOMAIN files' : files'[name] \in Contents
      BY <1>1, <2>1 DEF IInv, TypeOK, Contents
    <3> QED
      BY <1>1, <2>3, <3>1, <3>2, <3>3 DEF IInv, TypeOK
  <2>5. DownInv'
    BY <1>1, <1>2 DEF DownInv
  <2>6. LockInv'
    BY <1>1, <1>5 DEF IInv, LockInv, Holding, Readers
  <2>7. ASSUME NEW j \in 1 .. k
        PROVE  /\ <<next, Formatters[j]>> \in DOMAIN files'
               /\ files'[<<next, Formatters[j]>>] = record
    <3>1. CASE j = k
      BY <2>1, <3>1
    <3>2. CASE j # k
      <4>1. j \in 1 .. k - 1 /\ j \in 1 .. Len(Formatters)
        BY <1>1, <3>2, FormattersFacts
      <4>2. Formatters[j] # Formatters[k]
        BY <1>1, <3>2, <4>1, FormattersFacts
      <4>3. /\ <<next, Formatters[j]>> \in DOMAIN files
            /\ files[<<next, Formatters[j]>>] = record
        BY <1>1, <4>1 DEF IInv, WriteInv, Writing
      <4> QED
        BY <2>1, <4>2, <4>3
    <3> QED
      BY <3>1, <3>2
  <2>8. WriteInv'
    <3>1. idx'[h] >= 1 /\ 1 .. idx'[h] - 1 = 1 .. k
      BY <1>1, <2>3
    <3> QED
      BY <1>1, <1>2, <1>5, <2>7, <3>1 DEF WriteInv, Writing
  <2>9. k # Len(Formatters) => path # <<next, Last>>
    BY <1>1, FormattersFacts DEF Last
  <2>10. NumberInv'
    <3>1. \A name \in DOMAIN files' : name[1] <= next
      BY <1>1, <1>2, <2>1 DEF IInv, NumberInv, TypeOK
    <3>2. CASE k = Len(Formatters)
      BY <1>1, <1>5, <2>3, <3>1, <3>2 DEF NumberInv, Finishing
    <3>3. CASE k # Len(Formatters)
      <4>1. ~LastWhole(next)'
        BY <1>1, <1>3, <2>1, <2>9, <3>3 DEF LastWhole
      <4> QED
        BY <1>1, <3>1, <4>1 DEF NumberInv
    <3> QED
      BY <3>2, <3>3
  <2>11. LastFileSeals'
    <3> SUFFICES ASSUME NEW n \in {name[1] : name \in DOMAIN files'},
                        NEW r \in Records,
                        <<n, Last>> \in DOMAIN files',
                        files'[<<n, Last>>] = r
                 PROVE  Complete(files', n, r)
      BY DEF LastFileSeals
    <3>1. CASE <<n, Last>> = path
      <4>1. n = next /\ k = Len(Formatters) /\ r = record
        BY <2>1, <2>9, <3>1
      <4>2. \A s \in Suffixes : <<n, s>> \in DOMAIN files' /\ files'[<<n, s>>] = r
        BY <2>7, <4>1, FormattersFacts
      <4> QED
        BY <4>2 DEF Complete
    <3>2. CASE <<n, Last>> # path
      <4>1. <<n, Last>> \in DOMAIN files /\ files[<<n, Last>>] = r
        BY <2>1, <3>2
      <4>2. n # next
        BY <1>3, <4>1 DEF LastWhole
      <4>3. n \in {name[1] : name \in DOMAIN files}
        BY <4>1
      <4>4. Complete(files, n, r)
        BY <4>1, <4>3 DEF IInv, LastFileSeals
      <4> QED
        BY <2>1, <4>2, <4>4 DEF Complete
    <3> QED
      BY <3>1, <3>2
  <2> QED
    BY <2>4, <2>5, <2>6, <2>8, <2>10, <2>11 DEF IInv
<1> QED
  BY <1>1, <1>4, <1>5 DEF FillFile, Goto, Path, IInv, TypeOK

(* Using the number up keeps the invariant: the new next number is above   *)
(* every file.                                                             *)
LEMMA FinishWriteKeeps ==
  ASSUME IInv, NEW h \in Handlers, FinishWrite(h)
  PROVE  IInv'
<1> USE DEF process
<1>1. /\ pc[h] = "format" /\ writer
      /\ pc' = [pc EXCEPT ![h] = "unlock"]
      /\ next \in Nat /\ next' = next + 1
      /\ UNCHANGED <<process, records, w, outMu, files, issued, call, idx, snap>>
  BY DEF FinishWrite, Goto, IInv, TypeOK, WriteInv, Writing
<1>2. up /\ \A g \in Handlers : g # h => ~Writing(g)
  BY <1>1 DEF IInv, DownInv, LockInv, Holding, Writing
<1>3. TypeOK'
  BY <1>1 DEF IInv, TypeOK, Locations
<1>4. DownInv'
  BY <1>1, <1>2 DEF DownInv
<1>5. LockInv'
  BY <1>1 DEF IInv, TypeOK, LockInv, Holding, Readers
<1>6. WriteInv'
  BY <1>1, <1>2 DEF WriteInv, Writing, IInv, TypeOK
<1>7. NumberInv'
  <2>1. \A name \in DOMAIN files : name[1] \in Nat /\ name[1] <= next
    BY <1>1, <1>2 DEF IInv, NumberInv, TypeOK, Names
  <2>2. \A name \in DOMAIN files : name[1] <= next'
    BY <1>1, <2>1
  <2>3. <<next', Last>> \notin DOMAIN files
    BY <1>1, <2>1
  <2> QED
    BY <1>1, <2>2, <2>3 DEF NumberInv, LastWhole
<1>8. LastFileSeals'
  BY <1>1 DEF IInv, LastFileSeals, Complete
<1> QED
  BY <1>3, <1>4, <1>5, <1>6, <1>7, <1>8 DEF IInv

(* A start numbers above everything it finds, complete or not.             *)
LEMMA StartKeeps ==
  ASSUME IInv, Start
  PROVE  IInv'
<1> USE DEF Start
<1>1. \A h \in Handlers : pc[h] = "idle" /\ ~Writing(h) /\ pc[h] \notin Holding
  BY DEF IInv, DownInv, Writing, Holding
<1>2. writer' => /\ next' \in Nat /\ next' >= 1
                  /\ \A name \in DOMAIN files : name[1] < next'
  BY NextSequenceAbove DEF IInv, TypeOK
<1>3. TypeOK'
  <2>1. writer' \in BOOLEAN
    BY FlagsAssumption
  <2>2. next' \in Nat /\ next' >= 1
    BY <1>2, <2>1
  <2> QED
    BY <2>1, <2>2 DEF IInv, TypeOK
<1>4. DownInv' /\ LockInv'
  BY DEF IInv, DownInv, LockInv, Readers
<1>5. WriteInv'
  BY <1>1 DEF WriteInv, Writing
<1>6. NumberInv'
  <2> SUFFICES ASSUME writer'
               PROVE  /\ \A name \in DOMAIN files : name[1] <= next'
                      /\ <<next', Last>> \notin DOMAIN files
    BY DEF NumberInv, LastWhole
  <2>1. \A name \in DOMAIN files : name[1] \in Nat
    BY DEF IInv, TypeOK, Names
  <2> QED
    BY <1>2, <2>1
<1>7. LastFileSeals'
  BY DEF IInv, LastFileSeals, Complete
<1> QED
  BY <1>3, <1>4, <1>5, <1>6, <1>7 DEF IInv

(* A crash leaves no process and the files as they are.                    *)
LEMMA CrashKeeps ==
  ASSUME IInv, Crash
  PROVE  IInv'
<1> USE DEF Crash
<1>1. TypeOK'
  <2>1. idx' \in [Handlers -> 0 .. Len(Formatters) + 1]
    BY FormattersFacts
  <2>2. records' \in Seq(Records) /\ snap' \in [Handlers -> Seq(Records)]
    OBVIOUS
  <2>3. /\ pc' \in [Handlers -> Locations]
        /\ call' \in [Handlers -> Calls \cup {NoCall}]
    BY DEF Locations
  <2> QED
    BY <2>1, <2>2, <2>3 DEF IInv, TypeOK
<1>2. DownInv' /\ LockInv' /\ WriteInv' /\ NumberInv'
  BY DEF DownInv, LockInv, Holding, WriteInv, Writing, NumberInv
<1>3. LastFileSeals'
  BY DEF IInv, LastFileSeals, Complete
<1> QED
  BY <1>1, <1>2, <1>3 DEF IInv

-------------------------------------------------------------------------------
(* Theorems *)

(* Every step of the specification keeps the invariant.                    *)
LEMMA NextKeeps == IInv /\ [Next]_vars => IInv'
<1> SUFFICES ASSUME IInv, [Next]_vars PROVE IInv'
  OBVIOUS
<1>1. CASE Start
  BY <1>1, StartKeeps
<1>2. CASE Crash
  BY <1>2, CrashKeeps
<1>3. ASSUME NEW h \in Handlers, Invoke(h) \/ Step(h)
      PROVE  IInv'
  BY <1>3, InvokeKeeps, RLockKeeps, ReadRecordsKeeps, LockKeeps, EnterKeeps,
     ResetRecordsKeeps, AppendRecordKeeps, OpenFileKeeps, FillFileKeeps,
     FinishWriteKeeps, UnlockKeeps, ReturnKeeps DEF Step
<1>4. CASE UNCHANGED vars
  <2> USE <1>4 DEF vars
  <2>1. TypeOK' /\ DownInv' /\ LockInv'
    BY DEF IInv, TypeOK, DownInv, LockInv, Readers
  <2>2. WriteInv' /\ NumberInv' /\ LastFileSeals'
    BY FilesUntouched
  <2> QED
    BY <2>1, <2>2 DEF IInv
<1> QED
  BY <1>1, <1>2, <1>3, <1>4 DEF Next

(* The invariant holds in every behaviour.                                 *)
THEOREM Invariance == Spec => []IInv
BY InitInv, NextKeeps, PTL DEF Spec

(* Types are kept, and a running process has a next number of at least 1.  *)
THEOREM TypeCorrect == Spec => []TypeOK
<1>1. IInv => TypeOK
  BY DEF IInv
<1> QED
  BY Invariance, <1>1, PTL

(* Whoever finds the last file of a number whole finds all its siblings    *)
(* whole, with the same capture: output.go:47-62 under any failures,       *)
(* resets, crashes and restarts.                                           *)
THEOREM LastFileVouches == Spec => []LastFileSeals
<1>1. IInv => LastFileSeals
  BY DEF IInv
<1> QED
  BY Invariance, <1>1, PTL

(* Nobody reads the records while they are being changed, and no two       *)
(* handlers change them or write files at once (store.go:16, 31, 38).      *)
THEOREM WritersExclude ==
  Spec => [](\A h \in Handlers : pc[h] \in Holding =>
               /\ Readers = {}
               /\ \A g \in Handlers : pc[g] \in Holding => g = h)
<1>1. IInv => \A h \in Handlers : pc[h] \in Holding =>
               /\ Readers = {}
               /\ \A g \in Handlers : pc[g] \in Holding => g = h
  BY DEF IInv, LockInv
<1> QED
  BY Invariance, <1>1, PTL

(* A step that touches a complete number's files would have to be a Write  *)
(* for the next number by a handler that has not finished its loop.        *)
LEMMA StepIntact ==
  ASSUME IInv, [Next]_vars,
         NEW n \in Archived(files), NEW s \in Suffixes
  PROVE  <<n, s>> \in DOMAIN files' /\ files'[<<n, s>>] = files[<<n, s>>]
<1>1. <<n, s>> \in DOMAIN files
  BY DEF Archived, Complete
<1>2. LastWhole(n)
  BY FormattersFacts DEF Archived, Complete, LastWhole
<1>3. CASE UNCHANGED files
  BY <1>1, <1>3
<1>4. ASSUME NEW h \in Handlers, OpenFile(h) \/ FillFile(h)
      PROVE  <<n, s>> \in DOMAIN files' /\ files'[<<n, s>>] = files[<<n, s>>]
  <2>1. Writing(h) /\ ~Finishing(h)
    BY <1>4, FormattersFacts DEF OpenFile, FillFile, Goto, Writing, Finishing
  <2>2. up /\ writer /\ pc[h] \in Holding
    BY <2>1 DEF IInv, DownInv, WriteInv, Writing, Holding
  <2>3. n # next
    BY <1>2, <2>1, <2>2, LastNotWhole
  <2>4. files' = files \/ \E c : files' = Put(files, <<next, Formatters[idx[h]]>>, c)
    BY <1>4 DEF OpenFile, FillFile, Path
  <2> QED
    BY <1>1, <2>3, <2>4 DEF Put
<1>5. ASSUME NEW h \in Handlers, Invoke(h) \/ Step(h), ~OpenFile(h), ~FillFile(h)
      PROVE  UNCHANGED files
  BY <1>5 DEF Step, Invoke, RLock, ReadRecords, Lock, Enter, ResetRecords,
              AppendRecord, FinishWrite, Unlock, Return, memory
<1>6. (Start \/ Crash \/ UNCHANGED vars) => UNCHANGED files
  BY DEF Start, Crash, vars
<1> QED
  BY <1>3, <1>4, <1>5, <1>6 DEF Next

(* No failed write, reused number, reset, crash or restart ever touches a  *)
(* file of a number once all the number's files were written               *)
(* (output.go:50-64, 68-99).                                               *)
THEOREM CompleteNumbersAreFinal == Spec => ArchiveIntact
<1>1. IInv /\ [Next]_vars =>
        \A n \in Archived(files) : \A s \in Suffixes :
          <<n, s>> \in DOMAIN files' /\ files'[<<n, s>>] = files[<<n, s>>]
  BY StepIntact
<1> QED
  BY Invariance, <1>1, PTL DEF Spec, ArchiveIntact

(* Complete numbers stay complete.                                         *)
LEMMA ArchivedGrows ==
  ASSUME IInv, [Next]_vars
  PROVE  Archived(files) \subseteq Archived(files')
<1> SUFFICES ASSUME NEW n \in Archived(files)
             PROVE  n \in Archived(files')
  OBVIOUS
<1>1. PICK r \in Records : Complete(files, n, r)
  BY DEF Archived
<1>2. Complete(files', n, r)
  BY <1>1, StepIntact DEF Complete
<1>3. <<n, Last>> \in DOMAIN files'
  BY <1>2, FormattersFacts DEF Complete
<1>4. n \in {name[1] : name \in DOMAIN files'}
  BY <1>3
<1> QED
  BY <1>2, <1>4 DEF Archived

(* A number is used up only when its files are complete.                   *)
LEMMA DenseKeeps ==
  ASSUME IInv, DenseNumbers, [Next]_vars
  PROVE  DenseNumbers'
<1>1. Archived(files) \subseteq Archived(files')
  BY ArchivedGrows
<1>2. CASE UNCHANGED <<process, next>>
  BY <1>1, <1>2 DEF DenseNumbers, process
<1>3. CASE Start
  <2>1. next' \in Nat /\ first' = next'
    <3>1. writer' \in BOOLEAN
      BY <1>3, FlagsAssumption DEF Start
    <3> QED
      BY <1>3, <3>1, NextSequenceAbove DEF Start, IInv, TypeOK
  <2>2. \A k \in Nat : ~ \E n \in k .. k - 1 : TRUE
    OBVIOUS
  <2>3. ~ \E n \in first' .. next' - 1 : TRUE
    BY <2>1, <2>2, Zenon
  <2> QED
    BY <2>3 DEF DenseNumbers
<1>4. CASE Crash
  BY <1>4 DEF Crash, DenseNumbers
<1>5. ASSUME NEW h \in Handlers, FinishWrite(h)
      PROVE  DenseNumbers'
  <2>1. /\ Writing(h) /\ idx[h] = Len(Formatters) + 1
        /\ next \in Nat /\ first \in Nat /\ next' = next + 1
        /\ UNCHANGED <<process, files, call>>
    BY <1>5 DEF FinishWrite, Goto, Writing, IInv, TypeOK
  <2>2. call[h].record \in Records
    BY <2>1, AppendCalls DEF IInv, TypeOK, WriteInv
  <2>3. \A j \in 1 .. Len(Formatters) :
          /\ <<next, Formatters[j]>> \in DOMAIN files
          /\ files[<<next, Formatters[j]>>] = call[h].record
    BY <2>1, FormattersFacts DEF IInv, WriteInv
  <2>4. Complete(files, next, call[h].record)
    BY <2>3, FormattersFacts DEF Complete
  <2>5. <<next, Last>> \in DOMAIN files
    BY <2>4, FormattersFacts DEF Complete
  <2>6. next \in Archived(files)
    <3>1. next \in {name[1] : name \in DOMAIN files}
      BY <2>5
    <3> QED
      BY <2>2, <2>4, <3>1 DEF Archived
  <2>7. \A n \in first .. next : n \in first .. next - 1 \/ n = next
    BY <2>1
  <2>8. up' => up
    BY <2>1 DEF process
  <2> QED
    BY <2>1, <2>6, <2>7, <2>8 DEF DenseNumbers, process
<1>6. ASSUME NEW h \in Handlers, Invoke(h) \/ Step(h), ~FinishWrite(h)
      PROVE  UNCHANGED <<process, next>>
  BY <1>6 DEF Step, Invoke, RLock, ReadRecords, Lock, Enter, ResetRecords,
              AppendRecord, OpenFile, FillFile, Unlock, Return, memory
<1>7. UNCHANGED vars => UNCHANGED <<process, next>>
  BY DEF vars, process
<1> QED
  BY <1>2, <1>3, <1>4, <1>5, <1>6, <1>7 DEF Next

(* A process leaves no gap in the numbers it gives out: the k-th number    *)
(* after its first holds the k-th capture it wrote, however many writes    *)
(* failed in between (output.go:50-64).                                    *)
THEOREM NoGaps == Spec => []DenseNumbers
<1>1. Init => DenseNumbers
  BY DEF Init, DenseNumbers
<1>2. IInv /\ DenseNumbers /\ [Next]_vars => DenseNumbers'
  BY DenseKeeps
<1> QED
  BY <1>1, <1>2, Invariance, PTL DEF Spec
===============================================================================
