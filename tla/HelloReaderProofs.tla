--------------------------- MODULE HelloReaderProofs ---------------------------
(***************************************************************************)
(* Machine-checked proofs about HelloReader, for any bytes a client may    *)
(* send, cut into records in any way.                                      *)
(*                                                                         *)
(* The argument: what the server has read always ends between two records  *)
(* of the client (ReaderInv), because what it takes off the connection     *)
(* next begins with a whole record, whose length it finds in the header    *)
(* (FirstOf).  So its handshake bytes are the payloads up to there, and    *)
(* those of a later record change nothing at their head.                   *)
(***************************************************************************)
EXTENDS HelloReader, SequenceTheorems, TLAPS

-------------------------------------------------------------------------------
(* Sequences of bytes *)

LEMMA Joined ==
  ASSUME NEW s \in Seq(Byte), NEW t \in Seq(Byte)
  PROVE  /\ s \o t \in Seq(Byte) /\ Len(s \o t) = Len(s) + Len(t)
         /\ Len(s) \in Nat /\ Len(t) \in Nat /\ DOMAIN s = 1 .. Len(s)
         /\ \A i \in 1 .. Len(s) : (s \o t)[i] = s[i]
         /\ \A i \in 1 .. Len(t) : (s \o t)[Len(s) + i] = t[i]
<1>1. /\ s \o t \in Seq(Byte) /\ Len(s \o t) = Len(s) + Len(t)
      /\ \A i \in 1 .. Len(s) + Len(t) :
           (s \o t)[i] = IF i <= Len(s) THEN s[i] ELSE t[i - Len(s)]
  BY ConcatProperties
<1>2. Len(s) \in Nat /\ Len(t) \in Nat /\ DOMAIN s = 1 .. Len(s)
  OBVIOUS
<1>3. ASSUME NEW i \in 1 .. Len(s)
      PROVE  (s \o t)[i] = s[i]
  <2>1. i \in 1 .. Len(s) + Len(t) /\ i <= Len(s)
    BY <1>2
  <2> QED
    BY <1>1, <2>1
<1>4. ASSUME NEW i \in 1 .. Len(t)
      PROVE  (s \o t)[Len(s) + i] = t[i]
  <2>1. /\ Len(s) + i \in 1 .. Len(s) + Len(t) /\ ~(Len(s) + i <= Len(s))
        /\ (Len(s) + i) - Len(s) = i
    BY <1>2
  <2> QED
    BY <1>1, <2>1
<1> QED
  BY <1>1, <1>2, <1>3, <1>4

(* A part of a sequence, and two of them joined, by names that the provers *)
(* do not look behind.                                                     *)
Join(s, t) == s \o t
Part(s, m, n) == SubSeq(s, m, n)

LEMMA Split ==
  ASSUME NEW s \in Seq(Byte), NEW k \in 0 .. Len(s)
  PROVE  /\ Part(s, 1, k) \in Seq(Byte) /\ After(s, k) \in Seq(Byte)
         /\ Part(s, 1, k) \o After(s, k) = s
<1>1. /\ Len(s) \in Nat /\ k \in Nat
      /\ \A i \in 1 .. k : s[i] \in Byte
      /\ \A i \in k + 1 .. Len(s) : s[i] \in Byte
  OBVIOUS
<1>2. SubSeq(s, 1, k) \in Seq(Byte)
  BY <1>1, SubSeqProperties
<1>3. SubSeq(s, k + 1, Len(s)) \in Seq(Byte)
  <2>1. k + 1 \in Int /\ Len(s) \in Int
    BY <1>1
  <2> QED
    BY <1>1, <2>1, SubSeqProperties
<1>4. SubSeq(s, 1, k) \o SubSeq(s, k + 1, Len(s)) = SubSeq(s, 1, Len(s))
  <2>1. /\ 1 \in 1 .. Len(s) + 1 /\ k \in 1 - 1 .. Len(s) /\ Len(s) \in k .. Len(s)
    BY <1>1
  <2> QED
    BY <2>1, ConcatAdjacentSubSeq
<1>5. SubSeq(s, 1, Len(s)) = s
  BY SubSeqFull
<1> QED
  BY <1>2, <1>3, <1>4, <1>5 DEF After, Part

(* Sequences with the same bytes are the same.                             *)
LEMMA SameBytes ==
  ASSUME NEW s \in Seq(Byte), NEW t \in Seq(Byte), Len(s) = Len(t),
         \A i \in 1 .. Len(s) : s[i] = t[i]
  PROVE  s = t
OBVIOUS

LEMMA BeginsLonger ==
  ASSUME NEW a \in Seq(Byte), NEW s \in Seq(Byte), NEW t \in Seq(Byte), Begins(a, s)
  PROVE  Begins(a, s \o t) /\ Begins(s, s \o t)
<1>1. /\ Len(a) \in Nat /\ Len(s) \in Nat /\ Len(t) \in Nat /\ Len(s \o t) = Len(s) + Len(t)
      /\ \A i \in 1 .. Len(s) : (s \o t)[i] = s[i]
  BY Joined
<1>2. Len(a) <= Len(s) /\ \A i \in 1 .. Len(a) : a[i] = s[i] /\ i \in 1 .. Len(s)
  BY <1>1 DEF Begins
<1> QED
  BY <1>1, <1>2 DEF Begins

LEMMA BeginsRest ==
  ASSUME NEW s \in Seq(Byte), NEW t \in Seq(Byte), NEW u \in Seq(Byte),
         Begins(s \o t, s \o u)
  PROVE  Begins(t, u)
<1>1. /\ Len(s) \in Nat /\ Len(t) \in Nat /\ Len(u) \in Nat
      /\ Len(s \o t) = Len(s) + Len(t) /\ Len(s \o u) = Len(s) + Len(u)
      /\ \A i \in 1 .. Len(t) : (s \o t)[Len(s) + i] = t[i]
      /\ \A i \in 1 .. Len(u) : (s \o u)[Len(s) + i] = u[i]
  BY Joined
<1>2. Len(t) <= Len(u)
  BY <1>1 DEF Begins
<1>3. ASSUME NEW i \in 1 .. Len(t)
      PROVE  t[i] = u[i]
  <2>1. Len(s) + i \in 1 .. Len(s \o t) /\ i \in 1 .. Len(u)
    BY <1>1, <1>2
  <2> QED
    BY <1>1, <2>1 DEF Begins
<1> QED
  BY <1>2, <1>3 DEF Begins

LEMMA BeginsPart ==
  ASSUME NEW a \in Seq(Byte), NEW b \in Seq(Byte), Begins(a, b),
         NEW m \in Nat \ {0}, NEW n \in Nat, n <= Len(a)
  PROVE  /\ Part(a, m, n) = Part(b, m, n) /\ Part(a, m, n) \in Seq(Byte)
         /\ Len(Part(a, m, n)) = IF m <= n THEN n - m + 1 ELSE 0
         /\ \A i \in 1 .. n - m + 1 : Part(a, m, n)[i] = a[m + i - 1]
<1>1. Len(a) \in Nat /\ Len(b) \in Nat /\ Len(a) <= Len(b) /\ m \in Int /\ n \in Int
  BY DEF Begins
<1>2. \A i \in m .. n : i \in 1 .. Len(a) /\ i \in 1 .. Len(b)
  BY <1>1
<1>3. \A i \in m .. n : a[i] \in Byte /\ b[i] \in Byte /\ a[i] = b[i]
  BY <1>1, <1>2 DEF Begins
<1>4. PICK t \in Seq(Byte) : t = Part(a, m, n)
  <2>1. SubSeq(a, m, n) \in Seq(Byte)
    BY <1>1, <1>3, SubSeqProperties
  <2>2. Part(a, m, n) \in Seq(Byte)
    BY <2>1 DEF Part
  <2> QED
    BY <2>2
<1>5. PICK u \in Seq(Byte) : u = Part(b, m, n)
  <2>1. SubSeq(b, m, n) \in Seq(Byte)
    BY <1>1, <1>3, SubSeqProperties
  <2>2. Part(b, m, n) \in Seq(Byte)
    BY <2>1 DEF Part
  <2> QED
    BY <2>2
<1>6. /\ Len(t) = IF m <= n THEN n - m + 1 ELSE 0
      /\ \A i \in 1 .. n - m + 1 : t[i] = a[m + i - 1]
  BY <1>1, <1>3, <1>4, SubSeqProperties DEF Part
<1>7. /\ Len(u) = IF m <= n THEN n - m + 1 ELSE 0
      /\ \A i \in 1 .. n - m + 1 : u[i] = b[m + i - 1]
  BY <1>1, <1>3, <1>5, SubSeqProperties DEF Part
<1>8. \A i \in 1 .. Len(t) : i \in 1 .. n - m + 1 /\ m + i - 1 \in m .. n
  BY <1>1, <1>6
<1>9. t = u
  <2>1. \A i \in 1 .. Len(t) : t[i] = u[i]
    BY <1>3, <1>6, <1>7, <1>8
  <2>2. Len(t) = Len(u)
    BY <1>6, <1>7
  <2> QED
    BY <2>1, <2>2, SameBytes
<1> QED
  BY <1>4, <1>5, <1>6, <1>9

-------------------------------------------------------------------------------
(* Records *)

(* The two bytes a length is sent in.                                      *)
LEMMA TwoBytes ==
  ASSUME NEW n \in Nat, n < 256 * 256
  PROVE  /\ n \div 256 \in Byte /\ n % 256 \in Byte
         /\ 256 * (n \div 256) + (n % 256) = n
<1>1. n % 256 \in 0 .. 255
  OBVIOUS
<1>2. n = 256 * (n \div 256) + (n % 256)
  OBVIOUS
<1>3. n \div 256 \in 0 .. 255
  OBVIOUS
<1> QED
  BY <1>1, <1>2, <1>3 DEF Byte

LEMMA BytesFacts ==
  ASSUME NEW record \in Record, Len(record.payload) < 256 * 256
  PROVE  /\ Bytes(record) \in Seq(Byte)
         /\ Len(record.payload) \in Nat
         /\ Len(Bytes(record)) = 5 + Len(record.payload)
         /\ Bytes(record)[1] = record.type
         /\ RecordLength(Bytes(record)) = Len(record.payload)
         /\ \A i \in 1 .. Len(record.payload) : Bytes(record)[5 + i] = record.payload[i]
<1>1. PICK p \in Seq(Byte) : p = record.payload
  BY DEF Record
<1>2. PICK n \in Nat : n = Len(p) /\ n < 256 * 256
  BY <1>1
<1>3. PICK q \in Byte, r \in Byte : q = n \div 256 /\ r = n % 256 /\ 256 * q + r = n
  BY <1>2, TwoBytes
<1>4. PICK type \in Byte, major \in Byte, minor \in Byte :
        type = record.type /\ major = 3 /\ minor = 1
  <2>1. 3 \in Byte /\ 1 \in Byte
    BY DEF Byte
  <2>2. record.type \in Byte
    BY DEF Record
  <2> QED
    BY <2>1, <2>2
<1>5. PICK h \in Seq(Byte) :
        /\ h = <<type, major, minor, q, r>> /\ Len(h) = 5
        /\ h[1] = type /\ h[4] = q /\ h[5] = r
  <2>1. <<type, major, minor, q, r>> \in Seq(Byte)
    OBVIOUS
  <2>2. WITNESS <<type, major, minor, q, r>> \in Seq(Byte)
  <2> QED
    OBVIOUS
<1>6. Bytes(record) = h \o p
  BY <1>1, <1>2, <1>3, <1>4, <1>5 DEF Bytes
<1>7. /\ h \o p \in Seq(Byte) /\ Len(h \o p) = Len(h) + Len(p)
      /\ \A i \in 1 .. Len(h) : (h \o p)[i] = h[i]
      /\ \A i \in 1 .. Len(p) : (h \o p)[Len(h) + i] = p[i]
  BY Joined
<1>8. /\ Len(h \o p) = 5 + n
      /\ \A i \in 1 .. 5 : (h \o p)[i] = h[i]
      /\ \A i \in 1 .. n : (h \o p)[5 + i] = p[i]
  BY <1>2, <1>5, <1>7
<1>9. RecordLength(h \o p) = n /\ (h \o p)[1] = record.type
  BY <1>3, <1>4, <1>5, <1>8 DEF RecordLength
<1> QED
  BY <1>1, <1>2, <1>6, <1>7, <1>8, <1>9

(* Bytes that begin with a record are taken for that record and the rest.  *)
LEMMA FirstOf ==
  ASSUME NEW record \in Record, Len(record.payload) < 256 * 256,
         NEW s \in Seq(Byte), Begins(Bytes(record), s)
  PROVE  /\ RecordLength(s) = Len(record.payload)
         /\ FirstRecord(s) = record
         /\ 5 + RecordLength(s) <= Len(s)
         /\ \E rest \in Seq(Byte) :
              rest = After(s, 5 + RecordLength(s)) /\ s = Join(Bytes(record), rest)
<1>1. PICK p \in Seq(Byte) : p = record.payload
  BY DEF Record
<1>2. PICK b \in Seq(Byte) : b = Bytes(record)
  BY BytesFacts
<1>3. PICK n \in Nat : n = Len(p)
  OBVIOUS
<1>4. PICK k \in Nat : k = 5 + n
  OBVIOUS
<1>5. /\ Len(b) = k /\ b[1] = record.type /\ RecordLength(b) = n
      /\ \A i \in 1 .. n : b[5 + i] = p[i]
  BY <1>1, <1>2, <1>3, <1>4, BytesFacts
<1>6. record = [type |-> record.type, payload |-> p]
  BY <1>1 DEF Record
<1>7. Begins(b, s)
  BY <1>2
<1>8. Len(s) \in Nat /\ k <= Len(s) /\ \A i \in 1 .. k : b[i] = s[i]
  BY <1>5, <1>7 DEF Begins
<1>9. s[1] = b[1] /\ s[4] = b[4] /\ s[5] = b[5]
  BY <1>4, <1>8
<1>10. RecordLength(s) = n
  BY <1>5, <1>9 DEF RecordLength
<1>11. Part(s, 6, k) = p
  <2>1. PICK m \in Nat \ {0} : m = 6
    OBVIOUS
  <2>2. k <= Len(b)
    BY <1>5
  <2>3. PICK t \in Seq(Byte) :
          /\ t = Part(b, m, k) /\ t = Part(s, m, k)
          /\ Len(t) = IF m <= k THEN k - m + 1 ELSE 0
          /\ \A i \in 1 .. k - m + 1 : t[i] = b[m + i - 1]
    <3>1. /\ Part(b, m, k) = Part(s, m, k) /\ Part(b, m, k) \in Seq(Byte)
          /\ Len(Part(b, m, k)) = IF m <= k THEN k - m + 1 ELSE 0
          /\ \A i \in 1 .. k - m + 1 : Part(b, m, k)[i] = b[m + i - 1]
      BY <1>7, <2>2, BeginsPart
    <3> QED
      BY <3>1
  <2>4. Len(t) = n
    BY <1>4, <2>1, <2>3
  <2>5. ASSUME NEW i \in 1 .. n
        PROVE  t[i] = p[i]
    <3>1. i \in 1 .. k - m + 1
      BY <1>4, <2>1
    <3>2. PICK j \in Int : j = m + i - 1 /\ j = 5 + i
      BY <2>1
    <3>3. t[i] = b[j]
      BY <2>3, <3>1, <3>2
    <3>4. b[j] = p[i]
      BY <1>5, <3>2
    <3> QED
      BY <3>3, <3>4
  <2>6. t = p
    BY <1>3, <2>4, <2>5, SameBytes
  <2> QED
    BY <2>1, <2>3, <2>6
<1>12. FirstRecord(s) = record
  BY <1>4, <1>5, <1>6, <1>9, <1>10, <1>11 DEF FirstRecord, Part
<1>13. Part(s, 1, k) \o After(s, k) = s /\ After(s, k) \in Seq(Byte)
  <2>1. k \in 0 .. Len(s)
    BY <1>8
  <2> QED
    BY <2>1, Split
<1>14. Part(s, 1, k) = b
  <2>1. PICK m \in Nat \ {0} : m = 1
    OBVIOUS
  <2>2. k <= Len(b)
    BY <1>5
  <2>3. Part(b, m, k) = Part(s, m, k) /\ Part(b, m, k) \in Seq(Byte)
    BY <1>7, <2>2, BeginsPart
  <2>4. Part(b, 1, k) = b
    BY <1>5, SubSeqFull DEF Part
  <2> QED
    BY <2>1, <2>3, <2>4
<1>15. 5 + RecordLength(s) = k /\ RecordLength(s) = Len(record.payload)
  BY <1>1, <1>3, <1>4, <1>10
<1>16. PICK rest \in Seq(Byte) : rest = After(s, k)
  BY <1>13
<1>17. After(s, 5 + RecordLength(s)) = rest
  BY <1>15, <1>16
<1>18. s = Join(Bytes(record), rest)
  BY <1>2, <1>13, <1>14, <1>16 DEF Join
<1> QED
  BY <1>8, <1>12, <1>15, <1>17, <1>18
-------------------------------------------------------------------------------
(* What a state that satisfies TypeOK holds *)

LEMMA Regroup ==
  ASSUME NEW s \in Seq(Byte), NEW t \in Seq(Byte), NEW u \in Seq(Byte)
  PROVE  Join(Join(s, t), u) = Join(s, Join(t, u))
BY ConcatAssociative DEF Join

LEMMA JoinedIn ==
  ASSUME NEW s \in Seq(Byte), NEW t \in Seq(Byte)
  PROVE  s \o t \in Seq(Byte)
BY ConcatProperties

LEMMA Longer ==
  ASSUME NEW s \in Seq(Byte), NEW t \in Seq(Byte), NEW u \in Seq(Byte),
         NEW w \in Seq(Byte), Join(s, t) = w
  PROVE  Join(s, Join(t, u)) = Join(w, u)
BY Regroup

LEMMA BeginsItself ==
  ASSUME NEW s \in Seq(Byte)
  PROVE  Begins(s, s)
BY DEF Begins

LEMMA AnnouncedFacts ==
  ASSUME NEW s \in Seq(Byte), Len(s) >= 4
  PROVE  Announced(s) \in Nat /\ Announced(s) < 256 * 256 * 256 /\ s[1] \in Byte
<1>1. s[1] \in Byte /\ s[2] \in Byte /\ s[3] \in Byte /\ s[4] \in Byte
  OBVIOUS
<1>2. /\ s[2] \in Int /\ 0 <= s[2] /\ s[2] <= 255
      /\ s[3] \in Int /\ 0 <= s[3] /\ s[3] <= 255
      /\ s[4] \in Int /\ 0 <= s[4] /\ s[4] <= 255
  <2>1. \A b \in Byte : b \in Int /\ 0 <= b /\ b <= 255
    BY DEF Byte
  <2> QED
    BY <1>1, <2>1
<1>3. PICK x \in Nat, y \in Nat, z \in Nat :
        /\ x = s[2] /\ y = s[3] /\ z = s[4]
        /\ x <= 255 /\ y <= 255 /\ z <= 255
  BY <1>2
<1>4. PICK w \in Nat : w = 256 * 256 /\ 256 * 256 * 256 = 256 * w
  OBVIOUS
<1>5. PICK v \in Nat : v = 256 * x + y
  BY <1>3
<1>6. v < w
  BY <1>3, <1>4, <1>5
<1>7. 256 * v + z \in Nat /\ 256 * v + z < 256 * w
  BY <1>3, <1>6
<1>8. Announced(s) = 256 * v + z
  BY <1>3, <1>5 DEF Announced
<1> QED
  BY <1>1, <1>4, <1>7, <1>8

(* The head of a message says the same when more of it has come.           *)
LEMMA BeginsHead ==
  ASSUME NEW s \in Seq(Byte), NEW t \in Seq(Byte), Begins(s, t), Len(s) >= 4
  PROVE  Len(t) >= 4 /\ t[1] = s[1] /\ Announced(t) = Announced(s)
<1>1. Len(s) \in Nat /\ Len(t) \in Nat /\ Len(s) <= Len(t)
  BY DEF Begins
<1>2. t[1] = s[1] /\ t[2] = s[2] /\ t[3] = s[3] /\ t[4] = s[4]
  BY <1>1 DEF Begins
<1> QED
  BY <1>1, <1>2 DEF Announced

LEMMA StreamFacts ==
  ASSUME TypeOK, NEW i \in 1 .. Len(stream)
  PROVE  /\ stream[i] \in Record /\ Len(stream[i].payload) < 256 * 256
         /\ stream[i].payload \in Seq(Byte) /\ Bytes(stream[i]) \in Seq(Byte)
<1>1. stream \in Seq(Record) /\ \A j \in DOMAIN stream : Len(stream[j].payload) < 256 * 256
  BY StreamsAssumption DEF TypeOK
<1>2. i \in DOMAIN stream
  BY <1>1
<1>3. stream[i] \in Record /\ Len(stream[i].payload) < 256 * 256
  BY <1>1, <1>2
<1>4. stream[i].payload \in Seq(Byte)
  BY <1>3 DEF Record
<1>5. Bytes(stream[i]) \in Seq(Byte)
  BY <1>3, BytesFacts
<1> QED
  BY <1>3, <1>4, <1>5

LEMMA SaidFacts ==
  ASSUME TypeOK
  PROVE  /\ Len(stream) \in Nat /\ Len(said) \in Nat /\ Len(said) >= 1
         /\ Len(said) <= Len(stream) + 1 /\ DOMAIN said = 1 .. Len(said)
         /\ \A i \in 1 .. Len(said) :
              said[i].bytes \in Seq(Byte) /\ said[i].payloads \in Seq(Byte)
         /\ Sent.bytes \in Seq(Byte) /\ Sent.payloads \in Seq(Byte)
<1>1. Len(stream) \in Nat
  BY StreamsAssumption DEF TypeOK
<1>2. /\ said \in Seq(Prefix)
      /\ Len(said) \in 1 .. Len(stream) + 1
  BY DEF TypeOK
<1>3. Len(said) \in Nat /\ DOMAIN said = 1 .. Len(said)
  BY <1>2
<1>4. \A i \in 1 .. Len(said) :
        said[i].bytes \in Seq(Byte) /\ said[i].payloads \in Seq(Byte)
  <2>1. \A i \in 1 .. Len(said) : said[i] \in Prefix
    BY <1>2
  <2> QED
    BY <2>1 DEF Prefix
<1>5. Len(said) \in 1 .. Len(said)
  BY <1>1, <1>2, <1>3
<1>6. Sent.bytes \in Seq(Byte) /\ Sent.payloads \in Seq(Byte)
  BY <1>4, <1>5 DEF Sent
<1> QED
  BY <1>1, <1>2, <1>3, <1>4, <1>6

-------------------------------------------------------------------------------
(* Each action keeps the invariant *)

LEMMA SendKeeps ==
  ASSUME IInv, Send
  PROVE  IInv'
<1>1. TypeOK /\ SaidInv /\ ReaderInv /\ AcceptedInv /\ PlayedBack /\ WaitsForNothing
  BY DEF IInv
<1>2. PICK n \in Nat : n = Len(said) /\ n >= 1 /\ n <= Len(stream)
  BY <1>1, SaidFacts DEF Send
<1>3. PICK b \in Seq(Byte) : b = Bytes(stream[n])
  BY <1>1, <1>2, SaidFacts, StreamFacts
<1>4. PICK p \in Seq(Byte) : p = stream[n].payload
  BY <1>1, <1>2, SaidFacts, StreamFacts
<1>5. PICK sb \in Seq(Byte), sp \in Seq(Byte) : sb = Sent.bytes /\ sp = Sent.payloads
  BY <1>1, SaidFacts
<1>6. PICK last \in Prefix : last = [bytes |-> sb \o b, payloads |-> sp \o p]
  BY JoinedIn DEF Prefix
<1>7. /\ last.bytes = sb \o b /\ last.payloads = sp \o p
      /\ last.bytes \in Seq(Byte) /\ last.payloads \in Seq(Byte)
  BY <1>6 DEF Prefix
<1>8. /\ said' = Append(said, last) /\ conn' = conn \o b /\ status # "refused"
      /\ UNCHANGED <<stream, raw, handshake, expected, status, hello, buf, delivered>>
  BY <1>2, <1>3, <1>4, <1>5, <1>6 DEF Send, readerVars
<1>9. /\ said' \in Seq(Prefix) /\ Len(said') = n + 1 /\ said'[n + 1] = last
      /\ \A i \in 1 .. n : said'[i] = said[i]
      /\ DOMAIN said = 1 .. n /\ DOMAIN said' = 1 .. n + 1
  <2>1. said \in Seq(Prefix)
    BY <1>1 DEF TypeOK
  <2> QED
    BY <1>2, <1>8, <2>1, AppendProperties
<1>10. Sent' = last /\ said[n] = Sent
  BY <1>2, <1>9 DEF Sent
<1>11. SaidInv'
  <2>1. said'[1] = Nothing
    BY <1>1, <1>2, <1>9 DEF SaidInv
  <2>2. ASSUME NEW i \in 1 .. n
        PROVE  /\ said'[i + 1].bytes = said'[i].bytes \o Bytes(stream[i])
               /\ said'[i + 1].payloads = said'[i].payloads \o stream[i].payload
    <3>1. CASE i = n
      BY <1>3, <1>4, <1>5, <1>7, <1>9, <1>10, <3>1
    <3>2. CASE i # n
      <4>1. i \in 1 .. n - 1 /\ i + 1 \in 1 .. n
        BY <1>2, <3>2
      <4>2. /\ said[i + 1].bytes = said[i].bytes \o Bytes(stream[i])
            /\ said[i + 1].payloads = said[i].payloads \o stream[i].payload
        BY <1>1, <1>2, <4>1 DEF SaidInv
      <4>3. said'[i + 1] = said[i + 1] /\ said'[i] = said[i]
        BY <1>9, <4>1
      <4> QED
        BY <4>2, <4>3
    <3> QED
      BY <3>1, <3>2
  <2>3. ASSUME NEW i \in 1 .. n + 1
        PROVE  /\ Begins(said'[i].bytes, last.bytes)
               /\ Begins(said'[i].payloads, last.payloads)
    <3>1. CASE i = n + 1
      BY <1>7, <1>9, <3>1, BeginsItself
    <3>2. CASE i # n + 1
      <4>1. i \in 1 .. n
        BY <1>2, <3>2
      <4>2. PICK x \in Seq(Byte), y \in Seq(Byte) : x = said[i].bytes /\ y = said[i].payloads
        BY <1>1, <1>2, <4>1, SaidFacts
      <4>3. Begins(x, sb) /\ Begins(y, sp)
        BY <1>1, <1>5, <1>9, <4>1, <4>2 DEF SaidInv
      <4>4. Begins(x, sb \o b) /\ Begins(y, sp \o p)
        BY <4>3, BeginsLonger
      <4> QED
        BY <1>7, <1>9, <4>1, <4>2, <4>4
    <3> QED
      BY <3>1, <3>2
  <2>4. (n + 1) - 1 = n
    BY <1>2
  <2> QED
    BY <1>8, <1>9, <1>10, <2>1, <2>2, <2>3, <2>4 DEF SaidInv
<1>12. PICK c \in Seq(Byte), r \in Seq(Byte), u \in Seq(Byte), d \in Seq(Byte) :
         c = conn /\ r = raw /\ u = buf /\ d = delivered
  BY <1>1 DEF TypeOK
<1>13. conn' \in Seq(Byte)
  BY <1>8, <1>12, JoinedIn
<1>14. ReadOrLeft'
  <2>1. SUFFICES ASSUME status = "reading"
                 PROVE  raw' \o conn' = Sent'.bytes
    BY <1>8 DEF ReadOrLeft
  <2>2. Join(r, c) = sb
    BY <1>1, <1>5, <1>12, <2>1 DEF TypeOK, ReadOrLeft, Join
  <2>3. Join(r, Join(c, b)) = Join(sb, b)
    BY <2>2, Longer
  <2> QED
    BY <1>7, <1>8, <1>10, <1>12, <2>3 DEF Join
<1>15. TypeOK'
  <2>1. Len(said') \in 1 .. Len(stream') + 1
    BY <1>1, <1>2, <1>8, <1>9, SaidFacts
  <2>2. {conn', raw', handshake', hello', buf', delivered'} \subseteq Seq(Byte)
    BY <1>1, <1>8, <1>13 DEF TypeOK
  <2>3. /\ stream' \in Streams /\ said' \in Seq(Prefix)
        /\ expected' \in Int /\ -1 <= expected' /\ expected' < 256 * 256 * 256
        /\ status' \in {"reading", "accepted", "refused"}
    BY <1>1, <1>8, <1>9 DEF TypeOK
  <2> QED
    BY <1>14, <2>1, <2>2, <2>3 DEF TypeOK
<1>16. PlayedBack'
  <2>1. SUFFICES ASSUME status = "accepted"
                 PROVE  (delivered' \o buf') \o conn' = Sent'.bytes
    BY <1>8 DEF PlayedBack
  <2>2. PICK e \in Seq(Byte) : e = d \o u
    BY JoinedIn
  <2>3. Join(e, c) = sb
    BY <1>1, <1>5, <1>12, <2>1, <2>2 DEF PlayedBack, Join
  <2>4. Join(e, Join(c, b)) = Join(sb, b)
    BY <2>3, Longer
  <2> QED
    BY <1>7, <1>8, <1>10, <1>12, <2>2, <2>4 DEF Join
<1>17. ReaderInv'
  <2>1. PICK i \in 1 .. n : raw = said[i].bytes /\ handshake = said[i].payloads
    BY <1>1, <1>8, <1>9 DEF ReaderInv
  <2>2. i \in DOMAIN said' /\ raw' = said'[i].bytes /\ handshake' = said'[i].payloads
    BY <1>2, <1>8, <1>9, <2>1
  <2>3. \E j \in DOMAIN said' : raw' = said'[j].bytes /\ handshake' = said'[j].payloads
    BY <2>2
  <2>4. /\ expected = IF Len(handshake) >= 4 THEN Announced(handshake) ELSE -1
        /\ Len(handshake) >= 4 => handshake[1] = ClientHelloType
        /\ status = "reading" => delivered = <<>>
    BY <1>1, <1>8 DEF ReaderInv
  <2>5. /\ expected' = IF Len(handshake') >= 4 THEN Announced(handshake') ELSE -1
        /\ Len(handshake') >= 4 => handshake'[1] = ClientHelloType
        /\ status' = "reading" => delivered' = <<>>
    BY <1>8, <2>4 DEF Announced
  <2> QED
    BY <2>3, <2>5 DEF ReaderInv
<1>18. AcceptedInv' /\ WaitsForNothing'
  BY <1>1, <1>8 DEF AcceptedInv, WaitsForNothing, Announced, Message
<1> QED
  BY <1>11, <1>15, <1>16, <1>17, <1>18 DEF IInv

(* What no step of the server changes.                                     *)
LEMMA SaidStays ==
  ASSUME SaidInv, UNCHANGED <<stream, said>>
  PROVE  SaidInv' /\ Sent' = Sent
<1>1. Sent' = Sent
  BY DEF Sent
<1> QED
  BY <1>1 DEF SaidInv

LEMMA ReadRecordKeeps ==
  ASSUME IInv, ReadRecord
  PROVE  IInv'
<1>1. TypeOK /\ SaidInv /\ ReaderInv /\ AcceptedInv /\ PlayedBack /\ WaitsForNothing
  BY DEF IInv
<1>2. /\ status = "reading" /\ delivered = <<>> /\ Len(conn) >= 5
      /\ UNCHANGED <<stream, said, delivered>>
  BY <1>1 DEF ReadRecord, ReaderInv
<1>3. SaidInv' /\ Sent' = Sent
  BY <1>1, <1>2, SaidStays
<1>4. PICK r \in Seq(Byte), h \in Seq(Byte), c \in Seq(Byte),
           sb \in Seq(Byte), sp \in Seq(Byte) :
        r = raw /\ h = handshake /\ c = conn /\ sb = Sent.bytes /\ sp = Sent.payloads
  BY <1>1, SaidFacts DEF TypeOK
<1>5. PICK n \in Nat : n = Len(said) /\ n >= 1 /\ n <= Len(stream) + 1 /\ DOMAIN said = 1 .. n
  BY <1>1, SaidFacts
<1>6. PICK i \in 1 .. n : r = said[i].bytes /\ h = said[i].payloads
  BY <1>1, <1>2, <1>4, <1>5 DEF ReaderInv
<1>7. Join(r, c) = sb
  BY <1>1, <1>2, <1>4 DEF TypeOK, ReadOrLeft, Join
<1>8. i # n
  <2>1. SUFFICES ASSUME i = n
                 PROVE  FALSE
    OBVIOUS
  <2>2. r = sb
    BY <1>4, <1>5, <1>6, <2>1 DEF Sent
  <2>3. Len(r \o c) = Len(r) + Len(c) /\ Len(r) \in Nat /\ Len(c) \in Nat
    BY Joined
  <2>4. Len(r) = Len(r) + Len(c)
    BY <1>7, <2>2, <2>3 DEF Join
  <2> QED
    BY <1>2, <1>4, <2>3, <2>4
<1>9. i \in 1 .. n - 1 /\ i + 1 \in 1 .. n /\ i \in 1 .. Len(stream)
  BY <1>1, <1>5, <1>8, SaidFacts
<1>10. PICK record \in Record : record = stream[i] /\ Len(record.payload) < 256 * 256
  BY <1>1, <1>9, StreamFacts
<1>11. PICK b \in Seq(Byte), p \in Seq(Byte) : b = Bytes(record) /\ p = record.payload
  BY <1>1, <1>9, <1>10, StreamFacts
<1>12. PICK r2 \in Seq(Byte), h2 \in Seq(Byte) :
         r2 = said[i + 1].bytes /\ h2 = said[i + 1].payloads
  BY <1>1, <1>5, <1>9, SaidFacts
<1>13. r2 = Join(r, b) /\ h2 = Join(h, p) /\ Begins(r2, sb) /\ Begins(h2, sp)
  <2>1. /\ said[i + 1].bytes = said[i].bytes \o Bytes(stream[i])
        /\ said[i + 1].payloads = said[i].payloads \o stream[i].payload
        /\ Begins(said[i + 1].bytes, Sent.bytes)
        /\ Begins(said[i + 1].payloads, Sent.payloads)
    BY <1>1, <1>5, <1>9 DEF SaidInv
  <2>2. r2 = Join(r, b) /\ h2 = Join(h, p)
    BY <1>6, <1>10, <1>11, <1>12, <2>1 DEF Join
  <2> QED
    BY <1>4, <1>12, <2>1, <2>2
<1>14. Begins(b, c)
  <2>1. Begins(r \o b, r \o c)
    BY <1>7, <1>13 DEF Join
  <2> QED
    BY <2>1, BeginsRest
<1>15. PICK rest \in Seq(Byte) :
         rest = After(c, 5 + RecordLength(c)) /\ c = Join(b, rest) /\ FirstRecord(c) = record
  BY <1>10, <1>11, <1>14, FirstOf
<1>16. Join(r2, rest) = sb
  <2>1. Join(Join(r, b), rest) = Join(r, Join(b, rest))
    BY Regroup
  <2> QED
    BY <1>7, <1>13, <1>15, <2>1
<1>17. conn' = rest /\ raw' = r2
  <2>1. conn' = After(conn, 5 + RecordLength(conn))
    BY DEF ReadRecord
  <2>2. raw' = raw \o Taken(FirstRecord(conn))
    BY DEF ReadRecord
  <2>3. Taken(FirstRecord(conn)) = b
    BY <1>4, <1>11, <1>15 DEF Taken
  <2> QED
    BY <1>4, <1>13, <1>15, <2>1, <2>2, <2>3 DEF Join
<1>18. h2 = handshake \o FirstRecord(conn).payload
  BY <1>4, <1>11, <1>13, <1>15 DEF Join
<1>19. PICK wrong \in BOOLEAN, refused \in BOOLEAN :
         /\ wrong = (expected = -1 /\ Len(h2) >= 4 /\ h2[1] # ClientHelloType)
         /\ refused = (record.payload = <<>> \/ record.type # Handshake \/ wrong)
  OBVIOUS
<1>20. Len(h2) \in Nat /\ Len(h) \in Nat
  OBVIOUS
<1>21. ~refused =>
         /\ MessageLength(h2) = IF Len(h2) >= 4 THEN Announced(h2) ELSE -1
         /\ Len(h2) >= 4 => h2[1] = ClientHelloType
  <2>1. Begins(h, h2)
    <3>1. Begins(h, h \o p)
      BY BeginsItself, BeginsLonger
    <3> QED
      BY <1>13, <3>1 DEF Join
  <2>2. expected = IF Len(h) >= 4 THEN Announced(h) ELSE -1
    BY <1>1, <1>2, <1>4 DEF ReaderInv
  <2>3. CASE Len(h) >= 4
    <3>1. Len(h2) >= 4 /\ h2[1] = h[1] /\ Announced(h2) = Announced(h)
      BY <2>1, <2>3, BeginsHead
    <3>2. Announced(h) \in Nat /\ h[1] = ClientHelloType
      BY <1>1, <1>2, <1>4, <2>3, AnnouncedFacts DEF ReaderInv
    <3> QED
      BY <2>2, <2>3, <3>1, <3>2 DEF MessageLength
  <2>4. CASE ~(Len(h) >= 4)
    <3>1. expected = -1
      BY <2>2, <2>4
    <3>2. ~refused => ~(Len(h2) >= 4 /\ h2[1] # ClientHelloType)
      BY <1>19, <3>1, Zenon
    <3>3. MessageLength(h2) = IF Len(h2) >= 4 THEN Announced(h2) ELSE -1
      BY <3>1 DEF MessageLength
    <3> QED
      BY <3>2, <3>3
  <2> QED
    BY <2>3, <2>4
<1>22. \/ /\ refused /\ Refuse /\ UNCHANGED <<handshake, expected>>
       \/ /\ ~refused /\ handshake' = h2 /\ expected' = MessageLength(h2)
          /\ \/ /\ MessageLength(h2) # -1 /\ Len(h2) >= 4 + MessageLength(h2)
                /\ Accept(raw', h2, MessageLength(h2)) \/ Refuse
             \/ /\ MessageLength(h2) = -1 \/ Len(h2) < 4 + MessageLength(h2)
                /\ UNCHANGED <<status, hello, buf>>
  <2>1. FirstRecord(conn) = record
    BY <1>4, <1>15
  <2>2. handshake \o record.payload = h2
    BY <1>18, <2>1
  <2>3. \/ /\ refused /\ Refuse /\ UNCHANGED <<handshake, expected>>
        \/ /\ ~refused /\ handshake' = h2 /\ expected' = MessageLength(h2)
           /\ \/ /\ MessageLength(h2) # -1 /\ Len(h2) >= 4 + MessageLength(h2)
                 /\ \/ MessageLength(h2) >= MinHello /\ Accept(raw', h2, MessageLength(h2))
                    \/ MessageLength(h2) < MinHello /\ Refuse
              \/ /\ MessageLength(h2) = -1 \/ Len(h2) < 4 + MessageLength(h2)
                 /\ UNCHANGED <<status, hello, buf>>
    BY <1>19, <2>1, <2>2, Zenon DEF ReadRecord
  <2> QED
    BY <2>3, Zenon
<1>23. {conn', raw', handshake', hello, buf, delivered'} \subseteq Seq(Byte)
  <2>1. handshake' = handshake \/ handshake' = h2
    BY <1>22
  <2> QED
    BY <1>1, <1>2, <1>17, <2>1 DEF TypeOK
<1>24. stream' \in Streams /\ said' \in Seq(Prefix) /\ Len(said') \in 1 .. Len(stream') + 1
  BY <1>1, <1>2 DEF TypeOK
<1>25. ~refused =>
         /\ MessageLength(h2) \in Int /\ -1 <= MessageLength(h2)
         /\ MessageLength(h2) < 256 * 256 * 256
         /\ MessageLength(h2) = -1 <=> Len(h2) < 4
  <2>1. Len(h2) >= 4 => Announced(h2) \in Nat /\ Announced(h2) < 256 * 256 * 256
    BY AnnouncedFacts
  <2>2. ASSUME ~refused, Len(h2) >= 4
        PROVE  MessageLength(h2) = Announced(h2)
    BY <1>21, <2>2
  <2>3. ASSUME ~refused, ~(Len(h2) >= 4)
        PROVE  MessageLength(h2) = -1
    BY <1>21, <2>3
  <2>4. CASE Len(h2) >= 4
    <3>1. ~(Len(h2) < 4)
      BY <1>20, <2>4
    <3> QED
      BY <2>1, <2>2, <2>4, <3>1
  <2>5. CASE ~(Len(h2) >= 4)
    <3>1. Len(h2) < 4
      BY <1>20, <2>5
    <3> QED
      BY <2>3, <2>5, <3>1
  <2> QED
    BY <2>4, <2>5
<1>26. expected' \in Int /\ -1 <= expected' /\ expected' < 256 * 256 * 256
  <2>1. expected' = expected \/ (~refused /\ expected' = MessageLength(h2))
    BY <1>22
  <2>2. expected \in Int /\ -1 <= expected /\ expected < 256 * 256 * 256
    BY <1>1 DEF TypeOK
  <2> QED
    BY <1>25, <2>1, <2>2
<1>27. i + 1 \in DOMAIN said' /\ raw' = said'[i + 1].bytes /\ h2 = said'[i + 1].payloads
  BY <1>2, <1>5, <1>9, <1>12, <1>17
<1>28. Join(r2, rest) = Sent'.bytes
  BY <1>3, <1>4, <1>16
<1>29. CASE Refuse
  <2>1. status' = "refused" /\ hello' = hello /\ buf' = buf
    BY <1>29 DEF Refuse
  <2>2. ReadOrLeft'
    BY <2>1 DEF ReadOrLeft
  <2>3. TypeOK'
    BY <1>23, <1>24, <1>26, <2>1, <2>2 DEF TypeOK
  <2> QED
    BY <1>3, <2>1, <2>3 DEF IInv, ReaderInv, AcceptedInv, PlayedBack, WaitsForNothing
<1>30. CASE /\ ~refused /\ handshake' = h2 /\ expected' = MessageLength(h2)
            /\ MessageLength(h2) # -1 /\ Len(h2) >= 4 + MessageLength(h2)
            /\ Accept(raw', h2, MessageLength(h2))
  <2>1. /\ status' = "accepted" /\ buf' = r2 /\ Len(h2) >= 4
        /\ hello' = Message(h2, Announced(h2)) /\ expected' = Announced(h2)
        /\ h2[1] = ClientHelloType /\ Len(h2) >= 4 + Announced(h2)
        /\ Announced(h2) \in Nat
    <3>1. Len(h2) >= 4
      BY <1>20, <1>25, <1>30
    <3>2. MessageLength(h2) = Announced(h2) /\ h2[1] = ClientHelloType
      BY <1>21, <1>30, <3>1
    <3>3. Announced(h2) \in Nat
      BY <3>1, AnnouncedFacts
    <3> QED
      BY <1>17, <1>30, <3>1, <3>2, <3>3 DEF Accept
  <2>2. hello' \in Seq(Byte)
    <3>1. PICK e \in Nat : e = 4 + Announced(h2)
      BY <2>1
    <3>2. PICK m \in Nat \ {0} : m = 5
      OBVIOUS
    <3>3. e <= Len(h2)
      BY <1>20, <2>1, <3>1
    <3>4. Part(h2, m, e) \in Seq(Byte)
      BY <3>3, BeginsItself, BeginsPart
    <3> QED
      BY <2>1, <3>1, <3>2, <3>4 DEF Message, Part
  <2>3. ReadOrLeft'
    BY <2>1 DEF ReadOrLeft
  <2>4. {conn', raw', handshake', hello', buf', delivered'} \subseteq Seq(Byte)
    BY <1>23, <2>1, <2>2
  <2>5. TypeOK'
    BY <1>24, <1>26, <2>1, <2>3, <2>4 DEF TypeOK
  <2>6. ReaderInv' /\ AcceptedInv'
    BY <1>27, <1>30, <2>1 DEF ReaderInv, AcceptedInv
  <2>7. PlayedBack'
    <3>1. delivered' \o buf' = r2
      BY <1>2, <2>1, ConcatEmptySeq
    <3> QED
      BY <1>17, <1>28, <3>1 DEF PlayedBack, Join
  <2>8. WaitsForNothing'
    BY <2>1 DEF WaitsForNothing
  <2> QED
    BY <1>3, <2>5, <2>6, <2>7, <2>8 DEF IInv
<1>31. CASE /\ ~refused /\ handshake' = h2 /\ expected' = MessageLength(h2)
            /\ MessageLength(h2) = -1 \/ Len(h2) < 4 + MessageLength(h2)
            /\ UNCHANGED <<status, hello, buf>>
  <2>1. /\ status' = "reading" /\ hello' = hello /\ buf' = buf
        /\ expected' = IF Len(h2) >= 4 THEN Announced(h2) ELSE -1
        /\ Len(h2) >= 4 => h2[1] = ClientHelloType
        /\ Len(h2) >= 4 => Len(h2) < 4 + Announced(h2)
    <3>1. /\ status' = "reading" /\ hello' = hello /\ buf' = buf
      BY <1>2, <1>31
    <3>2. /\ MessageLength(h2) = IF Len(h2) >= 4 THEN Announced(h2) ELSE -1
          /\ Len(h2) >= 4 => h2[1] = ClientHelloType
      BY <1>21, <1>31
    <3>3. ASSUME Len(h2) >= 4
          PROVE  Len(h2) < 4 + Announced(h2)
      BY <1>20, <1>25, <1>31, <3>2, <3>3
    <3> QED
      BY <1>31, <3>1, <3>2, <3>3
  <2>2. ReadOrLeft'
    BY <1>17, <1>28, <2>1 DEF ReadOrLeft, Join
  <2>3. TypeOK'
    BY <1>23, <1>24, <1>26, <2>1, <2>2 DEF TypeOK
  <2>4. ReaderInv'
    BY <1>2, <1>27, <1>31, <2>1 DEF ReaderInv
  <2>5. AcceptedInv' /\ PlayedBack' /\ WaitsForNothing'
    BY <1>31, <2>1 DEF AcceptedInv, PlayedBack, WaitsForNothing
  <2> QED
    BY <1>3, <2>3, <2>4, <2>5 DEF IInv
<1> QED
  BY <1>22, <1>29, <1>30, <1>31

LEMMA ReadFailsKeeps ==
  ASSUME IInv, ReadFails
  PROVE  IInv'
<1>1. TypeOK /\ SaidInv
  BY DEF IInv
<1>2. /\ status' = "refused"
      /\ UNCHANGED <<stream, said, conn, raw, handshake, expected, hello, buf, delivered>>
  BY DEF ReadFails, Refuse, readerVars
<1>3. SaidInv'
  BY <1>1, <1>2, SaidStays
<1>4. TypeOK'
  BY <1>1, <1>2 DEF TypeOK, ReadOrLeft
<1> QED
  BY <1>2, <1>3, <1>4 DEF IInv, ReaderInv, AcceptedInv, PlayedBack, WaitsForNothing

LEMMA ReadKeeps ==
  ASSUME IInv, NEW n \in 1 .. MaxRead, Read(n)
  PROVE  IInv'
<1>1. TypeOK /\ SaidInv /\ ReaderInv /\ AcceptedInv /\ PlayedBack
  BY DEF IInv
<1>2. /\ status = "accepted"
      /\ UNCHANGED <<stream, said, raw, handshake, expected, status, hello>>
  BY DEF Read, readerVars
<1>3. SaidInv' /\ Sent' = Sent
  BY <1>1, <1>2, SaidStays
<1>4. PICK c \in Seq(Byte), u \in Seq(Byte), d \in Seq(Byte), sb \in Seq(Byte) :
        c = conn /\ u = buf /\ d = delivered /\ sb = Sent.bytes
  BY <1>1, SaidFacts DEF TypeOK
<1>5. Join(Join(d, u), c) = sb
  BY <1>1, <1>2, <1>4 DEF PlayedBack, Join
<1>6. \E c2 \in Seq(Byte), u2 \in Seq(Byte), d2 \in Seq(Byte) :
        c2 = conn' /\ u2 = buf' /\ d2 = delivered' /\ Join(Join(d2, u2), c2) = sb
  <2>1. CASE buf # <<>>
    <3>1. PICK k \in 0 .. Len(u) : /\ delivered' = d \o SubSeq(u, 1, k)
                                   /\ buf' = After(u, k) /\ conn' = c
      <4> DEFINE m == IF n < Len(buf) THEN n ELSE Len(buf)
      <4>1. m \in 0 .. Len(u)
        BY <1>4, LimitsAssumption
      <4>2. delivered' = delivered \o SubSeq(buf, 1, m) /\ buf' = After(buf, m) /\ conn' = conn
        BY <2>1, Zenon DEF Read
      <4> HIDE DEF m
      <4> QED
        BY <1>4, <4>1, <4>2
    <3>2. PICK x \in Seq(Byte), y \in Seq(Byte) : x = Part(u, 1, k) /\ y = After(u, k)
      BY Split
    <3>3. Join(x, y) = u
      BY <3>2, Split DEF Join
    <3>4. PICK d2 \in Seq(Byte) : d2 = Join(d, x)
      BY JoinedIn DEF Join
    <3>5. delivered' = d2
      BY <3>1, <3>2, <3>4 DEF Part, Join
    <3>6. Join(d2, y) = Join(d, u)
      BY <3>3, <3>4, Regroup
    <3> QED
      BY <1>4, <1>5, <3>1, <3>2, <3>5, <3>6
  <2>2. CASE buf = <<>>
    <3>1. /\ n \in Nat /\ n <= Len(c) /\ buf' = <<>> /\ u = <<>>
          /\ delivered' = d \o SubSeq(c, 1, n) /\ conn' = After(c, n)
      BY <1>4, <2>2, LimitsAssumption DEF Read
    <3>2. PICK k \in 0 .. Len(c) : k = n
      BY <3>1
    <3>3. PICK x \in Seq(Byte), y \in Seq(Byte) : x = Part(c, 1, k) /\ y = After(c, k)
      BY Split
    <3>4. Join(x, y) = c
      BY <3>3, Split DEF Join
    <3>5. PICK d2 \in Seq(Byte) : d2 = Join(d, x)
      BY JoinedIn DEF Join
    <3>6. delivered' = d2 /\ conn' = y
      BY <3>1, <3>2, <3>3, <3>5 DEF Part, Join
    <3>7. Join(d, u) = d /\ Join(d2, u) = d2
      BY <3>1, ConcatEmptySeq DEF Join
    <3>8. Join(d2, y) = Join(d, c)
      BY <3>4, <3>5, Regroup
    <3> QED
      BY <1>4, <1>5, <3>1, <3>6, <3>7, <3>8
  <2> QED
    BY <2>1, <2>2
<1>7. PICK c2 \in Seq(Byte), u2 \in Seq(Byte), d2 \in Seq(Byte) :
        c2 = conn' /\ u2 = buf' /\ d2 = delivered' /\ Join(Join(d2, u2), c2) = sb
  BY <1>6
<1>8. PlayedBack'
  BY <1>3, <1>4, <1>7 DEF PlayedBack, Join
<1>9. TypeOK'
  <2>1. ReadOrLeft'
    BY <1>2 DEF ReadOrLeft
  <2>2. {conn', raw', handshake', hello', buf', delivered'} \subseteq Seq(Byte)
    BY <1>1, <1>2, <1>7 DEF TypeOK
  <2> QED
    BY <1>1, <1>2, <2>1, <2>2 DEF TypeOK
<1>10. ReaderInv' /\ AcceptedInv' /\ WaitsForNothing'
  BY <1>1, <1>2 DEF ReaderInv, AcceptedInv, WaitsForNothing
<1> QED
  BY <1>3, <1>8, <1>9, <1>10 DEF IInv

LEMMA StutterKeeps ==
  ASSUME IInv, UNCHANGED vars
  PROVE  IInv'
<1>1. UNCHANGED <<stream, said, conn, raw, handshake, expected, status, hello, buf, delivered>>
  BY DEF vars, readerVars
<1>2. SaidInv' /\ Sent' = Sent
  BY <1>1, SaidStays DEF IInv
<1>3. TypeOK'
  <2>1. ReadOrLeft'
    BY <1>1, <1>2 DEF IInv, TypeOK, ReadOrLeft
  <2>2. {conn', raw', handshake', hello', buf', delivered'} \subseteq Seq(Byte)
    BY <1>1 DEF IInv, TypeOK
  <2> QED
    BY <1>1, <2>1, <2>2 DEF IInv, TypeOK
<1>4. ReaderInv' /\ AcceptedInv'
  BY <1>1 DEF IInv, ReaderInv, AcceptedInv
<1>5. PlayedBack' /\ WaitsForNothing'
  BY <1>1, <1>2 DEF IInv, PlayedBack, WaitsForNothing
<1> QED
  BY <1>2, <1>3, <1>4, <1>5 DEF IInv

LEMMA InitInv ==
  ASSUME Init
  PROVE  IInv
<1>1. /\ stream \in Streams /\ said = <<Nothing>> /\ status = "reading" /\ expected = -1
      /\ conn = <<>> /\ raw = <<>> /\ handshake = <<>> /\ hello = <<>>
      /\ buf = <<>> /\ delivered = <<>>
  BY DEF Init
<1>2. Nothing \in Prefix /\ Nothing.bytes = <<>> /\ Nothing.payloads = <<>>
  BY DEF Nothing, Prefix
<1>3. said \in Seq(Prefix) /\ Len(said) = 1 /\ said[1] = Nothing /\ DOMAIN said = {1}
  BY <1>1, <1>2
<1>4. Sent.bytes = <<>> /\ Sent.payloads = <<>>
  BY <1>2, <1>3 DEF Sent
<1>5. <<>> \in Seq(Byte) /\ Len(<<>>) = 0 /\ <<>> \o <<>> = <<>>
  OBVIOUS
<1>6. Len(stream) \in Nat
  BY <1>1, StreamsAssumption
<1>7. TypeOK
  <2>1. ReadOrLeft
    BY <1>1, <1>4, <1>5 DEF ReadOrLeft
  <2> QED
    BY <1>1, <1>3, <1>5, <1>6, <2>1 DEF TypeOK
<1>8. SaidInv
  <2>1. Begins(<<>>, <<>>)
    BY <1>5 DEF Begins
  <2>2. 1 .. Len(said) - 1 = {}
    BY <1>3
  <2> QED
    BY <1>2, <1>3, <1>4, <2>1, <2>2 DEF SaidInv
<1>9. ReaderInv
  BY <1>1, <1>2, <1>3 DEF ReaderInv
<1> QED
  BY <1>1, <1>7, <1>8, <1>9 DEF IInv, AcceptedInv, PlayedBack, WaitsForNothing

LEMMA NextKeeps ==
  ASSUME IInv, [Next]_vars
  PROVE  IInv'
BY SendKeeps, ReadRecordKeeps, ReadFailsKeeps, ReadKeeps, StutterKeeps DEF Next

-------------------------------------------------------------------------------
(* Theorems *)

(* Invariance: the inductive invariant holds in every state, for records   *)
(* of any number and length (listener.go's readClientHelloRecord and       *)
(* ObservedConn.Read).                                                     *)
THEOREM Invariance == Spec => []IInv
<1>1. Init => IInv
  BY InitInv
<1>2. IInv /\ [Next]_vars => IInv'
  BY NextKeeps
<1> QED
  BY <1>1, <1>2, PTL DEF Spec

(* TypeCorrect: every variable keeps its type, and while the server reads, *)
(* what it has and what it has not taken off the connection are what was   *)
(* sent (readClientHelloRecord).                                           *)
THEOREM TypeCorrect == Spec => []TypeOK
<1>1. IInv => TypeOK
  BY DEF IInv
<1> QED
  BY <1>1, Invariance, PTL

(* NothingLost: crypto/tls reads the bytes the client sent, in order and   *)
(* each once, however they were cut into records and whatever the size of  *)
(* its reads (NewObservedConn and ObservedConn.Read).                      *)
THEOREM NothingLost == Spec => []PlayedBack
<1>1. IInv => PlayedBack
  BY DEF IInv
<1> QED
  BY <1>1, Invariance, PTL

(* NeverWaits: the reader asks for no record once the message is whole.    *)
THEOREM NeverWaits == Spec => []WaitsForNothing
<1>1. IInv => WaitsForNothing
  BY DEF IInv
<1> QED
  BY <1>1, Invariance, PTL

LEMMA HelloFromMessage ==
  ASSUME IInv
  PROVE  HelloAsSent
<1>1. SUFFICES ASSUME status = "accepted"
               PROVE  /\ Sent.payloads[1] = ClientHelloType
                      /\ Len(Sent.payloads) >= 4 + Announced(Sent.payloads)
                      /\ hello = SubSeq(Sent.payloads, 5, 4 + Announced(Sent.payloads))
  BY DEF HelloAsSent
<1>2. TypeOK /\ SaidInv /\ ReaderInv /\ AcceptedInv
  BY DEF IInv
<1>3. PICK h \in Seq(Byte), p \in Seq(Byte) : h = handshake /\ p = Sent.payloads
  BY <1>2, SaidFacts DEF TypeOK
<1>4. Begins(h, p)
  BY <1>1, <1>2, <1>3 DEF ReaderInv, SaidInv
<1>5. /\ Len(h) >= 4 /\ Len(h) >= 4 + Announced(h) /\ h[1] = ClientHelloType
      /\ hello = SubSeq(h, 5, 4 + Announced(h))
  BY <1>1, <1>2, <1>3 DEF AcceptedInv, ReaderInv, Message
<1>6. p[1] = ClientHelloType /\ Announced(p) = Announced(h) /\ Announced(h) \in Nat
  BY <1>4, <1>5, BeginsHead, AnnouncedFacts
<1>7. Len(p) \in Nat /\ Len(h) \in Nat /\ Len(h) <= Len(p)
  BY <1>4 DEF Begins
<1>8. PICK e \in Nat, m \in Nat \ {0} : e = 4 + Announced(h) /\ m = 5
  BY <1>6
<1>9. e <= Len(h)
  BY <1>5, <1>7, <1>8
<1>10. Part(h, m, e) = Part(p, m, e)
  BY <1>4, <1>9, BeginsPart
<1>11. hello = SubSeq(p, 5, 4 + Announced(p))
  BY <1>5, <1>6, <1>8, <1>10 DEF Part
<1> QED
  BY <1>3, <1>5, <1>6, <1>7, <1>11

(* HelloTakenAsSent: what is fingerprinted is the client's handshake       *)
(* message, neither cut short nor with anything of what follows it,        *)
(* whatever the records it came in (readClientHelloRecord).                *)
THEOREM HelloTakenAsSent == Spec => []HelloAsSent
<1>1. IInv => HelloAsSent
  BY HelloFromMessage
<1> QED
  BY <1>1, Invariance, PTL
===============================================================================
