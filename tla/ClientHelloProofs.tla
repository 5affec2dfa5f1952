--------------------------- MODULE ClientHelloProofs ---------------------------
(***************************************************************************)
(* Machine-checked proofs about ClientHello, PeetWs and Sub2API, for any   *)
(* hellos that can be said at all: of any length, with any extensions in   *)
(* any number and order.                                                   *)
(*                                                                         *)
(* The argument: what arrives is a message of the client, the beginning of *)
(* one or a garbled one, and only ParseClientHello makes anything of it    *)
(* (Arrived), so that everything rests on what it makes of Encode(h).      *)
(* That is Meaning(h) (Understands): each part of the message lies where   *)
(* the lengths before it say (At), Entries finds in a list of entries the  *)
(* ones that were put there (EntriesOfBytes), and Pairs the numbers.       *)
(* The other properties compare two hellos, and hence two meanings: the    *)
(* one without its reserved values (Plain), with its lists shuffled, or    *)
(* imitated (Imitation).  That each of these can itself be said follows    *)
(* from its being no longer than the first (LessFits).                     *)
(*                                                                         *)
(* Only, Entries and FlattenSeq are recursive functions, of a length or an *)
(* offset; what they return is shown by induction on it (Induct).          *)
(***************************************************************************)
EXTENDS PeetWs, Sub2API, SequenceTheorems, FiniteSetTheorems, FunctionTheorems,
        WellFoundedInduction, TLAPS

-------------------------------------------------------------------------------
(* Induction.  A property of numbers or of sequences is given by the set   *)
(* of those that have it.                                                  *)

LEMMA Induct ==
  ASSUME NEW Z \in SUBSET Nat, 0 \in Z, \A n \in Z : n + 1 \in Z
  PROVE  Z = Nat
<1> DEFINE R == OpToRel(<, Nat)
           T == Nat \ Z
<1>1. IsWellFoundedOn(R, Nat)
  BY NatLessThanWellFounded
<1>2. \A x, y \in Nat : <<y, x>> \in R <=> y < x
  BY DEF OpToRel
<1> HIDE DEF R
<1>3. SUFFICES ASSUME T # {} PROVE FALSE
  OBVIOUS
<1>4. PICK x \in T : \A y \in T : ~(<<y, x>> \in R)
  BY <1>1, <1>3, WFMin
<1>5. x \in Nat /\ x # 0 /\ x - 1 \in Nat /\ x - 1 < x
  OBVIOUS
<1>6. x - 1 \in Z
  BY <1>2, <1>4, <1>5
<1> QED
  <2>1. (x - 1) + 1 \in Z
    BY <1>6
  <2> QED BY <1>5, <2>1

LEMMA SequenceInduct ==
  ASSUME NEW T, NEW Z \in SUBSET Seq(T), <<>> \in Z,
         \A s \in Z, x \in T : Append(s, x) \in Z
  PROVE  Z = Seq(T)
<1> DEFINE N == {n \in Nat : \A s \in Seq(T) : Len(s) = n => s \in Z}
<1>1. 0 \in N
  BY EmptySeq
<1>2. ASSUME NEW n \in N PROVE n + 1 \in N
  <2> SUFFICES ASSUME NEW s \in Seq(T), Len(s) = n + 1 PROVE s \in Z
    OBVIOUS
  <2>1. s # <<>>
    OBVIOUS
  <2>2. PICK r \in Seq(T), x \in T : s = Append(r, x)
    BY <2>1, SequenceEmptyOrAppend
  <2>3. Len(r) = n
    BY <2>2, LenProperties, AppendProperties
  <2> QED BY <2>2, <2>3
<1>3. N = Nat
  <2> HIDE DEF N
  <2> QED BY <1>1, <1>2, Induct DEF N
<1> QED
  BY <1>3, LenProperties

(* The same from the front.                                                *)
LEMMA FrontInduct ==
  ASSUME NEW T, NEW Z \in SUBSET Seq(T), <<>> \in Z,
         \A s \in Z, x \in T : <<x>> \o s \in Z
  PROVE  Z = Seq(T)
<1> DEFINE N == {n \in Nat : \A s \in Seq(T) : Len(s) = n => s \in Z}
<1>1. 0 \in N
  BY EmptySeq
<1>2. ASSUME NEW n \in N PROVE n + 1 \in N
  <2> SUFFICES ASSUME NEW s \in Seq(T), Len(s) = n + 1 PROVE s \in Z
    OBVIOUS
  <2>1. s # <<>> /\ 1 \in 1 .. Len(s) /\ Len(s) \in 1 .. Len(s)
    OBVIOUS
  <2> DEFINE r == SubSeq(s, 2, Len(s))
  <2>2. r = Tail(s) /\ r \in Seq(T) /\ Len(r) = n
    BY <2>1, TailIsSubSeq, HeadTailProperties
  <2>3. s = <<s[1]>> \o r /\ s[1] \in T
    BY <2>1, SubSeqRecursiveFirst, SubSeqFull, ElementOfSeq
  <2> QED BY <2>2, <2>3
<1>3. N = Nat
  <2> HIDE DEF N
  <2> QED BY <1>1, <1>2, Induct DEF N
<1> QED
  BY <1>3, LenProperties

(* What is computed step by step from a first value.                       *)
Computations(X, a, n, g) ==
  {f \in [0 .. n -> X] : f[0] = a /\ \A i \in 1 .. n : f[i] = g[i][f[i - 1]]}

LEMMA Iterate ==
  ASSUME NEW X, NEW a \in X, NEW n \in Nat, NEW g \in [1 .. n -> [X -> X]]
  PROVE  Computations(X, a, n, g) # {}
<1> DEFINE Runs(k) == {f \in [0 .. k -> X] :
                         f[0] = a /\ \A i \in 1 .. k : f[i] = g[i][f[i - 1]]}
           Z == {k \in Nat : k <= n => Runs(k) # {}}
<1>1. 0 \in Z
  <2>1. [i \in 0 .. 0 |-> a] \in Runs(0)
    OBVIOUS
  <2> HIDE DEF Runs
  <2> QED BY <2>1
<1>2. ASSUME NEW k \in Z PROVE k + 1 \in Z
  <2>1. ASSUME k + 1 <= n PROVE Runs(k + 1) # {}
    <3>1. PICK f \in Runs(k) : TRUE
      BY <2>1
    <3> DEFINE e == [i \in 0 .. k + 1 |-> IF i = k + 1 THEN g[k + 1][f[k]] ELSE f[i]]
    <3>2. e \in [0 .. k + 1 -> X]
      BY <2>1
    <3>3. e[0] = a /\ \A i \in 1 .. k + 1 : e[i] = g[i][e[i - 1]]
      OBVIOUS
    <3> QED BY <3>2, <3>3
  <2> HIDE DEF Runs
  <2> QED BY <2>1
<1>3. Z = Nat
  <2> HIDE DEF Z
  <2> QED BY <1>1, <1>2, Induct DEF Z
<1>4. Runs(n) # {}
  <2> HIDE DEF Runs
  <2> QED BY <1>3
<1> QED
  BY <1>4 DEF Computations

-------------------------------------------------------------------------------
(* Only and FlattenSeq, from their end                                     *)

Keeping(T, s, S) ==
  {f \in [0 .. Len(s) -> Seq(T)] :
     /\ f[0] = <<>>
     /\ \A i \in 1 .. Len(s) :
          f[i] = IF s[i] \in S THEN Append(f[i - 1], s[i]) ELSE f[i - 1]}

LEMMA OnlyIterates ==
  ASSUME NEW T, NEW s \in Seq(T), NEW S
  PROVE  \E f \in Keeping(T, s, S) : Only(s, S) = f[Len(s)]
<1> DEFINE n == Len(s)
           g == [i \in 1 .. n |-> [r \in Seq(T) |->
                   IF s[i] \in S THEN Append(r, s[i]) ELSE r]]
           Rec(f) == f = [i \in 0 .. n |->
                       IF i = 0 THEN <<>>
                       ELSE IF s[i] \in S THEN Append(f[i - 1], s[i]) ELSE f[i - 1]]
<1>1. n \in Nat /\ <<>> \in Seq(T) /\ \A i \in 1 .. n : s[i] \in T
  BY LenProperties, EmptySeq, ElementOfSeq
<1>2. g \in [1 .. n -> [Seq(T) -> Seq(T)]]
  <2>1. \A i \in 1 .. n, r \in Seq(T) : Append(r, s[i]) \in Seq(T)
    BY <1>1, AppendProperties
  <2> QED BY <2>1
<1>3. PICK e \in [0 .. n -> Seq(T)] :
        e[0] = <<>> /\ \A i \in 1 .. n : e[i] = g[i][e[i - 1]]
  <2>1. Computations(Seq(T), <<>>, n, g) # {}
    <3> HIDE DEF g, n
    <3> QED BY <1>1, <1>2, Iterate, Zenon
  <2> HIDE DEF g, n
  <2> QED BY <2>1 DEF Computations
<1>4. Rec(e)
  <2>1. \A i \in 1 .. n : i - 1 \in 0 .. n /\ e[i - 1] \in Seq(T)
    BY <1>1, <1>3
  <2>2. \A i \in 1 .. n :
          e[i] = IF s[i] \in S THEN Append(e[i - 1], s[i]) ELSE e[i - 1]
    BY <1>3, <2>1
  <2>3. \A i \in 0 .. n : i = 0 \/ i \in 1 .. n
    BY <1>1
  <2> HIDE DEF g, n
  <2> QED BY <1>3, <2>2, <2>3
<1> DEFINE kept == CHOOSE f : Rec(f)
<1>5. Rec(kept)
  <2> HIDE DEF Rec
  <2> QED BY <1>4
<1>6. Only(s, S) = kept[n]
  BY DEF Only
<1>7. kept = e
  <2> DEFINE Z == {k \in Nat : k <= n => kept[k] = e[k]}
  <2> HIDE DEF kept
  <2>1. 0 \in Z
    BY <1>1, <1>3, <1>5
  <2>2. ASSUME NEW k \in Z PROVE k + 1 \in Z
    <3>1. ASSUME k + 1 <= n PROVE kept[k + 1] = e[k + 1]
      <4>1. k + 1 \in 0 .. n /\ k + 1 # 0 /\ (k + 1) - 1 = k /\ kept[k] = e[k]
        BY <3>1, <1>1
      <4>2. kept[k + 1] = IF s[k + 1] \in S THEN Append(kept[k], s[k + 1]) ELSE kept[k]
        BY <4>1, <1>5
      <4>3. e[k + 1] = IF s[k + 1] \in S THEN Append(e[k], s[k + 1]) ELSE e[k]
        BY <4>1, <1>4
      <4> QED BY <4>1, <4>2, <4>3
    <3> QED BY <3>1
  <2>3. Z = Nat
    <3> HIDE DEF Z
    <3> QED BY <2>1, <2>2, Induct DEF Z
  <2>4. \A k \in 0 .. n : kept[k] = e[k]
    BY <1>1, <2>3
  <2>5. DOMAIN kept = 0 .. n /\ kept = [i \in 0 .. n |-> kept[i]]
    BY <1>5
  <2> HIDE DEF kept, n, Z
  <2> QED BY <1>3, <2>4, <2>5
<1>8. \A i \in 1 .. n : e[i] = IF s[i] \in S THEN Append(e[i - 1], s[i]) ELSE e[i - 1]
  <2>1. \A i \in 1 .. n : i \in 0 .. n /\ i # 0
    BY <1>1
  <2> QED BY <1>4, <2>1
<1>9. e \in Keeping(T, s, S)
  <2> HIDE DEF g, Rec
  <2> QED BY <1>3, <1>8 DEF Keeping
<1> QED
  <2> HIDE DEF kept, g, Rec
  <2> QED BY <1>6, <1>7, <1>9

LEMMA OnlyEmpty ==
  ASSUME NEW S
  PROVE  Only(<<>>, S) = <<>>
<1>1. <<>> \in Seq({}) /\ Len(<<>>) = 0
  BY EmptySeq
<1>2. PICK f \in Keeping({}, <<>>, S) : Only(<<>>, S) = f[Len(<<>>)]
  BY <1>1, OnlyIterates
<1> QED
  BY <1>1, <1>2 DEF Keeping

LEMMA OnlyAppend ==
  ASSUME NEW T, NEW s \in Seq(T), NEW x \in T, NEW S
  PROVE  Only(Append(s, x), S) = IF x \in S THEN Append(Only(s, S), x) ELSE Only(s, S)
<1> DEFINE t == Append(s, x)
           n == Len(s)
<1>1. /\ n \in Nat /\ t \in Seq(T) /\ Len(t) = n + 1 /\ t[n + 1] = x
      /\ \A i \in 1 .. n : t[i] = s[i]
  BY LenProperties, AppendProperties
<1>2. PICK e \in Keeping(T, s, S) : Only(s, S) = e[n]
  BY OnlyIterates
<1>3. PICK f \in Keeping(T, t, S) : Only(t, S) = f[n + 1]
  <2> HIDE DEF t
  <2> QED BY <1>1, OnlyIterates
<1>a. e[0] = <<>> /\ \A i \in 1 .. n :
        e[i] = IF s[i] \in S THEN Append(e[i - 1], s[i]) ELSE e[i - 1]
  BY DEF Keeping
<1>b. f[0] = <<>> /\ \A i \in 1 .. n + 1 :
        f[i] = IF t[i] \in S THEN Append(f[i - 1], t[i]) ELSE f[i - 1]
  <2> HIDE DEF t
  <2> QED BY <1>1 DEF Keeping
<1>4. f[n] = e[n]
  <2> DEFINE Z == {k \in Nat : k <= n => f[k] = e[k]}
  <2>1. 0 \in Z
    BY <1>a, <1>b
  <2>2. ASSUME NEW k \in Z PROVE k + 1 \in Z
    <3>1. ASSUME k + 1 <= n PROVE f[k + 1] = e[k + 1]
      <4>1. /\ k + 1 \in 1 .. n /\ k + 1 \in 1 .. n + 1 /\ (k + 1) - 1 = k
            /\ f[k] = e[k] /\ t[k + 1] = s[k + 1]
        BY <3>1, <1>1
      <4> HIDE DEF t
      <4> QED BY <4>1, <1>a, <1>b
    <3> QED BY <3>1
  <2>3. Z = Nat
    <3> HIDE DEF Z
    <3> QED BY <2>1, <2>2, Induct DEF Z
  <2> QED BY <1>1, <2>3
<1>5. n + 1 \in 1 .. n + 1 /\ (n + 1) - 1 = n
  BY <1>1
<1> QED
  <2> HIDE DEF t, n
  <2> QED BY <1>1, <1>2, <1>3, <1>4, <1>5, <1>b DEF t

LEMMA FlattenEmpty == FlattenSeq(<<>>) = <<>>
BY DEF FlattenSeq

Joining(T, ss) ==
  {f \in [0 .. Len(ss) -> Seq(T)] :
     f[0] = <<>> /\ \A i \in 1 .. Len(ss) : f[i] = f[i - 1] \o ss[i]}

LEMMA FlattenIterates ==
  ASSUME NEW T, NEW ss \in Seq(Seq(T))
  PROVE  \E f \in Joining(T, ss) : FlattenSeq(ss) = f[Len(ss)]
<1> DEFINE n == Len(ss)
           g == [i \in 1 .. n |-> [r \in Seq(T) |-> r \o ss[i]]]
           Rec(f) == f = [i \in 1 .. n |-> IF i = 1 THEN ss[i] ELSE f[i - 1] \o ss[i]]
<1>1. n \in Nat /\ <<>> \in Seq(T) /\ \A i \in 1 .. n : ss[i] \in Seq(T)
  BY LenProperties, EmptySeq, ElementOfSeq
<1>2. g \in [1 .. n -> [Seq(T) -> Seq(T)]]
  <2>1. \A i \in 1 .. n, r \in Seq(T) : r \o ss[i] \in Seq(T)
    BY <1>1, ConcatProperties
  <2> QED BY <2>1
<1>3. PICK e \in [0 .. n -> Seq(T)] :
        e[0] = <<>> /\ \A i \in 1 .. n : e[i] = g[i][e[i - 1]]
  <2>1. Computations(Seq(T), <<>>, n, g) # {}
    <3> HIDE DEF g, n
    <3> QED BY <1>1, <1>2, Iterate, Zenon
  <2> HIDE DEF g, n
  <2> QED BY <2>1 DEF Computations
<1>4. \A i \in 1 .. n : e[i] = e[i - 1] \o ss[i]
  <2>1. \A i \in 1 .. n : i - 1 \in 0 .. n /\ e[i - 1] \in Seq(T)
    <3> HIDE DEF g, n
    <3> QED BY <1>1, <1>3
  <2> HIDE DEF n
  <2> QED BY <1>3, <2>1
<1>a. e \in Joining(T, ss)
  <2> HIDE DEF g
  <2> QED BY <1>3, <1>4 DEF Joining
<1>5. CASE n = 0
  <2>1. ss = <<>>
    BY <1>5, EmptySeq
  <2>2. FlattenSeq(ss) = e[n]
    BY <1>3, <1>5, <2>1, FlattenEmpty
  <2> HIDE DEF g, n
  <2> QED BY <1>a, <2>2 DEF n
<1>6. CASE n # 0
  <2> DEFINE d == [i \in 1 .. n |-> e[i]]
  <2>1. 1 \in 1 .. n /\ e[1] = ss[1]
    <3>1. 1 \in 1 .. n /\ e[1] = e[0] \o ss[1]
      <4>1. 1 \in 1 .. n /\ 1 - 1 = 0
        BY <1>1, <1>6
      <4> HIDE DEF g, n
      <4> QED BY <1>4, <4>1
    <3>2. <<>> \o ss[1] = ss[1]
      BY <3>1, <1>1, ConcatEmptySeq
    <3> HIDE DEF g, n
    <3> QED BY <3>1, <3>2, <1>3
  <2>2. Rec(d)
    <3>1. \A i \in 1 .. n : i = 1 \/ (i # 1 /\ i - 1 \in 1 .. n)
      BY <1>1
    <3> HIDE DEF g, n
    <3> QED BY <2>1, <1>4, <3>1
  <2> DEFINE flat == CHOOSE f : Rec(f)
  <2>3. Rec(flat)
    <3> HIDE DEF Rec, d
    <3> QED BY <2>2
  <2>4. FlattenSeq(ss) = flat[n]
    BY <1>6 DEF FlattenSeq
  <2> HIDE DEF flat
  <2> DEFINE Z == {k \in Nat : k <= n /\ k # 0 => flat[k] = e[k]}
  <2>5. 0 \in Z
    OBVIOUS
  <2>6. ASSUME NEW k \in Z PROVE k + 1 \in Z
    <3>1. ASSUME k + 1 <= n PROVE flat[k + 1] = e[k + 1]
      <4>1. k + 1 \in 1 .. n /\ (k + 1) - 1 = k /\ (k = 0 \/ flat[k] = e[k])
        BY <3>1, <1>1
      <4>2. flat[k + 1] = IF k + 1 = 1 THEN ss[k + 1] ELSE flat[k] \o ss[k + 1]
        BY <4>1, <2>3
      <4>3. e[k + 1] = e[k] \o ss[k + 1]
        BY <4>1, <1>4
      <4>4. k + 1 = 1 <=> k = 0
        OBVIOUS
      <4> HIDE DEF g, n, flat, Rec
      <4> QED BY <4>1, <4>2, <4>3, <4>4, <2>1
    <3> QED BY <3>1
  <2>7. Z = Nat
    <3> HIDE DEF Z
    <3> QED BY <2>5, <2>6, Induct DEF Z
  <2>8. flat[n] = e[n]
    <3>1. n \in Z
      BY <1>1, <2>7
    <3> QED BY <3>1, <1>1, <1>6
  <2> HIDE DEF g, n, flat
  <2> QED BY <1>a, <2>4, <2>8 DEF n
<1> QED
  BY <1>5, <1>6

LEMMA FlattenAppend ==
  ASSUME NEW T, NEW ss \in Seq(Seq(T)), NEW b \in Seq(T)
  PROVE  FlattenSeq(Append(ss, b)) = FlattenSeq(ss) \o b
<1> DEFINE t == Append(ss, b)
           n == Len(ss)
<1>1. /\ n \in Nat /\ t \in Seq(Seq(T)) /\ Len(t) = n + 1 /\ t[n + 1] = b
      /\ \A i \in 1 .. n : t[i] = ss[i]
  BY LenProperties, AppendProperties
<1>2. PICK e \in Joining(T, ss) : FlattenSeq(ss) = e[n]
  BY FlattenIterates
<1>3. PICK f \in Joining(T, t) : FlattenSeq(t) = f[n + 1]
  <2> HIDE DEF t
  <2> QED BY <1>1, FlattenIterates
<1>a. e[0] = <<>> /\ \A i \in 1 .. n : e[i] = e[i - 1] \o ss[i]
  BY DEF Joining
<1>b. f[0] = <<>> /\ \A i \in 1 .. n + 1 : f[i] = f[i - 1] \o t[i]
  <2> HIDE DEF t
  <2> QED BY <1>1 DEF Joining
<1>4. f[n] = e[n]
  <2> DEFINE Z == {k \in Nat : k <= n => f[k] = e[k]}
  <2>1. 0 \in Z
    BY <1>a, <1>b
  <2>2. ASSUME NEW k \in Z PROVE k + 1 \in Z
    <3>1. ASSUME k + 1 <= n PROVE f[k + 1] = e[k + 1]
      <4>1. /\ k + 1 \in 1 .. n /\ k + 1 \in 1 .. n + 1 /\ (k + 1) - 1 = k
            /\ f[k] = e[k] /\ t[k + 1] = ss[k + 1]
        BY <3>1, <1>1
      <4> HIDE DEF t
      <4> QED BY <4>1, <1>a, <1>b
    <3> QED BY <3>1
  <2>3. Z = Nat
    <3> HIDE DEF Z
    <3> QED BY <2>1, <2>2, Induct DEF Z
  <2> QED BY <1>1, <2>3
<1>5. n + 1 \in 1 .. n + 1 /\ (n + 1) - 1 = n
  BY <1>1
<1> QED
  <2> HIDE DEF t, n
  <2> QED BY <1>1, <1>2, <1>3, <1>4, <1>5, <1>b DEF t

-------------------------------------------------------------------------------
(* The provers rewrite Append, \o and the empty sequence into functions,   *)
(* after which they no longer find the instances of a lemma about them.    *)
(* Under names of their own they do.                                       *)

Nil == <<>>
One(x) == <<x>>
Add(s, x) == Append(s, x)
Cat(s, t) == s \o t

LEMMA NilType ==
  ASSUME NEW T
  PROVE  Nil \in Seq(T)
BY EmptySeq DEF Nil

LEMMA NilLen == Len(Nil) = 0
BY EmptySeq DEF Nil

LEMMA OneType ==
  ASSUME NEW T, NEW x \in T
  PROVE  One(x) \in Seq(T) /\ Len(One(x)) = 1 /\ One(x)[1] = x
BY DEF One

LEMMA AddProperties ==
  ASSUME NEW T, NEW s \in Seq(T), NEW x \in T
  PROVE  /\ Add(s, x) \in Seq(T) /\ Len(Add(s, x)) = Len(s) + 1
         /\ Add(s, x)[Len(s) + 1] = x
         /\ \A i \in 1 .. Len(s) : Add(s, x)[i] = s[i]
BY AppendProperties DEF Add

LEMMA CatProperties ==
  ASSUME NEW T, NEW s \in Seq(T), NEW t \in Seq(T)
  PROVE  /\ Cat(s, t) \in Seq(T) /\ Len(Cat(s, t)) = Len(s) + Len(t)
         /\ \A i \in 1 .. Len(s) + Len(t) :
              Cat(s, t)[i] = IF i <= Len(s) THEN s[i] ELSE t[i - Len(s)]
BY ConcatProperties DEF Cat

LEMMA CatNil ==
  ASSUME NEW T, NEW s \in Seq(T)
  PROVE  Cat(s, Nil) = s /\ Cat(Nil, s) = s
BY ConcatEmptySeq DEF Cat, Nil

LEMMA CatAssociative ==
  ASSUME NEW T, NEW s \in Seq(T), NEW t \in Seq(T), NEW u \in Seq(T)
  PROVE  Cat(Cat(s, t), u) = Cat(s, Cat(t, u))
BY ConcatAssociative DEF Cat

LEMMA AddIsCat ==
  ASSUME NEW T, NEW s \in Seq(T), NEW x \in T
  PROVE  Add(s, x) = Cat(s, One(x))
BY AppendIsConcat DEF Add, Cat, One

LEMMA AddNil ==
  ASSUME NEW x
  PROVE  Add(Nil, x) = One(x)
BY DEF Add, Nil, One

LEMMA CatAdd ==
  ASSUME NEW T, NEW s \in Seq(T), NEW t \in Seq(T), NEW x \in T
  PROVE  Cat(s, Add(t, x)) = Add(Cat(s, t), x)
<1>1. One(x) \in Seq(T) /\ Cat(s, t) \in Seq(T)
  BY OneType, CatProperties
<1>2. Add(t, x) = Cat(t, One(x))
  BY AddIsCat
<1>3. Add(Cat(s, t), x) = Cat(Cat(s, t), One(x))
  BY <1>1, AddIsCat
<1>4. Cat(Cat(s, t), One(x)) = Cat(s, Cat(t, One(x)))
  BY <1>1, CatAssociative
<1> QED
  BY <1>2, <1>3, <1>4

LEMMA AddInduct ==
  ASSUME NEW T, NEW Z \in SUBSET Seq(T), Nil \in Z,
         \A s \in Z, x \in T : Add(s, x) \in Z
  PROVE  Z = Seq(T)
BY SequenceInduct DEF Nil, Add

LEMMA CatInduct ==
  ASSUME NEW T, NEW Z \in SUBSET Seq(T), Nil \in Z,
         \A s \in Z, x \in T : Cat(One(x), s) \in Z
  PROVE  Z = Seq(T)
BY FrontInduct DEF Nil, Cat, One

LEMMA OnlyNil ==
  ASSUME NEW S
  PROVE  Only(Nil, S) = Nil
BY OnlyEmpty DEF Nil

LEMMA OnlyKeeps ==
  ASSUME NEW T, NEW s \in Seq(T), NEW S, NEW x \in T, x \in S
  PROVE  Only(Add(s, x), S) = Add(Only(s, S), x)
BY OnlyAppend DEF Add

LEMMA OnlyDrops ==
  ASSUME NEW T, NEW s \in Seq(T), NEW S, NEW x \in T, x \notin S
  PROVE  Only(Add(s, x), S) = Only(s, S)
BY OnlyAppend DEF Add

LEMMA FlattenNil == FlattenSeq(Nil) = Nil
BY FlattenEmpty DEF Nil

LEMMA FlattenAdd ==
  ASSUME NEW T, NEW ss \in Seq(Seq(T)), NEW b \in Seq(T)
  PROVE  FlattenSeq(Add(ss, b)) = Cat(FlattenSeq(ss), b)
BY FlattenAppend DEF Add, Cat

-------------------------------------------------------------------------------
(* Elements, maps and reverses of sequences                                *)

Mapped(s, f) == [i \in DOMAIN s |-> f[s[i]]]
Maps(f, T, U) == \A x \in T : f[x] \in U

LEMMA ToSetAdd ==
  ASSUME NEW T, NEW s \in Seq(T), NEW x \in T
  PROVE  ToSet(Add(s, x)) = ToSet(s) \cup {x}
<1> DEFINE t == Add(s, x)
           n == Len(s)
<1>1. n \in Nat /\ DOMAIN s = 1 .. n
  BY LenProperties
<1>2. t \in Seq(T) /\ t[n + 1] = x /\ \A i \in 1 .. n : t[i] = s[i]
  BY AddProperties
<1>3. DOMAIN t = 1 .. n + 1
  BY <1>2, LenProperties, AddProperties
<1> HIDE DEF t, n
<1> QED BY <1>1, <1>2, <1>3 DEF ToSet, t

LEMMA ToSetNil == ToSet(Nil) = {}
BY DEF ToSet, Nil

LEMMA ToSetType ==
  ASSUME NEW T, NEW s \in Seq(T)
  PROVE  ToSet(s) \in SUBSET T
BY LenProperties DEF ToSet

LEMMA MappedNil ==
  ASSUME NEW f
  PROVE  Mapped(Nil, f) = Nil
BY DEF Mapped, Nil

LEMMA MappedType ==
  ASSUME NEW T, NEW U, NEW s \in Seq(T), NEW f, Maps(f, T, U)
  PROVE  /\ Mapped(s, f) \in Seq(U) /\ Len(Mapped(s, f)) = Len(s)
         /\ DOMAIN Mapped(s, f) = DOMAIN s
         /\ \A i \in 1 .. Len(s) : Mapped(s, f)[i] = f[s[i]]
<1>1. Len(s) \in Nat /\ DOMAIN s = 1 .. Len(s) /\ \A i \in 1 .. Len(s) : s[i] \in T
  BY LenProperties, ElementOfSeq
<1>2. Mapped(s, f) \in [1 .. Len(s) -> U]
  BY <1>1 DEF Mapped, Maps
<1>3. Mapped(s, f) \in Seq(U)
  BY <1>1, <1>2, SeqDef
<1> QED
  BY <1>1, <1>2, <1>3, LenProperties DEF Mapped

LEMMA MappedAdd ==
  ASSUME NEW T, NEW U, NEW s \in Seq(T), NEW x \in T, NEW f, Maps(f, T, U)
  PROVE  Mapped(Add(s, x), f) = Add(Mapped(s, f), f[x])
<1> DEFINE t == Add(s, x)
           n == Len(s)
           l == Mapped(t, f)
           r == Add(Mapped(s, f), f[x])
<1>1. /\ n \in Nat /\ t \in Seq(T) /\ Len(t) = n + 1 /\ t[n + 1] = x
      /\ \A i \in 1 .. n : t[i] = s[i]
  <2>1. n \in Nat
    BY LenProperties
  <2> QED BY <2>1, AddProperties
<1>2. l \in Seq(U) /\ Len(l) = n + 1 /\ \A i \in 1 .. n + 1 : l[i] = f[t[i]]
  <2> HIDE DEF t, n
  <2> QED BY <1>1, MappedType
<1>3. /\ Mapped(s, f) \in Seq(U) /\ Len(Mapped(s, f)) = n
      /\ \A i \in 1 .. n : Mapped(s, f)[i] = f[s[i]]
  BY MappedType
<1>4. /\ r \in Seq(U) /\ Len(r) = n + 1 /\ r[n + 1] = f[x]
      /\ \A i \in 1 .. n : r[i] = f[s[i]]
  <2> DEFINE q == Mapped(s, f)
  <2> HIDE DEF q
  <2>1. q \in Seq(U) /\ Len(q) = n /\ (\A i \in 1 .. n : q[i] = f[s[i]]) /\ f[x] \in U
    BY <1>3 DEF q, Maps
  <2> HIDE DEF n
  <2>2. /\ Add(q, f[x]) \in Seq(U) /\ Len(Add(q, f[x])) = Len(q) + 1
        /\ Add(q, f[x])[Len(q) + 1] = f[x]
        /\ \A i \in 1 .. Len(q) : Add(q, f[x])[i] = q[i]
    <3> DEFINE y == f[x]
    <3> HIDE DEF y
    <3>1. q \in Seq(U) /\ y \in U
      BY <2>1 DEF y
    <3>2. /\ Add(q, y) \in Seq(U) /\ Len(Add(q, y)) = Len(q) + 1
          /\ Add(q, y)[Len(q) + 1] = y /\ \A i \in 1 .. Len(q) : Add(q, y)[i] = q[i]
      BY <3>1, AddProperties
    <3> QED BY <3>2 DEF y
  <2>3. r = Add(q, f[x])
    BY DEF q
  <2> HIDE DEF r
  <2> QED BY <2>1, <2>2, <2>3
<1>5. \A i \in 1 .. n + 1 : l[i] = r[i]
  <2>1. \A i \in 1 .. n + 1 : i \in 1 .. n \/ i = n + 1
    BY <1>1
  <2> HIDE DEF l, r, t, n
  <2> QED BY <1>1, <1>2, <1>4, <2>1
<1> HIDE DEF l, r, t, n
<1>6. l = r
  BY <1>2, <1>4, <1>5, SeqEqual
<1> QED
  BY <1>6 DEF l, r, t

-------------------------------------------------------------------------------
(* What Only keeps                                                         *)

LEMMA OnlyType ==
  ASSUME NEW T, NEW s \in Seq(T), NEW S
  PROVE  Only(s, S) \in Seq(T)
<1>1. PICK f \in Keeping(T, s, S) : Only(s, S) = f[Len(s)]
  BY OnlyIterates
<1> QED
  BY <1>1, LenProperties DEF Keeping

LEMMA OnlyElements ==
  ASSUME NEW T, NEW s \in Seq(T), NEW S
  PROVE  ToSet(Only(s, S)) = ToSet(s) \cap S
<1> DEFINE Z == {r \in Seq(T) : ToSet(Only(r, S)) = ToSet(r) \cap S}
<1>1. Nil \in Z
  BY NilType, OnlyNil, ToSetNil
<1>2. ASSUME NEW r \in Z, NEW x \in T PROVE Add(r, x) \in Z
  <2>1. Add(r, x) \in Seq(T) /\ ToSet(Add(r, x)) = ToSet(r) \cup {x}
    BY AddProperties, ToSetAdd
  <2>2. Only(r, S) \in Seq(T)
    BY OnlyType
  <2>3. CASE x \in S
    <3>1. Only(Add(r, x), S) = Add(Only(r, S), x)
      BY <2>3, OnlyKeeps
    <3>2. ToSet(Add(Only(r, S), x)) = ToSet(Only(r, S)) \cup {x}
      BY <2>2, ToSetAdd
    <3> QED BY <2>1, <2>3, <3>1, <3>2
  <2>4. CASE x \notin S
    <3>1. Only(Add(r, x), S) = Only(r, S)
      BY <2>4, OnlyDrops
    <3> QED BY <2>1, <2>4, <3>1
  <2> QED BY <2>3, <2>4
<1>3. Z = Seq(T)
  <2> HIDE DEF Z
  <2> QED BY <1>1, <1>2, AddInduct DEF Z
<1> QED
  BY <1>3

(* Nothing is left out, or the list is shorter.                            *)
LEMMA OnlyShorter ==
  ASSUME NEW T, NEW s \in Seq(T), NEW S
  PROVE  /\ ToSet(s) \subseteq S => Only(s, S) = s
         /\ ~(ToSet(s) \subseteq S) => Len(Only(s, S)) < Len(s)
         /\ Len(Only(s, S)) <= Len(s)
<1> DEFINE Z == {r \in Seq(T) : /\ ToSet(r) \subseteq S => Only(r, S) = r
                                /\ ~(ToSet(r) \subseteq S) => Len(Only(r, S)) < Len(r)
                                /\ Len(Only(r, S)) <= Len(r)}
<1>1. Nil \in Z
  BY NilType, OnlyNil, ToSetNil
<1>2. ASSUME NEW r \in Z, NEW x \in T PROVE Add(r, x) \in Z
  <2>1. /\ Add(r, x) \in Seq(T) /\ ToSet(Add(r, x)) = ToSet(r) \cup {x}
        /\ Len(Add(r, x)) = Len(r) + 1 /\ Len(r) \in Nat
    BY AddProperties, ToSetAdd, LenProperties
  <2>2. Only(r, S) \in Seq(T) /\ Len(Only(r, S)) \in Nat
    BY OnlyType, LenProperties
  <2>3. CASE x \in S
    <3>1. Only(Add(r, x), S) = Add(Only(r, S), x)
      BY <2>3, OnlyKeeps
    <3>2. Len(Add(Only(r, S), x)) = Len(Only(r, S)) + 1
      BY <2>2, AddProperties
    <3> QED BY <2>1, <2>2, <2>3, <3>1, <3>2
  <2>4. CASE x \notin S
    <3>1. Only(Add(r, x), S) = Only(r, S)
      BY <2>4, OnlyDrops
    <3> QED BY <2>1, <2>2, <2>4, <3>1
  <2> QED BY <2>3, <2>4
<1>3. Z = Seq(T)
  <2> HIDE DEF Z
  <2> QED BY <1>1, <1>2, AddInduct DEF Z
<1> QED
  BY <1>3

LEMMA OnlySame ==
  ASSUME NEW T, NEW s \in Seq(T), NEW S, NEW R,
         \A x \in ToSet(s) : x \in S <=> x \in R
  PROVE  Only(s, S) = Only(s, R)
<1> DEFINE Z == {r \in Seq(T) : (\A x \in ToSet(r) : x \in S <=> x \in R)
                                  => Only(r, S) = Only(r, R)}
<1>1. Nil \in Z
  BY NilType, OnlyNil
<1>2. ASSUME NEW r \in Z, NEW x \in T PROVE Add(r, x) \in Z
  <2>1. Add(r, x) \in Seq(T) /\ ToSet(Add(r, x)) = ToSet(r) \cup {x}
    BY AddProperties, ToSetAdd
  <2>2. SUFFICES ASSUME \A y \in ToSet(Add(r, x)) : y \in S <=> y \in R
                 PROVE  Only(Add(r, x), S) = Only(Add(r, x), R)
    BY <2>1
  <2>3. Only(r, S) = Only(r, R) /\ (x \in S <=> x \in R)
    BY <2>1, <2>2
  <2>4. CASE x \in S
    <3>1. Only(Add(r, x), S) = Add(Only(r, S), x)
      BY <2>4, OnlyKeeps
    <3>2. Only(Add(r, x), R) = Add(Only(r, R), x)
      BY <2>3, <2>4, OnlyKeeps
    <3> QED BY <2>3, <3>1, <3>2
  <2>5. CASE x \notin S
    <3>1. Only(Add(r, x), S) = Only(r, S)
      BY <2>5, OnlyDrops
    <3>2. Only(Add(r, x), R) = Only(r, R)
      BY <2>3, <2>5, OnlyDrops
    <3> QED BY <2>3, <3>1, <3>2
  <2> QED BY <2>4, <2>5
<1>3. Z = Seq(T)
  <2> HIDE DEF Z
  <2> QED BY <1>1, <1>2, AddInduct DEF Z
<1> QED
  BY <1>3

LEMMA OnlyOnly ==
  ASSUME NEW T, NEW s \in Seq(T), NEW S, NEW R
  PROVE  Only(Only(s, S), R) = Only(s, S \cap R)
<1> DEFINE Z == {r \in Seq(T) : Only(Only(r, S), R) = Only(r, S \cap R)}
<1>1. Nil \in Z
  BY NilType, OnlyNil
<1>2. ASSUME NEW r \in Z, NEW x \in T PROVE Add(r, x) \in Z
  <2>1. Add(r, x) \in Seq(T) /\ Only(r, S) \in Seq(T)
    BY AddProperties, OnlyType
  <2> DEFINE B == S \cap R
             goal == Only(Only(Add(r, x), S), R) = Only(Add(r, x), B)
  <2>2. Only(Only(r, S), R) = Only(r, B)
    OBVIOUS
  <2>3. ASSUME x \notin S PROVE goal
    <3>1. Only(Add(r, x), S) = Only(r, S)
      BY <2>3, OnlyDrops
    <3>2. Only(Add(r, x), B) = Only(r, B)
      BY <2>3, OnlyDrops
    <3> HIDE DEF B, Z
    <3> QED BY <2>2, <3>1, <3>2
  <2>4. ASSUME x \in S, x \notin R PROVE goal
    <3>1. Only(Add(r, x), S) = Add(Only(r, S), x)
      BY <2>4, OnlyKeeps
    <3>2. Only(Add(Only(r, S), x), R) = Only(Only(r, S), R)
      BY <2>1, <2>4, OnlyDrops
    <3>3. Only(Add(r, x), B) = Only(r, B)
      BY <2>4, OnlyDrops
    <3> HIDE DEF B, Z
    <3> QED BY <2>2, <3>1, <3>2, <3>3
  <2>5. ASSUME x \in S, x \in R PROVE goal
    <3>1. Only(Add(r, x), S) = Add(Only(r, S), x)
      BY <2>5, OnlyKeeps
    <3>2. Only(Add(Only(r, S), x), R) = Add(Only(Only(r, S), R), x)
      BY <2>1, <2>5, OnlyKeeps
    <3>3. Only(Add(r, x), B) = Add(Only(r, B), x)
      BY <2>5, OnlyKeeps
    <3> HIDE DEF B, Z
    <3> QED BY <2>2, <3>1, <3>2, <3>3
  <2>6. goal
    <3> HIDE DEF goal
    <3> QED BY <2>3, <2>4, <2>5
  <2> QED BY <2>1, <2>6, Zenon
<1>3. Z = Seq(T)
  <2> HIDE DEF Z
  <2> QED BY <1>1, <1>2, AddInduct DEF Z
<1> QED
  BY <1>3

LEMMA OnlyMapped ==
  ASSUME NEW T, NEW U, NEW s \in Seq(T), NEW S, NEW R, NEW f,
         Maps(f, T, U), \A x \in T : x \in R <=> f[x] \in S
  PROVE  Only(Mapped(s, f), S) = Mapped(Only(s, R), f)
<1> DEFINE Z == {r \in Seq(T) : Only(Mapped(r, f), S) = Mapped(Only(r, R), f)}
<1>1. Nil \in Z
  BY NilType, OnlyNil, MappedNil
<1>2. ASSUME NEW r \in Z, NEW x \in T PROVE Add(r, x) \in Z
  <2>1. Add(r, x) \in Seq(T) /\ Only(r, R) \in Seq(T) /\ Mapped(r, f) \in Seq(U)
    BY AddProperties, OnlyType, MappedType
  <2>a. f[x] \in U
    BY DEF Maps
  <2>2. Mapped(Add(r, x), f) = Add(Mapped(r, f), f[x])
    BY MappedAdd
  <2>3. Mapped(Add(Only(r, R), x), f) = Add(Mapped(Only(r, R), f), f[x])
    BY <2>1, MappedAdd
  <2>b. Only(Mapped(r, f), S) = Mapped(Only(r, R), f)
    OBVIOUS
  <2>4. ASSUME x \in R
        PROVE  Only(Mapped(Add(r, x), f), S) = Mapped(Only(Add(r, x), R), f)
    <3>0. f[x] \in S
      BY <2>4
    <3>1. Only(Add(r, x), R) = Add(Only(r, R), x)
      BY <2>4, OnlyKeeps
    <3>2. Only(Add(Mapped(r, f), f[x]), S) = Add(Only(Mapped(r, f), S), f[x])
      BY <2>1, <2>a, <3>0, OnlyKeeps
    <3> HIDE DEF Z
    <3> QED BY <2>2, <2>3, <2>b, <3>1, <3>2, Zenon
  <2>5. ASSUME x \notin R
        PROVE  Only(Mapped(Add(r, x), f), S) = Mapped(Only(Add(r, x), R), f)
    <3>0. f[x] \notin S
      BY <2>5
    <3>1. Only(Add(r, x), R) = Only(r, R)
      BY <2>5, OnlyDrops
    <3>2. Only(Add(Mapped(r, f), f[x]), S) = Only(Mapped(r, f), S)
      BY <2>1, <2>a, <3>0, OnlyDrops
    <3> HIDE DEF Z
    <3> QED BY <2>2, <2>b, <3>1, <3>2, Zenon
  <2>6. Only(Mapped(Add(r, x), f), S) = Mapped(Only(Add(r, x), R), f)
    <3> HIDE DEF Z
    <3> QED BY <2>4, <2>5
  <2> QED BY <2>1, <2>6, Zenon
<1>3. Z = Seq(T)
  <2> HIDE DEF Z
  <2> QED BY <1>1, <1>2, AddInduct DEF Z
<1> QED
  BY <1>3

LEMMA OnlyConcat ==
  ASSUME NEW T, NEW s \in Seq(T), NEW t \in Seq(T), NEW S
  PROVE  Only(Cat(s, t), S) = Cat(Only(s, S), Only(t, S))
<1> DEFINE Z == {r \in Seq(T) : Only(Cat(s, r), S) = Cat(Only(s, S), Only(r, S))}
<1>0. Only(s, S) \in Seq(T)
  BY OnlyType
<1>1. Nil \in Z
  BY <1>0, NilType, OnlyNil, CatNil
<1>2. ASSUME NEW r \in Z, NEW x \in T PROVE Add(r, x) \in Z
  <2>1. Add(r, x) \in Seq(T) /\ Only(r, S) \in Seq(T) /\ Cat(s, r) \in Seq(T)
    BY AddProperties, OnlyType, CatProperties
  <2>2. Cat(s, Add(r, x)) = Add(Cat(s, r), x)
    BY CatAdd
  <2>3. Cat(Only(s, S), Add(Only(r, S), x)) = Add(Cat(Only(s, S), Only(r, S)), x)
    BY <1>0, <2>1, CatAdd
  <2>6. Only(Cat(s, r), S) = Cat(Only(s, S), Only(r, S))
    OBVIOUS
  <2>7. Only(Cat(s, Add(r, x)), S) = Cat(Only(s, S), Only(Add(r, x), S))
    <3> HIDE DEF Z
    <3>1. CASE x \in S
      <4>1. Only(Add(r, x), S) = Add(Only(r, S), x)
        BY <2>1, <3>1, OnlyKeeps DEF Z
      <4>2. Only(Add(Cat(s, r), x), S) = Add(Only(Cat(s, r), S), x)
        BY <2>1, <3>1, OnlyKeeps
      <4> QED BY <2>2, <2>3, <2>6, <4>1, <4>2, Zenon
    <3>2. CASE x \notin S
      <4>1. Only(Add(r, x), S) = Only(r, S)
        BY <2>1, <3>2, OnlyDrops DEF Z
      <4>2. Only(Add(Cat(s, r), x), S) = Only(Cat(s, r), S)
        BY <2>1, <3>2, OnlyDrops
      <4> QED BY <2>2, <2>6, <4>1, <4>2, Zenon
    <3> QED BY <3>1, <3>2
  <2> QED BY <2>1, <2>7, Zenon
<1>3. Z = Seq(T)
  <2> HIDE DEF Z
  <2> QED BY <1>1, <1>2, AddInduct DEF Z
<1> QED
  BY <1>3, Zenon

LEMMA CatType ==
  ASSUME NEW T, NEW s \in Seq(T), NEW t \in Seq(T)
  PROVE  Cat(s, t) \in Seq(T)
BY CatProperties

LEMMA CatLen ==
  ASSUME NEW T, NEW s \in Seq(T), NEW t \in Seq(T)
  PROVE  Len(Cat(s, t)) = Len(s) + Len(t)
BY CatProperties

LEMMA CatElements ==
  ASSUME NEW T, NEW s \in Seq(T), NEW t \in Seq(T)
  PROVE  ToSet(Cat(s, t)) = ToSet(s) \cup ToSet(t)
<1> DEFINE Z == {r \in Seq(T) : ToSet(Cat(s, r)) = ToSet(s) \cup ToSet(r)}
<1>1. Nil \in Z
  BY NilType, CatNil, ToSetNil
<1>2. ASSUME NEW r \in Z, NEW x \in T PROVE Add(r, x) \in Z
  <2>1. Add(r, x) \in Seq(T) /\ ToSet(Add(r, x)) = ToSet(r) \cup {x}
    BY AddProperties, ToSetAdd
  <2>2. Cat(s, Add(r, x)) = Add(Cat(s, r), x) /\ Cat(s, r) \in Seq(T)
    BY CatAdd, CatType
  <2>3. ToSet(Add(Cat(s, r), x)) = ToSet(Cat(s, r)) \cup {x}
    BY <2>2, ToSetAdd
  <2> QED BY <2>1, <2>2, <2>3
<1>3. Z = Seq(T)
  <2> HIDE DEF Z
  <2> QED BY <1>1, <1>2, AddInduct DEF Z
<1> QED
  BY <1>3

LEMMA MappedOne ==
  ASSUME NEW T, NEW U, NEW x \in T, NEW f, Maps(f, T, U)
  PROVE  Mapped(One(x), f) = One(f[x])
<1>1. Nil \in Seq(T) /\ Add(Nil, x) = One(x) /\ Add(Nil, f[x]) = One(f[x])
  BY NilType, AddNil
<1>2. Mapped(Add(Nil, x), f) = Add(Mapped(Nil, f), f[x])
  BY <1>1, MappedAdd
<1>3. Mapped(Nil, f) = Nil
  BY MappedNil
<1> QED
  BY <1>1, <1>2, <1>3

LEMMA MappedCat ==
  ASSUME NEW T, NEW U, NEW s \in Seq(T), NEW t \in Seq(T), NEW f, Maps(f, T, U)
  PROVE  Mapped(Cat(s, t), f) = Cat(Mapped(s, f), Mapped(t, f))
<1> DEFINE Z == {r \in Seq(T) : Mapped(Cat(s, r), f) = Cat(Mapped(s, f), Mapped(r, f))}
<1>0. Mapped(s, f) \in Seq(U)
  BY MappedType
<1>1. Nil \in Z
  BY <1>0, NilType, CatNil, MappedNil
<1>2. ASSUME NEW r \in Z, NEW x \in T PROVE Add(r, x) \in Z
  <2>1. Add(r, x) \in Seq(T) /\ Cat(s, r) \in Seq(T)
    BY AddProperties, CatType
  <2>a. Mapped(r, f) \in Seq(U) /\ f[x] \in U
    BY MappedType DEF Maps
  <2>2. Cat(s, Add(r, x)) = Add(Cat(s, r), x)
    BY CatAdd
  <2>3. Mapped(Add(Cat(s, r), x), f) = Add(Mapped(Cat(s, r), f), f[x])
    BY <2>1, MappedAdd
  <2>4. Mapped(Add(r, x), f) = Add(Mapped(r, f), f[x])
    BY MappedAdd
  <2>5. Cat(Mapped(s, f), Add(Mapped(r, f), f[x])) = Add(Cat(Mapped(s, f), Mapped(r, f)), f[x])
    BY <1>0, <2>a, CatAdd
  <2> QED BY <2>1, <2>2, <2>3, <2>4, <2>5
<1>3. Z = Seq(T)
  <2> HIDE DEF Z
  <2> QED BY <1>1, <1>2, AddInduct DEF Z
<1> QED
  BY <1>3

-------------------------------------------------------------------------------
(* What FlattenSeq joins                                                   *)

LEMMA FlattenType ==
  ASSUME NEW T, NEW ss \in Seq(Seq(T))
  PROVE  FlattenSeq(ss) \in Seq(T)
<1>1. PICK f \in Joining(T, ss) : FlattenSeq(ss) = f[Len(ss)]
  BY FlattenIterates
<1> QED
  BY <1>1, LenProperties DEF Joining

LEMMA FlattenOne ==
  ASSUME NEW T, NEW b \in Seq(T)
  PROVE  FlattenSeq(One(b)) = b
<1>1. Nil \in Seq(Seq(T)) /\ Nil \in Seq(T)
  BY NilType
<1>2. FlattenSeq(Add(Nil, b)) = Cat(FlattenSeq(Nil), b)
  BY <1>1, FlattenAdd
<1> QED
  BY <1>1, <1>2, AddNil, FlattenNil, CatNil

LEMMA FlattenFront ==
  ASSUME NEW T, NEW b \in Seq(T), NEW ss \in Seq(Seq(T))
  PROVE  FlattenSeq(Cat(One(b), ss)) = Cat(b, FlattenSeq(ss))
<1> DEFINE Q == Seq(T)
           Z == {r \in Seq(Q) : FlattenSeq(Cat(One(b), r)) = Cat(b, FlattenSeq(r))}
<1>0. One(b) \in Seq(Q)
  BY OneType
<1>1. Nil \in Z
  BY <1>0, NilType, CatNil, FlattenNil, FlattenOne
<1>2. ASSUME NEW r \in Z, NEW x \in Q PROVE Add(r, x) \in Z
  <2>1. Add(r, x) \in Seq(Q) /\ Cat(One(b), r) \in Seq(Q) /\ FlattenSeq(r) \in Q
    BY <1>0, AddProperties, CatType, FlattenType
  <2>2. Cat(One(b), Add(r, x)) = Add(Cat(One(b), r), x)
    BY <1>0, CatAdd
  <2>3. FlattenSeq(Add(Cat(One(b), r), x)) = Cat(FlattenSeq(Cat(One(b), r)), x)
    BY <2>1, FlattenAdd
  <2>4. FlattenSeq(Add(r, x)) = Cat(FlattenSeq(r), x)
    BY FlattenAdd
  <2>5. Cat(Cat(b, FlattenSeq(r)), x) = Cat(b, Cat(FlattenSeq(r), x))
    BY <2>1, CatAssociative
  <2> QED BY <2>1, <2>2, <2>3, <2>4, <2>5
<1>3. Z = Seq(Q)
  <2> HIDE DEF Z, Q
  <2> QED BY <1>1, <1>2, AddInduct DEF Z
<1> QED
  BY <1>3

LEMMA FlattenElements ==
  ASSUME NEW T, NEW ss \in Seq(Seq(T)), NEW y
  PROVE  y \in ToSet(FlattenSeq(ss)) <=> \E b \in ToSet(ss) : y \in ToSet(b)
<1> DEFINE Q == Seq(T)
           Z == {r \in Seq(Q) :
                   y \in ToSet(FlattenSeq(r)) <=> \E b \in ToSet(r) : y \in ToSet(b)}
<1>1. Nil \in Z
  BY NilType, FlattenNil, ToSetNil
<1>2. ASSUME NEW r \in Z, NEW x \in Q PROVE Add(r, x) \in Z
  <2>1. Add(r, x) \in Seq(Q) /\ FlattenSeq(r) \in Q
    BY AddProperties, FlattenType
  <2>2. ToSet(Add(r, x)) = ToSet(r) \cup {x}
    BY ToSetAdd
  <2>3. FlattenSeq(Add(r, x)) = Cat(FlattenSeq(r), x)
    BY FlattenAdd
  <2>4. ToSet(Cat(FlattenSeq(r), x)) = ToSet(FlattenSeq(r)) \cup ToSet(x)
    BY <2>1, CatElements
  <2> QED BY <2>1, <2>2, <2>3, <2>4
<1>3. Z = Seq(Q)
  <2> HIDE DEF Z, Q
  <2> QED BY <1>1, <1>2, AddInduct DEF Z
<1> QED
  BY <1>3

LEMMA OnlyFlatten ==
  ASSUME NEW T, NEW ss \in Seq(Seq(T)), NEW S, NEW g,
         \A b \in Seq(T) : g[b] = Only(b, S)
  PROVE  Only(FlattenSeq(ss), S) = FlattenSeq(Mapped(ss, g))
<1> DEFINE Q == Seq(T)
           Z == {r \in Seq(Q) : Only(FlattenSeq(r), S) = FlattenSeq(Mapped(r, g))}
<1>0. Maps(g, Q, Q)
  BY OnlyType DEF Maps
<1>1. Nil \in Z
  BY NilType, FlattenNil, OnlyNil, MappedNil
<1>2. ASSUME NEW r \in Z, NEW x \in Q PROVE Add(r, x) \in Z
  <2>1. Add(r, x) \in Seq(Q) /\ FlattenSeq(r) \in Q /\ Mapped(r, g) \in Seq(Q) /\ g[x] \in Q
    BY <1>0, AddProperties, FlattenType, MappedType DEF Maps
  <2>2. FlattenSeq(Add(r, x)) = Cat(FlattenSeq(r), x)
    BY FlattenAdd
  <2>3. Only(Cat(FlattenSeq(r), x), S) = Cat(Only(FlattenSeq(r), S), Only(x, S))
    BY <2>1, OnlyConcat
  <2>4. Mapped(Add(r, x), g) = Add(Mapped(r, g), g[x])
    BY <1>0, MappedAdd
  <2>5. FlattenSeq(Add(Mapped(r, g), g[x])) = Cat(FlattenSeq(Mapped(r, g)), g[x])
    BY <2>1, FlattenAdd
  <2> QED BY <2>1, <2>2, <2>3, <2>4, <2>5
<1>3. Z = Seq(Q)
  <2> HIDE DEF Z, Q
  <2> QED BY <1>1, <1>2, AddInduct DEF Z
<1> QED
  BY <1>3

(* The pieces f makes of the elements of s, joined.                        *)
Joined(s, f) == FlattenSeq(Mapped(s, f))

LEMMA JoinedType ==
  ASSUME NEW T, NEW U, NEW s \in Seq(T), NEW f, Maps(f, T, Seq(U))
  PROVE  Joined(s, f) \in Seq(U)
<1>1. Mapped(s, f) \in Seq(Seq(U))
  BY MappedType
<1> QED
  BY <1>1, FlattenType DEF Joined

LEMMA JoinedNil ==
  ASSUME NEW f
  PROVE  Joined(Nil, f) = Nil
BY MappedNil, FlattenNil DEF Joined

LEMMA JoinedAdd ==
  ASSUME NEW T, NEW U, NEW s \in Seq(T), NEW x \in T, NEW f, Maps(f, T, Seq(U))
  PROVE  Joined(Add(s, x), f) = Cat(Joined(s, f), f[x])
<1> DEFINE Q == Seq(U)
<1>1. Maps(f, T, Q) /\ f[x] \in Q
  BY DEF Maps
<1> HIDE DEF Q
<1>2. Mapped(s, f) \in Seq(Q)
  BY <1>1, MappedType
<1>3. Mapped(Add(s, x), f) = Add(Mapped(s, f), f[x])
  BY <1>1, MappedAdd
<1>4. FlattenSeq(Add(Mapped(s, f), f[x])) = Cat(FlattenSeq(Mapped(s, f)), f[x])
  BY <1>1, <1>2, FlattenAdd DEF Q
<1> QED
  BY <1>3, <1>4 DEF Joined

LEMMA JoinedFront ==
  ASSUME NEW T, NEW U, NEW s \in Seq(T), NEW x \in T, NEW f, Maps(f, T, Seq(U))
  PROVE  Joined(Cat(One(x), s), f) = Cat(f[x], Joined(s, f))
<1> DEFINE Q == Seq(U)
<1>1. Maps(f, T, Q) /\ f[x] \in Q /\ One(x) \in Seq(T)
  BY OneType DEF Maps
<1> HIDE DEF Q
<1>2. Mapped(s, f) \in Seq(Q)
  BY <1>1, MappedType
<1>3. Mapped(Cat(One(x), s), f) = Cat(Mapped(One(x), f), Mapped(s, f))
  BY <1>1, MappedCat
<1>4. Mapped(One(x), f) = One(f[x])
  BY <1>1, MappedOne
<1>5. FlattenSeq(Cat(One(f[x]), Mapped(s, f))) = Cat(f[x], FlattenSeq(Mapped(s, f)))
  BY <1>1, <1>2, FlattenFront DEF Q
<1> QED
  BY <1>3, <1>4, <1>5 DEF Joined

LEMMA JoinedAddLen ==
  ASSUME NEW T, NEW U, NEW s \in Seq(T), NEW x \in T, NEW f, Maps(f, T, Seq(U))
  PROVE  /\ Len(Joined(Add(s, x), f)) = Len(Joined(s, f)) + Len(f[x])
         /\ Len(Joined(s, f)) \in Nat /\ Len(f[x]) \in Nat
<1>1. Joined(s, f) \in Seq(U) /\ f[x] \in Seq(U)
  BY JoinedType DEF Maps
<1>2. Len(Cat(Joined(s, f), f[x])) = Len(Joined(s, f)) + Len(f[x])
  BY <1>1, CatLen
<1>3. Joined(Add(s, x), f) = Cat(Joined(s, f), f[x])
  BY JoinedAdd
<1> QED
  BY <1>1, <1>2, <1>3, LenProperties

(* Pieces of one length.                                                   *)
LEMMA JoinedWidth ==
  ASSUME NEW T, NEW U, NEW s \in Seq(T), NEW f, Maps(f, T, Seq(U)),
         \A x \in T : Len(f[x]) = 2
  PROVE  Len(Joined(s, f)) = 2 * Len(s)
<1> DEFINE Z == {r \in Seq(T) : Len(Joined(r, f)) = 2 * Len(r)}
<1>1. Nil \in Z
  BY NilType, NilLen, JoinedNil
<1>2. ASSUME NEW r \in Z, NEW x \in T PROVE Add(r, x) \in Z
  <2>1. Add(r, x) \in Seq(T) /\ Len(Add(r, x)) = Len(r) + 1
    BY AddProperties
  <2>2. Len(r) \in Nat
    BY LenProperties
  <2>3. Len(Joined(Add(r, x), f)) = Len(Joined(r, f)) + Len(f[x])
    BY JoinedAddLen
  <2>4. Len(Joined(r, f)) = 2 * Len(r) /\ Len(f[x]) = 2
    OBVIOUS
  <2>5. Len(Joined(Add(r, x), f)) = 2 * Len(Add(r, x))
    <3> HIDE DEF Z
    <3> QED BY <2>1, <2>2, <2>3, <2>4
  <2> QED BY <2>1, <2>5
<1>3. Z = Seq(T)
  <2> HIDE DEF Z
  <2> QED BY <1>1, <1>2, AddInduct DEF Z
<1> QED
  BY <1>3

(* Shorter pieces make no longer a whole.                                  *)
LEMMA JoinedNoLonger ==
  ASSUME NEW T, NEW U, NEW s \in Seq(T), NEW f, Maps(f, T, Seq(U)),
         NEW g, Maps(g, T, Seq(U)), \A x \in T : Len(g[x]) <= Len(f[x])
  PROVE  Len(Joined(s, g)) <= Len(Joined(s, f))
<1> DEFINE Z == {r \in Seq(T) : Len(Joined(r, g)) <= Len(Joined(r, f))}
<1>1. Nil \in Z
  BY NilType, NilLen, JoinedNil
<1>2. ASSUME NEW r \in Z, NEW x \in T PROVE Add(r, x) \in Z
  <2>1. Add(r, x) \in Seq(T)
    BY AddProperties
  <2>2. /\ Len(Joined(Add(r, x), f)) = Len(Joined(r, f)) + Len(f[x])
        /\ Len(Joined(r, f)) \in Nat /\ Len(f[x]) \in Nat
    BY JoinedAddLen
  <2>3. /\ Len(Joined(Add(r, x), g)) = Len(Joined(r, g)) + Len(g[x])
        /\ Len(Joined(r, g)) \in Nat /\ Len(g[x]) \in Nat
    BY JoinedAddLen
  <2>4. Len(Joined(r, g)) <= Len(Joined(r, f)) /\ Len(g[x]) <= Len(f[x])
    OBVIOUS
  <2>5. Len(Joined(Add(r, x), g)) <= Len(Joined(Add(r, x), f))
    <3> HIDE DEF Z
    <3> QED BY <2>2, <2>3, <2>4
  <2> QED BY <2>1, <2>5
<1>3. Z = Seq(T)
  <2> HIDE DEF Z
  <2> QED BY <1>1, <1>2, AddInduct DEF Z
<1> QED
  BY <1>3

LEMMA JoinedOnlyNoLonger ==
  ASSUME NEW T, NEW U, NEW s \in Seq(T), NEW S, NEW f, Maps(f, T, Seq(U))
  PROVE  Len(Joined(Only(s, S), f)) <= Len(Joined(s, f))
<1> DEFINE Z == {r \in Seq(T) : Len(Joined(Only(r, S), f)) <= Len(Joined(r, f))}
<1>1. Nil \in Z
  BY NilType, NilLen, JoinedNil, OnlyNil
<1>2. ASSUME NEW r \in Z, NEW x \in T PROVE Add(r, x) \in Z
  <2>1. Add(r, x) \in Seq(T) /\ Only(r, S) \in Seq(T)
    BY AddProperties, OnlyType
  <2>2. /\ Len(Joined(Add(r, x), f)) = Len(Joined(r, f)) + Len(f[x])
        /\ Len(Joined(r, f)) \in Nat /\ Len(f[x]) \in Nat
    BY JoinedAddLen
  <2>3. /\ Len(Joined(Add(Only(r, S), x), f)) = Len(Joined(Only(r, S), f)) + Len(f[x])
        /\ Len(Joined(Only(r, S), f)) \in Nat
    BY <2>1, JoinedAddLen
  <2>4. /\ x \in S => Only(Add(r, x), S) = Add(Only(r, S), x)
        /\ x \notin S => Only(Add(r, x), S) = Only(r, S)
    BY OnlyKeeps, OnlyDrops
  <2> QED BY <2>1, <2>2, <2>3, <2>4
<1>3. Z = Seq(T)
  <2> HIDE DEF Z
  <2> QED BY <1>1, <1>2, AddInduct DEF Z
<1> QED
  BY <1>3

-------------------------------------------------------------------------------
(* Lists with at most one element of a kind, and sorted lists              *)

LEMMA ElementsNone ==
  ASSUME NEW T, NEW s \in Seq(T), ToSet(s) = {}
  PROVE  s = Nil
<1>1. Len(s) \in Nat /\ DOMAIN s = 1 .. Len(s)
  BY LenProperties
<1>2. Len(s) = 0
  <2> SUFFICES ASSUME Len(s) # 0 PROVE FALSE
    OBVIOUS
  <2>1. 1 \in DOMAIN s
    BY <1>1
  <2> QED BY <2>1 DEF ToSet
<1> QED
  BY <1>2, EmptySeq DEF Nil

LEMMA OnlyNone ==
  ASSUME NEW T, NEW s \in Seq(T), NEW S, ToSet(s) \cap S = {}
  PROVE  Only(s, S) = Nil
<1>1. Only(s, S) \in Seq(T) /\ ToSet(Only(s, S)) = {}
  BY OnlyType, OnlyElements
<1> QED
  BY <1>1, ElementsNone

LEMMA OnlyUnique ==
  ASSUME NEW T, NEW s \in Seq(T), NEW S, NEW i \in 1 .. Len(s), s[i] \in S,
         \A j \in 1 .. Len(s) : s[j] \in S => j = i
  PROVE  Only(s, S) = One(s[i])
<1> DEFINE Sole(r, k) == r[k] \in S /\ \A j \in 1 .. Len(r) : r[j] \in S => j = k
           Z == {r \in Seq(T) : \A k \in 1 .. Len(r) : Sole(r, k) => Only(r, S) = One(r[k])}
<1>1. Nil \in Z
  BY NilType, NilLen
<1>2. ASSUME NEW r \in Z, NEW x \in T PROVE Add(r, x) \in Z
  <2> DEFINE t == Add(r, x)
             n == Len(r)
  <2>1. /\ t \in Seq(T) /\ Len(t) = n + 1 /\ t[n + 1] = x
        /\ \A k \in 1 .. n : t[k] = r[k]
    BY AddProperties
  <2>2. n \in Nat /\ DOMAIN r = 1 .. n
    BY LenProperties
  <2>3. ASSUME NEW k \in 1 .. n + 1, Sole(t, k) PROVE Only(t, S) = One(t[k])
    <3>1. CASE k = n + 1
      <4>1. x \in S
        BY <2>1, <2>3, <3>1
      <4>2. \A j \in 1 .. n : r[j] \notin S
        <5> SUFFICES ASSUME NEW j \in 1 .. n, r[j] \in S PROVE FALSE
          OBVIOUS
        <5>1. j \in 1 .. Len(t) /\ t[j] \in S /\ j # k
          BY <2>1, <2>2, <3>1
        <5> QED BY <5>1, <2>3
      <4>3. ToSet(r) \cap S = {}
        BY <2>2, <4>2 DEF ToSet
      <4>4. Only(r, S) = Nil
        BY <4>3, OnlyNone
      <4>5. Only(t, S) = Add(Only(r, S), x)
        BY <4>1, OnlyKeeps
      <4> HIDE DEF t
      <4> QED BY <2>1, <3>1, <4>4, <4>5, AddNil
    <3>2. CASE k # n + 1
      <4>1. k \in 1 .. n /\ t[k] = r[k]
        BY <2>1, <2>2, <3>2
      <4>2. n + 1 \in 1 .. Len(t)
        BY <2>1, <2>2
      <4>3. x \notin S
        BY <2>1, <2>3, <3>2, <4>2
      <4>4. Sole(r, k)
        <5>1. ASSUME NEW j \in 1 .. n, r[j] \in S PROVE j = k
          <6>1. j \in 1 .. Len(t) /\ t[j] = r[j]
            BY <2>1, <2>2
          <6> QED BY <2>3, <5>1, <6>1
        <5> QED BY <2>3, <4>1, <5>1
      <4>5. Only(r, S) = One(r[k])
        BY <4>1, <4>4
      <4>6. Only(t, S) = Only(r, S)
        BY <4>3, OnlyDrops
      <4> HIDE DEF t
      <4> QED BY <4>1, <4>5, <4>6
    <3> QED BY <3>1, <3>2
  <2> HIDE DEF t, Sole
  <2>4. t \in Z
    BY <2>1, <2>3
  <2> QED BY <2>4 DEF t
<1>3. Z = Seq(T)
  <2> HIDE DEF Z
  <2> QED BY <1>1, <1>2, AddInduct DEF Z
<1>4. Sole(s, i)
  OBVIOUS
<1> QED
  <2> HIDE DEF Sole
  <2> QED BY <1>3, <1>4

(* Shuffling.  Only finds a value in a list as often as it comes there; two *)
(* lists are each other in a new order if they agree on that (Counted),    *)
(* and then in the number of values of any set they hold (CountedLen).     *)
LEMMA TimesNil ==
  ASSUME NEW v
  PROVE  Times(Nil, v) = 0
<1>1. {i \in DOMAIN Nil : Nil[i] = v} = {}
  BY DEF Nil
<1> QED
  BY <1>1, FS_EmptySet, Zenon DEF Times

LEMMA TimesAdd ==
  ASSUME NEW T, NEW s \in Seq(T), NEW x \in T, NEW v
  PROVE  /\ Times(s, v) \in Nat
         /\ Times(Add(s, x), v) = IF x = v THEN Times(s, v) + 1 ELSE Times(s, v)
<1> DEFINE n == Len(s)
           a == Add(s, x)
           A == {i \in 1 .. n : s[i] = v}
           B == {i \in 1 .. n + 1 : a[i] = v}
<1>1. n \in Nat /\ DOMAIN s = 1 .. n
  BY LenProperties
<1>2. a \in Seq(T) /\ Len(a) = n + 1 /\ a[n + 1] = x /\ \A i \in 1 .. n : a[i] = s[i]
  BY AddProperties
<1>3. DOMAIN a = 1 .. n + 1
  BY <1>2, LenProperties
<1>4. Times(s, v) = Cardinality(A)
  BY <1>1 DEF Times
<1>5. Times(a, v) = Cardinality(B)
  <2> HIDE DEF a
  <2> QED BY <1>3 DEF Times
<1>6. IsFiniteSet(A)
  <2>1. IsFiniteSet(1 .. n)
    BY <1>1, FS_Interval
  <2>2. A \in SUBSET (1 .. n)
    OBVIOUS
  <2> HIDE DEF A, n
  <2> QED BY <2>1, <2>2, FS_Subset
<1>7. B = IF x = v THEN A \cup {n + 1} ELSE A
  <2> HIDE DEF a
  <2> QED BY <1>1, <1>2
<1>8. n + 1 \notin A
  BY <1>1
<1>9. Cardinality(A) \in Nat /\ Cardinality(A \cup {n + 1}) = Cardinality(A) + 1
  <2> HIDE DEF A
  <2> QED BY <1>6, <1>8, FS_AddElement, FS_CardinalityType
<1> HIDE DEF A, B, a
<1>10. Times(a, v) = IF x = v THEN Times(s, v) + 1 ELSE Times(s, v)
  BY <1>4, <1>5, <1>7, <1>9
<1> QED
  BY <1>4, <1>9, <1>10 DEF a

LEMMA TimesIs ==
  ASSUME NEW T, NEW s \in Seq(T), NEW v
  PROVE  Times(s, v) = Len(Only(s, {v}))
<1> DEFINE Z == {r \in Seq(T) : Times(r, v) = Len(Only(r, {v}))}
<1>1. Nil \in Z
  BY NilType, NilLen, TimesNil, OnlyNil
<1>2. ASSUME NEW r \in Z, NEW x \in T PROVE Add(r, x) \in Z
  <2>1. Add(r, x) \in Seq(T) /\ Only(r, {v}) \in Seq(T)
    BY AddProperties, OnlyType
  <2>2. CASE x = v
    <3>1. x \in {v}
      BY <2>2
    <3>2. Only(Add(r, x), {v}) = Add(Only(r, {v}), x)
      BY <3>1, OnlyKeeps
    <3>3. Len(Add(Only(r, {v}), x)) = Len(Only(r, {v})) + 1
      BY <2>1, AddProperties
    <3>4. Times(Add(r, x), v) = Times(r, v) + 1
      BY <2>2, TimesAdd
    <3> QED BY <2>1, <3>2, <3>3, <3>4
  <2>3. CASE x # v
    <3>1. x \notin {v}
      BY <2>3
    <3>2. Only(Add(r, x), {v}) = Only(r, {v})
      BY <3>1, OnlyDrops
    <3>3. Times(Add(r, x), v) = Times(r, v)
      BY <2>3, TimesAdd
    <3> QED BY <2>1, <3>2, <3>3
  <2> QED BY <2>2, <2>3
<1>3. Z = Seq(T)
  <2> HIDE DEF Z
  <2> QED BY <1>1, <1>2, AddInduct DEF Z
<1> QED
  BY <1>3

Counted(s, t) == \A v : Len(Only(s, {v})) = Len(Only(t, {v}))

LEMMA ShuffledCounted ==
  ASSUME NEW T, NEW s \in Seq(T), NEW t \in Seq(T), Shuffled(s, t)
  PROVE  Counted(s, t)
<1> SUFFICES ASSUME NEW v PROVE Len(Only(s, {v})) = Len(Only(t, {v}))
  BY DEF Counted
<1>1. CASE v \in ToSet(s) \cup ToSet(t)
  <2>1. Times(s, v) = Times(t, v)
    BY <1>1 DEF Shuffled
  <2> QED BY <2>1, TimesIs
<1>2. CASE v \notin ToSet(s) \cup ToSet(t)
  <2>1. ToSet(s) \cap {v} = {} /\ ToSet(t) \cap {v} = {}
    BY <1>2
  <2>2. Only(s, {v}) = Nil /\ Only(t, {v}) = Nil
    BY <2>1, OnlyNone
  <2> QED BY <2>2
<1> QED
  BY <1>1, <1>2

LEMMA OnlyMore ==
  ASSUME NEW T, NEW s \in Seq(T), NEW S, NEW y, y \notin S
  PROVE  Len(Only(s, S \cup {y})) = Len(Only(s, S)) + Len(Only(s, {y}))
<1> DEFINE R == S \cup {y}
           Z == {r \in Seq(T) : Len(Only(r, R)) = Len(Only(r, S)) + Len(Only(r, {y}))}
<1>1. Nil \in Z
  BY NilType, NilLen, OnlyNil
<1>2. ASSUME NEW r \in Z, NEW x \in T PROVE Add(r, x) \in Z
  <2>1. Add(r, x) \in Seq(T)
    BY AddProperties
  <2>2. \A Q : Only(r, Q) \in Seq(T) /\ Len(Only(r, Q)) \in Nat
    BY OnlyType, LenProperties
  <2>3. ASSUME NEW Q, x \in Q PROVE Len(Only(Add(r, x), Q)) = Len(Only(r, Q)) + 1
    <3>1. Only(Add(r, x), Q) = Add(Only(r, Q), x)
      BY <2>3, OnlyKeeps
    <3> QED BY <2>2, <3>1, AddProperties
  <2>4. ASSUME NEW Q, x \notin Q PROVE Len(Only(Add(r, x), Q)) = Len(Only(r, Q))
    <3>1. Only(Add(r, x), Q) = Only(r, Q)
      BY <2>4, OnlyDrops
    <3> QED BY <3>1
  <2>5. Len(Only(r, R)) = Len(Only(r, S)) + Len(Only(r, {y}))
    OBVIOUS
  <2> DEFINE L(q, Q) == Len(Only(q, Q))
             a == Add(r, x)
  <2>6. /\ L(a, R) = IF x \in R THEN L(r, R) + 1 ELSE L(r, R)
        /\ L(a, S) = IF x \in S THEN L(r, S) + 1 ELSE L(r, S)
        /\ L(a, {y}) = IF x = y THEN L(r, {y}) + 1 ELSE L(r, {y})
    <3>1. x = y <=> x \in {y}
      OBVIOUS
    <3> HIDE DEF R
    <3>2. \A Q : L(a, Q) = IF x \in Q THEN L(r, Q) + 1 ELSE L(r, Q)
      BY <2>3, <2>4
    <3> HIDE DEF L, a
    <3> QED BY <3>1, <3>2
  <2>7. L(r, R) = L(r, S) + L(r, {y}) /\ L(r, S) \in Nat /\ L(r, {y}) \in Nat
    BY <2>2, <2>5
  <2>8. x \in R <=> x \in S \/ x = y
    OBVIOUS
  <2> HIDE DEF L, a, R
  <2>9. L(a, R) = L(a, S) + L(a, {y})
    BY <2>6, <2>7, <2>8
  <2> QED BY <2>1, <2>9 DEF L, a
<1>3. Z = Seq(T)
  <2> HIDE DEF Z
  <2> QED BY <1>1, <1>2, AddInduct DEF Z
<1> QED
  BY <1>3

LEMMA CountedLen ==
  ASSUME NEW T, NEW s \in Seq(T), NEW t \in Seq(T), Counted(s, t), NEW S
  PROVE  Len(Only(s, S)) = Len(Only(t, S))
<1> DEFINE Z == {r \in Seq(T) : Len(Only(s, ToSet(r))) = Len(Only(t, ToSet(r)))}
           u == Only(Cat(s, t), S)
<1>1. Nil \in Z
  <2>1. Only(s, {}) = Nil /\ Only(t, {}) = Nil
    BY OnlyNone
  <2> QED BY <2>1, NilType, ToSetNil
<1>2. ASSUME NEW r \in Z, NEW x \in T PROVE Add(r, x) \in Z
  <2>1. Add(r, x) \in Seq(T) /\ ToSet(Add(r, x)) = ToSet(r) \cup {x}
    BY AddProperties, ToSetAdd
  <2>2. CASE x \in ToSet(r)
    <3>1. ToSet(Add(r, x)) = ToSet(r)
      BY <2>1, <2>2
    <3> QED BY <2>1, <3>1
  <2>3. CASE x \notin ToSet(r)
    <3> DEFINE R == ToSet(r)
    <3>1. Len(Only(s, {x})) = Len(Only(t, {x})) /\ Len(Only(s, R)) = Len(Only(t, R))
      BY DEF Counted
    <3>2. /\ Len(Only(s, R \cup {x})) = Len(Only(s, R)) + Len(Only(s, {x}))
          /\ Len(Only(t, R \cup {x})) = Len(Only(t, R)) + Len(Only(t, {x}))
      <4> HIDE DEF R
      <4> QED BY <2>3, OnlyMore DEF R
    <3> QED BY <2>1, <3>1, <3>2
  <2> QED BY <2>2, <2>3
<1>3. Z = Seq(T)
  <2> HIDE DEF Z
  <2> QED BY <1>1, <1>2, AddInduct DEF Z
<1>4. u \in Seq(T) /\ ToSet(u) = (ToSet(s) \cup ToSet(t)) \cap S
  <2>1. Cat(s, t) \in Seq(T) /\ ToSet(Cat(s, t)) = ToSet(s) \cup ToSet(t)
    BY CatType, CatElements
  <2> QED BY <2>1, OnlyType, OnlyElements
<1>5. Len(Only(s, ToSet(u))) = Len(Only(t, ToSet(u)))
  <2> HIDE DEF u
  <2> QED BY <1>3, <1>4
<1> HIDE DEF u
<1>6. Only(s, S) = Only(s, ToSet(u))
  <2>1. \A x \in ToSet(s) : x \in S <=> x \in ToSet(u)
    BY <1>4
  <2> QED BY <2>1, OnlySame
<1>7. Only(t, S) = Only(t, ToSet(u))
  <2>1. \A x \in ToSet(t) : x \in S <=> x \in ToSet(u)
    BY <1>4
  <2> QED BY <2>1, OnlySame
<1> QED
  BY <1>5, <1>6, <1>7

LEMMA CountedOnly ==
  ASSUME NEW T, NEW s \in Seq(T), NEW t \in Seq(T), Counted(s, t), NEW S
  PROVE  Counted(Only(s, S), Only(t, S))
<1> SUFFICES ASSUME NEW v PROVE Len(Only(Only(s, S), {v})) = Len(Only(Only(t, S), {v}))
  BY DEF Counted
<1>1. /\ Only(Only(s, S), {v}) = Only(s, S \cap {v})
      /\ Only(Only(t, S), {v}) = Only(t, S \cap {v})
  BY OnlyOnly
<1>2. Len(Only(s, S \cap {v})) = Len(Only(t, S \cap {v}))
  BY CountedLen
<1> QED
  BY <1>1, <1>2

LEMMA CountedSame ==
  ASSUME NEW T, NEW s \in Seq(T), NEW t \in Seq(T), Counted(s, t)
  PROVE  /\ Len(s) = Len(t) /\ ToSet(s) = ToSet(t) /\ Sorted(s) = Sorted(t)
         /\ s = Nil <=> t = Nil
<1>1. Len(s) = Len(t)
  <2>1. ToSet(s) \subseteq T /\ ToSet(t) \subseteq T
    BY ToSetType
  <2>2. Only(s, T) = s /\ Only(t, T) = t
    BY <2>1, OnlyShorter
  <2>3. Len(Only(s, T)) = Len(Only(t, T))
    BY CountedLen
  <2> QED BY <2>2, <2>3
<1>2. ASSUME NEW a \in Seq(T), NEW b \in Seq(T), Counted(a, b), NEW v \in ToSet(a)
      PROVE  v \in ToSet(b)
  <2>1. SUFFICES ASSUME v \notin ToSet(b) PROVE FALSE
    OBVIOUS
  <2>2. Only(b, {v}) = Nil
    BY <2>1, OnlyNone
  <2>3. Len(Only(a, {v})) = 0
    BY <1>2, <2>2, NilLen DEF Counted
  <2>4. Only(a, {v}) \in Seq(T) /\ v \in ToSet(Only(a, {v}))
    BY OnlyType, OnlyElements
  <2>5. Only(a, {v}) = Nil
    BY <2>3, <2>4, EmptySeq DEF Nil
  <2> QED BY <2>4, <2>5, ToSetNil
<1>3. Counted(t, s)
  BY DEF Counted
<1>4. ToSet(s) = ToSet(t)
  BY <1>2, <1>3
<1>5. \A v : Times(s, v) = Times(t, v)
  BY TimesIs DEF Counted
<1>6. Sorted(s) = Sorted(t)
  BY <1>4, <1>5, Zenon DEF Sorted
<1>7. s = Nil <=> t = Nil
  BY <1>1, EmptySeq, LenProperties DEF Nil
<1> QED
  BY <1>1, <1>4, <1>6, <1>7

LEMMA CountedMapped ==
  ASSUME NEW T, NEW U, NEW s \in Seq(T), NEW t \in Seq(T), Counted(s, t), NEW f, Maps(f, T, U)
  PROVE  Counted(Mapped(s, f), Mapped(t, f))
<1> SUFFICES ASSUME NEW v PROVE Len(Only(Mapped(s, f), {v})) = Len(Only(Mapped(t, f), {v}))
  BY DEF Counted
<1> DEFINE R == {x \in T : f[x] = v}
<1>1. \A x \in T : x \in R <=> f[x] \in {v}
  OBVIOUS
<1> HIDE DEF R
<1>2. /\ Only(Mapped(s, f), {v}) = Mapped(Only(s, R), f)
      /\ Only(Mapped(t, f), {v}) = Mapped(Only(t, R), f)
  BY <1>1, OnlyMapped
<1>3. Only(s, R) \in Seq(T) /\ Only(t, R) \in Seq(T)
  BY OnlyType
<1>4. ASSUME NEW r \in Seq(T) PROVE Len(Mapped(r, f)) = Len(r)
  <2>1. Mapped(r, f) \in Seq(U) /\ Len(Mapped(r, f)) = Len(r)
    BY MappedType
  <2> QED BY <2>1
<1>5. Len(Only(s, R)) = Len(Only(t, R))
  BY CountedLen
<1> QED
  BY <1>2, <1>3, <1>4, <1>5

-------------------------------------------------------------------------------
(* A part of a message, and where it begins                                *)

At(m, o, p) ==
  o + Len(p) <= Len(m) /\ \A i \in 1 .. Len(p) : m[o + i] = p[i]

LEMMA AtSubSeq ==
  ASSUME NEW T, NEW m \in Seq(T), NEW p \in Seq(T), NEW o \in Nat, At(m, o, p)
  PROVE  SubSeq(m, o + 1, o + Len(p)) = p
<1> DEFINE n == Len(p)
           q == SubSeq(m, o + 1, o + n)
<1>1. n \in Nat /\ Len(m) \in Nat
  BY LenProperties
<1>2. o + n <= Len(m) /\ \A i \in 1 .. n : m[o + i] = p[i]
  BY DEF At
<1>3. \A i \in o + 1 .. o + n : m[i] \in T
  BY <1>1, <1>2, ElementOfSeq
<1>4. /\ q \in Seq(T) /\ Len(q) = IF o + 1 <= o + n THEN (o + n) - (o + 1) + 1 ELSE 0
      /\ \A i \in 1 .. (o + n) - (o + 1) + 1 : q[i] = m[(o + 1) + i - 1]
  BY <1>1, <1>3, SubSeqProperties
<1>5. Len(q) = n
  BY <1>1, <1>4
<1>6. ASSUME NEW i \in 1 .. n PROVE q[i] = p[i]
  <2>1. i \in 1 .. (o + n) - (o + 1) + 1 /\ (o + 1) + i - 1 = o + i
    BY <1>1
  <2>2. q[i] = m[o + i]
    <3> HIDE DEF q, n
    <3> QED BY <1>4, <2>1
  <2> HIDE DEF q, n
  <2> QED BY <1>2, <2>2
<1>7. q = p
  <2> HIDE DEF q
  <2> QED BY <1>4, <1>5, <1>6, SeqEqual
<1> QED
  BY <1>7

LEMMA AtCat ==
  ASSUME NEW T, NEW p \in Seq(T), NEW q \in Seq(T), NEW m, Len(m) \in Nat,
         NEW o \in Nat, At(m, o, Cat(p, q))
  PROVE  At(m, o, p) /\ At(m, o + Len(p), q)
<1> DEFINE n == Len(p)
           k == Len(q)
           c == Cat(p, q)
<1>1. n \in Nat /\ k \in Nat
  BY LenProperties
<1>2. /\ Len(c) = n + k
      /\ \A i \in 1 .. n + k : c[i] = IF i <= n THEN p[i] ELSE q[i - n]
  BY CatProperties
<1>3. o + (n + k) <= Len(m) /\ \A i \in 1 .. n + k : m[o + i] = c[i]
  <2> HIDE DEF c
  <2> QED BY <1>2 DEF At, c
<1>4. \A i \in 1 .. n : m[o + i] = p[i]
  <2>1. \A i \in 1 .. n : i \in 1 .. n + k /\ i <= n
    BY <1>1
  <2> HIDE DEF c, n, k
  <2> QED BY <1>2, <1>3, <2>1
<1>5. ASSUME NEW i \in 1 .. k PROVE m[(o + n) + i] = q[i]
  <2>1. n + i \in 1 .. n + k /\ ~(n + i <= n) /\ (n + i) - n = i /\ o + (n + i) = (o + n) + i
    BY <1>1
  <2>2. m[o + (n + i)] = c[n + i]
    BY <1>3, <2>1
  <2>3. c[n + i] = q[(n + i) - n]
    <3> HIDE DEF c, n, k
    <3> QED BY <1>2, <2>1
  <2> HIDE DEF c, n, k
  <2> QED BY <2>1, <2>2, <2>3
<1>6. o + n <= Len(m) /\ (o + n) + k <= Len(m)
  BY <1>1, <1>3
<1> QED
  BY <1>4, <1>5, <1>6 DEF At

(* A message begins with its first part, and goes on with the second.      *)
LEMMA AtWhole ==
  ASSUME NEW T, NEW m \in Seq(T)
  PROVE  At(m, 0, m)
<1>1. Len(m) \in Nat
  BY LenProperties
<1> QED
  BY <1>1 DEF At

LEMMA AtPrefix ==
  ASSUME NEW T, NEW p \in Seq(T), NEW m \in Seq(T), NEW o \in Nat, At(m, o, p),
         NEW n \in 0 .. Len(m), o + Len(p) <= n
  PROVE  At(SubSeq(m, 1, n), o, p)
<1> DEFINE c == SubSeq(m, 1, n)
<1>1. Len(m) \in Nat /\ Len(p) \in Nat
  BY LenProperties
<1>2. \A i \in 1 .. n : m[i] \in T
  BY <1>1, ElementOfSeq
<1>3. /\ Len(c) = IF 1 <= n THEN n - 1 + 1 ELSE 0
      /\ \A i \in 1 .. n - 1 + 1 : c[i] = m[1 + i - 1]
  BY <1>1, <1>2, SubSeqProperties
<1>4. Len(c) = n
  BY <1>1, <1>3
<1>5. ASSUME NEW i \in 1 .. Len(p) PROVE c[o + i] = p[i]
  <2>1. o + i \in 1 .. n - 1 + 1 /\ 1 + (o + i) - 1 = o + i
    BY <1>1
  <2>2. c[o + i] = m[o + i]
    <3> HIDE DEF c
    <3> QED BY <1>3, <2>1
  <2>3. m[o + i] = p[i]
    BY DEF At
  <2> HIDE DEF c
  <2> QED BY <2>2, <2>3
<1> HIDE DEF c
<1>6. At(c, o, p)
  BY <1>4, <1>5 DEF At
<1> QED
  BY <1>6 DEF c

-------------------------------------------------------------------------------
(* Numbers of one and two bytes                                            *)

LEMMA TwoBytesSplit ==
  ASSUME NEW n \in Nat, n < 65536
  PROVE  /\ n \div 256 \in 0 .. 255 /\ n % 256 \in 0 .. 255
         /\ 256 * (n \div 256) + (n % 256) = n
<1>1. n % 256 \in 0 .. 255
  BY SMT
<1>2. n = 256 * (n \div 256) + (n % 256)
  BY SMT
<1>3. n \div 256 \in 0 .. 255
  BY SMT
<1> QED
  BY <1>1, <1>2, <1>3, SMT

LEMMA Bytes2Number ==
  ASSUME NEW n \in TwoBytes
  PROVE  Bytes2(n) \in Seq(Byte) /\ Len(Bytes2(n)) = 2 /\ Number(Bytes2(n)) = n
<1>1. n \in Nat /\ n < 65536
  BY SMT DEF TwoBytes
<1>2. PICK a \in Byte, b \in Byte : a = n \div 256 /\ b = n % 256 /\ 256 * a + b = n
  <2>1. /\ n \div 256 \in Byte /\ n % 256 \in Byte
        /\ 256 * (n \div 256) + (n % 256) = n
    BY <1>1, TwoBytesSplit, SMT DEF Byte
  <2> QED BY <2>1, Zenon
<1>3. PICK s : s = Bytes2(n) /\ s = <<a, b>>
  <2>1. Bytes2(n) = <<a, b>>
    BY <1>2, SMT DEF Bytes2
  <2> QED BY <2>1, Zenon
<1>4. s \in Seq(Byte) /\ Len(s) = 2 /\ s[1] = a /\ s[2] = b
  BY <1>3, SMT
<1>5. Number(s) = n
  BY <1>2, <1>4, SMT DEF Number
<1> QED
  BY <1>3, <1>4, <1>5

LEMMA BytesNNumber ==
  ASSUME NEW w \in {1, 2}, NEW b, Len(b) \in Nat, Short(b, w)
  PROVE  /\ BytesN(Len(b), w) \in Seq(Byte) /\ Len(BytesN(Len(b), w)) = w
         /\ Number(BytesN(Len(b), w)) = Len(b)
<1> DEFINE n == Len(b)
<1> HIDE DEF n
<1>0. n \in Nat /\ ((w = 1 /\ n < 256) \/ (w = 2 /\ n < 65536))
  BY SMT DEF Short, n
<1> SUFFICES BytesN(n, w) \in Seq(Byte) /\ Len(BytesN(n, w)) = w /\ Number(BytesN(n, w)) = n
  BY DEF n
<1>1. CASE w = 1 /\ n < 256
  <2>1. BytesN(n, w) = <<n>> /\ n \in Byte
    BY <1>0, <1>1, SMT DEF BytesN, Byte
  <2>2. PICK b1 : b1 = BytesN(n, w) /\ b1 = <<n>>
    BY <2>1, Zenon
  <2>3. b1 \in Seq(Byte) /\ Len(b1) = 1 /\ b1[1] = n
    BY <2>1, <2>2, SMT
  <2>4. Number(b1) = n
    BY <2>3, SMT DEF Number
  <2> QED BY <1>1, <2>2, <2>3, <2>4, SMT
<1>2. CASE w = 2 /\ n < 65536
  <2>1. n \in TwoBytes
    BY <1>0, <1>2, SMT DEF TwoBytes
  <2>2. BytesN(n, w) = Bytes2(n)
    BY <1>2, SMT DEF BytesN
  <2>3. Bytes2(n) \in Seq(Byte) /\ Len(Bytes2(n)) = 2 /\ Number(Bytes2(n)) = n
    BY <2>1, Bytes2Number, SMT
  <2> QED BY <1>2, <2>2, <2>3, SMT
<1> QED
  BY <1>0, <1>1, <1>2, SMT

LEMMA NumberType ==
  ASSUME NEW b \in Seq(Byte), Len(b) \in {1, 2}
  PROVE  Number(b) \in TwoBytes
<1>1. CASE Len(b) = 1
  <2>1. PICK k \in Byte : k = b[1]
    BY <1>1, ElementOfSeq, SMT
  <2>2. Number(b) = k
    BY <1>1, <2>1, SMT DEF Number
  <2>3. k \in TwoBytes
    BY SMT DEF Byte, TwoBytes
  <2> QED BY <2>2, <2>3, Zenon
<1>2. CASE Len(b) = 2
  <2>1. b[1] \in Byte /\ b[2] \in Byte
    BY <1>2, ElementOfSeq, SMT
  <2>2. PICK j \in Byte, k \in Byte : j = b[1] /\ k = b[2]
    BY <2>1, Zenon
  <2>3. Number(b) = 256 * j + k
    BY <1>2, <2>2, SMT DEF Number
  <2>4. 256 * j + k \in TwoBytes
    BY SMT DEF Byte, TwoBytes
  <2> QED BY <2>3, <2>4, Zenon
<1> QED
  BY <1>1, <1>2, SMT

B2 == [n \in TwoBytes |-> Bytes2(n)]

LEMMA B2Maps ==
  Maps(B2, TwoBytes, Seq(Byte)) /\ \A n \in TwoBytes : Len(B2[n]) = 2
BY Bytes2Number DEF B2, Maps

LEMMA FlatBytes2 ==
  ASSUME NEW s \in Seq(TwoBytes)
  PROVE  /\ Flat(s, Bytes2) = Joined(s, B2) /\ Joined(s, B2) \in Seq(Byte)
         /\ Len(Joined(s, B2)) = 2 * Len(s)
<1>1. \A i \in DOMAIN s : s[i] \in TwoBytes
  BY LenProperties
<1>2. [i \in DOMAIN s |-> Bytes2(s[i])] = Mapped(s, B2)
  BY <1>1 DEF Mapped, B2
<1>3. Flat(s, Bytes2) = Joined(s, B2)
  BY <1>2 DEF Flat, Joined
<1> QED
  BY <1>3, B2Maps, JoinedType, JoinedWidth

LEMMA PairsAdd ==
  ASSUME NEW b \in Seq(Byte), NEW k \in Nat, Len(b) = 2 * k, NEW x \in TwoBytes,
         Pairs(b) \in Seq(TwoBytes)
  PROVE  Pairs(Cat(b, Bytes2(x))) = Add(Pairs(b), x)
<1> DEFINE c == Cat(b, Bytes2(x))
           r == Add(Pairs(b), x)
<1>1. Bytes2(x) \in Seq(Byte) /\ Len(Bytes2(x)) = 2 /\ Number(Bytes2(x)) = x
  BY Bytes2Number
<1>2. c \in Seq(Byte) /\ Len(c) = 2 * k + 2
  <2>1. c \in Seq(Byte) /\ Len(c) = Len(b) + Len(Bytes2(x))
    BY <1>1, CatType, CatLen
  <2> HIDE DEF c
  <2> QED BY <1>1, <2>1
<1>3. (2 * k + 2) \div 2 = k + 1 /\ (2 * k) \div 2 = k
  OBVIOUS
<1>4. Pairs(c) = [i \in 1 .. k + 1 |-> Number(SubSeq(c, 2 * i - 1, 2 * i))]
  <2> HIDE DEF c
  <2> QED BY <1>2, <1>3 DEF Pairs
<1>5. Pairs(b) = [i \in 1 .. k |-> Number(SubSeq(b, 2 * i - 1, 2 * i))]
  BY <1>3 DEF Pairs
<1>6. Len(Pairs(b)) = k
  <2>1. DOMAIN Pairs(b) = 1 .. k
    BY <1>5
  <2>2. Len(Pairs(b)) \in Nat /\ DOMAIN Pairs(b) = 1 .. Len(Pairs(b))
    BY LenProperties
  <2> DEFINE l == Len(Pairs(b))
  <2> HIDE DEF l
  <2>3. l \in Nat /\ 1 .. l = 1 .. k
    BY <2>1, <2>2 DEF l
  <2>4. l = k
    BY <2>3
  <2> QED BY <2>4 DEF l
<1>7. /\ r \in Seq(TwoBytes) /\ Len(r) = k + 1 /\ r[k + 1] = x
      /\ \A i \in 1 .. k : r[i] = Pairs(b)[i]
  <2> DEFINE q == Pairs(b)
  <2> HIDE DEF q
  <2>1. q \in Seq(TwoBytes) /\ Len(q) = k
    BY <1>6 DEF q
  <2>2. /\ Add(q, x) \in Seq(TwoBytes) /\ Len(Add(q, x)) = Len(q) + 1
        /\ Add(q, x)[Len(q) + 1] = x /\ \A i \in 1 .. Len(q) : Add(q, x)[i] = q[i]
    <3>1. q \in Seq(TwoBytes) /\ x \in TwoBytes
      BY <2>1
    <3> QED BY <3>1, AddProperties
  <2> QED BY <2>1, <2>2 DEF q
<1>8. ASSUME NEW i \in 1 .. k + 1 PROVE Number(SubSeq(c, 2 * i - 1, 2 * i)) = r[i]
  <2>1. CASE i = k + 1
    <3>1. At(c, Len(b), Bytes2(x))
      <4>1. At(c, 0, c)
        <5> HIDE DEF c
        <5> QED BY <1>2, AtWhole
      <4>2. 0 + Len(b) = Len(b) /\ Len(c) \in Nat
        BY <1>2
      <4>3. At(c, 0 + Len(b), Bytes2(x))
        BY <1>1, <4>1, <4>2, AtCat
      <4> QED BY <4>2, <4>3
    <3>2. SubSeq(c, Len(b) + 1, Len(b) + 2) = Bytes2(x)
      <4>1. Len(b) \in Nat
        BY LenProperties
      <4>2. SubSeq(c, Len(b) + 1, Len(b) + Len(Bytes2(x))) = Bytes2(x)
        <5> HIDE DEF c
        <5> QED BY <1>1, <1>2, <3>1, <4>1, AtSubSeq
      <4> HIDE DEF c
      <4> QED BY <1>1, <4>2
    <3>3. 2 * i - 1 = Len(b) + 1 /\ 2 * i = Len(b) + 2
      BY <2>1
    <3> HIDE DEF c, r
    <3> QED BY <1>1, <1>7, <2>1, <3>2, <3>3
  <2>2. CASE i # k + 1
    <3>1. i \in 1 .. k
      BY <2>2
    <3>2. 2 * i - 1 \in 1 .. Len(b) /\ 2 * i \in 1 .. Len(b)
      BY <3>1
    <3>3. SubSeq(c, 2 * i - 1, 2 * i) = SubSeq(b, 2 * i - 1, 2 * i)
      BY <1>1, <3>2, SubSeqOfConcat1 DEF Cat
    <3> HIDE DEF c, r
    <3> QED BY <1>5, <1>7, <3>1, <3>3
  <2> QED BY <2>1, <2>2
<1>9. Pairs(c) = [i \in 1 .. k + 1 |-> r[i]]
  <2> HIDE DEF c, r
  <2> QED BY <1>4, <1>8
<1>10. r = [i \in 1 .. k + 1 |-> r[i]]
  <2> HIDE DEF r
  <2> QED BY <1>7, LenProperties
<1> QED
  <2> HIDE DEF c, r
  <2>1. Pairs(c) = r
    BY <1>9, <1>10
  <2> QED BY <2>1 DEF c, r

(* Pairs undoes what Bytes2 has done.                                      *)
LEMMA PairsOfBytes ==
  ASSUME NEW s \in Seq(TwoBytes)
  PROVE  Pairs(Joined(s, B2)) = s
<1> DEFINE Z == {r \in Seq(TwoBytes) : Pairs(Joined(r, B2)) = r}
<1>1. Nil \in Z
  <2>1. Pairs(<<>>) = <<>>
    BY DEF Pairs
  <2> QED BY <2>1, NilType, JoinedNil DEF Nil
<1>2. ASSUME NEW r \in Z, NEW x \in TwoBytes PROVE Add(r, x) \in Z
  <2>1. Add(r, x) \in Seq(TwoBytes) /\ Len(r) \in Nat
    BY AddProperties, LenProperties
  <2>2. Joined(r, B2) \in Seq(Byte) /\ Len(Joined(r, B2)) = 2 * Len(r)
    BY FlatBytes2
  <2>3. Joined(Add(r, x), B2) = Cat(Joined(r, B2), B2[x])
    BY B2Maps, JoinedAdd
  <2>4. B2[x] = Bytes2(x)
    BY DEF B2
  <2>5. Pairs(Joined(r, B2)) = r /\ r \in Seq(TwoBytes)
    OBVIOUS
  <2>6. Pairs(Cat(Joined(r, B2), Bytes2(x))) = Add(Pairs(Joined(r, B2)), x)
    BY <2>1, <2>2, <2>5, PairsAdd
  <2>7. Pairs(Joined(Add(r, x), B2)) = Add(r, x)
    BY <2>3, <2>4, <2>5, <2>6
  <2> QED BY <2>1, <2>7
<1>3. Z = Seq(TwoBytes)
  <2> HIDE DEF Z
  <2> QED BY <1>1, <1>2, AddInduct DEF Z
<1> QED
  BY <1>3

-------------------------------------------------------------------------------
(* Lists of entries                                                        *)

(* What walk makes of the bytes from o, given what it makes of those that  *)
(* follow the first entry.                                                 *)
DataLength(b, o, h, w) == Number(SubSeq(b, o + h - w + 1, o + h))
EntryAt(b, o, h, w) ==
  [head |-> SubSeq(b, o + 1, o + h - w),
   data |-> SubSeq(b, o + h + 1, o + h + DataLength(b, o, h, w))]
Walked(W, b, o, h, w) ==
  IF o + h > Len(b) THEN <<>>
  ELSE IF o + h + DataLength(b, o, h, w) > Len(b) THEN <<Overrun>>
  ELSE <<EntryAt(b, o, h, w)>> \o W[o + h + DataLength(b, o, h, w)]
IsWalk(W, b, h, w) == \A o \in 0 .. Len(b) : W[o] = Walked(W, b, o, h, w)

LEMMA DataLengthType ==
  ASSUME NEW b \in Seq(Byte), NEW h \in Nat, NEW w \in {1, 2}, w <= h,
         NEW o \in Nat, o + h <= Len(b)
  PROVE  DataLength(b, o, h, w) \in Nat
<1> DEFINE m == o + h - w + 1
           n == o + h
           p == SubSeq(b, m, n)
<1>1. m \in Int /\ n \in Int /\ n - m + 1 = w /\ m <= n
  BY SMT
<1>2. \A i \in m .. n : b[i] \in Byte
  <2>1. \A i \in m .. n : i \in 1 .. Len(b)
    BY LenProperties, SMT
  <2> QED BY <2>1, ElementOfSeq, SMT
<1>3. p \in Seq(Byte) /\ Len(p) = w
  <2> HIDE DEF m, n
  <2> QED BY <1>1, <1>2, SubSeqProperties, SMT
<1>4. Number(p) \in TwoBytes
  <2> HIDE DEF p
  <2>1. Len(p) \in {1, 2}
    BY <1>3
  <2>2. p \in Seq(Byte)
    BY <1>3
  <2> QED BY <2>1, <2>2, NumberType
<1>5. \A k \in TwoBytes : k \in Nat
  BY SMT DEF TwoBytes
<1> QED
  BY <1>4, <1>5, SMT DEF DataLength

LEMMA EntriesWalk ==
  ASSUME NEW b \in Seq(Byte), NEW h \in Nat, NEW w \in {1, 2}, w <= h
  PROVE  \E W : IsWalk(W, b, h, w) /\ Entries(b, h, w) = W[0]
<1> DEFINE n == Len(b)
<1>1. n \in Nat
  BY LenProperties
<1> DEFINE Part(f, k) == \A o \in n - k .. n : f[o] = Walked(f, b, o, h, w)
           Z == {k \in Nat : k <= n => \E f : Part(f, k)}
(* Two functions that agree on what follows o make the same of o.          *)
<1>2. ASSUME NEW f, NEW g, NEW o \in 0 .. n,
             \A p \in 0 .. n : p > o => f[p] = g[p]
      PROVE  Walked(f, b, o, h, w) = Walked(g, b, o, h, w)
  <2>1. CASE o + h > n
    BY <2>1 DEF Walked
  <2>2. CASE ~(o + h > n)
    <3> DEFINE d == DataLength(b, o, h, w)
    <3>1. d \in Nat
      <4>1. o + h <= Len(b) /\ o \in Nat
        BY <1>1, <2>2
      <4> QED BY <4>1, DataLengthType
    <3> HIDE DEF d
    <3>2. CASE o + h + d > n
      BY <2>2, <3>2 DEF Walked, d
    <3>3. CASE ~(o + h + d > n)
      <4>1. o + h + d \in 0 .. n /\ o + h + d > o
        BY <1>1, <2>2, <3>1, <3>3
      <4>2. f[o + h + d] = g[o + h + d]
        BY <1>2, <4>1
      <4> QED BY <2>2, <3>3, <4>2 DEF Walked, d
    <3> QED BY <3>2, <3>3
  <2> QED BY <2>1, <2>2
<1>3. 0 \in Z
  <2> DEFINE g == [o \in {n} |-> Walked(<<>>, b, o, h, w)]
  <2>1. Walked(g, b, n, h, w) = Walked(<<>>, b, n, h, w)
    <3>1. n \in 0 .. n /\ \A p \in 0 .. n : ~(p > n)
      BY <1>1
    <3> HIDE DEF g, n
    <3> QED BY <1>2, <3>1
  <2>2. Part(g, 0)
    <3>1. \A o \in n - 0 .. n : o = n
      BY <1>1
    <3> HIDE DEF n
    <3> QED BY <2>1, <3>1
  <2> HIDE DEF Part
  <2> QED BY <2>2
<1>4. ASSUME NEW k \in Z PROVE k + 1 \in Z
  <2>1. ASSUME k + 1 <= n, NEW f, Part(f, k) PROVE \E g : Part(g, k + 1)
    <3> DEFINE q == n - (k + 1)
               g == [o \in q .. n |-> IF o = q THEN Walked(f, b, q, h, w) ELSE f[o]]
    <3>1. q \in 0 .. n /\ \A p \in 0 .. n : p > q => p \in n - k .. n /\ p \in q .. n /\ p # q
      BY <1>1, <2>1
    <3>2. \A p \in 0 .. n : p > q => f[p] = g[p]
      <4> HIDE DEF q, n
      <4> QED BY <3>1
    <3>3. ASSUME NEW o \in q .. n PROVE g[o] = Walked(g, b, o, h, w)
      <4>1. o \in 0 .. n /\ (o = q \/ o > q) /\ (o > q => o \in n - k .. n)
        BY <1>1, <2>1
      <4>2. Walked(f, b, o, h, w) = Walked(g, b, o, h, w)
        <5>1. \A p \in 0 .. n : p > o => f[p] = g[p]
          <6>1. \A p \in 0 .. n : p > o => p > q
            BY <1>1, <4>1
          <6> HIDE DEF g, q, n
          <6> QED BY <3>2, <6>1
        <5> HIDE DEF g, q, n
        <5> QED BY <1>2, <4>1, <5>1
      <4>3. CASE o = q
        <5>1. g[o] = Walked(f, b, o, h, w)
          <6> HIDE DEF q, n
          <6> QED BY <4>3
        <5> HIDE DEF g
        <5> QED BY <4>2, <5>1
      <4>4. CASE o > q
        <5>1. g[o] = f[o]
          <6> HIDE DEF g, q, n
          <6> QED BY <3>2, <4>1, <4>4
        <5>2. f[o] = Walked(f, b, o, h, w)
          BY <2>1, <4>1, <4>4
        <5> HIDE DEF g
        <5> QED BY <4>2, <5>1, <5>2
      <4> QED BY <4>1, <4>3, <4>4
    <3> HIDE DEF g
    <3>4. Part(g, k + 1)
      BY <3>3
    <3> QED BY <3>4
  <2>2. ASSUME k + 1 <= n PROVE \E g : Part(g, k + 1)
    <3>1. k <= n
      BY <1>1, <2>2
    <3>2. PICK f : Part(f, k)
      <4> HIDE DEF Part
      <4> QED BY <3>1
    <3> HIDE DEF Part
    <3> QED BY <2>1, <2>2, <3>2
  <2> HIDE DEF Part
  <2> QED BY <2>2
<1>5. Z = Nat
  <2> HIDE DEF Z
  <2> QED BY <1>3, <1>4, Induct DEF Z
<1>6. PICK f : Part(f, n)
  <2>1. n \in Z /\ n <= n
    BY <1>1, <1>5
  <2> HIDE DEF Part
  <2> QED BY <2>1
<1> DEFINE e == [o \in 0 .. n |-> f[o]]
           Rec(walk) ==
             walk = [o \in 0 .. Len(b) |->
               IF o + h > Len(b) THEN <<>>
               ELSE LET d == Number(SubSeq(b, o + h - w + 1, o + h))
                    IN  IF o + h + d > Len(b) THEN <<Overrun>>
                        ELSE <<[head |-> SubSeq(b, o + 1, o + h - w),
                                data |-> SubSeq(b, o + h + 1, o + h + d)]>>
                               \o walk[o + h + d]]
<1>7. \A o \in 0 .. n : e[o] = Walked(e, b, o, h, w)
  <2> SUFFICES ASSUME NEW o \in 0 .. n PROVE e[o] = Walked(e, b, o, h, w)
    OBVIOUS
  <2>1. o \in n - n .. n
    BY <1>1
  <2>2. f[o] = Walked(f, b, o, h, w)
    BY <1>6, <2>1
  <2>3. \A p \in 0 .. n : p > o => f[p] = e[p]
    OBVIOUS
  <2>4. Walked(f, b, o, h, w) = Walked(e, b, o, h, w)
    <3> HIDE DEF e, n
    <3> QED BY <1>2, <2>3
  <2>5. e[o] = f[o]
    OBVIOUS
  <2> HIDE DEF e, n
  <2> QED BY <2>2, <2>4, <2>5
<1>8. \A g : Rec(g) <=> g = [o \in 0 .. n |-> Walked(g, b, o, h, w)]
  BY Zenon DEF Walked, DataLength, EntryAt
<1>9. Rec(e)
  <2>1. e = [o \in 0 .. n |-> Walked(e, b, o, h, w)]
    <3>1. e = [o \in 0 .. n |-> e[o]]
      OBVIOUS
    <3> HIDE DEF e, n
    <3> QED BY <1>7, <3>1
  <2> HIDE DEF e, Rec
  <2> QED BY <1>8, <2>1
<1> DEFINE W == CHOOSE walk : Rec(walk)
<1>10. Rec(W)
  <2> HIDE DEF Rec, e
  <2> QED BY <1>9
<1>11. Entries(b, h, w) = W[0]
  BY DEF Entries
<1>12. IsWalk(W, b, h, w)
  <2>1. W = [o \in 0 .. n |-> Walked(W, b, o, h, w)]
    <3> HIDE DEF W, Rec
    <3> QED BY <1>8, <1>10
  <2> HIDE DEF W
  <2> QED BY <2>1 DEF IsWalk
<1> QED
  <2> HIDE DEF W
  <2> QED BY <1>11, <1>12

(* Entries as they are sent.                                               *)
RawEntries(h, w) ==
  {e \in [head : [1 .. h - w -> Byte], data : Seq(Byte)] : Short(e.data, w)}
EntryBytes(h, w) == [e \in RawEntries(h, w) |-> e.head \o Prefixed(e.data, w)]

LEMMA EntryParts ==
  ASSUME NEW h \in Nat, NEW w \in {1, 2}, w <= h, NEW e \in RawEntries(h, w)
  PROVE  /\ e.head \in Seq(Byte) /\ Len(e.head) = h - w
         /\ e.data \in Seq(Byte) /\ Len(e.data) \in Nat
         /\ BytesN(Len(e.data), w) \in Seq(Byte) /\ Len(BytesN(Len(e.data), w)) = w
         /\ Number(BytesN(Len(e.data), w)) = Len(e.data)
         /\ EntryBytes(h, w)[e] = Cat(e.head, Cat(BytesN(Len(e.data), w), e.data))
         /\ EntryBytes(h, w)[e] \in Seq(Byte)
         /\ Len(EntryBytes(h, w)[e]) = h + Len(e.data)
         /\ e = [head |-> e.head, data |-> e.data]
<1>1. /\ e.head \in [1 .. h - w -> Byte] /\ e.data \in Seq(Byte) /\ Short(e.data, w)
      /\ e = [head |-> e.head, data |-> e.data]
  BY DEF RawEntries
<1>2. h - w \in Nat
  BY SMT
<1> DEFINE d == e.data
           c == e.head
           l == BytesN(Len(d), w)
<1>3. c \in Seq(Byte) /\ Len(c) = h - w
  <2> DEFINE k == h - w
  <2> HIDE DEF k
  <2>1. c \in [1 .. k -> Byte] /\ k \in Nat
    BY <1>1, <1>2 DEF k
  <2>2. c \in Seq(Byte)
    BY <2>1, SeqDef
  <2>3. Len(c) = k
    BY <2>1, <2>2
  <2> QED BY <2>2, <2>3 DEF k
<1>4. Len(d) \in Nat /\ d \in Seq(Byte)
  BY <1>1, LenProperties
<1>5. l \in Seq(Byte) /\ Len(l) = w /\ Number(l) = Len(d)
  BY <1>1, <1>4, BytesNNumber
<1>6. EntryBytes(h, w)[e] = Cat(c, Cat(l, d))
  BY DEF EntryBytes, Prefixed, Cat
<1> HIDE DEF l, c, d
<1>7. Cat(l, d) \in Seq(Byte) /\ Len(Cat(l, d)) = w + Len(d)
  BY <1>4, <1>5, CatType, CatLen
<1>8. Cat(c, Cat(l, d)) \in Seq(Byte) /\ Len(Cat(c, Cat(l, d))) = (h - w) + (w + Len(d))
  BY <1>3, <1>7, CatType, CatLen
<1>9. (h - w) + (w + Len(d)) = h + Len(d)
  BY <1>4, SMT
<1> QED
  BY <1>1, <1>3, <1>4, <1>5, <1>6, <1>8, <1>9 DEF l, c, d

LEMMA EntryBytesMaps ==
  ASSUME NEW h \in Nat, NEW w \in {1, 2}, w <= h
  PROVE  Maps(EntryBytes(h, w), RawEntries(h, w), Seq(Byte))
BY EntryParts DEF Maps

(* Entries undoes what EntryBytes has done.                                *)
LEMMA EntriesOfBytes ==
  ASSUME NEW h \in Nat, NEW w \in {1, 2}, w <= h, NEW es \in Seq(RawEntries(h, w))
  PROVE  Entries(Joined(es, EntryBytes(h, w)), h, w) = es
<1> DEFINE R == RawEntries(h, w)
           enc == EntryBytes(h, w)
           b == Joined(es, enc)
<1>0. Maps(enc, R, Seq(Byte))
  BY EntryBytesMaps
<1>1. b \in Seq(Byte)
  <2> HIDE DEF enc, R
  <2> QED BY <1>0, JoinedType DEF R
<1>2. Len(b) \in Nat
  BY <1>1, LenProperties
<1> HIDE DEF b
<1>3. PICK W : IsWalk(W, b, h, w) /\ Entries(b, h, w) = W[0]
  BY <1>1, EntriesWalk
<1> DEFINE Rest(o, r) == At(b, o, Joined(r, enc)) /\ o + Len(Joined(r, enc)) = Len(b)
           Z == {r \in Seq(R) : \A o \in 0 .. Len(b) : Rest(o, r) => W[o] = r}
<1>4. Nil \in Z
  <2>1. ASSUME NEW o \in 0 .. Len(b), Rest(o, Nil) PROVE W[o] = Nil
    <3>1. o = Len(b)
      <4>1. Len(Joined(Nil, enc)) = 0
        BY JoinedNil, NilLen
      <4> QED BY <1>2, <2>1, <4>1
    <3>2. o + h > Len(b)
      BY <1>2, <3>1
    <3>3. Walked(W, b, o, h, w) = <<>>
      BY <3>2 DEF Walked
    <3> QED BY <1>3, <3>3 DEF IsWalk, Nil
  <2> HIDE DEF Rest
  <2> QED BY <2>1, NilType
<1>5. ASSUME NEW r \in Z, NEW x \in R PROVE Cat(One(x), r) \in Z
  <2> DEFINE q == Cat(One(x), r)
             j == Joined(r, enc)
  <2>0. r \in Seq(R) /\ \A o \in 0 .. Len(b) : Rest(o, r) => W[o] = r
    <3> HIDE DEF Rest
    <3> QED OBVIOUS
  <2>1. q \in Seq(R)
    BY <2>0, OneType, CatType
  <2>2. Joined(q, enc) = Cat(enc[x], j)
    <3> HIDE DEF enc, R
    <3> QED BY <1>0, <2>0, JoinedFront
  <2>3. enc[x] \in Seq(Byte) /\ j \in Seq(Byte)
    <3> HIDE DEF enc, R
    <3> QED BY <1>0, <2>0, JoinedType DEF Maps
  <2> DEFINE d == x.data
             c == x.head
             l == BytesN(Len(d), w)
  <2>4. /\ c \in Seq(Byte) /\ Len(c) = h - w
        /\ d \in Seq(Byte) /\ Len(d) \in Nat
        /\ l \in Seq(Byte) /\ Len(l) = w
        /\ Number(l) = Len(d)
        /\ enc[x] = Cat(c, Cat(l, d))
        /\ Len(enc[x]) = h + Len(d)
        /\ x = [head |-> c, data |-> d]
    BY EntryParts
  <2>a. Cat(l, d) \in Seq(Byte)
    <3> HIDE DEF l, d
    <3> QED BY <2>4, CatType
  <2>5. ASSUME NEW o \in 0 .. Len(b), Rest(o, q) PROVE W[o] = q
    <3> HIDE DEF enc, R, j, c, d, l, q
    <3>0. o \in Nat
      BY <1>2
    <3>1. At(b, o, Cat(enc[x], j)) /\ o + Len(Cat(enc[x], j)) = Len(b)
      BY <2>2, <2>5
    <3>2. At(b, o, enc[x]) /\ At(b, o + Len(enc[x]), j)
      BY <1>2, <2>3, <3>0, <3>1, AtCat
    <3>3. Len(Cat(enc[x], j)) = Len(enc[x]) + Len(j) /\ Len(j) \in Nat
      BY <2>3, CatLen, LenProperties
    <3>4. At(b, o, c) /\ At(b, o + (h - w), Cat(l, d))
      <4>1. At(b, o, Cat(c, Cat(l, d)))
        BY <2>4, <3>2
      <4> QED BY <1>2, <2>4, <2>a, <3>0, <4>1, AtCat
    <3>5. o + (h - w) \in Nat
      BY <3>0, SMT
    <3>6. At(b, o + (h - w), l) /\ At(b, (o + (h - w)) + w, d)
      BY <1>2, <2>4, <3>4, <3>5, AtCat
    <3>7. /\ (o + (h - w)) + w = o + h /\ o + (h - w) = o + h - w /\ o + h \in Nat
          /\ (o + (h - w)) + 1 = o + h - w + 1
      BY <3>0, SMT
    <3>8. SubSeq(b, o + 1, o + (h - w)) = c
      BY <1>1, <2>4, <3>0, <3>4, AtSubSeq
    <3>9. SubSeq(b, (o + (h - w)) + 1, (o + (h - w)) + w) = l
      BY <1>1, <2>4, <3>5, <3>6, AtSubSeq
    <3>10. SubSeq(b, (o + h) + 1, (o + h) + Len(d)) = d
      BY <1>1, <2>4, <3>6, <3>7, AtSubSeq
    <3>11. DataLength(b, o, h, w) = Len(d)
      BY <2>4, <3>7, <3>9 DEF DataLength
    <3>12. EntryAt(b, o, h, w) = x
      BY <2>4, <3>7, <3>8, <3>10, <3>11 DEF EntryAt
    <3>13. (o + h) + Len(d) \in 0 .. Len(b) /\ o + h <= Len(b)
      BY <1>2, <2>4, <3>0, <3>1, <3>3
    <3>14. Rest((o + h) + Len(d), r)
      <4>a. PICK k \in Nat : k = Len(d)
        BY <2>4
      <4>b. PICK i \in Nat : i = Len(j)
        BY <3>3
      <4>c. Len(enc[x]) = h + k /\ o + (Len(enc[x]) + i) = Len(b)
        BY <2>4, <3>1, <3>3, <4>a, <4>b
      <4>d. o + (h + k) = (o + h) + k /\ o + ((h + k) + i) = ((o + h) + k) + i
        BY <3>0, SMT
      <4>1. o + Len(enc[x]) = (o + h) + Len(d) /\ ((o + h) + Len(d)) + Len(j) = Len(b)
        BY <4>a, <4>b, <4>c, <4>d
      <4> QED BY <3>2, <4>1 DEF j
    <3>15. W[(o + h) + Len(d)] = r
      <4> HIDE DEF Rest
      <4> QED BY <2>0, <3>13, <3>14
    <3>16. W[o] = <<x>> \o W[(o + h) + Len(d)]
      <4>1. W[o] = Walked(W, b, o, h, w)
        BY <1>3 DEF IsWalk
      <4>2. ~(o + h > Len(b)) /\ ~((o + h) + Len(d) > Len(b))
        BY <1>2, <2>4, <3>0, <3>13
      <4> QED BY <3>11, <3>12, <4>1, <4>2 DEF Walked
    <3> QED BY <3>15, <3>16 DEF q, Cat, One
  <2>6. q \in Z
    <3> HIDE DEF Rest, q
    <3> QED BY <2>1, <2>5
  <2> QED BY <2>6
<1>6. Z = Seq(R)
  <2> HIDE DEF Z, R
  <2> QED BY <1>4, <1>5, CatInduct DEF Z
<1>7. Rest(0, es)
  <2>1. At(b, 0, b) /\ 0 + Len(b) = Len(b)
    BY <1>1, <1>2, AtWhole
  <2> QED BY <2>1 DEF b
<1>8. W[0] = es
  <2>1. es \in Seq(R) /\ 0 \in 0 .. Len(b)
    BY <1>2
  <2> HIDE DEF Rest, R
  <2> QED BY <1>6, <1>7, <2>1
<1> QED
  BY <1>3, <1>8 DEF b

-------------------------------------------------------------------------------
(* The content of an extension                                             *)

Read == Wide \cup Narrow \cup Nested

LEMMA Kinds ==
  /\ Wide \cap Narrow = {} /\ Wide \cap Nested = {} /\ Narrow \cap Nested = {}
  /\ \A t : LengthWidth(t) \in {1, 2} /\ EntryWidth(t) \in {1, 2}
  /\ \A t \in Nested : /\ HeaderWidth(t) \in Nat /\ EntryWidth(t) <= HeaderWidth(t)
                       /\ 1 .. HeaderWidth(t) - EntryWidth(t) =
                            IF t = SNI THEN 1 .. 1 ELSE IF t = ALPN THEN 1 .. 0 ELSE 1 .. 2
BY SMT DEF Wide, Narrow, Nested, LengthWidth, EntryWidth, HeaderWidth, SNI, Groups,
           PointFormats, SignatureAlgorithms, ALPN, CompressCertificate,
           SupportedVersions, PSKModes, KeyShare

LEMMA NestedLists ==
  ASSUME NEW t \in Nested, NEW c \in Contents(t),
         \A i \in DOMAIN c : Short(c[i].data, EntryWidth(t))
  PROVE  /\ c \in Seq(RawEntries(HeaderWidth(t), EntryWidth(t)))
         /\ EncodeList(t, c) = Joined(c, EntryBytes(HeaderWidth(t), EntryWidth(t)))
         /\ EncodeList(t, c) \in Seq(Byte)
         /\ Entries(EncodeList(t, c), HeaderWidth(t), EntryWidth(t)) = c
<1> DEFINE h == HeaderWidth(t)
           w == EntryWidth(t)
           R == RawEntries(h, w)
           enc == EntryBytes(h, w)
           K == [head : [1 .. h - w -> Byte], data : Seq(Byte)]
<1>1. h \in Nat /\ w \in {1, 2} /\ w <= h /\ t \notin Wide /\ t \notin Narrow
  BY Kinds, Zenon
<1>2. c \in Seq(K)
  BY <1>1, Zenon DEF Contents
<1> HIDE DEF h, w
<1>3. c \in Seq(R)
  <2>1. Len(c) \in Nat /\ DOMAIN c = 1 .. Len(c) /\ \A i \in 1 .. Len(c) : c[i] \in K
    BY <1>2, LenProperties, ElementOfSeq
  <2>2. \A i \in 1 .. Len(c) : Short(c[i].data, w)
    BY <2>1 DEF w
  <2>3. \A i \in 1 .. Len(c) : c[i] \in R
    BY <2>1, <2>2, Zenon DEF RawEntries
  <2>4. c \in [1 .. Len(c) -> R]
    <3> HIDE DEF R, K
    <3>1. c = [i \in 1 .. Len(c) |-> c[i]]
      BY <1>2, LenProperties
    <3> QED BY <2>3, <3>1
  <2> HIDE DEF R, K
  <2> QED BY <2>1, <2>4, SeqDef
<1>4. Maps(enc, R, Seq(Byte))
  BY <1>1, EntryBytesMaps
<1>5. EncodeList(t, c) = Joined(c, enc)
  <2>1. EncodeList(t, c) = FlattenSeq([i \in DOMAIN c |-> EncodeEntry(t, c[i])])
    BY <1>1, Zenon DEF EncodeList, Flat
  <2>2. \A i \in DOMAIN c : c[i] \in R
    <3> HIDE DEF R
    <3> QED BY <1>3, LenProperties
  <2>3. \A x \in R : enc[x] = EncodeEntry(t, x)
    BY DEF EntryBytes, EncodeEntry, w
  <2>4. [i \in DOMAIN c |-> EncodeEntry(t, c[i])] = Mapped(c, enc)
    <3> HIDE DEF R, enc
    <3> QED BY <2>2, <2>3 DEF Mapped
  <2> QED BY <2>1, <2>4 DEF Joined
<1>6. Joined(c, enc) \in Seq(Byte)
  <2> HIDE DEF R, enc
  <2> QED BY <1>3, <1>4, JoinedType
<1>7. Entries(Joined(c, enc), h, w) = c
  BY <1>1, <1>3, EntriesOfBytes
<1> QED
  BY <1>3, <1>5, <1>6, <1>7 DEF h, w

LEMMA WideLists ==
  ASSUME NEW t \in Wide, NEW c \in Contents(t)
  PROVE  /\ c \in Seq(TwoBytes) /\ EncodeList(t, c) = Joined(c, B2)
         /\ EncodeList(t, c) \in Seq(Byte) /\ Len(EncodeList(t, c)) = 2 * Len(c)
         /\ Pairs(EncodeList(t, c)) = c
<1>1. c \in Seq(TwoBytes)
  BY Zenon DEF Contents
<1>2. EncodeList(t, c) = Flat(c, Bytes2)
  BY Zenon DEF EncodeList
<1> QED
  BY <1>1, <1>2, FlatBytes2, PairsOfBytes

LEMMA NarrowLists ==
  ASSUME NEW t \in Narrow, NEW c \in Contents(t)
  PROVE  c \in Seq(Byte) /\ EncodeList(t, c) = c
<1>1. t \notin Wide /\ t \notin Nested
  BY Kinds, Zenon
<1> QED
  BY <1>1, Zenon DEF EncodeList, Contents

(* What is read of a list with its length before it.                       *)
LEMMA PrefixedList ==
  ASSUME NEW t, NEW l \in Seq(Byte), Short(l, LengthWidth(t))
  PROVE  LET p == Prefixed(l, LengthWidth(t))
         IN  /\ p \in Seq(Byte) /\ Len(p) = LengthWidth(t) + Len(l)
             /\ ListLength(t, p) = Len(l) /\ ListOf(t, p) = l
<1> DEFINE w == LengthWidth(t)
           k == BytesN(Len(l), w)
           p == Cat(k, l)
<1>1. w \in {1, 2} /\ w \in Nat
  BY Kinds
<1>2. Prefixed(l, w) = p
  BY DEF Prefixed, Cat
<1>3. Len(l) \in Nat
  BY LenProperties
<1> HIDE DEF w
<1>4. k \in Seq(Byte) /\ Len(k) = w /\ Number(k) = Len(l)
  BY <1>1, <1>3, BytesNNumber DEF w
<1> HIDE DEF k
<1>5. p \in Seq(Byte) /\ Len(p) = w + Len(l)
  BY <1>4, CatType, CatLen
<1>6. At(p, 0, p) /\ Len(p) \in Nat
  BY <1>5, AtWhole, LenProperties
<1>7. At(p, 0, k) /\ At(p, 0 + Len(k), l)
  BY <1>4, <1>6, AtCat
<1> HIDE DEF p
<1>8. SubSeq(p, 1, w) = k
  <2>1. SubSeq(p, 0 + 1, 0 + Len(k)) = k
    BY <1>4, <1>5, <1>7, AtSubSeq
  <2>2. 0 + 1 = 1 /\ 0 + Len(k) = w
    BY <1>1, <1>4
  <2> QED BY <2>1, <2>2
<1>9. SubSeq(p, w + 1, w + Len(l)) = l
  <2>1. 0 + Len(k) = w
    BY <1>1, <1>4
  <2> QED BY <1>1, <1>5, <1>7, <2>1, AtSubSeq
<1>10. ListLength(t, p) = Len(l)
  BY <1>4, <1>8 DEF ListLength, w
<1>11. ListOf(t, p) = l
  BY <1>9, <1>10 DEF ListOf, w
<1> QED
  BY <1>2, <1>5, <1>10, <1>11 DEF w

LEMMA NoOverrun ==
  ASSUME NEW H, NEW D, NEW x \in [head : H, data : D]
  PROVE  x # Overrun
<1>1. DOMAIN x = {"head", "data"}
  OBVIOUS
<1>2. DOMAIN Overrun = {"overrun"}
  BY DEF Overrun
<1>3. "head" # "overrun"
  OBVIOUS
<1> QED
  BY <1>1, <1>2, <1>3

LEMMA ContentRead ==
  ASSUME NEW e, SayableExtension(e)
  PROVE  LET p == EncodeContent(e.type, e.content)
         IN  /\ p \in Seq(Byte) /\ Short(p, 2)
             /\ PayloadOk(e.type, p)
             /\ e.type \in Read => ValuesIn(e.type, p) = e.content
<1> DEFINE t == e.type
           c == e.content
           p == EncodeContent(t, c)
           l == EncodeList(t, c)
           w == LengthWidth(t)
<1>1. /\ t \in TwoBytes /\ c \in Contents(t)
      /\ t \in Read => Short(l, w)
      /\ t \in Nested => \A i \in DOMAIN c : Short(c[i].data, EntryWidth(t))
      /\ Short(p, 2)
  BY Zenon DEF SayableExtension, Read
<1> HIDE DEF t, c
<1>2. CASE t \notin Read
  <2>1. t \notin Wide /\ t \notin Narrow /\ t \notin Nested
    BY <1>2, Zenon DEF Read
  <2>2. p = c
    BY <2>1, Zenon DEF EncodeContent
  <2>3. c \in Seq(Byte)
    BY <1>1, <2>1, Zenon DEF Contents
  <2>4. PayloadOk(t, p)
    BY <2>1, Zenon DEF PayloadOk
  <2> HIDE DEF p
  <2>5. /\ p \in Seq(Byte) /\ Short(p, 2) /\ PayloadOk(t, p)
        /\ t \in Read => ValuesIn(t, p) = c
    BY <1>1, <1>2, <2>2, <2>3, <2>4
  <2> QED BY <2>5 DEF p, t, c
<1>3. CASE t \in Read
  <2>1. p = Prefixed(l, w)
    BY <1>3, Zenon DEF EncodeContent, Read
  <2>2. l \in Seq(Byte)
    BY <1>1, <1>3, WideLists, NarrowLists, NestedLists, Zenon DEF Read
  <2>3. p \in Seq(Byte) /\ Len(p) = w + Len(l) /\ ListLength(t, p) = Len(l) /\ ListOf(t, p) = l
    <3> HIDE DEF l, w, p
    <3> QED BY <1>1, <1>3, <2>1, <2>2, PrefixedList DEF w
  <2>4. w \in Nat /\ Len(l) \in Nat
    <3>1. w \in {1, 2}
      BY Kinds
    <3> HIDE DEF w
    <3> QED BY <2>2, <3>1, LenProperties
  <2> HIDE DEF p, l, w
  <2>5. w + ListLength(t, p) <= Len(p) /\ ~(Len(p) < w)
    BY <2>3, <2>4
  <2>6. CASE t \in Wide
    <3>1. t \notin Nested
      BY <2>6, Kinds, Zenon
    <3>2. Len(l) = 2 * Len(c) /\ Pairs(l) = c /\ c \in Seq(TwoBytes)
      BY <1>1, <2>6, WideLists DEF l
    <3>3. Len(c) \in Nat /\ (2 * Len(c)) % 2 = 0
      <4>1. Len(c) \in Nat
        BY <3>2, LenProperties
      <4> QED BY <4>1, SMT
    <3>4. PayloadOk(t, p)
      BY <2>3, <2>5, <3>1, <3>2, <3>3, Zenon DEF PayloadOk, w
    <3>5. ValuesIn(t, p) = c
      BY <2>3, <2>5, <2>6, <3>2, Zenon DEF ValuesIn, w
    <3> QED BY <1>1, <2>3, <3>4, <3>5, Zenon DEF p, t, c
  <2>7. CASE t \in Narrow
    <3>1. t \notin Wide /\ t \notin Nested
      BY <2>7, Kinds, Zenon
    <3>2. l = c
      BY <1>1, <2>7, NarrowLists DEF l
    <3>4. PayloadOk(t, p)
      BY <2>3, <2>5, <3>1, Zenon DEF PayloadOk, w
    <3>5. ValuesIn(t, p) = c
      BY <2>3, <2>5, <2>7, <3>1, <3>2, Zenon DEF ValuesIn, w
    <3> QED BY <1>1, <2>3, <3>4, <3>5, Zenon DEF p, t, c
  <2>8. CASE t \in Nested
    <3>1. t \notin Wide /\ t \notin Narrow
      BY <2>8, Kinds, Zenon
    <3>2. /\ NestedIn(t, p) = c
          /\ c \in Seq(RawEntries(HeaderWidth(t), EntryWidth(t)))
      BY <1>1, <2>3, <2>8, NestedLists DEF l, NestedIn
    <3>3. Fit(c)
      <4>1. \A i \in DOMAIN c : c[i] \in RawEntries(HeaderWidth(t), EntryWidth(t))
        BY <3>2, LenProperties
      <4>2. \A x \in RawEntries(HeaderWidth(t), EntryWidth(t)) : x # Overrun
        BY NoOverrun DEF RawEntries
      <4> QED BY <4>1, <4>2 DEF Fit
    <3>4. PayloadOk(t, p)
      BY <2>3, <2>5, <3>1, <3>2, <3>3, Zenon DEF PayloadOk, w
    <3>5. ValuesIn(t, p) = c
      BY <2>3, <2>5, <3>1, <3>2, Zenon DEF ValuesIn, w
    <3> QED BY <1>1, <2>3, <3>4, <3>5, Zenon DEF p, t, c
  <2> QED BY <1>3, <2>6, <2>7, <2>8 DEF Read
<1> QED
  BY <1>2, <1>3

-------------------------------------------------------------------------------
(* The extensions of a message                                             *)

Sayables ==
  {e \in [type : TwoBytes, content : UNION {Contents(t) : t \in TwoBytes}] :
     SayableExtension(e)}
Raw == [e \in Sayables |->
          [head |-> Bytes2(e.type), data |-> EncodeContent(e.type, e.content)]]
Types == [e \in Sayables |-> e.type]

LEMMA SayablesAre ==
  ASSUME NEW e
  PROVE  e \in Sayables <=> SayableExtension(e)
BY Zenon DEF Sayables, SayableExtension

LEMMA RawIs ==
  ASSUME NEW e \in Sayables
  PROVE  /\ Raw[e] \in RawEntries(4, 2) /\ Raw[e] = [head |-> Bytes2(e.type),
              data |-> EncodeContent(e.type, e.content)]
         /\ TypeOf(Raw[e]) = e.type /\ e.type \in TwoBytes
         /\ EntryBytes(4, 2)[Raw[e]] = EncodeExtension(e)
<1> DEFINE p == EncodeContent(e.type, e.content)
           b == Bytes2(e.type)
<1>0. SayableExtension(e)
  BY SayablesAre
<1>1. SayableExtension(e) /\ e.type \in TwoBytes
  BY <1>0, Zenon DEF SayableExtension
<1>2. p \in Seq(Byte) /\ Short(p, 2)
  BY <1>1, ContentRead
<1>3. b \in Seq(Byte) /\ Len(b) = 2 /\ Number(b) = e.type
  BY <1>1, Bytes2Number
<1> HIDE DEF p, b
<1>4. b \in [1 .. 4 - 2 -> Byte]
  <2>1. 4 - 2 = 2
    BY SMT
  <2> QED BY <1>3, <2>1, LenProperties
<1>5. Raw[e] = [head |-> b, data |-> p]
  BY DEF Raw, b, p
<1>6. [head |-> b, data |-> p] \in RawEntries(4, 2)
  BY <1>2, <1>4 DEF RawEntries
<1>7. EntryBytes(4, 2)[[head |-> b, data |-> p]] = b \o Prefixed(p, 2)
  BY <1>6 DEF EntryBytes
<1>8. EncodeExtension(e) = b \o Prefixed(p, 2)
  BY DEF EncodeExtension, b, p
<1>9. TypeOf(Raw[e]) = e.type
  BY <1>3, <1>5 DEF TypeOf
<1>10. EntryBytes(4, 2)[Raw[e]] = EncodeExtension(e)
  BY <1>5, <1>7, <1>8
<1>11. Raw[e] \in RawEntries(4, 2)
  BY <1>5, <1>6
<1> QED
  BY <1>1, <1>5, <1>9, <1>10, <1>11 DEF b, p

LEMMA RawMaps ==
  /\ Maps(Raw, Sayables, RawEntries(4, 2)) /\ Maps(Types, Sayables, TwoBytes)
  /\ Maps(EntryBytes(4, 2), RawEntries(4, 2), Seq(Byte))
<1>1. 4 \in Nat /\ 2 \in {1, 2} /\ 2 <= 4
  BY SMT
<1> QED
  BY <1>1, RawIs, EntryBytesMaps DEF Maps, Types

Said == [e \in Sayables |-> EncodeExtension(e)]

LEMMA SaidMaps ==
  Maps(Said, Sayables, Seq(Byte))
<1>1. ASSUME NEW e \in Sayables PROVE Said[e] \in Seq(Byte)
  <2>1. Raw[e] \in RawEntries(4, 2) /\ EntryBytes(4, 2)[Raw[e]] = EncodeExtension(e)
    BY RawIs
  <2>2. EntryBytes(4, 2)[Raw[e]] \in Seq(Byte)
    BY <2>1, RawMaps DEF Maps
  <2> QED BY <2>1, <2>2 DEF Said
<1> QED
  BY <1>1 DEF Maps

(* The bytes of the extensions are those of their types and payloads, and  *)
(* Entries finds these in them.                                            *)
LEMMA ExtensionsEncoded ==
  ASSUME NEW es \in Seq(Sayables)
  PROVE  /\ Flat(es, EncodeExtension) = Joined(es, Said)
         /\ Joined(es, Said) \in Seq(Byte)
         /\ Mapped(es, Raw) \in Seq(RawEntries(4, 2))
         /\ Len(Mapped(es, Raw)) = Len(es)
         /\ Entries(Joined(es, Said), 4, 2) = Mapped(es, Raw)
<1>1. \A i \in DOMAIN es : es[i] \in Sayables
  BY LenProperties
<1>2. [i \in DOMAIN es |-> EncodeExtension(es[i])] = Mapped(es, Said)
  BY <1>1 DEF Mapped, Said
<1>3. Flat(es, EncodeExtension) = Joined(es, Said)
  BY <1>2 DEF Flat, Joined
<1>4. Joined(es, Said) \in Seq(Byte)
  BY SaidMaps, JoinedType
<1>5. /\ Mapped(es, Raw) \in Seq(RawEntries(4, 2)) /\ Len(Mapped(es, Raw)) = Len(es)
      /\ DOMAIN Mapped(es, Raw) = DOMAIN es
      /\ \A i \in 1 .. Len(es) : Mapped(es, Raw)[i] = Raw[es[i]]
  BY RawMaps, MappedType
<1>6. Mapped(Mapped(es, Raw), EntryBytes(4, 2)) = Mapped(es, Said)
  <2> DEFINE x == Mapped(es, Raw)
             d == DOMAIN es
  <2>1. \A i \in d : EntryBytes(4, 2)[x[i]] = Said[es[i]]
    <3>1. d = 1 .. Len(es)
      BY LenProperties
    <3> HIDE DEF x, d
    <3>2. ASSUME NEW i \in d PROVE EntryBytes(4, 2)[x[i]] = Said[es[i]]
      <4>1. x[i] = Raw[es[i]] /\ es[i] \in Sayables
        BY <1>1, <1>5, <3>1 DEF d, x
      <4>2. EntryBytes(4, 2)[Raw[es[i]]] = EncodeExtension(es[i])
        BY <4>1, RawIs
      <4> QED BY <4>1, <4>2 DEF Said
    <3> QED BY <3>2
  <2>2. DOMAIN x = d
    BY <1>5
  <2> HIDE DEF x, d
  <2>3. Mapped(x, EntryBytes(4, 2)) = [i \in d |-> EntryBytes(4, 2)[x[i]]]
    BY <2>2 DEF Mapped
  <2>4. Mapped(es, Said) = [i \in d |-> Said[es[i]]]
    BY DEF Mapped, d
  <2>5. Mapped(x, EntryBytes(4, 2)) = Mapped(es, Said)
    BY <2>1, <2>3, <2>4
  <2> QED BY <2>5 DEF x
<1>7. Joined(Mapped(es, Raw), EntryBytes(4, 2)) = Joined(es, Said)
  BY <1>6 DEF Joined
<1>8. Entries(Joined(Mapped(es, Raw), EntryBytes(4, 2)), 4, 2) = Mapped(es, Raw)
  <2>1. 4 \in Nat /\ 2 \in {1, 2} /\ 2 <= 4
    BY SMT
  <2> QED BY <1>5, <2>1, EntriesOfBytes
<1> QED
  BY <1>3, <1>4, <1>5, <1>7, <1>8

-------------------------------------------------------------------------------
(* The parts of a message                                                  *)

SuiteBytes(h) == Joined(h.suites, B2)
ExtensionBytes(h) == Joined(h.extensions, Said)

LEMMA SayableParts ==
  ASSUME NEW h, Sayable(h)
  PROVE  /\ h.version \in TwoBytes
         /\ h.session \in Seq(Byte) /\ Short(h.session, 1)
         /\ h.suites \in Seq(TwoBytes)
         /\ Flat(h.suites, Bytes2) = SuiteBytes(h)
         /\ SuiteBytes(h) \in Seq(Byte) /\ Short(SuiteBytes(h), 2)
         /\ Len(SuiteBytes(h)) = 2 * Len(h.suites)
         /\ h.compression \in Seq(Byte) /\ Short(h.compression, 1)
         /\ h.extensions \in Seq(Sayables)
         /\ Flat(h.extensions, EncodeExtension) = ExtensionBytes(h)
         /\ ExtensionBytes(h) \in Seq(Byte) /\ Short(ExtensionBytes(h), 2)
<1>1. /\ h \in [version : TwoBytes, session : Seq(Byte), suites : Seq(TwoBytes),
                compression : Seq(Byte), extensions : Seq(ToSet(h.extensions))]
      /\ \A i \in DOMAIN h.extensions : SayableExtension(h.extensions[i])
      /\ Short(h.session, 1) /\ Short(Flat(h.suites, Bytes2), 2)
      /\ Short(h.compression, 1) /\ Short(Flat(h.extensions, EncodeExtension), 2)
  BY Zenon DEF Sayable
<1>2. /\ h.version \in TwoBytes /\ h.session \in Seq(Byte) /\ h.suites \in Seq(TwoBytes)
      /\ h.compression \in Seq(Byte) /\ h.extensions \in Seq(ToSet(h.extensions))
  BY <1>1, Zenon
<1>3. /\ Flat(h.suites, Bytes2) = SuiteBytes(h) /\ SuiteBytes(h) \in Seq(Byte)
      /\ Len(SuiteBytes(h)) = 2 * Len(h.suites)
  BY <1>2, FlatBytes2 DEF SuiteBytes
<1>4. h.extensions \in Seq(Sayables)
  <2>1. \A i \in DOMAIN h.extensions : h.extensions[i] \in Sayables
    BY <1>1, SayablesAre
  <2>2. Len(h.extensions) \in Nat /\ DOMAIN h.extensions = 1 .. Len(h.extensions)
        /\ h.extensions \in [1 .. Len(h.extensions) -> ToSet(h.extensions)]
    BY <1>2, LenProperties
  <2>3. h.extensions \in [1 .. Len(h.extensions) -> Sayables]
    BY <2>1, <2>2
  <2> QED BY <2>2, <2>3, SeqDef
<1>5. /\ Flat(h.extensions, EncodeExtension) = ExtensionBytes(h)
      /\ ExtensionBytes(h) \in Seq(Byte)
  BY <1>4, ExtensionsEncoded DEF ExtensionBytes
<1> QED
  BY <1>1, <1>2, <1>3, <1>4, <1>5

(* Six parts, one after the other.                                         *)
Follow(l, a, b, c, d, e, f) == l = Cat(Cat(Cat(Cat(Cat(a, b), c), d), e), f)

LaidOut(l, a, b, c, d, e, f) ==
  /\ Len(l) = Len(a) + Len(b) + Len(c) + Len(d) + Len(e) + Len(f)
  /\ At(l, 0, a) /\ At(l, Len(a) + Len(b), c)
  /\ At(l, Len(a) + Len(b) + Len(c), d)
  /\ At(l, Len(a) + Len(b) + Len(c) + Len(d), e)
  /\ At(l, Len(a) + Len(b) + Len(c) + Len(d) + Len(e), f)

LEMMA Laid ==
  ASSUME NEW T, NEW a \in Seq(T), NEW b \in Seq(T), NEW c \in Seq(T),
         NEW d \in Seq(T), NEW e \in Seq(T), NEW f \in Seq(T),
         NEW l, Follow(l, a, b, c, d, e, f)
  PROVE  l \in Seq(T) /\ LaidOut(l, a, b, c, d, e, f)
<1> DEFINE p == Cat(a, b)
           q == Cat(p, c)
           r == Cat(q, d)
           s == Cat(r, e)
           m == Cat(s, f)
<1>1. p \in Seq(T) /\ Len(p) = Len(a) + Len(b)
  BY CatType, CatLen
<1> HIDE DEF p
<1>2. q \in Seq(T) /\ Len(q) = Len(p) + Len(c)
  BY <1>1, CatType, CatLen
<1> HIDE DEF q
<1>3. r \in Seq(T) /\ Len(r) = Len(q) + Len(d)
  BY <1>2, CatType, CatLen
<1> HIDE DEF r
<1>4. s \in Seq(T) /\ Len(s) = Len(r) + Len(e)
  BY <1>3, CatType, CatLen
<1> HIDE DEF s
<1>5. m \in Seq(T) /\ Len(m) = Len(s) + Len(f)
  BY <1>4, CatType, CatLen
<1>6. At(m, 0, m)
  <2> HIDE DEF m
  <2> QED BY <1>5, AtWhole
<1>7. /\ Len(a) \in Nat /\ Len(b) \in Nat /\ Len(c) \in Nat /\ Len(d) \in Nat
      /\ Len(e) \in Nat /\ Len(f) \in Nat
  BY LenProperties
<1>8. 0 \in Nat /\ Len(m) \in Nat /\ Len(p) \in Nat /\ Len(q) \in Nat /\ Len(r) \in Nat
      /\ Len(s) \in Nat
  <2> HIDE DEF m
  <2> QED BY <1>1, <1>2, <1>3, <1>4, <1>5, LenProperties
<1>9. At(m, 0, s) /\ At(m, 0 + Len(s), f)
  <2>1. At(m, 0, Cat(s, f))
    BY <1>6 DEF m
  <2> HIDE DEF m
  <2> QED BY <1>4, <1>8, <2>1, AtCat
<1> HIDE DEF m
<1>10. At(m, 0, r) /\ At(m, 0 + Len(r), e)
  <2>1. At(m, 0, Cat(r, e))
    BY <1>9 DEF s
  <2> QED BY <1>3, <1>8, <2>1, AtCat
<1>11. At(m, 0, q) /\ At(m, 0 + Len(q), d)
  <2>1. At(m, 0, Cat(q, d))
    BY <1>10 DEF r
  <2> QED BY <1>2, <1>8, <2>1, AtCat
<1>12. At(m, 0, p) /\ At(m, 0 + Len(p), c)
  <2>1. At(m, 0, Cat(p, c))
    BY <1>11 DEF q
  <2> QED BY <1>1, <1>8, <2>1, AtCat
<1>13. At(m, 0, a)
  <2>1. At(m, 0, Cat(a, b))
    BY <1>12 DEF p
  <2> QED BY <1>8, <2>1, AtCat
<1>14. /\ Len(m) = Len(a) + Len(b) + Len(c) + Len(d) + Len(e) + Len(f)
       /\ 0 + Len(p) = Len(a) + Len(b) /\ 0 + Len(q) = Len(a) + Len(b) + Len(c)
       /\ 0 + Len(r) = Len(a) + Len(b) + Len(c) + Len(d)
       /\ 0 + Len(s) = Len(a) + Len(b) + Len(c) + Len(d) + Len(e)
  BY <1>1, <1>2, <1>3, <1>4, <1>5, <1>7, <1>8
<1>15. m = l
  BY DEF m, s, r, q, p, Follow
<1>16. /\ At(m, 0, a) /\ At(m, Len(a) + Len(b), c)
       /\ At(m, Len(a) + Len(b) + Len(c), d)
       /\ At(m, Len(a) + Len(b) + Len(c) + Len(d), e)
       /\ At(m, Len(a) + Len(b) + Len(c) + Len(d) + Len(e), f)
  BY <1>9, <1>10, <1>11, <1>12, <1>13, <1>14
<1> QED
  BY <1>5, <1>14, <1>15, <1>16 DEF LaidOut

(* A prefixed part is its length and then its bytes.                       *)
LEMMA AtPrefixed ==
  ASSUME NEW m, Len(m) \in Nat, NEW o \in Nat, NEW w \in {1, 2}, NEW b \in Seq(Byte),
         Short(b, w), At(m, o, Prefixed(b, w))
  PROVE  At(m, o, BytesN(Len(b), w)) /\ At(m, o + w, b)
<1>1. Len(b) \in Nat
  BY LenProperties
<1>2. BytesN(Len(b), w) \in Seq(Byte) /\ Len(BytesN(Len(b), w)) = w
  BY <1>1, BytesNNumber
<1>3. Prefixed(b, w) = Cat(BytesN(Len(b), w), b)
  BY DEF Prefixed, Cat
<1>4. At(m, o, Cat(BytesN(Len(b), w), b))
  BY <1>3
<1> QED
  BY <1>2, <1>4, AtCat

LEMMA PrefixedLen ==
  ASSUME NEW w \in {1, 2}, NEW b \in Seq(Byte), Short(b, w)
  PROVE  Prefixed(b, w) \in Seq(Byte) /\ Len(Prefixed(b, w)) = w + Len(b)
<1>1. Len(b) \in Nat
  BY LenProperties
<1>2. BytesN(Len(b), w) \in Seq(Byte) /\ Len(BytesN(Len(b), w)) = w
  BY <1>1, BytesNNumber
<1>3. Prefixed(b, w) = Cat(BytesN(Len(b), w), b)
  BY DEF Prefixed, Cat
<1> QED
  BY <1>2, <1>3, CatType, CatLen

(* Where the lengths of the cipher suites, of the compression methods and  *)
(* of the extensions are in a whole message.                               *)
ToSuites(h) == 35 + Len(h.session)
ToCompression(h) == 37 + Len(h.session) + 2 * Len(h.suites)
ToExtensions(h) == 38 + Len(h.session) + 2 * Len(h.suites) + Len(h.compression)

LEMMA Layout ==
  ASSUME NEW h, Sayable(h)
  PROVE  LET m == Encode(h)
         IN  /\ m \in Seq(Byte)
             /\ Len(m) = ToExtensions(h) + 2 + Len(ExtensionBytes(h))
             /\ At(m, 0, Bytes2(h.version))
             /\ At(m, 34, BytesN(Len(h.session), 1))
             /\ At(m, ToSuites(h), BytesN(2 * Len(h.suites), 2))
             /\ At(m, ToSuites(h) + 2, SuiteBytes(h))
             /\ At(m, ToCompression(h), BytesN(Len(h.compression), 1))
             /\ At(m, ToExtensions(h), BytesN(Len(ExtensionBytes(h)), 2))
             /\ At(m, ToExtensions(h) + 2, ExtensionBytes(h))
             /\ Len(h.session) \in Nat /\ Len(h.suites) \in Nat
             /\ Len(h.compression) \in Nat /\ Len(ExtensionBytes(h)) \in Nat
<1> DEFINE v == Bytes2(h.version)
           z == [i \in 1 .. 32 |-> 0]
           s == Prefixed(h.session, 1)
           u == Prefixed(SuiteBytes(h), 2)
           c == Prefixed(h.compression, 1)
           x == Prefixed(ExtensionBytes(h), 2)
           m == Cat(Cat(Cat(Cat(Cat(v, z), s), u), c), x)
<1>1. /\ h.version \in TwoBytes
      /\ h.session \in Seq(Byte) /\ Short(h.session, 1)
      /\ Flat(h.suites, Bytes2) = SuiteBytes(h) /\ h.suites \in Seq(TwoBytes)
      /\ SuiteBytes(h) \in Seq(Byte) /\ Short(SuiteBytes(h), 2)
      /\ Len(SuiteBytes(h)) = 2 * Len(h.suites)
      /\ h.compression \in Seq(Byte) /\ Short(h.compression, 1)
      /\ Flat(h.extensions, EncodeExtension) = ExtensionBytes(h)
      /\ ExtensionBytes(h) \in Seq(Byte) /\ Short(ExtensionBytes(h), 2)
  BY SayableParts
<1>2. v \in Seq(Byte) /\ Len(v) = 2
  BY <1>1, Bytes2Number
<1>3. z \in Seq(Byte) /\ Len(z) = 32
  <2>1. 0 \in Byte /\ 32 \in Nat
    BY SMT DEF Byte
  <2>2. z \in [1 .. 32 -> Byte]
    BY <2>1
  <2> HIDE DEF z
  <2>3. z \in Seq(Byte)
    BY <2>1, <2>2, SeqDef
  <2>4. DOMAIN z = 1 .. 32
    BY <2>2
  <2> QED BY <2>1, <2>3, <2>4, LenProperties
<1>4. s \in Seq(Byte) /\ Len(s) = 1 + Len(h.session)
  BY <1>1, PrefixedLen
<1>5. u \in Seq(Byte) /\ Len(u) = 2 + 2 * Len(h.suites)
  BY <1>1, PrefixedLen
<1>6. c \in Seq(Byte) /\ Len(c) = 1 + Len(h.compression)
  BY <1>1, PrefixedLen
<1>7. x \in Seq(Byte) /\ Len(x) = 2 + Len(ExtensionBytes(h))
  BY <1>1, PrefixedLen
<1>8. Encode(h) = m
  BY <1>1 DEF Encode, Around, Cat
<1>9. /\ Len(h.session) \in Nat /\ Len(h.suites) \in Nat
      /\ Len(h.compression) \in Nat /\ Len(ExtensionBytes(h)) \in Nat
  BY <1>1, LenProperties
<1> HIDE DEF v, z, s, u, c, x
<1>10. Follow(m, v, z, s, u, c, x)
  BY DEF Follow
<1> HIDE DEF m
<1>11. /\ m \in Seq(Byte)
       /\ Len(m) = Len(v) + Len(z) + Len(s) + Len(u) + Len(c) + Len(x)
       /\ At(m, 0, v) /\ At(m, Len(v) + Len(z), s)
       /\ At(m, Len(v) + Len(z) + Len(s), u)
       /\ At(m, Len(v) + Len(z) + Len(s) + Len(u), c)
       /\ At(m, Len(v) + Len(z) + Len(s) + Len(u) + Len(c), x)
  <2>1. m \in Seq(Byte) /\ LaidOut(m, v, z, s, u, c, x)
    BY <1>10, <1>2, <1>3, <1>4, <1>5, <1>6, <1>7, Laid
  <2> QED BY <2>1 DEF LaidOut
<1>12. /\ Len(v) + Len(z) = 34 /\ Len(v) + Len(z) + Len(s) = ToSuites(h)
       /\ Len(v) + Len(z) + Len(s) + Len(u) = ToCompression(h)
       /\ Len(v) + Len(z) + Len(s) + Len(u) + Len(c) = ToExtensions(h)
       /\ Len(m) = ToExtensions(h) + 2 + Len(ExtensionBytes(h))
       /\ ToSuites(h) \in Nat /\ ToCompression(h) \in Nat /\ ToExtensions(h) \in Nat
       /\ Len(m) \in Nat
  <2> SUFFICES ASSUME NEW lm, lm = Len(v) + Len(z) + Len(s) + Len(u) + Len(c) + Len(x)
               PROVE  /\ Len(v) + Len(z) = 34 /\ Len(v) + Len(z) + Len(s) = ToSuites(h)
                      /\ Len(v) + Len(z) + Len(s) + Len(u) = ToCompression(h)
                      /\ Len(v) + Len(z) + Len(s) + Len(u) + Len(c) = ToExtensions(h)
                      /\ lm = ToExtensions(h) + 2 + Len(ExtensionBytes(h))
                      /\ ToSuites(h) \in Nat /\ ToCompression(h) \in Nat
                      /\ ToExtensions(h) \in Nat /\ lm \in Nat
    BY <1>11
  <2>1. PICK l1 \in Nat : l1 = Len(h.session)
    BY <1>9
  <2>2. PICK l2 \in Nat : l2 = Len(h.suites)
    BY <1>9
  <2>3. PICK l3 \in Nat : l3 = Len(h.compression)
    BY <1>9
  <2>4. PICK l4 \in Nat : l4 = Len(ExtensionBytes(h))
    BY <1>9
  <2>5. /\ ToSuites(h) = 35 + l1 /\ ToCompression(h) = 37 + l1 + 2 * l2
        /\ ToExtensions(h) = 38 + l1 + 2 * l2 + l3
    BY <2>1, <2>2, <2>3 DEF ToSuites, ToCompression, ToExtensions
  <2>6. /\ Len(v) = 2 /\ Len(z) = 32 /\ Len(s) = 1 + l1 /\ Len(u) = 2 + 2 * l2
        /\ Len(c) = 1 + l3 /\ Len(x) = 2 + l4
    BY <1>2, <1>3, <1>4, <1>5, <1>6, <1>7, <2>1, <2>2, <2>3, <2>4
  <2> QED BY <2>4, <2>5, <2>6
<1>13. At(m, 34, s) /\ At(m, ToSuites(h), u) /\ At(m, ToCompression(h), c)
       /\ At(m, ToExtensions(h), x)
  BY <1>11, <1>12
<1>14. At(m, 34, BytesN(Len(h.session), 1))
  BY <1>1, <1>12, <1>13, AtPrefixed DEF s
<1>15. At(m, ToSuites(h), BytesN(2 * Len(h.suites), 2)) /\ At(m, ToSuites(h) + 2, SuiteBytes(h))
  BY <1>1, <1>12, <1>13, AtPrefixed DEF u
<1>16. At(m, ToCompression(h), BytesN(Len(h.compression), 1))
  BY <1>1, <1>12, <1>13, AtPrefixed DEF c
<1>17. /\ At(m, ToExtensions(h), BytesN(Len(ExtensionBytes(h)), 2))
       /\ At(m, ToExtensions(h) + 2, ExtensionBytes(h))
  BY <1>1, <1>12, <1>13, AtPrefixed DEF x
<1>18. At(m, 0, Bytes2(h.version))
  BY <1>11 DEF v
<1> QED
  BY <1>8, <1>9, <1>11, <1>12, <1>14, <1>15, <1>16, <1>17, <1>18

TellsLength(m, o, w, b) ==
  Number(SubSeq(m, o + 1, o + w)) = Len(b) /\ (w = 1 => m[o + 1] = Len(b))

LEMMA LengthAt ==
  ASSUME NEW m \in Seq(Byte), NEW o \in Nat, NEW w \in {1, 2}, NEW b, Len(b) \in Nat,
         Short(b, w), At(m, o, BytesN(Len(b), w))
  PROVE  TellsLength(m, o, w, b)
<1> DEFINE p == BytesN(Len(b), w)
           k == Len(b)
<1>1. p \in Seq(Byte) /\ Len(p) = w /\ Number(p) = k
  BY BytesNNumber
<1>2. At(m, o, p)
  OBVIOUS
<1> HIDE DEF p
<1>3. SubSeq(m, o + 1, o + Len(p)) = p
  BY <1>1, <1>2, AtSubSeq
<1>4. Number(SubSeq(m, o + 1, o + w)) = k
  <2> HIDE DEF k
  <2> QED BY <1>1, <1>3
<1>5. ASSUME w = 1 PROVE m[o + 1] = k
  <2>1. m[o + 1] = p[1]
    BY <1>1, <1>2, <1>5, SMT DEF At
  <2>2. p[1] = k
    BY <1>1, <1>5, SMT DEF Number
  <2> QED BY <2>1, <2>2
<1> QED
  BY <1>4, <1>5 DEF TellsLength

LEMMA CutType ==
  ASSUME NEW T, NEW m \in Seq(T), NEW n \in 0 .. Len(m)
  PROVE  SubSeq(m, 1, n) \in Seq(T) /\ Len(SubSeq(m, 1, n)) = n
<1> DEFINE c == SubSeq(m, 1, n)
<1>1. Len(m) \in Nat
  BY LenProperties
<1>2. \A i \in 1 .. n : m[i] \in T
  BY <1>1, ElementOfSeq
<1>3. c \in Seq(T) /\ Len(c) = IF 1 <= n THEN n - 1 + 1 ELSE 0
  BY <1>1, <1>2, SubSeqProperties
<1>4. Len(c) = n
  BY <1>1, <1>3
<1> QED
  BY <1>3, <1>4

(* What the parser takes for the lengths and ends of the parts, as far as  *)
(* the message goes.                                                       *)
LEMMA CutLayout ==
  ASSUME NEW h, Sayable(h), NEW n \in 0 .. Len(Encode(h)),
         NEW m, m = SubSeq(Encode(h), 1, n)
  PROVE  /\ m \in Seq(Byte) /\ Len(m) = n
         /\ 35 <= n => SuitesAt(m) = ToSuites(h)
         /\ ToSuites(h) + 2 <= n =>
              SuitesLength(m) = 2 * Len(h.suites) /\ SuitesEnd(m) = ToCompression(h)
         /\ ToCompression(h) + 1 <= n => CompressionEnd(m) = ToExtensions(h)
         /\ ToExtensions(h) + 2 <= n => ExtensionsEnd(m) = Len(Encode(h))
<1> DEFINE e == Encode(h)
           ls == Len(h.session)
           lu == Len(h.suites)
           lc == Len(h.compression)
           lx == Len(ExtensionBytes(h))
<1>1. /\ e \in Seq(Byte) /\ Len(e) = ToExtensions(h) + 2 + lx
      /\ ls \in Nat /\ lu \in Nat /\ lc \in Nat /\ lx \in Nat
  BY Layout
<1>2. m \in Seq(Byte) /\ Len(m) = n
  <2> HIDE DEF e
  <2> QED BY <1>1, CutType DEF e
<1>3. /\ At(e, 34, BytesN(ls, 1)) /\ At(e, ToSuites(h), BytesN(2 * lu, 2))
      /\ At(e, ToCompression(h), BytesN(lc, 1)) /\ At(e, ToExtensions(h), BytesN(lx, 2))
  BY Layout
<1>4. /\ ToSuites(h) = 35 + ls /\ ToCompression(h) = 37 + ls + 2 * lu
      /\ ToExtensions(h) = 38 + ls + 2 * lu + lc
      /\ ToSuites(h) \in Nat /\ ToCompression(h) \in Nat /\ ToExtensions(h) \in Nat
      /\ n \in Nat /\ 34 \in Nat
  <2> HIDE DEF ls, lu, lc, lx
  <2>1. /\ ToSuites(h) = 35 + ls /\ ToCompression(h) = 37 + ls + 2 * lu
        /\ ToExtensions(h) = 38 + ls + 2 * lu + lc
    BY DEF ToSuites, ToCompression, ToExtensions, ls, lu, lc
  <2> QED BY <1>1, <2>1
<1>5. /\ Short(h.session, 1) /\ Short(SuiteBytes(h), 2) /\ Len(SuiteBytes(h)) = 2 * lu
      /\ Short(h.compression, 1) /\ Short(ExtensionBytes(h), 2)
  BY SayableParts
<1>6. ASSUME NEW o \in Nat, NEW w \in {1, 2}, NEW b, Len(b) \in Nat, Short(b, w),
             At(e, o, BytesN(Len(b), w)), o + w <= n
      PROVE  Number(SubSeq(m, o + 1, o + w)) = Len(b) /\ (w = 1 => m[o + 1] = Len(b))
  <2> HIDE DEF e
  <2>1. BytesN(Len(b), w) \in Seq(Byte) /\ Len(BytesN(Len(b), w)) = w
    BY <1>6, BytesNNumber
  <2>2. At(m, o, BytesN(Len(b), w))
    BY <1>1, <1>6, <2>1, AtPrefix DEF e
  <2>3. m \in Seq(Byte) /\ Len(b) \in Nat /\ Short(b, w)
    BY <1>2, <1>6
  <2>4. TellsLength(m, o, w, b)
    BY <2>2, <2>3, LengthAt
  <2> QED BY <2>4 DEF TellsLength
<1> HIDE DEF e
<1>7. ASSUME 35 <= n PROVE SuitesAt(m) = ToSuites(h)
  <2>1. 34 + 1 <= n /\ 34 + 1 = 35
    BY <1>7, <1>4
  <2>2. m[34 + 1] = ls
    BY <1>1, <1>3, <1>4, <1>5, <1>6, <2>1
  <2> HIDE DEF ls, lu, lc, lx
  <2> QED BY <1>4, <2>1, <2>2 DEF SuitesAt
<1>8. ASSUME ToSuites(h) + 2 <= n
      PROVE  SuitesLength(m) = 2 * lu /\ SuitesEnd(m) = ToCompression(h)
  <2>1. Number(SubSeq(m, ToSuites(h) + 1, ToSuites(h) + 2)) = 2 * lu
    <3>1. Len(SuiteBytes(h)) \in Nat
      BY <1>1, <1>5
    <3>2. At(e, ToSuites(h), BytesN(Len(SuiteBytes(h)), 2))
      BY <1>3, <1>5
    <3>3. Number(SubSeq(m, ToSuites(h) + 1, ToSuites(h) + 2)) = Len(SuiteBytes(h))
      BY <1>4, <1>5, <1>6, <1>8, <3>1, <3>2
    <3> QED BY <1>5, <3>3
  <2> HIDE DEF ls, lu, lc, lx
  <2>2. SuitesAt(m) = ToSuites(h)
    <3>1. 35 <= n
      BY <1>1, <1>4, <1>8
    <3> QED BY <1>7, <3>1
  <2>3. SuitesLength(m) = 2 * lu
    BY <2>1, <2>2 DEF SuitesLength
  <2>4. SuitesEnd(m) = ToCompression(h)
    <3>1. SuitesEnd(m) = ToSuites(h) + 2 + 2 * lu
      BY <2>2, <2>3 DEF SuitesEnd
    <3> QED BY <1>1, <1>4, <3>1
  <2> QED BY <2>3, <2>4
<1>9. ASSUME ToCompression(h) + 1 <= n PROVE CompressionEnd(m) = ToExtensions(h)
  <2>1. m[ToCompression(h) + 1] = lc
    BY <1>1, <1>3, <1>4, <1>5, <1>6, <1>9
  <2> HIDE DEF ls, lu, lc, lx
  <2>2. SuitesEnd(m) = ToCompression(h)
    <3>1. ToSuites(h) + 2 <= n
      BY <1>1, <1>4, <1>9
    <3> QED BY <1>8, <3>1
  <2>3. CompressionEnd(m) = ToCompression(h) + 1 + lc
    BY <2>1, <2>2 DEF CompressionEnd
  <2> QED BY <1>1, <1>4, <2>3
<1>10. ASSUME ToExtensions(h) + 2 <= n PROVE ExtensionsEnd(m) = Len(e)
  <2>1. Number(SubSeq(m, ToExtensions(h) + 1, ToExtensions(h) + 2)) = lx
    BY <1>1, <1>3, <1>4, <1>5, <1>6, <1>10
  <2> HIDE DEF ls, lu, lc, lx
  <2>2. CompressionEnd(m) = ToExtensions(h)
    <3>1. ToCompression(h) + 1 <= n
      BY <1>1, <1>4, <1>10
    <3> QED BY <1>9, <3>1
  <2>3. ExtensionsEnd(m) = ToExtensions(h) + 2 + lx
    BY <2>1, <2>2 DEF ExtensionsEnd
  <2> QED BY <1>1, <2>3
<1> QED
  BY <1>2, <1>7, <1>8, <1>9, <1>10 DEF e

(* A message that lost its end is accepted only if it lost all of some of  *)
(* its parts.                                                              *)
LEMMA CutRefused ==
  ASSUME NEW h, Sayable(h), NEW n \in 0 .. Len(Encode(h)),
         WellFormed(SubSeq(Encode(h), 1, n))
  PROVE  n \in {Len(Encode(h)), ToCompression(h), ToExtensions(h)}
<1> DEFINE m == SubSeq(Encode(h), 1, n)
<1>1. /\ m \in Seq(Byte) /\ Len(m) = n
      /\ 35 <= n => SuitesAt(m) = ToSuites(h)
      /\ ToSuites(h) + 2 <= n =>
           SuitesLength(m) = 2 * Len(h.suites) /\ SuitesEnd(m) = ToCompression(h)
      /\ ToCompression(h) + 1 <= n => CompressionEnd(m) = ToExtensions(h)
      /\ ToExtensions(h) + 2 <= n => ExtensionsEnd(m) = Len(Encode(h))
  BY CutLayout
<1>2. ToCompression(h) \in Nat /\ ToExtensions(h) \in Nat /\ n \in Nat /\ Len(Encode(h)) \in Nat
  <2>1. /\ Len(h.session) \in Nat /\ Len(h.suites) \in Nat /\ Len(h.compression) \in Nat
        /\ Encode(h) \in Seq(Byte)
    BY Layout
  <2>2. ToCompression(h) \in Nat /\ ToExtensions(h) \in Nat
    <3>1. \A i \in Nat, j \in Nat, k \in Nat :
            37 + i + 2 * j \in Nat /\ 38 + i + 2 * j + k \in Nat
      OBVIOUS
    <3> QED BY <2>1, <3>1, Zenon DEF ToCompression, ToExtensions
  <2>3. Len(Encode(h)) \in Nat
    BY <2>1, LenProperties
  <2> QED BY <2>2, <2>3
<1>3. /\ Len(m) >= 35 /\ SuitesAt(m) + 2 <= Len(m) /\ SuitesEnd(m) <= Len(m)
      /\ HasCompression(m) => CompressionEnd(m) <= Len(m)
      /\ HasExtensions(m) => CompressionEnd(m) + 2 <= Len(m) /\ ExtensionsEnd(m) <= Len(m)
  BY Zenon DEF WellFormed
<1> HIDE DEF m
<1>4. SuitesEnd(m) = ToCompression(h) /\ ToCompression(h) <= n
  BY <1>1, <1>2, <1>3
<1>5. HasCompression(m) <=> ToCompression(h) + 1 <= n
  BY <1>1, <1>2, <1>4 DEF HasCompression
<1>6. ToCompression(h) + 1 <= n => CompressionEnd(m) = ToExtensions(h) /\ ToExtensions(h) <= n
  BY <1>1, <1>3, <1>5
<1>7. HasExtensions(m) <=> ToCompression(h) + 1 <= n /\ ToExtensions(h) < n
  BY <1>1, <1>5, <1>6 DEF HasExtensions
<1>8. ToCompression(h) + 1 <= n /\ ToExtensions(h) < n => Len(Encode(h)) <= n
  BY <1>1, <1>3, <1>6, <1>7
<1> QED
  BY <1>2, <1>4, <1>6, <1>8

(* A whole message is accepted, and each of its parts is found.            *)
LEMMA WholeRead ==
  ASSUME NEW h, Sayable(h), NEW m, m = Encode(h)
  PROVE  /\ WellFormed(m)
         /\ Number(SubSeq(m, 1, 2)) = h.version
         /\ Pairs(SubSeq(m, SuitesAt(m) + 3, SuitesEnd(m))) = h.suites
         /\ ExtensionsIn(m) = Mapped(h.extensions, Raw)
<1> DEFINE ls == Len(h.session)
           lu == Len(h.suites)
           lc == Len(h.compression)
           lx == Len(ExtensionBytes(h))
           n == Len(m)
           es == h.extensions
           x == Mapped(es, Raw)
<1>1. /\ m \in Seq(Byte) /\ n = ToExtensions(h) + 2 + lx
      /\ At(m, 0, Bytes2(h.version))
      /\ At(m, ToSuites(h) + 2, SuiteBytes(h))
      /\ At(m, ToExtensions(h) + 2, ExtensionBytes(h))
      /\ ls \in Nat /\ lu \in Nat /\ lc \in Nat /\ lx \in Nat
  BY Layout
<1>2. n \in Nat
  BY <1>1, LenProperties
<1>3. m = SubSeq(m, 1, n)
  <2>1. 0 \in Nat /\ At(m, 0, m) /\ 0 + 1 = 1 /\ 0 + n = n
    BY <1>1, <1>2, AtWhole
  <2>2. SubSeq(m, 0 + 1, 0 + Len(m)) = m
    <3> HIDE DEF n
    <3> QED BY <1>1, <2>1, AtSubSeq
  <2> QED BY <2>1, <2>2
<1>4. /\ ToSuites(h) = 35 + ls /\ ToCompression(h) = 37 + ls + 2 * lu
      /\ ToExtensions(h) = 38 + ls + 2 * lu + lc
  BY DEF ToSuites, ToCompression, ToExtensions
<1>5. /\ h.version \in TwoBytes /\ h.suites \in Seq(TwoBytes)
      /\ SuiteBytes(h) \in Seq(Byte) /\ Len(SuiteBytes(h)) = 2 * lu
      /\ es \in Seq(Sayables) /\ ExtensionBytes(h) \in Seq(Byte)
      /\ ExtensionBytes(h) = Joined(es, Said) /\ SuiteBytes(h) = Joined(h.suites, B2)
  BY SayableParts DEF ExtensionBytes, SuiteBytes
<1> HIDE DEF ls, lu, lc, lx, es, x
<1>6. /\ 35 <= n /\ ToSuites(h) + 2 <= n /\ ToCompression(h) + 1 <= n
      /\ ToExtensions(h) + 2 <= n /\ ToCompression(h) \in Nat /\ ToExtensions(h) \in Nat
      /\ ToSuites(h) \in Nat
  <2> HIDE DEF n
  <2> QED BY <1>1, <1>2, <1>4
<1>7. /\ SuitesAt(m) = ToSuites(h) /\ SuitesLength(m) = 2 * lu
      /\ SuitesEnd(m) = ToCompression(h) /\ CompressionEnd(m) = ToExtensions(h)
      /\ ExtensionsEnd(m) = n
  <2>1. n \in 0 .. Len(Encode(h)) /\ m = SubSeq(Encode(h), 1, n)
    BY <1>2, <1>3
  <2> HIDE DEF n
  <2>2. /\ 35 <= n => SuitesAt(m) = ToSuites(h)
        /\ ToSuites(h) + 2 <= n =>
             SuitesLength(m) = 2 * Len(h.suites) /\ SuitesEnd(m) = ToCompression(h)
        /\ ToCompression(h) + 1 <= n => CompressionEnd(m) = ToExtensions(h)
        /\ ToExtensions(h) + 2 <= n => ExtensionsEnd(m) = Len(Encode(h))
    BY <2>1, CutLayout
  <2> QED BY <1>6, <2>2 DEF lu, n
<1>8. Number(SubSeq(m, 1, 2)) = h.version
  <2> DEFINE p == Bytes2(h.version)
  <2>1. p \in Seq(Byte) /\ Len(p) = 2 /\ Number(p) = h.version
    BY <1>5, Bytes2Number
  <2>2. 0 \in Nat /\ 0 + 1 = 1 /\ 0 + 2 = 2 /\ At(m, 0, p)
    BY <1>1
  <2> HIDE DEF p
  <2>3. SubSeq(m, 0 + 1, 0 + Len(p)) = p
    BY <1>1, <2>1, <2>2, AtSubSeq
  <2>4. SubSeq(m, 1, 2) = p
    BY <2>1, <2>2, <2>3
  <2> QED BY <2>1, <2>4
<1>9. Pairs(SubSeq(m, SuitesAt(m) + 3, SuitesEnd(m))) = h.suites
  <2> DEFINE b == SuiteBytes(h)
             o == ToSuites(h) + 2
  <2>1. o \in Nat /\ o + 1 = SuitesAt(m) + 3 /\ o + Len(b) = SuitesEnd(m)
    <3>1. Len(b) = 2 * lu
      BY <1>5
    <3> HIDE DEF b
    <3> QED BY <1>1, <1>4, <1>6, <1>7, <3>1
  <2>2. At(m, o, b) /\ b \in Seq(Byte)
    BY <1>1, <1>5
  <2> HIDE DEF b, o
  <2>3. SubSeq(m, o + 1, o + Len(b)) = b
    BY <1>1, <2>1, <2>2, AtSubSeq
  <2>4. Pairs(b) = h.suites
    BY <1>5, PairsOfBytes DEF b
  <2>5. SubSeq(m, SuitesAt(m) + 3, SuitesEnd(m)) = b
    BY <2>1, <2>3
  <2> QED BY <2>4, <2>5
<1>10. HasCompression(m) /\ HasExtensions(m)
  <2>1. HasCompression(m)
    BY <1>2, <1>6, <1>7 DEF HasCompression
  <2>2. HasExtensions(m)
    BY <1>2, <1>6, <1>7, <2>1 DEF HasExtensions
  <2> QED BY <2>1, <2>2
<1>11. ExtensionsIn(m) = x
  <2> DEFINE b == ExtensionBytes(h)
             o == ToExtensions(h) + 2
  <2>1. o \in Nat /\ o + 1 = CompressionEnd(m) + 3 /\ o + Len(b) = ExtensionsEnd(m)
    <3>1. Len(b) = lx
      BY DEF lx
    <3> HIDE DEF b
    <3> QED BY <1>1, <1>6, <1>7, <3>1
  <2>2. At(m, o, b) /\ b \in Seq(Byte)
    BY <1>1, <1>5
  <2> HIDE DEF b, o
  <2>3. SubSeq(m, o + 1, o + Len(b)) = b
    BY <1>1, <2>1, <2>2, AtSubSeq
  <2>4. Entries(b, 4, 2) = x
    <3>1. Entries(Joined(es, Said), 4, 2) = Mapped(es, Raw)
      BY <1>5, ExtensionsEncoded
    <3> QED BY <1>5, <3>1 DEF b, x
  <2>5. SubSeq(m, CompressionEnd(m) + 3, ExtensionsEnd(m)) = b
    BY <2>1, <2>3
  <2> QED BY <1>10, <2>4, <2>5 DEF ExtensionsIn
<1>12. /\ x \in Seq(RawEntries(4, 2)) /\ DOMAIN x = DOMAIN es
       /\ \A i \in 1 .. Len(es) : x[i] = Raw[es[i]]
       /\ DOMAIN es = 1 .. Len(es)
  <2>1. Maps(Raw, Sayables, RawEntries(4, 2))
    BY RawMaps
  <2> QED BY <1>5, <2>1, MappedType, LenProperties DEF x
<1>13. ASSUME NEW i \in DOMAIN x
       PROVE  x[i] # Overrun /\ PayloadOk(TypeOf(x[i]), x[i].data)
  <2>1. x[i] = Raw[es[i]] /\ es[i] \in Sayables
    BY <1>5, <1>12, ElementOfSeq
  <2> DEFINE e == es[i]
             p == EncodeContent(e.type, e.content)
  <2>2. /\ Raw[e] \in RawEntries(4, 2) /\ Raw[e] = [head |-> Bytes2(e.type), data |-> p]
        /\ TypeOf(Raw[e]) = e.type
    BY <2>1, RawIs
  <2>3. PayloadOk(e.type, p)
    <3>1. SayableExtension(e)
      BY <2>1, SayablesAre
    <3> HIDE DEF e
    <3> QED BY <3>1, ContentRead DEF p
  <2> HIDE DEF e, p
  <2>4. x[i] = Raw[e]
    BY <2>1 DEF e
  <2>5. Raw[e] # Overrun
    BY <2>2, NoOverrun DEF RawEntries
  <2>6. Raw[e].data = p
    BY <2>2
  <2> QED BY <2>2, <2>3, <2>4, <2>5, <2>6
<1>14. Fit(x)
  BY <1>13 DEF Fit
<1>15. WellFormed(m)
  <2>1. n >= 35 /\ SuitesAt(m) + 2 <= n /\ SuitesEnd(m) <= n /\ CompressionEnd(m) <= n
        /\ CompressionEnd(m) + 2 <= n /\ ExtensionsEnd(m) <= n
    <3> HIDE DEF n
    <3> QED BY <1>2, <1>6, <1>7
  <2>2. SuitesLength(m) % 2 = 0
    BY <1>1, <1>7
  <2>3. \A i \in DOMAIN ExtensionsIn(m) :
          PayloadOk(TypeOf(ExtensionsIn(m)[i]), ExtensionsIn(m)[i].data)
    BY <1>11, <1>13
  <2>4. Fit(ExtensionsIn(m))
    BY <1>11, <1>14
  <2> QED BY <2>1, <2>2, <2>3, <2>4, Zenon DEF WellFormed
<1> QED
  BY <1>8, <1>9, <1>11, <1>15 DEF x, es

-------------------------------------------------------------------------------
(* What the parser understands                                             *)

Own(es, t) == Only(es, {e \in ToSet(es) : e.type = t})

LEMMA OwnAre ==
  ASSUME NEW es \in Seq(Sayables), NEW t
  PROVE  /\ Own(es, t) \in Seq(Sayables)
         /\ Own(es, t) = Only(es, {e \in Sayables : e.type = t})
         /\ \A i \in 1 .. Len(Own(es, t)) :
              Own(es, t)[i] \in Sayables /\ Own(es, t)[i].type = t
<1> DEFINE S == {e \in ToSet(es) : e.type = t}
           R == {e \in Sayables : e.type = t}
           o == Own(es, t)
<1>1. o = Only(es, S)
  BY DEF Own
<1>2. ToSet(es) \in SUBSET Sayables
  BY ToSetType
<1>3. \A e \in ToSet(es) : e \in S <=> e \in R
  BY <1>2
<1>4. Only(es, S) = Only(es, R)
  <2> HIDE DEF S, R
  <2> QED BY <1>3, OnlySame
<1>5. o \in Seq(Sayables) /\ ToSet(o) = ToSet(es) \cap S
  <2> HIDE DEF S, o
  <2> QED BY <1>1, OnlyType, OnlyElements
<1>6. ASSUME NEW i \in 1 .. Len(o) PROVE o[i] \in Sayables /\ o[i].type = t
  <2> HIDE DEF o
  <2>1. o[i] \in Sayables /\ o[i] \in ToSet(o)
    BY <1>5, ElementOfSeq, LenProperties DEF ToSet
  <2> QED BY <1>5, <2>1
<1> QED
  BY <1>1, <1>4, <1>5, <1>6

(* Collect finds what the client put into all extensions of a type.        *)
LEMMA Collected ==
  ASSUME NEW h, Sayable(h), NEW t \in Read
  PROVE  Collect(Mapped(h.extensions, Raw), t) = ContentIn(h, t)
<1> DEFINE es == h.extensions
           x == Mapped(es, Raw)
           RE == RawEntries(4, 2)
           S == {r \in ToSet(x) : TypeOf(r) = t}
           R == {r \in RE : TypeOf(r) = t}
           Q == {e \in Sayables : e.type = t}
           own == Only(x, S)
           o == Own(es, t)
<1>1. es \in Seq(Sayables)
  BY SayableParts
<1> HIDE DEF es
<1>2. Maps(Raw, Sayables, RE)
  BY RawMaps
<1>3. x \in Seq(RE)
  <2> HIDE DEF RE
  <2> QED BY <1>1, <1>2, MappedType
<1>4. own = Only(x, R)
  <2>1. ToSet(x) \in SUBSET RE
    <3> HIDE DEF x, RE
    <3> QED BY <1>3, ToSetType
  <2>2. \A r \in ToSet(x) : r \in S <=> r \in R
    BY <2>1
  <2> HIDE DEF x, RE, S, R
  <2>3. Only(x, S) = Only(x, R)
    BY <1>3, <2>2, OnlySame
  <2> QED BY <2>3
<1>5. Only(x, R) = Mapped(Only(es, Q), Raw)
  <2>1. \A e \in Sayables : e \in Q <=> Raw[e] \in R
    BY RawIs
  <2> HIDE DEF Q, R, RE
  <2> QED BY <1>1, <1>2, <2>1, OnlyMapped
<1>6. /\ o \in Seq(Sayables) /\ o = Only(es, Q)
      /\ \A i \in 1 .. Len(o) : o[i] \in Sayables /\ o[i].type = t
  BY <1>1, OwnAre
<1> HIDE DEF o, own, Q, R, S, RE
<1>7. own = Mapped(o, Raw)
  BY <1>4, <1>5, <1>6
<1>8. /\ DOMAIN own = DOMAIN o /\ DOMAIN o = 1 .. Len(o)
      /\ \A i \in 1 .. Len(o) : own[i] = Raw[o[i]]
  <2>1. DOMAIN o = 1 .. Len(o)
    BY <1>6, LenProperties
  <2> QED BY <1>7, <2>1 DEF Mapped
<1>9. ASSUME NEW i \in DOMAIN own PROVE ValuesIn(t, own[i].data) = o[i].content
  <2>1. own[i] = Raw[o[i]] /\ o[i] \in Sayables /\ o[i].type = t
    BY <1>6, <1>8
  <2> DEFINE e == o[i]
  <2> HIDE DEF e
  <2>2. own[i] = Raw[e] /\ e \in Sayables /\ e.type = t
    BY <2>1 DEF e
  <2>3. Raw[e] = [head |-> Bytes2(e.type), data |-> EncodeContent(e.type, e.content)]
    BY <2>2, RawIs
  <2>4. own[i].data = EncodeContent(t, e.content)
    BY <2>2, <2>3
  <2>5. SayableExtension(e)
    BY <2>2, SayablesAre
  <2>6. ValuesIn(t, EncodeContent(t, e.content)) = e.content
    BY <2>2, <2>5, ContentRead
  <2> QED BY <2>4, <2>6 DEF e
<1>10. [i \in DOMAIN own |-> ValuesIn(t, own[i].data)] = [i \in DOMAIN o |-> o[i].content]
  BY <1>8, <1>9
<1>11. Collect(x, t) = FlattenSeq([i \in DOMAIN own |-> ValuesIn(t, own[i].data)])
  BY DEF Collect, own, S
<1>12. ContentIn(h, t) = FlattenSeq([i \in DOMAIN o |-> o[i].content])
  BY DEF ContentIn, Own, o, es
<1> QED
  BY <1>10, <1>11, <1>12 DEF es

Meaning(h) ==
  [ok |-> TRUE, version |-> h.version, suites |-> h.suites,
   extensions |-> Mapped(h.extensions, Types),
   raw |-> [i \in DOMAIN h.extensions |->
              EncodeContent(h.extensions[i].type, h.extensions[i].content)],
   name |-> ServerName(ContentIn(h, SNI)),
   protocols |-> LET p == ContentIn(h, ALPN) IN [i \in DOMAIN p |-> p[i].data],
   shares |-> LET s == ContentIn(h, KeyShare)
              IN  [i \in DOMAIN s |-> [group |-> TypeOf(s[i]), key |-> s[i].data]],
   lists |-> [t \in Wide \cup Narrow |-> ContentIn(h, t)]]

(* ParseClientHello undoes Encode: it reads of any message what the client *)
(* that sent it meant (parser.go:46-325).                                  *)
THEOREM Understands ==
  ASSUME NEW h, Sayable(h)
  PROVE  ParseClientHello(Encode(h)) = Meaning(h)
<1> DEFINE m == Encode(h)
           es == h.extensions
           x == Mapped(es, Raw)
<1>1. /\ WellFormed(m) /\ Number(SubSeq(m, 1, 2)) = h.version
      /\ Pairs(SubSeq(m, SuitesAt(m) + 3, SuitesEnd(m))) = h.suites
      /\ ExtensionsIn(m) = x
  BY WholeRead
<1> HIDE DEF m, x
<1>2. \A t \in Read : Collect(x, t) = ContentIn(h, t)
  BY Collected DEF x
<1>3. /\ SNI \in Read /\ ALPN \in Read /\ KeyShare \in Read
      /\ \A t \in Wide \cup Narrow : t \in Read
  BY DEF Read, Nested
<1>4. es \in Seq(Sayables)
  BY SayableParts
<1>5. /\ DOMAIN x = DOMAIN es /\ DOMAIN es = 1 .. Len(es)
      /\ \A i \in 1 .. Len(es) : x[i] = Raw[es[i]]
  <2>1. Maps(Raw, Sayables, RawEntries(4, 2))
    BY RawMaps
  <2> HIDE DEF es
  <2> QED BY <1>4, <2>1, MappedType, LenProperties DEF x
<1>6. ASSUME NEW i \in DOMAIN x
      PROVE  /\ TypeOf(x[i]) = Types[es[i]]
             /\ x[i].data = EncodeContent(es[i].type, es[i].content)
  <2> DEFINE e == es[i]
  <2>1. x[i] = Raw[e] /\ e \in Sayables
    BY <1>4, <1>5, ElementOfSeq
  <2> HIDE DEF e
  <2>2. /\ Raw[e] = [head |-> Bytes2(e.type), data |-> EncodeContent(e.type, e.content)]
        /\ TypeOf(Raw[e]) = e.type
    BY <2>1, RawIs
  <2>3. Types[e] = e.type
    BY <2>1 DEF Types
  <2> QED BY <2>1, <2>2, <2>3 DEF e
<1>7. [i \in DOMAIN x |-> TypeOf(x[i])] = Mapped(es, Types)
  BY <1>5, <1>6 DEF Mapped
<1>8. [i \in DOMAIN x |-> x[i].data]
        = [i \in DOMAIN es |-> EncodeContent(es[i].type, es[i].content)]
  BY <1>5, <1>6
<1> QED
  BY <1>1, <1>2, <1>3, <1>7, <1>8, Zenon DEF ParseClientHello, Meaning, m

Unit(t) ==
  IF t \in Wide THEN TwoBytes
  ELSE IF t \in Nested THEN RawEntries(HeaderWidth(t), EntryWidth(t)) ELSE Byte

(* The content of an extension is a list of units of its type.             *)
LEMMA ContentUnits ==
  ASSUME NEW e \in Sayables, e.type \in Read
  PROVE  e.content \in Seq(Unit(e.type))
<1> DEFINE t == e.type
           K == [head : [1 .. HeaderWidth(t) - EntryWidth(t) -> Byte], data : Seq(Byte)]
           R == RawEntries(HeaderWidth(t), EntryWidth(t))
           c == e.content
<1>1. SayableExtension(e)
  BY SayablesAre
<1>2. c \in Contents(t)
  BY <1>1, Zenon DEF SayableExtension
<1>3. CASE t \in Wide
  BY <1>2, <1>3, Zenon DEF Contents, Unit
<1>4. CASE t \notin Wide /\ t \in Nested
  <2>1. c \in Seq(K)
    BY <1>2, <1>4, Zenon DEF Contents
  <2>2. Unit(t) = R
    BY <1>4, Zenon DEF Unit
  <2>3. \A j \in DOMAIN c : Short(c[j].data, EntryWidth(t))
    BY <1>1, <1>4, Zenon DEF SayableExtension
  <2> HIDE DEF c, t
  <2>4. Len(c) \in Nat /\ DOMAIN c = 1 .. Len(c) /\ c \in [1 .. Len(c) -> K]
    BY <2>1, LenProperties
  <2>5. ASSUME NEW j \in 1 .. Len(c) PROVE c[j] \in R
    BY <2>3, <2>4, Zenon DEF RawEntries
  <2>6. c \in [1 .. Len(c) -> R]
    BY <2>4, <2>5
  <2>7. c \in Seq(R)
    BY <2>4, <2>6, SeqDef
  <2> QED BY <2>2, <2>7 DEF c, t
<1>5. CASE t \notin Wide /\ t \notin Nested
  BY <1>2, <1>5, Zenon DEF Contents, Unit
<1> QED
  BY <1>3, <1>4, <1>5

Pieces(o) == [i \in DOMAIN o |-> o[i].content]

LEMMA ContentType ==
  ASSUME NEW h, Sayable(h), NEW t \in Read
  PROVE  /\ ContentIn(h, t) \in Seq(Unit(t))
         /\ ContentIn(h, t) = FlattenSeq(Pieces(Own(h.extensions, t)))
         /\ Pieces(Own(h.extensions, t)) \in Seq(Seq(Unit(t)))
<1> DEFINE es == h.extensions
           o == Own(es, t)
           U == Unit(t)
           ss == Pieces(o)
<1>1. es \in Seq(Sayables)
  BY SayableParts
<1> HIDE DEF es
<1>2. /\ o \in Seq(Sayables) /\ \A i \in 1 .. Len(o) : o[i] \in Sayables /\ o[i].type = t
  BY <1>1, OwnAre
<1> HIDE DEF o
<1>3. Len(o) \in Nat /\ DOMAIN o = 1 .. Len(o)
  BY <1>2, LenProperties
<1>4. ASSUME NEW i \in 1 .. Len(o) PROVE o[i].content \in Seq(U)
  <2> DEFINE e == o[i]
  <2>1. e \in Sayables /\ e.type = t
    BY <1>2
  <2> HIDE DEF e
  <2>2. e.content \in Seq(U)
    BY <2>1, ContentUnits
  <2> QED BY <2>2 DEF e
<1> HIDE DEF U
<1>5. ss \in [1 .. Len(o) -> Seq(U)]
  BY <1>3, <1>4 DEF Pieces
<1>6. ss \in Seq(Seq(U))
  <2> HIDE DEF ss
  <2> QED BY <1>3, <1>5, SeqDef
<1>7. FlattenSeq(ss) \in Seq(U)
  <2> HIDE DEF ss
  <2> QED BY <1>6, FlattenType
<1>8. ContentIn(h, t) = FlattenSeq(ss)
  BY DEF ContentIn, Own, o, es, Pieces
<1> QED
  BY <1>6, <1>7, <1>8 DEF U, o, es

(* The name is that of a host among those of the client, if there is any.  *)
LEMMA NameFound ==
  ASSUME NEW T, NEW names \in Seq(T)
  PROVE  LET hosts == {c.data : c \in {d \in ToSet(names) : d.head = <<0>>}} \ {<<>>}
         IN  IF hosts = {} THEN ServerName(names) = <<>> ELSE ServerName(names) \in hosts
<1> DEFINE S == {e \in ToSet(names) : e.head = <<0>> /\ e.data # <<>>}
           l == Only(names, S)
           hosts == {c.data : c \in {d \in ToSet(names) : d.head = <<0>>}} \ {<<>>}
<1>1. ServerName(names) = IF l = <<>> THEN <<>> ELSE l[1].data
  BY DEF ServerName
<1>2. hosts = {e.data : e \in S}
  OBVIOUS
<1>3. l \in Seq(T) /\ ToSet(l) = S
  <2>1. l \in Seq(T) /\ ToSet(l) = ToSet(names) \cap S
    <3> HIDE DEF S
    <3> QED BY OnlyType, OnlyElements
  <2>2. ToSet(names) \cap S = S
    OBVIOUS
  <2> QED BY <2>1, <2>2
<1> HIDE DEF l, S, hosts
<1>4. CASE l = <<>>
  <2>1. ToSet(l) = {}
    BY <1>4, ToSetNil DEF Nil
  <2> QED BY <1>1, <1>2, <1>3, <1>4, <2>1 DEF hosts
<1>5. CASE l # <<>>
  <2>1. 1 \in DOMAIN l
    BY <1>3, <1>5, EmptySeq, LenProperties
  <2>2. l[1] \in S
    BY <1>3, <2>1 DEF ToSet
  <2>3. l[1].data \in hosts
    BY <1>2, <2>2
  <2> QED BY <1>1, <1>5, <2>3 DEF hosts
<1> QED
  BY <1>4, <1>5

-------------------------------------------------------------------------------
(* The message that arrives and what becomes of it                         *)

(* The message is what the client means to say, or the beginning of it,    *)
(* and nothing but ParseClientHello makes anything of it.                  *)
Arrived ==
  /\ meant \in Hellos
  /\ garbled = 0 =>
       \E n \in 0 .. Len(Encode(meant)) : bytes = SubSeq(Encode(meant), 1, n)
  /\ parsed \in {Unparsed, ParseClientHello(bytes)}

LEMMA ArrivedAlways == Spec => []Arrived
<1>1. Init => Arrived
  <2> SUFFICES ASSUME Init PROVE Arrived
    OBVIOUS
  <2>1. meant \in Hellos /\ parsed = Unparsed
    BY Zenon DEF Init
  <2>2. meant.extensions \in Seq(Sayables)
    BY <2>1, HellosAssumption, SayableParts
  <2>3. DOMAIN meant.extensions = 1 .. Len(meant.extensions) /\ Len(meant.extensions) \in Nat
    BY <2>2, LenProperties
  <2>4. 0 \notin DOMAIN meant.extensions
    BY <2>3
  <2>5. garbled = 0 =>
          \E n \in 0 .. Len(Encode(meant)) : bytes = SubSeq(Encode(meant), 1, n)
    BY <2>4, Zenon DEF Init
  <2> QED BY <2>1, <2>5, Zenon DEF Arrived
<1>2. Arrived /\ [Next]_vars => Arrived'
  <2> SUFFICES ASSUME Arrived, [Next]_vars PROVE Arrived'
    OBVIOUS
  <2>1. CASE Parse
    BY <2>1, Zenon DEF Arrived, Parse
  <2>2. CASE UNCHANGED vars
    BY <2>2, Zenon DEF Arrived, vars
  <2> QED BY <2>1, <2>2 DEF Next
<1> QED
  BY <1>1, <1>2, PTL DEF Spec

LEMMA Understood ==
  ASSUME Arrived, parsed # Unparsed, Whole
  PROVE  Sayable(meant) /\ parsed = Meaning(meant)
<1>1. Sayable(meant)
  BY HellosAssumption DEF Arrived
<1>2. parsed = ParseClientHello(Encode(meant))
  BY Zenon DEF Arrived, Whole
<1> QED
  BY <1>1, <1>2, Understands

(* A whole message is accepted and every list the fingerprints use is the  *)
(* one the client encoded, over extensions that come twice, that are empty *)
(* or that nobody knows, for every ClientHello that can be said            *)
(* (parser.go:46-325).                                                     *)
THEOREM ReadsWhatWasMeant == Spec => []ParsesWhatWasMeant
<1>1. Arrived => ParsesWhatWasMeant
  <2> SUFFICES ASSUME Arrived, parsed # Unparsed, Whole
               PROVE  /\ parsed.ok
                      /\ parsed.version = meant.version /\ parsed.suites = meant.suites
                      /\ parsed.extensions
                           = [i \in DOMAIN meant.extensions |-> meant.extensions[i].type]
                      /\ \A t \in Wide \cup Narrow : parsed.lists[t] = ContentOf(t)
                      /\ parsed.protocols
                           = LET c == ContentOf(ALPN) IN [i \in DOMAIN c |-> c[i].data]
                      /\ parsed.shares
                           = LET c == ContentOf(KeyShare)
                             IN  [i \in DOMAIN c |->
                                    [group |-> Number(c[i].head), key |-> c[i].data]]
                      /\ IF Hosts = {} THEN parsed.name = <<>> ELSE parsed.name \in Hosts
    BY Zenon DEF ParsesWhatWasMeant
  <2>1. Sayable(meant) /\ parsed = Meaning(meant)
    BY Understood
  <2>2. meant.extensions \in Seq(Sayables)
    BY <2>1, SayableParts
  <2>3. \A t : ContentOf(t) = ContentIn(meant, t)
    BY DEF ContentOf
  <2>4. parsed.ok /\ parsed.version = meant.version /\ parsed.suites = meant.suites
    BY <2>1 DEF Meaning
  <2>5. parsed.extensions = [i \in DOMAIN meant.extensions |-> meant.extensions[i].type]
    <3>1. parsed.extensions = Mapped(meant.extensions, Types)
      BY <2>1 DEF Meaning
    <3>2. \A i \in DOMAIN meant.extensions : Types[meant.extensions[i]] = meant.extensions[i].type
      BY <2>2, LenProperties DEF Types
    <3> QED BY <3>1, <3>2 DEF Mapped
  <2>6. \A t \in Wide \cup Narrow : parsed.lists[t] = ContentOf(t)
    BY <2>1, <2>3 DEF Meaning
  <2>7. parsed.protocols = LET c == ContentOf(ALPN) IN [i \in DOMAIN c |-> c[i].data]
    BY <2>1, <2>3 DEF Meaning
  <2>8. parsed.shares = LET c == ContentOf(KeyShare)
                        IN  [i \in DOMAIN c |-> [group |-> Number(c[i].head), key |-> c[i].data]]
    BY <2>1, <2>3 DEF Meaning, TypeOf
  <2>9. IF Hosts = {} THEN parsed.name = <<>> ELSE parsed.name \in Hosts
    <3>1. parsed.name = ServerName(ContentIn(meant, SNI))
      BY <2>1 DEF Meaning
    <3>2. SNI \in Read
      BY DEF Read, Nested
    <3>3. ContentIn(meant, SNI) \in Seq(Unit(SNI))
      BY <2>1, <3>2, ContentType
    <3>4. Hosts = {c.data : c \in {d \in ToSet(ContentIn(meant, SNI)) : d.head = <<0>>}} \ {<<>>}
      BY <2>3 DEF Hosts
    <3> QED BY <3>1, <3>3, <3>4, NameFound
  <2> QED BY <2>4, <2>5, <2>6, <2>7, <2>8, <2>9
<1> QED
  BY <1>1, ArrivedAlways, PTL

(* A message that lost its end is refused, wherever the cut falls, unless  *)
(* it falls on the end of the cipher suites or of the compression methods  *)
(* (parser.go:81-93).                                                      *)
THEOREM RefusesCutMessages == Spec => []CutMessagesRefused
<1>1. Arrived => CutMessagesRefused
  <2> SUFFICES ASSUME Arrived, parsed # Unparsed, garbled = 0, parsed.ok
               PROVE  Len(bytes) \in
                        {Len(Encode(meant)), 37 + Len(meant.session) + 2 * Len(meant.suites),
                         37 + Len(meant.session) + 2 * Len(meant.suites) + 1
                           + Len(meant.compression)}
    BY Zenon DEF CutMessagesRefused
  <2>1. Sayable(meant)
    BY HellosAssumption DEF Arrived
  <2>2. PICK n \in 0 .. Len(Encode(meant)) : bytes = SubSeq(Encode(meant), 1, n)
    BY DEF Arrived
  <2>3. parsed = ParseClientHello(bytes)
    BY DEF Arrived
  <2>4. WellFormed(bytes)
    BY <2>3 DEF ParseClientHello, Refused
  <2>5. n \in {Len(Encode(meant)), ToCompression(meant), ToExtensions(meant)}
    BY <2>1, <2>2, <2>4, CutRefused
  <2>6. Len(bytes) = n
    BY <2>1, <2>2, CutLayout
  <2>7. ToExtensions(meant) = 37 + Len(meant.session) + 2 * Len(meant.suites) + 1
                                + Len(meant.compression)
    <3>1. /\ Len(meant.session) \in Nat /\ Len(meant.suites) \in Nat
          /\ Len(meant.compression) \in Nat
      BY <2>1, Layout
    <3>2. \A i \in Nat, j \in Nat, k \in Nat : 38 + i + 2 * j + k = 37 + i + 2 * j + 1 + k
      OBVIOUS
    <3> QED BY <3>1, <3>2, Zenon DEF ToExtensions
  <2> QED BY <2>5, <2>6, <2>7, Zenon DEF ToCompression
<1> QED
  BY <1>1, ArrivedAlways, PTL

-------------------------------------------------------------------------------
(* The order in which a client sends its suites and extensions             *)

(* What can be said, with the extensions among those that can.             *)
LEMMA SayableFrom ==
  ASSUME NEW v \in TwoBytes, NEW s \in Seq(Byte), NEW u \in Seq(TwoBytes),
         NEW c \in Seq(Byte), NEW es \in Seq(Sayables), Short(s, 1),
         Short(Joined(u, B2), 2), Short(c, 1), Short(Joined(es, Said), 2)
  PROVE  Sayable([version |-> v, session |-> s, suites |-> u, compression |-> c,
                  extensions |-> es])
<1> DEFINE h == [version |-> v, session |-> s, suites |-> u, compression |-> c,
                 extensions |-> es]
<1>1. Len(es) \in Nat /\ DOMAIN es = 1 .. Len(es) /\ \A i \in 1 .. Len(es) : es[i] \in Sayables
  BY LenProperties
<1>2. es \in Seq(ToSet(es))
  <2>1. es \in [1 .. Len(es) -> ToSet(es)]
    <3>1. es \in [1 .. Len(es) -> Sayables]
      BY LenProperties
    <3>2. \A i \in 1 .. Len(es) : es[i] \in ToSet(es)
      BY <1>1 DEF ToSet
    <3> QED BY <3>1, <3>2
  <2> QED BY <1>1, <2>1, SeqDef
<1>3. \A i \in DOMAIN es : SayableExtension(es[i])
  BY <1>1, SayablesAre
<1>4. Flat(u, Bytes2) = Joined(u, B2)
  BY FlatBytes2
<1>5. Flat(es, EncodeExtension) = Joined(es, Said)
  BY ExtensionsEncoded
<1>6. h \in [version : TwoBytes, session : Seq(Byte), suites : Seq(TwoBytes),
             compression : Seq(Byte), extensions : Seq(ToSet(h.extensions))]
  BY <1>2
<1>7. /\ h.session = s /\ h.suites = u /\ h.compression = c /\ h.extensions = es
  OBVIOUS
<1> HIDE DEF h
<1>8. Sayable(h)
  BY <1>3, <1>4, <1>5, <1>6, <1>7, Zenon DEF Sayable
<1> QED
  BY <1>8 DEF h

LEMMA SayableIs ==
  ASSUME NEW h, Sayable(h)
  PROVE  h = [version |-> h.version, session |-> h.session, suites |-> h.suites,
              compression |-> h.compression, extensions |-> h.extensions]
<1>1. h \in [version : TwoBytes, session : Seq(Byte), suites : Seq(TwoBytes),
             compression : Seq(Byte), extensions : Seq(ToSet(h.extensions))]
  BY Zenon DEF Sayable
<1> QED
  BY <1>1

(* No list changes if no extension comes twice.                            *)
LEMMA OwnOnce ==
  ASSUME NEW es \in Seq(Sayables), NEW t,
         \A i \in 1 .. Len(es), j \in 1 .. Len(es) : es[i].type = es[j].type => i = j
  PROVE  \/ Own(es, t) = Nil /\ \A i \in 1 .. Len(es) : es[i].type # t
         \/ \E i \in 1 .. Len(es) : es[i].type = t /\ Own(es, t) = One(es[i])
<1> DEFINE S == {e \in Sayables : e.type = t}
<1>1. Own(es, t) = Only(es, S)
  BY OwnAre
<1>2. \A i \in 1 .. Len(es) : es[i] \in Sayables
  BY LenProperties
<1>3. CASE \E i \in 1 .. Len(es) : es[i].type = t
  <2>1. PICK i \in 1 .. Len(es) : es[i].type = t
    BY <1>3
  <2>2. es[i] \in S /\ \A j \in 1 .. Len(es) : es[j] \in S => j = i
    BY <1>2, <2>1
  <2> HIDE DEF S
  <2>3. Only(es, S) = One(es[i])
    BY <2>2, OnlyUnique
  <2> QED BY <1>1, <2>1, <2>3
<1>4. CASE \A i \in 1 .. Len(es) : es[i].type # t
  <2>1. ToSet(es) \cap S = {}
    BY <1>4, LenProperties DEF ToSet
  <2> HIDE DEF S
  <2>2. Only(es, S) = Nil
    BY <2>1, OnlyNone
  <2> QED BY <1>1, <1>4, <2>2
<1> QED
  BY <1>3, <1>4

(* Extensions of different types, in a new order.                          *)
LEMMA OwnCounted ==
  ASSUME NEW es \in Seq(Sayables), NEW fs \in Seq(Sayables), Counted(fs, es), NEW t,
         \A i \in 1 .. Len(es), j \in 1 .. Len(es) : es[i].type = es[j].type => i = j
  PROVE  Own(fs, t) = Own(es, t)
<1> DEFINE S == {e \in Sayables : e.type = t}
           o == Own(es, t)
           p == Own(fs, t)
<1>1. p = Only(fs, S) /\ o = Only(es, S)
  BY OwnAre
<1> HIDE DEF S, o, p
<1>2. Counted(p, o) /\ p \in Seq(Sayables) /\ o \in Seq(Sayables)
  BY <1>1, CountedOnly, OnlyType
<1>3. Len(p) = Len(o) /\ ToSet(p) = ToSet(o) /\ (p = Nil <=> o = Nil)
  BY <1>2, CountedSame
<1>4. o = Nil \/ \E e \in Sayables : o = One(e)
  BY OwnOnce, LenProperties DEF o
<1>5. ASSUME NEW e \in Sayables, o = One(e) PROVE p = o
  <2>1. Len(p) = 1 /\ ToSet(p) = {e}
    <3>1. Len(One(e)) = 1 /\ ToSet(One(e)) = {e}
      BY DEF One, ToSet
    <3> QED BY <1>3, <1>5, <3>1
  <2>2. p[1] \in ToSet(p) /\ p \in Seq(Sayables)
    BY <1>2, <2>1, LenProperties DEF ToSet
  <2>3. p[1] = e
    BY <2>1, <2>2
  <2> QED BY <1>5, <2>1, <2>2, <2>3 DEF One
<1>6. p = o
  BY <1>3, <1>4, <1>5
<1> QED
  BY <1>6 DEF p, o

Distinct(h) ==
  \A i \in 1 .. Len(h.extensions), j \in 1 .. Len(h.extensions) :
    h.extensions[i].type = h.extensions[j].type => i = j

LEMMA InjectiveDistinct ==
  ASSUME NEW h, Sayable(h), IsInjective(Meaning(h).extensions)
  PROVE  Distinct(h)
<1> DEFINE es == h.extensions
<1>1. es \in Seq(Sayables)
  BY SayableParts
<1>2. IsInjective(Mapped(es, Types))
  BY DEF Meaning
<1> HIDE DEF es
<1>3. DOMAIN es = 1 .. Len(es) /\ \A i \in 1 .. Len(es) : es[i] \in Sayables
  BY <1>1, LenProperties
<1>4. DOMAIN Mapped(es, Types) = 1 .. Len(es)
      /\ \A i \in 1 .. Len(es) : Mapped(es, Types)[i] = es[i].type
  BY <1>3 DEF Mapped, Types
<1>5. \A i \in 1 .. Len(es), j \in 1 .. Len(es) : es[i].type = es[j].type => i = j
  BY <1>2, <1>4 DEF IsInjective
<1> QED
  BY <1>5 DEF Distinct, es

(* What the parser makes of a ClientHello with its extensions in another   *)
(* order.                                                                  *)
LEMMA ShuffledMeaning ==
  ASSUME NEW h, Sayable(h), Distinct(h), NEW g, Sayable(g), g.version = h.version,
         Shuffled(g.extensions, h.extensions)
  PROVE  LET p == Meaning(h)
             q == ParseClientHello(Encode(g))
         IN  /\ q.version = p.version /\ q.suites = g.suites /\ p.suites = h.suites
             /\ Counted(q.extensions, p.extensions) /\ q.name = p.name
             /\ q.protocols = p.protocols /\ q.lists = p.lists
             /\ q.extensions \in Seq(TwoBytes) /\ p.extensions \in Seq(TwoBytes)
             /\ g.suites \in Seq(TwoBytes) /\ h.suites \in Seq(TwoBytes)
<1> DEFINE es == h.extensions
           fs == g.extensions
<1>1. ParseClientHello(Encode(g)) = Meaning(g)
  BY Understands
<1>2. /\ es \in Seq(Sayables) /\ h.suites \in Seq(TwoBytes)
      /\ fs \in Seq(Sayables) /\ g.suites \in Seq(TwoBytes)
  BY SayableParts
<1>3. \A i \in 1 .. Len(es), j \in 1 .. Len(es) : es[i].type = es[j].type => i = j
  BY DEF Distinct
<1>4. Shuffled(fs, es)
  OBVIOUS
<1> HIDE DEF es, fs
<1>5. Counted(fs, es)
  BY <1>2, <1>4, ShuffledCounted
<1>6. ASSUME NEW t PROVE ContentIn(g, t) = ContentIn(h, t)
  <2>1. Own(fs, t) = Own(es, t)
    BY <1>2, <1>3, <1>5, OwnCounted
  <2>2. \A k : ContentIn(k, t) = LET o == Own(k.extensions, t)
                                 IN  FlattenSeq([i \in DOMAIN o |-> o[i].content])
    BY DEF ContentIn, Own
  <2> QED BY <2>1, <2>2 DEF es, fs
<1>7. /\ Counted(Mapped(fs, Types), Mapped(es, Types))
      /\ Mapped(fs, Types) \in Seq(TwoBytes) /\ Mapped(es, Types) \in Seq(TwoBytes)
  BY <1>2, <1>5, RawMaps, CountedMapped, MappedType
<1>8. /\ Meaning(g).name = Meaning(h).name /\ Meaning(g).protocols = Meaning(h).protocols
      /\ Meaning(g).lists = Meaning(h).lists
  BY <1>6 DEF Meaning
<1>9. /\ Meaning(g).version = Meaning(h).version /\ Meaning(g).suites = g.suites
      /\ Meaning(g).extensions = Mapped(fs, Types)
      /\ Meaning(h).extensions = Mapped(es, Types) /\ Meaning(h).suites = h.suites
  BY DEF Meaning, es, fs
<1> QED
  BY <1>1, <1>2, <1>7, <1>8, <1>9

LEMMA WithoutGREASECounted ==
  ASSUME NEW s \in Seq(TwoBytes), NEW t \in Seq(TwoBytes), Counted(s, t)
  PROVE  /\ Counted(WithoutGREASE(s), WithoutGREASE(t))
         /\ WithoutGREASE(s) \in Seq(TwoBytes) /\ WithoutGREASE(t) \in Seq(TwoBytes)
<1> DEFINE S == {v \in ToSet(t) : ~IsGREASE16(v)}
<1>1. ToSet(s) = ToSet(t)
  BY CountedSame
<1>2. WithoutGREASE(s) = Only(s, S) /\ WithoutGREASE(t) = Only(t, S)
  BY <1>1 DEF WithoutGREASE
<1> HIDE DEF S
<1> QED
  BY <1>2, CountedOnly, OnlyType

LEMMA JA4Counted ==
  ASSUME NEW p, NEW q, p.suites \in Seq(TwoBytes), p.extensions \in Seq(TwoBytes),
         q.suites \in Seq(TwoBytes), q.extensions \in Seq(TwoBytes),
         Counted(q.suites, p.suites), Counted(q.extensions, p.extensions),
         q.version = p.version, q.name = p.name, q.protocols = p.protocols,
         q.lists = p.lists
  PROVE  JA4(q) = JA4(p)
<1> DEFINE s == WithoutGREASE(p.suites)
           x == WithoutGREASE(p.extensions)
           l == Only(x, ToSet(x) \ {SNI, ALPN})
           ss == WithoutGREASE(q.suites)
           xx == WithoutGREASE(q.extensions)
           ll == Only(xx, ToSet(xx) \ {SNI, ALPN})
<1>1. /\ Counted(ss, s) /\ s \in Seq(TwoBytes) /\ ss \in Seq(TwoBytes)
      /\ Counted(xx, x) /\ x \in Seq(TwoBytes) /\ xx \in Seq(TwoBytes)
  BY WithoutGREASECounted
<1> HIDE DEF s, x, ss, xx
<1>2. ToSet(xx) = ToSet(x)
  BY <1>1, CountedSame
<1>3. Counted(ll, l) /\ l \in Seq(TwoBytes) /\ ll \in Seq(TwoBytes)
  BY <1>1, <1>2, CountedOnly, OnlyType
<1> HIDE DEF l, ll
<1>4. /\ Sorted(ss) = Sorted(s) /\ Sorted(ll) = Sorted(l)
      /\ Len(ss) = Len(s) /\ Len(xx) = Len(x)
  BY <1>1, <1>3, CountedSame
<1>5. ll = <<>> <=> l = <<>>
  BY <1>3, CountedSame DEF Nil
<1>6. EffectiveVersion(q) = EffectiveVersion(p)
  BY DEF EffectiveVersion
<1>7. JA4(q) = <<VersionCode(EffectiveVersion(p)), p.name # <<>>,
        TwoDigits(Len(s)), TwoDigits(Len(x)), ALPNCode(p.protocols),
        Sorted(s), Sorted(l),
        IF l = <<>> THEN <<>> ELSE WithoutGREASE(p.lists[SignatureAlgorithms])>>
  <2>1. JA4(q) = <<VersionCode(EffectiveVersion(q)), q.name # <<>>,
          TwoDigits(Len(ss)), TwoDigits(Len(xx)), ALPNCode(q.protocols),
          Sorted(ss), Sorted(ll),
          IF ll = <<>> THEN <<>> ELSE WithoutGREASE(q.lists[SignatureAlgorithms])>>
    BY Zenon DEF JA4, ss, xx, ll
  <2> QED BY <1>4, <1>5, <1>6, <2>1
<1>8. JA4(p) = <<VersionCode(EffectiveVersion(p)), p.name # <<>>,
        TwoDigits(Len(s)), TwoDigits(Len(x)), ALPNCode(p.protocols),
        Sorted(s), Sorted(l),
        IF l = <<>> THEN <<>> ELSE WithoutGREASE(p.lists[SignatureAlgorithms])>>
  BY Zenon DEF JA4, s, x, l
<1> QED
  BY <1>7, <1>8

(* A client that shuffles its cipher suites and its extensions keeps its   *)
(* JA4, as long as no extension comes twice (parser.go:464-506).           *)
THEOREM JA4KeepsUnderShuffling == Spec => []JA4IgnoresOrder
<1>1. Arrived => JA4IgnoresOrder
  <2> SUFFICES ASSUME Arrived, parsed # Unparsed, Whole, IsInjective(parsed.extensions),
                      NEW h \in Hellos, h.version = meant.version,
                      Shuffled(h.suites, meant.suites),
                      Shuffled(h.extensions, meant.extensions)
               PROVE  JA4(ParseClientHello(Encode(h))) = JA4(parsed)
    BY Zenon DEF JA4IgnoresOrder
  <2> DEFINE q == ParseClientHello(Encode(h))
  <2>1. Sayable(meant) /\ parsed = Meaning(meant) /\ Sayable(h)
    BY Understood, HellosAssumption
  <2>2. Distinct(meant)
    BY <2>1, InjectiveDistinct
  <2>3. /\ q.version = parsed.version /\ q.suites = h.suites /\ parsed.suites = meant.suites
        /\ Counted(q.extensions, parsed.extensions) /\ q.name = parsed.name
        /\ q.protocols = parsed.protocols /\ q.lists = parsed.lists
        /\ q.extensions \in Seq(TwoBytes) /\ parsed.extensions \in Seq(TwoBytes)
        /\ h.suites \in Seq(TwoBytes) /\ meant.suites \in Seq(TwoBytes)
    BY <2>1, <2>2, ShuffledMeaning
  <2>4. Counted(h.suites, meant.suites)
    BY <2>3, ShuffledCounted
  <2> HIDE DEF q
  <2>5. JA4(q) = JA4(parsed)
    BY <2>3, <2>4, JA4Counted
  <2> QED BY <2>5 DEF q
<1> QED
  BY <1>1, ArrivedAlways, PTL

-------------------------------------------------------------------------------
(* What /api/all, /api/tls and /api/clean say                              *)

LEMMA NamedKinds ==
  /\ SNI \notin Wide \cup Narrow /\ ALPN \notin Wide \cup Narrow
  /\ KeyShare \notin Wide \cup Narrow /\ ExtendedMasterSecret \notin Wide \cup Narrow
  /\ ExtendedMasterSecret \notin Nested /\ CompressCertificate \in Wide
  /\ SNI # ALPN /\ SNI # KeyShare /\ ALPN # KeyShare
  /\ Nested = {SNI, ALPN, KeyShare}
BY DEF Wide, Narrow, Nested, SNI, ALPN, KeyShare, ExtendedMasterSecret, CompressCertificate,
       Groups, PointFormats, SignatureAlgorithms, SupportedVersions, PSKModes

(* Of an extension that comes once, the list the parser collects is what   *)
(* the client put into it.                                                 *)
LEMMA ContentOnce ==
  ASSUME NEW h, Sayable(h), Distinct(h), NEW i \in 1 .. Len(h.extensions),
         h.extensions[i].type \in Read
  PROVE  ContentIn(h, h.extensions[i].type) = h.extensions[i].content
<1> DEFINE es == h.extensions
           e == es[i]
           t == e.type
           U == Unit(t)
           o == Own(es, t)
<1>1. es \in Seq(Sayables) /\ e \in Sayables
  <2>1. es \in Seq(Sayables) /\ i \in 1 .. Len(es)
    BY SayableParts
  <2> HIDE DEF es
  <2> QED BY <2>1, ElementOfSeq
<1>2. \A j \in 1 .. Len(es), k \in 1 .. Len(es) : es[j].type = es[k].type => j = k
  BY DEF Distinct
<1>3. o = One(e)
  <2>1. es[i].type = t /\ i \in 1 .. Len(es)
    OBVIOUS
  <2> HIDE DEF es, t, o
  <2>2. \/ o = Nil /\ \A j \in 1 .. Len(es) : es[j].type # t
        \/ \E j \in 1 .. Len(es) : es[j].type = t /\ o = One(es[j])
    BY <1>1, <1>2, OwnOnce DEF o
  <2> QED BY <1>2, <2>1, <2>2
<1>4. /\ ContentIn(h, t) = FlattenSeq(Pieces(o))
      /\ Pieces(o) \in Seq(Seq(U))
  BY ContentType
<1> HIDE DEF o, U
<1>5. Pieces(o) = One(e.content)
  <2> HIDE DEF e
  <2> QED BY <1>3 DEF Pieces, One
<1>6. e.content \in Seq(U)
  <2> DEFINE b == e.content
  <2>1. One(b) \in Seq(Seq(U))
    BY <1>4, <1>5
  <2> HIDE DEF b
  <2>2. Len(One(b)) = 1 /\ One(b)[1] = b
    BY DEF One
  <2>3. 1 \in 1 .. Len(One(b))
    BY <2>2
  <2>4. One(b)[1] \in Seq(U)
    BY <2>1, <2>3, ElementOfSeq
  <2> QED BY <2>2, <2>4 DEF b
<1>7. FlattenSeq(One(e.content)) = e.content
  <2> HIDE DEF e
  <2> QED BY <1>6, FlattenOne
<1> QED
  BY <1>4, <1>5, <1>7

(* The reply lists the extensions of the ClientHello in the order they     *)
(* came, GREASE included, each with what the client put into that very     *)
(* extension (service.go:269-355, parser.go:131-325).                      *)
THEOREM ShowsExtensionsAsSent == Spec => []ExtensionsAsSent
<1>1. Arrived => ExtensionsAsSent
  <2> DEFINE shown == TLSResponse(parsed).extensions
             es == meant.extensions
  <2> SUFFICES ASSUME Arrived, Answerable
               PROVE  /\ DOMAIN shown = DOMAIN es
                      /\ \A i \in DOMAIN shown :
                           shown[i].name = es[i].type /\ shown[i].shows \in Recognised(es[i])
    BY Zenon DEF ExtensionsAsSent
  <2>1. parsed # Unparsed /\ Whole /\ IsInjective(parsed.extensions)
    BY Zenon DEF Answerable
  <2>2. Sayable(meant) /\ parsed = Meaning(meant)
    BY <2>1, Understood
  <2>3. Distinct(meant)
    BY <2>1, <2>2, InjectiveDistinct
  <2>4. es \in Seq(Sayables) /\ DOMAIN es = 1 .. Len(es)
        /\ \A i \in 1 .. Len(es) : es[i] \in Sayables
    <3>1. es \in Seq(Sayables)
      BY <2>2, SayableParts
    <3> HIDE DEF es
    <3> QED BY <3>1, LenProperties
  <2>5. /\ parsed.extensions = Mapped(es, Types)
        /\ parsed.raw = [i \in DOMAIN es |-> EncodeContent(es[i].type, es[i].content)]
        /\ parsed.name = ServerName(ContentIn(meant, SNI))
        /\ parsed.protocols = LET p == ContentIn(meant, ALPN) IN [i \in DOMAIN p |-> p[i].data]
        /\ parsed.shares = LET s == ContentIn(meant, KeyShare)
                           IN  [i \in DOMAIN s |-> [group |-> TypeOf(s[i]), key |-> s[i].data]]
        /\ parsed.lists = [t \in Wide \cup Narrow |-> ContentIn(meant, t)]
    BY <2>2 DEF Meaning
  <2>6. DOMAIN parsed.extensions = DOMAIN es
        /\ \A i \in DOMAIN es : parsed.extensions[i] = es[i].type
    BY <2>4, <2>5 DEF Mapped, Types
  <2>7. /\ DOMAIN shown = DOMAIN es
        /\ \A i \in DOMAIN es :
             /\ shown[i].name = es[i].type
             /\ shown[i].shows = Shown(parsed, es[i].type, parsed.raw[i])
    BY <2>6 DEF TLSResponse
  <2> HIDE DEF shown
  <2>8. ASSUME NEW i \in DOMAIN es
        PROVE  Shown(parsed, es[i].type, parsed.raw[i]) \in Recognised(es[i])
    <3> DEFINE e == es[i]
               t == e.type
               c == e.content
               raw == parsed.raw[i]
    <3>1. raw = EncodeContent(t, c)
      BY <2>5
    <3>2. t \in Read => ContentIn(meant, t) = c
      BY <2>2, <2>3, <2>4, ContentOnce
    <3> HIDE DEF e, t, c, raw
    <3>3. e.type = t /\ e.content = c
      BY DEF e, t, c
    <3> SUFFICES Shown(parsed, t, raw) \in Recognised(e)
      BY DEF e, t, raw
    <3>4. CASE t = SNI
      <4>1. Shown(parsed, t, raw) = parsed.name
        BY <3>4, NamedKinds, Zenon DEF Shown
      <4>2. Recognised(e) = IF Hosts = {} THEN {<<>>} ELSE Hosts
        BY <3>3, <3>4, NamedKinds DEF Recognised
      <4>3. IF Hosts = {} THEN parsed.name = <<>> ELSE parsed.name \in Hosts
        <5>1. SNI \in Read
          BY DEF Read, Nested
        <5>2. ContentIn(meant, SNI) \in Seq(Unit(SNI))
          BY <2>2, <5>1, ContentType
        <5>3. Hosts = {d.data : d \in {f \in ToSet(ContentIn(meant, SNI)) : f.head = <<0>>}} \ {<<>>}
          BY DEF Hosts, ContentOf
        <5> QED BY <2>5, <5>2, <5>3, NameFound
      <4> QED BY <4>1, <4>2, <4>3
    <3>5. CASE t = ALPN
      <4>1. Shown(parsed, t, raw) = parsed.protocols
        BY <3>5, NamedKinds DEF Shown
      <4>2. Recognised(e) = {[j \in DOMAIN c |-> c[j].data]}
        BY <3>3, <3>5, NamedKinds DEF Recognised
      <4>3. ContentIn(meant, ALPN) = c
        BY <3>2, <3>5 DEF Read, Nested
      <4> QED BY <2>5, <4>1, <4>2, <4>3
    <3>6. CASE t = KeyShare
      <4>1. Shown(parsed, t, raw) = parsed.shares
        BY <3>6, NamedKinds DEF Shown
      <4>2. Recognised(e) = {[j \in DOMAIN c |-> [group |-> Number(c[j].head), key |-> c[j].data]]}
        BY <3>3, <3>6, NamedKinds DEF Recognised
      <4>3. ContentIn(meant, KeyShare) = c
        BY <3>2, <3>6 DEF Read, Nested
      <4> QED BY <2>5, <4>1, <4>2, <4>3 DEF TypeOf
    <3>7. CASE t = ExtendedMasterSecret
      <4>1. Shown(parsed, t, raw) = <<>>
        BY <3>7, NamedKinds DEF Shown
      <4>2. Recognised(e) = {<<>>}
        BY <3>3, <3>7, NamedKinds DEF Recognised
      <4> QED BY <4>1, <4>2
    <3>8. CASE t \in (Wide \cup Narrow) \ {CompressCertificate}
      <4>1. Shown(parsed, t, raw) = parsed.lists[t]
        BY <3>8, NamedKinds DEF Shown, ShownList
      <4>2. Recognised(e) = {c}
        BY <3>3, <3>8, NamedKinds DEF Recognised
      <4>3. parsed.lists[t] = c
        BY <2>5, <3>2, <3>8 DEF Read
      <4> QED BY <4>1, <4>2, <4>3
    <3>9. CASE t = CompressCertificate
      <4>1. Shown(parsed, t, raw) = raw
        BY <3>9, NamedKinds DEF Shown
      <4>2. Recognised(e) = {EncodeContent(t, c)}
        BY <3>3, <3>9, NamedKinds DEF Recognised
      <4> QED BY <3>1, <4>1, <4>2
    <3>10. CASE t \notin Read /\ t # ExtendedMasterSecret
      <4>1. t \notin Wide \cup Narrow /\ t # SNI /\ t # ALPN /\ t # KeyShare
            /\ t # CompressCertificate
        BY <3>10, NamedKinds DEF Read
      <4>2. Shown(parsed, t, raw) = raw
        BY <3>10, <4>1 DEF Shown
      <4>3. Recognised(e) = {c}
        BY <3>3, <3>10, <4>1 DEF Recognised
      <4>4. raw = c
        BY <3>1, <3>10 DEF EncodeContent, Read
      <4> QED BY <4>2, <4>3, <4>4
    <3>11. \/ t \in Read \/ t = ExtendedMasterSecret
           \/ t \notin Read /\ t # ExtendedMasterSecret
      OBVIOUS
    <3> QED
      BY <3>4, <3>5, <3>6, <3>7, <3>8, <3>9, <3>10, <3>11, NamedKinds DEF Read
  <2> QED BY <2>7, <2>8
<1> QED
  BY <1>1, ArrivedAlways, PTL

(* A client that shuffles its extensions keeps its peetprint               *)
(* (service.go:238-267).                                                   *)
THEOREM PeetprintKeepsUnderShuffling == Spec => []PeetprintIgnoresOrder
<1>1. Arrived => PeetprintIgnoresOrder
  <2> SUFFICES ASSUME Arrived, Answerable, NEW h \in Hellos, h.version = meant.version,
                      h.suites = meant.suites, Shuffled(h.extensions, meant.extensions)
               PROVE  TLSResponse(ParseClientHello(Encode(h))).peetprint
                        = TLSResponse(parsed).peetprint
    BY Zenon DEF PeetprintIgnoresOrder
  <2> DEFINE q == ParseClientHello(Encode(h))
  <2>1. parsed # Unparsed /\ Whole /\ IsInjective(parsed.extensions)
    BY Zenon DEF Answerable
  <2>2. Sayable(meant) /\ parsed = Meaning(meant) /\ Sayable(h)
    BY <2>1, Understood, HellosAssumption
  <2>3. Distinct(meant)
    BY <2>1, <2>2, InjectiveDistinct
  <2>4. /\ q.version = parsed.version /\ q.suites = parsed.suites
        /\ Counted(q.extensions, parsed.extensions)
        /\ q.protocols = parsed.protocols /\ q.lists = parsed.lists
        /\ q.extensions \in Seq(TwoBytes) /\ parsed.extensions \in Seq(TwoBytes)
    BY <2>2, <2>3, ShuffledMeaning
  <2> HIDE DEF q
  <2>5. PeetExtensions(q) = PeetExtensions(parsed)
    BY <2>4, CountedSame DEF PeetExtensions
  <2>6. NegotiatedVersion(q) = NegotiatedVersion(parsed)
    BY <2>4 DEF NegotiatedVersion
  <2>7. Peetprint(q) = Peetprint(parsed)
    BY <2>4, <2>5, <2>6 DEF Peetprint, LegacyVersion
  <2>8. TLSResponse(q).peetprint = TLSResponse(parsed).peetprint
    BY <2>7 DEF TLSResponse
  <2> QED BY <2>8 DEF q
<1> QED
  BY <1>1, ArrivedAlways, PTL

-------------------------------------------------------------------------------
(* Reserved values                                                         *)

Plain16 == TwoBytes \ ReservedValues
Plain8 == Byte \ ReservedModes

LEMMA GREASE16 ==
  ASSUME NEW v \in TwoBytes
  PROVE  IsGREASE16(v) <=> v \in ReservedValues
<1>1. v \in Nat /\ v < 65536
  BY DEF TwoBytes
<1>2. ASSUME IsGREASE16(v) PROVE v \in ReservedValues
  <2>1. v % 16 = 10 /\ v \div 256 = v % 256
    BY <1>2 DEF IsGREASE16
  <2>2. PICK b \in 0 .. 255 : v = 257 * b /\ b = v % 256
    <3>1. v % 256 \in 0 .. 255 /\ v = 256 * (v \div 256) + (v % 256)
      BY <1>1, TwoBytesSplit
    <3> QED BY <2>1, <3>1
  <2>3. b % 16 = 10
    BY <2>1, <2>2
  <2>4. PICK i \in 0 .. 15 : b = 16 * i + 10
    <3>1. b \div 16 \in 0 .. 15 /\ b = 16 * (b \div 16) + (b % 16)
      OBVIOUS
    <3> QED BY <2>3, <3>1
  <2>5. v = 2570 + 4112 * i
    BY <2>2, <2>4
  <2> QED BY <2>5 DEF ReservedValues
<1>3. ASSUME v \in ReservedValues PROVE IsGREASE16(v)
  <2>1. PICK i \in 0 .. 15 : v = 2570 + 4112 * i
    BY <1>3 DEF ReservedValues
  <2>2. v % 16 = 10 /\ v \div 256 = 16 * i + 10 /\ v % 256 = 16 * i + 10
    BY <2>1
  <2> QED BY <2>2 DEF IsGREASE16
<1> QED
  BY <1>2, <1>3

LEMMA GREASE8 ==
  ASSUME NEW v \in Byte
  PROVE  IsGREASE8(v) <=> v \in ReservedModes
<1>1. ASSUME IsGREASE8(v) PROVE v \in ReservedModes
  <2>1. \E i \in 0 .. 7 : v = 11 + 31 * i
    <3>1. v \in {11, 42, 73, 104, 135, 166, 197, 228}
      BY <1>1 DEF IsGREASE8
    <3>2. /\ 11 = 11 + 31 * 0 /\ 42 = 11 + 31 * 1 /\ 73 = 11 + 31 * 2 /\ 104 = 11 + 31 * 3
          /\ 135 = 11 + 31 * 4 /\ 166 = 11 + 31 * 5 /\ 197 = 11 + 31 * 6 /\ 228 = 11 + 31 * 7
          /\ 0 \in 0 .. 7 /\ 1 \in 0 .. 7 /\ 2 \in 0 .. 7 /\ 3 \in 0 .. 7
          /\ 4 \in 0 .. 7 /\ 5 \in 0 .. 7 /\ 6 \in 0 .. 7 /\ 7 \in 0 .. 7
      OBVIOUS
    <3> QED BY <3>1, <3>2
  <2> QED BY <2>1 DEF ReservedModes
<1>2. ASSUME v \in ReservedModes PROVE IsGREASE8(v)
  <2>1. PICK i \in 0 .. 7 : v = 11 + 31 * i
    BY <1>2 DEF ReservedModes
  <2>2. i = 0 \/ i = 1 \/ i = 2 \/ i = 3 \/ i = 4 \/ i = 5 \/ i = 6 \/ i = 7
    OBVIOUS
  <2>3. v \in {11, 42, 73, 104, 135, 166, 197, 228}
    BY <2>1, <2>2
  <2> QED BY <2>3 DEF IsGREASE8
<1> QED
  BY <1>1, <1>2

(* A list keeps what is in S, and nothing else.                            *)
LEMMA OnlyAll ==
  ASSUME NEW T, NEW s \in Seq(T), NEW S
  PROVE  /\ Only(s, S) = s <=> ToSet(s) \subseteq S
         /\ Only(Only(s, S), S) = Only(s, S)
         /\ ToSet(Only(s, S)) \subseteq S
<1>1. ToSet(s) \subseteq S => Only(s, S) = s
  BY OnlyShorter
<1>2. ToSet(Only(s, S)) = ToSet(s) \cap S
  BY OnlyElements
<1>3. Only(s, S) = s => ToSet(s) \subseteq S
  BY <1>2
<1>4. Only(s, S) \in Seq(T)
  BY OnlyType
<1>5. Only(Only(s, S), S) = Only(s, S)
  BY <1>2, <1>4, OnlyShorter
<1> QED
  BY <1>1, <1>2, <1>3, <1>5

LEMMA WithoutGREASEIs ==
  ASSUME NEW s \in Seq(TwoBytes)
  PROVE  /\ WithoutGREASE(s) = Only(s, Plain16)
         /\ Only(s, ToSet(s) \ ReservedValues) = Only(s, Plain16)
         /\ (\E i \in DOMAIN s : IsGREASE16(s[i])) <=> ~(ToSet(s) \subseteq Plain16)
<1> DEFINE S == {v \in ToSet(s) : ~IsGREASE16(v)}
           R == ToSet(s) \ ReservedValues
<1>1. ToSet(s) \in SUBSET TwoBytes
  BY ToSetType
<1>2. \A v \in ToSet(s) : IsGREASE16(v) <=> v \notin Plain16
  BY <1>1, GREASE16 DEF Plain16
<1>3. \A v \in ToSet(s) : v \in S <=> v \in Plain16
  BY <1>2
<1>4. \A v \in ToSet(s) : v \in R <=> v \in Plain16
  BY <1>1 DEF Plain16
<1>5. WithoutGREASE(s) = Only(s, S)
  BY DEF WithoutGREASE
<1>6. ToSet(s) = {s[i] : i \in DOMAIN s}
  BY DEF ToSet
<1>7. (\E i \in DOMAIN s : IsGREASE16(s[i])) <=> ~(ToSet(s) \subseteq Plain16)
  <2>1. ASSUME NEW i \in DOMAIN s, IsGREASE16(s[i]) PROVE ~(ToSet(s) \subseteq Plain16)
    BY <1>2, <1>6, <2>1
  <2>2. ASSUME ~(ToSet(s) \subseteq Plain16) PROVE \E i \in DOMAIN s : IsGREASE16(s[i])
    <3>1. PICK v \in ToSet(s) : v \notin Plain16
      BY <2>2
    <3> QED BY <1>2, <1>6, <3>1
  <2> QED BY <2>1, <2>2
<1> HIDE DEF S, R
<1>8. Only(s, S) = Only(s, Plain16)
  BY <1>3, OnlySame
<1>9. Only(s, R) = Only(s, Plain16)
  BY <1>4, OnlySame
<1> QED
  BY <1>5, <1>7, <1>8, <1>9 DEF R

LEMMA WithoutGREASE8Is ==
  ASSUME NEW s \in Seq(Byte)
  PROVE  /\ WithoutGREASE8(s) = Only(s, Plain8)
         /\ Only(s, ToSet(s) \ ReservedModes) = Only(s, Plain8)
         /\ (\E i \in DOMAIN s : IsGREASE8(s[i])) <=> ~(ToSet(s) \subseteq Plain8)
<1> DEFINE S == {v \in ToSet(s) : ~IsGREASE8(v)}
           R == ToSet(s) \ ReservedModes
<1>1. ToSet(s) \in SUBSET Byte
  BY ToSetType
<1>2. \A v \in ToSet(s) : IsGREASE8(v) <=> v \notin Plain8
  BY <1>1, GREASE8 DEF Plain8
<1>3. \A v \in ToSet(s) : v \in S <=> v \in Plain8
  BY <1>2
<1>4. \A v \in ToSet(s) : v \in R <=> v \in Plain8
  BY <1>1 DEF Plain8
<1>5. WithoutGREASE8(s) = Only(s, S)
  BY DEF WithoutGREASE8
<1>6. ToSet(s) = {s[i] : i \in DOMAIN s}
  BY DEF ToSet
<1>7. (\E i \in DOMAIN s : IsGREASE8(s[i])) <=> ~(ToSet(s) \subseteq Plain8)
  <2>1. ASSUME NEW i \in DOMAIN s, IsGREASE8(s[i]) PROVE ~(ToSet(s) \subseteq Plain8)
    BY <1>2, <1>6, <2>1
  <2>2. ASSUME ~(ToSet(s) \subseteq Plain8) PROVE \E i \in DOMAIN s : IsGREASE8(s[i])
    <3>1. PICK v \in ToSet(s) : v \notin Plain8
      BY <2>2
    <3> QED BY <1>2, <1>6, <3>1
  <2> QED BY <2>1, <2>2
<1> HIDE DEF S, R
<1>8. Only(s, S) = Only(s, Plain8)
  BY <1>3, OnlySame
<1>9. Only(s, R) = Only(s, Plain8)
  BY <1>4, OnlySame
<1> QED
  BY <1>5, <1>7, <1>8, <1>9 DEF R

(* What is kept of the content of an extension.                            *)
Keep(t) ==
  IF t \in Wide \ {CompressCertificate} THEN Plain16
  ELSE IF t = PSKModes THEN Plain8
  ELSE IF t = KeyShare THEN {e \in Unit(t) : Number(e.head) \notin ReservedValues}
  ELSE Unit(t)

LEMMA KindsOfUnit ==
  /\ \A t \in Wide : Unit(t) = TwoBytes
  /\ \A t \in Narrow : Unit(t) = Byte
  /\ \A t \in Nested : Unit(t) = RawEntries(HeaderWidth(t), EntryWidth(t))
  /\ PSKModes \in Narrow /\ PSKModes \notin Wide /\ KeyShare \in Nested
  /\ KeyShare \notin Wide /\ KeyShare # PSKModes /\ CompressCertificate # PSKModes
<1>1. Wide \cap Narrow = {} /\ Wide \cap Nested = {} /\ Narrow \cap Nested = {}
  BY Kinds
<1>2. /\ PSKModes \in Narrow /\ PSKModes \notin Wide /\ KeyShare \in Nested
      /\ KeyShare \notin Wide /\ KeyShare # PSKModes /\ CompressCertificate # PSKModes
  BY DEF Wide, Narrow, Nested, PSKModes, KeyShare, CompressCertificate, Groups,
         SignatureAlgorithms, SupportedVersions, PointFormats
<1> QED
  BY <1>1, <1>2, Zenon DEF Unit

LEMMA PlainContentIs ==
  ASSUME NEW t \in Read, NEW c \in Seq(Unit(t))
  PROVE  PlainContent(t, c) = Only(c, Keep(t))
<1>1. CASE t \in Wide \ {CompressCertificate}
  <2>1. PlainContent(t, c) = Only(c, ToSet(c) \ ReservedValues) /\ Keep(t) = Plain16
    BY <1>1, Zenon DEF PlainContent, Keep
  <2>2. c \in Seq(TwoBytes)
    BY <1>1, KindsOfUnit
  <2> QED BY <2>1, <2>2, WithoutGREASEIs
<1>2. CASE t = PSKModes
  <2>1. PlainContent(t, c) = Only(c, ToSet(c) \ ReservedModes) /\ Keep(t) = Plain8
    BY <1>2, KindsOfUnit, Zenon DEF PlainContent, Keep
  <2>2. c \in Seq(Byte)
    BY <1>2, KindsOfUnit
  <2> QED BY <2>1, <2>2, WithoutGREASE8Is
<1>3. CASE t = KeyShare
  <2> DEFINE S == {e \in ToSet(c) : Number(e.head) \notin ReservedValues}
             U == Unit(t)
             R == {e \in U : Number(e.head) \notin ReservedValues}
  <2>1. PlainContent(t, c) = Only(c, S) /\ Keep(t) = R
    BY <1>3, KindsOfUnit, Zenon DEF PlainContent, Keep
  <2>2. c \in Seq(U)
    OBVIOUS
  <2> HIDE DEF U
  <2>3. ToSet(c) \in SUBSET U
    BY <2>2, ToSetType
  <2>4. \A e \in ToSet(c) : e \in S <=> e \in R
    BY <2>3
  <2> HIDE DEF S, R
  <2>5. Only(c, S) = Only(c, R)
    BY <2>2, <2>4, OnlySame
  <2> QED BY <2>1, <2>5
<1>4. CASE t \notin Wide \ {CompressCertificate} /\ t # PSKModes /\ t # KeyShare
  <2>1. PlainContent(t, c) = c /\ Keep(t) = Unit(t)
    BY <1>4, Zenon DEF PlainContent, Keep
  <2>2. ToSet(c) \subseteq Unit(t)
    BY ToSetType
  <2>3. Only(c, Unit(t)) = c
    BY <2>2, OnlyShorter
  <2> QED BY <2>1, <2>3
<1> QED
  BY <1>1, <1>2, <1>3, <1>4

-------------------------------------------------------------------------------
(* Extensions that say less                                                *)

LEMMA UnitContents ==
  ASSUME NEW t \in Read, NEW c \in Seq(Unit(t))
  PROVE  /\ c \in Contents(t)
         /\ t \in Nested => \A i \in DOMAIN c : Short(c[i].data, EntryWidth(t))
         /\ EncodeList(t, c) \in Seq(Byte)
         /\ t \in Wide => EncodeList(t, c) = Joined(c, B2)
         /\ t \in Nested =>
              EncodeList(t, c) = Joined(c, EntryBytes(HeaderWidth(t), EntryWidth(t)))
         /\ t \in Narrow => EncodeList(t, c) = c
<1>1. Wide \cap Narrow = {} /\ Wide \cap Nested = {} /\ Narrow \cap Nested = {}
  BY Kinds
<1>2. CASE t \in Wide
  <2>1. t \notin Nested /\ t \notin Narrow
    BY <1>1, <1>2
  <2>2. c \in Contents(t)
    BY <1>2, KindsOfUnit, Zenon DEF Contents
  <2> QED BY <1>2, <2>1, <2>2, WideLists
<1>3. CASE t \in Narrow
  <2>1. t \notin Nested /\ t \notin Wide
    BY <1>1, <1>3
  <2>2. c \in Seq(Byte) /\ c \in Contents(t)
    BY <1>3, <2>1, KindsOfUnit, Zenon DEF Contents
  <2> QED BY <1>3, <2>1, <2>2, NarrowLists
<1>4. CASE t \in Nested
  <2> DEFINE R == RawEntries(HeaderWidth(t), EntryWidth(t))
             K == [head : [1 .. HeaderWidth(t) - EntryWidth(t) -> Byte], data : Seq(Byte)]
  <2>1. t \notin Wide /\ t \notin Narrow
    BY <1>1, <1>4
  <2>2. c \in Seq(R)
    BY <1>4, KindsOfUnit
  <2>3. R \in SUBSET K /\ \A e \in R : Short(e.data, EntryWidth(t))
    BY DEF RawEntries
  <2> HIDE DEF R, K
  <2>4. Len(c) \in Nat /\ DOMAIN c = 1 .. Len(c) /\ c \in [1 .. Len(c) -> R]
    BY <2>2, LenProperties
  <2>5. c \in [1 .. Len(c) -> K]
    BY <2>3, <2>4
  <2>6. c \in Seq(K)
    BY <2>4, <2>5, SeqDef
  <2>7. c \in Contents(t)
    BY <1>4, <2>1, <2>6, Zenon DEF Contents, K
  <2>8. \A i \in DOMAIN c : Short(c[i].data, EntryWidth(t))
    BY <2>3, <2>4
  <2> QED BY <1>4, <2>1, <2>7, <2>8, NestedLists
<1> QED
  BY <1>2, <1>3, <1>4 DEF Read

LEMMA OnlyListNoLonger ==
  ASSUME NEW t \in Read, NEW c \in Seq(Unit(t)), NEW S
  PROVE  /\ Only(c, S) \in Seq(Unit(t))
         /\ Len(EncodeList(t, Only(c, S))) <= Len(EncodeList(t, c))
<1> DEFINE U == Unit(t)
           d == Only(c, S)
<1>1. d \in Seq(U)
  <2> HIDE DEF U
  <2> QED BY OnlyType DEF U
<1>2. CASE t \in Wide
  <2>1. U = TwoBytes
    BY <1>2, KindsOfUnit
  <2>2. EncodeList(t, d) = Joined(d, B2) /\ EncodeList(t, c) = Joined(c, B2)
    <3> HIDE DEF d
    <3> QED BY <1>1, <1>2, UnitContents
  <2>3. Len(Joined(d, B2)) <= Len(Joined(c, B2))
    BY <2>1, B2Maps, JoinedOnlyNoLonger
  <2> QED BY <1>1, <2>2, <2>3
<1>3. CASE t \in Narrow
  <2>1. EncodeList(t, d) = d /\ EncodeList(t, c) = c
    <3> HIDE DEF d
    <3> QED BY <1>1, <1>3, UnitContents
  <2>2. Len(d) <= Len(c)
    BY OnlyShorter
  <2> QED BY <1>1, <2>1, <2>2
<1>4. CASE t \in Nested
  <2> DEFINE h == HeaderWidth(t)
             w == EntryWidth(t)
             f == EntryBytes(h, w)
  <2>1. U = RawEntries(h, w)
    BY <1>4, KindsOfUnit
  <2>2. EncodeList(t, d) = Joined(d, f) /\ EncodeList(t, c) = Joined(c, f)
    <3> HIDE DEF d
    <3> QED BY <1>1, <1>4, UnitContents
  <2>3. h \in Nat /\ w \in {1, 2} /\ w <= h
    BY <1>4, Kinds
  <2>4. Maps(f, RawEntries(h, w), Seq(Byte))
    <3> HIDE DEF h, w
    <3> QED BY <2>3, EntryBytesMaps
  <2> HIDE DEF f, h, w, U
  <2>5. c \in Seq(RawEntries(h, w))
    BY <2>1 DEF U
  <2>6. Len(Joined(Only(c, S), f)) <= Len(Joined(c, f))
    BY <2>4, <2>5, JoinedOnlyNoLonger
  <2> QED BY <1>1, <2>2, <2>6 DEF U
<1> QED
  BY <1>2, <1>3, <1>4 DEF Read

(* How long an extension is.                                               *)
LEMMA SaidLen ==
  ASSUME NEW e \in Sayables
  PROVE  /\ EncodeContent(e.type, e.content) \in Seq(Byte)
         /\ Short(EncodeContent(e.type, e.content), 2)
         /\ Len(Said[e]) = 4 + Len(EncodeContent(e.type, e.content))
<1> DEFINE p == EncodeContent(e.type, e.content)
           b == Bytes2(e.type)
<1>1. SayableExtension(e) /\ e.type \in TwoBytes
  BY SayablesAre, RawIs
<1>2. p \in Seq(Byte) /\ Short(p, 2)
  BY <1>1, ContentRead
<1>3. b \in Seq(Byte) /\ Len(b) = 2
  BY <1>1, Bytes2Number
<1> HIDE DEF p, b
<1>4. 2 \in {1, 2} /\ Len(p) \in Nat
  BY <1>2, LenProperties
<1>5. Prefixed(p, 2) \in Seq(Byte) /\ Len(Prefixed(p, 2)) = 2 + Len(p)
  BY <1>2, <1>4, PrefixedLen
<1>6. Said[e] = Cat(b, Prefixed(p, 2))
  BY DEF Said, EncodeExtension, Cat, p, b
<1>7. Len(Cat(b, Prefixed(p, 2))) = Len(b) + Len(Prefixed(p, 2))
  <2> DEFINE q == Prefixed(p, 2)
  <2>1. q \in Seq(Byte)
    BY <1>5
  <2> HIDE DEF q
  <2>2. Len(Cat(b, q)) = Len(b) + Len(q)
    BY <1>3, <2>1, CatLen
  <2> QED BY <2>2 DEF q
<1>8. Len(Said[e]) = 4 + Len(p)
  BY <1>3, <1>4, <1>5, <1>6, <1>7
<1> QED
  BY <1>2, <1>8 DEF p

LEMMA ListLen ==
  ASSUME NEW t \in Read, NEW c \in Seq(Unit(t)), Short(EncodeList(t, c), LengthWidth(t))
  PROVE  /\ EncodeContent(t, c) \in Seq(Byte)
         /\ Len(EncodeContent(t, c)) = LengthWidth(t) + Len(EncodeList(t, c))
         /\ Len(EncodeList(t, c)) \in Nat /\ LengthWidth(t) \in {1, 2}
<1> DEFINE l == EncodeList(t, c)
<1>1. l \in Seq(Byte)
  BY UnitContents
<1>2. EncodeContent(t, c) = Prefixed(l, LengthWidth(t))
  BY Zenon DEF EncodeContent, Read
<1>3. LengthWidth(t) \in {1, 2}
  BY Kinds
<1> HIDE DEF l
<1>4. /\ Prefixed(l, LengthWidth(t)) \in Seq(Byte)
      /\ Len(Prefixed(l, LengthWidth(t))) = LengthWidth(t) + Len(l)
  <2>1. Short(l, LengthWidth(t))
    BY DEF l
  <2> QED BY <1>1, <1>3, <2>1, PrefixedLen
<1>5. Len(l) \in Nat
  BY <1>1, LenProperties
<1> QED
  BY <1>2, <1>3, <1>4, <1>5 DEF l

(* An extension whose list is no longer than that of one that can be said  *)
(* can be said, and is no longer either.                                   *)
LEMMA LessSaid ==
  ASSUME NEW e \in Sayables, NEW t, t = e.type, t \in Read, NEW c \in Seq(Unit(t)),
         Len(EncodeList(t, c)) <= Len(EncodeList(t, e.content))
  PROVE  /\ [type |-> t, content |-> c] \in Sayables
         /\ Len(Said[[type |-> t, content |-> c]]) <= Len(Said[e])
<1> DEFINE f == [type |-> t, content |-> c]
           l == EncodeList(t, c)
           k == EncodeList(t, e.content)
           w == LengthWidth(t)
<1>1. /\ e.content \in Seq(Unit(t)) /\ SayableExtension(e) /\ t \in TwoBytes
  BY ContentUnits, SayablesAre, RawIs
<1>2. Short(k, w) /\ Short(EncodeContent(t, e.content), 2)
  BY <1>1, Zenon DEF SayableExtension, Read
<1>3. /\ EncodeContent(t, e.content) \in Seq(Byte)
      /\ Len(EncodeContent(t, e.content)) = w + Len(k)
      /\ Len(k) \in Nat /\ w \in {1, 2}
  BY <1>1, <1>2, ListLen
<1>4. l \in Seq(Byte) /\ Len(l) \in Nat
  BY UnitContents, LenProperties
<1>5. Short(l, w)
  <2> HIDE DEF l, k, w
  <2>1. Len(l) <= Len(k)
    BY DEF l, k
  <2> QED BY <1>2, <1>3, <1>4, <2>1 DEF Short
<1>6. /\ EncodeContent(t, c) \in Seq(Byte)
      /\ Len(EncodeContent(t, c)) = w + Len(l)
  BY <1>5, ListLen
<1>7. Len(EncodeContent(t, c)) <= Len(EncodeContent(t, e.content))
      /\ Len(EncodeContent(t, c)) \in Nat /\ Len(EncodeContent(t, e.content)) \in Nat
  <2>1. Len(l) <= Len(k)
    OBVIOUS
  <2> HIDE DEF l, k, w
  <2> QED BY <1>3, <1>4, <1>6, <2>1
<1>8. Short(EncodeContent(t, c), 2)
  BY <1>2, <1>7 DEF Short
<1>9. SayableExtension(f)
  <2>1. /\ c \in Contents(t)
        /\ t \in Nested => \A i \in DOMAIN c : Short(c[i].data, EntryWidth(t))
    BY UnitContents
  <2>2. f.type = t /\ f.content = c
    OBVIOUS
  <2>3. f \in [type : TwoBytes, content : Contents(t)]
    BY <1>1, <2>1
  <2> HIDE DEF f
  <2> QED BY <1>5, <1>8, <2>1, <2>2, <2>3, Zenon DEF SayableExtension, l, w
<1>10. f \in Sayables /\ f.type = t /\ f.content = c
  BY <1>9, SayablesAre
<1> HIDE DEF f
<1>11. /\ Len(Said[f]) = 4 + Len(EncodeContent(t, c))
       /\ Len(Said[e]) = 4 + Len(EncodeContent(t, e.content))
  BY <1>10, SaidLen
<1>12. Len(Said[f]) <= Len(Said[e])
  BY <1>7, <1>11
<1> QED
  BY <1>10, <1>12 DEF f

(* The same of an extension nobody looks into.                             *)
LEMMA LessSaidBytes ==
  ASSUME NEW e \in Sayables, NEW t, t = e.type, t \notin Read, NEW c \in Seq(Byte),
         Len(c) <= Len(e.content)
  PROVE  /\ [type |-> t, content |-> c] \in Sayables
         /\ Len(Said[[type |-> t, content |-> c]]) <= Len(Said[e])
<1> DEFINE f == [type |-> t, content |-> c]
<1>1. t \notin Wide /\ t \notin Narrow /\ t \notin Nested
  BY DEF Read
<1>2. SayableExtension(e) /\ t \in TwoBytes
  BY SayablesAre, RawIs
<1>3. EncodeContent(t, e.content) = e.content /\ EncodeContent(t, c) = c
  BY <1>1, Zenon DEF EncodeContent
<1>4. /\ e.content \in Seq(Byte) /\ Short(e.content, 2)
      /\ Len(Said[e]) = 4 + Len(e.content)
  BY <1>3, SaidLen
<1>5. Len(c) \in Nat /\ Len(e.content) \in Nat
  BY <1>4, LenProperties
<1>6. Short(c, 2)
  BY <1>4, <1>5 DEF Short
<1>7. SayableExtension(f)
  <2>1. c \in Contents(t)
    BY <1>1, Zenon DEF Contents
  <2>2. f.type = t /\ f.content = c
    OBVIOUS
  <2>3. f \in [type : TwoBytes, content : Contents(t)]
    BY <1>2, <2>1
  <2> HIDE DEF f
  <2> QED BY <1>1, <1>3, <1>6, <2>2, <2>3, Zenon DEF SayableExtension
<1>8. f \in Sayables /\ f.type = t /\ f.content = c
  BY <1>7, SayablesAre
<1> HIDE DEF f
<1>9. Len(Said[f]) = 4 + Len(c)
  BY <1>3, <1>8, SaidLen
<1>10. Len(Said[f]) <= Len(Said[e])
  BY <1>4, <1>5, <1>9
<1> QED
  BY <1>8, <1>10 DEF f

LEMMA SeqOfElements ==
  ASSUME NEW T, NEW s \in Seq(T)
  PROVE  s \in Seq(ToSet(s))
<1>1. Len(s) \in Nat /\ DOMAIN s = 1 .. Len(s) /\ s \in [1 .. Len(s) -> T]
  BY LenProperties
<1>2. \A i \in 1 .. Len(s) : s[i] \in ToSet(s)
  BY <1>1 DEF ToSet
<1>3. s \in [1 .. Len(s) -> ToSet(s)]
  BY <1>1, <1>2
<1> QED
  BY <1>1, <1>3, SeqDef

(* Some of the extensions of a ClientHello, each saying less, fit in it.   *)
LEMMA LessFits ==
  ASSUME NEW h, Sayable(h), NEW es, NEW R, es = Only(h.extensions, R), NEW f,
         Maps(f, ToSet(es), Sayables),
         \A e \in ToSet(es) : Len(Said[f[e]]) <= Len(Said[e])
  PROVE  /\ es \in Seq(Sayables) /\ Mapped(es, f) \in Seq(Sayables)
         /\ Short(Joined(Mapped(es, f), Said), 2)
<1> DEFINE E == ToSet(es)
           x == Mapped(es, f)
           g == [e \in E |-> Said[f[e]]]
           j == Joined(x, Said)
           k == Joined(es, Said)
           l == Joined(h.extensions, Said)
<1>1. /\ h.extensions \in Seq(Sayables) /\ Short(l, 2) /\ l \in Seq(Byte)
  BY SayableParts DEF ExtensionBytes
<1>2. es \in Seq(Sayables)
  BY <1>1, OnlyType
<1>3. es \in Seq(E) /\ E \in SUBSET Sayables
  BY <1>2, SeqOfElements, ToSetType
<1>4. Maps(f, E, Sayables)
  OBVIOUS
<1>5. \A e \in E : Len(Said[f[e]]) <= Len(Said[e])
  OBVIOUS
<1> HIDE DEF E
<1>6. x \in Seq(Sayables) /\ DOMAIN x = DOMAIN es /\ \A i \in 1 .. Len(es) : x[i] = f[es[i]]
  BY <1>3, <1>4, MappedType
<1>7. /\ Maps(Said, E, Seq(Byte)) /\ Maps(g, E, Seq(Byte))
      /\ \A e \in E : Len(g[e]) <= Len(Said[e])
  BY <1>3, <1>4, <1>5, SaidMaps DEF Maps
<1>8. j = Joined(es, g)
  <2>1. \A i \in DOMAIN es : Said[x[i]] = g[es[i]]
    <3>1. DOMAIN es = 1 .. Len(es)
      BY <1>3, LenProperties
    <3>2. \A i \in 1 .. Len(es) : es[i] \in E
      BY <1>3, ElementOfSeq
    <3> HIDE DEF x
    <3> QED BY <1>6, <3>1, <3>2
  <2>2. Mapped(x, Said) = Mapped(es, g)
    <3> HIDE DEF x, g
    <3> QED BY <1>6, <2>1 DEF Mapped
  <2> QED BY <2>2 DEF Joined
<1> HIDE DEF g, j, k, l, x
<1>9. Len(j) <= Len(k)
  BY <1>3, <1>7, <1>8, JoinedNoLonger DEF k
<1>10. Len(k) <= Len(l)
  <2>1. Len(Joined(Only(h.extensions, R), Said)) <= Len(Joined(h.extensions, Said))
    BY <1>1, SaidMaps, JoinedOnlyNoLonger
  <2> QED BY <2>1 DEF k, l
<1>11. j \in Seq(Byte) /\ k \in Seq(Byte)
  BY <1>2, <1>6, ExtensionsEncoded DEF j, k
<1>12. Len(j) \in Nat /\ Len(k) \in Nat /\ Len(l) \in Nat
  BY <1>1, <1>11, LenProperties
<1>13. Short(j, 2)
  BY <1>1, <1>9, <1>10, <1>12 DEF Short
<1> QED
  BY <1>2, <1>6, <1>13 DEF x, j

-------------------------------------------------------------------------------
(* A ClientHello without reserved values                                   *)

PlainOf == [e \in Sayables |-> [e EXCEPT !.content = PlainContent(e.type, @)]]

LEMMA PlainOfIs ==
  ASSUME NEW e \in Sayables
  PROVE  /\ PlainOf[e] = [type |-> e.type, content |-> PlainContent(e.type, e.content)]
         /\ PlainOf[e] \in Sayables /\ Len(Said[PlainOf[e]]) <= Len(Said[e])
<1> DEFINE t == e.type
           c == e.content
           d == PlainContent(t, c)
<1>1. e = [type |-> t, content |-> c]
  BY DEF Sayables
<1>2. PlainOf[e] = [type |-> t, content |-> d]
  BY <1>1 DEF PlainOf
<1> HIDE DEF t, c, d
<1>3. CASE t \in Read
  <2>1. c \in Seq(Unit(t))
    BY <1>3, ContentUnits DEF c, t
  <2>2. d = Only(c, Keep(t))
    BY <1>3, <2>1, PlainContentIs DEF d
  <2>3. d \in Seq(Unit(t)) /\ Len(EncodeList(t, d)) <= Len(EncodeList(t, c))
    BY <1>3, <2>1, <2>2, OnlyListNoLonger
  <2>4. t = e.type /\ Len(EncodeList(t, d)) <= Len(EncodeList(t, e.content))
    BY <2>3 DEF t, c
  <2>5. /\ [type |-> t, content |-> d] \in Sayables
        /\ Len(Said[[type |-> t, content |-> d]]) <= Len(Said[e])
    BY <1>3, <2>3, <2>4, LessSaid
  <2> QED BY <1>2, <2>5 DEF t, c, d
<1>4. CASE t \notin Read
  <2>1. d = c
    <3>1. t \notin Wide \ {CompressCertificate} /\ t # PSKModes /\ t # KeyShare
      BY <1>4, KindsOfUnit DEF Read
    <3> QED BY <3>1 DEF PlainContent, d
  <2>2. PlainOf[e] = e
    BY <1>1, <1>2, <2>1
  <2>3. Len(Said[e]) \in Nat
    BY SaidMaps, LenProperties DEF Maps
  <2>4. Len(Said[e]) <= Len(Said[e])
    BY <2>3
  <2> QED BY <1>2, <2>2, <2>4 DEF t, c, d
<1> QED
  BY <1>3, <1>4

LEMMA PlainOfParts ==
  ASSUME NEW e \in Sayables
  PROVE  /\ PlainOf[e] \in Sayables /\ PlainOf[e].type = e.type
         /\ PlainOf[e].content = PlainContent(e.type, e.content)
<1> DEFINE d == PlainContent(e.type, e.content)
           p == PlainOf[e]
<1>1. p = [type |-> e.type, content |-> d] /\ p \in Sayables
  BY PlainOfIs
<1> HIDE DEF d, p
<1>2. p.type = e.type /\ p.content = d
  BY <1>1
<1> QED
  BY <1>1, <1>2 DEF d, p

PlainTypes == {e \in Sayables : e.type \notin ReservedValues}
PlainExtensions(h) == Only(h.extensions, PlainTypes)

LEMMA PlainIs ==
  ASSUME NEW h, Sayable(h)
  PROVE  /\ Sayable(Plain(h)) /\ Plain(h).version = h.version
         /\ Plain(h).suites = WithoutGREASE(h.suites)
         /\ Plain(h).extensions = Mapped(PlainExtensions(h), PlainOf)
         /\ PlainExtensions(h) \in Seq(Sayables)
         /\ Plain(h) = h <=> Plain(h).suites = h.suites /\ Plain(h).extensions = h.extensions
<1> DEFINE u == Only(h.suites, ToSet(h.suites) \ ReservedValues)
           o == PlainExtensions(h)
           x == Mapped(o, PlainOf)
           g == [h EXCEPT !.suites = u, !.extensions = x]
           S == {e \in ToSet(h.extensions) : e.type \notin ReservedValues}
<1>1. /\ h.version \in TwoBytes
      /\ h.session \in Seq(Byte) /\ Short(h.session, 1)
      /\ h.suites \in Seq(TwoBytes)
      /\ SuiteBytes(h) \in Seq(Byte) /\ Short(SuiteBytes(h), 2)
      /\ Len(SuiteBytes(h)) = 2 * Len(h.suites)
      /\ h.compression \in Seq(Byte) /\ Short(h.compression, 1)
      /\ h.extensions \in Seq(Sayables)
  BY SayableParts
<1>2. u = WithoutGREASE(h.suites) /\ u \in Seq(TwoBytes) /\ Len(u) <= Len(h.suites)
  <2>1. u \in Seq(TwoBytes) /\ Len(u) <= Len(h.suites)
    BY <1>1, OnlyType, OnlyShorter
  <2>2. u = WithoutGREASE(h.suites)
    BY <1>1, WithoutGREASEIs
  <2> QED BY <2>1, <2>2
<1>3. Only(h.extensions, S) = o
  <2>1. ToSet(h.extensions) \in SUBSET Sayables
    BY <1>1, ToSetType
  <2>2. \A e \in ToSet(h.extensions) : e \in S <=> e \in PlainTypes
    BY <2>1 DEF PlainTypes
  <2> HIDE DEF S
  <2> QED BY <1>1, <2>2, OnlySame DEF PlainExtensions
<1>4. o \in Seq(Sayables) /\ ToSet(o) \in SUBSET Sayables
  BY <1>1, OnlyType, ToSetType DEF PlainExtensions
<1>5. x \in Seq(Sayables) /\ Short(Joined(x, Said), 2)
  <2>1. Maps(PlainOf, ToSet(o), Sayables) /\ \A e \in ToSet(o) : Len(Said[PlainOf[e]]) <= Len(Said[e])
    BY <1>4, PlainOfIs DEF Maps
  <2>2. o = Only(h.extensions, PlainTypes)
    BY DEF PlainExtensions
  <2> HIDE DEF o
  <2> QED BY <2>1, <2>2, LessFits
<1>6. Short(Joined(u, B2), 2)
  <2>1. Len(Joined(u, B2)) = 2 * Len(u)
    <3> HIDE DEF u
    <3> QED BY <1>2, FlatBytes2
  <2>2. Len(u) \in Nat /\ Len(h.suites) \in Nat
    <3> HIDE DEF u
    <3> QED BY <1>1, <1>2, LenProperties
  <2> HIDE DEF u
  <2> QED BY <1>1, <1>2, <2>1, <2>2 DEF Short
<1>7. Plain(h) = g
  <2>1. \A i \in DOMAIN o : PlainOf[o[i]]
                            = [o[i] EXCEPT !.content = PlainContent(o[i].type, @)]
    <3> HIDE DEF o
    <3> QED BY <1>4, LenProperties DEF PlainOf
  <2> HIDE DEF o
  <2>2. x = [i \in DOMAIN o |-> [o[i] EXCEPT !.content = PlainContent(o[i].type, @)]]
    BY <2>1 DEF Mapped
  <2>3. Plain(h) = [h EXCEPT !.suites = u, !.extensions =
                      [i \in DOMAIN o |-> [o[i] EXCEPT !.content = PlainContent(o[i].type, @)]]]
    BY <1>3, Zenon DEF Plain, S, u
  <2> QED BY <2>2, <2>3
<1>8. h \in [version : {h.version}, session : {h.session}, suites : {h.suites},
             compression : {h.compression}, extensions : {h.extensions}]
  <2>1. h = [version |-> h.version, session |-> h.session, suites |-> h.suites,
             compression |-> h.compression, extensions |-> h.extensions]
    BY SayableIs
  <2> QED BY <2>1
<1>9. g \in [version : {h.version}, session : {h.session}, suites : {u},
             compression : {h.compression}, extensions : {x}]
  <2> HIDE DEF u, x
  <2> QED BY <1>8
<1> HIDE DEF u, x, g
<1>10. g = [version |-> h.version, session |-> h.session, suites |-> u,
            compression |-> h.compression, extensions |-> x]
  BY <1>9
<1>11. Sayable(g)
  BY <1>1, <1>2, <1>5, <1>6, <1>10, SayableFrom
<1>12. g = h <=> g.suites = h.suites /\ g.extensions = h.extensions
  <2>1. ASSUME g.suites = h.suites, g.extensions = h.extensions PROVE g = h
    <3>1. u = h.suites /\ x = h.extensions
      BY <1>10, <2>1
    <3> QED BY <1>8, <1>9, <3>1
  <2> QED BY <2>1
<1> QED
  BY <1>2, <1>4, <1>7, <1>10, <1>11, <1>12 DEF x

LEMMA ReadPlain ==
  ASSUME NEW t \in Read
  PROVE  t \notin ReservedValues
<1>1. t \in {0, 10, 11, 13, 16, 27, 43, 45, 51}
  BY DEF Read, Wide, Narrow, Nested, SNI, Groups, PointFormats, SignatureAlgorithms, ALPN,
         CompressCertificate, SupportedVersions, PSKModes, KeyShare
<1>2. \A i \in 0 .. 15 : 2570 + 4112 * i > 51
  OBVIOUS
<1> QED
  BY <1>1, <1>2 DEF ReservedValues

(* What is kept of the contents is what is kept of all of them together.   *)
LEMMA PlainContents ==
  ASSUME NEW h, Sayable(h), NEW t \in Read
  PROVE  ContentIn(Plain(h), t) = Only(ContentIn(h, t), Keep(t))
<1> DEFINE es == h.extensions
           po == PlainExtensions(h)
           x == Mapped(po, PlainOf)
           Q == {e \in Sayables : e.type = t}
           o == Own(es, t)
           U == Unit(t)
           S == Keep(t)
           g == [b \in Seq(U) |-> Only(b, S)]
           ss == Pieces(o)
<1>1. /\ Plain(h).extensions = x /\ po \in Seq(Sayables) /\ Sayable(Plain(h))
      /\ po = Only(es, PlainTypes) /\ es \in Seq(Sayables)
  BY PlainIs, SayableParts DEF PlainExtensions
<1>2. Maps(PlainOf, Sayables, Sayables) /\ \A e \in Sayables : e \in Q <=> PlainOf[e] \in Q
  BY PlainOfParts DEF Maps
<1> HIDE DEF es, po
<1>3. x \in Seq(Sayables)
  BY <1>1, <1>2, MappedType
<1>4. Own(x, t) = Only(x, Q) /\ o = Only(es, Q)
  <2> HIDE DEF x
  <2> QED BY <1>1, <1>3, OwnAre
<1>5. Only(x, Q) = Mapped(Only(po, Q), PlainOf)
  <2> HIDE DEF Q
  <2> QED BY <1>1, <1>2, OnlyMapped
<1>6. Only(po, Q) = o
  <2>1. PlainTypes \cap Q = Q
    BY ReadPlain DEF PlainTypes
  <2> HIDE DEF Q, o
  <2>2. Only(Only(es, PlainTypes), Q) = Only(es, PlainTypes \cap Q)
    BY <1>1, OnlyOnly
  <2> QED BY <1>1, <1>4, <2>1, <2>2
<1>7. Own(x, t) = Mapped(o, PlainOf)
  BY <1>4, <1>5, <1>6
<1>8. /\ ContentIn(h, t) = FlattenSeq(ss) /\ ss \in Seq(Seq(U))
      /\ ContentIn(Plain(h), t) = FlattenSeq(Pieces(Own(x, t)))
  BY <1>1, ContentType DEF es
<1>9. \A i \in 1 .. Len(o) : o[i] \in Sayables /\ o[i].type = t
  BY <1>1, OwnAre
<1>10. DOMAIN o = 1 .. Len(o)
  <2>1. o \in Seq(Sayables)
    BY <1>1, OwnAre
  <2> HIDE DEF o
  <2> QED BY <2>1, LenProperties
<1> HIDE DEF o, x, Q, ss
<1>11. ASSUME NEW i \in 1 .. Len(o)
       PROVE  PlainOf[o[i]].content = g[o[i].content]
  <2> DEFINE e == o[i]
  <2>1. e \in Sayables /\ e.type = t
    BY <1>9
  <2> HIDE DEF e, g, S
  <2>2. e.content \in Seq(U)
    BY <2>1, ContentUnits
  <2>3. PlainOf[e].content = PlainContent(t, e.content)
    BY <2>1, PlainOfParts
  <2>4. PlainContent(t, e.content) = Only(e.content, Keep(t))
    BY <2>2, PlainContentIs
  <2>5. g[e.content] = Only(e.content, Keep(t))
    BY <2>2 DEF g, S
  <2> QED BY <2>3, <2>4, <2>5 DEF e
<1>12. Pieces(Own(x, t)) = Mapped(ss, g)
  <2>1. /\ DOMAIN ss = DOMAIN o /\ \A i \in DOMAIN o : ss[i] = o[i].content
        /\ DOMAIN Own(x, t) = DOMAIN o /\ \A i \in DOMAIN o : Own(x, t)[i] = PlainOf[o[i]]
    BY <1>7 DEF ss, Pieces, Mapped
  <2> HIDE DEF g
  <2> QED BY <1>10, <1>11, <2>1 DEF Pieces, Mapped
<1>13. \A b \in Seq(U) : g[b] = Only(b, S)
  OBVIOUS
<1> HIDE DEF g, U
<1>14. Only(FlattenSeq(ss), S) = FlattenSeq(Mapped(ss, g))
  BY <1>8, <1>13, OnlyFlatten
<1> QED
  BY <1>8, <1>12, <1>14 DEF S

GroupOf == [e \in Unit(KeyShare) |-> Number(e.head)]

LEMMA GroupsShared ==
  /\ Maps(GroupOf, Unit(KeyShare), TwoBytes)
  /\ \A h : Sayable(h) =>
       /\ ContentIn(h, KeyShare) \in Seq(Unit(KeyShare))
       /\ ShareGroups(Meaning(h)) = Mapped(ContentIn(h, KeyShare), GroupOf)
<1>1. ASSUME NEW e \in Unit(KeyShare) PROVE GroupOf[e] \in TwoBytes
  <2>1. HeaderWidth(KeyShare) = 4 /\ EntryWidth(KeyShare) = 2
    BY DEF HeaderWidth, EntryWidth, KeyShare, SNI, ALPN
  <2>2. e \in RawEntries(4, 2)
    BY <2>1, KindsOfUnit
  <2>3. 4 \in Nat /\ 2 \in {1, 2} /\ 2 <= 4 /\ 4 - 2 = 2
    OBVIOUS
  <2>4. e.head \in Seq(Byte) /\ Len(e.head) = 4 - 2
    BY <2>2, <2>3, EntryParts
  <2>5. Number(e.head) \in TwoBytes
    BY <2>3, <2>4, NumberType
  <2> QED BY <2>5 DEF GroupOf
<1>2. ASSUME NEW h, Sayable(h)
      PROVE  /\ ContentIn(h, KeyShare) \in Seq(Unit(KeyShare))
             /\ ShareGroups(Meaning(h)) = Mapped(ContentIn(h, KeyShare), GroupOf)
  <2> DEFINE c == ContentIn(h, KeyShare)
  <2>1. KeyShare \in Read
    BY DEF Read, Nested
  <2>2. c \in Seq(Unit(KeyShare))
    BY <1>2, <2>1, ContentType
  <2>3. Meaning(h).shares = [i \in DOMAIN c |-> [group |-> TypeOf(c[i]), key |-> c[i].data]]
    BY DEF Meaning
  <2> HIDE DEF c
  <2>4. \A i \in DOMAIN c : GroupOf[c[i]] = TypeOf(c[i])
    BY <2>2, LenProperties DEF GroupOf, TypeOf
  <2>5. ShareGroups(Meaning(h)) = [i \in DOMAIN c |-> TypeOf(c[i])]
    BY <2>3 DEF ShareGroups
  <2>6. ShareGroups(Meaning(h)) = Mapped(c, GroupOf)
    BY <2>4, <2>5 DEF Mapped
  <2> QED BY <2>2, <2>6 DEF c
<1> QED
  BY <1>1, <1>2 DEF Maps

(* What the parser makes of a ClientHello and of the same without reserved *)
(* values.                                                                 *)
Typed(m) ==
  /\ m.suites \in Seq(TwoBytes) /\ m.extensions \in Seq(TwoBytes)
  /\ ShareGroups(m) \in Seq(TwoBytes)
  /\ m.lists \in [Wide \cup Narrow -> UNION {Seq(TwoBytes), Seq(Byte)}]
  /\ \A t \in Wide : m.lists[t] \in Seq(TwoBytes)
  /\ \A t \in Narrow : m.lists[t] \in Seq(Byte)

LEMMA MeaningTyped ==
  ASSUME NEW h, Sayable(h)
  PROVE  Typed(Meaning(h))
<1>1. h.suites \in Seq(TwoBytes) /\ h.extensions \in Seq(Sayables)
  BY SayableParts
<1>2. Mapped(h.extensions, Types) \in Seq(TwoBytes)
  BY <1>1, RawMaps, MappedType
<1>3. ShareGroups(Meaning(h)) \in Seq(TwoBytes)
  BY GroupsShared, MappedType
<1>4. \A t \in Read : ContentIn(h, t) \in Seq(Unit(t))
  BY ContentType
<1>5. \A t \in Wide : ContentIn(h, t) \in Seq(TwoBytes)
  BY <1>4, KindsOfUnit DEF Read
<1>6. \A t \in Narrow : ContentIn(h, t) \in Seq(Byte)
  BY <1>4, KindsOfUnit DEF Read
<1>7. /\ Meaning(h).suites = h.suites /\ Meaning(h).extensions = Mapped(h.extensions, Types)
      /\ Meaning(h).lists = [t \in Wide \cup Narrow |-> ContentIn(h, t)]
  BY DEF Meaning
<1>8. /\ Meaning(h).lists \in [Wide \cup Narrow -> UNION {Seq(TwoBytes), Seq(Byte)}]
      /\ \A t \in Wide : Meaning(h).lists[t] \in Seq(TwoBytes)
      /\ \A t \in Narrow : Meaning(h).lists[t] \in Seq(Byte)
  BY <1>5, <1>6, <1>7
<1> QED
  BY <1>1, <1>2, <1>3, <1>7, <1>8 DEF Typed

LEMMA PlainMeaning ==
  ASSUME NEW h, Sayable(h), NEW m, m = Meaning(h), NEW p, p = Meaning(Plain(h))
  PROVE  /\ p.version = m.version /\ p.name = m.name /\ p.protocols = m.protocols
         /\ p.suites = WithoutGREASE(m.suites)
         /\ p.extensions = WithoutGREASE(m.extensions)
         /\ ShareGroups(p) = WithoutGREASE(ShareGroups(m))
         /\ \A t \in Wide \cup Narrow : p.lists[t] = Only(m.lists[t], Keep(t))
<1> DEFINE g == Plain(h)
           es == h.extensions
           po == PlainExtensions(h)
<1>1. /\ Sayable(g) /\ g.version = h.version /\ g.suites = WithoutGREASE(h.suites)
      /\ g.extensions = Mapped(po, PlainOf) /\ po \in Seq(Sayables)
      /\ po = Only(es, PlainTypes) /\ es \in Seq(Sayables)
  BY PlainIs, SayableParts DEF PlainExtensions
<1>2. \A t \in Read : ContentIn(g, t) = Only(ContentIn(h, t), Keep(t))
  BY PlainContents
<1>3. \A t \in {SNI, ALPN} : ContentIn(g, t) = ContentIn(h, t)
  <2> SUFFICES ASSUME NEW t \in {SNI, ALPN} PROVE ContentIn(g, t) = ContentIn(h, t)
    OBVIOUS
  <2>1. t \in Read /\ t \notin Wide /\ t # PSKModes /\ t # KeyShare
    BY NamedKinds, KindsOfUnit DEF Read
  <2>2. Keep(t) = Unit(t)
    BY <2>1 DEF Keep
  <2>3. ContentIn(h, t) \in Seq(Unit(t))
    BY <2>1, ContentType
  <2>4. ToSet(ContentIn(h, t)) \subseteq Unit(t)
    BY <2>3, ToSetType
  <2>5. Only(ContentIn(h, t), Unit(t)) = ContentIn(h, t)
    BY <2>3, <2>4, OnlyShorter
  <2> QED BY <1>2, <2>1, <2>2, <2>5
<1> HIDE DEF g, po, es
<1>4. p.version = m.version /\ p.name = m.name /\ p.protocols = m.protocols
  BY <1>1, <1>3 DEF Meaning, g
<1>5. p.suites = WithoutGREASE(m.suites)
  BY <1>1 DEF Meaning, g
<1>6. p.extensions = WithoutGREASE(m.extensions)
  <2>1. p.extensions = Mapped(Mapped(po, PlainOf), Types)
    BY <1>1 DEF Meaning, g
  <2>2. Mapped(Mapped(po, PlainOf), Types) = Mapped(po, Types)
    <3>1. DOMAIN po = 1 .. Len(po) /\ \A i \in 1 .. Len(po) : po[i] \in Sayables
      BY <1>1, LenProperties
    <3>2. \A i \in 1 .. Len(po) : Types[PlainOf[po[i]]] = Types[po[i]]
      BY <3>1, PlainOfParts DEF Types
    <3> QED BY <3>1, <3>2 DEF Mapped
  <2>3. Mapped(es, Types) \in Seq(TwoBytes)
    BY <1>1, RawMaps, MappedType
  <2>4. WithoutGREASE(Mapped(es, Types)) = Only(Mapped(es, Types), Plain16)
    <3> DEFINE x == Mapped(es, Types)
    <3>1. x \in Seq(TwoBytes)
      BY <2>3
    <3> HIDE DEF x
    <3>2. WithoutGREASE(x) = Only(x, Plain16)
      BY <3>1, WithoutGREASEIs
    <3> QED BY <3>2 DEF x
  <2>5. Maps(Types, Sayables, TwoBytes) /\ \A e \in Sayables : e \in PlainTypes <=> Types[e] \in Plain16
    BY RawMaps, RawIs DEF Types, PlainTypes, Plain16
  <2>6. Only(Mapped(es, Types), Plain16) = Mapped(Only(es, PlainTypes), Types)
    BY <1>1, <2>5, OnlyMapped
  <2>7. m.extensions = Mapped(es, Types)
    BY DEF Meaning, es
  <2> QED BY <1>1, <2>1, <2>2, <2>4, <2>6, <2>7
<1>7. ShareGroups(p) = WithoutGREASE(ShareGroups(m))
  <2> DEFINE c == ContentIn(h, KeyShare)
             U == Unit(KeyShare)
             S == Keep(KeyShare)
  <2>1. /\ ShareGroups(m) = Mapped(c, GroupOf) /\ c \in Seq(U) /\ Maps(GroupOf, U, TwoBytes)
        /\ ShareGroups(p) = Mapped(ContentIn(g, KeyShare), GroupOf)
    BY <1>1, GroupsShared DEF g
  <2>2. ContentIn(g, KeyShare) = Only(c, S)
    BY <1>2 DEF Read, Nested
  <2>3. S = {e \in U : Number(e.head) \notin ReservedValues}
    BY KindsOfUnit DEF Keep
  <2>4. \A e \in U : e \in S <=> GroupOf[e] \in Plain16
    BY <2>1, <2>3 DEF GroupOf, Plain16, Maps
  <2> HIDE DEF c, U, S
  <2>5. Only(Mapped(c, GroupOf), Plain16) = Mapped(Only(c, S), GroupOf)
    BY <2>1, <2>4, OnlyMapped
  <2>6. WithoutGREASE(ShareGroups(m)) = Only(ShareGroups(m), Plain16)
    <3>1. ShareGroups(m) \in Seq(TwoBytes)
      BY MeaningTyped DEF Typed
    <3> QED BY <3>1, WithoutGREASEIs
  <2> QED BY <2>1, <2>2, <2>5, <2>6
<1>8. \A t \in Wide \cup Narrow : p.lists[t] = Only(m.lists[t], Keep(t))
  BY <1>2 DEF Meaning, Read, g
<1> QED
  BY <1>4, <1>5, <1>6, <1>7, <1>8

-------------------------------------------------------------------------------
(* What a capture tells apart                                              *)

Alike(p, m) ==
  /\ p.version = m.version /\ (p.name = <<>> <=> m.name = <<>>) /\ p.protocols = m.protocols
  /\ WithoutGREASE(p.suites) = WithoutGREASE(m.suites)
  /\ WithoutGREASE(p.extensions) = WithoutGREASE(m.extensions)
  /\ WithoutGREASE(ShareGroups(p)) = WithoutGREASE(ShareGroups(m))
  /\ \A t \in Wide \ {CompressCertificate} :
       WithoutGREASE(p.lists[t]) = WithoutGREASE(m.lists[t])
  /\ p.lists[PointFormats] = m.lists[PointFormats]
  /\ WithoutGREASE8(p.lists[PSKModes]) = WithoutGREASE8(m.lists[PSKModes])

LEMMA ListsNamed ==
  /\ Groups \in Wide \ {CompressCertificate} /\ SignatureAlgorithms \in Wide \ {CompressCertificate}
  /\ SupportedVersions \in Wide \ {CompressCertificate} /\ CompressCertificate \in Wide
  /\ PointFormats \in Narrow /\ PSKModes \in Narrow /\ PSKModes # PointFormats
  /\ \A t \in Wide \cup Narrow :
       t \in Wide \ {CompressCertificate} \/ t \in {CompressCertificate, PointFormats, PSKModes}
  /\ \A t \in Wide \ {CompressCertificate} :
       t \in {Groups, SignatureAlgorithms, SupportedVersions} /\ t \notin {PointFormats, PSKModes}
  /\ CompressCertificate \notin {PointFormats, PSKModes}
BY DEF Wide, Narrow, Groups, SignatureAlgorithms, SupportedVersions, CompressCertificate,
       PointFormats, PSKModes

LEMMA AlikePrints ==
  ASSUME NEW p, NEW m, Alike(p, m)
  PROVE  JA3(p) = JA3(m) /\ JA4(p) = JA4(m)
<1>1. /\ p.version = m.version /\ p.protocols = m.protocols
      /\ WithoutGREASE(p.suites) = WithoutGREASE(m.suites)
      /\ WithoutGREASE(p.extensions) = WithoutGREASE(m.extensions)
      /\ WithoutGREASE(p.lists[Groups]) = WithoutGREASE(m.lists[Groups])
      /\ WithoutGREASE(p.lists[SupportedVersions]) = WithoutGREASE(m.lists[SupportedVersions])
      /\ WithoutGREASE(p.lists[SignatureAlgorithms]) = WithoutGREASE(m.lists[SignatureAlgorithms])
      /\ p.lists[PointFormats] = m.lists[PointFormats]
  BY ListsNamed DEF Alike
<1>2. (p.name # <<>>) = (m.name # <<>>)
  BY Zenon DEF Alike
<1>3. EffectiveVersion(p) = EffectiveVersion(m)
  <2> DEFINE E(v, x) ==
        LET versions == ToSet(x)
        IN  IF versions = {} THEN v ELSE CHOOSE w \in versions : \A u \in versions : u <= w
  <2>1. \A q : EffectiveVersion(q) = E(q.version, WithoutGREASE(q.lists[SupportedVersions]))
    BY Zenon DEF EffectiveVersion
  <2> HIDE DEF E
  <2> QED BY <1>1, <2>1, Zenon
<1>4. JA3(p) = JA3(m)
  BY <1>1, Zenon DEF JA3
<1>5. JA4(p) = JA4(m)
  <2> DEFINE J(v, n, u, x, c, s) ==
        LET listed == Only(x, ToSet(x) \ {SNI, ALPN})
        IN  <<VersionCode(v), n, TwoDigits(Len(u)), TwoDigits(Len(x)), ALPNCode(c),
              Sorted(u), Sorted(listed), IF listed = <<>> THEN <<>> ELSE s>>
  <2>1. \A q : JA4(q) = J(EffectiveVersion(q), q.name # <<>>, WithoutGREASE(q.suites),
                          WithoutGREASE(q.extensions), q.protocols,
                          WithoutGREASE(q.lists[SignatureAlgorithms]))
    BY Zenon DEF JA4
  <2> HIDE DEF J
  <2> QED BY <1>1, <1>2, <1>3, <2>1, Zenon
<1> QED
  BY <1>4, <1>5

LEMMA AlikeCaptured ==
  ASSUME NEW p, NEW m, Alike(p, m)
  PROVE  /\ p.lists[CompressCertificate] = m.lists[CompressCertificate] =>
              CaptureTLSInfo(p) = [CaptureTLSInfo(m) EXCEPT !.enable_grease = EnableGREASE(p)]
         /\ p.lists[CompressCertificate] = <<>> =>
              CaptureTLSInfo(p) = [CaptureTLSInfo(m) EXCEPT
                                     !.enable_grease = EnableGREASE(p),
                                     !.lists[CompressCertificate] = <<>>]
<1> DEFINE L(q) == [t \in Wide \cup Narrow |->
                      IF t \in {PointFormats, CompressCertificate} THEN q.lists[t]
                      ELSE IF t = PSKModes THEN WithoutGREASE8(q.lists[t])
                      ELSE WithoutGREASE(q.lists[t])]
           C(q, g, l) == [ja3 |-> JA3(q), ja4 |-> JA4(q), enable_grease |-> g,
                          suites |-> WithoutGREASE(q.suites),
                          extensions |-> WithoutGREASE(q.extensions),
                          protocols |-> q.protocols, shares |-> WithoutGREASE(ShareGroups(q)),
                          lists |-> l]
<1>1. \A q : CaptureTLSInfo(q) = C(q, EnableGREASE(q), L(q))
  BY Zenon DEF CaptureTLSInfo
<1>2. \A g, l : C(p, g, l) = C(m, g, l)
  BY AlikePrints DEF Alike
<1>3. \A t \in Wide \cup Narrow : t # CompressCertificate => L(p)[t] = L(m)[t]
  <2> SUFFICES ASSUME NEW t \in Wide \cup Narrow, t # CompressCertificate
               PROVE  L(p)[t] = L(m)[t]
    OBVIOUS
  <2>1. t \in Wide \ {CompressCertificate} \/ t = PointFormats \/ t = PSKModes
    BY ListsNamed
  <2>2. CASE t \in Wide \ {CompressCertificate}
    <3>1. t \notin {PointFormats, PSKModes}
      BY <2>2, ListsNamed
    <3> QED BY <2>2, <3>1 DEF Alike
  <2>3. CASE t = PointFormats
    BY <2>3 DEF Alike
  <2>4. CASE t = PSKModes
    BY <2>4, ListsNamed DEF Alike
  <2> QED BY <2>1, <2>2, <2>3, <2>4
<1>4. L(p)[CompressCertificate] = p.lists[CompressCertificate]
      /\ L(m)[CompressCertificate] = m.lists[CompressCertificate]
  BY ListsNamed
<1>5. CompressCertificate \in Wide \cup Narrow
  BY ListsNamed
<1>6. DOMAIN L(p) = Wide \cup Narrow /\ DOMAIN L(m) = Wide \cup Narrow
      /\ L(p) = [t \in Wide \cup Narrow |-> L(p)[t]]
      /\ L(m) = [t \in Wide \cup Narrow |-> L(m)[t]]
  OBVIOUS
<1>7. ASSUME NEW g, NEW k, NEW l
      PROVE  [C(m, k, l) EXCEPT !.enable_grease = g] = C(m, g, l)
  OBVIOUS
<1> DEFINE Emptied(g, k, l) ==
             [C(m, k, l) EXCEPT !.enable_grease = g, !.lists[CompressCertificate] = <<>>]
               = C(m, g, [l EXCEPT ![CompressCertificate] = <<>>])
<1>8. ASSUME NEW g, NEW k, NEW l
       PROVE  Emptied(g, k, l)
  <2>1. [C(m, g, l) EXCEPT !.lists[CompressCertificate] = <<>>]
          = C(m, g, [l EXCEPT ![CompressCertificate] = <<>>])
    OBVIOUS
  <2>2. C(m, g, l) = [C(m, k, l) EXCEPT !.enable_grease = g]
    BY <1>7
  <2>3. \A r : [r EXCEPT !.enable_grease = g, !.lists[CompressCertificate] = <<>>]
                = [[r EXCEPT !.enable_grease = g] EXCEPT !.lists[CompressCertificate] = <<>>]
    OBVIOUS
  <2> HIDE DEF C
  <2> QED BY <2>1, <2>2, <2>3, Zenon
<1> HIDE DEF L, C, Emptied
<1>9. ASSUME p.lists[CompressCertificate] = m.lists[CompressCertificate]
      PROVE  CaptureTLSInfo(p) = [CaptureTLSInfo(m) EXCEPT !.enable_grease = EnableGREASE(p)]
  <2>1. L(p) = L(m)
    BY <1>3, <1>4, <1>6, <1>9
  <2>2. CaptureTLSInfo(p) = C(m, EnableGREASE(p), L(m))
    BY <1>1, <1>2, <2>1
  <2>3. CaptureTLSInfo(m) = C(m, EnableGREASE(m), L(m))
    BY <1>1
  <2> QED BY <1>7, <2>2, <2>3
<1>10. ASSUME p.lists[CompressCertificate] = <<>>
      PROVE  CaptureTLSInfo(p) = [CaptureTLSInfo(m) EXCEPT
                                     !.enable_grease = EnableGREASE(p),
                                     !.lists[CompressCertificate] = <<>>]
  <2>1. L(p) = [L(m) EXCEPT ![CompressCertificate] = <<>>]
    BY <1>3, <1>4, <1>5, <1>6, <1>10
  <2>2. CaptureTLSInfo(p) = C(m, EnableGREASE(p), L(p))
    BY <1>1, <1>2
  <2>3. CaptureTLSInfo(m) = C(m, EnableGREASE(m), L(m))
    BY <1>1
  <2>4. Emptied(EnableGREASE(p), EnableGREASE(m), L(m))
    BY <1>8
  <2> QED BY <2>1, <2>2, <2>3, <2>4, Zenon DEF Emptied
<1> QED
  BY <1>9, <1>10

(* The flag tells whether any of the lists holds a reserved value.         *)
LEMMA EnableIs ==
  ASSUME NEW m, Typed(m)
  PROVE  EnableGREASE(m) <=>
           ~ /\ ToSet(m.suites) \subseteq Plain16 /\ ToSet(m.extensions) \subseteq Plain16
             /\ ToSet(ShareGroups(m)) \subseteq Plain16
             /\ \A t \in Wide \ {CompressCertificate} : ToSet(m.lists[t]) \subseteq Plain16
             /\ ToSet(m.lists[PSKModes]) \subseteq Plain8
<1> DEFINE G(s) == \E i \in DOMAIN s : IsGREASE16(s[i])
<1>1. \A s \in Seq(TwoBytes) : G(s) <=> ~(ToSet(s) \subseteq Plain16)
  BY WithoutGREASEIs
<1>2. \A s \in Seq(Byte) :
        (\E i \in DOMAIN s : IsGREASE8(s[i])) <=> ~(ToSet(s) \subseteq Plain8)
  BY WithoutGREASE8Is
<1>3. /\ m.suites \in Seq(TwoBytes) /\ m.extensions \in Seq(TwoBytes)
      /\ ShareGroups(m) \in Seq(TwoBytes) /\ m.lists[PSKModes] \in Seq(Byte)
      /\ \A t \in Wide \ {CompressCertificate} : m.lists[t] \in Seq(TwoBytes)
  BY ListsNamed DEF Typed
<1>4. EnableGREASE(m) <=>
        \/ \E s \in {m.suites, m.extensions, ShareGroups(m), m.lists[Groups],
                     m.lists[SignatureAlgorithms], m.lists[SupportedVersions]} : G(s)
        \/ \E i \in DOMAIN m.lists[PSKModes] : IsGREASE8(m.lists[PSKModes][i])
  BY Zenon DEF EnableGREASE
<1> HIDE DEF G
<1>5. (\E s \in {m.suites, m.extensions, ShareGroups(m), m.lists[Groups],
                 m.lists[SignatureAlgorithms], m.lists[SupportedVersions]} : G(s)) <=>
        \/ G(m.suites) \/ G(m.extensions) \/ G(ShareGroups(m))
        \/ \E t \in Wide \ {CompressCertificate} : G(m.lists[t])
  BY ListsNamed
<1>6. (\E t \in Wide \ {CompressCertificate} : G(m.lists[t])) <=>
        ~(\A t \in Wide \ {CompressCertificate} : ToSet(m.lists[t]) \subseteq Plain16)
  BY <1>1, <1>3
<1> QED
  BY <1>1, <1>2, <1>3, <1>4, <1>5, <1>6

LEMMA PlainWholes ==
  ASSUME NEW h, Sayable(h)
  PROVE  Plain(h) = h <=> ~EnableGREASE(Meaning(h))
<1> DEFINE m == Meaning(h)
           es == h.extensions
           po == PlainExtensions(h)
<1>1. Typed(m)
  BY MeaningTyped
<1>2. /\ es \in Seq(Sayables) /\ DOMAIN es = 1 .. Len(es)
      /\ \A i \in 1 .. Len(es) : es[i] \in Sayables
  <2>1. es \in Seq(Sayables)
    BY SayableParts
  <2> HIDE DEF es
  <2> QED BY <2>1, LenProperties
<1>3. m.suites = h.suites /\ m.extensions = Mapped(es, Types)
      /\ \A t \in Wide \cup Narrow : m.lists[t] = ContentIn(h, t)
  BY DEF Meaning
<1> HIDE DEF m, es, po
<1>4. ASSUME Plain(h) = h PROVE ~EnableGREASE(m)
  <2>1. /\ m.suites = WithoutGREASE(m.suites) /\ m.extensions = WithoutGREASE(m.extensions)
        /\ ShareGroups(m) = WithoutGREASE(ShareGroups(m))
        /\ \A t \in Wide \cup Narrow : m.lists[t] = Only(m.lists[t], Keep(t))
    BY <1>4, PlainMeaning DEF m
  <2>2. \A s \in Seq(TwoBytes) : s = WithoutGREASE(s) => ToSet(s) \subseteq Plain16
    BY WithoutGREASEIs, OnlyAll
  <2>3. /\ ToSet(m.suites) \subseteq Plain16 /\ ToSet(m.extensions) \subseteq Plain16
        /\ ToSet(ShareGroups(m)) \subseteq Plain16
    BY <1>1, <2>1, <2>2 DEF Typed
  <2>4. ASSUME NEW t \in Wide \ {CompressCertificate} PROVE ToSet(m.lists[t]) \subseteq Plain16
    <3>1. Keep(t) = Plain16 /\ m.lists[t] \in Seq(TwoBytes)
      BY <1>1 DEF Keep, Typed
    <3> QED BY <2>1, <3>1, OnlyAll
  <2>5. ToSet(m.lists[PSKModes]) \subseteq Plain8
    <3>1. Keep(PSKModes) = Plain8 /\ m.lists[PSKModes] \in Seq(Byte)
      BY <1>1, KindsOfUnit DEF Keep, Typed
    <3> QED BY <2>1, <3>1, OnlyAll, ListsNamed
  <2> QED BY <1>1, <2>3, <2>4, <2>5, EnableIs
<1>5. ASSUME ~EnableGREASE(m) PROVE Plain(h) = h
  <2>1. /\ ToSet(m.suites) \subseteq Plain16 /\ ToSet(m.extensions) \subseteq Plain16
        /\ ToSet(ShareGroups(m)) \subseteq Plain16
        /\ \A t \in Wide \ {CompressCertificate} : ToSet(m.lists[t]) \subseteq Plain16
        /\ ToSet(m.lists[PSKModes]) \subseteq Plain8
    BY <1>1, <1>5, EnableIs
  <2>2. Plain(h).suites = h.suites
    <3>1. m.suites \in Seq(TwoBytes)
      BY <1>1 DEF Typed
    <3>2. WithoutGREASE(m.suites) = m.suites
      BY <2>1, <3>1, WithoutGREASEIs, OnlyAll
    <3> QED BY <1>3, <3>2, PlainIs
  <2>3. po = es
    <3>1. ToSet(es) \subseteq PlainTypes
      <4>1. ASSUME NEW i \in 1 .. Len(es) PROVE es[i] \in PlainTypes
        <5>1. Mapped(es, Types)[i] = es[i].type /\ i \in DOMAIN Mapped(es, Types)
          BY <1>2 DEF Mapped, Types
        <5>2. es[i].type \in Plain16
          BY <1>3, <2>1, <5>1 DEF ToSet
        <5> QED BY <1>2, <5>2 DEF PlainTypes, Plain16
      <4> QED BY <1>2, <4>1 DEF ToSet
    <3>2. Only(es, PlainTypes) = es
      BY <1>2, <3>1, OnlyAll
    <3> QED BY <3>2 DEF po, PlainExtensions, es
  <2>4. ASSUME NEW t \in Read PROVE ToSet(ContentIn(h, t)) \subseteq Keep(t)
    <3>1. ContentIn(h, t) \in Seq(Unit(t))
      BY ContentType
    <3>2. ToSet(ContentIn(h, t)) \subseteq Unit(t)
      BY <3>1, ToSetType
    <3>3. CASE t \in Wide \ {CompressCertificate}
      BY <1>3, <2>1, <3>3 DEF Keep
    <3>4. CASE t = PSKModes
      BY <1>3, <2>1, <3>4, KindsOfUnit DEF Keep
    <3>5. CASE t = KeyShare
      <4> DEFINE c == ContentIn(h, KeyShare)
      <4>1. ShareGroups(m) = Mapped(c, GroupOf)
        BY GroupsShared DEF m
      <4>2. \A e \in ToSet(c) : e \in Unit(KeyShare)
        BY <3>2, <3>5
      <4> HIDE DEF c
      <4>3. ASSUME NEW i \in DOMAIN c PROVE Number(c[i].head) \notin ReservedValues
        <5>1. i \in DOMAIN Mapped(c, GroupOf) /\ Mapped(c, GroupOf)[i] = GroupOf[c[i]]
          BY DEF Mapped
        <5>2. GroupOf[c[i]] \in Plain16
          BY <2>1, <4>1, <5>1 DEF ToSet
        <5>3. c[i] \in Unit(KeyShare)
          BY <4>2 DEF ToSet
        <5> QED BY <5>2, <5>3 DEF GroupOf, Plain16
      <4>4. \A e \in ToSet(c) : Number(e.head) \notin ReservedValues
        BY <4>3 DEF ToSet
      <4>5. Keep(KeyShare) = {e \in Unit(KeyShare) : Number(e.head) \notin ReservedValues}
        BY KindsOfUnit DEF Keep
      <4> QED BY <3>5, <4>2, <4>4, <4>5 DEF c
    <3>6. CASE t \notin Wide \ {CompressCertificate} /\ t # PSKModes /\ t # KeyShare
      BY <3>2, <3>6 DEF Keep
    <3> QED BY <3>3, <3>4, <3>5, <3>6
  <2>5. ASSUME NEW i \in 1 .. Len(es) PROVE PlainOf[es[i]] = es[i]
    <3> DEFINE e == es[i]
               t == e.type
               c == e.content
    <3>1. /\ e \in Sayables /\ PlainOf[e] = [type |-> t, content |-> PlainContent(t, c)]
          /\ e = [type |-> t, content |-> c]
      BY <1>2, PlainOfIs DEF Sayables
    <3>2. CASE t \in Read
      <4>1. c \in Seq(Unit(t))
        BY <3>1, <3>2, ContentUnits
      <4>2. PlainContent(t, c) = Only(c, Keep(t))
        <5> HIDE DEF c, t
        <5> QED BY <3>2, <4>1, PlainContentIs
      <4>3. ToSet(c) \subseteq Keep(t)
        <5> DEFINE o == Own(es, t)
                   ss == Pieces(o)
        <5>1. /\ ContentIn(h, t) = FlattenSeq(ss) /\ ss \in Seq(Seq(Unit(t)))
          BY <3>2, ContentType DEF es
        <5>2. e \in ToSet(o)
          <6>1. o = Only(es, {f \in Sayables : f.type = t}) /\ e \in ToSet(es)
            BY <1>2, OwnAre DEF ToSet
          <6>2. e \in {f \in Sayables : f.type = t}
            BY <3>1
          <6> HIDE DEF e, t, o
          <6>3. ToSet(o) = ToSet(es) \cap {f \in Sayables : f.type = t}
            BY <1>2, <6>1, OnlyElements
          <6> QED BY <6>1, <6>2, <6>3
        <5>3. c \in ToSet(ss)
          <6> HIDE DEF o, e
          <6>1. PICK j \in DOMAIN o : o[j] = e
            BY <5>2 DEF ToSet
          <6>2. ss[j] = c /\ j \in DOMAIN ss
            BY <6>1 DEF Pieces
          <6> HIDE DEF ss, c
          <6> QED BY <6>2 DEF ToSet
        <5> HIDE DEF ss, c, t
        <5>4. ASSUME NEW y \in ToSet(c) PROVE y \in Keep(t)
          <6>1. y \in ToSet(FlattenSeq(ss))
            BY <5>1, <5>3, FlattenElements
          <6> QED BY <2>4, <3>2, <5>1, <6>1
        <5> QED BY <5>4
      <4> HIDE DEF e, t, c
      <4>4. Only(c, Keep(t)) = c
        BY <4>1, <4>3, OnlyAll
      <4> QED BY <3>1, <4>2, <4>4 DEF e
    <3>3. CASE t \notin Read
      <4>1. t \notin Wide \ {CompressCertificate} /\ t # PSKModes /\ t # KeyShare
        BY <3>3, KindsOfUnit DEF Read
      <4>2. PlainContent(t, c) = c
        BY <4>1 DEF PlainContent
      <4> QED BY <3>1, <4>2
    <3> QED BY <3>2, <3>3
  <2>6. Plain(h).extensions = h.extensions
    <3>1. Plain(h).extensions = Mapped(es, PlainOf)
      BY <2>3, PlainIs DEF po
    <3>2. Mapped(es, PlainOf) = [i \in 1 .. Len(es) |-> es[i]]
      BY <1>2, <2>5 DEF Mapped
    <3>3. [i \in 1 .. Len(es) |-> es[i]] = es
      BY <1>2
    <3> QED BY <3>1, <3>2, <3>3 DEF es
  <2> QED BY <2>2, <2>6, PlainIs
<1> QED
  BY <1>4, <1>5 DEF m

(* What a hello means is captured as what it means without GREASE.         *)
LEMMA PlainAlike ==
  ASSUME NEW h, Sayable(h), NEW m, m = Meaning(h), NEW q, q = Meaning(Plain(h))
  PROVE  /\ Alike(m, q) /\ q.lists[PointFormats] = m.lists[PointFormats]
         /\ q.lists[CompressCertificate] = m.lists[CompressCertificate]
<1>1. Typed(m)
  BY MeaningTyped
<1>2. /\ q.version = m.version /\ q.name = m.name /\ q.protocols = m.protocols
      /\ q.suites = WithoutGREASE(m.suites)
      /\ q.extensions = WithoutGREASE(m.extensions)
      /\ ShareGroups(q) = WithoutGREASE(ShareGroups(m))
      /\ \A t \in Wide \cup Narrow : q.lists[t] = Only(m.lists[t], Keep(t))
  BY PlainMeaning
<1>3. \A s \in Seq(TwoBytes) : WithoutGREASE(WithoutGREASE(s)) = WithoutGREASE(s)
  <2> SUFFICES ASSUME NEW s \in Seq(TwoBytes)
               PROVE  WithoutGREASE(WithoutGREASE(s)) = WithoutGREASE(s)
    OBVIOUS
  <2>1. WithoutGREASE(s) = Only(s, Plain16) /\ Only(s, Plain16) \in Seq(TwoBytes)
    BY WithoutGREASEIs, OnlyType
  <2>2. WithoutGREASE(Only(s, Plain16)) = Only(Only(s, Plain16), Plain16)
    BY <2>1, WithoutGREASEIs
  <2> QED BY <2>1, <2>2, OnlyAll
<1>4. ASSUME NEW t \in Wide \ {CompressCertificate}
      PROVE  WithoutGREASE(q.lists[t]) = WithoutGREASE(m.lists[t])
  <2>1. Keep(t) = Plain16 /\ m.lists[t] \in Seq(TwoBytes)
    BY <1>1 DEF Keep, Typed
  <2>2. WithoutGREASE(m.lists[t]) = q.lists[t]
    BY <1>2, <2>1, WithoutGREASEIs
  <2> QED BY <1>3, <2>1, <2>2
<1>5. q.lists[PointFormats] = m.lists[PointFormats]
  <2>1. PointFormats # KeyShare /\ PointFormats \notin Wide
    BY DEF PointFormats, KeyShare, Wide, Groups, SignatureAlgorithms, CompressCertificate,
           SupportedVersions
  <2>2. Keep(PointFormats) = Byte
    BY <2>1, ListsNamed, KindsOfUnit DEF Keep
  <2>3. m.lists[PointFormats] \in Seq(Byte)
    BY <1>1, ListsNamed DEF Typed
  <2>4. ToSet(m.lists[PointFormats]) \subseteq Byte
    BY <2>3, ToSetType
  <2> QED BY <1>2, <2>2, <2>3, <2>4, OnlyAll, ListsNamed
<1>6. q.lists[CompressCertificate] = m.lists[CompressCertificate]
  <2>1. Keep(CompressCertificate) = TwoBytes /\ m.lists[CompressCertificate] \in Seq(TwoBytes)
    BY <1>1, ListsNamed, KindsOfUnit DEF Keep, Typed
  <2>2. ToSet(m.lists[CompressCertificate]) \subseteq TwoBytes
    BY <2>1, ToSetType
  <2> QED BY <1>2, <2>1, <2>2, OnlyAll, ListsNamed
<1>7. WithoutGREASE8(q.lists[PSKModes]) = WithoutGREASE8(m.lists[PSKModes])
  <2> DEFINE s == m.lists[PSKModes]
  <2>1. Keep(PSKModes) = Plain8 /\ s \in Seq(Byte) /\ q.lists[PSKModes] = Only(s, Keep(PSKModes))
    BY <1>1, <1>2, ListsNamed, KindsOfUnit DEF Keep, Typed
  <2> HIDE DEF s
  <2>2. Only(s, Plain8) \in Seq(Byte) /\ WithoutGREASE8(s) = Only(s, Plain8)
    BY <2>1, OnlyType, WithoutGREASE8Is
  <2>3. WithoutGREASE8(Only(s, Plain8)) = Only(Only(s, Plain8), Plain8)
    BY <2>2, WithoutGREASE8Is
  <2>4. Only(Only(s, Plain8), Plain8) = Only(s, Plain8)
    BY <2>1, OnlyAll
  <2> QED BY <2>1, <2>2, <2>3, <2>4 DEF s
<1>8. Alike(m, q)
  BY <1>1, <1>2, <1>3, <1>4, <1>5, <1>7 DEF Alike, Typed
<1> QED
  BY <1>5, <1>6, <1>8

(* A client that adds reserved values to the lists the code filters gets   *)
(* the capture it gets without them, JA3 and JA4 included, but for the     *)
(* flag; in the names of protocols and among the certificate compression   *)
(* algorithms they are captured as they were sent, and the first name      *)
(* counts in the JA4 (parser.go:326-398, 423-437, 508-580;                 *)
(* grease.go:3-14).                                                        *)
THEOREM GREASEIsFiltered == Spec => []GREASEFiltered
<1>1. Arrived => GREASEFiltered
  <2> DEFINE q == ParseClientHello(Encode(Plain(meant)))
             tls == CaptureTLSInfo(parsed)
             names == ContentOf(ALPN)
  <2> SUFFICES ASSUME Arrived, parsed # Unparsed, Whole
               PROVE  /\ tls = [CaptureTLSInfo(q) EXCEPT !.enable_grease = Plain(meant) # meant]
                      /\ tls.protocols = [i \in DOMAIN names |-> names[i].data]
                      /\ tls.ja4[5] = ALPNCode(tls.protocols)
                      /\ tls.lists[CompressCertificate] = ContentOf(CompressCertificate)
    BY Zenon DEF GREASEFiltered
  <2>1. Sayable(meant) /\ parsed = Meaning(meant)
    BY Understood
  <2>2. q = Meaning(Plain(meant))
    BY <2>1, PlainIs, Understands
  <2> HIDE DEF q
  <2>3. Alike(parsed, q) /\ parsed.lists[CompressCertificate] = q.lists[CompressCertificate]
    BY <2>1, <2>2, PlainAlike
  <2>4. CaptureTLSInfo(parsed) = [CaptureTLSInfo(q) EXCEPT !.enable_grease = EnableGREASE(parsed)]
    BY <2>3, AlikeCaptured
  <2>5. EnableGREASE(parsed) <=> Plain(meant) # meant
    BY <2>1, PlainWholes
  <2>6. EnableGREASE(parsed) = (Plain(meant) # meant)
    BY <2>5, Zenon DEF EnableGREASE
  <2>7. tls.protocols = [i \in DOMAIN names |-> names[i].data]
    <3>1. parsed.protocols = [i \in DOMAIN names |-> names[i].data]
      BY <2>1 DEF Meaning, ContentOf
    <3> QED BY <3>1 DEF CaptureTLSInfo
  <2>8. tls.ja4[5] = ALPNCode(tls.protocols)
    <3>1. tls.ja4 = JA4(parsed) /\ tls.protocols = parsed.protocols
      BY DEF CaptureTLSInfo
    <3>2. JA4(parsed)[5] = ALPNCode(parsed.protocols)
      BY DEF JA4
    <3> HIDE DEF tls
    <3> QED BY <3>1, <3>2
  <2>9. tls.lists[CompressCertificate] = ContentOf(CompressCertificate)
    <3>1. parsed.lists[CompressCertificate] = ContentOf(CompressCertificate)
      BY <2>1, ListsNamed DEF Meaning, ContentOf
    <3> QED BY <3>1, ListsNamed DEF CaptureTLSInfo
  <2> HIDE DEF tls
  <2> QED BY <2>4, <2>6, <2>7, <2>8, <2>9, Zenon DEF tls
<1> QED
  BY <1>1, ArrivedAlways, PTL

(* The plain hello has no reserved value, so that it raises no flag.       *)
LEMMA PlainNotEnabled ==
  ASSUME NEW h, Sayable(h), NEW q, q = Meaning(Plain(h))
  PROVE  ~EnableGREASE(q) /\ Typed(q)
<1> DEFINE m == Meaning(h)
<1>1. Typed(m) /\ Typed(q)
  BY MeaningTyped, PlainIs
<1>2. /\ q.suites = WithoutGREASE(m.suites) /\ q.extensions = WithoutGREASE(m.extensions)
      /\ ShareGroups(q) = WithoutGREASE(ShareGroups(m))
      /\ \A t \in Wide \cup Narrow : q.lists[t] = Only(m.lists[t], Keep(t))
  BY PlainMeaning
<1> HIDE DEF m
<1>3. \A s \in Seq(TwoBytes) : ToSet(WithoutGREASE(s)) \subseteq Plain16
  BY WithoutGREASEIs, OnlyAll
<1>4. /\ ToSet(q.suites) \subseteq Plain16 /\ ToSet(q.extensions) \subseteq Plain16
      /\ ToSet(ShareGroups(q)) \subseteq Plain16
  BY <1>1, <1>2, <1>3 DEF Typed
<1>5. ASSUME NEW t \in Wide \ {CompressCertificate} PROVE ToSet(q.lists[t]) \subseteq Plain16
  <2>1. Keep(t) = Plain16 /\ m.lists[t] \in Seq(TwoBytes)
    BY <1>1 DEF Keep, Typed
  <2> QED BY <1>2, <2>1, OnlyAll
<1>6. ToSet(q.lists[PSKModes]) \subseteq Plain8
  <2>1. Keep(PSKModes) = Plain8 /\ m.lists[PSKModes] \in Seq(Byte)
    BY <1>1, KindsOfUnit DEF Keep, Typed
  <2> QED BY <1>2, <2>1, OnlyAll, ListsNamed
<1> QED
  BY <1>1, <1>4, <1>5, <1>6, EnableIs

-------------------------------------------------------------------------------
(* Imitation.  What a client sends that is given a profile is no longer    *)
(* than what the captured client sent, so that it can be said.             *)

LEMMA InjectiveAdd ==
  ASSUME NEW T, NEW s \in Seq(T), NEW x \in T
  PROVE  IsInjective(Add(s, x)) <=> IsInjective(s) /\ x \notin ToSet(s)
<1> DEFINE t == Add(s, x)
           n == Len(s)
<1>1. n \in Nat /\ DOMAIN s = 1 .. n
  BY LenProperties
<1>2. t \in Seq(T) /\ t[n + 1] = x /\ \A i \in 1 .. n : t[i] = s[i]
  BY AddProperties
<1>3. DOMAIN t = 1 .. n + 1
  BY <1>2, LenProperties, AddProperties
<1>4. IsInjective(s) <=> \A i, j \in 1 .. n : s[i] = s[j] => i = j
  BY <1>1 DEF IsInjective
<1>5. IsInjective(t) <=> \A i, j \in 1 .. n + 1 : t[i] = t[j] => i = j
  BY <1>3 DEF IsInjective
<1>6. x \notin ToSet(s) <=> \A i \in 1 .. n : s[i] # x
  BY <1>1 DEF ToSet
<1>7. /\ \A i \in 1 .. n : i \in 1 .. n + 1 /\ i # n + 1
      /\ n + 1 \in 1 .. n + 1 /\ \A i \in 1 .. n + 1 : i \in 1 .. n \/ i = n + 1
  BY <1>1
<1> HIDE DEF t, n
<1>8. ASSUME IsInjective(t) PROVE IsInjective(s) /\ x \notin ToSet(s)
  BY <1>2, <1>4, <1>5, <1>6, <1>7, <1>8
<1>9. ASSUME IsInjective(s), x \notin ToSet(s) PROVE IsInjective(t)
  <2> SUFFICES ASSUME NEW i \in 1 .. n + 1, NEW j \in 1 .. n + 1, t[i] = t[j] PROVE i = j
    BY <1>5
  <2>1. CASE i \in 1 .. n /\ j \in 1 .. n
    BY <1>2, <1>4, <1>9, <2>1
  <2>2. CASE i = n + 1 \/ j = n + 1
    BY <1>2, <1>6, <1>7, <1>9, <2>2
  <2> QED BY <1>7, <2>1, <2>2
<1> QED
  BY <1>8, <1>9 DEF t

LEMMA OnlyInjective ==
  ASSUME NEW T, NEW s \in Seq(T), NEW S, IsInjective(s)
  PROVE  IsInjective(Only(s, S))
<1> DEFINE Z == {r \in Seq(T) : IsInjective(r) => IsInjective(Only(r, S))}
<1>1. Nil \in Z
  BY NilType, OnlyNil
<1>2. ASSUME NEW r \in Z, NEW x \in T PROVE Add(r, x) \in Z
  <2>1. r \in Seq(T) /\ Add(r, x) \in Seq(T) /\ (IsInjective(r) => IsInjective(Only(r, S)))
    BY AddProperties
  <2> HIDE DEF Z
  <2>2. ASSUME IsInjective(Add(r, x)) PROVE IsInjective(Only(Add(r, x), S))
    <3>1. IsInjective(r) /\ x \notin ToSet(r)
      BY <2>1, <2>2, InjectiveAdd
    <3>2. Only(r, S) \in Seq(T) /\ x \notin ToSet(Only(r, S))
      BY <2>1, <3>1, OnlyType, OnlyElements
    <3>3. IsInjective(Add(Only(r, S), x))
      BY <2>1, <3>1, <3>2, InjectiveAdd
    <3> QED BY <2>1, <3>1, <3>3, OnlyKeeps, OnlyDrops
  <2> QED BY <2>1, <2>2 DEF Z
<1>3. Z = Seq(T)
  <2> HIDE DEF Z
  <2> QED BY <1>1, <1>2, AddInduct DEF Z
<1> QED
  BY <1>3

LEMMA JoinedHas ==
  ASSUME NEW T, NEW U, NEW s \in Seq(T), NEW f, Maps(f, T, Seq(U)), NEW x \in ToSet(s)
  PROVE  Len(f[x]) <= Len(Joined(s, f))
<1> DEFINE Z == {r \in Seq(T) : \A y \in ToSet(r) : Len(f[y]) <= Len(Joined(r, f))}
<1>1. Nil \in Z
  BY NilType, ToSetNil
<1>2. ASSUME NEW r \in Z, NEW z \in T PROVE Add(r, z) \in Z
  <2>1. /\ Add(r, z) \in Seq(T) /\ r \in Seq(T) /\ ToSet(Add(r, z)) = ToSet(r) \cup {z}
        /\ \A y \in ToSet(r) : Len(f[y]) <= Len(Joined(r, f)) /\ y \in T
    <3>1. r \in Seq(T) /\ \A y \in ToSet(r) : Len(f[y]) <= Len(Joined(r, f))
      OBVIOUS
    <3> HIDE DEF Z
    <3>2. ToSet(r) \in SUBSET T
      BY <3>1, ToSetType
    <3>3. Add(r, z) \in Seq(T) /\ ToSet(Add(r, z)) = ToSet(r) \cup {z}
      BY <3>1, AddProperties, ToSetAdd
    <3> QED BY <3>1, <3>2, <3>3
  <2>2. /\ Len(Joined(Add(r, z), f)) = Len(Joined(r, f)) + Len(f[z])
        /\ Len(Joined(r, f)) \in Nat /\ Len(f[z]) \in Nat
    BY JoinedAddLen
  <2>3. ASSUME NEW y \in ToSet(Add(r, z)) PROVE Len(f[y]) <= Len(Joined(Add(r, z), f))
    <3>1. Len(f[y]) \in Nat
      BY <2>1, LenProperties DEF Maps
    <3> HIDE DEF Z
    <3> QED BY <2>1, <2>2, <3>1
  <2> QED BY <2>1, <2>3
<1>3. Z = Seq(T)
  <2> HIDE DEF Z
  <2> QED BY <1>1, <1>2, AddInduct DEF Z
<1> QED
  BY <1>3

LEMMA ContentNone ==
  ASSUME NEW h, Sayable(h), NEW t \in Read,
         \A i \in 1 .. Len(h.extensions) : h.extensions[i].type # t
  PROVE  ContentIn(h, t) = <<>>
<1> DEFINE es == h.extensions
<1>1. es \in Seq(Sayables)
  BY SayableParts
<1>2. Own(es, t) = Nil
  <2>1. Own(es, t) = Only(es, {e \in Sayables : e.type = t})
    BY <1>1, OwnAre
  <2>2. ToSet(es) \cap {e \in Sayables : e.type = t} = {}
    <3>1. \A i \in 1 .. Len(es) : es[i].type # t
      OBVIOUS
    <3> HIDE DEF es
    <3>2. DOMAIN es = 1 .. Len(es)
      BY <1>1, LenProperties
    <3> QED BY <3>1, <3>2 DEF ToSet
  <2> QED BY <1>1, <2>1, <2>2, OnlyNone
<1>3. Pieces(Nil) = Nil
  BY DEF Pieces, Nil
<1> QED
  BY <1>2, <1>3, ContentType, FlattenNil DEF Nil

(* What a profile lists, in terms of the hello without GREASE.             *)
Shows(p, q) ==
  /\ p.cipher_suites = q.suites /\ p.extensions = q.extensions
  /\ p.curves = q.lists[Groups] /\ p.point_formats = q.lists[PointFormats]
  /\ p.signature_algorithms = q.lists[SignatureAlgorithms]
  /\ p.alpn_protocols = q.protocols /\ p.supported_versions = q.lists[SupportedVersions]
  /\ p.key_share_groups = ShareGroups(q) /\ p.psk_modes = q.lists[PSKModes]

LEMMA ProfileShows ==
  ASSUME NEW h, Sayable(h)
  PROVE  Shows(Profile(CaptureTLSInfo(Meaning(h))), Meaning(Plain(h)))
<1> DEFINE m == Meaning(h)
           q == Meaning(Plain(h))
           tls == CaptureTLSInfo(m)
           p == Profile(tls)
<1>1. Typed(m)
  BY MeaningTyped
<1>2. /\ q.protocols = m.protocols
      /\ q.suites = WithoutGREASE(m.suites) /\ q.extensions = WithoutGREASE(m.extensions)
      /\ ShareGroups(q) = WithoutGREASE(ShareGroups(m))
      /\ \A t \in Wide \cup Narrow : q.lists[t] = Only(m.lists[t], Keep(t))
  BY PlainMeaning
<1>3. q.lists[PointFormats] = m.lists[PointFormats]
  BY PlainAlike
<1> HIDE DEF m, q
<1>4. /\ tls.suites = WithoutGREASE(m.suites) /\ tls.extensions = WithoutGREASE(m.extensions)
      /\ tls.protocols = m.protocols /\ tls.shares = WithoutGREASE(ShareGroups(m))
      /\ \A t \in Wide \ {CompressCertificate} : tls.lists[t] = WithoutGREASE(m.lists[t])
      /\ tls.lists[PointFormats] = m.lists[PointFormats]
      /\ tls.lists[PSKModes] = WithoutGREASE8(m.lists[PSKModes])
  <2>1. /\ tls.suites = WithoutGREASE(m.suites) /\ tls.extensions = WithoutGREASE(m.extensions)
        /\ tls.protocols = m.protocols /\ tls.shares = WithoutGREASE(ShareGroups(m))
    BY DEF CaptureTLSInfo
  <2>2. tls.lists = [t \in Wide \cup Narrow |->
                      IF t \in {PointFormats, CompressCertificate} THEN m.lists[t]
                      ELSE IF t = PSKModes THEN WithoutGREASE8(m.lists[t])
                      ELSE WithoutGREASE(m.lists[t])]
    BY DEF CaptureTLSInfo
  <2> HIDE DEF tls
  <2>3. ASSUME NEW t \in Wide \ {CompressCertificate}
        PROVE  tls.lists[t] = WithoutGREASE(m.lists[t])
    <3>1. t \notin {PointFormats, PSKModes} /\ t \in Wide \cup Narrow
      BY ListsNamed
    <3> QED BY <2>2, <3>1
  <2>4. /\ tls.lists[PointFormats] = m.lists[PointFormats]
        /\ tls.lists[PSKModes] = WithoutGREASE8(m.lists[PSKModes])
    BY <2>2, ListsNamed
  <2> QED BY <2>1, <2>3, <2>4
<1>5. ASSUME NEW t \in Wide \ {CompressCertificate} PROVE tls.lists[t] = q.lists[t]
  <2>1. Keep(t) = Plain16 /\ m.lists[t] \in Seq(TwoBytes)
    BY <1>1 DEF Keep, Typed
  <2> HIDE DEF tls
  <2> QED BY <1>2, <1>4, <2>1, WithoutGREASEIs
<1>6. tls.lists[PSKModes] = q.lists[PSKModes]
  <2>1. Keep(PSKModes) = Plain8 /\ m.lists[PSKModes] \in Seq(Byte)
    BY <1>1, KindsOfUnit DEF Keep, Typed
  <2> HIDE DEF tls
  <2> QED BY <1>2, <1>4, <2>1, WithoutGREASE8Is, ListsNamed
<1>7. /\ p.cipher_suites = tls.suites /\ p.extensions = tls.extensions
      /\ p.curves = tls.lists[Groups] /\ p.point_formats = tls.lists[PointFormats]
      /\ p.signature_algorithms = tls.lists[SignatureAlgorithms]
      /\ p.alpn_protocols = tls.protocols /\ p.supported_versions = tls.lists[SupportedVersions]
      /\ p.key_share_groups = tls.shares /\ p.psk_modes = tls.lists[PSKModes]
  <2> HIDE DEF tls
  <2> QED BY DEF Profile, KeyShareGroups
<1> HIDE DEF tls, p
<1>8. Shows(p, q)
  BY <1>2, <1>3, <1>4, <1>5, <1>6, <1>7, ListsNamed DEF Shows
<1> QED
  BY <1>8 DEF p, q, tls, m

(* What the imitation puts into an extension.                              *)
Host == [head |-> <<0>>, data |-> <<98>>]
ShareOf == [e \in Unit(KeyShare) |-> [head |-> Bytes2(GroupOf[e]), data |-> <<8>>]]
Imit(p, compress) ==
  [e \in Sayables |-> [type |-> e.type, content |-> ContentFrom(p, compress, e.type)]]

LEMMA NamesDiffer ==
  /\ SNI # Groups /\ SNI # PointFormats /\ SNI # SignatureAlgorithms /\ SNI # ALPN
  /\ SNI # CompressCertificate /\ SNI # SupportedVersions /\ SNI # PSKModes /\ SNI # KeyShare
  /\ Groups # PointFormats /\ Groups # SignatureAlgorithms /\ Groups # ALPN
  /\ Groups # CompressCertificate /\ Groups # SupportedVersions /\ Groups # PSKModes
  /\ Groups # KeyShare /\ PointFormats # SignatureAlgorithms /\ PointFormats # ALPN
  /\ PointFormats # CompressCertificate /\ PointFormats # SupportedVersions
  /\ PointFormats # PSKModes /\ PointFormats # KeyShare /\ SignatureAlgorithms # ALPN
  /\ SignatureAlgorithms # CompressCertificate /\ SignatureAlgorithms # SupportedVersions
  /\ SignatureAlgorithms # PSKModes /\ SignatureAlgorithms # KeyShare
  /\ ALPN # CompressCertificate /\ ALPN # SupportedVersions /\ ALPN # PSKModes
  /\ ALPN # KeyShare /\ CompressCertificate # SupportedVersions
  /\ CompressCertificate # PSKModes /\ CompressCertificate # KeyShare
  /\ SupportedVersions # PSKModes /\ SupportedVersions # KeyShare /\ PSKModes # KeyShare
BY DEF SNI, Groups, PointFormats, SignatureAlgorithms, ALPN, CompressCertificate,
       SupportedVersions, PSKModes, KeyShare

LEMMA ContentFromIs ==
  ASSUME NEW p, NEW compress
  PROVE  /\ ContentFrom(p, compress, SNI) = One(Host)
         /\ ContentFrom(p, compress, Groups) = p.curves
         /\ ContentFrom(p, compress, PointFormats) = p.point_formats
         /\ ContentFrom(p, compress, SignatureAlgorithms) = p.signature_algorithms
         /\ ContentFrom(p, compress, ALPN) =
              [i \in DOMAIN p.alpn_protocols |->
                 [head |-> <<>>, data |-> p.alpn_protocols[i]]]
         /\ ContentFrom(p, compress, CompressCertificate) = compress
         /\ ContentFrom(p, compress, SupportedVersions) = p.supported_versions
         /\ ContentFrom(p, compress, PSKModes) = p.psk_modes
         /\ ContentFrom(p, compress, KeyShare) =
              [i \in DOMAIN p.key_share_groups |->
                 [head |-> Bytes2(p.key_share_groups[i]), data |-> <<8>>]]
<1>1. ContentFrom(p, compress, SNI) = One(Host)
  BY NamesDiffer DEF ContentFrom, One, Host
<1>2. /\ ContentFrom(p, compress, Groups) = p.curves
      /\ ContentFrom(p, compress, PointFormats) = p.point_formats
      /\ ContentFrom(p, compress, SignatureAlgorithms) = p.signature_algorithms
      /\ ContentFrom(p, compress, CompressCertificate) = compress
      /\ ContentFrom(p, compress, SupportedVersions) = p.supported_versions
      /\ ContentFrom(p, compress, PSKModes) = p.psk_modes
  BY NamesDiffer DEF ContentFrom
<1>3. ContentFrom(p, compress, ALPN) =
        [i \in DOMAIN p.alpn_protocols |-> [head |-> <<>>, data |-> p.alpn_protocols[i]]]
  BY NamesDiffer DEF ContentFrom
<1>4. ContentFrom(p, compress, KeyShare) =
        [i \in DOMAIN p.key_share_groups |->
           [head |-> Bytes2(p.key_share_groups[i]), data |-> <<8>>]]
  BY NamesDiffer DEF ContentFrom
<1> QED
  BY <1>1, <1>2, <1>3, <1>4

LEMMA ContentFromOther ==
  ASSUME NEW p, NEW compress, NEW t, t \notin Read
  PROVE  ContentFrom(p, compress, t) = Nil
<1>1. /\ t # SNI /\ t # Groups /\ t # PointFormats /\ t # SignatureAlgorithms /\ t # ALPN
      /\ t # CompressCertificate /\ t # SupportedVersions /\ t # PSKModes /\ t # KeyShare
  BY DEF Read, Wide, Narrow, Nested
<1> QED
  BY <1>1 DEF ContentFrom, Nil

(* A hello an imitation can be made of: no extension comes twice, a server *)
(* name is not empty and neither is a key share.                           *)
Eligible(k) ==
  /\ Sayable(k) /\ Distinct(k)
  /\ \A i \in 1 .. Len(k.extensions) :
       k.extensions[i].type = SNI => Meaning(k).name # <<>>
  /\ \A i \in DOMAIN ContentIn(k, KeyShare) : ContentIn(k, KeyShare)[i].data # <<>>

LEMMA ContentShown ==
  ASSUME NEW k, Eligible(k), NEW p, Shows(p, Meaning(k)),
         NEW compress, compress \in {Meaning(k).lists[CompressCertificate], <<>>},
         NEW t \in Read
  PROVE  LET c == ContentFrom(p, compress, t)
         IN  /\ t \notin {SNI, KeyShare, CompressCertificate} => c = ContentIn(k, t)
             /\ t = KeyShare => c = Mapped(ContentIn(k, t), ShareOf)
             /\ t = CompressCertificate => c \in {ContentIn(k, t), Nil}
             /\ t = SNI => c = One(Host)
<1> DEFINE q == Meaning(k)
<1>1. \A u \in Wide \cup Narrow : q.lists[u] = ContentIn(k, u)
  BY DEF Meaning
<1>2. CASE t \in (Wide \cup Narrow) \ {CompressCertificate}
  <2>1. t \in {Groups, SignatureAlgorithms, SupportedVersions, PointFormats, PSKModes}
    BY <1>2, ListsNamed
  <2>2. t \notin {SNI, KeyShare}
    BY <1>2, NamedKinds
  <2> HIDE DEF q
  <2> QED BY <1>1, <1>2, <2>1, <2>2, ContentFromIs DEF Shows, q
<1>3. CASE t = CompressCertificate
  <2> HIDE DEF q
  <2>1. ContentFrom(p, compress, t) = compress /\ q.lists[t] = ContentIn(k, t)
    BY <1>1, <1>3, ContentFromIs, ListsNamed
  <2> QED BY <1>3, <2>1, NamesDiffer DEF q, Nil
<1>4. CASE t = ALPN
  <2> DEFINE c == ContentIn(k, ALPN)
             a == q.protocols
  <2>1. a = [i \in DOMAIN c |-> c[i].data]
    BY DEF Meaning
  <2>2. c \in Seq(Unit(ALPN)) /\ Unit(ALPN) = RawEntries(1, 1)
    <3>1. ALPN \in Nested /\ ALPN \notin Wide /\ HeaderWidth(ALPN) = 1 /\ EntryWidth(ALPN) = 1
      BY NamedKinds, NamesDiffer DEF HeaderWidth, EntryWidth
    <3> QED BY <3>1, ContentType DEF Eligible, Unit, Read
  <2> HIDE DEF c
  <2>3. ASSUME NEW i \in DOMAIN c PROVE [head |-> <<>>, data |-> c[i].data] = c[i]
    <3>1. c[i] \in RawEntries(1, 1)
      <4>1. DOMAIN c = 1 .. Len(c)
        BY <2>2, LenProperties
      <4> QED BY <2>2, <4>1, ElementOfSeq
    <3>2. /\ c[i].head \in Seq(Byte) /\ Len(c[i].head) = 1 - 1
          /\ c[i] = [head |-> c[i].head, data |-> c[i].data]
      BY <3>1, EntryParts
    <3>3. c[i].head = <<>>
      BY <3>2, EmptySeq
    <3> QED BY <3>2, <3>3
  <2>4. [i \in DOMAIN a |-> [head |-> <<>>, data |-> a[i]]] = c
    <3>1. DOMAIN a = DOMAIN c /\ \A i \in DOMAIN c : a[i] = c[i].data
      BY <2>1
    <3>2. [i \in DOMAIN a |-> [head |-> <<>>, data |-> a[i]]] = [i \in DOMAIN c |-> c[i]]
      BY <2>3, <3>1
    <3>3. [i \in DOMAIN c |-> c[i]] = c
      BY <2>2
    <3> QED BY <3>2, <3>3
  <2>5. ContentFrom(p, compress, ALPN) = c
    <3>1. p.alpn_protocols = a
      BY DEF Shows
    <3> HIDE DEF a, q
    <3> QED BY <2>4, <3>1, ContentFromIs
  <2> QED BY <1>4, <2>5, NamesDiffer DEF c
<1>5. CASE t = KeyShare
  <2> DEFINE c == ContentIn(k, KeyShare)
             g == ShareGroups(q)
  <2>1. /\ g = Mapped(c, GroupOf) /\ c \in Seq(Unit(KeyShare))
        /\ Maps(GroupOf, Unit(KeyShare), TwoBytes)
    BY GroupsShared DEF Eligible
  <2> HIDE DEF c, g
  <2>2. \A i \in DOMAIN c : c[i] \in Unit(KeyShare)
    <3>1. DOMAIN c = 1 .. Len(c)
      BY <2>1, LenProperties
    <3> QED BY <2>1, <3>1, ElementOfSeq
  <2>3. [i \in DOMAIN g |-> [head |-> Bytes2(g[i]), data |-> <<8>>]] = Mapped(c, ShareOf)
    BY <2>1, <2>2 DEF Mapped, ShareOf
  <2>4. ContentFrom(p, compress, KeyShare) = Mapped(c, ShareOf)
    <3>1. p.key_share_groups = g
      BY DEF Shows, g
    <3> QED BY <2>3, <3>1, ContentFromIs
  <2> QED BY <1>5, <2>4, NamesDiffer DEF c
<1>6. CASE t = SNI
  BY <1>6, ContentFromIs, NamesDiffer
<1> QED
  BY <1>2, <1>3, <1>4, <1>5, <1>6, NamedKinds DEF Read

LEMMA HostNoLonger ==
  ASSUME NEW c \in Seq(Unit(SNI)), ServerName(c) # <<>>
  PROVE  /\ One(Host) \in Seq(Unit(SNI))
         /\ Len(EncodeList(SNI, One(Host))) <= Len(EncodeList(SNI, c))
<1> DEFINE U == RawEntries(3, 2)
           H == EntryBytes(3, 2)
<1>1. /\ SNI \in Nested /\ SNI \in Read /\ HeaderWidth(SNI) = 3 /\ EntryWidth(SNI) = 2
      /\ Unit(SNI) = U
  <2>1. SNI \in Nested /\ SNI \notin Wide /\ HeaderWidth(SNI) = 3 /\ EntryWidth(SNI) = 2
    BY NamedKinds, NamesDiffer DEF HeaderWidth, EntryWidth
  <2> QED BY <2>1 DEF Unit, Read
<1>2. Maps(H, U, Seq(Byte))
  BY EntryBytesMaps
<1>3. \A e \in U : /\ H[e] \in Seq(Byte) /\ Len(H[e]) = 3 + Len(e.data)
                  /\ e.data \in Seq(Byte) /\ Len(e.data) \in Nat
  BY EntryParts
<1>4. Host \in U /\ Len(Host.data) = 1
  <2>1. Host.head = <<0>> /\ Host.data = <<98>> /\ Host = [head |-> <<0>>, data |-> <<98>>]
    BY DEF Host
  <2>2. <<0>> \in [1 .. 1 -> Byte] /\ <<98>> \in Seq(Byte) /\ Len(<<98>>) = 1
    BY DEF Byte
  <2>3. Short(<<98>>, 2)
    BY <2>2 DEF Short
  <2>4. Host \in [head : [1 .. 3 - 2 -> Byte], data : Seq(Byte)]
    BY <2>1, <2>2
  <2> QED BY <2>1, <2>2, <2>3, <2>4 DEF RawEntries
<1>5. One(Host) \in Seq(U)
  BY <1>4, OneType
<1>6. PICK d \in ToSet(c) : d.head = <<0>> /\ d.data # <<>>
  <2> DEFINE hosts == {e.data : e \in {d \in ToSet(c) : d.head = <<0>>}} \ {<<>>}
  <2>1. IF hosts = {} THEN ServerName(c) = <<>> ELSE ServerName(c) \in hosts
    BY NameFound
  <2> QED BY <2>1
<1>7. /\ EncodeList(SNI, One(Host)) = Joined(One(Host), H)
      /\ EncodeList(SNI, c) = Joined(c, H)
  BY <1>1, <1>5, UnitContents
<1> HIDE DEF U, H
<1>8. c \in Seq(U) /\ d \in U
  BY <1>1, ToSetType
<1>9. Len(H[d]) = 3 + Len(d.data) /\ Len(d.data) \in Nat /\ d.data \in Seq(Byte)
      /\ Len(H[Host]) = 3 + 1
  BY <1>4, <1>8, <1>3
<1>10. Len(d.data) # 0
  BY <1>6, <1>9, EmptySeq
<1>11. Len(Joined(One(Host), H)) = Len(H[Host])
  <2>1. /\ Len(Joined(Add(Nil, Host), H)) = Len(Joined(Nil, H)) + Len(H[Host])
        /\ Len(H[Host]) \in Nat
    <3>1. Nil \in Seq(U)
      BY NilType
    <3> QED BY <1>2, <1>4, <3>1, JoinedAddLen
  <2> QED BY <2>1, AddNil, JoinedNil, NilLen
<1>12. Len(H[d]) <= Len(Joined(c, H))
  BY <1>2, <1>6, <1>8, JoinedHas
<1>13. Len(Joined(c, H)) \in Nat
  BY <1>2, <1>8, JoinedType, LenProperties
<1>14. Len(Joined(One(Host), H)) <= Len(Joined(c, H))
  BY <1>9, <1>10, <1>11, <1>12, <1>13
<1> QED
  BY <1>1, <1>5, <1>7, <1>14

LEMMA SharesNoLonger ==
  ASSUME NEW c \in Seq(Unit(KeyShare)), \A i \in DOMAIN c : c[i].data # <<>>
  PROVE  /\ Mapped(c, ShareOf) \in Seq(Unit(KeyShare))
         /\ Len(EncodeList(KeyShare, Mapped(c, ShareOf))) <= Len(EncodeList(KeyShare, c))
<1> DEFINE U == RawEntries(4, 2)
           H == EntryBytes(4, 2)
           G == [e \in U |-> H[ShareOf[e]]]
           T == ToSet(c)
<1>1. /\ KeyShare \in Nested /\ KeyShare \in Read /\ HeaderWidth(KeyShare) = 4
      /\ EntryWidth(KeyShare) = 2 /\ Unit(KeyShare) = U
  <2>1. /\ KeyShare \in Nested /\ KeyShare \notin Wide
        /\ HeaderWidth(KeyShare) = 4 /\ EntryWidth(KeyShare) = 2
    BY NamedKinds, NamesDiffer DEF HeaderWidth, EntryWidth
  <2> QED BY <2>1 DEF Unit, Read
<1>2. Maps(H, U, Seq(Byte))
  BY EntryBytesMaps
<1>3. \A e \in U : /\ H[e] \in Seq(Byte) /\ Len(H[e]) = 4 + Len(e.data)
                  /\ e.data \in Seq(Byte) /\ Len(e.data) \in Nat
  BY EntryParts
<1>4. ASSUME NEW e \in U PROVE ShareOf[e] \in U /\ Len(ShareOf[e].data) = 1
  <2> DEFINE b == Bytes2(GroupOf[e])
             s == [head |-> b, data |-> <<8>>]
  <2>1. ShareOf[e] = s
    BY <1>1 DEF ShareOf
  <2>2. b \in Seq(Byte) /\ Len(b) = 2
    BY <1>1, GroupsShared, Bytes2Number DEF Maps
  <2>3. <<8>> \in Seq(Byte) /\ Len(<<8>>) = 1
    BY DEF Byte
  <2>4. Short(<<8>>, 2)
    BY <2>3 DEF Short
  <2> HIDE DEF b
  <2>5. b \in [1 .. 4 - 2 -> Byte]
    BY <2>2
  <2>6. s.data = <<8>> /\ s \in [head : [1 .. 4 - 2 -> Byte], data : Seq(Byte)]
    BY <2>3, <2>5
  <2> HIDE DEF s
  <2> QED BY <2>1, <2>3, <2>4, <2>6 DEF RawEntries
<1> HIDE DEF U, H
<1>5. Maps(ShareOf, U, U) /\ c \in Seq(U)
  BY <1>1, <1>4 DEF Maps
<1>6. Mapped(c, ShareOf) \in Seq(U)
  BY <1>5, MappedType
<1>7. /\ EncodeList(KeyShare, Mapped(c, ShareOf)) = Joined(Mapped(c, ShareOf), H)
      /\ EncodeList(KeyShare, c) = Joined(c, H)
  BY <1>1, <1>5, <1>6, UnitContents DEF H
<1>8. T \in SUBSET U /\ c \in Seq(T) /\ \A i \in DOMAIN c : c[i] \in U
  <2>1. T \in SUBSET U
    BY <1>5, ToSetType
  <2>2. c \in Seq(T)
    BY <1>5, SeqOfElements
  <2> QED BY <2>1, <2>2 DEF ToSet
<1>9. Joined(Mapped(c, ShareOf), H) = Joined(c, G)
  <2>1. Mapped(Mapped(c, ShareOf), H) = Mapped(c, G)
    BY <1>8 DEF Mapped
  <2> QED BY <2>1 DEF Joined
<1>10. ASSUME NEW e \in T PROVE Len(G[e]) <= Len(H[e]) /\ G[e] \in Seq(Byte) /\ H[e] \in Seq(Byte)
  <2>1. e \in U /\ G[e] = H[ShareOf[e]] /\ e.data # <<>>
    BY <1>8 DEF ToSet
  <2>2. /\ Len(H[e]) = 4 + Len(e.data) /\ Len(e.data) \in Nat /\ e.data \in Seq(Byte)
        /\ Len(H[ShareOf[e]]) = 4 + 1
        /\ H[e] \in Seq(Byte) /\ H[ShareOf[e]] \in Seq(Byte)
    BY <1>4, <1>3, <2>1
  <2>3. Len(e.data) # 0
    BY <2>1, <2>2, EmptySeq
  <2> HIDE DEF G
  <2> QED BY <2>1, <2>2, <2>3
<1> HIDE DEF G, T
<1>11. Len(Joined(c, G)) <= Len(Joined(c, H))
  <2>1. Maps(G, T, Seq(Byte)) /\ Maps(H, T, Seq(Byte)) /\ \A e \in T : Len(G[e]) <= Len(H[e])
    BY <1>10 DEF Maps
  <2> QED BY <1>8, <2>1, JoinedNoLonger
<1> QED
  BY <1>1, <1>6, <1>7, <1>9, <1>11

LEMMA EmptyNoLonger ==
  ASSUME NEW t \in Wide, NEW c \in Seq(Unit(t))
  PROVE  /\ Nil \in Seq(Unit(t))
         /\ Len(EncodeList(t, Nil)) <= Len(EncodeList(t, c))
<1>1. Nil \in Seq(Unit(t)) /\ t \in Read
  BY NilType DEF Read
<1>2. EncodeList(t, Nil) = Nil
  BY <1>1, UnitContents, JoinedNil
<1>3. Len(EncodeList(t, c)) \in Nat
  BY <1>1, UnitContents, LenProperties
<1> QED
  BY <1>1, <1>2, <1>3, NilLen

LEMMA Imitated ==
  ASSUME NEW k, Eligible(k), NEW p, Shows(p, Meaning(k)),
         NEW compress, compress \in {Meaning(k).lists[CompressCertificate], <<>>},
         NEW i \in 1 .. Len(k.extensions), NEW e, e = k.extensions[i]
  PROVE  /\ e \in Sayables /\ Imit(p, compress)[e] \in Sayables
         /\ Imit(p, compress)[e].type = e.type
         /\ Imit(p, compress)[e].content = ContentFrom(p, compress, e.type)
         /\ Len(Said[Imit(p, compress)[e]]) <= Len(Said[e])
<1> DEFINE t == e.type
           c == ContentFrom(p, compress, t)
           f == [type |-> t, content |-> c]
<1>1. e \in Sayables
  <2>1. k.extensions \in Seq(Sayables)
    BY SayableParts DEF Eligible
  <2> QED BY <2>1, ElementOfSeq
<1>2. Imit(p, compress)[e] = f /\ f.type = t /\ f.content = c
  BY <1>1 DEF Imit
<1>3. ASSUME t \notin Read PROVE f \in Sayables /\ Len(Said[f]) <= Len(Said[e])
  <2>1. c = Nil
    BY <1>3, ContentFromOther
  <2>2. Nil \in Seq(Byte) /\ Len(Nil) <= Len(e.content)
    <3>1. SayableExtension(e) /\ t \notin Wide \cup Narrow \cup Nested
      BY <1>1, <1>3, SayablesAre DEF Read
    <3>2. e.content \in Contents(t)
      BY <3>1, Zenon DEF SayableExtension
    <3>3. e.content \in Seq(Byte)
      BY <3>1, <3>2 DEF Contents
    <3>4. Len(e.content) \in Nat
      BY <3>3, LenProperties
    <3> QED BY <3>4, NilType, NilLen
  <2> HIDE DEF c, t
  <2>3. t = e.type
    BY DEF t
  <2> QED BY <1>1, <1>3, <2>1, <2>2, <2>3, LessSaidBytes
<1>4. ASSUME t \in Read PROVE f \in Sayables /\ Len(Said[f]) <= Len(Said[e])
  <2>1. ContentIn(k, t) = e.content
    BY <1>4, ContentOnce DEF Eligible
  <2>2. e.content \in Seq(Unit(t))
    BY <1>1, <1>4, ContentUnits
  <2>3. /\ t \notin {SNI, KeyShare, CompressCertificate} => c = e.content
        /\ t = KeyShare => c = Mapped(e.content, ShareOf)
        /\ t = CompressCertificate => c \in {e.content, Nil}
        /\ t = SNI => c = One(Host)
    BY <1>4, <2>1, ContentShown
  <2>4. t = SNI => ServerName(e.content) # <<>>
    <3>1. Meaning(k).name = ServerName(ContentIn(k, SNI))
      BY DEF Meaning
    <3> QED BY <2>1, <3>1 DEF Eligible
  <2>5. t = KeyShare => \A j \in DOMAIN e.content : e.content[j].data # <<>>
    BY <2>1 DEF Eligible
  <2> HIDE DEF c, t
  <2>6. c \in Seq(Unit(t)) /\ Len(EncodeList(t, c)) <= Len(EncodeList(t, e.content))
    <3>1. CASE t \notin {SNI, KeyShare, CompressCertificate}
      <4>1. Len(EncodeList(t, e.content)) \in Nat
        BY <1>4, <2>2, UnitContents, LenProperties
      <4> QED BY <2>2, <2>3, <3>1, <4>1
    <3>2. CASE t = SNI
      BY <2>2, <2>3, <2>4, <3>2, HostNoLonger
    <3>3. CASE t = KeyShare
      BY <2>2, <2>3, <2>5, <3>3, SharesNoLonger
    <3>4. CASE t = CompressCertificate
      <4>1. t \in Wide
        BY <3>4, NamedKinds
      <4>2. Len(EncodeList(t, e.content)) \in Nat
        BY <1>4, <2>2, UnitContents, LenProperties
      <4> QED BY <2>2, <2>3, <3>4, <4>1, <4>2, EmptyNoLonger
    <3> QED BY <3>1, <3>2, <3>3, <3>4
  <2>7. t = e.type
    BY DEF t
  <2> QED BY <1>1, <1>4, <2>6, <2>7, LessSaid
<1> QED
  BY <1>1, <1>2, <1>3, <1>4

LEMMA ShortSmall ==
  ASSUME NEW b, Len(b) \in {0, 1}
  PROVE  Short(b, 1)
<1>1. Len(b) < 256
  OBVIOUS
<1> QED
  BY <1>1, SMT DEF Short

LEMMA ImitationIs ==
  ASSUME NEW k, Eligible(k), NEW p, Shows(p, Meaning(k)),
         NEW compress, compress \in {Meaning(k).lists[CompressCertificate], <<>>}
  PROVE  LET I == Imitation(p, compress)
         IN  /\ Sayable(I) /\ I.version = 771 /\ I.suites = k.suites
             /\ I.extensions = Mapped(k.extensions, Imit(p, compress))
<1> DEFINE I == Imitation(p, compress)
           es == k.extensions
           f == Imit(p, compress)
<1>1. /\ es \in Seq(Sayables) /\ k.suites \in Seq(TwoBytes)
      /\ SuiteBytes(k) = Joined(k.suites, B2) /\ Short(SuiteBytes(k), 2) /\ Sayable(k)
  BY SayableParts DEF Eligible, SuiteBytes
<1>2. DOMAIN es = 1 .. Len(es) /\ \A i \in 1 .. Len(es) : es[i] \in Sayables
  <2> HIDE DEF es
  <2> QED BY <1>1, LenProperties, ElementOfSeq
<1>3. \A i \in 1 .. Len(es) : /\ f[es[i]] \in Sayables /\ Len(Said[f[es[i]]]) <= Len(Said[es[i]])
                              /\ f[es[i]] = [type |-> es[i].type,
                                             content |-> ContentFrom(p, compress, es[i].type)]
  <2> SUFFICES ASSUME NEW i \in 1 .. Len(es)
               PROVE  /\ f[es[i]] \in Sayables /\ Len(Said[f[es[i]]]) <= Len(Said[es[i]])
                      /\ f[es[i]] = [type |-> es[i].type,
                                     content |-> ContentFrom(p, compress, es[i].type)]
    OBVIOUS
  <2>1. f[es[i]] = [type |-> es[i].type, content |-> ContentFrom(p, compress, es[i].type)]
    BY <1>2 DEF Imit
  <2>2. f[es[i]] \in Sayables /\ Len(Said[f[es[i]]]) <= Len(Said[es[i]])
    BY Imitated
  <2> QED BY <2>1, <2>2
<1>4. p.cipher_suites = k.suites /\ p.extensions = Mapped(es, Types)
  BY DEF Shows, Meaning
<1>5. I = [version |-> 771, session |-> Nil, suites |-> k.suites, compression |-> One(0),
           extensions |-> Mapped(es, f)]
  <2>1. [i \in DOMAIN p.extensions |->
           [type |-> p.extensions[i], content |-> ContentFrom(p, compress, p.extensions[i])]]
          = Mapped(es, f)
    <3>1. DOMAIN p.extensions = DOMAIN es /\ \A i \in DOMAIN es : p.extensions[i] = es[i].type
      BY <1>2, <1>4 DEF Mapped, Types
    <3> HIDE DEF es, f
    <3> QED BY <1>2, <1>3, <3>1 DEF Mapped
  <2> QED BY <1>4, <2>1, Zenon DEF Imitation, Nil, One
<1> HIDE DEF es, f, I
<1>6. Mapped(es, f) \in Seq(Sayables) /\ Short(Joined(Mapped(es, f), Said), 2)
  <2>1. es = Only(es, ToSet(es))
    BY <1>1, OnlyAll
  <2>2. Maps(f, ToSet(es), Sayables) /\ \A e \in ToSet(es) : Len(Said[f[e]]) <= Len(Said[e])
    BY <1>2, <1>3 DEF Maps, ToSet
  <2> QED BY <1>1, <2>1, <2>2, LessFits DEF es
<1>7. Nil \in Seq(Byte) /\ Short(Nil, 1) /\ One(0) \in Seq(Byte) /\ Short(One(0), 1)
  <2>1. Len(Nil) = 0 /\ Len(One(0)) = 1 /\ One(0) \in Seq(Byte)
    BY NilLen, OneType DEF Byte
  <2>2. Short(Nil, 1) /\ Short(One(0), 1)
    BY <2>1, ShortSmall
  <2> QED BY <2>1, <2>2, NilType
<1>8. 771 \in TwoBytes
  BY DEF TwoBytes
<1>9. Sayable([version |-> 771, session |-> Nil, suites |-> k.suites, compression |-> One(0),
               extensions |-> Mapped(es, f)])
  BY <1>1, <1>6, <1>7, <1>8, SayableFrom
<1>10. I.version = 771 /\ I.suites = k.suites /\ I.extensions = Mapped(es, f)
  BY <1>5
<1> QED
  BY <1>5, <1>9, <1>10 DEF I, es, f

(* The imitation is taken for what it imitates.                            *)
LEMMA ImitationMeans ==
  ASSUME NEW k, Eligible(k), NEW p, Shows(p, Meaning(k)),
         NEW compress, compress \in {Meaning(k).lists[CompressCertificate], <<>>},
         NEW I, I = Imitation(p, compress)
  PROVE  /\ Meaning(I).version = 771 /\ Meaning(I).suites = Meaning(k).suites
         /\ Meaning(I).extensions = Meaning(k).extensions
         /\ \A t \in (Wide \cup Narrow) \ {CompressCertificate} :
              Meaning(I).lists[t] = Meaning(k).lists[t]
         /\ Meaning(I).lists[CompressCertificate] \in {compress, <<>>}
         /\ compress # <<>> =>
              Meaning(I).lists[CompressCertificate] = Meaning(k).lists[CompressCertificate]
         /\ Meaning(I).name = <<>> <=> Meaning(k).name = <<>>
         /\ Meaning(I).protocols = Meaning(k).protocols
         /\ ShareGroups(Meaning(I)) = ShareGroups(Meaning(k))
<1> DEFINE q == Meaning(k)
           r == Meaning(I)
           es == k.extensions
           f == Imit(p, compress)
           From(t) == ContentFrom(p, compress, t)
<1>1. Sayable(I) /\ I.version = 771 /\ I.suites = k.suites /\ I.extensions = Mapped(es, f)
  BY ImitationIs
<1>2. Sayable(k) /\ Distinct(k) /\ es \in Seq(Sayables)
  BY SayableParts DEF Eligible
<1>3. DOMAIN es = 1 .. Len(es) /\ \A i \in 1 .. Len(es) : es[i] \in Sayables
  <2> HIDE DEF es
  <2> QED BY <1>2, LenProperties, ElementOfSeq
<1>4. \A i \in 1 .. Len(es) : /\ f[es[i]] \in Sayables /\ f[es[i]].type = es[i].type
                              /\ f[es[i]].content = From(es[i].type)
  BY Imitated
<1>5. /\ r.version = I.version /\ r.suites = I.suites /\ q.suites = k.suites
      /\ r.extensions = Mapped(I.extensions, Types) /\ q.extensions = Mapped(es, Types)
      /\ \A t \in Wide \cup Narrow : r.lists[t] = ContentIn(I, t) /\ q.lists[t] = ContentIn(k, t)
      /\ r.name = ServerName(ContentIn(I, SNI)) /\ q.name = ServerName(ContentIn(k, SNI))
  BY DEF Meaning
<1>6. /\ r.protocols = LET c == ContentIn(I, ALPN) IN [i \in DOMAIN c |-> c[i].data]
      /\ q.protocols = LET c == ContentIn(k, ALPN) IN [i \in DOMAIN c |-> c[i].data]
  BY DEF Meaning
<1> HIDE DEF es, f, From
<1>7. /\ DOMAIN I.extensions = 1 .. Len(es) /\ Len(I.extensions) = Len(es)
      /\ \A i \in 1 .. Len(es) : /\ I.extensions[i].type = es[i].type
                                 /\ I.extensions[i].content = From(es[i].type)
  <2>1. Mapped(es, f) \in Seq(Sayables) /\ Len(es) \in Nat
    BY <1>1, <1>2, SayableParts, LenProperties
  <2>2. DOMAIN Mapped(es, f) = 1 .. Len(Mapped(es, f)) /\ Len(Mapped(es, f)) \in Nat
    BY <2>1, LenProperties
  <2>3. DOMAIN Mapped(es, f) = DOMAIN es /\ \A i \in 1 .. Len(es) : Mapped(es, f)[i] = f[es[i]]
    BY <1>3 DEF Mapped
  <2>4. \A a, b \in Nat : 1 .. a = 1 .. b => a = b
    <3> SUFFICES ASSUME NEW a \in Nat, NEW b \in Nat, 1 .. a = 1 .. b PROVE a = b
      OBVIOUS
    <3>1. /\ a > 0 => a \in 1 .. b
          /\ b > 0 => b \in 1 .. a
      OBVIOUS
    <3> QED BY <3>1
  <2>5. Len(Mapped(es, f)) = Len(es)
    BY <1>3, <2>1, <2>2, <2>3, <2>4
  <2> QED BY <1>1, <1>3, <1>4, <2>2, <2>3, <2>5
<1>8. Distinct(I)
  BY <1>2, <1>7 DEF Distinct, es
<1>9. r.extensions = q.extensions
  <2>1. I.extensions \in Seq(Sayables)
    BY <1>1, SayableParts
  <2>2. \A i \in 1 .. Len(es) : I.extensions[i] \in Sayables
    BY <1>7, <2>1, ElementOfSeq
  <2> HIDE DEF q, r
  <2> QED BY <1>3, <1>5, <1>7, <2>2 DEF Mapped, Types
<1>10. ASSUME NEW t \in Read
       PROVE  ContentIn(I, t) = From(t) \/ (ContentIn(I, t) = <<>> /\ ContentIn(k, t) = <<>>)
  <2>1. CASE \E i \in 1 .. Len(es) : es[i].type = t
    <3>1. PICK i \in 1 .. Len(es) : es[i].type = t
      BY <2>1
    <3>2. i \in 1 .. Len(I.extensions) /\ I.extensions[i].type = t
          /\ I.extensions[i].content = From(t)
      BY <1>7, <3>1
    <3>3. ContentIn(I, t) = I.extensions[i].content
      BY <1>1, <1>8, <3>2, ContentOnce
    <3> QED BY <3>2, <3>3
  <2>2. CASE \A i \in 1 .. Len(es) : es[i].type # t
    <3>1. \A i \in 1 .. Len(I.extensions) : I.extensions[i].type # t
      BY <1>7, <2>2
    <3> QED BY <1>1, <1>2, <2>2, <3>1, ContentNone DEF es
  <2> QED BY <2>1, <2>2
<1>11. ASSUME NEW t \in Read, t \notin {SNI, KeyShare, CompressCertificate}
       PROVE  ContentIn(I, t) = ContentIn(k, t)
  <2>1. From(t) = ContentIn(k, t)
    BY <1>11, ContentShown DEF From
  <2> QED BY <1>10, <2>1
<1>12. \A t \in (Wide \cup Narrow) \ {CompressCertificate} : r.lists[t] = q.lists[t]
  <2> SUFFICES ASSUME NEW t \in (Wide \cup Narrow) \ {CompressCertificate}
               PROVE  r.lists[t] = q.lists[t]
    OBVIOUS
  <2>1. t \in Read /\ t \notin {SNI, KeyShare, CompressCertificate}
    BY NamedKinds DEF Read
  <2> HIDE DEF q, r
  <2> QED BY <1>5, <1>11, <2>1
<1>13. /\ r.lists[CompressCertificate] \in {compress, <<>>}
       /\ compress # <<>> => r.lists[CompressCertificate] = q.lists[CompressCertificate]
  <2>1. CompressCertificate \in Read /\ CompressCertificate \in Wide
    BY NamedKinds DEF Read
  <2>2. From(CompressCertificate) = compress
    BY ContentFromIs DEF From
  <2>3. compress # <<>> => compress = q.lists[CompressCertificate]
    OBVIOUS
  <2> HIDE DEF q, r
  <2> QED BY <1>5, <1>10, <2>1, <2>2, <2>3
<1>14. r.protocols = q.protocols
  <2>1. ALPN \in Read /\ ALPN \notin {SNI, KeyShare, CompressCertificate}
    BY NamedKinds, NamesDiffer DEF Read
  <2>2. ContentIn(I, ALPN) = ContentIn(k, ALPN)
    BY <1>11, <2>1
  <2> HIDE DEF q, r
  <2> QED BY <1>6, <2>2
<1>15. r.name = <<>> <=> q.name = <<>>
  <2>1. SNI \in Read
    BY NamedKinds DEF Read
  <2>2. From(SNI) = One(Host)
    BY ContentFromIs DEF From
  <2>3. ServerName(One(Host)) # <<>>
    <3>1. One(Host) \in Seq({Host}) /\ ToSet(One(Host)) = {Host}
      BY DEF One, ToSet
    <3>2. Host.head = <<0>> /\ Host.data = <<98>> /\ <<98>> # <<>>
      BY DEF Host
    <3> DEFINE hosts == {e.data : e \in {d \in ToSet(One(Host)) : d.head = <<0>>}} \ {<<>>}
    <3>3. IF hosts = {} THEN ServerName(One(Host)) = <<>> ELSE ServerName(One(Host)) \in hosts
      BY <3>1, NameFound
    <3>4. Host.data \in hosts /\ \A x \in hosts : x # <<>>
      BY <3>1, <3>2
    <3> QED BY <3>3, <3>4
  <2>4. (\E i \in 1 .. Len(es) : es[i].type = SNI) => q.name # <<>>
    BY DEF Eligible, es
  <2>5. (\A i \in 1 .. Len(es) : es[i].type # SNI) =>
           ContentIn(I, SNI) = <<>> /\ ContentIn(k, SNI) = <<>>
    <3>1. ASSUME \A i \in 1 .. Len(es) : es[i].type # SNI
          PROVE  ContentIn(I, SNI) = <<>> /\ ContentIn(k, SNI) = <<>>
      <4>1. \A i \in 1 .. Len(I.extensions) : I.extensions[i].type # SNI
        BY <1>7, <3>1
      <4> QED BY <1>1, <1>2, <2>1, <3>1, <4>1, ContentNone DEF es
    <3> QED BY <3>1
  <2> HIDE DEF q, r
  <2>6. CASE ContentIn(I, SNI) = One(Host) /\ q.name # <<>>
    BY <1>5, <2>3, <2>6
  <2>7. CASE ContentIn(I, SNI) = <<>> /\ ContentIn(k, SNI) = <<>>
    BY <1>5, <2>7
  <2> QED BY <1>10, <2>1, <2>2, <2>4, <2>5, <2>6, <2>7
<1>16. ShareGroups(r) = ShareGroups(q)
  <2> DEFINE c == ContentIn(k, KeyShare)
             d == ContentIn(I, KeyShare)
  <2>1. /\ KeyShare \in Read /\ c \in Seq(Unit(KeyShare))
        /\ ShareGroups(q) = Mapped(c, GroupOf) /\ ShareGroups(r) = Mapped(d, GroupOf)
        /\ Maps(GroupOf, Unit(KeyShare), TwoBytes)
    BY <1>1, <1>2, GroupsShared, NamedKinds DEF Read
  <2>2. From(KeyShare) = Mapped(c, ShareOf)
    BY <2>1, ContentShown DEF From
  <2>3. \A i \in DOMAIN c : c[i].data # <<>>
    BY DEF Eligible
  <2> HIDE DEF c, d, q, r
  <2>4. DOMAIN c = 1 .. Len(c) /\ \A i \in DOMAIN c : c[i] \in Unit(KeyShare)
    BY <2>1, LenProperties, ElementOfSeq
  <2>5. Mapped(c, ShareOf) \in Seq(Unit(KeyShare))
    BY <2>1, <2>3, SharesNoLonger
  <2>6. ASSUME NEW i \in DOMAIN c
        PROVE  ShareOf[c[i]] \in Unit(KeyShare) /\ GroupOf[ShareOf[c[i]]] = GroupOf[c[i]]
    <3>1. ShareOf[c[i]] = [head |-> Bytes2(GroupOf[c[i]]), data |-> <<8>>]
      BY <2>4 DEF ShareOf
    <3>2. Mapped(c, ShareOf)[i] = ShareOf[c[i]] /\ DOMAIN Mapped(c, ShareOf) = DOMAIN c
      BY DEF Mapped
    <3>3. ShareOf[c[i]] \in Unit(KeyShare)
      <4>1. \A s \in Seq(Unit(KeyShare)) : \A j \in DOMAIN s : s[j] \in Unit(KeyShare)
        OBVIOUS
      <4> QED BY <2>5, <3>2, <4>1
    <3>4. GroupOf[c[i]] \in TwoBytes
      BY <2>1, <2>4 DEF Maps
    <3>5. Number(Bytes2(GroupOf[c[i]])) = GroupOf[c[i]]
      BY <3>4, Bytes2Number
    <3>6. GroupOf[ShareOf[c[i]]] = Number(ShareOf[c[i]].head)
      BY <3>3 DEF GroupOf
    <3> QED BY <3>1, <3>3, <3>5, <3>6
  <2>7. Mapped(Mapped(c, ShareOf), GroupOf) = Mapped(c, GroupOf)
    BY <2>6 DEF Mapped
  <2>8. d = Mapped(c, ShareOf) \/ (d = <<>> /\ c = <<>>)
    BY <1>10, <2>1, <2>2 DEF c, d
  <2> QED BY <2>1, <2>7, <2>8
<1> QED
  BY <1>1, <1>5, <1>9, <1>12, <1>13, <1>14, <1>15, <1>16

LEMMA ImitableEligible ==
  ASSUME Arrived, Imitable
  PROVE  /\ Sayable(meant) /\ parsed = Meaning(meant) /\ parsed.version = 771
         /\ Eligible(Plain(meant))
<1> DEFINE k == Plain(meant)
           q == Meaning(k)
<1>1. Sayable(meant) /\ parsed = Meaning(meant)
  BY Understood DEF Imitable
<1>2. /\ IsInjective(parsed.extensions) /\ parsed.version = 771
      /\ SNI \in ToSet(parsed.extensions) => parsed.name # <<>>
      /\ \A i \in DOMAIN parsed.shares : parsed.shares[i].key # <<>>
  BY DEF Imitable
<1>3. Sayable(k)
  BY <1>1, PlainIs
<1>4. /\ q.name = parsed.name /\ q.extensions = WithoutGREASE(parsed.extensions)
      /\ ContentIn(k, KeyShare) = Only(ContentIn(meant, KeyShare), Keep(KeyShare))
      /\ parsed.extensions \in Seq(TwoBytes)
      /\ ContentIn(meant, KeyShare) \in Seq(Unit(KeyShare))
  BY <1>1, PlainMeaning, PlainContents, MeaningTyped, ContentType, NamedKinds DEF Typed, Read
<1>5. q.extensions = Only(parsed.extensions, Plain16)
  BY <1>4, WithoutGREASEIs
<1>6. Distinct(k)
  <2>1. IsInjective(q.extensions)
    BY <1>2, <1>4, <1>5, OnlyInjective
  <2> HIDE DEF k
  <2> QED BY <1>3, <2>1, InjectiveDistinct
<1>7. ASSUME NEW i \in 1 .. Len(k.extensions), k.extensions[i].type = SNI
      PROVE  q.name # <<>>
  <2>1. k.extensions \in Seq(Sayables) /\ q.extensions = Mapped(k.extensions, Types)
    BY <1>3, SayableParts DEF Meaning
  <2> HIDE DEF k, q
  <2>2. DOMAIN k.extensions = 1 .. Len(k.extensions) /\ k.extensions[i] \in Sayables
    BY <2>1, LenProperties, ElementOfSeq
  <2>3. q.extensions[i] = SNI /\ i \in DOMAIN q.extensions
    BY <1>7, <2>1, <2>2 DEF Mapped, Types
  <2>4. SNI \in ToSet(q.extensions)
    BY <2>3 DEF ToSet
  <2>5. SNI \in ToSet(parsed.extensions)
    BY <1>4, <1>5, <2>4, OnlyElements
  <2> QED BY <1>2, <1>4, <2>5
<1>8. ASSUME NEW i \in DOMAIN ContentIn(k, KeyShare)
      PROVE  ContentIn(k, KeyShare)[i].data # <<>>
  <2> DEFINE c == ContentIn(meant, KeyShare)
             d == ContentIn(k, KeyShare)
  <2>1. parsed.shares = [j \in DOMAIN c |-> [group |-> TypeOf(c[j]), key |-> c[j].data]]
    BY <1>1 DEF Meaning
  <2>2. d = Only(c, Keep(KeyShare)) /\ c \in Seq(Unit(KeyShare))
    BY <1>4
  <2> HIDE DEF c
  <2>3. \A j \in DOMAIN c : c[j].data # <<>>
    BY <1>2, <2>1
  <2>4. d[i] \in ToSet(d)
    BY DEF ToSet
  <2> HIDE DEF d
  <2>5. d[i] \in ToSet(c)
    BY <2>2, <2>4, OnlyElements
  <2>6. d[i].data # <<>>
    BY <2>3, <2>5 DEF ToSet
  <2> QED BY <2>6 DEF d
<1> QED
  BY <1>1, <1>2, <1>3, <1>6, <1>7, <1>8 DEF Eligible

LEMMA ImitationCaptured ==
  ASSUME Arrived, Imitable,
         NEW compress, compress \in {parsed.lists[CompressCertificate], <<>>},
         NEW r, r = ParseClientHello(Encode(Imitation(Profile(CaptureTLSInfo(parsed)), compress)))
  PROVE  Alike(r, parsed) /\ ~EnableGREASE(r) /\ r.lists[CompressCertificate] = compress
<1> DEFINE k == Plain(meant)
           q == Meaning(k)
           p == Profile(CaptureTLSInfo(parsed))
           I == Imitation(p, compress)
<1>1. /\ Sayable(meant) /\ parsed = Meaning(meant) /\ parsed.version = 771 /\ Eligible(k)
  BY ImitableEligible
<1>2. Shows(p, q)
  BY <1>1, ProfileShows
<1>3. /\ Alike(parsed, q) /\ q.lists[PointFormats] = parsed.lists[PointFormats]
      /\ q.lists[CompressCertificate] = parsed.lists[CompressCertificate]
  BY <1>1, PlainAlike
<1>4. q.version = 771
  BY <1>1, <1>3 DEF Alike
<1>5. ~EnableGREASE(q) /\ Typed(q)
  BY <1>1, PlainNotEnabled
<1>6. r = Meaning(I) /\ Typed(r)
  <2>1. Sayable(I)
    <3> HIDE DEF k, p
    <3> QED BY <1>1, <1>2, <1>3, ImitationIs
  <2> HIDE DEF I
  <2>2. r = ParseClientHello(Encode(I))
    BY DEF I
  <2> QED BY <2>1, <2>2, Understands, MeaningTyped
<1> HIDE DEF k, p
<1>7. /\ r.version = 771 /\ r.suites = q.suites /\ r.extensions = q.extensions
      /\ \A t \in (Wide \cup Narrow) \ {CompressCertificate} : r.lists[t] = q.lists[t]
      /\ r.lists[CompressCertificate] \in {compress, <<>>}
      /\ compress # <<>> => r.lists[CompressCertificate] = q.lists[CompressCertificate]
      /\ r.name = <<>> <=> q.name = <<>>
      /\ r.protocols = q.protocols /\ ShareGroups(r) = ShareGroups(q)
  BY <1>1, <1>2, <1>3, <1>6, ImitationMeans
<1> HIDE DEF q, I
<1>8. Alike(r, q)
  BY <1>4, <1>7, ListsNamed DEF Alike
<1>9. Alike(r, parsed)
  BY <1>3, <1>8 DEF Alike
<1>10. ~EnableGREASE(r)
  <2>1. /\ \A t \in Wide \ {CompressCertificate} : r.lists[t] = q.lists[t]
        /\ r.lists[PSKModes] = q.lists[PSKModes]
    BY <1>7, ListsNamed
  <2> QED BY <1>5, <1>6, <1>7, <2>1, EnableIs
<1>11. r.lists[CompressCertificate] = compress
  BY <1>3, <1>7
<1> QED
  BY <1>9, <1>10, <1>11

(* A client that sends what the fingerprint lists leaves the capture the   *)
(* fingerprint was made from, JA3 and JA4 included, but for the GREASE it  *)
(* does not send (format_sub2api_json.go:55-84).                           *)
THEOREM RecapturesFingerprint == Spec => []FingerprintRecaptured
<1>1. Arrived => FingerprintRecaptured
  <2> DEFINE tls == CaptureTLSInfo(parsed)
             compress == parsed.lists[CompressCertificate]
             I == Imitation(Profile(tls), compress)
             r == ParseClientHello(Encode(I))
  <2> SUFFICES ASSUME Arrived, Imitable
               PROVE  LET f == Sub2APIFingerprint(tls)
                      IN  CaptureOf(Imitation(f.profile, f.compress_cert_algos)) =
                            [tls EXCEPT !.enable_grease = FALSE]
    BY Zenon DEF FingerprintRecaptured
  <2>1. tls.lists[CompressCertificate] = compress
    BY ListsNamed DEF CaptureTLSInfo
  <2>2. /\ Sub2APIFingerprint(tls).profile = Profile(tls)
        /\ Sub2APIFingerprint(tls).compress_cert_algos = tls.lists[CompressCertificate]
    BY DEF Sub2APIFingerprint, CompressCertAlgos
  <2>3. Alike(r, parsed) /\ ~EnableGREASE(r) /\ r.lists[CompressCertificate] = compress
    BY ImitationCaptured
  <2> HIDE DEF r
  <2>4. CaptureTLSInfo(r) = [tls EXCEPT !.enable_grease = EnableGREASE(r)]
    BY <2>3, AlikeCaptured
  <2>5. EnableGREASE(r) = FALSE
    BY <2>3, Zenon DEF EnableGREASE
  <2>6. CaptureOf(I) = CaptureTLSInfo(r)
    BY Zenon DEF CaptureOf, r
  <2> HIDE DEF tls, compress
  <2> QED BY <2>1, <2>2, <2>4, <2>5, <2>6, Zenon
<1> QED
  BY <1>1, ArrivedAlways, PTL

(* The reference below a profile announces the certificate compression,    *)
(* which is not written.  What is written makes another client leave the   *)
(* same capture, JA3 and JA4 included, just when the captured client       *)
(* offered no certificate compression (format_sub2api_yaml.go:23-73).      *)
THEOREM ProfileLacks == Spec => []ProfileLacksCompression
<1>1. Arrived => ProfileLacksCompression
  <2> DEFINE tls == CaptureTLSInfo(parsed)
             I == Imitation(Profile(tls), <<>>)
             r == ParseClientHello(Encode(I))
  <2> SUFFICES ASSUME Arrived, Imitable
               PROVE  CaptureOf(I) = [tls EXCEPT !.enable_grease = FALSE]
                        <=> ContentOf(CompressCertificate) = <<>>
    BY Zenon DEF ProfileLacksCompression
  <2>1. Alike(r, parsed) /\ ~EnableGREASE(r) /\ r.lists[CompressCertificate] = <<>>
    BY ImitationCaptured
  <2> HIDE DEF r
  <2>2. CaptureTLSInfo(r) = [tls EXCEPT !.enable_grease = EnableGREASE(r),
                                        !.lists[CompressCertificate] = <<>>]
    BY <2>1, AlikeCaptured
  <2>3. EnableGREASE(r) = FALSE
    BY <2>1, Zenon DEF EnableGREASE
  <2>4. CaptureOf(I) = [tls EXCEPT !.enable_grease = FALSE,
                                   !.lists[CompressCertificate] = <<>>]
    <3>1. CaptureOf(I) = CaptureTLSInfo(r)
      BY Zenon DEF CaptureOf, r
    <3> HIDE DEF tls
    <3> QED BY <2>2, <2>3, <3>1, Zenon
  <2>5. tls.lists[CompressCertificate] = ContentOf(CompressCertificate)
    <3>1. parsed = Meaning(meant)
      BY Understood DEF Imitable
    <3>2. parsed.lists[CompressCertificate] = ContentOf(CompressCertificate)
      BY <3>1, ListsNamed DEF Meaning, ContentOf
    <3> QED BY <3>2, ListsNamed DEF CaptureTLSInfo
  <2>6. CompressCertificate \in DOMAIN tls.lists /\ "lists" \in DOMAIN tls
    BY ListsNamed DEF CaptureTLSInfo
  <2> DEFINE a == [tls EXCEPT !.enable_grease = FALSE]
             b == [tls EXCEPT !.enable_grease = FALSE, !.lists[CompressCertificate] = <<>>]
             c == tls.lists[CompressCertificate]
  <2>7. a.lists = tls.lists /\ b.lists = [tls.lists EXCEPT ![CompressCertificate] = <<>>]
    BY DEF CaptureTLSInfo
  <2>8. a = b <=> c = <<>>
    <3>1. ASSUME a = b PROVE c = <<>>
      <4> HIDE DEF a, b, tls
      <4> QED BY <2>6, <2>7, <3>1
    <3>2. ASSUME c = <<>> PROVE a = b
      <4>1. [tls.lists EXCEPT ![CompressCertificate] = <<>>] = tls.lists
        <5>1. tls.lists = [t \in DOMAIN tls.lists |-> tls.lists[t]]
          BY DEF CaptureTLSInfo
        <5> HIDE DEF tls
        <5> QED BY <3>2, <5>1
      <4>2. b = [[tls EXCEPT !.enable_grease = FALSE] EXCEPT
                   !.lists = [tls.lists EXCEPT ![CompressCertificate] = <<>>]]
        BY DEF CaptureTLSInfo
      <4>3. [a EXCEPT !.lists = tls.lists] = a
        <5>1. a = [x \in DOMAIN a |-> a[x]] /\ a.lists = tls.lists
          BY <2>7 DEF CaptureTLSInfo
        <5> HIDE DEF a, tls
        <5> QED BY <5>1
      <4> HIDE DEF a, b, tls
      <4> QED BY <4>1, <4>2, <4>3 DEF a
    <3> QED BY <3>1, <3>2
  <2> HIDE DEF tls, I
  <2> QED BY <2>4, <2>5, <2>8
<1> QED
  BY <1>1, ArrivedAlways, PTL

===============================================================================
