----------------------------- MODULE AkamaiProofs -----------------------------
(***************************************************************************)
(* Machine-checked proof that the frames /api/all reads back out of the    *)
(* HTTP/2 fingerprint are those it was printed from, for any settings.     *)
(*                                                                         *)
(* The argument: Split cuts where the mark is, and nowhere else (SplitAt). *)
(* In the print of n settings there is a semicolon at each multiple of     *)
(* four and none between (SettingsCut), and neither they nor the increment *)
(* hold a bar, so that the first two bars enclose the increment, whatever  *)
(* follows them.                                                           *)
(***************************************************************************)
EXTENDS Akamai, FiniteSetTheorems, FunctionTheorems, SequenceTheorems, TLAPS

-------------------------------------------------------------------------------
(* Splitting *)

(* The first places of a set of cuts, in order, as f lists them.           *)
Lists(f, n, ends) ==
  /\ f \in [0 .. n -> Nat]
  /\ \A i, j \in 0 .. n : i < j => f[i] < f[j]
  /\ \A i \in 0 .. n : f[i] \in ends
  /\ \A e \in ends : e <= f[n] => \E i \in 0 .. n : e = f[i]

LEMMA ListedCount ==
  ASSUME NEW n \in Nat, NEW f, NEW ends, ends \subseteq Nat, Lists(f, n, ends),
         NEW k \in 0 .. n + 1
  PROVE  Cardinality({f[i] : i \in 0 .. k - 1}) = k
<1> DEFINE first == {f[i] : i \in 0 .. k - 1}
           g == [i \in 0 .. k - 1 |-> f[i]]
<1>1. IsFiniteSet(0 .. k - 1) /\ Cardinality(0 .. k - 1) = k
  BY FS_Interval
<1>2. g \in [0 .. k - 1 -> first]
  OBVIOUS
<1>3. \A i, j \in 0 .. k - 1 : g[i] = g[j] => i = j
  <2> SUFFICES ASSUME NEW i \in 0 .. k - 1, NEW j \in 0 .. k - 1, i # j
               PROVE  f[i] # f[j]
    OBVIOUS
  <2>1. i \in 0 .. n /\ j \in 0 .. n /\ (i < j \/ j < i)
    OBVIOUS
  <2>2. f[i] \in Nat /\ f[j] \in Nat
    BY <2>1 DEF Lists
  <2> QED
    BY <2>1, <2>2 DEF Lists
<1>4. \A y \in first : \E i \in 0 .. k - 1 : g[i] = y
  OBVIOUS
<1>5. g \in Bijection(0 .. k - 1, first)
  BY <1>2, <1>3, <1>4 DEF Bijection, Injection, Surjection, IsInjective
<1>6. ExistsBijection(0 .. k - 1, first)
  BY <1>5 DEF ExistsBijection
<1> QED
  BY <1>1, <1>6, FS_Bijection

(* A listed place has as many before it as the list.                       *)
LEMMA ListedBelow ==
  ASSUME NEW n \in Nat, NEW f, NEW ends, ends \subseteq Nat, Lists(f, n, ends),
         NEW k \in 0 .. n
  PROVE  {e \in ends : e < f[k]} = {f[i] : i \in 0 .. k - 1}
<1>1. f[k] \in Nat /\ f[n] \in Nat /\ f[k] <= f[n]
  <2>1. k < n \/ k = n
    OBVIOUS
  <2> QED
    BY <2>1 DEF Lists
<1>2. ASSUME NEW e \in ends, e < f[k]
      PROVE  e \in {f[i] : i \in 0 .. k - 1}
  <2>1. e \in Nat /\ e <= f[n]
    BY <1>1, <1>2
  <2>2. PICK i \in 0 .. n : e = f[i]
    BY <2>1 DEF Lists
  <2>3. ~(k < i) /\ i # k
    BY <1>1, <1>2, <2>1, <2>2 DEF Lists
  <2> QED
    BY <2>2, <2>3
<1>3. ASSUME NEW i \in 0 .. k - 1
      PROVE  f[i] \in ends /\ f[i] < f[k]
  BY DEF Lists
<1> QED
  BY <1>2, <1>3

LEMMA NthEndIs ==
  ASSUME NEW tokens, NEW c, NEW n \in Nat, NEW f,
         Ends(tokens, c) \subseteq Nat, IsFiniteSet(Ends(tokens, c)),
         Lists(f, n, Ends(tokens, c)), NEW k \in 0 .. n
  PROVE  NthEnd(tokens, c, k) = f[k]
<1> DEFINE ends == Ends(tokens, c)
           Before(e) == {i \in ends : i < e}
<1>1. \A j \in 0 .. n + 1 : Cardinality({f[i] : i \in 0 .. j - 1}) = j
  BY ListedCount
<1>2. \A j \in 0 .. n : f[j] \in ends /\ Cardinality(Before(f[j])) = j
  <2> SUFFICES ASSUME NEW j \in 0 .. n PROVE f[j] \in ends /\ Cardinality(Before(f[j])) = j
    OBVIOUS
  <2>1. Before(f[j]) = {f[i] : i \in 0 .. j - 1}
    BY ListedBelow
  <2>2. j \in 0 .. n + 1 /\ f[j] \in ends
    BY DEF Lists
  <2> QED
    BY <1>1, <2>1, <2>2
<1>3. ASSUME NEW e \in ends, Cardinality(Before(e)) = k
      PROVE  e = f[k]
  <2>1. e \in Nat /\ f[n] \in Nat
    BY DEF Lists
  <2>2. CASE e <= f[n]
    <3>1. PICK j \in 0 .. n : e = f[j]
      BY <2>2 DEF Lists
    <3>2. Cardinality(Before(f[j])) = j
      BY <1>2
    <3> QED
      BY <1>3, <3>1, <3>2
  <2>3. CASE ~(e <= f[n])
    <3> DEFINE all == {f[i] : i \in 0 .. n}
    <3>1. \A i \in 0 .. n : f[i] \in ends /\ f[i] < e
      <4> SUFFICES ASSUME NEW i \in 0 .. n PROVE f[i] \in ends /\ f[i] < e
        OBVIOUS
      <4>1. f[i] \in ends /\ f[i] \in Nat /\ (i = n \/ f[i] < f[n])
        BY DEF Lists
      <4> QED
        BY <2>1, <2>3, <4>1
    <3>2. all \in SUBSET Before(e)
      BY <3>1
    <3>3. IsFiniteSet(Before(e)) /\ Cardinality(Before(e)) \in Nat
      <4>1. Before(e) \in SUBSET ends
        OBVIOUS
      <4> QED
        BY <4>1, FS_Subset, FS_CardinalityType
    <3>4. Cardinality(all) = n + 1
      <4>1. n + 1 \in 0 .. n + 1 /\ 0 .. (n + 1) - 1 = 0 .. n
        OBVIOUS
      <4> QED
        BY <1>1, <4>1
    <3>5. Cardinality(all) <= Cardinality(Before(e))
      BY <3>2, <3>3, FS_Subset
    <3> QED
      BY <1>3, <3>4, <3>5
  <2> QED
    BY <2>2, <2>3
<1> HIDE DEF Before
<1>4. NthEnd(tokens, c, k) = CHOOSE e \in ends : Cardinality(Before(e)) = k
  BY DEF NthEnd, Before
<1> QED
  BY <1>2, <1>3, <1>4

LEMMA EndsType ==
  ASSUME NEW T, NEW tokens \in Seq(T), NEW c
  PROVE  /\ Ends(tokens, c) \subseteq 0 .. Len(tokens) + 1
         /\ Ends(tokens, c) \subseteq Nat
         /\ IsFiniteSet(Ends(tokens, c))
<1>1. Len(tokens) \in Nat /\ DOMAIN tokens = 1 .. Len(tokens)
  OBVIOUS
<1>2. Ends(tokens, c) \subseteq 0 .. Len(tokens) + 1
  BY <1>1 DEF Ends
<1>3. IsFiniteSet(0 .. Len(tokens) + 1)
  BY <1>1, FS_Interval
<1> QED
  BY <1>1, <1>2, <1>3, FS_Subset

(* SplitAt: the parts of a text are what lies between its marks.           *)
LEMMA SplitAt ==
  ASSUME NEW T, NEW tokens \in Seq(T), NEW c, NEW n \in Nat, NEW f,
         Lists(f, n, Ends(tokens, c))
  PROVE  /\ \A k \in 1 .. n :
              /\ k \in DOMAIN Split(tokens, c)
              /\ Split(tokens, c)[k] = SubSeq(tokens, f[k - 1] + 1, f[k] - 1)
         /\ f[n] = Len(tokens) + 1 => DOMAIN Split(tokens, c) = 1 .. n
<1> DEFINE ends == Ends(tokens, c)
           all == {f[i] : i \in 0 .. n}
<1>1. ends \subseteq 0 .. Len(tokens) + 1 /\ ends \subseteq Nat /\ IsFiniteSet(ends)
  BY EndsType
<1>2. Cardinality(all) = n + 1
  <2>1. n + 1 \in 0 .. n + 1 /\ 0 .. (n + 1) - 1 = 0 .. n
    OBVIOUS
  <2> QED
    BY <1>1, <2>1, ListedCount
<1>3. Cardinality(ends) \in Nat /\ Cardinality(ends) >= n + 1
  <2>1. all \in SUBSET ends
    BY DEF Lists
  <2>2. Cardinality(all) <= Cardinality(ends)
    BY <1>1, <2>1, FS_Subset
  <2> QED
    BY <1>1, <1>2, <2>2, FS_CardinalityType
<1>4. \A k \in 0 .. n : NthEnd(tokens, c, k) = f[k]
  BY <1>1, NthEndIs
<1>5. DOMAIN Split(tokens, c) = 1 .. Cardinality(ends) - 1
  BY DEF Split
<1>6. ASSUME NEW k \in 1 .. n
      PROVE  /\ k \in DOMAIN Split(tokens, c)
             /\ Split(tokens, c)[k] = SubSeq(tokens, f[k - 1] + 1, f[k] - 1)
  <2>1. k \in 1 .. Cardinality(ends) - 1
    BY <1>3
  <2>2. k - 1 \in 0 .. n /\ k \in 0 .. n
    OBVIOUS
  <2>3. /\ Split(tokens, c)[k]
             = SubSeq(tokens, NthEnd(tokens, c, k - 1) + 1, NthEnd(tokens, c, k) - 1)
    BY <2>1 DEF Split
  <2> QED
    BY <1>4, <1>5, <2>1, <2>2, <2>3
<1>7. ASSUME f[n] = Len(tokens) + 1
      PROVE  Cardinality(ends) = n + 1
  <2>1. ASSUME NEW e \in ends
        PROVE  e \in all
    <3>1. e <= f[n]
      BY <1>1, <1>7
    <3> QED
      BY <3>1 DEF Lists
  <2>2. \A i \in 0 .. n : f[i] \in ends
    BY DEF Lists
  <2>3. ends = all
    BY <2>1, <2>2
  <2> QED
    BY <1>2, <2>3
<1> QED
  BY <1>5, <1>6, <1>7

-------------------------------------------------------------------------------
(* Tokens *)

Token == {Decimal(n) : n \in Nat} \cup {Mark(c) : c \in {":", ";", "|", ",", "00"}}

LEMMA DecimalToken == \A n \in Nat : Decimal(n) \in Token
BY DEF Token

LEMMA TokensDiffer ==
  /\ \A n, c : Decimal(n) # Mark(c)
  /\ \A c, d : Mark(c) = Mark(d) => c = d
BY DEF Decimal, Mark

LEMMA NumberRead ==
  ASSUME NEW n
  PROVE  mustAtoi(<<Decimal(n)>>) = n
BY DEF Decimal, mustAtoi

LEMMA OneOf ==
  ASSUME NEW T, NEW s \in Seq(T), NEW i \in 1 .. Len(s)
  PROVE  SubSeq(s, i, i) = <<s[i]>>
<1>1. s[i] \in T /\ i \in Int /\ \A j \in i .. i : s[j] \in T
  OBVIOUS
<1>2. PICK part : part = SubSeq(s, i, i)
  OBVIOUS
<1>3. part \in Seq(T) /\ Len(part) = 1 /\ part[1] = s[i]
  <2>1. /\ part \in Seq(T)
        /\ Len(part) = IF i <= i THEN i - i + 1 ELSE 0
        /\ \A j \in 1 .. i - i + 1 : part[j] = s[i + j - 1]
    BY <1>1, <1>2, SubSeqProperties
  <2> QED
    BY <1>1, <2>1
<1>4. PICK x \in T : x = s[i]
  BY <1>1
<1>5. <<x>> \in Seq(T) /\ Len(<<x>>) = 1 /\ <<x>>[1] = x
  OBVIOUS
<1>6. part = <<x>>
  BY <1>3, <1>4, <1>5, SeqEqual
<1> QED
  BY <1>2, <1>4, <1>6

LEMMA ThreeOf ==
  ASSUME NEW T, NEW s \in Seq(T), Len(s) = 3
  PROVE  s = <<s[1], s[2], s[3]>>
<1>1. PICK x \in T, y \in T, z \in T : x = s[1] /\ y = s[2] /\ z = s[3]
  OBVIOUS
<1>2. PICK t : t = <<x, y, z>>
  OBVIOUS
<1>3. t \in Seq(T) /\ Len(t) = 3 /\ t[1] = x /\ t[2] = y /\ t[3] = z
  BY <1>2
<1>4. s = t
  <2>1. \A i \in 1 .. Len(s) : s[i] = t[i]
    BY <1>1, <1>3
  <2> QED
    BY <1>3, <2>1, SeqEqual
<1> QED
  BY <1>1, <1>2, <1>4

(* The print of one setting.                                               *)
Setting(a, b) == <<Decimal(a), Mark(":"), Decimal(b)>>

LEMMA SettingRead ==
  ASSUME NEW a \in Nat, NEW b \in Nat
  PROVE  LET pair == Split(Setting(a, b), ":")
         IN  mustAtoi(pair[1]) = a /\ mustAtoi(pair[2]) = b
<1> DEFINE text == Setting(a, b)
<1>1. PICK f : f = [i \in 0 .. 2 |-> 2 * i]
  OBVIOUS
<1>2. PICK x, y, colon : x = Decimal(a) /\ y = Decimal(b) /\ colon = Mark(":")
  OBVIOUS
<1>3. x \in Token /\ y \in Token /\ colon \in Token
  BY <1>2 DEF Token
<1>4. text = <<x, colon, y>>
  BY <1>2 DEF Setting
<1>5. text \in Seq(Token) /\ Len(text) = 3 /\ DOMAIN text = 1 .. 3
  BY <1>3, <1>4
<1>6. x # colon /\ y # colon
  BY <1>2, TokensDiffer
<1>7. Ends(text, ":") = {0, 2, 4}
  <2>1. {i \in DOMAIN text : text[i] = colon} = {2}
    BY <1>4, <1>5, <1>6
  <2> QED
    BY <1>2, <1>5, <2>1 DEF Ends
<1>8. Lists(f, 2, Ends(text, ":"))
  <2>1. f \in [0 .. 2 -> Nat] /\ f[0] = 0 /\ f[1] = 2 /\ f[2] = 4
    BY <1>1
  <2>2. 0 .. 2 = {0, 1, 2}
    OBVIOUS
  <2> QED
    BY <1>7, <2>1, <2>2 DEF Lists
<1>9. \A k \in 1 .. 2 : Split(text, ":")[k] = SubSeq(text, f[k - 1] + 1, f[k] - 1)
  BY <1>5, <1>8, SplitAt
<1>10. Split(text, ":")[1] = SubSeq(text, 1, 1) /\ Split(text, ":")[2] = SubSeq(text, 3, 3)
  BY <1>1, <1>9
<1>11. SubSeq(text, 1, 1) = <<x>> /\ SubSeq(text, 3, 3) = <<y>>
  <2>1. text[1] = x /\ text[3] = y
    BY <1>4
  <2> HIDE DEF text
  <2> QED
    BY <1>5, <2>1, OneOf
<1> QED
  BY <1>2, <1>10, <1>11, NumberRead

-------------------------------------------------------------------------------
(* The print of settings *)

(* Id and value of a setting.                                              *)
Values == Nat \X Nat

Colon == Mark(":")
Semicolon == Mark(";")
Bar == Mark("|")

(* Four tokens for each setting, the last of them a semicolon, but none    *)
(* after the last setting.                                                 *)
IsPrint(text, settings, n) ==
  /\ text \in Seq(Token) /\ Len(text) = 4 * n - 1
  /\ \A k \in 1 .. n : /\ text[4 * k - 3] = Decimal(settings[k][1])
                      /\ text[4 * k - 2] = Colon
                      /\ text[4 * k - 1] = Decimal(settings[k][2])
  /\ \A k \in 1 .. n - 1 : text[4 * k] = Semicolon

LEMMA SettingsPrint ==
  ASSUME NEW settings \in Seq(Values), settings # <<>>
  PROVE  IsPrint(formatSettings(settings), settings, Len(settings))
<1>1. PICK n, text : n = Len(settings) /\ text = formatSettings(settings)
  OBVIOUS
<1>2. n \in Nat /\ n >= 1 /\ DOMAIN settings = 1 .. n
  BY <1>1
<1>3. \A k \in 1 .. n : settings[k][1] \in Nat /\ settings[k][2] \in Nat
  <2> SUFFICES ASSUME NEW k \in 1 .. n
               PROVE  settings[k][1] \in Nat /\ settings[k][2] \in Nat
    OBVIOUS
  <2>1. settings[k] \in Values
    BY <1>2
  <2> QED
    BY <2>1 DEF Values
<1> DEFINE part(k) == Setting(settings[k][1], settings[k][2])
           parts == [k \in 1 .. n |-> part(k)]
<1>4. parts # <<>> /\ Len(parts) = n
  <2>1. parts \in Seq(UNION {{part(k)} : k \in 1 .. n}) /\ DOMAIN parts = 1 .. n
    BY <1>2
  <2>2. Len(parts) = n
    BY <1>2, <2>1
  <2> QED
    BY <1>2, <2>2
<1>5. text = Joined(parts, 3, ";")
  BY <1>1, <1>2 DEF formatSettings, Setting, Colon
<1>6. text = [j \in 1 .. 4 * n - 1 |->
               IF j % 4 = 0 THEN Semicolon ELSE parts[j \div 4 + 1][j % 4]]
  <2>1. 3 + 1 = 4
    OBVIOUS
  <2> HIDE DEF parts
  <2> QED
    BY <1>4, <1>5, <2>1 DEF Joined, Semicolon
<1>7. ASSUME NEW k \in 1 .. n
      PROVE  /\ text[4 * k - 3] = Decimal(settings[k][1])
             /\ text[4 * k - 2] = Colon
             /\ text[4 * k - 1] = Decimal(settings[k][2])
  <2>1. \A r \in 1 .. 3 : text[4 * k - 4 + r] = part(k)[r]
    <3> SUFFICES ASSUME NEW r \in 1 .. 3 PROVE text[4 * k - 4 + r] = part(k)[r]
      OBVIOUS
    <3> DEFINE j == 4 * k - 4 + r
    <3>1. j \in 1 .. 4 * n - 1 /\ j % 4 = r /\ j \div 4 + 1 = k
      BY <1>2
    <3>2. parts[k] = part(k)
      OBVIOUS
    <3> HIDE DEF j, parts, part
    <3>3. text[j] = parts[k][r]
      BY <1>6, <3>1
    <3> QED
      BY <3>2, <3>3 DEF j
  <2>2. /\ part(k)[1] = Decimal(settings[k][1]) /\ part(k)[2] = Colon
        /\ part(k)[3] = Decimal(settings[k][2])
    BY DEF Setting, Colon
  <2>3. 4 * k - 4 + 1 = 4 * k - 3 /\ 4 * k - 4 + 2 = 4 * k - 2 /\ 4 * k - 4 + 3 = 4 * k - 1
    BY <1>2
  <2> HIDE DEF part
  <2> QED
    BY <2>1, <2>2, <2>3
<1>8. ASSUME NEW k \in 1 .. n - 1
      PROVE  text[4 * k] = Semicolon
  <2>1. 4 * k \in 1 .. 4 * n - 1 /\ (4 * k) % 4 = 0
    BY <1>2
  <2> HIDE DEF parts
  <2> QED
    BY <1>6, <2>1
<1>9. ASSUME NEW j \in 1 .. 4 * n - 1
      PROVE  text[j] \in Token
  <2>1. CASE j % 4 = 0
    <3>1. text[j] = Semicolon
      <4> HIDE DEF parts
      <4> QED
        BY <1>6, <2>1
    <3> QED
      BY <3>1 DEF Token, Colon, Semicolon
  <2>2. CASE j % 4 # 0
    <3> DEFINE k == j \div 4 + 1
    <3>1. k \in 1 .. n /\ (j = 4 * k - 3 \/ j = 4 * k - 2 \/ j = 4 * k - 1)
      BY <1>2, <2>2
    <3> HIDE DEF k
    <3>2. settings[k][1] \in Nat /\ settings[k][2] \in Nat
      BY <1>3, <3>1
    <3>3. text[j] \in {Decimal(settings[k][1]), Colon, Decimal(settings[k][2])}
      BY <1>7, <3>1
    <3> QED
      BY <3>2, <3>3 DEF Token, Colon, Semicolon
  <2> QED
    BY <2>1, <2>2
<1>10. text \in Seq(Token) /\ Len(text) = 4 * n - 1
  <2>1. 4 * n - 1 \in Nat /\ DOMAIN text = 1 .. 4 * n - 1
    BY <1>2, <1>6
  <2>2. text = [j \in 1 .. 4 * n - 1 |-> text[j]]
    BY <1>6
  <2> QED
    BY <1>9, <2>1, <2>2
<1>11. IsPrint(text, settings, n)
  BY <1>7, <1>8, <1>10 DEF IsPrint
<1> QED
  BY <1>1, <1>11

(* SettingsRead: cut at its semicolons, it is the settings again.          *)
LEMMA SettingsRead ==
  ASSUME NEW settings \in Seq(Values), settings # <<>>
  PROVE  LET parts == Split(formatSettings(settings), ";")
         IN  /\ DOMAIN parts = DOMAIN settings
             /\ \A k \in DOMAIN settings :
                  parts[k] = Setting(settings[k][1], settings[k][2])
<1>1. PICK n, text : n = Len(settings) /\ text = formatSettings(settings)
  OBVIOUS
<1>2. PICK c : c = ";"
  OBVIOUS
<1>3. PICK ends : ends = Ends(text, c)
  OBVIOUS
<1>4. /\ n \in Nat /\ n >= 1
      /\ text \in Seq(Token) /\ Len(text) = 4 * n - 1
      /\ \A k \in 1 .. n : /\ text[4 * k - 3] = Decimal(settings[k][1])
                          /\ text[4 * k - 2] = Colon
                          /\ text[4 * k - 1] = Decimal(settings[k][2])
      /\ \A k \in 1 .. n - 1 : text[4 * k] = Semicolon
  <2>1. IsPrint(text, settings, n)
    BY <1>1, SettingsPrint
  <2>2. n \in Nat /\ n >= 1
    BY <1>1
  <2> QED
    BY <2>1, <2>2 DEF IsPrint
<1>5. /\ DOMAIN settings = 1 .. n /\ DOMAIN text = 1 .. 4 * n - 1
      /\ ends = {0, 4 * n} \cup {i \in 1 .. 4 * n - 1 : text[i] = Semicolon}
  <2>1. DOMAIN settings = 1 .. n /\ DOMAIN text = 1 .. 4 * n - 1 /\ Len(text) + 1 = 4 * n
    BY <1>1, <1>4
  <2>2. ends = {0, Len(text) + 1} \cup {i \in DOMAIN text : text[i] = Semicolon}
    BY <1>2, <1>3, Zenon DEF Ends, Semicolon
  <2> QED
    BY <2>1, <2>2
<1>6. PICK f : f = [i \in 0 .. n |-> 4 * i]
  OBVIOUS
<1>7. \A i \in 0 .. n : f[i] = 4 * i
  BY <1>6
<1>8. Lists(f, n, ends)
  <2>1. f \in [0 .. n -> Nat] /\ \A i, j \in 0 .. n : i < j => f[i] < f[j]
    <3>1. \A i \in 0 .. n : i \in Int /\ 4 * i \in Nat
      BY <1>4
    <3>2. f \in [0 .. n -> Nat]
      BY <1>6, <3>1, Zenon
    <3>3. \A i, j \in Int : i < j => 4 * i < 4 * j
      OBVIOUS
    <3>4. \A i, j \in 0 .. n : i < j => f[i] < f[j]
      BY <1>7, <3>1, <3>3, Zenon
    <3> QED
      BY <3>2, <3>4
  <2>2. ASSUME NEW i \in 0 .. n
        PROVE  f[i] \in ends
    <3>1. i = 0 \/ i = n \/ i \in 1 .. n - 1
      BY <1>4
    <3>2. CASE i = 0
      BY <1>5, <1>7, <3>2
    <3>3. CASE i = n
      BY <1>5, <1>7, <3>3
    <3>4. CASE i \in 1 .. n - 1
      <4>1. f[i] = 4 * i
        BY <1>7
      <4>2. 4 * i \in 1 .. 4 * n - 1
        BY <1>4, <3>4
      <4>3. text[4 * i] = Semicolon
        BY <1>4, <3>4, Zenon
      <4> QED
        BY <1>5, <4>1, <4>2, <4>3
    <3> QED
      BY <3>1, <3>2, <3>3, <3>4
  <2>3. ASSUME NEW e \in ends
        PROVE  \E i \in 0 .. n : e = f[i]
    <3>1. CASE e = 0
      BY <1>4, <1>7, <3>1
    <3>2. CASE e = 4 * n
      <4>1. n \in 0 .. n /\ f[n] = 4 * n
        BY <1>4, <1>7
      <4> QED
        BY <3>2, <4>1
    <3>3. CASE e \in 1 .. 4 * n - 1 /\ text[e] = Semicolon
      <4> DEFINE k == e \div 4 + 1
      <4>1. /\ k \in 1 .. n
            /\ e = 4 * (k - 1) \/ e = 4 * k - 3 \/ e = 4 * k - 2 \/ e = 4 * k - 1
        BY <1>4, <3>3
      <4> HIDE DEF k
      <4>2. /\ Semicolon # Colon
            /\ Decimal(settings[k][1]) # Semicolon /\ Decimal(settings[k][2]) # Semicolon
        BY TokensDiffer DEF Semicolon, Colon
      <4>3. e = 4 * (k - 1)
        BY <1>4, <3>3, <4>1, <4>2
      <4>4. k - 1 \in 0 .. n
        BY <1>4, <4>1
      <4> QED
        BY <1>7, <4>3, <4>4
    <3> QED
      BY <1>5, <3>1, <3>2, <3>3
  <2> QED
    BY <2>1, <2>2, <2>3 DEF Lists
<1>9. /\ \A k \in 1 .. n : Split(text, c)[k] = SubSeq(text, f[k - 1] + 1, f[k] - 1)
      /\ DOMAIN Split(text, c) = 1 .. n
  <2>1. f[n] = Len(text) + 1
    BY <1>4, <1>7
  <2>2. text \in Seq(Token) /\ n \in Nat /\ Lists(f, n, Ends(text, c))
    BY <1>3, <1>4, <1>8, Zenon
  <2> QED
    BY <2>1, <2>2, SplitAt
<1>10. ASSUME NEW k \in 1 .. n
      PROVE  Split(text, c)[k] = Setting(settings[k][1], settings[k][2])
  <2>1. PICK a, b : a = settings[k][1] /\ b = settings[k][2]
    OBVIOUS
  <2>2. PICK part : part = SubSeq(text, 4 * k - 3, 4 * k - 1)
    OBVIOUS
  <2>3. Split(text, c)[k] = part
    <3>1. f[k - 1] + 1 = 4 * k - 3 /\ f[k] - 1 = 4 * k - 1
      BY <1>4, <1>7
    <3> QED
      BY <1>9, <2>2, <3>1
  <2>4. /\ part \in Seq(Token) /\ Len(part) = 3
        /\ \A i \in 1 .. 3 : part[i] = text[4 * k - 4 + i]
    <3>1. /\ 4 * k - 3 \in Int /\ 4 * k - 1 \in Int
          /\ \A i \in 4 * k - 3 .. 4 * k - 1 : text[i] \in Token
      BY <1>4
    <3>2. /\ part \in Seq(Token)
          /\ Len(part) = IF 4 * k - 3 <= 4 * k - 1 THEN (4 * k - 1) - (4 * k - 3) + 1 ELSE 0
          /\ \A i \in 1 .. (4 * k - 1) - (4 * k - 3) + 1 : part[i] = text[(4 * k - 3) + i - 1]
      BY <2>2, <3>1, SubSeqProperties
    <3> QED
      BY <1>4, <3>2
  <2>5. part[1] = Decimal(a) /\ part[2] = Colon /\ part[3] = Decimal(b)
    <3>1. 4 * k - 4 + 1 = 4 * k - 3 /\ 4 * k - 4 + 2 = 4 * k - 2 /\ 4 * k - 4 + 3 = 4 * k - 1
      BY <1>4
    <3> QED
      BY <1>4, <2>1, <2>4, <3>1
  <2>6. part = Setting(a, b)
    BY <2>4, <2>5, ThreeOf DEF Setting, Colon
  <2> QED
    BY <2>1, <2>3, <2>6
<1> QED
  BY <1>1, <1>5, <1>9, <1>10, <1>2, Zenon

(* A bar is not among its tokens.                                          *)
LEMMA SettingsNoBar ==
  ASSUME NEW settings \in Seq(Values), NEW text, text = formatSettings(settings)
  PROVE  text \in Seq(Token) /\ \A j \in DOMAIN text : text[j] # Bar
<1>1. CASE settings = <<>>
  <2>1. text = <<>>
    BY <1>1 DEF formatSettings, Joined
  <2> QED
    BY <2>1
<1>2. CASE settings # <<>>
  <2>1. PICK n : n = Len(settings)
    OBVIOUS
  <2>2. IsPrint(text, settings, n)
    BY <1>2, <2>1, SettingsPrint
  <2>3. n \in Nat /\ DOMAIN text = 1 .. 4 * n - 1 /\ text \in Seq(Token)
    BY <2>1, <2>2 DEF IsPrint
  <2>4. ASSUME NEW j \in 1 .. 4 * n - 1
        PROVE  text[j] # Bar
    <3> DEFINE k == j \div 4 + 1
    <3>1. /\ k \in 1 .. n
          /\ \/ j = 4 * (k - 1) /\ k - 1 \in 1 .. n - 1
             \/ j = 4 * k - 3 \/ j = 4 * k - 2 \/ j = 4 * k - 1
      BY <2>3
    <3> HIDE DEF k
    <3>2. /\ Semicolon # Bar /\ Colon # Bar
          /\ Decimal(settings[k][1]) # Bar /\ Decimal(settings[k][2]) # Bar
      BY TokensDiffer DEF Semicolon, Colon, Bar
    <3> QED
      BY <2>2, <3>1, <3>2 DEF IsPrint
  <2> QED
    BY <2>3, <2>4
<1> QED
  BY <1>1, <1>2

-------------------------------------------------------------------------------
(* The whole print *)

LEMMA Ones ==
  ASSUME NEW T, NEW s \in Seq(T)
  PROVE  [i \in DOMAIN s |-> <<s[i]>>] \in Seq([1 .. 1 -> T])
<1>1. PICK n \in Nat : DOMAIN s = 1 .. n
  OBVIOUS
<1>2. ASSUME NEW i \in 1 .. n
      PROVE  <<s[i]>> \in [1 .. 1 -> T]
  <2>1. s[i] \in T
    BY <1>1
  <2> QED
    BY <2>1
<1>3. [i \in 1 .. n |-> <<s[i]>>] \in [1 .. n -> [1 .. 1 -> T]]
  BY <1>2
<1> QED
  BY <1>1, <1>3

(* The parts of a list that are one token each.                            *)
LEMMA JoinedOnes ==
  ASSUME NEW T, NEW n \in Nat, NEW parts, parts \in Seq([1 .. 1 -> T]), NEW c,
         NEW mark \in T, mark = Mark(c)
  PROVE  Joined(parts, 1, c) \in Seq(T)
<1>1. CASE parts = <<>>
  BY <1>1 DEF Joined
<1>2. CASE parts # <<>>
  <2>1. PICK m : m = Len(parts) /\ m \in Nat /\ DOMAIN parts = 1 .. m
    OBVIOUS
  <2>2. Joined(parts, 1, c) = [k \in 1 .. 2 * m - 1 |->
          IF k % 2 = 0 THEN mark ELSE parts[k \div 2 + 1][k % 2]]
    <3>1. 1 + 1 = 2
      OBVIOUS
    <3> QED
      BY <1>2, <2>1, <3>1, Zenon DEF Joined
  <2>3. ASSUME NEW k \in 1 .. 2 * m - 1
        PROVE  (IF k % 2 = 0 THEN mark ELSE parts[k \div 2 + 1][k % 2]) \in T
    <3>1. CASE k % 2 = 0
      BY <3>1
    <3>2. CASE k % 2 # 0
      <4>1. k % 2 = 1 /\ k \div 2 + 1 \in 1 .. m
        BY <2>1, <3>2
      <4>2. parts[k \div 2 + 1] \in [1 .. 1 -> T]
        BY <2>1, <4>1
      <4> QED
        BY <3>2, <4>1, <4>2
    <3> QED
      BY <3>1, <3>2
  <2>4. 2 * m - 1 \in Nat
    BY <1>2, <2>1
  <2> QED
    BY <2>2, <2>3, <2>4
<1> QED
  BY <1>1, <1>2

LEMMA Concatenated ==
  ASSUME NEW T, NEW s \in Seq(T), NEW t \in Seq(T)
  PROVE  /\ s \o t \in Seq(T) /\ Len(s) \in Nat /\ Len(t) \in Nat
         /\ Len(s \o t) = Len(s) + Len(t)
         /\ \A i \in 1 .. Len(s) : (s \o t)[i] = s[i]
         /\ \A i \in 1 .. Len(t) : (s \o t)[Len(s) + i] = t[i]
<1>1. /\ s \o t \in Seq(T) /\ Len(s \o t) = Len(s) + Len(t)
      /\ \A i \in 1 .. Len(s) + Len(t) :
           (s \o t)[i] = IF i <= Len(s) THEN s[i] ELSE t[i - Len(s)]
  BY ConcatProperties
<1>2. Len(s) \in Nat /\ Len(t) \in Nat
  OBVIOUS
<1> QED
  BY <1>1, <1>2

(* A text that begins with x, a bar, u and a bar.                          *)
Fenced(text, x, u, bar) ==
  /\ Len(text) >= Len(x) + 3
  /\ \A i \in 1 .. Len(x) : text[i] = x[i]
  /\ text[Len(x) + 1] = bar /\ text[Len(x) + 2] = u /\ text[Len(x) + 3] = bar

Free(x, bar) == \A i \in 1 .. Len(x) : x[i] # bar

(* FirstParts: the first two parts of a text with two bars are what stands *)
(* before and between them, whatever follows.                              *)
LEMMA FirstParts ==
  ASSUME NEW T, NEW x \in Seq(T), NEW u \in T, NEW bar \in T, NEW text \in Seq(T),
         NEW c, bar = Mark(c), u # bar, Free(x, bar), Fenced(text, x, u, bar)
  PROVE  Split(text, c)[1] = x /\ Split(text, c)[2] = <<u>>
<1>1. PICK n : n = Len(x)
  OBVIOUS
<1>2. /\ n \in Nat /\ DOMAIN x = 1 .. n
      /\ DOMAIN text = 1 .. Len(text) /\ Len(text) \in Nat
  BY <1>1
<1>3. /\ Len(text) >= n + 3
      /\ \A i \in 1 .. n : text[i] = x[i] /\ x[i] # bar
      /\ text[n + 1] = bar /\ text[n + 2] = u /\ text[n + 3] = bar
  BY <1>1 DEF Fenced, Free
<1>4. /\ n \in Nat /\ DOMAIN x = 1 .. n
      /\ DOMAIN text = 1 .. Len(text) /\ Len(text) \in Nat
      /\ Len(text) >= n + 3
      /\ \A i \in 1 .. n : text[i] = x[i] /\ x[i] # bar
      /\ text[n + 1] = bar /\ text[n + 2] = u /\ text[n + 3] = bar
  BY <1>2, <1>3
<1>5. PICK ends : ends = Ends(text, c)
  OBVIOUS
<1>6. ends = {0, Len(text) + 1} \cup {i \in 1 .. Len(text) : text[i] = bar}
  BY <1>4, <1>5 DEF Ends
<1>7. PICK f : f = [i \in 0 .. 2 |-> IF i = 0 THEN 0 ELSE IF i = 1 THEN n + 1 ELSE n + 3]
  OBVIOUS
<1>8. f[0] = 0 /\ f[1] = n + 1 /\ f[2] = n + 3 /\ 0 .. 2 = {0, 1, 2}
  BY <1>7
<1>9. Lists(f, 2, ends)
  <2>1. f \in [0 .. 2 -> Nat] /\ \A i, j \in 0 .. 2 : i < j => f[i] < f[j]
    BY <1>4, <1>7
  <2>2. \A i \in 0 .. 2 : f[i] \in ends
    BY <1>4, <1>6, <1>8
  <2>3. ASSUME NEW e \in ends, e <= f[2]
        PROVE  \E i \in 0 .. 2 : e = f[i]
    <3>1. e = 0 \/ (e \in 1 .. n + 3 /\ text[e] = bar)
      <4>1. e <= n + 3
        BY <1>8, <2>3
      <4>2. e = 0 \/ e = Len(text) + 1 \/ (e \in 1 .. Len(text) /\ text[e] = bar)
        BY <1>6
      <4> QED
        BY <1>4, <4>1, <4>2
    <3>2. ~(e \in 1 .. n) \/ text[e] # bar
      BY <1>4
    <3>3. e = 0 \/ e = n + 1 \/ e = n + 3
      BY <1>4, <3>1, <3>2
    <3> QED
      BY <1>8, <3>3
  <2> QED
    BY <2>1, <2>2, <2>3 DEF Lists
<1>10. \A k \in 1 .. 2 : Split(text, c)[k] = SubSeq(text, f[k - 1] + 1, f[k] - 1)
  BY <1>5, <1>9, SplitAt
<1>11. /\ Split(text, c)[1] = SubSeq(text, 1, n)
      /\ Split(text, c)[2] = SubSeq(text, n + 2, n + 2)
  <2>1. /\ f[1 - 1] + 1 = 1 /\ f[1] - 1 = n
        /\ f[2 - 1] + 1 = n + 2 /\ f[2] - 1 = n + 2
    BY <1>4, <1>7
  <2>2. 1 \in 1 .. 2 /\ 2 \in 1 .. 2
    OBVIOUS
  <2>3. /\ Split(text, c)[1] = SubSeq(text, f[1 - 1] + 1, f[1] - 1)
        /\ Split(text, c)[2] = SubSeq(text, f[2 - 1] + 1, f[2] - 1)
    BY <1>10, <2>2, Zenon
  <2> QED
    BY <2>1, <2>3, Zenon
<1>12. SubSeq(text, 1, n) = x
  <2>1. PICK part : part = SubSeq(text, 1, n)
    OBVIOUS
  <2>2. /\ part \in Seq(T)
        /\ Len(part) = IF 1 <= n THEN n - 1 + 1 ELSE 0
        /\ \A i \in 1 .. n - 1 + 1 : part[i] = text[1 + i - 1]
    <3>1. 1 \in Int /\ n \in Int /\ \A i \in 1 .. n : text[i] \in T
      BY <1>4
    <3> QED
      BY <2>1, <3>1, SubSeqProperties
  <2>3. Len(part) = n /\ \A i \in 1 .. n : part[i] = x[i]
    BY <1>4, <2>2
  <2>4. part = x
    BY <1>1, <2>2, <2>3, SeqEqual
  <2> QED
    BY <2>1, <2>4
<1>13. SubSeq(text, n + 2, n + 2) = <<u>>
  <2>1. n + 2 \in 1 .. Len(text)
    BY <1>4
  <2> QED
    BY <1>4, <2>1, OneOf
<1> QED
  BY <1>11, <1>12, <1>13

(* A sequence t that continues one of length n with v, or with anything.   *)
Grown(T, s, n, t, v) ==
  /\ t \in Seq(T) /\ Len(t) = n + 1
  /\ \A i \in 1 .. n : t[i] = s[i]
  /\ t[n + 1] = v
Begins(T, s, n, t) ==
  /\ t \in Seq(T) /\ Len(t) >= n
  /\ \A i \in 1 .. n : t[i] = s[i]

LEMMA ConcatOne ==
  ASSUME NEW T, NEW s \in Seq(T), NEW n \in Nat, Len(s) = n, NEW v \in T
  PROVE  Grown(T, s, n, s \o <<v>>, v)
<1>1. PICK q : q = Append(s, v)
  OBVIOUS
<1>2. Grown(T, s, n, q, v)
  BY <1>1 DEF Grown
<1>3. q = s \o <<v>>
  BY <1>1, AppendIsConcat, Zenon
<1> QED
  BY <1>2, <1>3, Zenon

LEMMA ConcatHead ==
  ASSUME NEW T, NEW s \in Seq(T), NEW t \in Seq(T), NEW n \in Nat, Len(s) >= n
  PROVE  Begins(T, s, n, s \o t)
<1>1. PICK q : q = s \o t
  OBVIOUS
<1>2. /\ q \in Seq(T) /\ Len(q) = Len(s) + Len(t)
      /\ \A i \in 1 .. Len(s) : q[i] = s[i]
  BY <1>1, Concatenated
<1>3. Begins(T, s, n, q)
  BY <1>2 DEF Begins
<1> QED
  BY <1>1, <1>3, Zenon

(* What stands at the head of a text.                                      *)
Text(x, bar, u, y, z) == x \o <<bar>> \o <<u>> \o <<bar>> \o y \o <<bar>> \o z

LEMMA Behind ==
  ASSUME NEW T, NEW x \in Seq(T), NEW bar \in T, NEW u \in T,
         NEW y \in Seq(T), NEW z \in Seq(T),
         NEW text, text = Text(x, bar, u, y, z)
  PROVE  text \in Seq(T) /\ Fenced(text, x, u, bar)
<1>1. PICK s1 : s1 = x \o <<bar>>
  OBVIOUS
<1>2. PICK s2 : s2 = s1 \o <<u>>
  OBVIOUS
<1>3. PICK s3 : s3 = s2 \o <<bar>>
  OBVIOUS
<1>4. PICK s4 : s4 = s3 \o y
  OBVIOUS
<1>5. PICK s5 : s5 = s4 \o <<bar>>
  OBVIOUS
<1>6. text = s5 \o z
  BY <1>1, <1>2, <1>3, <1>4, <1>5, Zenon DEF Text
<1>7. PICK n \in Nat : n = Len(x)
  OBVIOUS
<1>8. PICK n1 \in Nat, n2 \in Nat, n3 \in Nat : n1 = n + 1 /\ n2 = n1 + 1 /\ n3 = n2 + 1
  OBVIOUS
<1>9. Grown(T, x, n, s1, bar)
  BY <1>1, <1>7, ConcatOne, Zenon
<1>10. Grown(T, s1, n1, s2, u)
  <2>1. s1 \in Seq(T) /\ Len(s1) = n1
    BY <1>8, <1>9, Zenon DEF Grown
  <2> QED
    BY <1>2, <2>1, ConcatOne, Zenon
<1>11. Grown(T, s2, n2, s3, bar)
  <2>1. s2 \in Seq(T) /\ Len(s2) = n2
    BY <1>8, <1>10, Zenon DEF Grown
  <2> QED
    BY <1>3, <2>1, ConcatOne, Zenon
<1>12. s3 \in Seq(T) /\ Len(s3) >= n3
  <2>1. s3 \in Seq(T) /\ Len(s3) = n3
    BY <1>8, <1>11, Zenon DEF Grown
  <2> QED
    BY <2>1
<1>13. Begins(T, s3, n3, s4)
  BY <1>4, <1>12, ConcatHead, Zenon
<1>14. Begins(T, s4, n3, s5)
  <2>1. s4 \in Seq(T) /\ Len(s4) >= n3
    BY <1>13, Zenon DEF Begins
  <2>2. <<bar>> \in Seq(T)
    OBVIOUS
  <2> QED
    BY <1>5, <2>1, <2>2, ConcatHead, Zenon
<1>15. Begins(T, s5, n3, text)
  <2>1. s5 \in Seq(T) /\ Len(s5) >= n3
    BY <1>14, Zenon DEF Begins
  <2> QED
    BY <1>6, <2>1, ConcatHead, Zenon
<1>16. \A i \in 1 .. n3 : text[i] = s3[i]
  BY <1>13, <1>14, <1>15, Zenon DEF Begins
<1>17. \A i \in 1 .. n : text[i] = x[i]
  <2> SUFFICES ASSUME NEW i \in 1 .. n PROVE text[i] = x[i]
    OBVIOUS
  <2>1. i \in 1 .. n1 /\ i \in 1 .. n2 /\ i \in 1 .. n3
    BY <1>8
  <2> QED
    BY <1>9, <1>10, <1>11, <1>16, <2>1, Zenon DEF Grown
<1>18. text[n1] = bar /\ text[n2] = u /\ text[n3] = bar
  <2>1. /\ n1 \in 1 .. n1 /\ n1 \in 1 .. n2 /\ n1 \in 1 .. n3
        /\ n2 \in 1 .. n2 /\ n2 \in 1 .. n3 /\ n3 \in 1 .. n3
    BY <1>8
  <2>2. s1[n1] = bar /\ s2[n2] = u /\ s3[n3] = bar
    BY <1>8, <1>9, <1>10, <1>11, Zenon DEF Grown
  <2>3. s2[n1] = s1[n1] /\ s3[n1] = s2[n1] /\ s3[n2] = s2[n2]
    BY <1>10, <1>11, <2>1, Zenon DEF Grown
  <2> QED
    BY <1>16, <2>1, <2>2, <2>3, Zenon
<1>19. n1 = Len(x) + 1 /\ n2 = Len(x) + 2 /\ n3 = Len(x) + 3
  BY <1>7, <1>8
<1>20. text \in Seq(T) /\ Len(text) >= n3
  BY <1>15, Zenon DEF Begins
<1> QED
  BY <1>7, <1>17, <1>18, <1>19, <1>20, Zenon DEF Fenced

(* What is printed of the increment.                                       *)
Increment(window) == IF window = 0 THEN Mark("00") ELSE Decimal(window)

(* The text between the bars, and that it is a text.                       *)
LEMMA PrintParts ==
  ASSUME NEW S, NEW tracker,
         tracker.settings \in Seq(Values), tracker.window \in Nat,
         tracker.priorities \in Seq(Nat), tracker.pseudo \in Seq(S)
  PROVE  /\ Split(Fingerprint(tracker), "|")[1] = formatSettings(tracker.settings)
         /\ Split(Fingerprint(tracker), "|")[2] = <<Increment(tracker.window)>>
<1> DEFINE T == Token \cup S
<1>1. PICK x, u, y, z : /\ x = formatSettings(tracker.settings)
                        /\ u = Increment(tracker.window)
                        /\ y = formatPriorities(tracker.priorities)
                        /\ z = Joined([i \in DOMAIN tracker.pseudo |-> <<tracker.pseudo[i]>>],
                                      1, ",")
  OBVIOUS
<1>2. PICK bar, c : bar = Bar /\ c = "|"
  OBVIOUS
<1>3. bar = Mark(c)
  BY <1>2 DEF Bar
<1>4. Fingerprint(tracker) = Text(x, bar, u, y, z)
  BY <1>1, <1>2, Zenon DEF Fingerprint, Increment, Bar, Text
<1>5. x \in Seq(T) /\ \A i \in 1 .. Len(x) : x[i] # bar
  <2>1. x \in Seq(Token) /\ \A i \in DOMAIN x : x[i] # bar
    BY <1>1, <1>2, SettingsNoBar
  <2> QED
    BY <2>1
<1>6. u \in T /\ bar \in T /\ u # bar
  <2>1. u \in Token /\ bar \in Token
    BY <1>1, <1>2 DEF Increment, Token, Bar
  <2>2. u # bar
    BY <1>1, <1>2, TokensDiffer, Zenon DEF Increment, Bar
  <2> QED
    BY <2>1, <2>2
<1>7. y \in Seq(T)
  <2>1. CASE tracker.priorities = <<>>
    <3>1. y = <<Decimal(0)>> /\ Decimal(0) \in T
      BY <1>1, <2>1 DEF formatPriorities, Token
    <3> QED
      BY <3>1
  <2>2. CASE tracker.priorities # <<>>
    <3> DEFINE parts == [i \in DOMAIN tracker.priorities |-> <<Decimal(tracker.priorities[i])>>]
    <3>1. parts \in Seq([1 .. 1 -> T])
      <4>1. \A i \in DOMAIN tracker.priorities :
              Decimal(tracker.priorities[i]) \in T
        BY DecimalToken
      <4>2. PICK s \in Seq(T) : s = [i \in DOMAIN tracker.priorities |->
                                     Decimal(tracker.priorities[i])]
        <5>1. PICK n \in Nat : DOMAIN tracker.priorities = 1 .. n
          OBVIOUS
        <5> HIDE DEF T
        <5>2. [i \in 1 .. n |-> Decimal(tracker.priorities[i])] \in [1 .. n -> T]
          BY <4>1, <5>1, Zenon
        <5>3. \A g \in [1 .. n -> T] : g \in Seq(T)
          OBVIOUS
        <5> QED
          BY <5>1, <5>2, <5>3, Zenon
      <4>3. parts = [i \in DOMAIN s |-> <<s[i]>>]
        BY <4>2
      <4> HIDE DEF T, parts
      <4> QED
        BY <4>3, Ones
    <3>2. PICK d, comma : d = "," /\ comma = Mark(d)
      OBVIOUS
    <3>3. comma \in T
      BY <3>2 DEF Token
    <3>4. y = Joined(parts, 1, d)
      BY <1>1, <2>2, <3>2, Zenon DEF formatPriorities
    <3> HIDE DEF parts, T
    <3> QED
      BY <3>1, <3>2, <3>3, <3>4, JoinedOnes
  <2> QED
    BY <2>1, <2>2
<1>8. z \in Seq(T)
  <2> DEFINE parts == [i \in DOMAIN tracker.pseudo |-> <<tracker.pseudo[i]>>]
  <2>1. parts \in Seq([1 .. 1 -> T])
    <3>1. S \subseteq T
      OBVIOUS
    <3>2. tracker.pseudo \in Seq(T)
      BY <3>1, SeqMonotonic, Zenon
    <3> HIDE DEF T
    <3> QED
      BY <3>2, Ones
  <2>2. PICK d, comma : d = "," /\ comma = Mark(d)
    OBVIOUS
  <2>3. comma \in T
    BY <2>2 DEF Token
  <2>4. z = Joined(parts, 1, d)
    BY <1>1, <2>2, Zenon
  <2> HIDE DEF parts, T
  <2> QED
    BY <2>1, <2>2, <2>3, <2>4, JoinedOnes
<1> HIDE DEF T
<1>9. PICK text : text = Text(x, bar, u, y, z)
  OBVIOUS
<1>10. text \in Seq(T) /\ Fenced(text, x, u, bar)
  BY <1>5, <1>6, <1>7, <1>8, <1>9, Behind, Zenon
<1>11. Split(text, c)[1] = x /\ Split(text, c)[2] = <<u>>
  <2>1. Free(x, bar) /\ Fenced(text, x, u, bar)
    BY <1>5, <1>10 DEF Free
  <2> QED
    BY <1>3, <1>5, <1>6, <1>10, <2>1, FirstParts
<1> QED
  BY <1>1, <1>2, <1>4, <1>9, <1>11, Zenon

(* PrintReadBack: the settings and the increment /api/all reads back out   *)
(* of the fingerprint are those it was printed from, for any settings,     *)
(* none included (common.go:58-93, service.go:551-572, 618-624).           *)
THEOREM PrintReadBack ==
  ASSUME NEW S, NEW tracker,
         tracker.settings \in Seq(Nat \X Nat), tracker.window \in Nat,
         tracker.priorities \in Seq(Nat), tracker.pseudo \in Seq(S)
  PROVE  LET parsed == parseAkamaiFingerprint(Fingerprint(tracker))
         IN  /\ parsed.settings = tracker.settings
             /\ WindowUpdateSent(parsed.increment) <=> tracker.window # 0
             /\ tracker.window # 0 => mustAtoi(parsed.increment) = tracker.window
<1>1. PICK settings, window : settings = tracker.settings /\ window = tracker.window
  OBVIOUS
<1>2. settings \in Seq(Values) /\ tracker.settings \in Seq(Values)
  BY <1>1 DEF Values
<1>3. PICK parts, print : print = Fingerprint(tracker) /\ parts = Split(print, "|")
  OBVIOUS
<1>4. parts[1] = formatSettings(settings) /\ parts[2] = <<Increment(window)>>
  BY <1>1, <1>2, <1>3, PrintParts
<1>5. PICK list : list = Split(parts[1], ";")
  OBVIOUS
<1> DEFINE Read(i) == LET pair == Split(list[i], ":")
                      IN  <<mustAtoi(pair[1]), mustAtoi(pair[2])>>
           parsed == parseAkamaiFingerprint(print)
<1>6. parsed = [settings |-> IF parts[1] = <<>> THEN <<>> ELSE [i \in DOMAIN list |-> Read(i)],
                increment |-> parts[2]]
  BY <1>3, <1>5, Zenon DEF parseAkamaiFingerprint
<1>7. parsed.settings = settings
  <2>1. CASE settings = <<>>
    <3>1. formatSettings(settings) = <<>>
      BY <2>1 DEF formatSettings, Joined
    <3> QED
      BY <1>4, <1>6, <2>1, <3>1
  <2>2. CASE settings # <<>>
    <3>1. parts[1] # <<>>
      <4>1. IsPrint(parts[1], settings, Len(settings))
        BY <1>2, <1>4, <2>2, SettingsPrint
      <4>2. Len(settings) \in Nat /\ Len(settings) >= 1
        BY <1>2, <2>2
      <4> QED
        BY <4>1, <4>2 DEF IsPrint
    <3>2. /\ DOMAIN list = DOMAIN settings
          /\ \A k \in DOMAIN settings : list[k] = Setting(settings[k][1], settings[k][2])
      BY <1>2, <1>4, <1>5, <2>2, SettingsRead
    <3>3. ASSUME NEW k \in DOMAIN settings
          PROVE  Read(k) = settings[k]
      <4>1. settings[k] \in Values
        BY <1>2
      <4>2. PICK a \in Nat, b \in Nat : settings[k] = <<a, b>>
        BY <4>1 DEF Values
      <4>3. list[k] = Setting(a, b)
        BY <3>2, <4>2
      <4>4. mustAtoi(Split(list[k], ":")[1]) = a /\ mustAtoi(Split(list[k], ":")[2]) = b
        BY <4>3, SettingRead
      <4> QED
        BY <4>2, <4>4
    <3> HIDE DEF Read
    <3>4. settings = [i \in DOMAIN settings |-> settings[i]]
      BY <1>2
    <3>5. [i \in DOMAIN list |-> Read(i)] = settings
      BY <3>2, <3>3, <3>4
    <3> QED
      BY <1>6, <3>1, <3>5
  <2> QED
    BY <2>1, <2>2
<1>8. parsed.increment = <<Increment(window)>>
  <2> HIDE DEF Read
  <2> QED
    BY <1>4, <1>6
<1>9. /\ WindowUpdateSent(<<Increment(window)>>) <=> window # 0
      /\ window # 0 => mustAtoi(<<Increment(window)>>) = window
  <2>1. CASE window = 0
    BY <2>1 DEF WindowUpdateSent, Increment
  <2>2. CASE window # 0
    <3>1. Increment(window) = Decimal(window) /\ Decimal(window) # Mark("00")
      BY <2>2, TokensDiffer DEF Increment
    <3>2. <<Decimal(window)>> # <<Mark("00")>>
      BY <3>1
    <3> QED
      BY <2>2, <3>1, <3>2, NumberRead DEF WindowUpdateSent
  <2> QED
    BY <2>1, <2>2
<1> HIDE DEF parsed
<1>10. /\ parsed.settings = tracker.settings
       /\ WindowUpdateSent(parsed.increment) <=> tracker.window # 0
       /\ tracker.window # 0 => mustAtoi(parsed.increment) = tracker.window
  BY <1>1, <1>7, <1>8, <1>9
<1> QED
  BY <1>3, <1>10, Zenon DEF parsed
===============================================================================
