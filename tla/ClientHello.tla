------------------------------ MODULE ClientHello ------------------------------
(***************************************************************************)
(* pkg/tlsfp/parser.go and grease.go: what ParseClientHello makes of the   *)
(* bytes of a ClientHello, and the JA3 and JA4 fingerprints of the result. *)
(*                                                                         *)
(* Bytes are numbers, messages are sequences of them, cut and indexed as   *)
(* in the code, so that an index out of range is an error of the model as  *)
(* it is a panic of the program.  A fingerprint is the tuple of its parts: *)
(* how a part is printed and hashed is left out, except that a missing one *)
(* is told apart, and a sorted list is the bag of its values.              *)
(***************************************************************************)
EXTENDS Integers, Sequences, FiniteSets, SequencesExt

CONSTANT Hellos  \* what clients mean to say: see Encode

VARIABLES
  meant,   \* the ClientHello a client means to send
  garbled, \* which of its extensions is garbled on the way, 0 if none
  bytes,   \* the message that arrives
  parsed   \* what ParseClientHello returns

vars == <<meant, garbled, bytes, parsed>>

-------------------------------------------------------------------------------
(* Parsing *)

(* The elements of s that are in S.  (SelectSeq, as a recursive function.) *)
Only(s, S) ==
  LET kept[i \in 0 .. Len(s)] ==
        IF i = 0 THEN <<>>
        ELSE IF s[i] \in S THEN Append(kept[i - 1], s[i]) ELSE kept[i - 1]
  IN  kept[Len(s)]

(* Big-endian numbers of one or two bytes.                                 *)
Number(b) == IF Len(b) = 1 THEN b[1] ELSE 256 * b[1] + b[2]
Pairs(b) == [i \in 1 .. Len(b) \div 2 |-> Number(SubSeq(b, 2 * i - 1, 2 * i))]

(* Mutant of Entries: an entry that is cut short is taken for a short one. *)
Overrun == [overrun |-> TRUE]
Entries_Truncates(b, h, w) ==
  LET walk[o \in 0 .. Len(b)] ==
        IF o + h > Len(b) THEN <<>>
        ELSE LET n == Number(SubSeq(b, o + h - w + 1, o + h))
                 end == IF o + h + n > Len(b) THEN Len(b) ELSE o + h + n
             IN  <<[head |-> SubSeq(b, o + 1, o + h - w), data |-> SubSeq(b, o + h + 1, end)]>>
                   \o walk[end]
  IN  walk[0]

(* Entries with a header of h bytes, of which the last w are the length of *)
(* the data that follows.  Fewer than h bytes at the end are ignored.      *)
Entries(b, h, w) ==
  LET walk[o \in 0 .. Len(b)] ==
        IF o + h > Len(b) THEN <<>>
        ELSE LET n == Number(SubSeq(b, o + h - w + 1, o + h))
             IN  IF o + h + n > Len(b) THEN <<Overrun>>
                 ELSE <<[head |-> SubSeq(b, o + 1, o + h - w),
                         data |-> SubSeq(b, o + h + 1, o + h + n)]>>
                        \o walk[o + h + n]
  IN  walk[0]
Fit(entries) == \A i \in DOMAIN entries : entries[i] # Overrun

(* The extensions parseExtension looks into, by the form of their list.    *)
SNI == 0
Groups == 10
PointFormats == 11
SignatureAlgorithms == 13
ALPN == 16
CompressCertificate == 27
SupportedVersions == 43
PSKModes == 45
KeyShare == 51
Wide == {Groups, SignatureAlgorithms, CompressCertificate, SupportedVersions}
Narrow == {PointFormats, PSKModes}
Nested == {SNI, ALPN, KeyShare}
LengthWidth(t) ==
  IF t \in {PointFormats, CompressCertificate, SupportedVersions, PSKModes}
  THEN 1 ELSE 2
HeaderWidth(t) == IF t = SNI THEN 3 ELSE IF t = ALPN THEN 1 ELSE 4
EntryWidth(t) == IF t = ALPN THEN 1 ELSE 2

(* The list in an extension's payload, and how long it says it is.         *)
ListLength(t, p) == Number(SubSeq(p, 1, LengthWidth(t)))
ListOf(t, p) == SubSeq(p, LengthWidth(t) + 1, LengthWidth(t) + ListLength(t, p))
NestedIn(t, p) == Entries(ListOf(t, p), HeaderWidth(t), EntryWidth(t))

(* A payload too short for a length is as good as none.                    *)
PayloadOk(t, p) ==
  t \in Wide \cup Narrow \cup Nested /\ Len(p) >= LengthWidth(t) =>
    /\ LengthWidth(t) + ListLength(t, p) <= Len(p)
    /\ t \in Wide => ListLength(t, p) % 2 = 0
    /\ t \in Nested => Fit(NestedIn(t, p))

ValuesIn(t, p) ==
  IF Len(p) < LengthWidth(t) THEN <<>>
  ELSE IF t \in Wide THEN Pairs(ListOf(t, p))
  ELSE IF t \in Narrow THEN ListOf(t, p)
  ELSE NestedIn(t, p)

(* Where the parts of a message begin and end.                             *)
SuitesAt(m) == 35 + m[35]
SuitesLength(m) == Number(SubSeq(m, SuitesAt(m) + 1, SuitesAt(m) + 2))
SuitesEnd(m) == SuitesAt(m) + 2 + SuitesLength(m)
HasCompression(m) == SuitesEnd(m) < Len(m)
CompressionEnd(m) == SuitesEnd(m) + 1 + m[SuitesEnd(m) + 1]

(* Mutant of HasExtensions: too few bytes for a length count as none.      *)
HasExtensions_Lenient(m) == HasCompression(m) /\ CompressionEnd(m) + 2 <= Len(m)

HasExtensions(m) == HasCompression(m) /\ CompressionEnd(m) < Len(m)
ExtensionsEnd(m) ==
  CompressionEnd(m) + 2
    + Number(SubSeq(m, CompressionEnd(m) + 1, CompressionEnd(m) + 2))
ExtensionsIn(m) ==
  IF HasExtensions(m)
  THEN Entries(SubSeq(m, CompressionEnd(m) + 3, ExtensionsEnd(m)), 4, 2) ELSE <<>>
TypeOf(e) == Number(e.head)

WellFormed(m) ==
  /\ Len(m) >= 35
  /\ SuitesAt(m) + 2 <= Len(m)
  /\ SuitesEnd(m) <= Len(m) /\ SuitesLength(m) % 2 = 0
  /\ HasCompression(m) => CompressionEnd(m) <= Len(m)
  /\ HasExtensions(m) =>
       /\ CompressionEnd(m) + 2 <= Len(m)
       /\ ExtensionsEnd(m) <= Len(m)
       /\ Fit(ExtensionsIn(m))
       /\ \A i \in DOMAIN ExtensionsIn(m) :
            PayloadOk(TypeOf(ExtensionsIn(m)[i]), ExtensionsIn(m)[i].data)

(* Mutant of Collect: an extension that comes again replaces the first.    *)
Collect_Replaces(extensions, t) ==
  LET own == Only(extensions, {e \in ToSet(extensions) : TypeOf(e) = t})
  IN  IF own = <<>> THEN <<>> ELSE ValuesIn(t, Last(own).data)

(* The values of all extensions of one type, in order.                     *)
Collect(extensions, t) ==
  LET own == Only(extensions, {e \in ToSet(extensions) : TypeOf(e) = t})
  IN  FlattenSeq([i \in DOMAIN own |-> ValuesIn(t, own[i].data)])

(* The first host name that is not empty.                                  *)
ServerName(names) ==
  LET hosts == Only(names, {e \in ToSet(names) : e.head = <<0>> /\ e.data # <<>>})
  IN  IF hosts = <<>> THEN <<>> ELSE hosts[1].data

Refused == [ok |-> FALSE]
ParseClientHello(m) ==
  IF ~WellFormed(m) THEN Refused
  ELSE LET x == ExtensionsIn(m)
       IN  [ok |-> TRUE,
            version |-> Number(SubSeq(m, 1, 2)),
            suites |-> Pairs(SubSeq(m, SuitesAt(m) + 3, SuitesEnd(m))),
            extensions |-> [i \in DOMAIN x |-> TypeOf(x[i])],
            raw |-> [i \in DOMAIN x |-> x[i].data],
            name |-> ServerName(Collect(x, SNI)),
            protocols |-> LET p == Collect(x, ALPN) IN [i \in DOMAIN p |-> p[i].data],
            shares |-> LET s == Collect(x, KeyShare)
                       IN  [i \in DOMAIN s |-> [group |-> TypeOf(s[i]), key |-> s[i].data]],
            lists |-> [t \in Wide \cup Narrow |-> Collect(x, t)]]

-------------------------------------------------------------------------------
(* GREASE and the fingerprints *)

IsGREASE16(v) == v % 16 = 10 /\ v \div 256 = v % 256
IsGREASE8(v) == v \in {11, 42, 73, 104, 135, 166, 197, 228}

WithoutGREASE(s) == Only(s, {v \in ToSet(s) : ~IsGREASE16(v)})
WithoutGREASE8(s) == Only(s, {v \in ToSet(s) : ~IsGREASE8(v)})

ShareGroups(h) == [i \in DOMAIN h.shares |-> h.shares[i].group]

(* The flag is set wherever a value is appended, except for certificate    *)
(* compression algorithms.                                                 *)
EnableGREASE(h) ==
  \/ \E s \in {h.suites, h.extensions, ShareGroups(h), h.lists[Groups],
               h.lists[SignatureAlgorithms], h.lists[SupportedVersions]} :
       \E i \in DOMAIN s : IsGREASE16(s[i])
  \/ \E i \in DOMAIN h.lists[PSKModes] : IsGREASE8(h.lists[PSKModes][i])

JA3(h) ==
  <<h.version, WithoutGREASE(h.suites), WithoutGREASE(h.extensions),
    WithoutGREASE(h.lists[Groups]), h.lists[PointFormats]>>

(* Mutant of EffectiveVersion: GREASE counts as a version.                 *)
EffectiveVersion_GREASE(h) ==
  LET versions == ToSet(h.lists[SupportedVersions])
  IN  IF versions = {} THEN h.version
      ELSE CHOOSE v \in versions : \A u \in versions : u <= v

EffectiveVersion(h) ==
  LET versions == ToSet(WithoutGREASE(h.lists[SupportedVersions]))
  IN  IF versions = {} THEN h.version
      ELSE CHOOSE v \in versions : \A u \in versions : u <= v

(* Versions that ja4VersionCode names; the others are all "00".            *)
Named == {772, 771, 770, 769, 768, 2, 65279, 65277, 65276}
VersionCode(v) == IF v \in Named THEN v ELSE 0

IsASCIIAlnum(c) == c \in 48 .. 57 \cup 65 .. 90 \cup 97 .. 122
Lower(c) == IF c \in 65 .. 90 THEN c + 32 ELSE c
HexDigit(d) == IF d < 10 THEN 48 + d ELSE 87 + d

(* First and last character of the first protocol, or of its hex digits.   *)
ALPNCode(protocols) ==
  IF protocols = <<>> \/ protocols[1] = <<>> THEN <<48, 48>>
  ELSE LET first == protocols[1][1]
           last == protocols[1][Len(protocols[1])]
       IN  IF IsASCIIAlnum(first) /\ IsASCIIAlnum(last)
           THEN <<Lower(first), Lower(last)>>
           ELSE <<HexDigit(first \div 16), HexDigit(last % 16)>>

(* How often v comes in s.                                                 *)
Times(s, v) == Cardinality({i \in DOMAIN s : s[i] = v})

(* Mutant of Sorted: the list as it is.                                    *)
Sorted_AsIs(s) == s

Sorted(s) == [v \in ToSet(s) |-> Times(s, v)]

TwoDigits(n) == IF n > 99 THEN 99 ELSE n

(* JA4R and, with its lists hashed, JA4.  Without extensions to list, the  *)
(* signature algorithms are not listed either.                             *)
JA4(h) ==
  LET suites == WithoutGREASE(h.suites)
      extensions == WithoutGREASE(h.extensions)
      listed == Only(extensions, ToSet(extensions) \ {SNI, ALPN})
  IN  <<VersionCode(EffectiveVersion(h)), h.name # <<>>,
        TwoDigits(Len(suites)), TwoDigits(Len(extensions)), ALPNCode(h.protocols),
        Sorted(suites), Sorted(listed),
        IF listed = <<>> THEN <<>> ELSE WithoutGREASE(h.lists[SignatureAlgorithms])>>

(* What a capture keeps of a ClientHello.                                  *)
CaptureTLSInfo(h) ==
  [ja3 |-> JA3(h), ja4 |-> JA4(h), enable_grease |-> EnableGREASE(h),
   suites |-> WithoutGREASE(h.suites), extensions |-> WithoutGREASE(h.extensions),
   protocols |-> h.protocols, shares |-> WithoutGREASE(ShareGroups(h)),
   lists |-> [t \in Wide \cup Narrow |->
     IF t \in {PointFormats, CompressCertificate} THEN h.lists[t]
     ELSE IF t = PSKModes THEN WithoutGREASE8(h.lists[t])
     ELSE WithoutGREASE(h.lists[t])]]

-------------------------------------------------------------------------------
(* What a client means, and how it says it (RFC 8446, 4.1.2).  A meant     *)
(* hello has the fields ParseClientHello reports, besides session,         *)
(* compression and, for each extension in order, its type and content: a   *)
(* list of numbers, a list of entries, or bytes nobody looks into.         *)

Bytes2(n) == <<n \div 256, n % 256>>
BytesN(n, w) == IF w = 1 THEN <<n>> ELSE Bytes2(n)
Prefixed(b, w) == BytesN(Len(b), w) \o b
Flat(s, Op(_)) == FlattenSeq([i \in DOMAIN s |-> Op(s[i])])

EncodeEntry(t, e) == e.head \o Prefixed(e.data, EntryWidth(t))
EncodeList(t, c) ==
  IF t \in Wide THEN Flat(c, Bytes2)
  ELSE IF t \in Narrow THEN c
  ELSE Flat(c, LAMBDA e : EncodeEntry(t, e))
EncodeContent(t, c) ==
  IF t \in Wide \cup Narrow \cup Nested
  THEN Prefixed(EncodeList(t, c), LengthWidth(t)) ELSE c

EncodeExtension(e) == Bytes2(e.type) \o Prefixed(EncodeContent(e.type, e.content), 2)

(* The message of h around the bytes of its extensions.                    *)
Around(h, extensions) ==
  Bytes2(h.version) \o [i \in 1 .. 32 |-> 0] \o Prefixed(h.session, 1)
    \o Prefixed(Flat(h.suites, Bytes2), 2) \o Prefixed(h.compression, 1)
    \o Prefixed(extensions, 2)
Encode(h) == Around(h, Flat(h.extensions, EncodeExtension))

(* Payloads of e that lost their end, or whose list says it has another    *)
(* length than it has, between other lengths that are right.               *)
GarbledPayloads(e) ==
  LET p == EncodeContent(e.type, e.content)
      list == EncodeList(e.type, e.content)
  IN  {SubSeq(p, 1, n) : n \in 0 .. Len(p)}
        \cup IF e.type \in Wide \cup Narrow \cup Nested
             THEN {BytesN(n, LengthWidth(e.type)) \o list : n \in 0 .. Len(list) + 1}
             ELSE {}
Garble(h, i, p) ==
  LET pieces == [j \in DOMAIN h.extensions |->
                   LET e == h.extensions[j]
                   IN  IF j = i THEN Bytes2(e.type) \o Prefixed(p, 2) ELSE EncodeExtension(e)]
  IN  Around(h, FlattenSeq(pieces))

(* What can be said at all: numbers that fit their bytes, and lists whose  *)
(* lengths do.                                                             *)
Byte == 0 .. 255
TwoBytes == {n \in Nat : n < 65536}
Short(b, w) == Len(b) < IF w = 1 THEN 256 ELSE 65536

Contents(t) ==
  IF t \in Wide THEN Seq(TwoBytes)
  ELSE IF t \in Nested
  THEN Seq([head : [1 .. HeaderWidth(t) - EntryWidth(t) -> Byte], data : Seq(Byte)])
  ELSE Seq(Byte)

SayableExtension(e) ==
  /\ e \in [type : TwoBytes, content : Contents(e.type)]
  /\ e.type \in Wide \cup Narrow \cup Nested =>
       Short(EncodeList(e.type, e.content), LengthWidth(e.type))
  /\ e.type \in Nested =>
       \A i \in DOMAIN e.content : Short(e.content[i].data, EntryWidth(e.type))
  /\ Short(EncodeContent(e.type, e.content), 2)

Sayable(h) ==
  /\ h \in [version : TwoBytes, session : Seq(Byte), suites : Seq(TwoBytes),
            compression : Seq(Byte), extensions : Seq(ToSet(h.extensions))]
  /\ \A i \in DOMAIN h.extensions : SayableExtension(h.extensions[i])
  /\ Short(h.session, 1) /\ Short(Flat(h.suites, Bytes2), 2)
  /\ Short(h.compression, 1) /\ Short(Flat(h.extensions, EncodeExtension), 2)

ASSUME HellosAssumption == \A h \in Hellos : Sayable(h)

-------------------------------------------------------------------------------
Unparsed == [ok |-> FALSE, unparsed |-> TRUE]

Init ==
  /\ meant \in Hellos
  /\ \/ /\ garbled = 0
        /\ LET m == Encode(meant)
           IN  \E n \in 0 .. Len(m) : bytes = SubSeq(m, 1, n)
     \/ \E i \in DOMAIN meant.extensions :
          /\ garbled = i
          /\ \E p \in GarbledPayloads(meant.extensions[i]) : bytes = Garble(meant, i, p)
  /\ parsed = Unparsed

Parse ==
  /\ parsed = Unparsed
  /\ parsed' = ParseClientHello(bytes)
  /\ UNCHANGED <<meant, garbled, bytes>>

Next == Parse
Spec == Init /\ [][Next]_vars

-------------------------------------------------------------------------------
(* Properties *)

Whole == bytes = Encode(meant)
ContentIn(h, t) ==
  LET own == Only(h.extensions, {e \in ToSet(h.extensions) : e.type = t})
  IN  FlattenSeq([i \in DOMAIN own |-> own[i].content])
ContentOf(t) == ContentIn(meant, t)
Hosts == {c.data : c \in {d \in ToSet(ContentOf(SNI)) : d.head = <<0>>}} \ {<<>>}

(* ParsesWhatWasMeant: a whole message is accepted and every list the      *)
(* fingerprints use is the one the client encoded, over extensions that    *)
(* come twice, that are empty or that nobody knows (parser.go:46-325).     *)
ParsesWhatWasMeant ==
  parsed # Unparsed /\ Whole =>
    /\ parsed.ok
    /\ parsed.version = meant.version /\ parsed.suites = meant.suites
    /\ parsed.extensions = [i \in DOMAIN meant.extensions |-> meant.extensions[i].type]
    /\ \A t \in Wide \cup Narrow : parsed.lists[t] = ContentOf(t)
    /\ parsed.protocols = LET c == ContentOf(ALPN) IN [i \in DOMAIN c |-> c[i].data]
    /\ parsed.shares = LET c == ContentOf(KeyShare) 
                       IN  [i \in DOMAIN c |-> [group |-> Number(c[i].head), key |-> c[i].data]]
    /\ IF Hosts = {} THEN parsed.name = <<>> ELSE parsed.name \in Hosts

(* CutMessagesRefused: a message that lost its end is refused, unless the  *)
(* cut falls on the end of the cipher suites or of the compression         *)
(* methods, where older clients stop as well (parser.go:81-93).            *)
CutMessagesRefused ==
  LET m == Encode(meant)
      suitesEnd == 37 + Len(meant.session) + 2 * Len(meant.suites)
  IN  parsed # Unparsed /\ garbled = 0 /\ parsed.ok =>
        Len(bytes) \in {Len(m), suitesEnd, suitesEnd + 1 + Len(meant.compression)}

(* GarbledListsShortened: a list that lost its end, or whose length is     *)
(* wrong, is refused or taken for the beginning of the list that was       *)
(* meant, up to a whole element: no byte beside the list is read into it,  *)
(* no part of an element passes for one, and nothing else of the hello     *)
(* changes, but for the bytes of that extension (parser.go:131-325).       *)
GarbledListsShortened ==
  LET Shortened(k) == [meant EXCEPT !.extensions[garbled].content = SubSeq(@, 1, k)]
      Understood(h) == [h EXCEPT !.raw = <<>>]
  IN  parsed # Unparsed /\ garbled # 0 /\ parsed.ok =>
        \E k \in 0 .. Len(meant.extensions[garbled].content) :
          Understood(parsed) = Understood(ParseClientHello(Encode(Shortened(k))))

(* The sixteen numbers and the eight PSK modes that RFC 8701 reserves, and *)
(* a hello without those the code filters: the names of protocols and the  *)
(* certificate compression algorithms stay as they are.                    *)
ReservedValues == {2570 + 4112 * i : i \in 0 .. 15}
ReservedModes == {11 + 31 * i : i \in 0 .. 7}
PlainContent(t, c) ==
  IF t \in Wide \ {CompressCertificate} THEN Only(c, ToSet(c) \ ReservedValues)
  ELSE IF t = PSKModes THEN Only(c, ToSet(c) \ ReservedModes)
  ELSE IF t = KeyShare
  THEN Only(c, {e \in ToSet(c) : Number(e.head) \notin ReservedValues})
  ELSE c
Plain(h) ==
  LET extensions == Only(h.extensions,
                         {e \in ToSet(h.extensions) : e.type \notin ReservedValues})
  IN  [h EXCEPT !.suites = Only(@, ToSet(@) \ ReservedValues),
                !.extensions = [i \in DOMAIN extensions |->
                  [extensions[i] EXCEPT !.content = PlainContent(extensions[i].type, @)]]]

(* GREASEFiltered: a client that adds reserved values to its cipher        *)
(* suites, extension types, groups, signature algorithms, versions, key    *)
(* shares or PSK modes gets the capture it gets without them, JA3 and JA4  *)
(* included, but for the flag that tells that it added some.  Reserved     *)
(* names of protocols and certificate compression algorithms are captured  *)
(* as they were sent, raise no flag, and the first name counts in the JA4  *)
(* (parser.go:326-398, 423-437, 508-580; grease.go:3-14).                  *)
GREASEFiltered ==
  LET tls == CaptureTLSInfo(parsed)
      names == ContentOf(ALPN)
  IN  parsed # Unparsed /\ Whole =>
        /\ tls = [CaptureTLSInfo(ParseClientHello(Encode(Plain(meant)))) EXCEPT
                    !.enable_grease = Plain(meant) # meant]
        /\ tls.protocols = [i \in DOMAIN names |-> names[i].data]
        /\ tls.ja4[5] = ALPNCode(tls.protocols)
        /\ tls.lists[CompressCertificate] = ContentOf(CompressCertificate)

(* s is t in one order or another.                                         *)
Shuffled(s, t) == \A v \in ToSet(s) \cup ToSet(t) : Times(s, v) = Times(t, v)

(* JA4IgnoresOrder: a client that shuffles its cipher suites and its       *)
(* extensions, as browsers do, keeps its JA4, as long as no extension      *)
(* comes twice (parser.go:464-506).                                        *)
JA4IgnoresOrder ==
  parsed # Unparsed /\ Whole /\ IsInjective(parsed.extensions) =>
    \A h \in Hellos :
      h.version = meant.version /\ Shuffled(h.suites, meant.suites)
          /\ Shuffled(h.extensions, meant.extensions) =>
        JA4(ParseClientHello(Encode(h))) = JA4(parsed)
===============================================================================
