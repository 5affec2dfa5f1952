----------------------------- MODULE MCClientHello -----------------------------
(* Clients for ClientHello and PeetWs: numbers at the edges of what the     *)
(* parser and the fingerprints tell apart, in every combination of lists.   *)
EXTENDS PeetWs, Sub2API

(* 0x0a0a and 0xfafa are GREASE, 0x0a1a and 0x0b0b are not.  Some lists are *)
(* others in a new order.                                                   *)
Suites == {<<>>, <<4866, 2570, 4865>>, <<4865, 4866, 2570>>, <<2586, 49195, 2586>>,
           [i \in 1 .. 101 |-> 4864 + i], [i \in 1 .. 101 |-> 4865 + ((7 * i) % 101)]}

Extension(t, c) == [type |-> t, content |-> c]
Entry(h, d) == [head |-> h, data |-> d]

Name == Extension(SNI, <<Entry(<<1>>, <<9>>), Entry(<<0>>, <<>>), Entry(<<0>>, <<97>>)>>)
NoName == Extension(SNI, <<Entry(<<0>>, <<>>)>>)
H2 == Extension(ALPN, <<Entry(<<>>, <<104, 50>>), Entry(<<>>, <<>>)>>)
Reserved == Extension(ALPN, <<Entry(<<>>, <<10, 10>>), Entry(<<>>, <<104, 50>>)>>)
Odd == Extension(ALPN, <<Entry(<<>>, <<171, 65>>)>>)
Lists == <<Extension(SignatureAlgorithms, <<1027, 64250>>), Extension(Groups, <<29, 2570>>),
           Extension(CompressCertificate, <<2>>), Extension(PointFormats, <<0>>)>>
Shares == Extension(KeyShare, <<Entry(<<10, 10>>, <<0>>), Entry(<<0, 29>>, <<7, 7>>)>>)
Versions == Extension(SupportedVersions, <<64250, 771, 772>>)
OnlyGREASE == Extension(SupportedVersions, <<2570>>)
Modes == Extension(PSKModes, <<1, 42>>)
Unknown == Extension(64250, <<1, 2, 3>>)
LookAlike == Extension(2827, <<>>)
Master == Extension(ExtendedMasterSecret, <<>>)

ExtensionLists ==
  {<<>>, <<Name>>, <<NoName, Odd>>, <<Unknown, Name, H2, LookAlike, Master>>,
   <<H2, Master, Unknown, LookAlike, Name>>,
   Lists, <<Lists[3], Lists[4], Lists[1], Lists[2]>>,
   <<Versions, Shares, Modes>>, <<Modes, Versions, Shares>>, <<OnlyGREASE, Unknown>>,
   <<Reserved, Extension(CompressCertificate, <<2570, 2>>), Versions>>,
   <<Versions, Name, Versions>>, <<Modes, H2, Odd>>,
   <<Shares>> \o Lists \o <<Modes, Extension(13, <<2052>>)>>}

AllHellos ==
  [version : {771}, session : {<<>>, <<5, 6>>}, suites : Suites,
   compression : {<<0>>}, extensions : ExtensionLists]
================================================================================
