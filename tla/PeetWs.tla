-------------------------------- MODULE PeetWs --------------------------------
(***************************************************************************)
(* pkg/api/peetws/service.go: what the replies of /api/all, /api/tls and   *)
(* /api/clean say about the ClientHello of the connection they go out on.  *)
(* (What they say about HTTP/2 is in Akamai.)                              *)
(*                                                                         *)
(* A value stands for the name or the hex digits it is printed as: the     *)
(* tables of names never give two values of one list the same name.        *)
(***************************************************************************)
EXTENDS ClientHello

ExtendedMasterSecret == 23

(* legacyVersion, negotiatedVersion: GREASE counts in the second.          *)
LegacyVersion(h) == h.version
NegotiatedVersion(h) ==
  LET offered == {h.version} \cup ToSet(h.lists[SupportedVersions])
  IN  CHOOSE v \in offered : \A u \in offered : u <= v

(* peetALPN: "h2" and "http/1.1" are printed as "2" and "1.1".             *)
PeetALPN(protocol) ==
  IF protocol = <<104, 50>> THEN <<50>>
  ELSE IF protocol = <<104, 116, 116, 112, 47, 49, 46, 49>> THEN <<49, 46, 49>>
  ELSE protocol

(* Mutant of PeetExtensions: they are not sorted.                          *)
PeetExtensions_AsIs(h) == h.extensions

PeetExtensions(h) == Sorted(h.extensions)

(* buildPeetprint: only the extensions are sorted, and nothing is filtered.*)
Peetprint(h) ==
  <<NegotiatedVersion(h), LegacyVersion(h),
    [i \in DOMAIN h.protocols |-> PeetALPN(h.protocols[i])], h.lists[Groups],
    h.lists[SignatureAlgorithms], h.lists[PSKModes], h.lists[CompressCertificate],
    h.suites, PeetExtensions(h)>>

(* Mutant of ShownList: the lists are those of the capture, without GREASE.*)
ShownList_Filtered(h, t) == WithoutGREASE(h.lists[t])

ShownList(h, t) == h.lists[t]

(* extensionPayloads: what is shown of an extension is not its own payload *)
(* but what the hello has collected from all extensions of its type, if    *)
(* the parser looks into it.                                               *)
Shown(h, t, raw) ==
  CASE t = SNI -> h.name
    [] t = ALPN -> h.protocols
    [] t = KeyShare -> h.shares
    [] t = ExtendedMasterSecret -> <<>>
    [] t \in (Wide \cup Narrow) \ {CompressCertificate} -> ShownList(h, t)
    [] OTHER -> raw

(* buildTLSResponse, besides the JA3, JA4 and cipher suites of the capture.*)
TLSResponse(h) ==
  [extensions |-> [i \in DOMAIN h.extensions |->
                     [name |-> h.extensions[i], shows |-> Shown(h, h.extensions[i], h.raw[i])]],
   record |-> LegacyVersion(h),
   negotiated |-> NegotiatedVersion(h),
   peetprint |-> Peetprint(h)]

-------------------------------------------------------------------------------
(* Properties.  crypto/tls refuses a ClientHello in which an extension     *)
(* comes twice, or that offers neither TLS 1.2 nor 1.3, so that no reply   *)
(* says anything about it.                                                 *)

Offered ==
  IF \E i \in DOMAIN meant.extensions : meant.extensions[i].type = SupportedVersions
  THEN ToSet(ContentOf(SupportedVersions)) \ ReservedValues ELSE {meant.version}

Answerable ==
  /\ parsed # Unparsed /\ Whole
  /\ IsInjective(parsed.extensions)
  /\ Offered \cap {771, 772} # {}

(* What a client would recognise of an extension it sent.                  *)
Recognised(e) ==
  CASE e.type = ALPN -> {[i \in DOMAIN e.content |-> e.content[i].data]}
    [] e.type = KeyShare ->
         {[i \in DOMAIN e.content |->
             [group |-> Number(e.content[i].head), key |-> e.content[i].data]]}
    [] e.type = SNI -> IF Hosts = {} THEN {<<>>} ELSE Hosts
    [] e.type = ExtendedMasterSecret -> {<<>>}
    [] e.type = CompressCertificate -> {EncodeContent(e.type, e.content)}
    [] OTHER -> {e.content}

(* ExtensionsAsSent: the reply lists the extensions of the ClientHello in  *)
(* the order they came, GREASE included, each with what the client put     *)
(* into that very extension, although most are shown from lists the hello  *)
(* collects over all of them (service.go:269-355, parser.go:131-325).      *)
ExtensionsAsSent ==
  Answerable =>
    LET shown == TLSResponse(parsed).extensions
    IN  /\ DOMAIN shown = DOMAIN meant.extensions
        /\ \A i \in DOMAIN shown :
             /\ shown[i].name = meant.extensions[i].type
             /\ shown[i].shows \in Recognised(meant.extensions[i])

(* PeetprintIgnoresOrder: a client that shuffles its extensions keeps its  *)
(* peetprint (service.go:238-267).                                         *)
PeetprintIgnoresOrder ==
  Answerable =>
    \A h \in Hellos :
      h.version = meant.version /\ h.suites = meant.suites
          /\ Shuffled(h.extensions, meant.extensions) =>
        TLSResponse(ParseClientHello(Encode(h))).peetprint = TLSResponse(parsed).peetprint

(* NegotiatedIsOffered: the version reported as tls_version_negotiated is  *)
(* one the client offered to speak, not one of the reserved values that no *)
(* connection can use (service.go:78, 179; README.md:11-12).               *)
NegotiatedIsOffered ==
  Answerable => TLSResponse(parsed).negotiated \in Offered
===============================================================================
