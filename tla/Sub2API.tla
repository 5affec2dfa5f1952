-------------------------------- MODULE Sub2API --------------------------------
(***************************************************************************)
(* pkg/capture/format_sub2api_json.go and format_sub2api_yaml.go: the      *)
(* fingerprint and the profile a capture is written as, and what they are  *)
(* for: another client is to show itself as the captured one does.         *)
(*                                                                         *)
(* Only what is said of TLS is modelled; numbers stand for their decimals. *)
(* The rest is copied from the capture, and the keys and names of profiles *)
(* are put together from it.                                               *)
(***************************************************************************)
EXTENDS ClientHello

(* Mutant of KeyShareGroups: the groups offered are taken for those shared.*)
KeyShareGroups_Offered(tls) == tls.lists[Groups]

KeyShareGroups(tls) == tls.shares

(* sub2apiProfile; the order of the extensions is in a comment below it,   *)
(* JA3 and JA4 in one above.                                               *)
Profile(tls) ==
  [ja3 |-> tls.ja3, ja4 |-> tls.ja4, enable_grease |-> tls.enable_grease,
   cipher_suites |-> tls.suites, extensions |-> tls.extensions,
   curves |-> tls.lists[Groups], point_formats |-> tls.lists[PointFormats],
   signature_algorithms |-> tls.lists[SignatureAlgorithms],
   alpn_protocols |-> tls.protocols, supported_versions |-> tls.lists[SupportedVersions],
   key_share_groups |-> KeyShareGroups(tls), psk_modes |-> tls.lists[PSKModes]]

(* Mutant of CompressCertAlgos: as in the profile, they are left out.      *)
CompressCertAlgos_LeftOut(tls) == <<>>

CompressCertAlgos(tls) == tls.lists[CompressCertificate]

(* newSub2APIFingerprint.                                                  *)
Sub2APIFingerprint(tls) ==
  [profile |-> Profile(tls), compress_cert_algos |-> CompressCertAlgos(tls)]

-------------------------------------------------------------------------------
(* A client that is given a profile.  It sends the extensions of the list, *)
(* with a host and key shares of its own, and leaves those empty it knows  *)
(* nothing about.                                                          *)

ContentFrom(p, compress, t) ==
  CASE t = SNI -> <<[head |-> <<0>>, data |-> <<98>>]>>
    [] t = Groups -> p.curves
    [] t = PointFormats -> p.point_formats
    [] t = SignatureAlgorithms -> p.signature_algorithms
    [] t = ALPN -> [i \in DOMAIN p.alpn_protocols |->
                      [head |-> <<>>, data |-> p.alpn_protocols[i]]]
    [] t = CompressCertificate -> compress
    [] t = SupportedVersions -> p.supported_versions
    [] t = PSKModes -> p.psk_modes
    [] t = KeyShare -> [i \in DOMAIN p.key_share_groups |->
                          [head |-> Bytes2(p.key_share_groups[i]), data |-> <<8>>]]
    [] OTHER -> <<>>

Imitation(p, compress) ==
  [version |-> 771, session |-> <<>>, suites |-> p.cipher_suites, compression |-> <<0>>,
   extensions |-> [i \in DOMAIN p.extensions |->
                     [type |-> p.extensions[i],
                      content |-> ContentFrom(p, compress, p.extensions[i])]]]

CaptureOf(h) == CaptureTLSInfo(ParseClientHello(Encode(h)))

-------------------------------------------------------------------------------
(* Properties.  A ClientHello with an extension that comes twice, or with  *)
(* an empty key share, is never captured, as crypto/tls refuses it; a      *)
(* server name is not empty, and the version in front is that of TLS 1.2   *)
(* (RFC 8446, 4.1.2 and 4.2.8; RFC 6066, 3).                               *)

Imitable ==
  /\ parsed # Unparsed /\ Whole
  /\ IsInjective(parsed.extensions)
  /\ SNI \in ToSet(parsed.extensions) => parsed.name # <<>>
  /\ \A i \in DOMAIN parsed.shares : parsed.shares[i].key # <<>>
  /\ parsed.version = 771

(* FingerprintRecaptured: a client that sends what the fingerprint lists   *)
(* leaves the capture the fingerprint was made from, JA3 and JA4 included, *)
(* but for the GREASE it does not send: nothing a capture tells clients    *)
(* apart by is lost or put under another name on its way to the file       *)
(* (format_sub2api_json.go:55-84).                                         *)
FingerprintRecaptured ==
  Imitable =>
    LET tls == CaptureTLSInfo(parsed)
        f == Sub2APIFingerprint(tls)
    IN  CaptureOf(Imitation(f.profile, f.compress_cert_algos)) =
          [tls EXCEPT !.enable_grease = FALSE]

(* ProfileLacksCompression: the reference below a profile announces        *)
(* "extension order, cert compression", but only the order is written.     *)
(* What is written makes another client leave the same capture, JA3 and    *)
(* JA4 included, just when the captured client offered no certificate      *)
(* compression; all else is there (format_sub2api_yaml.go:23-73).          *)
ProfileLacksCompression ==
  Imitable =>
    LET tls == CaptureTLSInfo(parsed)
    IN  CaptureOf(Imitation(Profile(tls), <<>>)) = [tls EXCEPT !.enable_grease = FALSE]
          <=> ContentOf(CompressCertificate) = <<>>
===============================================================================
