---------------------------- MODULE MCCaptureStore ----------------------------
(* Instances of CaptureStore for TLC. *)
EXTENDS CaptureStore, TLC

CONSTANTS h1, h2, h3, r1, r2, r3

ThreeHandlers == {h1, h2, h3}
OneRecord == {r1}
ThreeRecords == {r1, r2, r3}

(* Suffixes of DefaultFormatters, the first and the last of its three.      *)
TwoFormatters == <<".tlsident.json", ".sub2api.json">>

EmptyDirectory == {[name \in {} |-> Junk]}

(* Also a directory that holds files of earlier runs, with a number that   *)
(* nextOutputSequence does not count, a gap and a lone file at its end.    *)
UsedDirectories ==
  EmptyDirectory \cup
  {(<<0, ".tlsident.json">> :> Junk) @@ (<<2, ".sub2api.json">> :> Junk)}

HandlersAndRecords == Permutations(Handlers) \cup Permutations(Records)
===============================================================================
