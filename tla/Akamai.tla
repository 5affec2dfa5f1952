-------------------------------- MODULE Akamai --------------------------------
(***************************************************************************)
(* The HTTP/2 fingerprint: how HTTP2Tracker prints it                      *)
(* (pkg/httpfp/common.go) and how the reply of /api/all gets the frames    *)
(* back out of the print (pkg/api/peetws/service.go).                      *)
(*                                                                         *)
(* A print is a sequence of tokens, numbers in decimal and marks.  A       *)
(* SETTINGS frame is a sequence of settings, pairs of id and value.        *)
(***************************************************************************)
EXTENDS Integers, Sequences, FiniteSets

Decimal(n) == <<"decimal", n>>
Mark(c) == <<c>>

(* strings.Join, of parts of n tokens each.                                *)
Joined(parts, n, c) ==
  IF parts = <<>> THEN <<>>
  ELSE [k \in 1 .. (n + 1) * Len(parts) - 1 |->
          IF k % (n + 1) = 0 THEN Mark(c) ELSE parts[k \div (n + 1) + 1][k % (n + 1)]]

(* strings.Split: a part begins after a mark and ends before the next.     *)
Ends(tokens, c) ==
  {0, Len(tokens) + 1} \cup {i \in DOMAIN tokens : tokens[i] = Mark(c)}
NthEnd(tokens, c, n) ==
  CHOOSE e \in Ends(tokens, c) : Cardinality({i \in Ends(tokens, c) : i < e}) = n
Split(tokens, c) ==
  [n \in 1 .. Cardinality(Ends(tokens, c)) - 1 |->
     SubSeq(tokens, NthEnd(tokens, c, n - 1) + 1, NthEnd(tokens, c, n) - 1)]

formatSettings(settings) ==
  Joined([i \in DOMAIN settings |->
            <<Decimal(settings[i][1]), Mark(":"), Decimal(settings[i][2])>>], 3, ";")

formatPriorities(priorities) ==
  IF priorities = <<>> THEN <<Decimal(0)>>
  ELSE Joined([i \in DOMAIN priorities |-> <<Decimal(priorities[i])>>], 1, ",")

(* HTTP2Tracker.Snapshot.  No WINDOW_UPDATE is told apart from all others  *)
(* by two zeros; the four numbers of a priority are one value.              *)
Fingerprint(tracker) ==
  formatSettings(tracker.settings)
    \o <<Mark("|")>> \o <<IF tracker.window = 0 THEN Mark("00") ELSE Decimal(tracker.window)>>
    \o <<Mark("|")>> \o formatPriorities(tracker.priorities)
    \o <<Mark("|")>> \o Joined([i \in DOMAIN tracker.pseudo |-> <<tracker.pseudo[i]>>], 1, ",")

(* Two zeros are a number as well.                                         *)
mustAtoi(tokens) ==
  IF Len(tokens) = 1 /\ Len(tokens[1]) = 2 THEN tokens[1][2] ELSE 0

parseAkamaiFingerprint(print) ==
  LET parts == Split(print, "|")
      settings == Split(parts[1], ";")
  IN  [settings |-> IF parts[1] = <<>> THEN <<>>
                    ELSE [i \in DOMAIN settings |->
                            LET pair == Split(settings[i], ":")
                            IN  <<mustAtoi(pair[1]), mustAtoi(pair[2])>>],
       increment |-> parts[2]]

(* Mutant of WindowUpdateSent: anything printed is an increment.           *)
WindowUpdateSent_Always(increment) == TRUE

WindowUpdateSent(increment) == increment # <<>> /\ increment # <<Mark("00")>>

(* The frames buildHTTP2Response says the client sent; the HEADERS frame   *)
(* is that of the request, with the list of fields addHeaders left.        *)
SentFrames(print, fields) ==
  LET parsed == parseAkamaiFingerprint(print)
      SettingsShown == IF parsed.settings = <<>> THEN <<>>
                       ELSE <<[type |-> "SETTINGS", settings |-> parsed.settings]>>
      UpdateShown == IF ~WindowUpdateSent(parsed.increment) THEN <<>>
                     ELSE <<[type |-> "WINDOW_UPDATE",
                           increment |-> mustAtoi(parsed.increment)]>>
  IN  SettingsShown \o UpdateShown \o <<[type |-> "HEADERS", fields |-> fields]>>
===============================================================================
