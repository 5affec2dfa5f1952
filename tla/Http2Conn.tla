------------------------------- MODULE Http2Conn -------------------------------
(***************************************************************************)
(* pkg/httpfp/http2.go and the HTTP2Tracker of pkg/httpfp/common.go: one   *)
(* HTTP/2 connection, from its preface to its end.  The goroutine that     *)
(* serves it reads one frame at a time and answers a request in the step   *)
(* that reads its last frame, so a step of the model is one frame, with    *)
(* every reply it causes.                                                  *)
(*                                                                         *)
(* The client keeps to RFC 9113 but may do all that it allows: interleave  *)
(* streams, split bodies, send trailers, reset a stream before or after    *)
(* its end, go away while requests are open.  A header block is read with  *)
(* its CONTINUATION frames in one step: nothing may come between them.     *)
(* Header fields, chunks, settings and the like are opaque values, the     *)
(* first two different for each stream.                                    *)
(*                                                                         *)
(* The server never sends a WINDOW_UPDATE, so what the client may send as  *)
(* request bodies, on all streams together, is the initial window.         *)
(***************************************************************************)
EXTENDS Integers, Sequences, FiniteSets, FiniteSetsExt, SequencesExt, Akamai

CONSTANTS
  Streams,        \* stream numbers the client may use
  Targets,        \* what it asks for: "messages" is POST /v1/messages
  Settings,       \* contents of a SETTINGS frame, other than none
  Increments,     \* of a connection's WINDOW_UPDATE
  PriorityLimit,  \* PRIORITY frames that are kept: 32
  Window,         \* the server's flow-control window, in chunks
  MaxChunks,      \* bound: chunks in a request's body
  MaxSettings,    \* bound: SETTINGS frames sent
  MaxUpdates,     \* bound: WINDOW_UPDATE frames sent
  MaxPriorities,  \* bound: PRIORITY frames sent
  MaxCaptures,    \* bound: captures in the store
  MaxFrameSize    \* the client's SETTINGS_MAX_FRAME_SIZE, in captures

ASSUME StreamsAssumption == Streams \subseteq Nat \ {0}
ASSUME TargetsAssumption == Targets \subseteq {"messages", "other"}
ASSUME SettingsAssumption == Settings \subseteq Seq(Nat \X Nat) \ {<<>>}
ASSUME IncrementsAssumption == Increments \subseteq Nat \ {0}
ASSUME LimitsAssumption ==
  /\ PriorityLimit \in Nat \ {0}
  /\ {Window, MaxChunks, MaxSettings, MaxUpdates, MaxPriorities, MaxCaptures,
      MaxFrameSize} \subseteq Nat

VARIABLES
  open,      \* is the frame loop running?
  requests,  \* stream |-> requestState, the requests map
  emitted,   \* fields the HPACK decoder has emitted
  tracker,   \* HTTP2Tracker
  answers,   \* stream |-> what the router was given and sent back
  stored,    \* length of the store's list, which all connections share
  sent,      \* stream |-> what the client has sent on it (history)
  seen       \* what else the client has sent, in order, and whether it
             \* gave up the connection (history)

vars == <<open, requests, emitted, tracker, answers, stored, sent, seen>>

(* A field of a header block; a request's first block names its target.    *)
Head1(s, target) == <<s, "headers", target>>
Trailer(s) == <<s, "trailers">>
Fields == {Head1(s, t) : s \in Streams, t \in Targets}
          \cup {Trailer(s) : s \in Streams}

Blank == [headers |-> {}, fields |-> <<>>, body |-> <<>>, ended |-> FALSE]

Request(s) == IF s \in DOMAIN requests THEN requests[s] ELSE Blank

Assign(f, s, v) == [x \in DOMAIN f \cup {s} |-> IF x = s THEN v ELSE f[x]]
Delete(f, s) == [x \in DOMAIN f \ {s} |-> f[x]]
(* A SETTINGS frame without settings, or none received.                    *)
NoSettings == <<>>

AsSet(seq) == {seq[i] : i \in DOMAIN seq}
Min2(a, b) == IF a < b THEN a ELSE b

-------------------------------------------------------------------------------
(* What the client may send *)

(* left: the chunks of the body that are yet to come.                      *)
Idle == [blocks |-> <<>>, body |-> <<>>, left |-> 0, ended |-> FALSE, reset |-> FALSE]
Started(s) == sent[s].blocks # <<>>
Sending(s) == Started(s) /\ ~sent[s].ended /\ ~sent[s].reset

(* New streams have larger numbers than all before.                        *)
MayStart(s) == ~Started(s) /\ \A t \in Streams : Started(t) => t < s

(* A body may be followed by trailers or, if its last chunk did not end    *)
(* the stream, by an empty DATA frame.                                     *)
BodySent(s) == Sending(s) /\ sent[s].left = 0

(* What is left of the connection's window.                                *)
Credit == Window - MapThenSumSet(LAMBDA s : Len(sent[s].body), Streams)

(* What a DATA frame may carry: nothing, or the body's next chunk.         *)
Chunk(s, i) == <<s, "chunk", i>>
Empty == <<>>
Parts(s) == {Empty, <<Chunk(s, Len(sent[s].body) + 1)>>}
MaySend(s, part, end) ==
  \/ part = Empty /\ BodySent(s) /\ end
  \/ /\ part # Empty /\ Sending(s) /\ sent[s].left > 0
     /\ Credit > 0
     /\ end => sent[s].left = 1

-------------------------------------------------------------------------------
Init ==
  /\ open = TRUE
  /\ requests = [s \in {} |-> Blank]
  /\ emitted = <<>>
  /\ tracker = [settings |-> NoSettings, window |-> 0, priorities |-> <<>>,
                pseudo |-> <<>>]
  /\ answers = [s \in {} |-> Blank]
  /\ stored = 0
  /\ sent = [s \in Streams |-> Idle]
  /\ seen = [settings |-> <<>>, windows |-> <<>>, priorities |-> <<>>,
             left |-> FALSE]

(* Mutant of RecordSettings: the settings replace those of earlier frames. *)
RecordSettings_Replaces(v) ==
  tracker' = [tracker EXCEPT !.settings = v]

(* SETTINGS: the first that holds any is kept; each is acknowledged.       *)
RecordSettings(v) ==
  tracker' = IF tracker.settings = NoSettings
             THEN [tracker EXCEPT !.settings = v] ELSE tracker

SettingsFrame ==
  /\ open
  /\ Len(seen.settings) < MaxSettings
  /\ \E v \in Settings \cup {NoSettings} :
       /\ RecordSettings(v)
       /\ seen' = [seen EXCEPT !.settings = Append(@, v)]
  /\ UNCHANGED <<open, requests, emitted, answers, stored, sent>>

(* Mutant of RecordWindowUpdate: the last increment is kept.               *)
RecordWindowUpdate_Last(n) ==
  tracker' = [tracker EXCEPT !.window = n]

RecordWindowUpdate(n) ==
  tracker' = IF tracker.window = 0
             THEN [tracker EXCEPT !.window = n] ELSE tracker

(* WINDOW_UPDATE of the connection; that of a stream is not looked at.     *)
WindowUpdateFrame ==
  /\ open
  /\ Len(seen.windows) < MaxUpdates
  /\ \E n \in Increments :
       /\ RecordWindowUpdate(n)
       /\ seen' = [seen EXCEPT !.windows = Append(@, n)]
  /\ UNCHANGED <<open, requests, emitted, answers, stored, sent>>

(* Mutant of RecordPriority: one more than the limit is kept.              *)
RecordPriority_OffByOne(p) ==
  tracker' = IF Len(tracker.priorities) <= PriorityLimit
             THEN [tracker EXCEPT !.priorities = Append(@, p)] ELSE tracker

(* Mutant of RecordPriority: beyond the limit the first makes room.         *)
RecordPriority_Ring(p) ==
  tracker' = IF Len(tracker.priorities) < PriorityLimit
             THEN [tracker EXCEPT !.priorities = Append(@, p)]
             ELSE [tracker EXCEPT !.priorities = Append(Tail(@), p)]

RecordPriority(p) ==
  tracker' = IF Len(tracker.priorities) < PriorityLimit
             THEN [tracker EXCEPT !.priorities = Append(@, p)] ELSE tracker

(* PRIORITY, on a stream in any state, each of its own content.            *)
PriorityFrame ==
  /\ open
  /\ Len(seen.priorities) < MaxPriorities
  /\ LET p == Len(seen.priorities) + 1
     IN  /\ RecordPriority(p)
         /\ seen' = [seen EXCEPT !.priorities = Append(@, p)]
  /\ UNCHANGED <<open, requests, emitted, answers, stored, sent>>

(* The pseudo-header fields of a block, which come before all others.      *)
Pseudo(fields) ==
  SubSeq(fields, 1, Cardinality({i \in DOMAIN fields : fields[i][2] = "headers"}))

(* The order of the pseudo-header fields of the first block that has any.  *)
RecordPseudoHeaderOrder(fields) ==
  tracker' = IF tracker.pseudo = <<>>
             THEN [tracker EXCEPT !.pseudo = Pseudo(fields)] ELSE tracker

(* The router's part of respondHTTP2Request: POST /v1/messages is captured.*)
Handled(request) ==
  stored' = IF \E s \in Streams : Head1(s, "messages") \in request.headers
            THEN Min2(stored + 1, MaxCaptures) ELSE stored

(* respondHTTP2Request and delete: the whole reply goes out, its body in   *)
(* one DATA frame.  That to POST /v1/messages holds every capture, this    *)
(* one included.                                                           *)
Respond(s, request) ==
  /\ Handled(request)
  /\ answers' = Assign(answers, s,
       [headers |-> request.headers, fields |-> request.fields,
        body |-> request.body, http2 |-> tracker',
        size |-> IF stored' # stored THEN stored' ELSE 1])
  /\ requests' = Delete(requests, s)
  /\ UNCHANGED <<open, seen>>

(* The client is gone, or has not taken a byte until the deadline: the     *)
(* write fails, the loop returns, and the capture stays.                   *)
RespondFails(request) ==
  /\ Handled(request)
  /\ open' = FALSE
  /\ seen' = [seen EXCEPT !.left = TRUE]
  /\ UNCHANGED <<requests, answers>>

(* Keep the request for its next frame, or answer and forget it.           *)
Proceed(s, request, end) ==
  \/ end /\ Respond(s, request)
  \/ end /\ RespondFails(request)
  \/ /\ ~end
     /\ requests' = Assign(requests, s, request)
     /\ UNCHANGED <<open, answers, stored, seen>>

(* Mutant of DecodeBlock: what was emitted before is not dropped.          *)
DecodeBlock_Keeps(block) == emitted' = emitted \o block

DecodeBlock(block) == emitted' = block

(* HEADERS with its CONTINUATIONs: the first block of a request or, on a   *)
(* stream that is open, trailers.  addHeaders collects the header map but  *)
(* replaces the field list.                                                *)
HeadersFrame(s) ==
  /\ open
  /\ \E end \in BOOLEAN, target \in Targets, left \in 0 .. MaxChunks :
       LET block == IF Started(s) THEN <<Trailer(s)>> ELSE <<Head1(s, target)>>
       IN  /\ \/ MayStart(s) /\ (end => left = 0)
              \/ BodySent(s) /\ end /\ left = 0
           /\ DecodeBlock(block)
           /\ RecordPseudoHeaderOrder(emitted')
           /\ Proceed(s, [Request(s) EXCEPT !.headers = @ \cup AsSet(emitted'),
                                            !.fields = emitted',
                                            !.ended = end], end)
           /\ sent' = [sent EXCEPT ![s].blocks = Append(@, block),
                                   ![s].left = left,
                                   ![s].ended = end]

(* Mutants of DataFrame: any DATA frame is taken for the last; an empty    *)
(* one for nothing.                                                        *)
DataFrame_Eager(s) ==
  /\ open
  /\ UNCHANGED <<emitted, tracker>>
  /\ \E end \in BOOLEAN, part \in Parts(s) :
       /\ MaySend(s, part, end)
       /\ Respond(s, [Request(s) EXCEPT !.body = @ \o part, !.ended = end])
       /\ sent' = [sent EXCEPT ![s].body = @ \o part, ![s].left = @ - Len(part),
                               ![s].ended = end]

DataFrame_IgnoresEmpty(s) ==
  /\ open
  /\ UNCHANGED <<emitted, tracker>>
  /\ \E end \in BOOLEAN, part \in Parts(s) :
       /\ MaySend(s, part, end)
       /\ Proceed(s, [Request(s) EXCEPT !.body = @ \o part, !.ended = end],
                  end /\ part # Empty)
       /\ sent' = [sent EXCEPT ![s].body = @ \o part, ![s].left = @ - Len(part),
                               ![s].ended = end]

(* DATA: a part of the body, the last one or not, or only the end.         *)
DataFrame(s) ==
  /\ open
  /\ UNCHANGED <<emitted, tracker>>
  /\ \E end \in BOOLEAN, part \in Parts(s) :
       /\ MaySend(s, part, end)
       /\ Proceed(s, [Request(s) EXCEPT !.body = @ \o part, !.ended = end], end)
       /\ sent' = [sent EXCEPT ![s].body = @ \o part, ![s].left = @ - Len(part),
                               ![s].ended = end]

(* Mutant of ForgetRequest: a reset stream keeps its request.              *)
ForgetRequest_Keeps(s) == UNCHANGED requests

ForgetRequest(s) == requests' = Delete(requests, s)

(* RST_STREAM, before the end of the request or after it was answered.     *)
RSTStreamFrame(s) ==
  /\ open
  /\ Started(s) /\ ~sent[s].reset
  /\ ForgetRequest(s)
  /\ sent' = [sent EXCEPT ![s].reset = TRUE]
  /\ UNCHANGED <<open, emitted, tracker, answers, stored, seen>>

(* GOAWAY, end of input, or a client that could go on and does not before  *)
(* the deadline: the loop returns and the connection is closed, whatever   *)
(* requests are still open.                                                *)
Leave ==
  /\ open
  /\ open' = FALSE
  /\ seen' = [seen EXCEPT !.left = TRUE]
  /\ UNCHANGED <<requests, emitted, tracker, answers, stored, sent>>

(* Two minutes after the handshake, the deadline finds a client that has   *)
(* nothing to send or that waits for the window to open.                   *)
Expire ==
  /\ open
  /\ \A s \in Streams : Sending(s) => sent[s].left > 0 /\ Credit = 0
  /\ open' = FALSE
  /\ UNCHANGED <<requests, emitted, tracker, answers, stored, sent, seen>>

(* Other connections append to the store and reset it.                     *)
OtherConnections ==
  /\ open
  /\ \/ stored < MaxCaptures /\ stored' = stored + 1
     \/ stored > 0 /\ stored' = 0
  /\ UNCHANGED <<open, requests, emitted, tracker, answers, sent, seen>>

Next ==
  \/ SettingsFrame \/ WindowUpdateFrame \/ PriorityFrame
  \/ \E s \in Streams : HeadersFrame(s) \/ DataFrame(s) \/ RSTStreamFrame(s)
  \/ Leave \/ Expire \/ OtherConnections

Spec == Init /\ [][Next]_vars

(* A client that began a request and may send its next frame does so, and  *)
(* the deadline comes.                                                     *)
Fairness ==
  /\ \A s \in Streams : WF_vars(Started(s) /\ (HeadersFrame(s) \/ DataFrame(s)))
  /\ WF_vars(Expire)

FairSpec == Spec /\ Fairness

-------------------------------------------------------------------------------
(* Properties *)

Chunks(s) == {Chunk(s, i) : i \in 1 .. MaxChunks}
RequestStates(s) ==
  [headers : SUBSET Fields, fields : Seq(Fields), body : Seq(Chunks(s)), ended : BOOLEAN]

(* TypeOK: every variable keeps its type; no more PRIORITY frames are kept *)
(* than the limit (common.go:42), and no request holds a part of the body  *)
(* of another (http2.go:122-127).                                          *)
TypeOK ==
  /\ open \in BOOLEAN
  /\ DOMAIN requests \subseteq Streams
  /\ \A s \in DOMAIN requests : requests[s] \in RequestStates(s)
  /\ emitted \in Seq(Fields)
  /\ tracker \in [settings : Settings \cup {NoSettings}, window : Increments \cup {0},
                  priorities : Seq(1 .. MaxPriorities), pseudo : Seq(Fields)]
  /\ Len(tracker.priorities) <= PriorityLimit
  /\ DOMAIN answers \subseteq Streams
  /\ stored \in 0 .. MaxCaptures
  /\ DOMAIN sent = Streams
  /\ \A s \in Streams :
       sent[s] \in [blocks : Seq(Seq(Fields)), body : Seq(Chunks(s)),
                   left : 0 .. MaxChunks, ended : BOOLEAN, reset : BOOLEAN]
  /\ seen \in [settings : Seq(Settings \cup {NoSettings}), windows : Seq(Increments),
               priorities : Seq(1 .. MaxPriorities), left : BOOLEAN]

(* All fields a stream has carried, whatever block they came in.           *)
Carried(s) == UNION {AsSet(b) : b \in AsSet(sent[s].blocks)}

(* AnswersAreOwn: the router sees, of each request, exactly the fields and *)
(* the body its own stream carried, however the frames of other streams    *)
(* were interleaved with them (http2.go:100-110, 127).                     *)
AnswersAreOwn ==
  \A s \in DOMAIN answers :
    /\ answers[s].headers = Carried(s)
    /\ answers[s].body = sent[s].body

(* AnsweredIffEnded: while the connection lasts, the requests answered are *)
(* those whose last frame has come, whether it was HEADERS, trailers or    *)
(* DATA; a request that was reset before its end is not among them         *)
(* (http2.go:115-120, 129-134, 146-147).                                   *)
AnsweredIffEnded ==
  open => DOMAIN answers = {s \in Streams : sent[s].ended}

(* NothingLeftBehind: the map holds a request for exactly the streams the  *)
(* client is still sending on: answered and reset streams leave no state   *)
(* behind on a long connection (http2.go:64, 119, 133, 147).               *)
NothingLeftBehind ==
  open => DOMAIN requests = {s \in Streams : Sending(s)}

FirstOr(seq, default) == IF seq = <<>> THEN default ELSE Head(seq)

(* The first of some SETTINGS frames that holds any.                       *)
FirstSettings(frames) ==
  LET real == {i \in DOMAIN frames : frames[i] # NoSettings}
  IN  IF real = {} THEN NoSettings ELSE frames[Min(real)]

(* TrackerKeepsFirst: the fingerprint is made of the first settings, the   *)
(* first window increment, the first priorities and the first request's    *)
(* pseudo-header order, whatever the client sends later                    *)
(* (common.go:25-56).                                                      *)
TrackerKeepsFirst ==
  /\ tracker.settings = FirstSettings(seen.settings)
  /\ tracker.window = FirstOr(seen.windows, 0)
  /\ tracker.priorities =
       SubSeq(seen.priorities, 1, Min2(Len(seen.priorities), PriorityLimit))
  /\ LET started == {s \in Streams : Started(s)}
     IN  tracker.pseudo =
           IF started = {} THEN <<>>
           ELSE sent[CHOOSE s \in started : \A t \in started : s <= t].blocks[1]

(* A later capture of a connection knows all that an earlier one knew.     *)
Extends(later, earlier) ==
  /\ later.pseudo = earlier.pseudo
  /\ earlier.settings # NoSettings => later.settings = earlier.settings
  /\ earlier.window # 0 => later.window = earlier.window
  /\ IsPrefix(earlier.priorities, later.priorities)

(* CapturesOnlyLearn: the fingerprint in a new capture agrees with that in *)
(* every earlier capture of the connection: settings, window increment and *)
(* pseudo-header order, once reported, are reported again, and the         *)
(* PRIORITY frames are the earlier ones with more behind them; what was    *)
(* captured stays as it is (common.go:25-56, http2.go:114-116, 130).       *)
CapturesOnlyLearn ==
  [][\A s \in DOMAIN answers :
       /\ s \in DOMAIN answers' /\ answers'[s] = answers[s]
       /\ \A t \in DOMAIN answers' \ DOMAIN answers :
            Extends(answers'[t].http2, answers[s].http2)]_vars

(* FramesAsSent: the frames that /api/all says a client sent, parsed back  *)
(* from the print of the fingerprint, are the first SETTINGS and the first *)
(* WINDOW_UPDATE of the connection, no other and none twice, and a block   *)
(* of header fields of the request's own stream (service.go:191-236,       *)
(* 551-572; common.go:58-93).                                              *)
FramesAsSent ==
  \A s \in DOMAIN answers :
    LET told == answers[s].http2
        frames == SentFrames(Fingerprint(told), answers[s].fields)
        Are(type) == {f \in AsSet(frames) : f.type = type}
    IN  /\ \A i, j \in DOMAIN frames : frames[i].type = frames[j].type => i = j
        /\ Are("SETTINGS") =
             IF told.settings = NoSettings THEN {}
             ELSE {[type |-> "SETTINGS", settings |-> FirstSettings(seen.settings)]}
        /\ Are("WINDOW_UPDATE") =
             IF told.window = 0 THEN {}
             ELSE {[type |-> "WINDOW_UPDATE", increment |-> Head(seen.windows)]}
        /\ \E block \in AsSet(sent[s].blocks) :
             Are("HEADERS") = {[type |-> "HEADERS", fields |-> block]}

(* EveryRequestAnswered: a request that a client began, and neither resets *)
(* nor abandons with the connection, is answered in the end: the deadline  *)
(* does not come first to a client that keeps sending (http2.go:66-148).   *)
EveryRequestAnswered ==
  \A s \in Streams :
    Started(s) ~> s \in DOMAIN answers \/ sent[s].reset \/ seen.left

(* RepliesFit: the array the server returns, with one entry for each       *)
(* request, reaches an HTTP/2 client in a frame it may accept              *)
(* (http2.go:252-256).                                                     *)
RepliesFit == \A s \in DOMAIN answers : answers[s].size <= MaxFrameSize

-------------------------------------------------------------------------------
(* The inductive invariant behind the safety properties.                   *)

(* What a client sends: nothing on a stream it has not begun, no more      *)
(* chunks than announced, and the pseudo-header fields at the start.       *)
SentInv ==
  \A s \in Streams :
    /\ ~Started(s) => sent[s] = Idle
    /\ Len(sent[s].body) + sent[s].left <= MaxChunks
    /\ Started(s) => \E target \in Targets : sent[s].blocks[1] = <<Head1(s, target)>>

(* A request in the map holds what its stream has carried so far.          *)
RequestsInv ==
  /\ \A s \in DOMAIN answers : sent[s].ended
  /\ open => \A s \in DOMAIN requests :
       requests[s].headers = Carried(s) /\ requests[s].body = sent[s].body

(* The tracker knows the first of all other frames the client has sent.    *)
TrackerInv ==
  /\ \A i \in DOMAIN seen.settings :
       seen.settings[i] # NoSettings => tracker.settings # NoSettings
  /\ tracker.settings # NoSettings =>
       \E i \in DOMAIN seen.settings :
         /\ seen.settings[i] = tracker.settings
         /\ \A j \in 1 .. i - 1 : seen.settings[j] = NoSettings
  /\ tracker.window = FirstOr(seen.windows, 0)
  /\ tracker.priorities =
       SubSeq(seen.priorities, 1, Min2(Len(seen.priorities), PriorityLimit))

(* The pseudo-header order it knows is that of the first stream, which has *)
(* the least number.                                                       *)
PseudoInv ==
  \/ tracker.pseudo = <<>> /\ \A s \in Streams : ~Started(s)
  \/ \E s \in Streams :
       /\ Started(s) /\ \A t \in Streams : Started(t) => s <= t
       /\ tracker.pseudo = sent[s].blocks[1]

(* What an answer was given of the tracker is still there.                 *)
AnswersInv ==
  \A s \in DOMAIN answers :
    /\ answers[s].http2.pseudo = tracker.pseudo /\ tracker.pseudo # <<>>
    /\ answers[s].http2.settings \in {NoSettings, tracker.settings}
    /\ answers[s].http2.window \in {0, tracker.window}
    /\ answers[s].http2.priorities \in Seq(1 .. MaxPriorities)
    /\ IsPrefix(answers[s].http2.priorities, tracker.priorities)

(* What a reply is made of: the last block of its own stream.              *)
ShownInv ==
  /\ open => \A s \in DOMAIN requests : requests[s].fields \in AsSet(sent[s].blocks)
  /\ \A s \in DOMAIN answers : answers[s].fields \in AsSet(sent[s].blocks)

IInv ==
  /\ TypeOK /\ SentInv /\ RequestsInv
  /\ TrackerInv /\ PseudoInv /\ AnswersInv
  /\ AnswersAreOwn /\ AnsweredIffEnded /\ NothingLeftBehind
===============================================================================
