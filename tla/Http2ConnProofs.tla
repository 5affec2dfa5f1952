---------------------------- MODULE Http2ConnProofs ----------------------------
(***************************************************************************)
(* Machine-checked proofs about Http2Conn, for any streams, requests,      *)
(* settings and limits.                                                    *)
(*                                                                         *)
(* The argument: while the connection lasts, the map holds exactly the     *)
(* requests of the streams the client is sending on, each with all that    *)
(* its stream has carried (RequestsInv); a frame changes the request of    *)
(* its own stream only, and its last frame moves the request to the        *)
(* answers.  The tracker changes only from "not yet known" (TrackerInv),   *)
(* so what one answer was given of it is what every later one is given.    *)
(* The frames shown to a client are those the answer was given, because    *)
(* the print of a fingerprint can be read back (PrintReadBack).            *)
(***************************************************************************)
EXTENDS Http2Conn, AkamaiProofs, FiniteSetTheorems, SequenceTheorems, TLAPS

-------------------------------------------------------------------------------
(* Sequences *)

LEMMA AsSetAppend ==
  ASSUME NEW S, NEW s \in Seq(S), NEW x \in S
  PROVE  AsSet(Append(s, x)) = AsSet(s) \cup {x}
<1>1. ASSUME NEW y \in AsSet(s) \cup {x}
      PROVE  y \in AsSet(Append(s, x))
  <2>1. CASE y = x
    <3>1. Append(s, x)[Len(s) + 1] = x /\ Len(s) + 1 \in DOMAIN Append(s, x)
      OBVIOUS
    <3> QED
      BY <2>1, <3>1 DEF AsSet
  <2>2. CASE y \in AsSet(s)
    <3>1. PICK i \in DOMAIN s : y = s[i]
      BY <2>2 DEF AsSet
    <3>2. Append(s, x)[i] = y /\ i \in DOMAIN Append(s, x)
      BY <3>1
    <3> QED
      BY <3>2 DEF AsSet
  <2> QED
    BY <2>1, <2>2
<1>2. ASSUME NEW y \in AsSet(Append(s, x))
      PROVE  y \in AsSet(s) \cup {x}
  <2>1. PICK i \in DOMAIN Append(s, x) : y = Append(s, x)[i]
    BY DEF AsSet
  <2>2. i \in DOMAIN s \/ i = Len(s) + 1
    OBVIOUS
  <2> QED
    BY <2>1, <2>2 DEF AsSet
<1> QED
  BY <1>1, <1>2

LEMMA AppendFirst ==
  ASSUME NEW S, NEW s \in Seq(S), NEW x \in S
  PROVE  /\ Append(s, x) # <<>> /\ Append(s, x) \in Seq(S)
         /\ s # <<>> => Append(s, x)[1] = s[1]
         /\ s = <<>> => Append(s, x)[1] = x
OBVIOUS

(* A block of one field is its own pseudo-header order.                    *)
LEMMA PseudoOfOne ==
  ASSUME NEW f, f[2] = "headers"
  PROVE  Pseudo(<<f>>) = <<f>>
<1>1. {i \in DOMAIN <<f>> : <<f>>[i][2] = "headers"} = {1}
  <2>1. <<f>> \in Seq({f}) /\ Len(<<f>>) = 1 /\ <<f>>[1] = f
    OBVIOUS
  <2>2. DOMAIN <<f>> = 1 .. 1
    BY <2>1
  <2>3. 1 .. 1 = {1}
    OBVIOUS
  <2> QED
    BY <2>1, <2>2, <2>3
<1>2. Cardinality({1}) = 1
  BY FS_Singleton
<1>3. SubSeq(<<f>>, 1, 1) = <<f>>
  <2>1. <<f>> \in Seq({f}) /\ Len(<<f>>) = 1
    OBVIOUS
  <2>2. \A q \in Seq({f}) : SubSeq(q, 1, Len(q)) = q
    OBVIOUS
  <2> QED
    BY <2>1, <2>2
<1> QED
  BY <1>1, <1>2, <1>3 DEF Pseudo

-------------------------------------------------------------------------------
(* The frames of a request *)

(* What HEADERS and DATA have in common: the request of a stream that is   *)
(* not ended is brought up to what the stream has carried, and kept or     *)
(* answered.                                                               *)
FrameRead(s, request, end) ==
  /\ \A t \in Streams \ {s} : sent'[t] = sent[t]
  /\ ~sent[s].ended /\ ~sent[s].reset
  /\ sent'[s].blocks # <<>> /\ sent'[s].ended = end /\ ~sent'[s].reset
  /\ request \in RequestStates(s)
  /\ request.headers = Carried(s)'
  /\ request.body = sent'[s].body
  /\ Proceed(s, request, end)

(* The request a frame finds in the map, or the new one.                   *)
LEMMA RequestFacts ==
  ASSUME IInv, open, NEW s \in Streams
  PROVE  /\ Request(s) \in RequestStates(s)
         /\ Sending(s) => Request(s).headers = Carried(s) /\ Request(s).body = sent[s].body
         /\ ~Started(s) => Request(s) = Blank /\ sent[s] = Idle
<1>1. s \in DOMAIN requests <=> Sending(s)
  BY DEF IInv, NothingLeftBehind
<1>2. Blank \in RequestStates(s)
  <2>1. <<>> \in Seq(Fields) /\ <<>> \in Seq(Chunks(s))
    OBVIOUS
  <2> QED
    BY <2>1 DEF Blank, RequestStates
<1> QED
  BY <1>1, <1>2 DEF IInv, TypeOK, RequestsInv, SentInv, Request, Sending

LEMMA HeadersRead ==
  ASSUME IInv, NEW s \in Streams, HeadersFrame(s)
  PROVE  /\ \E request, end : FrameRead(s, request, end)
         /\ \E block \in Seq(Fields), end \in BOOLEAN, left \in 0 .. MaxChunks :
              /\ sent' = [sent EXCEPT ![s] = [blocks |-> Append(sent[s].blocks, block),
                                              body |-> sent[s].body, left |-> left,
                                              ended |-> end, reset |-> FALSE]]
              /\ IF Started(s) THEN left = 0
                 ELSE MayStart(s) /\ \E target \in Targets : block = <<Head1(s, target)>>
              /\ emitted' = block
              /\ RecordPseudoHeaderOrder(block)
<1>1. PICK end \in BOOLEAN, target \in Targets, left \in 0 .. MaxChunks :
        LET block == IF Started(s) THEN <<Trailer(s)>> ELSE <<Head1(s, target)>>
        IN  /\ \/ MayStart(s) /\ (end => left = 0)
               \/ BodySent(s) /\ end /\ left = 0
            /\ DecodeBlock(block)
            /\ RecordPseudoHeaderOrder(emitted')
            /\ Proceed(s, [Request(s) EXCEPT !.headers = @ \cup AsSet(emitted'),
                                             !.fields = emitted',
                                             !.ended = end], end)
            /\ sent' = [sent EXCEPT ![s].blocks = Append(@, block),
                                    ![s].left = left,
                                    ![s].ended = end]
  BY DEF HeadersFrame
<1> DEFINE block == IF Started(s) THEN <<Trailer(s)>> ELSE <<Head1(s, target)>>
           request == [Request(s) EXCEPT !.headers = @ \cup AsSet(block),
                                         !.fields = block, !.ended = end]
<1>2. emitted' = block
  BY <1>1 DEF DecodeBlock
<1>3. /\ sent[s] \in [blocks : Seq(Seq(Fields)), body : Seq(Chunks(s)),
                      left : 0 .. MaxChunks, ended : BOOLEAN, reset : BOOLEAN]
      /\ DOMAIN sent = Streams
  BY DEF IInv, TypeOK
<1>4. ~sent[s].ended /\ ~sent[s].reset /\ (Started(s) => Sending(s) /\ left = 0)
  BY <1>1 DEF MayStart, BodySent, Sending, IInv, SentInv, Idle
<1>5. block \in Seq(Fields) /\ AsSet(block) \subseteq Fields
  <2>1. Trailer(s) \in Fields /\ Head1(s, target) \in Fields
    BY DEF Fields
  <2> QED
    BY <2>1 DEF AsSet
<1> HIDE DEF block
<1>6. sent' = [sent EXCEPT ![s] = [blocks |-> Append(sent[s].blocks, block),
                                   body |-> sent[s].body, left |-> left,
                                   ended |-> end, reset |-> FALSE]]
  <2>1. sent' = [sent EXCEPT ![s].blocks = Append(@, block),
                             ![s].left = left, ![s].ended = end]
    BY <1>1 DEF block
  <2>2. sent'[s] = [[[sent[s] EXCEPT !.blocks = Append(sent[s].blocks, block)]
                      EXCEPT !.left = left] EXCEPT !.ended = end]
    BY <1>3, <2>1
  <2>3. sent'[s] = [blocks |-> Append(sent[s].blocks, block), body |-> sent[s].body,
                    left |-> left, ended |-> end, reset |-> FALSE]
    BY <1>3, <1>4, <2>2
  <2>4. sent' = [sent EXCEPT ![s] = sent'[s]]
    BY <1>3, <2>1
  <2> QED
    BY <2>3, <2>4
<1>7. FrameRead(s, request, end)
  <2>1. Request(s) \in RequestStates(s) /\ open
    BY RequestFacts DEF HeadersFrame
  <2>2. /\ request \in RequestStates(s)
        /\ request.headers = Request(s).headers \cup AsSet(block)
        /\ request.body = Request(s).body
    BY <1>5, <2>1 DEF RequestStates
  <2>3. /\ sent'[s].blocks = Append(sent[s].blocks, block)
        /\ sent'[s].body = sent[s].body
        /\ sent'[s].ended = end /\ ~sent'[s].reset
        /\ \A t \in Streams \ {s} : sent'[t] = sent[t]
    BY <1>3, <1>6
  <2>4. AsSet(sent'[s].blocks) = AsSet(sent[s].blocks) \cup {block}
    BY <1>3, <1>5, <2>3, AsSetAppend
  <2>5. Carried(s)' = Carried(s) \cup AsSet(block)
    BY <2>4 DEF Carried
  <2>6. request.headers = Carried(s)' /\ request.body = sent'[s].body
    <3>1. CASE Started(s)
      BY <1>4, <2>1, <2>2, <2>3, <2>5, <3>1, RequestFacts
    <3>2. CASE ~Started(s)
      <4>1. Carried(s) = {}
        BY <3>2 DEF Carried, Started, AsSet
      <4> QED
        BY <2>1, <2>2, <2>3, <2>5, <3>2, <4>1, RequestFacts DEF Blank, Idle
    <3> QED
      BY <3>1, <3>2
  <2>7. sent'[s].blocks # <<>>
    <3>1. sent[s].blocks \in Seq(Seq(Fields))
      BY <1>3
    <3>2. Append(sent[s].blocks, block) # <<>>
      <4>1. \A S : \A q \in Seq(S) : \A x \in S : Append(q, x) # <<>>
        OBVIOUS
      <4> QED
        BY <1>5, <3>1, <4>1
    <3> QED
      BY <2>3, <3>2
  <2>8. Proceed(s, request, end)
    BY <1>1, <1>2 DEF block
  <2> QED
    BY <1>4, <2>2, <2>3, <2>6, <2>7, <2>8 DEF FrameRead
<1>8. IF Started(s) THEN left = 0
      ELSE MayStart(s) /\ \E t \in Targets : block = <<Head1(s, t)>>
  BY <1>1, <1>4 DEF block, BodySent, Sending
<1> QED
  BY <1>1, <1>2, <1>5, <1>6, <1>7, <1>8

LEMMA DataRead ==
  ASSUME IInv, NEW s \in Streams, DataFrame(s)
  PROVE  /\ \E request, end : FrameRead(s, request, end)
         /\ Started(s)
         /\ \E body \in Seq(Chunks(s)), end \in BOOLEAN, left \in 0 .. MaxChunks :
              /\ sent' = [sent EXCEPT ![s] = [blocks |-> sent[s].blocks,
                                              body |-> body, left |-> left,
                                              ended |-> end, reset |-> FALSE]]
              /\ Len(body) + left <= MaxChunks
<1>1. PICK end \in BOOLEAN, part \in Parts(s) :
        /\ MaySend(s, part, end)
        /\ Proceed(s, [Request(s) EXCEPT !.body = @ \o part, !.ended = end], end)
        /\ sent' = [sent EXCEPT ![s].body = @ \o part, ![s].left = @ - Len(part),
                                ![s].ended = end]
  BY DEF DataFrame
<1> DEFINE request == [Request(s) EXCEPT !.body = @ \o part, !.ended = end]
           left == sent[s].left - Len(part)
<1>2. /\ sent[s] \in [blocks : Seq(Seq(Fields)), body : Seq(Chunks(s)),
                      left : 0 .. MaxChunks, ended : BOOLEAN, reset : BOOLEAN]
      /\ DOMAIN sent = Streams
      /\ Len(sent[s].body) + sent[s].left <= MaxChunks
      /\ MaxChunks \in Nat
  BY LimitsAssumption DEF IInv, TypeOK, SentInv
<1>3. Started(s) /\ Sending(s) /\ ~sent[s].ended /\ ~sent[s].reset
  BY <1>1 DEF MaySend, BodySent, Sending
<1>4. /\ part \in Seq(Chunks(s))
      /\ left \in 0 .. MaxChunks
      /\ Len(sent[s].body \o part) + left <= MaxChunks
  <2>1. CASE part = Empty
    <3>1. Len(part) = 0 /\ part \in Seq(Chunks(s))
      BY <2>1 DEF Empty
    <3>2. left = sent[s].left
      BY <1>2, <3>1
    <3>3. sent[s].body \o part = sent[s].body
      BY <1>2, <2>1 DEF Empty
    <3> QED
      BY <1>2, <3>1, <3>2, <3>3
  <2>2. CASE part # Empty
    <3>1. part = <<Chunk(s, Len(sent[s].body) + 1)>> /\ sent[s].left > 0
      BY <1>1, <2>2 DEF Parts, MaySend
    <3>2. Len(sent[s].body) + 1 \in 1 .. MaxChunks
      BY <1>2, <3>1
    <3>3. Chunk(s, Len(sent[s].body) + 1) \in Chunks(s)
      BY <3>2 DEF Chunks
    <3>4. Len(part) = 1 /\ part \in Seq(Chunks(s))
      BY <3>1, <3>3
    <3>5. Len(sent[s].body \o part) = Len(sent[s].body) + 1
      <4>1. sent[s].body \in Seq(Chunks(s))
        BY <1>2
      <4>2. Len(sent[s].body \o part) = Len(sent[s].body) + Len(part)
        BY <3>4, <4>1, ConcatProperties, Zenon
      <4> QED
        BY <3>4, <4>2
    <3> QED
      BY <1>2, <3>1, <3>4, <3>5
  <2> QED
    BY <2>1, <2>2
<1> HIDE DEF left
<1>5. sent' = [sent EXCEPT ![s] = [blocks |-> sent[s].blocks,
                                   body |-> sent[s].body \o part, left |-> left,
                                   ended |-> end, reset |-> FALSE]]
  <2>1. sent'[s] = [[[sent[s] EXCEPT !.body = sent[s].body \o part]
                      EXCEPT !.left = left] EXCEPT !.ended = end]
    BY <1>1, <1>2 DEF left
  <2>2. sent'[s] = [blocks |-> sent[s].blocks, body |-> sent[s].body \o part,
                    left |-> left, ended |-> end, reset |-> FALSE]
    BY <1>2, <1>3, <2>1
  <2>3. sent' = [sent EXCEPT ![s] = sent'[s]]
    BY <1>1, <1>2
  <2> QED
    BY <2>2, <2>3
<1>6. sent[s].body \o part \in Seq(Chunks(s))
  BY <1>2, <1>4
<1>7. FrameRead(s, request, end)
  <2>1. /\ Request(s) \in RequestStates(s)
        /\ Request(s).headers = Carried(s) /\ Request(s).body = sent[s].body
    BY <1>3, RequestFacts DEF DataFrame
  <2>2. /\ request \in RequestStates(s)
        /\ request.headers = Request(s).headers
        /\ request.body = Request(s).body \o part
    <3>1. Request(s).body \o part \in Seq(Chunks(s))
      BY <1>6, <2>1
    <3> QED
      BY <2>1, <3>1 DEF RequestStates
  <2>3. /\ sent'[s].blocks = sent[s].blocks
        /\ sent'[s].body = sent[s].body \o part
        /\ sent'[s].ended = end /\ ~sent'[s].reset
        /\ \A t \in Streams \ {s} : sent'[t] = sent[t]
    BY <1>2, <1>5
  <2>4. Carried(s)' = Carried(s)
    BY <2>3 DEF Carried
  <2> QED
    BY <1>1, <1>3, <2>1, <2>2, <2>3, <2>4 DEF FrameRead, Started
<1> QED
  BY <1>3, <1>4, <1>5, <1>6, <1>7

(* One more capture, or as many as the model counts.                       *)
LEMMA HandledTypes ==
  ASSUME IInv, NEW request, Handled(request)
  PROVE  stored' \in 0 .. MaxCaptures
<1>1. MaxCaptures \in Nat /\ stored \in 0 .. MaxCaptures
  BY LimitsAssumption DEF IInv, TypeOK
<1>2. Min2(stored + 1, MaxCaptures) \in 0 .. MaxCaptures
  BY <1>1 DEF Min2
<1>3. stored' = stored \/ stored' = Min2(stored + 1, MaxCaptures)
  BY DEF Handled
<1> QED
  BY <1>1, <1>2, <1>3

(* A frame of a request keeps what the invariant says of requests and      *)
(* answers: those of other streams are as before.                          *)
LEMMA FrameKeeps ==
  ASSUME IInv, open, NEW s \in Streams, NEW request, NEW end, FrameRead(s, request, end)
  PROVE  /\ RequestsInv' /\ AnswersAreOwn' /\ AnsweredIffEnded' /\ NothingLeftBehind'
         /\ open' \in BOOLEAN /\ stored' \in 0 .. MaxCaptures
         /\ \A t \in DOMAIN requests' : requests'[t] \in RequestStates(t)
         /\ seen' = [seen EXCEPT !.left = TRUE] \/ seen' = seen
<1> USE DEF FrameRead
<1>1. /\ DOMAIN answers = {t \in Streams : sent[t].ended}
      /\ DOMAIN requests = {t \in Streams : Sending(t)}
      /\ s \notin DOMAIN answers
      /\ \A t \in DOMAIN requests : requests[t] \in RequestStates(t)
  BY DEF IInv, TypeOK, AnsweredIffEnded, NothingLeftBehind
<1>2. ASSUME NEW t \in Streams, t # s
      PROVE  sent'[t] = sent[t] /\ Carried(t)' = Carried(t) /\ (Sending(t)' <=> Sending(t))
  BY <1>2 DEF Carried, Sending, Started
<1>3. ASSUME NEW t \in DOMAIN answers
      PROVE  /\ t # s /\ t \in Streams
             /\ answers[t].headers = Carried(t)' /\ answers[t].body = sent'[t].body
             /\ sent'[t].ended
  BY <1>1, <1>2 DEF IInv, AnswersAreOwn
<1>4. CASE end /\ Respond(s, request)
  <2>1. /\ DOMAIN answers' = DOMAIN answers \cup {s}
        /\ answers'[s].headers = request.headers /\ answers'[s].body = request.body
        /\ \A t \in DOMAIN answers : answers'[t] = answers[t]
    BY <1>1, <1>4 DEF Respond, Assign
  <2>2. /\ DOMAIN requests' = DOMAIN requests \ {s}
        /\ \A t \in DOMAIN requests' : requests'[t] = requests[t]
    BY <1>4 DEF Respond, Delete
  <2>3. open' = open /\ seen' = seen /\ stored' \in 0 .. MaxCaptures
    BY <1>4, HandledTypes DEF Respond
  <2>4. ~Sending(s)'
    BY <1>4 DEF Sending
  <2>5. AnswersAreOwn' /\ \A t \in DOMAIN answers' : sent'[t].ended
    BY <1>3, <1>4, <2>1 DEF AnswersAreOwn
  <2>6. AnsweredIffEnded'
    BY <1>1, <1>2, <1>4, <2>1 DEF AnsweredIffEnded
  <2>7. NothingLeftBehind'
    BY <1>1, <1>2, <2>2, <2>4 DEF NothingLeftBehind
  <2>8. ASSUME NEW t \in DOMAIN requests'
        PROVE  /\ requests'[t].headers = Carried(t)' /\ requests'[t].body = sent'[t].body
               /\ requests'[t] \in RequestStates(t)
    BY <1>1, <1>2, <2>2 DEF IInv, RequestsInv
  <2> QED
    BY <2>3, <2>5, <2>6, <2>7, <2>8 DEF RequestsInv
<1>5. CASE end /\ RespondFails(request)
  <2>1. UNCHANGED <<requests, answers>> /\ open' = FALSE /\ seen' = [seen EXCEPT !.left = TRUE]
        /\ stored' \in 0 .. MaxCaptures
    BY <1>5, HandledTypes DEF RespondFails
  <2> QED
    BY <1>1, <1>3, <2>1 DEF RequestsInv, AnswersAreOwn, AnsweredIffEnded, NothingLeftBehind
<1>6. CASE /\ ~end
           /\ requests' = Assign(requests, s, request)
           /\ UNCHANGED <<open, answers, stored, seen>>
  <2>1. /\ DOMAIN requests' = DOMAIN requests \cup {s}
        /\ requests'[s] = request
        /\ \A t \in DOMAIN requests : t # s => requests'[t] = requests[t]
    BY <1>6 DEF Assign
  <2>2. Sending(s)'
    BY <1>6 DEF Sending, Started
  <2>3. AnswersAreOwn' /\ \A t \in DOMAIN answers' : sent'[t].ended
    BY <1>3, <1>6 DEF AnswersAreOwn
  <2>4. AnsweredIffEnded'
    BY <1>1, <1>2, <1>6 DEF AnsweredIffEnded
  <2>5. NothingLeftBehind'
    BY <1>1, <1>2, <2>1, <2>2 DEF NothingLeftBehind
  <2>6. ASSUME NEW t \in DOMAIN requests'
        PROVE  /\ requests'[t].headers = Carried(t)' /\ requests'[t].body = sent'[t].body
               /\ requests'[t] \in RequestStates(t)
    BY <1>1, <1>2, <2>1 DEF IInv, RequestsInv
  <2>7. open' \in BOOLEAN /\ stored' \in 0 .. MaxCaptures
    BY <1>6 DEF IInv, TypeOK
  <2> QED
    BY <1>6, <2>3, <2>4, <2>5, <2>6, <2>7 DEF RequestsInv
<1> QED
  BY <1>4, <1>5, <1>6 DEF Proceed

-------------------------------------------------------------------------------
(* The steps *)

(* Frames that belong to no request leave requests and answers alone.      *)
LEMMA RequestsUntouched ==
  ASSUME IInv, UNCHANGED <<requests, answers, sent>>, open' = open \/ open' = FALSE
  PROVE  /\ RequestsInv' /\ AnswersAreOwn' /\ AnsweredIffEnded' /\ NothingLeftBehind'
         /\ SentInv'
<1>1. \A s \in Streams : Carried(s)' = Carried(s) /\ (Sending(s)' <=> Sending(s))
                         /\ (Started(s)' <=> Started(s))
  BY DEF Carried, Sending, Started
<1>2. DOMAIN answers \subseteq Streams /\ DOMAIN requests \subseteq Streams
  BY DEF IInv, TypeOK
<1>3. RequestsInv'
  BY <1>1, <1>2 DEF IInv, RequestsInv
<1>4. AnswersAreOwn'
  BY <1>1, <1>2 DEF IInv, AnswersAreOwn
<1>5. AnsweredIffEnded' /\ NothingLeftBehind'
  BY <1>1 DEF IInv, AnsweredIffEnded, NothingLeftBehind
<1>6. SentInv'
  BY <1>1 DEF IInv, SentInv
<1> QED
  BY <1>3, <1>4, <1>5, <1>6

(* A prefix of a sequence stays one when the sequence grows.               *)
LEMMA PrefixAppended ==
  ASSUME NEW S, NEW T, NEW a \in Seq(S), NEW b \in Seq(T), NEW x, IsPrefix(a, b)
  PROVE  IsPrefix(a, Append(b, x))
<1> DEFINE n == Len(a)
           c == Append(b, x)
<1>1. n \in Nat /\ n <= Len(b) /\ SubSeq(a, 1, n) = SubSeq(b, 1, n)
  BY DEF IsPrefix
<1>2. c \in Seq(T \cup {x}) /\ Len(c) = Len(b) + 1
  BY AppendProperties, b \in Seq(T \cup {x})
<1>3. \A i \in 1 .. n : c[i] = b[i]
  BY <1>1
<1>4. SubSeq(c, 1, n) = SubSeq(b, 1, n)
  BY <1>1, <1>2, <1>3
<1> QED
  BY <1>1, <1>2, <1>4 DEF IsPrefix

LEMMA PrefixSelf ==
  ASSUME NEW S, NEW a \in Seq(S)
  PROVE  IsPrefix(a, a)
BY DEF IsPrefix

(* A tracker that only learns what it did not know agrees with all answers.*)
LEMMA AnswersUntouched ==
  ASSUME IInv, UNCHANGED answers,
         tracker.pseudo # <<>> => tracker'.pseudo = tracker.pseudo,
         tracker.settings # NoSettings => tracker'.settings = tracker.settings,
         tracker.window # 0 => tracker'.window = tracker.window,
         \/ tracker'.priorities = tracker.priorities
         \/ \E p : tracker'.priorities = Append(tracker.priorities, p)
  PROVE  AnswersInv'
<1>1. tracker.priorities \in Seq(1 .. MaxPriorities)
  BY DEF IInv, TypeOK
<1>2. \A s \in DOMAIN answers : IsPrefix(answers[s].http2.priorities, tracker'.priorities)
  <2> TAKE s \in DOMAIN answers
  <2>1. /\ answers[s].http2.priorities \in Seq(1 .. MaxPriorities)
        /\ IsPrefix(answers[s].http2.priorities, tracker.priorities)
    BY DEF IInv, AnswersInv
  <2> QED
    BY <1>1, <2>1, PrefixAppended
<1> QED
  BY <1>2 DEF IInv, AnswersInv

LEMMA PseudoKept ==
  ASSUME IInv, tracker'.pseudo = tracker.pseudo,
         \A s \in Streams : sent'[s].blocks = sent[s].blocks
  PROVE  PseudoInv'
<1>1. \A s \in Streams : Started(s)' <=> Started(s)
  BY DEF Started
<1>2. CASE \A s \in Streams : ~Started(s)
  BY <1>1, <1>2 DEF IInv, PseudoInv
<1>3. CASE \E s \in Streams : Started(s)
  <2>1. PICK s \in Streams : /\ Started(s) /\ \A t \in Streams : Started(t) => s <= t
                            /\ tracker.pseudo = sent[s].blocks[1]
    BY <1>3 DEF IInv, PseudoInv
  <2>2. /\ Started(s)' /\ \A t \in Streams : Started(t)' => s <= t
        /\ tracker'.pseudo = sent'[s].blocks[1]
    BY <1>1, <2>1
  <2> QED
    BY <2>2 DEF PseudoInv
<1> QED
  BY <1>2, <1>3

(* A stream whose blocks stay and whose body stays within its bound keeps  *)
(* what is known of it; the others do anyway.                              *)
LEMMA SentKept ==
  ASSUME IInv, NEW s \in Streams, Started(s),
         \A t \in Streams : t # s => sent'[t] = sent[t],
         sent'[s].blocks = sent[s].blocks,
         Len(sent'[s].body) + sent'[s].left <= MaxChunks
  PROVE  SentInv'
<1> SUFFICES ASSUME NEW t \in Streams
             PROVE  /\ ~Started(t)' => sent'[t] = Idle
                    /\ Len(sent'[t].body) + sent'[t].left <= MaxChunks
                    /\ Started(t)' => \E target \in Targets :
                                        sent'[t].blocks[1] = <<Head1(t, target)>>
  BY DEF SentInv
<1>1. CASE t = s
  BY <1>1 DEF IInv, SentInv, Started
<1>2. CASE t # s
  BY <1>2 DEF IInv, SentInv, Started
<1> QED
  BY <1>1, <1>2

LEMMA SettingsKeeps ==
  ASSUME IInv, SettingsFrame
  PROVE  IInv'
<1>1. PICK v \in Settings \cup {NoSettings} :
        RecordSettings(v) /\ seen' = [seen EXCEPT !.settings = Append(@, v)]
  BY DEF SettingsFrame
<1>2. UNCHANGED <<open, requests, emitted, answers, stored, sent>>
  BY DEF SettingsFrame
<1>3. /\ tracker \in [settings : Settings \cup {NoSettings}, window : Increments \cup {0},
                      priorities : Seq(1 .. MaxPriorities), pseudo : Seq(Fields)]
      /\ seen \in [settings : Seq(Settings \cup {NoSettings}), windows : Seq(Increments),
                   priorities : Seq(1 .. MaxPriorities), left : BOOLEAN]
      /\ TrackerInv
  BY DEF IInv, TypeOK
<1>4. /\ tracker' \in [settings : Settings \cup {NoSettings}, window : Increments \cup {0},
                       priorities : Seq(1 .. MaxPriorities), pseudo : Seq(Fields)]
      /\ tracker'.window = tracker.window /\ tracker'.priorities = tracker.priorities
      /\ tracker'.pseudo = tracker.pseudo
      /\ tracker'.settings = IF tracker.settings = NoSettings THEN v ELSE tracker.settings
  BY <1>1, <1>3 DEF RecordSettings
<1>5. /\ seen' \in [settings : Seq(Settings \cup {NoSettings}), windows : Seq(Increments),
                    priorities : Seq(1 .. MaxPriorities), left : BOOLEAN]
      /\ seen'.windows = seen.windows /\ seen'.priorities = seen.priorities
      /\ seen'.settings = Append(seen.settings, v)
  <2>1. Append(seen.settings, v) \in Seq(Settings \cup {NoSettings})
    BY <1>3
  <2> QED
    BY <1>1, <1>3, <2>1
<1>6. TypeOK'
  BY <1>2, <1>4, <1>5 DEF IInv, TypeOK
<1>7. TrackerInv'
  <2> DEFINE n == Len(seen.settings)
  <2>1. /\ n \in Nat /\ DOMAIN seen.settings = 1 .. n /\ DOMAIN seen'.settings = 1 .. n + 1
        /\ seen'.settings[n + 1] = v
        /\ \A i \in 1 .. n : seen'.settings[i] = seen.settings[i]
    BY <1>3, <1>5
  <2> HIDE DEF n
  <2>2. \A i \in 1 .. n + 1 : i \in 1 .. n \/ i = n + 1
    BY <2>1
  <2>3. \A i \in DOMAIN seen'.settings :
          seen'.settings[i] # NoSettings => tracker'.settings # NoSettings
    BY <1>3, <1>4, <2>1, <2>2 DEF TrackerInv
  <2>4. ASSUME tracker'.settings # NoSettings
        PROVE  \E i \in DOMAIN seen'.settings :
                 /\ seen'.settings[i] = tracker'.settings
                 /\ \A j \in 1 .. i - 1 : seen'.settings[j] = NoSettings
    <3>1. CASE tracker.settings = NoSettings
      <4>1. n + 1 \in DOMAIN seen'.settings /\ seen'.settings[n + 1] = tracker'.settings
        BY <1>4, <2>1, <3>1
      <4>2. \A j \in 1 .. n : seen'.settings[j] = NoSettings
        BY <1>3, <2>1, <3>1 DEF TrackerInv
      <4>3. (n + 1) - 1 = n
        BY <2>1
      <4> QED
        BY <4>1, <4>2, <4>3
    <3>2. CASE tracker.settings # NoSettings
      <4>1. PICK i \in DOMAIN seen.settings :
              /\ seen.settings[i] = tracker.settings
              /\ \A j \in 1 .. i - 1 : seen.settings[j] = NoSettings
        BY <1>3, <3>2 DEF TrackerInv
      <4>2. i \in DOMAIN seen'.settings /\ seen'.settings[i] = tracker'.settings
        BY <1>4, <2>1, <3>2, <4>1
      <4>3. \A j \in 1 .. i - 1 : seen'.settings[j] = NoSettings
        BY <2>1, <4>1
      <4> QED
        BY <4>2, <4>3
    <3> QED
      BY <3>1, <3>2
  <2> QED
    BY <1>2, <1>3, <1>4, <1>5, <2>3, <2>4 DEF TrackerInv, FirstOr
<1>8. AnswersInv'
  BY <1>2, <1>4, AnswersUntouched
<1>9. PseudoInv'
  BY <1>2, <1>4, PseudoKept
<1> QED
  BY <1>2, <1>6, <1>7, <1>8, <1>9, RequestsUntouched DEF IInv

LEMMA WindowUpdateKeeps ==
  ASSUME IInv, WindowUpdateFrame
  PROVE  IInv'
<1>1. PICK n \in Increments :
        RecordWindowUpdate(n) /\ seen' = [seen EXCEPT !.windows = Append(@, n)]
  BY DEF WindowUpdateFrame
<1>2. UNCHANGED <<open, requests, emitted, answers, stored, sent>>
  BY DEF WindowUpdateFrame
<1>3. /\ tracker \in [settings : Settings \cup {NoSettings}, window : Increments \cup {0},
                      priorities : Seq(1 .. MaxPriorities), pseudo : Seq(Fields)]
      /\ seen \in [settings : Seq(Settings \cup {NoSettings}), windows : Seq(Increments),
                   priorities : Seq(1 .. MaxPriorities), left : BOOLEAN]
      /\ TrackerInv
  BY DEF IInv, TypeOK
<1>4. /\ tracker' \in [settings : Settings \cup {NoSettings}, window : Increments \cup {0},
                       priorities : Seq(1 .. MaxPriorities), pseudo : Seq(Fields)]
      /\ tracker'.settings = tracker.settings /\ tracker'.priorities = tracker.priorities
      /\ tracker'.pseudo = tracker.pseudo
      /\ tracker'.window = IF tracker.window = 0 THEN n ELSE tracker.window
  BY <1>1, <1>3 DEF RecordWindowUpdate
<1>5. /\ seen' \in [settings : Seq(Settings \cup {NoSettings}), windows : Seq(Increments),
                    priorities : Seq(1 .. MaxPriorities), left : BOOLEAN]
      /\ seen'.settings = seen.settings /\ seen'.priorities = seen.priorities
      /\ seen'.windows = Append(seen.windows, n)
  <2>1. Append(seen.windows, n) \in Seq(Increments)
    BY <1>3
  <2> QED
    BY <1>1, <1>3, <2>1
<1>6. TypeOK'
  BY <1>2, <1>4, <1>5 DEF IInv, TypeOK
<1>7. tracker'.window = FirstOr(seen'.windows, 0)
  <2>1. seen.windows \in Seq(Increments) /\ tracker.window = FirstOr(seen.windows, 0)
    BY <1>3 DEF TrackerInv
  <2>2. CASE seen.windows = <<>>
    BY <1>4, <1>5, <2>1, <2>2 DEF FirstOr
  <2>3. CASE seen.windows # <<>>
    <3>1. Head(seen.windows) \in Increments /\ tracker.window = Head(seen.windows)
      BY <2>1, <2>3 DEF FirstOr
    <3>2. tracker.window # 0
      BY <3>1, IncrementsAssumption
    <3>3. Append(seen.windows, n) # <<>> /\ Head(Append(seen.windows, n)) = Head(seen.windows)
      BY <2>1, <2>3
    <3> QED
      BY <1>4, <1>5, <3>1, <3>2, <3>3 DEF FirstOr
  <2> QED
    BY <2>2, <2>3
<1>8. TrackerInv'
  BY <1>2, <1>3, <1>4, <1>5, <1>7 DEF TrackerInv
<1>9. AnswersInv'
  BY <1>2, <1>4, AnswersUntouched
<1>10. PseudoInv'
  BY <1>2, <1>4, PseudoKept
<1> QED
  BY <1>2, <1>6, <1>8, <1>9, <1>10, RequestsUntouched DEF IInv

LEMMA PriorityKeeps ==
  ASSUME IInv, PriorityFrame
  PROVE  IInv'
<1> DEFINE n == Len(seen.priorities)
           p == n + 1
<1>1. /\ Len(seen.priorities) < MaxPriorities
      /\ RecordPriority(p) /\ seen' = [seen EXCEPT !.priorities = Append(@, p)]
      /\ UNCHANGED <<open, requests, emitted, answers, stored, sent>>
  BY DEF PriorityFrame
<1>2. /\ tracker \in [settings : Settings \cup {NoSettings}, window : Increments \cup {0},
                      priorities : Seq(1 .. MaxPriorities), pseudo : Seq(Fields)]
      /\ seen \in [settings : Seq(Settings \cup {NoSettings}), windows : Seq(Increments),
                   priorities : Seq(1 .. MaxPriorities), left : BOOLEAN]
      /\ TrackerInv
  BY DEF IInv, TypeOK
<1>3. /\ seen.priorities \in Seq(1 .. MaxPriorities) /\ n \in Nat
      /\ tracker.priorities \in Seq(1 .. MaxPriorities)
      /\ p \in 1 .. MaxPriorities
      /\ MaxPriorities \in Nat /\ PriorityLimit \in Nat /\ PriorityLimit >= 1
  <2>1. /\ seen.priorities \in Seq(1 .. MaxPriorities)
        /\ tracker.priorities \in Seq(1 .. MaxPriorities)
    BY <1>2
  <2>2. n \in Nat /\ n < MaxPriorities
    BY <1>1, <2>1
  <2>3. MaxPriorities \in Nat /\ PriorityLimit \in Nat /\ PriorityLimit >= 1
    BY LimitsAssumption
  <2> HIDE DEF n
  <2>4. p \in 1 .. MaxPriorities
    BY <2>2, <2>3
  <2> QED
    BY <2>1, <2>2, <2>3, <2>4
<1>4. tracker.priorities = SubSeq(seen.priorities, 1, Min2(n, PriorityLimit))
  BY <1>2 DEF TrackerInv
<1> HIDE DEF n
<1>5. /\ Append(seen.priorities, p) \in Seq(1 .. MaxPriorities)
      /\ Append(tracker.priorities, p) \in Seq(1 .. MaxPriorities)
      /\ Len(Append(seen.priorities, p)) = n + 1
  BY <1>3 DEF n
<1>6. /\ seen' \in [settings : Seq(Settings \cup {NoSettings}), windows : Seq(Increments),
                    priorities : Seq(1 .. MaxPriorities), left : BOOLEAN]
      /\ seen'.settings = seen.settings /\ seen'.windows = seen.windows
      /\ seen'.priorities = Append(seen.priorities, p)
  BY <1>1, <1>2, <1>5
<1>7. /\ tracker' \in [settings : Settings \cup {NoSettings}, window : Increments \cup {0},
                       priorities : Seq(1 .. MaxPriorities), pseudo : Seq(Fields)]
      /\ tracker'.settings = tracker.settings /\ tracker'.window = tracker.window
      /\ tracker'.pseudo = tracker.pseudo
      /\ tracker'.priorities = IF Len(tracker.priorities) < PriorityLimit
                               THEN Append(tracker.priorities, p) ELSE tracker.priorities
  BY <1>1, <1>2, <1>5 DEF RecordPriority
<1>8. /\ tracker'.priorities
           = SubSeq(seen'.priorities, 1, Min2(Len(seen'.priorities), PriorityLimit))
      /\ Len(tracker'.priorities) <= PriorityLimit
  <2>1. CASE n < PriorityLimit
    <3>1. Min2(n, PriorityLimit) = n
      BY <1>3, <2>1 DEF Min2
    <3>2. tracker.priorities = seen.priorities
      BY <1>3, <1>4, <3>1 DEF n
    <3>3. tracker'.priorities = Append(seen.priorities, p)
      BY <1>7, <2>1, <3>2 DEF n
    <3>4. Min2(n + 1, PriorityLimit) = n + 1
      BY <1>3, <2>1 DEF Min2
    <3>5. SubSeq(Append(seen.priorities, p), 1, n + 1) = Append(seen.priorities, p)
      BY <1>3, <1>5
    <3> QED
      BY <1>3, <1>5, <1>6, <2>1, <3>3, <3>4, <3>5
  <2>2. CASE ~(n < PriorityLimit)
    <3>1. Min2(n, PriorityLimit) = PriorityLimit /\ Min2(n + 1, PriorityLimit) = PriorityLimit
      BY <1>3, <2>2 DEF Min2
    <3>2. Len(tracker.priorities) = PriorityLimit
      BY <1>3, <1>4, <2>2, <3>1 DEF n
    <3>3. tracker'.priorities = tracker.priorities
      BY <1>3, <1>7, <3>2
    <3>4. SubSeq(Append(seen.priorities, p), 1, PriorityLimit)
          = SubSeq(seen.priorities, 1, PriorityLimit)
      BY <1>3, <2>2 DEF n
    <3>5. Min2(Len(seen'.priorities), PriorityLimit) = PriorityLimit
      BY <1>5, <1>6, <3>1
    <3>6. tracker.priorities = SubSeq(seen'.priorities, 1, PriorityLimit)
      BY <1>4, <1>6, <3>1, <3>4
    <3> QED
      BY <1>3, <3>2, <3>3, <3>5, <3>6
  <2> QED
    BY <2>1, <2>2
<1>9. TypeOK'
  BY <1>1, <1>6, <1>7, <1>8 DEF IInv, TypeOK
<1>10. TrackerInv'
  BY <1>1, <1>2, <1>6, <1>7, <1>8 DEF TrackerInv
<1>11. AnswersInv'
  BY <1>1, <1>7, AnswersUntouched
<1>12. PseudoInv'
  BY <1>1, <1>7, PseudoKept
<1> QED
  BY <1>1, <1>9, <1>10, <1>11, <1>12, RequestsUntouched DEF IInv

(* What ends the connection, or happens outside it.                        *)
LEMMA EndKeeps ==
  ASSUME IInv, Leave \/ Expire \/ OtherConnections \/ UNCHANGED vars
  PROVE  IInv'
<1>1. /\ UNCHANGED <<requests, emitted, tracker, answers, sent>>
      /\ open' = open \/ open' = FALSE
      /\ seen' = [seen EXCEPT !.left = TRUE] \/ seen' = seen
  BY DEF Leave, Expire, OtherConnections, vars
<1>2. stored' \in 0 .. MaxCaptures
  <2>1. MaxCaptures \in Nat /\ stored \in 0 .. MaxCaptures
    BY LimitsAssumption DEF IInv, TypeOK
  <2>2. stored' = stored \/ stored' = 0 \/ (stored < MaxCaptures /\ stored' = stored + 1)
    BY DEF Leave, Expire, OtherConnections, vars
  <2> QED
    BY <2>1, <2>2
<1>3. seen \in [settings : Seq(Settings \cup {NoSettings}), windows : Seq(Increments),
                priorities : Seq(1 .. MaxPriorities), left : BOOLEAN]
  BY DEF IInv, TypeOK
<1>4. /\ seen' \in [settings : Seq(Settings \cup {NoSettings}), windows : Seq(Increments),
                    priorities : Seq(1 .. MaxPriorities), left : BOOLEAN]
      /\ seen'.settings = seen.settings /\ seen'.windows = seen.windows
      /\ seen'.priorities = seen.priorities
  BY <1>1, <1>3
<1>5. TypeOK'
  BY <1>1, <1>2, <1>4 DEF IInv, TypeOK
<1>6. TrackerInv'
  BY <1>1, <1>4 DEF IInv, TrackerInv
<1>7. AnswersInv'
  BY <1>1, AnswersUntouched
<1>8. PseudoInv'
  BY <1>1, PseudoKept
<1> QED
  BY <1>1, <1>5, <1>6, <1>7, <1>8, RequestsUntouched DEF IInv

(* A stream may be reset while its request is in the map or after it was   *)
(* answered.                                                               *)
LEMMA ResetKeeps ==
  ASSUME IInv, NEW s \in Streams, RSTStreamFrame(s)
  PROVE  IInv'
<1>1. /\ open /\ Started(s) /\ ~sent[s].reset
      /\ requests' = Delete(requests, s)
      /\ sent' = [sent EXCEPT ![s].reset = TRUE]
      /\ UNCHANGED <<open, emitted, tracker, answers, stored, seen>>
  BY DEF RSTStreamFrame, ForgetRequest
<1>2. /\ DOMAIN sent = Streams
      /\ \A t \in Streams :
           sent[t] \in [blocks : Seq(Seq(Fields)), body : Seq(Chunks(t)),
                       left : 0 .. MaxChunks, ended : BOOLEAN, reset : BOOLEAN]
      /\ DOMAIN answers \subseteq Streams
  BY DEF IInv, TypeOK
<1>3. /\ DOMAIN sent' = Streams
      /\ \A t \in Streams :
           /\ sent'[t] \in [blocks : Seq(Seq(Fields)), body : Seq(Chunks(t)),
                            left : 0 .. MaxChunks, ended : BOOLEAN, reset : BOOLEAN]
           /\ sent'[t].blocks = sent[t].blocks /\ sent'[t].body = sent[t].body
           /\ sent'[t].left = sent[t].left /\ sent'[t].ended = sent[t].ended
           /\ t # s => sent'[t] = sent[t]
      /\ sent'[s].reset
  BY <1>1, <1>2
<1>4. /\ DOMAIN requests' = DOMAIN requests \ {s}
      /\ \A t \in DOMAIN requests' : requests'[t] = requests[t]
  BY <1>1 DEF Delete
<1>5. \A t \in Streams : /\ Carried(t)' = Carried(t)
                         /\ Started(t)' <=> Started(t)
                         /\ Sending(t)' <=> Sending(t) /\ t # s
  BY <1>3 DEF Carried, Started, Sending
<1>6. TypeOK'
  BY <1>1, <1>3, <1>4 DEF IInv, TypeOK
<1>7. SentInv'
  BY <1>1, <1>2, <1>3, SentKept DEF IInv, SentInv
<1>8. NothingLeftBehind' /\ AnsweredIffEnded'
  BY <1>1, <1>3, <1>4, <1>5 DEF IInv, NothingLeftBehind, AnsweredIffEnded
<1>9. AnswersAreOwn'
  BY <1>1, <1>2, <1>3, <1>5 DEF IInv, AnswersAreOwn
<1>10. RequestsInv'
  <2>1. DOMAIN requests \subseteq Streams
    BY DEF IInv, TypeOK
  <2> QED
    BY <1>1, <1>2, <1>3, <1>4, <1>5, <2>1 DEF IInv, RequestsInv
<1>11. TrackerInv'
  BY <1>1 DEF IInv, TrackerInv
<1>12. AnswersInv'
  BY <1>1, AnswersUntouched
<1>13. PseudoInv'
  BY <1>1, <1>3, PseudoKept
<1> QED
  BY <1>6, <1>7, <1>8, <1>9, <1>10, <1>11, <1>12, <1>13 DEF IInv

(* An answer is given what the tracker knows by then.                      *)
LEMMA FrameAnswers ==
  ASSUME IInv, NEW s \in Streams, NEW request, NEW end, Proceed(s, request, end),
         tracker'.pseudo # <<>>,
         tracker.pseudo # <<>> => tracker'.pseudo = tracker.pseudo,
         tracker'.settings = tracker.settings, tracker'.window = tracker.window,
         tracker'.priorities = tracker.priorities
  PROVE  AnswersInv' /\ DOMAIN answers' \subseteq Streams
<1>1. CASE Respond(s, request)
  <2>1. /\ DOMAIN answers' = DOMAIN answers \cup {s}
        /\ answers'[s].http2 = tracker'
        /\ \A t \in DOMAIN answers : t # s => answers'[t] = answers[t]
    BY <1>1 DEF Respond, Assign
  <2>2. /\ tracker.priorities \in Seq(1 .. MaxPriorities)
        /\ IsPrefix(tracker.priorities, tracker.priorities)
    BY PrefixSelf DEF IInv, TypeOK
  <2> QED
    BY <2>1, <2>2 DEF IInv, TypeOK, AnswersInv
<1>2. CASE UNCHANGED answers
  <2>1. AnswersInv'
    BY <1>2, AnswersUntouched
  <2> QED
    BY <1>2, <2>1 DEF IInv, TypeOK
<1> QED
  BY <1>1, <1>2 DEF Proceed, RespondFails

LEMMA HeadersKeeps ==
  ASSUME IInv, NEW s \in Streams, HeadersFrame(s)
  PROVE  IInv'
<1>1. open
  BY DEF HeadersFrame
<1>2. PICK request, end : FrameRead(s, request, end)
  BY HeadersRead
<1>3. PICK block \in Seq(Fields), ended \in BOOLEAN, left \in 0 .. MaxChunks :
        /\ sent' = [sent EXCEPT ![s] = [blocks |-> Append(sent[s].blocks, block),
                                        body |-> sent[s].body, left |-> left,
                                        ended |-> ended, reset |-> FALSE]]
        /\ IF Started(s) THEN left = 0
           ELSE MayStart(s) /\ \E target \in Targets : block = <<Head1(s, target)>>
        /\ emitted' = block
        /\ RecordPseudoHeaderOrder(block)
  BY HeadersRead
<1>4. /\ DOMAIN sent = Streams
      /\ \A t \in Streams :
           sent[t] \in [blocks : Seq(Seq(Fields)), body : Seq(Chunks(t)),
                       left : 0 .. MaxChunks, ended : BOOLEAN, reset : BOOLEAN]
      /\ tracker \in [settings : Settings \cup {NoSettings}, window : Increments \cup {0},
                      priorities : Seq(1 .. MaxPriorities), pseudo : Seq(Fields)]
      /\ seen \in [settings : Seq(Settings \cup {NoSettings}), windows : Seq(Increments),
                   priorities : Seq(1 .. MaxPriorities), left : BOOLEAN]
  BY DEF IInv, TypeOK
<1>5. /\ Append(sent[s].blocks, block) # <<>>
      /\ Append(sent[s].blocks, block) \in Seq(Seq(Fields))
      /\ Append(sent[s].blocks, block)[1] = IF Started(s) THEN sent[s].blocks[1] ELSE block
  <2>1. sent[s].blocks \in Seq(Seq(Fields))
    BY <1>4
  <2> QED
    BY <2>1, AppendFirst DEF Started
<1>6. /\ DOMAIN sent' = Streams
      /\ \A t \in Streams :
           /\ sent'[t] \in [blocks : Seq(Seq(Fields)), body : Seq(Chunks(t)),
                            left : 0 .. MaxChunks, ended : BOOLEAN, reset : BOOLEAN]
           /\ t # s => sent'[t] = sent[t]
      /\ sent'[s].blocks # <<>>
      /\ Started(s) => sent'[s].blocks[1] = sent[s].blocks[1]
      /\ ~Started(s) => sent'[s].blocks[1] = block
      /\ sent'[s].body = sent[s].body /\ sent'[s].left = left
  BY <1>3, <1>4, <1>5
<1>7. ASSUME NEW t \in Streams
      PROVE  /\ Started(t)' <=> Started(t) \/ t = s
             /\ t # s => sent'[t].blocks[1] = sent[t].blocks[1]
  BY <1>6 DEF Started
<1>7a. \A t \in Streams :
        /\ ~Started(t) => sent[t] = Idle
        /\ Len(sent[t].body) + sent[t].left <= MaxChunks
        /\ Started(t) => \E target \in Targets : sent[t].blocks[1] = <<Head1(t, target)>>
  BY DEF IInv, SentInv
<1>8. SentInv'
  <2> SUFFICES ASSUME NEW t \in Streams
               PROVE  /\ ~Started(t)' => sent'[t] = Idle
                      /\ Len(sent'[t].body) + sent'[t].left <= MaxChunks
                      /\ Started(t)' => \E target \in Targets :
                                          sent'[t].blocks[1] = <<Head1(t, target)>>
    BY DEF SentInv
  <2>1. CASE t # s
    <3>1. sent'[t] = sent[t] /\ (Started(t)' <=> Started(t))
      BY <1>6, <1>7, <2>1
    <3> QED
      BY <1>7a, <3>1
  <2>2. CASE t = s
    <3>1. \E target \in Targets : sent'[s].blocks[1] = <<Head1(s, target)>>
      <4>1. CASE Started(s)
        BY <1>6, <1>7a, <4>1
      <4>2. CASE ~Started(s)
        BY <1>3, <1>6, <4>2
      <4> QED
        BY <4>1, <4>2
    <3>2. Len(sent'[s].body) + sent'[s].left <= MaxChunks
      <4>1. CASE Started(s)
        <5>1. /\ Len(sent[s].body) \in Nat /\ sent[s].left \in Nat /\ MaxChunks \in Nat
              /\ Len(sent[s].body) + sent[s].left <= MaxChunks
          <6>1. sent[s].body \in Seq(Chunks(s)) /\ sent[s].left \in 0 .. MaxChunks
            BY <1>4
          <6> QED
            BY <1>7a, <6>1, LimitsAssumption
        <5> QED
          BY <1>3, <1>6, <4>1, <5>1
      <4>2. CASE ~Started(s)
        <5>1. sent[s].body = <<>>
          BY <1>7a, <4>2 DEF Idle
        <5> QED
          BY <1>6, <5>1, LimitsAssumption
      <4> QED
        BY <4>1, <4>2
    <3> QED
      BY <1>7, <2>2, <3>1, <3>2
  <2> QED
    BY <2>1, <2>2
<1>9. ASSUME NEW t \in Streams, Started(t)
      PROVE  sent[t].blocks[1] # <<>> /\ sent'[t].blocks[1] = sent[t].blocks[1]
  <2>1. \E target \in Targets : sent[t].blocks[1] = <<Head1(t, target)>>
    BY <1>7a, <1>9
  <2>2. sent'[t].blocks[1] = sent[t].blocks[1]
    BY <1>6, <1>7, <1>9
  <2> QED
    BY <2>1, <2>2
<1>10. /\ tracker' \in [settings : Settings \cup {NoSettings}, window : Increments \cup {0},
                        priorities : Seq(1 .. MaxPriorities), pseudo : Seq(Fields)]
       /\ tracker'.settings = tracker.settings /\ tracker'.window = tracker.window
       /\ tracker'.priorities = tracker.priorities
       /\ tracker.pseudo # <<>> => tracker'.pseudo = tracker.pseudo
       /\ tracker'.pseudo # <<>>
       /\ PseudoInv'
  <2>1. CASE tracker.pseudo # <<>>
    <3>1. tracker' = tracker
      BY <1>3, <2>1 DEF RecordPseudoHeaderOrder
    <3>2. PICK t \in Streams : /\ Started(t) /\ \A u \in Streams : Started(u) => t <= u
                              /\ tracker.pseudo = sent[t].blocks[1]
      BY <2>1 DEF IInv, PseudoInv
    <3>3. t <= s
      BY <1>3, <3>2, StreamsAssumption DEF MayStart
    <3>4. /\ Started(t)' /\ \A u \in Streams : Started(u)' => t <= u
          /\ tracker'.pseudo = sent'[t].blocks[1]
      BY <1>7, <1>9, <3>1, <3>2, <3>3
    <3>5. PseudoInv'
      BY <3>4 DEF PseudoInv
    <3> QED
      BY <1>4, <2>1, <3>1, <3>5
  <2>2. CASE tracker.pseudo = <<>>
    <3>1. \A t \in Streams : ~Started(t)
      BY <1>9, <2>2 DEF IInv, PseudoInv
    <3>2. PICK target \in Targets : block = <<Head1(s, target)>>
      BY <1>3, <3>1
    <3>3. Pseudo(block) = block
      BY <3>2, PseudoOfOne DEF Head1
    <3>4. tracker' = [tracker EXCEPT !.pseudo = block]
      BY <1>3, <2>2, <3>3 DEF RecordPseudoHeaderOrder
    <3>5. /\ Started(s)' /\ \A u \in Streams : Started(u)' => s <= u
          /\ tracker'.pseudo = sent'[s].blocks[1]
      <4>1. Started(s)' /\ tracker'.pseudo = sent'[s].blocks[1]
        BY <1>4, <1>6, <1>7, <3>1, <3>4
      <4>2. \A u \in Streams : Started(u)' => u = s
        BY <1>4, <1>6, <1>7, <3>1
      <4>3. s <= s
        BY StreamsAssumption
      <4> QED
        BY <4>1, <4>2, <4>3
    <3>6. PseudoInv'
      BY <3>5 DEF PseudoInv
    <3> QED
      BY <1>4, <2>2, <3>2, <3>4, <3>6
  <2> QED
    BY <2>1, <2>2
<1>11. /\ RequestsInv' /\ AnswersAreOwn' /\ AnsweredIffEnded' /\ NothingLeftBehind'
       /\ open' \in BOOLEAN /\ stored' \in 0 .. MaxCaptures
       /\ \A t \in DOMAIN requests' : requests'[t] \in RequestStates(t)
       /\ seen' = [seen EXCEPT !.left = TRUE] \/ seen' = seen
  BY <1>1, <1>2, FrameKeeps
<1>12. /\ seen' \in [settings : Seq(Settings \cup {NoSettings}), windows : Seq(Increments),
                     priorities : Seq(1 .. MaxPriorities), left : BOOLEAN]
       /\ seen'.settings = seen.settings /\ seen'.windows = seen.windows
       /\ seen'.priorities = seen.priorities
  BY <1>4, <1>11
<1>13. TrackerInv'
  BY <1>10, <1>12 DEF IInv, TrackerInv
<1>14. AnswersInv' /\ DOMAIN answers' \subseteq Streams
  BY <1>2, <1>10, FrameAnswers DEF FrameRead
<1>15. DOMAIN requests' \subseteq Streams
  <2>1. DOMAIN requests' \subseteq DOMAIN requests \cup {s}
    BY <1>2 DEF FrameRead, Proceed, Respond, RespondFails, Assign, Delete
  <2> QED
    BY <2>1 DEF IInv, TypeOK
<1>16. TypeOK'
  <2>1. Len(tracker'.priorities) <= PriorityLimit /\ emitted' \in Seq(Fields)
    BY <1>3, <1>10 DEF IInv, TypeOK
  <2> QED
    BY <1>6, <1>10, <1>11, <1>12, <1>14, <1>15, <2>1 DEF TypeOK
<1> QED
  BY <1>8, <1>10, <1>11, <1>13, <1>14, <1>16 DEF IInv

LEMMA DataKeeps ==
  ASSUME IInv, NEW s \in Streams, DataFrame(s)
  PROVE  IInv'
<1>1. open /\ UNCHANGED <<emitted, tracker>> /\ Started(s)
  BY DataRead DEF DataFrame
<1>2. PICK request, end : FrameRead(s, request, end)
  BY DataRead
<1>3. PICK body \in Seq(Chunks(s)), left \in 0 .. MaxChunks, ended \in BOOLEAN :
        /\ sent' = [sent EXCEPT ![s] = [blocks |-> sent[s].blocks, body |-> body,
                                        left |-> left, ended |-> ended, reset |-> FALSE]]
        /\ Len(body) + left <= MaxChunks
  BY DataRead
<1>4. /\ DOMAIN sent = Streams
      /\ \A t \in Streams :
           sent[t] \in [blocks : Seq(Seq(Fields)), body : Seq(Chunks(t)),
                       left : 0 .. MaxChunks, ended : BOOLEAN, reset : BOOLEAN]
  BY DEF IInv, TypeOK
<1>5. /\ DOMAIN sent' = Streams
      /\ \A t \in Streams :
           /\ sent'[t] \in [blocks : Seq(Seq(Fields)), body : Seq(Chunks(t)),
                            left : 0 .. MaxChunks, ended : BOOLEAN, reset : BOOLEAN]
           /\ sent'[t].blocks = sent[t].blocks
           /\ t # s => sent'[t] = sent[t]
      /\ Len(sent'[s].body) + sent'[s].left <= MaxChunks
  BY <1>3, <1>4
<1>6. PseudoInv'
  BY <1>1, <1>5, PseudoKept
<1>7. /\ RequestsInv' /\ AnswersAreOwn' /\ AnsweredIffEnded' /\ NothingLeftBehind'
      /\ open' \in BOOLEAN /\ stored' \in 0 .. MaxCaptures
      /\ \A t \in DOMAIN requests' : requests'[t] \in RequestStates(t)
      /\ seen' = [seen EXCEPT !.left = TRUE] \/ seen' = seen
  BY <1>1, <1>2, FrameKeeps
<1>8. SentInv'
  BY <1>1, <1>5, SentKept
<1>9. seen \in [settings : Seq(Settings \cup {NoSettings}), windows : Seq(Increments),
                priorities : Seq(1 .. MaxPriorities), left : BOOLEAN]
  BY DEF IInv, TypeOK
<1>10. /\ seen' \in [settings : Seq(Settings \cup {NoSettings}), windows : Seq(Increments),
                     priorities : Seq(1 .. MaxPriorities), left : BOOLEAN]
       /\ seen'.settings = seen.settings /\ seen'.windows = seen.windows
       /\ seen'.priorities = seen.priorities
  BY <1>7, <1>9
<1>11. TrackerInv'
  BY <1>1, <1>10 DEF IInv, TrackerInv
<1>12. tracker.pseudo # <<>>
  <2>1. PICK t \in Streams : Started(t) /\ tracker.pseudo = sent[t].blocks[1]
    BY <1>1 DEF IInv, PseudoInv
  <2>2. \E target : sent[t].blocks[1] = <<Head1(t, target)>>
    BY <2>1 DEF IInv, SentInv
  <2> QED
    BY <2>1, <2>2
<1>13. AnswersInv' /\ DOMAIN answers' \subseteq Streams
  BY <1>1, <1>2, <1>12, FrameAnswers DEF FrameRead
<1>14. DOMAIN requests' \subseteq Streams
  <2>1. DOMAIN requests' \subseteq DOMAIN requests \cup {s}
    BY <1>2 DEF FrameRead, Proceed, Respond, RespondFails, Assign, Delete
  <2> QED
    BY <2>1 DEF IInv, TypeOK
<1>15. TypeOK'
  BY <1>1, <1>5, <1>7, <1>10, <1>13, <1>14 DEF IInv, TypeOK
<1> QED
  BY <1>6, <1>7, <1>8, <1>11, <1>13, <1>15 DEF IInv

LEMMA InitInv == Init => IInv
<1> SUFFICES ASSUME Init PROVE IInv
  OBVIOUS
<1> USE DEF Init
<1>1. \A s \in Streams : sent[s] = Idle /\ ~Started(s) /\ ~Sending(s)
  BY DEF Idle, Started, Sending
<1>2. DOMAIN requests = {} /\ DOMAIN answers = {}
  OBVIOUS
<1>3. TypeOK
  <2>1. \A T : <<>> \in Seq(T)
    OBVIOUS
  <2>2. MaxChunks \in Nat /\ MaxCaptures \in Nat /\ PriorityLimit \in Nat
    BY LimitsAssumption
  <2>3. \A s \in Streams :
          sent[s] \in [blocks : Seq(Seq(Fields)), body : Seq(Chunks(s)),
                      left : 0 .. MaxChunks, ended : BOOLEAN, reset : BOOLEAN]
    BY <2>1, <2>2 DEF Idle
  <2>4. tracker \in [settings : Settings \cup {NoSettings}, window : Increments \cup {0},
                    priorities : Seq(1 .. MaxPriorities), pseudo : Seq(Fields)]
    BY <2>1
  <2>5. seen \in [settings : Seq(Settings \cup {NoSettings}), windows : Seq(Increments),
                 priorities : Seq(1 .. MaxPriorities), left : BOOLEAN]
    BY <2>1
  <2>6. Len(tracker.priorities) <= PriorityLimit
    BY <2>2
  <2> QED
    BY <1>2, <2>1, <2>2, <2>3, <2>4, <2>5, <2>6 DEF TypeOK
<1>4. SentInv
  BY <1>1, LimitsAssumption DEF SentInv, Idle
<1>5. TrackerInv
  <2>1. Min2(0, PriorityLimit) = 0
    BY LimitsAssumption DEF Min2
  <2>2. SubSeq(<<>>, 1, 0) = <<>>
    OBVIOUS
  <2> QED
    BY <2>1, <2>2 DEF TrackerInv, FirstOr, NoSettings
<1>6. PseudoInv /\ AnswersInv /\ RequestsInv
  BY <1>1, <1>2 DEF PseudoInv, AnswersInv, RequestsInv
<1>7. AnswersAreOwn /\ AnsweredIffEnded /\ NothingLeftBehind
  BY <1>1, <1>2 DEF AnswersAreOwn, AnsweredIffEnded, NothingLeftBehind, Idle
<1> QED
  BY <1>3, <1>4, <1>5, <1>6, <1>7 DEF IInv

LEMMA NextKeeps == IInv /\ [Next]_vars => IInv'
BY SettingsKeeps, WindowUpdateKeeps, PriorityKeeps, HeadersKeeps, DataKeeps,
   ResetKeeps, EndKeeps DEF Next

(* What replies are made of: the other half of the invariant.              *)
LEMMA InitShown == Init => ShownInv
BY DEF Init, ShownInv

(* The blocks a stream has carried are never forgotten; a reply is made of *)
(* one of them if its request's last frame left one in it.                 *)
LEMMA FrameShows ==
  ASSUME IInv, ShownInv, open, NEW s \in Streams, NEW request, NEW end,
         Proceed(s, request, end),
         request.fields \in AsSet(sent'[s].blocks),
         \A t \in Streams : AsSet(sent[t].blocks) \subseteq AsSet(sent'[t].blocks)
  PROVE  ShownInv'
<1>1. DOMAIN requests \subseteq Streams /\ DOMAIN answers \subseteq Streams
  BY DEF IInv, TypeOK
<1>2. \A t \in DOMAIN requests : requests[t].fields \in AsSet(sent'[t].blocks)
  BY <1>1 DEF ShownInv
<1>3. \A t \in DOMAIN answers : answers[t].fields \in AsSet(sent'[t].blocks)
  BY <1>1 DEF ShownInv
<1>4. CASE end /\ Respond(s, request)
  <2>1. /\ DOMAIN answers' = DOMAIN answers \cup {s}
        /\ answers'[s].fields = request.fields
        /\ \A t \in DOMAIN answers : t # s => answers'[t] = answers[t]
    BY <1>4 DEF Respond, Assign
  <2>2. /\ DOMAIN requests' = DOMAIN requests \ {s}
        /\ \A t \in DOMAIN requests' : requests'[t] = requests[t]
    BY <1>4 DEF Respond, Delete
  <2>3. \A t \in DOMAIN answers' : answers'[t].fields \in AsSet(sent'[t].blocks)
    BY <1>3, <2>1
  <2> QED
    BY <1>2, <2>2, <2>3 DEF ShownInv
<1>5. CASE end /\ RespondFails(request)
  BY <1>3, <1>5 DEF RespondFails, ShownInv
<1>6. CASE /\ ~end
           /\ requests' = Assign(requests, s, request)
           /\ UNCHANGED <<open, answers, stored, seen>>
  <2>1. /\ DOMAIN requests' = DOMAIN requests \cup {s}
        /\ requests'[s] = request
        /\ \A t \in DOMAIN requests : t # s => requests'[t] = requests[t]
    BY <1>6 DEF Assign
  <2> QED
    BY <1>2, <1>3, <1>6, <2>1 DEF ShownInv
<1> QED
  BY <1>4, <1>5, <1>6 DEF Proceed

LEMMA HeadersShows ==
  ASSUME IInv, IInv', ShownInv, NEW s \in Streams, HeadersFrame(s)
  PROVE  ShownInv'
<1>1. PICK end \in BOOLEAN, target \in Targets :
        LET block == IF Started(s) THEN <<Trailer(s)>> ELSE <<Head1(s, target)>>
        IN  /\ DecodeBlock(block)
            /\ Proceed(s, [Request(s) EXCEPT !.headers = @ \cup AsSet(emitted'),
                                             !.fields = emitted',
                                             !.ended = end], end)
  BY DEF HeadersFrame
<1>2. PICK block \in Seq(Fields), ended \in BOOLEAN, left \in 0 .. MaxChunks :
        /\ sent' = [sent EXCEPT ![s] = [blocks |-> Append(sent[s].blocks, block),
                                        body |-> sent[s].body, left |-> left,
                                        ended |-> ended, reset |-> FALSE]]
        /\ emitted' = block
  BY HeadersRead
<1> DEFINE request == [Request(s) EXCEPT !.headers = @ \cup AsSet(emitted'),
                                         !.fields = emitted', !.ended = end]
<1>3. open /\ Proceed(s, request, end)
  BY <1>1 DEF HeadersFrame
<1>4. request.fields = block
  <2>1. Request(s) \in RequestStates(s)
    BY <1>3, RequestFacts
  <2> QED
    BY <1>2, <2>1 DEF RequestStates
<1>5. DOMAIN sent = Streams /\ \A t \in Streams : sent[t].blocks \in Seq(Seq(Fields))
  BY DEF IInv, TypeOK
<1>6. /\ sent'[s].blocks = Append(sent[s].blocks, block)
      /\ \A t \in Streams : t # s => sent'[t].blocks = sent[t].blocks
  BY <1>2, <1>5
<1>7. AsSet(sent'[s].blocks) = AsSet(sent[s].blocks) \cup {block}
  BY <1>5, <1>6, AsSetAppend
<1> HIDE DEF request
<1>8. \A t \in Streams : AsSet(sent[t].blocks) \subseteq AsSet(sent'[t].blocks)
  BY <1>6, <1>7
<1> QED
  BY <1>3, <1>4, <1>7, <1>8, FrameShows

LEMMA DataShows ==
  ASSUME IInv, IInv', ShownInv, NEW s \in Streams, DataFrame(s)
  PROVE  ShownInv'
<1>1. PICK end \in BOOLEAN, part \in Parts(s) :
        Proceed(s, [Request(s) EXCEPT !.body = @ \o part, !.ended = end], end)
  BY DEF DataFrame
<1> DEFINE request == [Request(s) EXCEPT !.body = @ \o part, !.ended = end]
<1>2. PICK body \in Seq(Chunks(s)), ended \in BOOLEAN, left \in 0 .. MaxChunks :
        sent' = [sent EXCEPT ![s] = [blocks |-> sent[s].blocks, body |-> body,
                                     left |-> left, ended |-> ended, reset |-> FALSE]]
  BY DataRead
<1>3. open /\ Proceed(s, request, end)
  BY <1>1 DEF DataFrame
<1>4. s \in DOMAIN requests
  <2>1. Sending(s)
    <3>1. \E end1 \in BOOLEAN, part1 \in Parts(s) : MaySend(s, part1, end1)
      BY DEF DataFrame
    <3> QED
      BY <3>1 DEF MaySend, BodySent
  <2> QED
    BY <1>3, <2>1 DEF IInv, NothingLeftBehind
<1>5. request.fields = requests[s].fields
  <2>1. Request(s) \in RequestStates(s)
    BY <1>3, RequestFacts
  <2>2. request.fields = Request(s).fields
    BY <2>1 DEF RequestStates
  <2> QED
    BY <1>4, <2>2 DEF Request
<1>6. DOMAIN sent = Streams
  BY DEF IInv, TypeOK
<1>7. \A t \in Streams : sent'[t].blocks = sent[t].blocks
  BY <1>2, <1>6
<1>8. requests[s].fields \in AsSet(sent'[s].blocks)
  BY <1>3, <1>4, <1>7 DEF ShownInv
<1> HIDE DEF request
<1> QED
  BY <1>3, <1>5, <1>7, <1>8, FrameShows

(* The frames that answer nothing.                                         *)
LEMMA OthersShow ==
  ASSUME IInv, ShownInv, UNCHANGED answers,
         open' => open,
         DOMAIN requests' \subseteq DOMAIN requests,
         \A s \in DOMAIN requests' : requests'[s] = requests[s],
         \A s \in Streams : sent'[s].blocks = sent[s].blocks
  PROVE  ShownInv'
<1>1. DOMAIN requests \subseteq Streams /\ DOMAIN answers \subseteq Streams
  BY DEF IInv, TypeOK
<1> QED
  BY <1>1 DEF ShownInv

LEMMA NextShows == IInv /\ ShownInv /\ [Next]_vars => ShownInv'
<1> SUFFICES ASSUME IInv, ShownInv, [Next]_vars
             PROVE  ShownInv'
  OBVIOUS
<1>1. IInv'
  BY NextKeeps
<1>2. CASE UNCHANGED vars \/ SettingsFrame \/ WindowUpdateFrame \/ PriorityFrame
           \/ Leave \/ Expire \/ OtherConnections
  <2>1. UNCHANGED <<answers, requests, sent>> /\ (open' => open)
    BY <1>2 DEF vars, SettingsFrame, WindowUpdateFrame, PriorityFrame, Leave, Expire,
                OtherConnections
  <2> QED
    BY <2>1, OthersShow
<1>3. ASSUME NEW s \in Streams, RSTStreamFrame(s)
      PROVE  ShownInv'
  <2>1. /\ UNCHANGED <<answers, open>>
        /\ requests' = Delete(requests, s)
        /\ sent' = [sent EXCEPT ![s].reset = TRUE]
    BY <1>3 DEF RSTStreamFrame, ForgetRequest
  <2>2. /\ DOMAIN requests' \subseteq DOMAIN requests
        /\ \A t \in DOMAIN requests' : requests'[t] = requests[t]
    BY <2>1 DEF Delete
  <2>3. \A t \in Streams : sent'[t].blocks = sent[t].blocks
    BY <2>1 DEF IInv, TypeOK
  <2> QED
    BY <2>1, <2>2, <2>3, OthersShow
<1> QED
  BY <1>1, <1>2, <1>3, HeadersShows, DataShows DEF Next

-------------------------------------------------------------------------------
(* The theorems *)

(* Invariance: IInv is an inductive invariant of a connection.             *)
THEOREM Invariance == Spec => []IInv
<1>1. Init => IInv
  BY InitInv
<1>2. IInv /\ [Next]_vars => IInv'
  BY NextKeeps
<1> QED
  BY <1>1, <1>2, PTL DEF Spec

(* TypeCorrect: every variable keeps its type; the list of priorities is   *)
(* never longer than its limit, and no request holds a part of another's   *)
(* body (common.go:42, http2.go:122-127).                                  *)
THEOREM TypeCorrect == Spec => []TypeOK
<1>1. IInv => TypeOK
  BY DEF IInv
<1> QED
  BY <1>1, Invariance, PTL

(* RequestsSeparate: whatever the interleaving of streams, the router sees *)
(* of a request exactly what its own stream carried (http2.go:100-110,127).*)
THEOREM RequestsSeparate == Spec => []AnswersAreOwn
<1>1. IInv => AnswersAreOwn
  BY DEF IInv
<1> QED
  BY <1>1, Invariance, PTL

(* AnsweredAtEnd: while the connection lasts, the requests answered are    *)
(* exactly those that have ended (http2.go:115-120, 129-134, 146-147).     *)
THEOREM AnsweredAtEnd == Spec => []AnsweredIffEnded
<1>1. IInv => AnsweredIffEnded
  BY DEF IInv
<1> QED
  BY <1>1, Invariance, PTL

(* MapHoldsOpen: the map holds a request for exactly the streams the       *)
(* client is still sending on (http2.go:64, 119, 133, 147).                *)
THEOREM MapHoldsOpen == Spec => []NothingLeftBehind
<1>1. IInv => NothingLeftBehind
  BY DEF IInv
<1> QED
  BY <1>1, Invariance, PTL

(* What is captured last is the tracker as it is then, and AnswersInv says *)
(* that the tracker has lost nothing of what was captured before.          *)
LEMMA NextLearns ==
  ASSUME IInv, IInv', Next, NEW s \in DOMAIN answers
  PROVE  /\ s \in DOMAIN answers' /\ answers'[s] = answers[s]
         /\ \A t \in DOMAIN answers' \ DOMAIN answers :
              Extends(answers'[t].http2, answers[s].http2)
<1>1. CASE UNCHANGED answers
  BY <1>1
<1>2. CASE \E u \in Streams : HeadersFrame(u) \/ DataFrame(u)
  <2>1. PICK u \in Streams : HeadersFrame(u) \/ DataFrame(u)
    BY <1>2
  <2>2. PICK request, end : FrameRead(u, request, end)
    BY <2>1, HeadersRead, DataRead
  <2>3. CASE UNCHANGED answers
    BY <2>3
  <2>4. CASE Respond(u, request)
    <3>1. u \notin DOMAIN answers
      BY <2>2 DEF FrameRead, IInv, RequestsInv
    <3>2. /\ DOMAIN answers' = DOMAIN answers \cup {u}
          /\ answers'[u].http2 = tracker'
          /\ answers'[s] = answers[s]
      BY <2>4, <3>1 DEF Respond, Assign
    <3>3. /\ tracker'.pseudo = answers[s].http2.pseudo
          /\ answers[s].http2.settings \in {NoSettings, tracker'.settings}
          /\ answers[s].http2.window \in {0, tracker'.window}
          /\ IsPrefix(answers[s].http2.priorities, tracker'.priorities)
      BY <3>2 DEF IInv, AnswersInv
    <3> QED
      BY <3>2, <3>3 DEF Extends
  <2> QED
    BY <2>2, <2>3, <2>4 DEF FrameRead, Proceed, RespondFails
<1> QED
  BY <1>1, <1>2 DEF Next, SettingsFrame, WindowUpdateFrame, PriorityFrame, RSTStreamFrame,
                    Leave, Expire, OtherConnections

(* OneFingerprint: each capture of a connection tells all that the earlier *)
(* ones told, in the same order, and may only add to it                    *)
(* (common.go:25-56, http2.go:114-116, 130).                               *)
THEOREM OneFingerprint == Spec => CapturesOnlyLearn
<1>1. IInv /\ IInv' /\ [Next]_vars =>
        [\A s \in DOMAIN answers :
           /\ s \in DOMAIN answers' /\ answers'[s] = answers[s]
           /\ \A t \in DOMAIN answers' \ DOMAIN answers :
                Extends(answers'[t].http2, answers[s].http2)]_vars
  BY NextLearns
<1> QED
  BY <1>1, Invariance, PTL DEF Spec, CapturesOnlyLearn

(* The first SETTINGS frame that holds any is the one that no other comes  *)
(* before.                                                                 *)
LEMMA FirstSettingsIs ==
  ASSUME NEW S, NEW frames \in Seq(S), NEW i \in DOMAIN frames,
         frames[i] # NoSettings, \A j \in 1 .. i - 1 : frames[j] = NoSettings
  PROVE  FirstSettings(frames) = frames[i]
<1> DEFINE real == {k \in DOMAIN frames : frames[k] # NoSettings}
<1>1. i \in real /\ \A k \in real : i <= k
  OBVIOUS
<1>2. real \subseteq Nat
  OBVIOUS
<1> HIDE DEF real
<1>3. Min(real) = i
  BY <1>1, <1>2 DEF Min
<1> QED
  BY <1>1, <1>3 DEF FirstSettings, real

LEMMA FirstsKept ==
  ASSUME IInv
  PROVE  TrackerKeepsFirst
<1>1. seen.settings \in Seq(Settings \cup {NoSettings})
  BY DEF IInv, TypeOK
<1>2. tracker.settings = FirstSettings(seen.settings)
  <2>1. CASE tracker.settings = NoSettings
    <3>1. {i \in DOMAIN seen.settings : seen.settings[i] # NoSettings} = {}
      BY <2>1 DEF IInv, TrackerInv
    <3> QED
      BY <2>1, <3>1 DEF FirstSettings
  <2>2. CASE tracker.settings # NoSettings
    <3>1. PICK i \in DOMAIN seen.settings :
            /\ seen.settings[i] = tracker.settings
            /\ \A j \in 1 .. i - 1 : seen.settings[j] = NoSettings
      BY <2>2 DEF IInv, TrackerInv
    <3> QED
      BY <1>1, <2>2, <3>1, FirstSettingsIs
  <2> QED
    BY <2>1, <2>2
<1> DEFINE started == {s \in Streams : Started(s)}
<1>3. tracker.pseudo =
        IF started = {} THEN <<>>
        ELSE sent[CHOOSE s \in started : \A t \in started : s <= t].blocks[1]
  <2>1. CASE \A s \in Streams : ~Started(s)
    <3>1. started = {} /\ tracker.pseudo = <<>>
      BY <2>1 DEF IInv, PseudoInv
    <3> QED
      BY <3>1
  <2>2. CASE \E s \in Streams : Started(s)
    <3>1. PICK s \in Streams : /\ Started(s) /\ \A t \in Streams : Started(t) => s <= t
                              /\ tracker.pseudo = sent[s].blocks[1]
      BY <2>2 DEF IInv, PseudoInv
    <3>2. s \in started /\ \A t \in started : s <= t
      BY <3>1
    <3>3. started \subseteq Nat
      BY StreamsAssumption
    <3> HIDE DEF started
    <3> DEFINE least == CHOOSE u \in started : \A t \in started : u <= t
    <3>4. least \in started /\ \A t \in started : least <= t
      BY <3>2
    <3>5. least = s
      <4>1. least <= s /\ s <= least /\ least \in Nat /\ s \in Nat
        BY <3>2, <3>3, <3>4
      <4> HIDE DEF least
      <4> QED
        BY <4>1
    <3> QED
      BY <3>1, <3>2, <3>5
  <2> QED
    BY <2>1, <2>2
<1> QED
  BY <1>2, <1>3 DEF IInv, TrackerInv, TrackerKeepsFirst

(* FirstOnesKept: the fingerprint is made of the first settings, the first *)
(* window increment, the first priorities and the first request's pseudo-  *)
(* header order, whatever comes later (common.go:25-56).                   *)
THEOREM FirstOnesKept == Spec => []TrackerKeepsFirst
<1>1. IInv => TrackerKeepsFirst
  BY FirstsKept
<1> QED
  BY <1>1, Invariance, PTL

-------------------------------------------------------------------------------
(* The frames shown *)

(* The frames of a reply: no two of one type, and of each type these.      *)
Are(frames, type) == {f \in AsSet(frames) : f.type = type}
Distinct(frames) == \A i, j \in DOMAIN frames : frames[i].type = frames[j].type => i = j
EachOnce(frames, settings, updates, headers) ==
  /\ Distinct(frames)
  /\ Are(frames, "SETTINGS") = settings
  /\ Are(frames, "WINDOW_UPDATE") = updates
  /\ Are(frames, "HEADERS") = headers

LEMMA OneMore ==
  ASSUME NEW T, NEW frames \in Seq(T), Distinct(frames), NEW f \in T,
         \A g \in AsSet(frames) : g.type # f.type
  PROVE  /\ frames \o <<f>> \in Seq(T) /\ Distinct(frames \o <<f>>)
         /\ AsSet(frames \o <<f>>) = AsSet(frames) \cup {f}
<1>1. frames \o <<f>> = Append(frames, f)
  BY AppendIsConcat
<1>2. PICK more : more = Append(frames, f)
  OBVIOUS
<1>3. AsSet(more) = AsSet(frames) \cup {f}
  BY <1>2, AsSetAppend
<1>4. /\ more \in Seq(T) /\ DOMAIN more = 1 .. Len(frames) + 1 /\ Len(frames) \in Nat
      /\ more[Len(frames) + 1] = f
      /\ \A i \in 1 .. Len(frames) : more[i] = frames[i] /\ i \in DOMAIN frames
  BY <1>2
<1>5. \A i \in 1 .. Len(frames) : more[i].type # f.type
  BY <1>4 DEF AsSet
<1>6. \A i \in DOMAIN more : i \in 1 .. Len(frames) \/ i = Len(frames) + 1
  BY <1>4
<1>7. Distinct(more)
  BY <1>4, <1>5, <1>6 DEF Distinct
<1> QED
  BY <1>1, <1>2, <1>3, <1>4, <1>7

(* At most one frame of each type, put together as SentFrames does.        *)
LEMMA Together ==
  ASSUME NEW a, NEW b, NEW h, NEW withA \in BOOLEAN, NEW withB \in BOOLEAN,
         a.type = "SETTINGS", b.type = "WINDOW_UPDATE", h.type = "HEADERS"
  PROVE  EachOnce((IF withA THEN <<a>> ELSE <<>>)
                    \o (IF withB THEN <<b>> ELSE <<>>) \o <<h>>,
                  IF withA THEN {a} ELSE {}, IF withB THEN {b} ELSE {}, {h})
<1> DEFINE T == {a, b, h}
           As == IF withA THEN <<a>> ELSE <<>>
           Bs == IF withB THEN <<b>> ELSE <<>>
<1>1. a \in T /\ b \in T /\ h \in T
  OBVIOUS
<1>2. a.type # b.type /\ a.type # h.type /\ b.type # h.type
  OBVIOUS
<1> HIDE DEF T
<1>3. As \in Seq(T) /\ Distinct(As) /\ AsSet(As) = IF withA THEN {a} ELSE {}
  BY <1>1 DEF Distinct, AsSet
<1> HIDE DEF As
<1>4. /\ As \o Bs \in Seq(T) /\ Distinct(As \o Bs)
      /\ AsSet(As \o Bs) = AsSet(As) \cup IF withB THEN {b} ELSE {}
  <2>1. CASE withB
    <3>1. Bs = <<b>> /\ \A g \in AsSet(As) : g.type # b.type
      BY <1>2, <1>3, <2>1
    <3> HIDE DEF Bs
    <3> QED
      BY <1>1, <1>3, <2>1, <3>1, OneMore
  <2>2. CASE ~withB
    <3>1. As \o Bs = As
      BY <1>3, <2>2
    <3> HIDE DEF Bs
    <3> QED
      BY <1>3, <2>2, <3>1
  <2> QED
    BY <2>1, <2>2
<1> HIDE DEF Bs
<1>5. \A g \in AsSet(As \o Bs) : g.type # h.type
  BY <1>2, <1>3, <1>4
<1>6. PICK frames : frames = As \o Bs \o <<h>>
  OBVIOUS
<1>7. /\ Distinct(frames)
      /\ AsSet(frames) = (IF withA THEN {a} ELSE {}) \cup (IF withB THEN {b} ELSE {}) \cup {h}
  <2>1. PICK both : both = As \o Bs
    OBVIOUS
  <2>2. frames = both \o <<h>>
    BY <1>6, <2>1, Zenon
  <2>3. /\ both \in Seq(T) /\ Distinct(both) /\ \A g \in AsSet(both) : g.type # h.type
        /\ AsSet(both) = AsSet(As) \cup IF withB THEN {b} ELSE {}
    BY <1>4, <1>5, <2>1, Zenon
  <2>4. Distinct(both \o <<h>>) /\ AsSet(both \o <<h>>) = AsSet(both) \cup {h}
    BY <1>1, <2>3, OneMore
  <2> QED
    BY <1>3, <2>2, <2>3, <2>4, Zenon
<1>8. /\ Are(frames, "SETTINGS") = IF withA THEN {a} ELSE {}
      /\ Are(frames, "WINDOW_UPDATE") = IF withB THEN {b} ELSE {}
      /\ Are(frames, "HEADERS") = {h}
  BY <1>7 DEF Are
<1>9. EachOnce(frames, IF withA THEN {a} ELSE {}, IF withB THEN {b} ELSE {}, {h})
  BY <1>7, <1>8, Zenon DEF EachOnce
<1> QED
  BY <1>6, <1>9, Zenon DEF As, Bs

LEMMA ShownAsSent ==
  ASSUME IInv, ShownInv
  PROVE  FramesAsSent
<1> SUFFICES ASSUME NEW s \in DOMAIN answers
             PROVE  \E block \in AsSet(sent[s].blocks) :
                      EachOnce(SentFrames(Fingerprint(answers[s].http2), answers[s].fields),
                        IF answers[s].http2.settings = NoSettings THEN {}
                        ELSE {[type |-> "SETTINGS",
                               settings |-> FirstSettings(seen.settings)]},
                        IF answers[s].http2.window = 0 THEN {}
                        ELSE {[type |-> "WINDOW_UPDATE", increment |-> Head(seen.windows)]},
                        {[type |-> "HEADERS", fields |-> block]})
  BY Zenon DEF FramesAsSent, EachOnce, Are, Distinct
<1>1. PICK told, fields : told = answers[s].http2 /\ fields = answers[s].fields
  OBVIOUS
<1>2. /\ told.settings \in {NoSettings, tracker.settings}
      /\ told.window \in {0, tracker.window}
      /\ told.pseudo = tracker.pseudo
      /\ told.priorities \in Seq(1 .. MaxPriorities)
      /\ fields \in AsSet(sent[s].blocks)
  BY <1>1 DEF IInv, AnswersInv, ShownInv
<1>3. /\ told.settings \in Seq(Nat \X Nat) /\ told.window \in Nat
      /\ told.priorities \in Seq(Nat) /\ told.pseudo \in Seq(Fields)
  <2>1. /\ tracker.settings \in Settings \cup {NoSettings}
        /\ tracker.window \in Increments \cup {0}
        /\ tracker.pseudo \in Seq(Fields)
    BY DEF IInv, TypeOK
  <2>2. NoSettings \in Seq(Nat \X Nat)
    BY DEF NoSettings
  <2>3. 1 .. MaxPriorities \subseteq Nat
    BY LimitsAssumption
  <2>4. told.priorities \in Seq(Nat)
    <3>1. \A q \in Seq(1 .. MaxPriorities) : q \in Seq(Nat)
      BY <2>3, SeqMonotonic, Zenon
    <3> QED
      BY <1>2, <3>1
  <2>5. told.settings \in Seq(Nat \X Nat)
    BY <1>2, <2>1, <2>2, SettingsAssumption, Zenon
  <2>6. told.window \in Nat
    <3>1. tracker.window \in Increments \cup {0}
      BY DEF IInv, TypeOK
    <3>2. \A n \in Increments \cup {0} : n \in Nat
      BY IncrementsAssumption
    <3> QED
      BY <1>2, <3>1, <3>2
  <2>7. told.pseudo \in Seq(Fields)
    BY <1>2, <2>1
  <2> QED
    BY <2>4, <2>5, <2>6, <2>7
<1>4. /\ told.settings # NoSettings => told.settings = FirstSettings(seen.settings)
      /\ told.window # 0 => told.window = Head(seen.windows)
  <2>1. TrackerKeepsFirst
    BY FirstsKept
  <2> QED
    BY <1>2, <2>1 DEF TrackerKeepsFirst, FirstOr
<1>5. PICK parsed : parsed = parseAkamaiFingerprint(Fingerprint(told))
  OBVIOUS
<1>6. /\ parsed.settings = told.settings
      /\ WindowUpdateSent(parsed.increment) <=> told.window # 0
      /\ told.window # 0 => mustAtoi(parsed.increment) = told.window
  BY <1>3, <1>5, PrintReadBack, Zenon
<1> DEFINE a == [type |-> "SETTINGS", settings |-> parsed.settings]
           b == [type |-> "WINDOW_UPDATE", increment |-> mustAtoi(parsed.increment)]
           h == [type |-> "HEADERS", fields |-> fields]
           withA == told.settings # NoSettings
           withB == told.window # 0
           frames == (IF withA THEN <<a>> ELSE <<>>)
                       \o (IF withB THEN <<b>> ELSE <<>>) \o <<h>>
<1>7. SentFrames(Fingerprint(told), fields) = frames
  <2>1. SentFrames(Fingerprint(told), fields) =
          (IF parsed.settings = <<>> THEN <<>> ELSE <<a>>)
            \o (IF ~WindowUpdateSent(parsed.increment) THEN <<>> ELSE <<b>>) \o <<h>>
    BY <1>5, Zenon DEF SentFrames
  <2> HIDE DEF a, b, h
  <2>2. (IF parsed.settings = <<>> THEN <<>> ELSE <<a>>) = IF withA THEN <<a>> ELSE <<>>
    BY <1>6 DEF NoSettings
  <2>3. (IF ~WindowUpdateSent(parsed.increment) THEN <<>> ELSE <<b>>)
          = IF withB THEN <<b>> ELSE <<>>
    BY <1>6
  <2> HIDE DEF withA, withB
  <2> QED
    BY <2>1, <2>2, <2>3, Zenon
<1>8. EachOnce(frames, IF withA THEN {a} ELSE {}, IF withB THEN {b} ELSE {}, {h})
  <2>1. /\ a.type = "SETTINGS" /\ b.type = "WINDOW_UPDATE" /\ h.type = "HEADERS"
        /\ withA \in BOOLEAN /\ withB \in BOOLEAN
    OBVIOUS
  <2> HIDE DEF a, b, h, withA, withB
  <2> QED
    BY <2>1, Together
<1> HIDE DEF frames
<1>9. /\ withA => a = [type |-> "SETTINGS", settings |-> FirstSettings(seen.settings)]
      /\ withB => b = [type |-> "WINDOW_UPDATE", increment |-> Head(seen.windows)]
  BY <1>4, <1>6
<1>10. EachOnce(frames,
         IF told.settings = NoSettings THEN {}
         ELSE {[type |-> "SETTINGS", settings |-> FirstSettings(seen.settings)]},
         IF told.window = 0 THEN {}
         ELSE {[type |-> "WINDOW_UPDATE", increment |-> Head(seen.windows)]},
         {h})
  <2>1. (IF withA THEN {a} ELSE {}) =
          IF told.settings = NoSettings THEN {}
          ELSE {[type |-> "SETTINGS", settings |-> FirstSettings(seen.settings)]}
    BY <1>9
  <2>2. (IF withB THEN {b} ELSE {}) =
          IF told.window = 0 THEN {}
          ELSE {[type |-> "WINDOW_UPDATE", increment |-> Head(seen.windows)]}
    BY <1>9
  <2> HIDE DEF a, b, h, withA, withB
  <2> QED
    BY <1>8, <2>1, <2>2, Zenon
<1> QED
  BY <1>1, <1>2, <1>7, <1>10, Zenon DEF h

(* FramesShown: the frames /api/all tells, parsed back from the print of   *)
(* the fingerprint, are the first SETTINGS, the first WINDOW_UPDATE and a  *)
(* block of the request's own stream, each once and no other               *)
(* (service.go:191-236, 551-572; common.go:58-93).                         *)
THEOREM FramesShown == Spec => []FramesAsSent
<1>1. Init => ShownInv
  BY InitShown
<1>2. IInv /\ ShownInv /\ [Next]_vars => ShownInv'
  BY NextShows
<1>3. IInv /\ ShownInv => FramesAsSent
  BY ShownAsSent
<1> QED
  BY <1>1, <1>2, <1>3, Invariance, PTL DEF Spec
===============================================================================
