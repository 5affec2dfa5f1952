---------------------------- MODULE Http1ConnProofs ----------------------------
(***************************************************************************)
(* Machine-checked proofs about Http1Conn, for any clients, connections    *)
(* and loads.                                                              *)
(*                                                                         *)
(* The argument: on each connection the replies on their way, the request  *)
(* that is served and those that are to be read are, in this order, what   *)
(* the client waits for (InStep), so the next reply is to the oldest       *)
(* request; and a request is not sent again while a try of it is waited    *)
(* for, or once it is answered (Waits).  What is true of a reply when its  *)
(* call takes effect (Sound) stays true, because nothing the replies speak *)
(* of is ever taken back (Monotone): within an era the log only grows, and *)
(* the answer to a request never changes.                                  *)
(***************************************************************************)
EXTENDS Http1Conn, SequenceTheorems, TLAPS

-------------------------------------------------------------------------------
(* Data *)

(* Bytes that are no reply are not a reply.                                *)
LEMMA NoReplyIsNone == NoReply \notin Replies
<1> SUFFICES ASSUME NoReply \in Replies PROVE FALSE
  OBVIOUS
<1>1. DOMAIN NoReply = {"of"}
  BY DEF NoReply
<1>2. "era" \in DOMAIN NoReply
  BY DEF Replies
<1> QED
  BY <1>1, <1>2

LEMMA AppendEach ==
  ASSUME NEW S, NEW s \in Seq(S), NEW x \in S, NEW i \in DOMAIN Append(s, x)
  PROVE  \/ i \in DOMAIN s /\ Append(s, x)[i] = s[i] /\ s[i] \in S
         \/ i = Len(s) + 1 /\ Append(s, x)[i] = x
OBVIOUS

LEMMA TailEach ==
  ASSUME NEW S, NEW s \in Seq(S), s # <<>>
  PROVE  /\ Head(s) = s[1] /\ s[1] \in S /\ Tail(s) \in Seq(S)
         /\ Len(s) \in Nat /\ Len(s) >= 1 /\ Len(Tail(s)) = Len(s) - 1
         /\ 1 \in DOMAIN s
         /\ \A i \in DOMAIN Tail(s) :
              i \in Nat /\ i >= 1 /\ i + 1 \in DOMAIN s /\ Tail(s)[i] = s[i + 1]
OBVIOUS

LEMMA LoadFacts ==
  ASSUME IInv
  PROVE  /\ load.kind \in [Requests -> Kinds] /\ load.tries \in [Requests -> 0 .. MaxTries]
         /\ load.ahead \in Nat /\ load.ways \subseteq Ways
BY LoadsAssumption DEF IInv, TypeOK, Load

(* The call a request makes is one of the store's, or none.                *)
LEMMA StoreCallFacts ==
  ASSUME IInv, NEW t \in Tries
  PROVE  /\ load.kind[t[1]] = "messages" => StoreCall(t) = Taking(t)
         /\ load.kind[t[1]] = "captures" => StoreCall(t) = [op |-> "snapshot"]
         /\ load.kind[t[1]] = "reset" => StoreCall(t) = [op |-> "reset"]
         /\ load.kind[t[1]] \in {"other", "head"} => StoreCall(t) = Log!NoCall
         /\ load.kind[t[1]] \in Kinds /\ t[1] \in Requests
         /\ StoreCall(t).op = "append" => load.kind[t[1]] = "messages" /\ StoreCall(t).record = t
         /\ StoreCall(t).op = "snapshot" => load.kind[t[1]] = "captures"
         /\ StoreCall(t).op = "reset" => load.kind[t[1]] = "reset"
<1>1. t[1] \in Requests /\ load.kind[t[1]] \in Kinds
  BY LoadFacts DEF Tries
<1>2. CASE load.kind[t[1]] = "messages"
  BY <1>2, <1>1 DEF StoreCall, Taking
<1>3. CASE load.kind[t[1]] = "captures"
  BY <1>3, <1>1 DEF StoreCall
<1>4. CASE load.kind[t[1]] = "reset"
  BY <1>4, <1>1 DEF StoreCall
<1>5. CASE load.kind[t[1]] \in {"other", "head"}
  BY <1>5, <1>1 DEF StoreCall, Log!NoCall
<1> QED
  BY <1>1, <1>2, <1>3, <1>4, <1>5 DEF Kinds

LEMMA CallFacts ==
  /\ Log!NoCall.op = "none"
  /\ \A t : Taking(t).op = "append" /\ Taking(t).record = t /\ Taking(t) # Log!NoCall
BY DEF Log!NoCall, Taking

-------------------------------------------------------------------------------
(* What every step keeps *)

(* Nothing that a reply speaks of is taken back.                           *)
Monotone ==
  /\ load' = load /\ issued \subseteq issued'
  /\ era' \in Nat /\ era <= era'
  /\ era' = era => \A t \in Tries : In(t, log) => In(t, log')
  /\ \A t \in Tries : Sent(t) => Sent(t)' /\ before'[t] = before[t]
  /\ \A r \in Requests : Answered(r) => got'[r] = got[r] /\ tries'[r] = tries[r]
  /\ \A c \in Conns : phase'[c] = "called" =>
       \/ phase[c] = "called" /\ call'[c] = call[c]
       \/ \A t \in issued : call'[c] # Taking(t)

LEMMA SoundKept ==
  ASSUME IInv, Monotone, NEW reply \in Replies, Sound(reply)
  PROVE  Sound(reply)'
<1>1. /\ reply.of \in Tries /\ reply.era \in Nat /\ era \in Nat /\ era' \in Nat
      /\ before[reply.of] \subseteq Requests
  BY DEF IInv, TypeOK, Replies, Monotone
<1>2. /\ Sent(reply.of)' /\ before'[reply.of] = before[reply.of] /\ load' = load
      /\ reply.era <= era /\ era <= era'
  BY <1>1 DEF Monotone, Sound
<1>3. ASSUME Taken(reply)
      PROVE  Taken(reply)'
  <2>1. reply.of \in issued'
    BY <1>3 DEF Taken, Monotone
  <2>2. \A c \in Conns : phase'[c] = "called" => call'[c] # Taking(reply.of)
    BY <1>3 DEF Taken, Monotone, Taking
  <2>3. reply.era = era' => In(reply.of, log')
    <3>1. ASSUME reply.era = era'
          PROVE  era' = era
      BY <1>1, <1>2, <3>1
    <3> QED
      BY <1>1, <1>3, <3>1 DEF Taken, Monotone
  <2> QED
    BY <2>1, <2>2, <2>3 DEF Taken, In, Taking
<1>4. ASSUME ShowsBefore(reply)
      PROVE  ShowsBefore(reply)'
  <2>1. \A r \in before[reply.of] : got'[r] = got[r]
    BY <1>1 DEF IInv, BeforeInv, Monotone
  <2> QED
    BY <1>2, <1>4, <2>1 DEF ShowsBefore, In
<1>5. ShowsOwn(reply) => ShowsOwn(reply)'
  BY DEF ShowsOwn
<1>6. reply.era <= era'
  BY <1>1, <1>2
<1> QED
  BY <1>2, <1>3, <1>4, <1>5, <1>6 DEF Sound

(* What is in the clients' hands, on its way to them, or about to be.      *)
LEMMA Typed ==
  ASSUME IInv, NEW c \in Conns
  PROVE  /\ back[c] \in Seq(Replies \cup {NoReply}) /\ waiting[c] \in Seq(Tries)
         /\ wire[c] \in Seq(Messages)
         /\ \A i \in DOMAIN back[c] : back[c][i] # NoReply => back[c][i] \in Replies
         /\ phase[c] = "returned" => at[c] = "call"
         /\ Busy(c) => Pending(c) \in Replies /\ cur[c].try \in Tries /\ cur[c] \in Messages
         /\ at[c] \in {"closed", "read", "call", "reply"}
<1>1. /\ back[c] \in Seq(Replies \cup {NoReply}) /\ waiting[c] \in Seq(Tries)
      /\ wire[c] \in Seq(Messages) /\ at[c] \in {"closed", "read", "call", "reply"}
  BY DEF IInv, TypeOK
<1>2. \A i \in DOMAIN back[c] : back[c][i] # NoReply => back[c][i] \in Replies
  BY <1>1
<1>3. phase[c] = "returned" => at[c] = "call"
  BY DEF IInv, TypeOK
<1>4. ASSUME Busy(c)
      PROVE  Pending(c) \in Replies /\ cur[c].try \in Tries /\ cur[c] \in Messages
  <2>1. cur[c] \in Messages
    BY <1>4 DEF IInv, ServerInv, Serves
  <2>2. stamp[c] \in Nat /\ answer[c] \in Seq(Tries)
    BY DEF IInv, TypeOK
  <2> QED
    BY <2>1, <2>2 DEF Messages, Pending, Replies
<1> QED
  BY <1>1, <1>2, <1>3, <1>4

LEMMA GotStays ==
  ASSUME IInv, Monotone, NEW r \in Requests, Answered(r)
  PROVE  got'[r].of = <<r, tries'[r]>> /\ Sound(got[r])'
<1>1. Answered(r) /\ got'[r] = got[r] /\ tries'[r] = tries[r]
  BY DEF Monotone
<1>2. PICK reply \in Replies : reply = got[r]
  BY <1>1 DEF IInv, TypeOK, Answered
<1>3. got[r].of = <<r, tries[r]>> /\ Sound(reply)
  BY <1>1, <1>2 DEF IInv, GotInv
<1>4. Sound(reply)'
  BY <1>3, SoundKept
<1> QED
  BY <1>1, <1>2, <1>3, <1>4

LEMMA GotKept ==
  ASSUME IInv, Monotone, \A r \in Requests : Answered(r)' => Answered(r)
  PROVE  GotInv'
BY GotStays DEF GotInv

LEMMA BackKept ==
  ASSUME IInv, Monotone,
         \A c \in Conns : \A i \in DOMAIN back'[c] :
           \E j \in DOMAIN back[c] : back'[c][i] = back[c][j]
  PROVE  BackInv'
<1> SUFFICES ASSUME NEW c \in Conns, NEW i \in DOMAIN back'[c], back'[c][i] # NoReply
             PROVE  Sound(back[c][i])'
  BY DEF BackInv
<1>1. PICK j \in DOMAIN back[c] : back'[c][i] = back[c][j]
  OBVIOUS
<1>2. PICK reply \in Replies : reply = back[c][j]
  BY <1>1, Typed
<1>3. Sound(reply)
  BY <1>1, <1>2 DEF IInv, BackInv
<1>4. Sound(reply)'
  BY <1>3, SoundKept
<1> QED
  BY <1>1, <1>2, <1>4

LEMMA PendingKept ==
  ASSUME IInv, Monotone, NEW c \in Conns, phase[c] = "returned",
         cur'[c] = cur[c], answer'[c] = answer[c], stamp'[c] = stamp[c]
  PROVE  Sound(Pending(c))'
<1>1. PICK reply \in Replies : reply = Pending(c)
  BY Typed DEF Busy
<1>2. Sound(reply)
  BY <1>1 DEF IInv, PendingInv
<1>3. Sound(reply)'
  BY <1>2, SoundKept
<1>4. Pending(c)' = reply
  BY <1>1 DEF Pending
<1> QED
  BY <1>3, <1>4

LEMMA BeforeKept ==
  ASSUME IInv, Monotone,
         \A t \in Tries : \A r \in before'[t] :
           r \in Requests /\ (r \in before[t] \/ Answered(r))
  PROVE  BeforeInv'
BY DEF IInv, BeforeInv, Monotone, Answered

LEMMA ArchiveKept ==
  ASSUME IInv, Monotone, archive' = archive
  PROVE  ArchiveInv'
<1>1. \A n \in DOMAIN archive : archive[n] \in issued'
  BY DEF IInv, ArchiveInv, Monotone
<1>2. ASSUME NEW i \in DOMAIN archive, NEW j \in DOMAIN archive,
             archive[i][1] \in before'[archive[j]],
             got'[archive[i][1]].of = archive[i]
      PROVE  i < j
  <2>1. archive[i] \in Tries /\ archive[j] \in Tries /\ Sent(archive[j])
    BY DEF IInv, TypeOK, ArchiveInv, ServerInv
  <2>2. archive[i][1] \in before[archive[j]] /\ archive[i][1] \in Requests
    BY <1>2, <2>1 DEF Monotone, Tries
  <2>3. got'[archive[i][1]] = got[archive[i][1]]
    BY <2>1, <2>2 DEF IInv, BeforeInv, Monotone
  <2> QED
    BY <1>2, <2>2, <2>3 DEF IInv, ArchiveInv, LaterIsNumberedHigher
<1> QED
  BY <1>1, <1>2 DEF ArchiveInv, LaterIsNumberedHigher

LEMMA CallsKept ==
  ASSUME IInv, issued \subseteq issued',
         \A c \in Conns : call'[c] = call[c] \/ call'[c] = Log!NoCall
  PROVE  CallsInv'
<1> SUFFICES ASSUME NEW c \in Conns, call'[c].op = "append"
             PROVE  /\ call'[c].record \in issued'
                    /\ \A d \in Conns : call'[d] = call'[c] => d = c
  BY DEF CallsInv
<1>1. call'[c] = call[c] /\ call'[c] # Log!NoCall
  BY CallFacts
<1> QED
  BY <1>1 DEF IInv, CallsInv

LEMMA ServesKept ==
  ASSUME IInv, NEW c \in Conns, load' = load,
         wire'[c] = wire[c], cur'[c] = cur[c], at'[c] = at[c], call'[c] = call[c],
         \A t \in Tries : Sent(t) => Sent(t)'
  PROVE  Serves(c)'
<1>1. Serves(c)
  BY DEF IInv, ServerInv
<1>2. \A i \in DOMAIN wire[c] : wire[c][i].try \in Tries
  <2>1. wire[c] \in Seq(Messages)
    BY Typed
  <2>2. \A i \in DOMAIN wire[c] : wire[c][i] \in Messages
    BY <2>1
  <2> QED
    BY <2>2 DEF Messages
<1>3. Busy(c)' <=> Busy(c)
  BY DEF Busy
<1>4. Busy(c) => cur[c].try \in Tries
  BY Typed
<1>5. StoreCall(cur[c].try)' = StoreCall(cur[c].try)
  BY DEF StoreCall
<1>6. /\ \A i \in DOMAIN wire'[c] :
           Sent(wire[c][i].try)'
      /\ at'[c] = "closed" => wire'[c] = <<>>
  BY <1>1, <1>2 DEF Serves, Sent
<1>7. Busy(c)' => /\ cur'[c] \in Messages /\ Sent(cur[c].try)'
                  /\ call'[c] = StoreCall(cur[c].try)'
  BY <1>1, <1>3, <1>4, <1>5 DEF Serves, Sent
<1> QED
  BY <1>1, <1>3, <1>6, <1>7 DEF Serves

LEMMA StepKept ==
  ASSUME IInv, NEW c \in Conns, client[c] # "away",
         back'[c] = back[c], waiting'[c] = waiting[c],
         \/ wire'[c] = wire[c] /\ cur'[c] = cur[c] /\ at'[c] = at[c]
         \/ at'[c] = "closed"
  PROVE  InStep(c)'
<1>1. InStep(c)
  BY DEF IInv, StepInv
<1> QED
  BY <1>1 DEF InStep, Clear, Served, Busy

LEMMA WaitsKept ==
  ASSUME IInv, UNCHANGED <<tries, got>>,
         \A c \in Conns : waiting'[c] = waiting[c] \/ waiting'[c] = <<>>,
         \A c \in Conns : client'[c] = "away" => waiting'[c] = <<>> /\ back'[c] = <<>>
  PROVE  WaitingInv'
BY DEF IInv, WaitingInv, Waits, Answered

-------------------------------------------------------------------------------
(* The steps of clients *)

LEMMA OpenKeeps ==
  ASSUME IInv, NEW c \in Conns, Open(c)
  PROVE  IInv'
<1>1. /\ client[c] = "away" /\ at[c] = "closed"
      /\ client' = [client EXCEPT ![c] = "open"]
      /\ at' = [at EXCEPT ![c] = "read"]
      /\ UNCHANGED <<log, archive, call, phase, answer, issued, cur, wire, back, waiting,
                     load, tries, got, before, era, stamp>>
  BY DEF Open, storeVars, historyVars
<1>2. TypeOK'
  BY <1>1 DEF IInv, TypeOK
<1>3. Monotone
  BY <1>1, <1>2 DEF Monotone, Sent, TypeOK, Answered, In
<1>4. /\ \A d \in Conns \ {c} : client'[d] = client[d] /\ at'[d] = at[d]
      /\ client'[c] = "open" /\ at'[c] = "read"
  BY <1>1 DEF IInv, TypeOK
<1>5. ServerInv'
  <2>1. ASSUME NEW d \in Conns
        PROVE  Serves(d)'
    <3>1. CASE d # c
      BY <1>1, <1>4, <3>1, ServesKept DEF Sent
    <3>2. CASE d = c
      <4>1. Serves(c) /\ ~Busy(c) /\ ~Busy(c)'
        BY <1>1, <1>4 DEF IInv, ServerInv, Busy
      <4> QED
        BY <1>1, <1>4, <3>2, <4>1 DEF Serves, Sent
    <3> QED
      BY <3>1, <3>2
  <2> QED
    BY <1>1, <2>1 DEF IInv, ServerInv, Sent
<1>6. CallsInv'
  BY <1>1, CallsKept
<1>7. WaitingInv'
  <2>1. \A d \in Conns : client'[d] = "away" => waiting'[d] = <<>> /\ back'[d] = <<>>
    BY <1>1, <1>4 DEF IInv, WaitingInv
  <2> QED
    BY <1>1, <2>1, WaitsKept
<1>8. StepInv'
  <2>1. ASSUME NEW d \in Conns, d # c, client'[d] # "away"
        PROVE  InStep(d)'
    BY <1>1, <1>4, <2>1, StepKept
  <2>2. InStep(c)'
    <3>1. back'[c] = <<>> /\ waiting'[c] = <<>> /\ wire'[c] = <<>> /\ ~Busy(c)'
      BY <1>1, <1>4 DEF IInv, WaitingInv, ServerInv, Serves, Busy
    <3> QED
      BY <3>1 DEF InStep, Served
  <2> QED
    BY <2>1, <2>2 DEF StepInv
<1>9. GotInv'
  BY <1>1, <1>3, GotKept DEF Answered
<1>10. BackInv'
  BY <1>1, <1>3, BackKept
<1>11. PendingInv'
  BY <1>1, <1>3, PendingKept DEF PendingInv
<1>12. BeforeInv' /\ ArchiveInv'
  BY <1>1, <1>3, BeforeKept, ArchiveKept DEF IInv, TypeOK
<1> QED
  BY <1>2, <1>5, <1>6, <1>7, <1>8, <1>9, <1>10, <1>11, <1>12 DEF IInv

(* HangUp, for whatever reason.                                            *)
LEMMA HangUpKeeps ==
  ASSUME IInv, NEW c \in Conns, HangUp(c)
  PROVE  IInv'
<1>1. /\ client' = [client EXCEPT ![c] = "away"]
      /\ waiting' = [waiting EXCEPT ![c] = <<>>]
      /\ back' = [back EXCEPT ![c] = <<>>]
      /\ UNCHANGED <<log, archive, call, phase, answer, issued, at, cur, wire,
                     load, tries, got, before, era, stamp>>
  BY DEF HangUp, Leave, storeVars, serverVars, historyVars
<1>2. TypeOK'
  <2>1. client' \in [Conns -> {"away", "open", "ending"}]
    BY <1>1 DEF IInv, TypeOK
  <2>2. <<>> \in Seq(Tries) /\ <<>> \in Seq(Replies \cup {NoReply}) /\ Len(<<>>) = 0
    OBVIOUS
  <2>3. waiting' \in [Conns -> Seq(Tries)] /\ back' \in [Conns -> Seq(Replies \cup {NoReply})]
    BY <1>1, <2>2 DEF IInv, TypeOK
  <2>4. \A d \in Conns : Len(waiting'[d]) <= load.ahead
    <3>1. \A d \in Conns : waiting'[d] = waiting[d] \/ waiting'[d] = <<>>
      BY <1>1 DEF IInv, TypeOK
    <3>2. load.ahead \in Nat /\ \A d \in Conns : Len(waiting[d]) <= load.ahead
      BY LoadFacts DEF IInv, TypeOK
    <3> QED
      BY <2>2, <3>1, <3>2
  <2> QED
    BY <1>1, <2>1, <2>3, <2>4 DEF IInv, TypeOK
<1>3. Monotone
  BY <1>1, <1>2 DEF Monotone, Sent, TypeOK, Answered, In
<1>4. /\ \A d \in Conns \ {c} : /\ client'[d] = client[d]
                               /\ waiting'[d] = waiting[d] /\ back'[d] = back[d]
      /\ client'[c] = "away" /\ waiting'[c] = <<>> /\ back'[c] = <<>>
  BY <1>1 DEF IInv, TypeOK
<1>5. ServerInv'
  BY <1>1, ServesKept DEF IInv, ServerInv, Sent
<1>6. CallsInv'
  BY <1>1, CallsKept
<1>7. WaitingInv'
  <2>1. \A d \in Conns : client'[d] = "away" => waiting'[d] = <<>> /\ back'[d] = <<>>
    BY <1>1, <1>4 DEF IInv, WaitingInv
  <2>2. \A d \in Conns : waiting'[d] = waiting[d] \/ waiting'[d] = <<>>
    BY <1>4
  <2> QED
    BY <1>1, <2>1, <2>2, WaitsKept
<1>8. StepInv'
  BY <1>1, <1>4, StepKept DEF StepInv
<1>9. GotInv'
  BY <1>1, <1>3, GotKept DEF Answered
<1>10. BackInv'
  <2>1. \A d \in Conns : \A i \in DOMAIN back'[d] :
          \E j \in DOMAIN back[d] : back'[d][i] = back[d][j]
    BY <1>4
  <2> QED
    BY <1>3, <2>1, BackKept
<1>11. PendingInv'
  BY <1>1, <1>3, PendingKept DEF PendingInv
<1>12. BeforeInv' /\ ArchiveInv'
  BY <1>1, <1>3, BeforeKept, ArchiveKept DEF IInv, TypeOK
<1> QED
  BY <1>2, <1>5, <1>6, <1>7, <1>8, <1>9, <1>10, <1>11, <1>12 DEF IInv

LEMMA SendKeeps ==
  ASSUME IInv, NEW c \in Conns, NEW r \in Requests, Send(c, r)
  PROVE  IInv'
<1>1. PICK way \in load.ways :
        /\ client[c] = "open" /\ Len(waiting[c]) < load.ahead
        /\ ~Answered(r) /\ ~Outstanding(<<r, tries[r]>>) /\ tries[r] < load.tries[r]
        /\ tries' = [tries EXCEPT ![r] = @ + 1]
        /\ wire' = [wire EXCEPT ![c] =
             IF at[c] = "closed" THEN @ ELSE Append(@, [try |-> <<r, tries'[r]>>, way |-> way])]
        /\ client' = [client EXCEPT ![c] = IF way = "whole" THEN @ ELSE "ending"]
        /\ waiting' = [waiting EXCEPT ![c] = Append(@, <<r, tries'[r]>>)]
        /\ before' = [before EXCEPT ![<<r, tries'[r]>>] = {q \in Requests : Answered(q)}]
        /\ UNCHANGED <<log, archive, call, phase, answer, issued, at, cur, back,
                       load, got, era, stamp>>
  BY DEF Send, storeVars, serverVars, historyVars
<1>2. /\ tries \in [Requests -> 0 .. MaxTries] /\ MaxTries \in Nat
      /\ tries[r] \in 0 .. MaxTries /\ way \in Ways /\ load.tries[r] \in 0 .. MaxTries
  BY LoadFacts, BoundsAssumption DEF IInv, TypeOK
<1>n. PICK n \in 1 .. MaxTries : n = tries[r] + 1
  BY <1>1, <1>2
<1> DEFINE t == <<r, n>>
<1>3. /\ tries'[r] = n /\ \A q \in Requests : q # r => tries'[q] = tries[q]
      /\ tries' \in [Requests -> 0 .. MaxTries] /\ n \in Nat
      /\ t \in Tries /\ t[1] = r /\ t[2] = n
  BY <1>1, <1>2, <1>n DEF Tries
<1>4. /\ wire'[c] = IF at[c] = "closed" THEN wire[c] ELSE Append(wire[c], [try |-> t, way |-> way])
      /\ waiting'[c] = Append(waiting[c], t)
      /\ client'[c] \in {"open", "ending"}
      /\ before'[t] = {q \in Requests : Answered(q)}
      /\ \A u \in Tries : u # t => before'[u] = before[u]
      /\ \A d \in Conns : d # c => /\ wire'[d] = wire[d] /\ waiting'[d] = waiting[d]
                                 /\ client'[d] = client[d]
  BY <1>1, <1>2, <1>3, <1>n DEF IInv, TypeOK
<1>5. /\ wire[c] \in Seq(Messages) /\ waiting[c] \in Seq(Tries)
      /\ [try |-> t, way |-> way] \in Messages
  BY <1>2, <1>3, Typed DEF Messages
<1>6. /\ Append(wire[c], [try |-> t, way |-> way]) \in Seq(Messages)
      /\ Append(waiting[c], t) \in Seq(Tries)
      /\ Len(Append(waiting[c], t)) = Len(waiting[c]) + 1
      /\ Len(Append(wire[c], [try |-> t, way |-> way])) = Len(wire[c]) + 1
  BY <1>2, <1>3, <1>5
<1>7. TypeOK'
  <2>1. wire' \in [Conns -> Seq(Messages)] /\ waiting' \in [Conns -> Seq(Tries)]
    <3>1. wire \in [Conns -> Seq(Messages)] /\ waiting \in [Conns -> Seq(Tries)]
      BY DEF IInv, TypeOK
    <3>2. waiting' = [waiting EXCEPT ![c] = Append(waiting[c], t)]
      BY <1>1, <1>3
    <3>3. wire' = wire \/ wire' = [wire EXCEPT ![c] = Append(wire[c], [try |-> t, way |-> way])]
      BY <1>1, <1>3, <3>1
    <3> QED
      BY <1>6, <3>1, <3>2, <3>3
  <2>2. before' \in [Tries -> SUBSET Requests]
    BY <1>1 DEF IInv, TypeOK
  <2>3. client' \in [Conns -> {"away", "open", "ending"}]
    BY <1>1, <1>2, <1>3, <1>4 DEF IInv, TypeOK
  <2>4. ASSUME NEW d \in Conns
        PROVE  Len(waiting'[d]) <= load'.ahead
    <3>1. load'.ahead \in Nat /\ Len(waiting[c]) \in Nat /\ load' = load
      BY <1>1, <1>5, LoadFacts
    <3>2. CASE d = c
      BY <1>1, <1>4, <1>6, <3>1, <3>2
    <3>3. CASE d # c
      BY <1>1, <1>4, <3>3 DEF IInv, TypeOK
    <3> QED
      BY <3>2, <3>3
  <2> QED
    BY <1>1, <1>3, <2>1, <2>2, <2>3, <2>4 DEF IInv, TypeOK
(* The new try was not known before. *)
<1>8. ASSUME NEW u \in Tries, Sent(u)
      PROVE  u # t /\ Sent(u)'
  <2>1. u[1] \in Requests /\ u[2] \in Nat /\ u[2] <= tries[u[1]] /\ tries[u[1]] \in Nat
    BY <1>2, <1>8 DEF Sent, Tries
  <2>2. CASE u[1] = r
    <3>1. tries'[u[1]] = tries[u[1]] + 1
      BY <1>3, <1>n, <2>2
    <3>2. u[2] # n
      BY <2>1, <2>2, <3>1, <1>3, <1>n
    <3> QED
      BY <1>2, <2>1, <3>1, <3>2 DEF Sent
  <2>3. CASE u[1] # r
    BY <1>2, <1>3, <2>1, <2>3 DEF Sent
  <2> QED
    BY <2>2, <2>3
<1>9. Monotone
  BY <1>1, <1>3, <1>4, <1>7, <1>8 DEF Monotone, TypeOK, Answered, In
<1>10. Sent(t)'
  BY <1>2, <1>3 DEF Sent
<1>11. ServerInv'
  <2>1. ASSUME NEW d \in Conns
        PROVE  Serves(d)'
    <3>1. CASE wire'[d] = wire[d]
      BY <1>1, <1>4, <1>8, <3>1, ServesKept
    <3>2. CASE wire'[d] # wire[d]
      <4>1. d = c /\ at[c] # "closed"
            /\ wire'[c] = Append(wire[c], [try |-> t, way |-> way])
        BY <1>4, <3>2
      <4>2. Serves(c) /\ \A i \in DOMAIN wire[c] : wire[c][i] \in Messages
        BY <1>5 DEF IInv, ServerInv
      <4>3. ASSUME NEW i \in DOMAIN wire'[c]
            PROVE  Sent(wire[c][i].try)'
        <5>1. CASE i \in DOMAIN wire[c]
          <6>1. wire'[c][i] = wire[c][i] /\ wire[c][i].try \in Tries
            BY <1>5, <4>1, <4>2, <5>1 DEF Messages
          <6>2. Sent(wire[c][i].try) /\ wire[c][i].try # t
            BY <1>8, <4>2, <5>1, <6>1 DEF Serves
          <6> QED
            BY <1>4, <1>8, <4>2, <5>1, <6>1, <6>2 DEF Serves
        <5>2. CASE i \notin DOMAIN wire[c]
          <6>1. wire'[c][i] = [try |-> t, way |-> way]
            BY <1>5, <4>1, <5>2
          <6> QED
            BY <1>4, <1>10, <6>1
        <5> QED
          BY <5>1, <5>2
      <4>4. Busy(c)' => /\ cur'[c] \in Messages /\ Sent(cur[c].try)'
                        /\ call'[c] = StoreCall(cur[c].try)'
        <5>1. Busy(c)' = Busy(c) /\ StoreCall(cur[c].try)' = StoreCall(cur[c].try)
          BY <1>1 DEF Busy, StoreCall
        <5>2. ASSUME Busy(c)
              PROVE  cur[c].try \in Tries /\ Sent(cur[c].try) /\ cur[c].try # t
          BY <1>8, <4>2, <5>2, Typed DEF Serves
        <5> QED
          BY <1>1, <1>4, <1>8, <4>2, <5>1, <5>2 DEF Serves, Sent
      <4> QED
        BY <1>1, <4>1, <4>2, <4>3, <4>4 DEF Serves, Busy
    <3> QED
      BY <3>1, <3>2
  <2>2. \A u \in issued' : Sent(u)'
    BY <1>1, <1>8 DEF IInv, ServerInv, TypeOK
  <2> QED
    BY <2>1, <2>2 DEF ServerInv
<1>12. CallsInv'
  BY <1>1, CallsKept
<1>13. ASSUME NEW d \in Conns, NEW i \in DOMAIN waiting'[d]
       PROVE  \/ /\ i \in DOMAIN waiting[d] /\ waiting'[d][i] = waiting[d][i]
                 /\ waiting[d][i] \in Tries
              \/ d = c /\ i = Len(waiting[c]) + 1 /\ waiting'[d][i] = t
  <2>1. CASE d # c
    BY <1>4, <2>1, Typed
  <2>2. CASE d = c
    <3>1. i \in DOMAIN Append(waiting[c], t) /\ waiting'[d][i] = Append(waiting[c], t)[i]
      BY <1>4, <2>2
    <3>2. \/ /\ i \in DOMAIN waiting[c] /\ Append(waiting[c], t)[i] = waiting[c][i]
             /\ waiting[c][i] \in Tries
          \/ i = Len(waiting[c]) + 1 /\ Append(waiting[c], t)[i] = t
      BY <1>3, <1>5, <3>1, AppendEach
    <3> QED
      BY <2>2, <3>1, <3>2
  <2> QED
    BY <2>1, <2>2
<1>14. ASSUME NEW d \in Conns, NEW i \in DOMAIN waiting[d]
       PROVE  Waits(d, i) /\ waiting[d][i][1] # r /\ waiting[d][i] # t /\ waiting[d][i] \in Tries
  <2>1. Waits(d, i) /\ waiting[d][i] \in Tries
    BY Typed DEF IInv, WaitingInv
  <2>2. waiting[d][i] # <<r, tries[r]>>
    BY <1>1 DEF Outstanding
  <2>3. waiting[d][i][1] # r
    BY <2>1, <2>2 DEF Waits, Tries
  <2> QED
    BY <1>2, <2>1, <2>3
<1>15. WaitingInv'
  <2>1. ASSUME NEW d \in Conns, NEW i \in DOMAIN waiting'[d]
        PROVE  Waits(d, i)'
    <3>1. CASE /\ i \in DOMAIN waiting[d] /\ waiting'[d][i] = waiting[d][i]
               /\ waiting[d][i] \in Tries
      <4>1. /\ waiting'[d][i][2] = tries'[waiting'[d][i][1]]
            /\ ~Answered(waiting[d][i][1])'
        <5>1. waiting[d][i][1] \in Requests
          BY <3>1 DEF Tries
        <5> QED
          BY <1>1, <1>3, <1>14, <3>1, <5>1 DEF Waits, Answered
      <4>2. ASSUME NEW e \in Conns, NEW j \in DOMAIN waiting'[e],
                   waiting'[e][j] = waiting'[d][i]
            PROVE  e = d /\ j = i
        <5>1. j \in DOMAIN waiting[e] /\ waiting'[e][j] = waiting[e][j]
          BY <1>13, <1>14, <3>1, <4>2
        <5> QED
          <6>1. \A f \in Conns : \A k \in DOMAIN waiting[f] :
                  waiting[f][k] = waiting[d][i] => f = d /\ k = i
            BY <1>14, <3>1 DEF Waits
          <6> QED
            BY <3>1, <4>2, <5>1, <6>1
      <4> QED
        BY <4>1, <4>2 DEF Waits
    <3>2. CASE d = c /\ i = Len(waiting[c]) + 1 /\ waiting'[d][i] = t
      <4>1. waiting'[d][i][2] = tries'[waiting'[d][i][1]] /\ ~Answered(waiting[d][i][1])'
        BY <1>1, <1>2, <1>3, <3>2 DEF Answered
      <4>2. ASSUME NEW e \in Conns, NEW j \in DOMAIN waiting'[e],
                   waiting'[e][j] = waiting'[d][i]
            PROVE  e = d /\ j = i
        BY <1>13, <1>14, <3>2, <4>2
      <4> QED
        BY <4>1, <4>2 DEF Waits
    <3> QED
      BY <1>13, <3>1, <3>2
  <2>2. \A d \in Conns : client'[d] = "away" => waiting'[d] = <<>> /\ back'[d] = <<>>
    BY <1>1, <1>4 DEF IInv, WaitingInv
  <2> QED
    BY <2>1, <2>2 DEF WaitingInv
<1>16. StepInv'
  <2>1. ASSUME NEW d \in Conns, d # c, client'[d] # "away"
        PROVE  InStep(d)'
    BY <1>1, <1>4, <2>1, StepKept
  <2>2. InStep(c)'
    <3>1. InStep(c)
      BY <1>1 DEF IInv, StepInv
    <3>2. /\ Len(waiting'[c]) = Len(waiting[c]) + 1 /\ Len(waiting[c]) \in Nat
          /\ \A i \in 1 .. Len(waiting[c]) : waiting'[c][i] = waiting[c][i]
          /\ waiting'[c][Len(waiting[c]) + 1] = t
          /\ DOMAIN waiting[c] = 1 .. Len(waiting[c])
          /\ DOMAIN waiting'[c] = 1 .. Len(waiting[c]) + 1
      BY <1>2, <1>4, <1>5
    <3>3. \A i \in DOMAIN back'[c] : (\A j \in 1 .. i : back'[c][j] # NoReply) =>
            i \in DOMAIN waiting'[c] /\ back'[c][i].of = waiting'[c][i]
      BY <1>1, <3>1, <3>2 DEF InStep
    <3>4. ASSUME at'[c] # "closed", Clear(c)'
          PROVE  /\ Len(waiting'[c]) = Len(back'[c]) + Served(c)' + Len(wire'[c])
                 /\ Busy(c)' => waiting'[c][Len(back'[c]) + 1] = cur'[c].try
                 /\ \A i \in DOMAIN wire'[c] :
                      waiting'[c][Len(back'[c]) + Served(c)' + i] = wire'[c][i].try
      <4> DEFINE m == Len(back[c])
                 b == Served(c)
                 w == Len(wire[c])
      <4>1. /\ at[c] # "closed" /\ back'[c] = back[c] /\ Served(c)' = b
            /\ Busy(c)' = Busy(c) /\ cur'[c] = cur[c] /\ Clear(c)
        BY <1>1, <3>4 DEF Clear, Served, Busy
      <4>2. /\ Len(waiting[c]) = m + b + w
            /\ Busy(c) => waiting[c][m + 1] = cur[c].try
            /\ \A i \in DOMAIN wire[c] : waiting[c][m + b + i] = wire[c][i].try
        BY <3>1, <4>1 DEF InStep
      <4>3. /\ m \in Nat /\ w \in Nat /\ b \in {0, 1} /\ (Busy(c) => b = 1)
            /\ DOMAIN wire[c] = 1 .. w /\ DOMAIN wire'[c] = 1 .. w + 1 /\ Len(wire'[c]) = w + 1
            /\ \A i \in 1 .. w : wire'[c][i] = wire[c][i]
            /\ wire'[c][w + 1].try = t
        <5>1. m \in Nat
          BY Typed
        <5>2. b \in {0, 1} /\ (Busy(c) => b = 1)
          BY DEF Served
        <5> HIDE DEF b, m
        <5> QED
          BY <1>4, <1>5, <4>1, <5>1, <5>2
      <4> HIDE DEF m, b, w
      <4>4. Busy(c) => waiting'[c][m + 1] = cur[c].try
        <5>1. Busy(c) => m + 1 \in 1 .. Len(waiting[c])
          BY <4>2, <4>3
        <5> QED
          BY <3>2, <4>2, <5>1
      <4>5. \A i \in 1 .. w + 1 : waiting'[c][m + b + i] = wire'[c][i].try
        <5>1. ASSUME NEW i \in 1 .. w
              PROVE  waiting'[c][m + b + i] = wire'[c][i].try
          <6>1. m + b + i \in 1 .. Len(waiting[c])
            BY <4>2, <4>3
          <6> QED
            BY <3>2, <4>2, <4>3, <6>1
        <5>2. waiting'[c][m + b + (w + 1)] = t
          <6>1. m + b + (w + 1) = Len(waiting[c]) + 1
            BY <4>2, <4>3
          <6> QED
            BY <3>2, <6>1
        <5>3. \A i \in 1 .. w + 1 : i \in 1 .. w \/ i = w + 1
          BY <4>3
        <5> QED
          BY <4>3, <5>1, <5>2, <5>3
      <4>6. Len(waiting'[c]) = m + b + Len(wire'[c])
        BY <3>2, <4>2, <4>3
      <4> QED
        BY <4>1, <4>3, <4>4, <4>5, <4>6 DEF m
    <3> QED
      BY <3>3, <3>4 DEF InStep
  <2> QED
    BY <2>1, <2>2 DEF StepInv
<1>17. GotInv'
  BY <1>1, <1>9, GotKept DEF Answered
<1>18. BackInv'
  BY <1>1, <1>9, BackKept
<1>19. PendingInv'
  BY <1>1, <1>9, PendingKept DEF PendingInv
<1>20. BeforeInv'
  <2>1. ASSUME NEW u \in Tries, NEW q \in before'[u]
        PROVE  q \in Requests /\ (q \in before[u] \/ Answered(q))
    BY <1>4, <1>7 DEF TypeOK
  <2> QED
    BY <1>9, <2>1, BeforeKept
<1>21. ArchiveInv'
  BY <1>1, <1>9, ArchiveKept
<1> QED
  BY <1>7, <1>11, <1>12, <1>15, <1>16, <1>17, <1>18, <1>19, <1>20, <1>21 DEF IInv

(* The next reply is taken for that to the oldest request, and it is.      *)
LEMMA ReceiveKeeps ==
  ASSUME IInv, NEW c \in Conns, Receive(c)
  PROVE  IInv'
<1>1. CASE waiting[c] = <<>> \/ Head(back[c]) = NoReply
  <2>1. HangUp(c)
    BY <1>1 DEF Receive, HangUp
  <2> QED
    BY <2>1, HangUpKeeps
<1>2. CASE waiting[c] # <<>> /\ Head(back[c]) # NoReply
  <2>1. /\ client[c] # "away" /\ back[c] # <<>>
        /\ got' = [got EXCEPT ![waiting[c][1][1]] = Head(back[c])]
        /\ back' = [back EXCEPT ![c] = Tail(@)]
        /\ waiting' = [waiting EXCEPT ![c] = Tail(@)]
        /\ UNCHANGED <<client, log, archive, call, phase, answer, issued, at, cur, wire,
                       load, tries, before, era, stamp>>
    BY <1>2 DEF Receive, storeVars, serverVars, historyVars
  <2>2. back[c] \in Seq(Replies \cup {NoReply}) /\ waiting[c] \in Seq(Tries) /\ InStep(c)
    BY <2>1, Typed DEF IInv, StepInv
  <2>3. /\ Head(back[c]) = back[c][1] /\ back[c][1] \in Replies /\ 1 \in DOMAIN back[c]
        /\ waiting[c][1] \in Tries /\ 1 \in DOMAIN waiting[c]
        /\ back[c][1].of = waiting[c][1]
    <3>1. Head(back[c]) = back[c][1] /\ 1 \in DOMAIN back[c] /\ back[c][1] \in Replies \cup {NoReply}
      BY <2>1, <2>2, TailEach
    <3>2. \A j \in 1 .. 1 : back[c][j] # NoReply
      BY <1>2, <3>1
    <3>3. waiting[c][1] \in Tries /\ 1 \in DOMAIN waiting[c]
      BY <1>2, <2>2, TailEach
    <3> QED
      BY <1>2, <2>2, <3>1, <3>2, <3>3 DEF InStep
  <2>4. PICK reply \in Replies, t \in Tries : reply = back[c][1] /\ t = waiting[c][1]
    BY <2>3
  <2>5. /\ reply.of = t /\ t[1] \in Requests /\ t = <<t[1], t[2]>>
        /\ t[2] = tries[t[1]] /\ ~Answered(t[1]) /\ Sound(reply)
    <3>1. Waits(c, 1)
      BY <2>3 DEF IInv, WaitingInv
    <3>2. Sound(reply)
      BY <1>2, <2>3, <2>4 DEF IInv, BackInv
    <3> QED
      BY <2>3, <2>4, <3>1, <3>2 DEF Waits, Tries
  <2>6. /\ got'[t[1]] = reply /\ \A r \in Requests : r # t[1] => got'[r] = got[r]
        /\ got' \in [Requests -> Replies \cup {NoReply}]
    BY <2>1, <2>3, <2>4, <2>5 DEF IInv, TypeOK
  <2>7. /\ back'[c] = Tail(back[c]) /\ waiting'[c] = Tail(waiting[c])
        /\ \A d \in Conns : d # c => back'[d] = back[d] /\ waiting'[d] = waiting[d]
    BY <2>1 DEF IInv, TypeOK
  <2>8. TypeOK'
    <3>1. /\ Tail(back[c]) \in Seq(Replies \cup {NoReply}) /\ Tail(waiting[c]) \in Seq(Tries)
          /\ Len(waiting[c]) \in Nat /\ Len(Tail(waiting[c])) = Len(waiting[c]) - 1
      BY <1>2, <2>1, <2>2, TailEach
    <3>2. back' \in [Conns -> Seq(Replies \cup {NoReply})] /\ waiting' \in [Conns -> Seq(Tries)]
      BY <2>1, <3>1 DEF IInv, TypeOK
    <3>3. ASSUME NEW d \in Conns
          PROVE  Len(waiting'[d]) <= load.ahead
      <4>1. Len(waiting[d]) <= load.ahead /\ load.ahead \in Nat
        BY LoadFacts DEF IInv, TypeOK
      <4>2. CASE d = c
        <5>1. Len(waiting[c]) - 1 <= load.ahead
          BY <3>1, <4>1, <4>2
        <5>2. Len(Tail(waiting[c])) <= load.ahead
          BY <3>1, <5>1
        <5>3. waiting'[d] = Tail(waiting[c])
          BY <2>7, <4>2
        <5> QED
          BY <5>2, <5>3
      <4>3. CASE d # c
        BY <2>7, <4>1, <4>3
      <4> QED
        BY <4>2, <4>3
    <3> QED
      BY <2>1, <2>6, <3>2, <3>3 DEF IInv, TypeOK
  <2>9. Monotone
    BY <2>1, <2>5, <2>6, <2>8 DEF Monotone, Sent, TypeOK, Answered, In
  <2>10. ServerInv'
    BY <2>1, ServesKept DEF IInv, ServerInv, Sent
  <2>11. CallsInv'
    BY <2>1, CallsKept
  <2>12. ASSUME NEW d \in Conns, NEW i \in DOMAIN waiting'[d]
         PROVE  \E k \in DOMAIN waiting[d] :
                  /\ waiting'[d][i] = waiting[d][k] /\ waiting[d][k] \in Tries
                  /\ i \in Nat /\ k = (IF d = c THEN i + 1 ELSE i) /\ (d = c => k # 1)
    <3>1. CASE d # c
      <4>1. waiting[d] \in Seq(Tries)
        BY Typed
      <4> QED
        BY <2>7, <3>1, <4>1
    <3>2. CASE d = c
      <4>1. /\ i \in Nat /\ i >= 1 /\ i + 1 \in DOMAIN waiting[c]
            /\ waiting'[c][i] = waiting[c][i + 1]
        <5>1. i \in DOMAIN Tail(waiting[c]) /\ waiting'[c][i] = Tail(waiting[c])[i]
          BY <2>7, <3>2
        <5> QED
          BY <1>2, <2>2, <5>1, TailEach
      <4>2. waiting[c][i + 1] \in Tries /\ i + 1 # 1
        BY <2>2, <4>1
      <4> QED
        BY <3>2, <4>1, <4>2
    <3> QED
      BY <3>1, <3>2
  <2>13. WaitingInv'
    <3>1. ASSUME NEW d \in Conns, NEW i \in DOMAIN waiting'[d]
          PROVE  Waits(d, i)'
      <4>1. PICK k \in DOMAIN waiting[d] :
              /\ waiting'[d][i] = waiting[d][k] /\ waiting[d][k] \in Tries
              /\ i \in Nat /\ k = (IF d = c THEN i + 1 ELSE i) /\ (d = c => k # 1)
        BY <2>12
      <4>2. /\ waiting[d][k][2] = tries[waiting[d][k][1]] /\ ~Answered(waiting[d][k][1])
            /\ \A f \in Conns : \A l \in DOMAIN waiting[f] :
                 waiting[f][l] = waiting[d][k] => f = d /\ l = k
        BY DEF IInv, WaitingInv, Waits
      <4>3. waiting[d][k] # t
        BY <2>3, <2>4, <4>1, <4>2
      <4>4. waiting[d][k][1] # t[1] /\ waiting[d][k][1] \in Requests
        BY <2>5, <4>1, <4>2, <4>3 DEF Tries
      <4>5. ~Answered(waiting[d][i][1])'
        BY <2>6, <4>1, <4>2, <4>4 DEF Answered
      <4>6. ASSUME NEW e \in Conns, NEW j \in DOMAIN waiting'[e],
                   waiting'[e][j] = waiting'[d][i]
            PROVE  e = d /\ j = i
        <5>1. PICK l \in DOMAIN waiting[e] :
                waiting'[e][j] = waiting[e][l] /\ j \in Nat /\ l = (IF e = c THEN j + 1 ELSE j)
          BY <2>12
        <5>2. e = d /\ l = k
          BY <4>1, <4>2, <4>6, <5>1
        <5> QED
          BY <4>1, <5>1, <5>2
      <4> QED
        BY <2>1, <4>1, <4>2, <4>5, <4>6 DEF Waits
    <3>2. \A d \in Conns : client'[d] = "away" => waiting'[d] = <<>> /\ back'[d] = <<>>
      BY <2>1, <2>7 DEF IInv, WaitingInv
    <3> QED
      BY <3>1, <3>2 DEF WaitingInv
  <2>14. InStep(c)'
    <3> DEFINE n == Len(back[c])
               m == Len(waiting[c])
    <3>1. /\ n \in Nat /\ n >= 1 /\ DOMAIN back[c] = 1 .. n
          /\ Len(back'[c]) = n - 1 /\ DOMAIN back'[c] = 1 .. n - 1
          /\ \A i \in 1 .. n - 1 : back'[c][i] = back[c][i + 1]
          /\ m \in Nat /\ m >= 1 /\ DOMAIN waiting[c] = 1 .. m
          /\ Len(waiting'[c]) = m - 1 /\ DOMAIN waiting'[c] = 1 .. m - 1
          /\ \A i \in 1 .. m - 1 : waiting'[c][i] = waiting[c][i + 1]
      <4>1. /\ n \in Nat /\ n >= 1 /\ Len(Tail(back[c])) = n - 1
            /\ Tail(back[c]) \in Seq(Replies \cup {NoReply})
            /\ \A i \in DOMAIN Tail(back[c]) : Tail(back[c])[i] = back[c][i + 1]
        BY <2>1, <2>2, TailEach
      <4>2. /\ m \in Nat /\ m >= 1 /\ Len(Tail(waiting[c])) = m - 1
            /\ Tail(waiting[c]) \in Seq(Tries)
            /\ \A i \in DOMAIN Tail(waiting[c]) : Tail(waiting[c])[i] = waiting[c][i + 1]
        BY <1>2, <2>2, TailEach
      <4>3. DOMAIN back[c] = 1 .. n /\ DOMAIN waiting[c] = 1 .. m
        BY <2>2
      <4>4. DOMAIN Tail(back[c]) = 1 .. n - 1
        BY <4>1
      <4>5. DOMAIN Tail(waiting[c]) = 1 .. m - 1
        BY <4>2
      <4> HIDE DEF n, m
      <4> QED
        BY <2>7, <4>1, <4>2, <4>3, <4>4, <4>5
    <3> HIDE DEF n, m
    <3>2. ASSUME NEW i \in 1 .. n - 1, \A j \in 1 .. i : back'[c][j] # NoReply
          PROVE  i \in DOMAIN waiting'[c] /\ back'[c][i].of = waiting'[c][i]
      <4>1. ASSUME NEW j \in 1 .. i + 1
            PROVE  back[c][j] # NoReply
        <5>1. CASE j = 1
          BY <1>2, <2>3, <5>1
        <5>2. CASE j # 1
          <6>1. j - 1 \in 1 .. i /\ j - 1 \in 1 .. n - 1 /\ (j - 1) + 1 = j
            BY <3>1, <5>2
          <6> QED
            BY <3>1, <3>2, <6>1
        <5> QED
          BY <5>1, <5>2
      <4>2. i + 1 \in DOMAIN back[c]
        BY <3>1
      <4>3. i + 1 \in DOMAIN waiting[c] /\ back[c][i + 1].of = waiting[c][i + 1]
        BY <2>2, <4>1, <4>2 DEF InStep
      <4>4. i \in 1 .. m - 1
        BY <3>1, <4>3
      <4> QED
        BY <3>1, <4>3, <4>4
    <3>3. ASSUME at'[c] # "closed", Clear(c)'
          PROVE  /\ Len(waiting'[c]) = Len(back'[c]) + Served(c)' + Len(wire'[c])
                 /\ Busy(c)' => waiting'[c][Len(back'[c]) + 1] = cur'[c].try
                 /\ \A i \in DOMAIN wire'[c] :
                      waiting'[c][Len(back'[c]) + Served(c)' + i] = wire'[c][i].try
      <4> DEFINE b == Served(c)
                 w == Len(wire[c])
      <4>1. Clear(c)
        <5>1. ASSUME NEW i \in 1 .. n
              PROVE  back[c][i] # NoReply
          <6>1. CASE i = 1
            BY <1>2, <2>3, <6>1
          <6>2. CASE i # 1
            <7>1. i - 1 \in 1 .. n - 1 /\ (i - 1) + 1 = i
              BY <3>1, <6>2
            <7> QED
              BY <3>1, <3>3, <7>1 DEF Clear
          <6> QED
            BY <6>1, <6>2
        <5> QED
          BY <3>1, <5>1 DEF Clear
      <4>2. /\ Served(c)' = b /\ Busy(c)' = Busy(c) /\ wire'[c] = wire[c] /\ cur'[c] = cur[c]
            /\ b \in {0, 1} /\ (Busy(c) => b = 1)
        BY <2>1 DEF Served, Busy
      <4>3. w \in Nat /\ DOMAIN wire[c] = 1 .. w
        BY Typed
      <4>4. /\ m = n + b + w
            /\ Busy(c) => waiting[c][n + 1] = cur[c].try
            /\ \A i \in 1 .. w : waiting[c][n + b + i] = wire[c][i].try
        BY <2>1, <2>2, <3>3, <4>1, <4>3 DEF InStep, m, n
      <4> HIDE DEF b, w
      <4>n. /\ n \in Nat /\ n >= 1 /\ w \in Nat /\ b \in {0, 1}
            /\ m = n + b + w
        BY <3>1, <4>2, <4>3, <4>4
      <4>5. Busy(c) => waiting'[c][(n - 1) + 1] = cur[c].try
        <5>1. ASSUME Busy(c)
              PROVE  n \in 1 .. m - 1 /\ (n - 1) + 1 = n
          <6>1. b = 1 /\ m = n + b + w
            BY <4>2, <4>4, <5>1
          <6> QED
            BY <3>1, <4>3, <6>1
        <5>2. ASSUME Busy(c)
              PROVE  /\ waiting'[c][(n - 1) + 1] = waiting'[c][n]
                     /\ waiting'[c][n] = waiting[c][n + 1]
          BY <3>1, <5>1, <5>2
        <5> QED
          BY <4>4, <5>2
      <4>6. ASSUME NEW i \in 1 .. w
            PROVE  waiting'[c][(n - 1) + b + i] = wire[c][i].try
        <5>1. (n - 1) + b + i \in 1 .. m - 1 /\ ((n - 1) + b + i) + 1 = n + b + i
          BY ONLY <4>n
        <5>2. waiting'[c][(n - 1) + b + i] = waiting[c][n + b + i]
          BY <3>1, <5>1
        <5>3. waiting[c][n + b + i] = wire[c][i].try
          BY <4>4
        <5> QED
          BY ONLY <5>2, <5>3
      <4>7. m - 1 = (n - 1) + b + w
        BY ONLY <4>n
      <4> QED
        BY <3>1, <4>2, <4>3, <4>5, <4>6, <4>7 DEF w
    <3> QED
      BY <3>1, <3>2, <3>3 DEF InStep
  <2>15. StepInv'
    BY <2>1, <2>7, <2>14, StepKept DEF StepInv
  <2>16. GotInv'
    <3>1. Sound(reply)'
      BY <2>5, <2>9, SoundKept
    <3>2. got'[t[1]].of = <<t[1], tries'[t[1]]>> /\ Sound(got[t[1]])'
      BY <2>1, <2>5, <2>6, <3>1
    <3>3. ASSUME NEW r \in Requests, r # t[1], Answered(r)'
          PROVE  got'[r].of = <<r, tries'[r]>> /\ Sound(got[r])'
      <4>1. Answered(r)
        BY <2>6, <3>3 DEF Answered
      <4> QED
        BY <2>9, <4>1, GotStays
    <3> QED
      BY <3>2, <3>3 DEF GotInv
  <2>17. BackInv'
    <3>1. ASSUME NEW d \in Conns, NEW i \in DOMAIN back'[d]
          PROVE  \E j \in DOMAIN back[d] : back'[d][i] = back[d][j]
      <4>1. CASE d = c
        BY <2>1, <2>2, <2>7, <4>1, TailEach
      <4>2. CASE d # c
        BY <2>7, <4>2
      <4> QED
        BY <4>1, <4>2
    <3> QED
      BY <2>9, <3>1, BackKept
  <2>18. PendingInv'
    BY <2>1, <2>9, PendingKept DEF PendingInv
  <2>19. BeforeInv' /\ ArchiveInv'
    BY <2>1, <2>9, BeforeKept, ArchiveKept DEF IInv, TypeOK
  <2> QED
    BY <2>8, <2>10, <2>11, <2>13, <2>15, <2>16, <2>17, <2>18, <2>19 DEF IInv
<1> QED
  BY <1>1, <1>2

-------------------------------------------------------------------------------
(* The steps of the server *)

(* A request that is whole is read, and handed to the store if it asks for *)
(* one of its calls.                                                       *)
LEMMA ReadRequestKeeps ==
  ASSUME IInv, NEW c \in Conns, ReadRequest(c)
  PROVE  IInv'
<1>1. /\ at[c] = "read" /\ wire[c] # <<>> /\ Head(wire[c]).way # "cut"
      /\ cur' = [cur EXCEPT ![c] = Head(wire[c])]
      /\ wire' = [wire EXCEPT ![c] = Tail(@)]
      /\ \/ /\ StoreCall(Head(wire[c]).try) # Log!NoCall
            /\ at' = [at EXCEPT ![c] = "call"]
            /\ Log!Invoke(c) /\ call'[c] = StoreCall(Head(wire[c]).try)
         \/ /\ StoreCall(Head(wire[c]).try) = Log!NoCall
            /\ at' = [at EXCEPT ![c] = "reply"]
            /\ UNCHANGED <<log, archive, call, phase, answer, issued>>
      /\ UNCHANGED <<log, archive, answer, back, client, waiting, tries, got, before,
                     load, era, stamp>>
  BY DEF ReadRequest, Log!Invoke, storeVars, clientVars, historyVars
<1>2. /\ wire[c] \in Seq(Messages) /\ Head(wire[c]) = wire[c][1] /\ wire[c][1] \in Messages
      /\ 1 \in DOMAIN wire[c] /\ Tail(wire[c]) \in Seq(Messages)
  BY <1>1, Typed, TailEach
<1>3. PICK m \in Messages : m = Head(wire[c])
  BY <1>2
<1> DEFINE t == m.try
<1>4. /\ t \in Tries /\ Sent(t)
      /\ Serves(c) /\ phase[c] = "idle" /\ call[c] = Log!NoCall /\ ~Busy(c)
  BY <1>1, <1>2, <1>3 DEF IInv, TypeOK, ServerInv, Serves, Messages, Busy
<1> HIDE DEF t
<1>5. /\ cur'[c] = m /\ wire'[c] = Tail(wire[c])
      /\ at'[c] = IF StoreCall(t) = Log!NoCall THEN "reply" ELSE "call"
      /\ at'[c] \in {"reply", "call"} /\ Busy(c)'
      /\ \A d \in Conns : d # c => /\ cur'[d] = cur[d] /\ wire'[d] = wire[d]
                                 /\ at'[d] = at[d]
  BY <1>1, <1>3 DEF IInv, TypeOK, t, Busy
<1>6. /\ call'[c] = StoreCall(t) /\ \A d \in Conns : d # c => call'[d] = call[d]
      /\ call' \in [Conns -> Log!Calls \cup {Log!NoCall}]
      /\ phase' \in [Conns -> {"idle", "called", "returned"}]
      /\ \A d \in Conns : d # c => phase'[d] = phase[d]
      /\ phase'[c] = IF StoreCall(t) = Log!NoCall THEN "idle" ELSE "called"
      /\ issued \subseteq issued' /\ issued' \subseteq issued \cup {t}
      /\ call'[c].op = "append" => t \notin issued /\ t \in issued' /\ call'[c].record = t
  <2>1. CASE StoreCall(t) = Log!NoCall
    <3>1. UNCHANGED <<call, phase, issued>>
      BY <1>1, <1>3, <2>1 DEF t
    <3>2. call'[c].op # "append"
      BY <1>4, <3>1, CallFacts
    <3> QED
      BY <1>4, <2>1, <3>1, <3>2 DEF IInv, TypeOK
  <2>2. CASE StoreCall(t) # Log!NoCall
    <3>1. /\ Log!Invoke(c) /\ call'[c] = StoreCall(t)
      BY <1>1, <1>3, <2>2 DEF t
    <3>2. PICK x \in Log!Calls :
            /\ call' = [call EXCEPT ![c] = x]
            /\ \/ x \in Log!ReadOrReset /\ UNCHANGED issued
               \/ /\ x \notin Log!ReadOrReset
                  /\ x.record \notin issued /\ issued' = issued \cup {x.record}
            /\ phase' = [phase EXCEPT ![c] = "called"]
      BY <3>1 DEF Log!Invoke
    <3>3. /\ call \in [Conns -> Log!Calls \cup {Log!NoCall}]
          /\ phase \in [Conns -> {"idle", "called", "returned"}]
      BY DEF IInv, TypeOK
    <3>4. call'[c] = x /\ x = StoreCall(t)
      BY <3>1, <3>2, <3>3
    <3>5. x \notin Log!ReadOrReset => x.op = "append"
      BY <3>2 DEF Log!Calls
    <3>6. x.op = "append" => x.record = t /\ x \notin Log!ReadOrReset
      BY <1>4, <3>4, StoreCallFacts DEF Log!ReadOrReset
    <3> QED
      BY <2>2, <3>2, <3>3, <3>4, <3>5, <3>6
  <2> QED
    BY <2>1, <2>2
<1>7. TypeOK'
  <2>1. wire' \in [Conns -> Seq(Messages)] /\ cur' \in [Conns -> Messages \cup {Idle}]
    BY <1>1, <1>2 DEF IInv, TypeOK
  <2>2. at' \in [Conns -> {"closed", "read", "call", "reply"}]
    <3>1. PICK x \in {"call", "reply"} : at' = [at EXCEPT ![c] = x]
      BY <1>1
    <3> QED
      BY <3>1 DEF IInv, TypeOK
  <2>3. issued' \subseteq Tries
    BY <1>4, <1>6 DEF IInv, TypeOK
  <2>4. \A d \in Conns : at'[d] = "call" <=> phase'[d] # "idle"
    BY <1>5, <1>6 DEF IInv, TypeOK
  <2> QED
    BY <1>1, <1>6, <2>1, <2>2, <2>3, <2>4 DEF IInv, TypeOK
<1>8. Monotone
  <2>1. ASSUME NEW d \in Conns, phase'[d] = "called"
        PROVE  \/ phase[d] = "called" /\ call'[d] = call[d]
               \/ \A u \in issued : call'[d] # Taking(u)
    <3>1. CASE d = c
      BY <1>6, <3>1, CallFacts
    <3>2. CASE d # c
      BY <1>6, <2>1, <3>2
    <3> QED
      BY <3>1, <3>2
  <2> QED
    BY <1>1, <1>6, <1>7, <2>1 DEF Monotone, Sent, TypeOK, Answered, In
<1>9. ServerInv'
  <2>1. ASSUME NEW d \in Conns, d # c
        PROVE  Serves(d)'
    BY <1>1, <1>5, <1>6, <2>1, ServesKept DEF Sent
  <2>2. Serves(c)'
    <3>1. ASSUME NEW i \in DOMAIN wire'[c]
          PROVE  Sent(wire[c][i].try)'
      <4>1. i + 1 \in DOMAIN wire[c] /\ wire'[c][i] = wire[c][i + 1]
        <5>1. i \in DOMAIN Tail(wire[c]) /\ wire'[c][i] = Tail(wire[c])[i]
          BY <1>5
        <5> QED
          BY <1>1, <1>2, <5>1, TailEach
      <4> QED
        BY <1>1, <1>4, <4>1 DEF Serves, Sent
    <3>2. cur'[c] \in Messages /\ Sent(cur[c].try)'
      BY <1>1, <1>3, <1>4, <1>5 DEF Sent, t
    <3>3. call'[c] = StoreCall(cur[c].try)'
      BY <1>1, <1>5, <1>6 DEF StoreCall, t
    <3>4. at'[c] = "reply" <=> call'[c] = Log!NoCall
      BY <1>5, <1>6
    <3> QED
      BY <1>5, <3>1, <3>2, <3>3, <3>4 DEF Serves
  <2>3. \A u \in issued' : Sent(u)'
    BY <1>1, <1>4, <1>6 DEF IInv, ServerInv, Sent
  <2> QED
    BY <2>1, <2>2, <2>3 DEF ServerInv
<1>10. CallsInv'
  <2>1. ASSUME NEW d \in Conns, call'[d].op = "append"
        PROVE  call'[d].record \in issued'
    BY <1>6, <2>1 DEF IInv, CallsInv
  <2>2. ASSUME NEW d \in Conns, call'[d].op = "append",
               NEW e \in Conns, call'[e] = call'[d]
        PROVE  e = d
    <3>1. CASE d # c /\ e # c
      BY <1>6, <2>2, <3>1 DEF IInv, CallsInv
    <3>2. CASE d = c /\ e # c
      <4>1. call[e].op = "append" /\ call[e].record = t
        BY <1>6, <2>2, <3>2
      <4> QED
        BY <1>6, <2>2, <3>2, <4>1 DEF IInv, CallsInv
    <3>3. CASE d # c /\ e = c
      <4>1. call[d].op = "append" /\ call[d].record = t
        BY <1>6, <2>2, <3>3
      <4> QED
        BY <1>6, <2>2, <3>3, <4>1 DEF IInv, CallsInv
    <3> QED
      BY <3>1, <3>2, <3>3
  <2> QED
    BY <2>1, <2>2 DEF CallsInv
<1>11. WaitingInv'
  <2>1. \A d \in Conns : client'[d] = "away" => waiting'[d] = <<>> /\ back'[d] = <<>>
    BY <1>1 DEF IInv, WaitingInv
  <2> QED
    BY <1>1, <2>1, WaitsKept
<1>12. StepInv'
  <2>1. ASSUME NEW d \in Conns, d # c, client'[d] # "away"
        PROVE  InStep(d)'
    BY <1>1, <1>5, <2>1, StepKept
  <2>2. ASSUME client'[c] # "away"
        PROVE  InStep(c)'
    <3> DEFINE n == Len(back[c])
               w == Len(wire[c])
    <3>1. InStep(c) /\ back'[c] = back[c] /\ waiting'[c] = waiting[c]
      BY <1>1, <2>2 DEF IInv, StepInv
    <3>2. ASSUME Clear(c)'
          PROVE  /\ Len(waiting[c]) = n + w
                 /\ \A i \in DOMAIN wire[c] : waiting[c][n + i] = wire[c][i].try
      <4>1. Clear(c) /\ Served(c) = 0 /\ n \in Nat /\ w \in Nat
        BY <1>4, <3>1, <3>2, Typed DEF Clear, Served
      <4>2. /\ Len(waiting[c]) = n + 0 + w
            /\ \A i \in DOMAIN wire[c] : waiting[c][n + 0 + i] = wire[c][i].try
        BY <1>1, <3>1, <4>1 DEF InStep
      <4>3. n + 0 = n
        BY <4>1
      <4> QED
        BY <4>2, <4>3
    <3>3. /\ w \in Nat /\ w >= 1 /\ Len(wire'[c]) = w - 1 /\ DOMAIN wire[c] = 1 .. w
          /\ \A i \in DOMAIN wire'[c] : /\ i \in Nat /\ i + 1 \in DOMAIN wire[c]
                                       /\ wire'[c][i] = wire[c][i + 1]
          /\ n \in Nat
      <4>1. /\ w \in Nat /\ w >= 1 /\ Len(Tail(wire[c])) = w - 1
            /\ \A i \in DOMAIN Tail(wire[c]) :
                 i \in Nat /\ i + 1 \in DOMAIN wire[c] /\ Tail(wire[c])[i] = wire[c][i + 1]
        BY <1>1, <1>2, TailEach
      <4>2. n \in Nat /\ DOMAIN wire[c] = 1 .. w
        BY <1>2, Typed
      <4> HIDE DEF n, w
      <4> QED
        BY <1>5, <4>1, <4>2
    <3>4. Served(c)' = 1
      BY <1>5 DEF Served
    <3> HIDE DEF n, w
    <3>5. ASSUME Clear(c)'
          PROVE  /\ Len(waiting[c]) = n + 1 + Len(wire'[c])
                 /\ waiting[c][n + 1] = cur'[c].try
                 /\ \A i \in DOMAIN wire'[c] : waiting[c][n + 1 + i] = wire'[c][i].try
      <4>1. Len(waiting[c]) = n + 1 + Len(wire'[c])
        BY <3>2, <3>3, <3>5
      <4>2. waiting[c][n + 1] = cur'[c].try
        BY <1>2, <1>3, <1>5, <3>2, <3>5
      <4>3. ASSUME NEW i \in DOMAIN wire'[c]
            PROVE  waiting[c][n + 1 + i] = wire'[c][i].try
        <5>1. n + (i + 1) = n + 1 + i
          <6>1. n \in Nat /\ i \in Nat
            BY <3>3
          <6> QED
            BY <6>1
        <5> QED
          BY <3>2, <3>3, <3>5, <5>1
      <4> QED
        BY <4>1, <4>2, <4>3
    <3>6. \A i \in DOMAIN back'[c] : (\A j \in 1 .. i : back'[c][j] # NoReply) =>
            i \in DOMAIN waiting'[c] /\ back'[c][i].of = waiting'[c][i]
      BY <3>1 DEF InStep
    <3> QED
      BY <3>1, <3>4, <3>5, <3>6 DEF InStep, n
  <2> QED
    BY <2>1, <2>2 DEF StepInv
<1>13. GotInv' /\ BackInv'
  BY <1>1, <1>8, GotKept, BackKept DEF Answered
<1>14. PendingInv'
  <2>1. ASSUME NEW d \in Conns, phase'[d] = "returned"
        PROVE  Sound(Pending(d))'
    <3>1. d # c /\ phase[d] = "returned"
      BY <1>6, <2>1
    <3> QED
      BY <1>1, <1>5, <1>8, <3>1, PendingKept
  <2> QED
    BY <2>1 DEF PendingInv
<1>15. BeforeInv' /\ ArchiveInv'
  BY <1>1, <1>8, BeforeKept, ArchiveKept DEF IInv, TypeOK
<1> QED
  BY <1>7, <1>9, <1>10, <1>11, <1>12, <1>13, <1>14, <1>15 DEF IInv

(* A call takes effect; what is true of its reply is so from here on.      *)
LEMMA EffectKeeps ==
  ASSUME IInv, NEW c \in Conns, Effect(c)
  PROVE  IInv'
<1>1. /\ phase[c] = "called" /\ phase' = [phase EXCEPT ![c] = "returned"]
      /\ \/ /\ call[c].op = "append"
            /\ log' = Append(log, call[c].record)
            /\ answer' = [answer EXCEPT ![c] = log']
            /\ archive' = archive \/ Log!Extends(archive', archive, call[c].record)
         \/ /\ call[c].op = "snapshot"
            /\ answer' = [answer EXCEPT ![c] = log]
            /\ UNCHANGED <<log, archive>>
         \/ /\ call[c].op = "reset"
            /\ log' = <<>>
            /\ UNCHANGED <<archive, answer>>
      /\ era' = IF call[c].op = "reset" THEN era + 1 ELSE era
      /\ stamp' = [stamp EXCEPT ![c] = era']
      /\ UNCHANGED <<call, issued, at, cur, wire, back, client, waiting, tries, got, before,
                     load>>
  BY DEF Effect, Log!Effect, Log!Kept, Log!Shown, serverVars, clientVars
<1>2. \/ archive' = archive
      \/ /\ call[c].op = "append"
         /\ \E n \in 1 .. MaxNumber :
              archive' = [m \in DOMAIN archive \cup {n} |->
                            IF m = n THEN call[c].record ELSE archive[m]]
  BY DEF Effect
<1>3. PICK t \in Tries : t = cur[c].try
  BY <1>1, Typed DEF IInv, TypeOK, Busy
<1>4. /\ at[c] = "call" /\ Busy(c) /\ Sent(t) /\ call[c] = StoreCall(t)
      /\ t[1] \in Requests /\ load.kind[t[1]] \in Kinds
      /\ load.kind[t[1]] = "messages" <=> call[c].op = "append"
      /\ load.kind[t[1]] = "captures" <=> call[c].op = "snapshot"
      /\ call[c].op = "append" => call[c].record = t /\ call[c] = Taking(t) /\ t \in issued
  <2>1. at[c] = "call" /\ Busy(c)
    BY <1>1 DEF IInv, TypeOK, Busy
  <2>2. Sent(t) /\ call[c] = StoreCall(t)
    BY <1>3, <2>1 DEF IInv, ServerInv, Serves
  <2>3. call[c].op = "append" => call[c].record \in issued
    BY DEF IInv, CallsInv
  <2> QED
    BY <2>1, <2>2, <2>3, StoreCallFacts DEF Taking
<1>5. /\ log \in Seq(Tries) /\ Append(log, t) \in Seq(Tries)
      /\ era \in Nat /\ era' \in Nat /\ era <= era'
      /\ era' = era <=> call[c].op # "reset"
  BY <1>1 DEF IInv, TypeOK
<1>6. /\ log' \in Seq(Tries) /\ answer' \in [Conns -> Seq(Tries)]
      /\ call[c].op = "append" => log' = Append(log, t) /\ answer'[c] = log'
      /\ call[c].op = "snapshot" => log' = log /\ answer'[c] = log
      /\ \A d \in Conns : d # c => answer'[d] = answer[d]
  <2>1. answer \in [Conns -> Seq(Tries)] /\ <<>> \in Seq(Tries)
    BY DEF IInv, TypeOK
  <2> QED
    BY <1>1, <1>4, <1>5, <2>1
<1>7. /\ stamp'[c] = era' /\ phase'[c] = "returned"
      /\ \A d \in Conns : d # c => stamp'[d] = stamp[d] /\ phase'[d] = phase[d]
      /\ stamp' \in [Conns -> 0 .. era']
      /\ phase' \in [Conns -> {"idle", "called", "returned"}]
  <2>1. era' \in 0 .. era' /\ \A x \in 0 .. era : x \in 0 .. era'
    BY <1>5
  <2> QED
    BY <1>1, <2>1 DEF IInv, TypeOK
<1>8. TypeOK'
  <2>1. DOMAIN archive' \subseteq 1 .. MaxNumber
    <3>1. DOMAIN archive \subseteq 1 .. MaxNumber
      BY DEF IInv, TypeOK
    <3>2. ASSUME NEW n \in 1 .. MaxNumber,
                 archive' = [m \in DOMAIN archive \cup {n} |->
                               IF m = n THEN call[c].record ELSE archive[m]]
          PROVE  DOMAIN archive' = DOMAIN archive \cup {n}
      BY <3>2
    <3> QED
      BY <1>2, <3>1, <3>2
  <2>2. \A d \in Conns : at'[d] = "call" <=> phase'[d] # "idle"
    BY <1>1, <1>4, <1>7 DEF IInv, TypeOK
  <2> QED
    BY <1>1, <1>5, <1>6, <1>7, <2>1, <2>2 DEF IInv, TypeOK
<1>9. Monotone
  <2>1. ASSUME era' = era, NEW u \in Tries, In(u, log)
        PROVE  In(u, log')
    <3>1. CASE call[c].op = "append"
      <4>1. PICK i \in DOMAIN log : log[i] = u
        BY <2>1 DEF In
      <4>2. i \in DOMAIN log' /\ log'[i] = u
        BY <1>5, <1>6, <3>1, <4>1
      <4> QED
        BY <4>2 DEF In
    <3>2. CASE call[c].op = "snapshot"
      BY <1>6, <2>1, <3>2
    <3> QED
      BY <1>1, <1>5, <2>1, <3>1, <3>2
  <2>2. \A d \in Conns : phase'[d] = "called" => phase[d] = "called" /\ call'[d] = call[d]
    BY <1>1, <1>7
  <2> QED
    BY <1>1, <1>5, <2>1, <2>2 DEF Monotone, Sent, Answered
<1>10. ServerInv'
  BY <1>1, ServesKept DEF IInv, ServerInv, Sent
<1>11. CallsInv'
  BY <1>1, CallsKept
<1>12. WaitingInv'
  <2>1. \A d \in Conns : client'[d] = "away" => waiting'[d] = <<>> /\ back'[d] = <<>>
    BY <1>1 DEF IInv, WaitingInv
  <2> QED
    BY <1>1, <2>1, WaitsKept
<1>13. StepInv'
  BY <1>1, StepKept DEF StepInv
<1>14. GotInv' /\ BackInv'
  BY <1>1, <1>9, GotKept, BackKept DEF Answered
<1>15. ASSUME call[c].op = "append"
       PROVE  \A d \in Conns : phase'[d] = "called" => call'[d] # Taking(t)
  BY <1>1, <1>4, <1>7, <1>15 DEF IInv, CallsInv
<1>16. PendingInv'
  <2>1. ASSUME NEW d \in Conns, d # c, phase'[d] = "returned"
        PROVE  Sound(Pending(d))'
    BY <1>1, <1>6, <1>7, <1>9, <2>1, PendingKept
  <2>2. PICK reply \in Replies : reply = [of |-> t, shows |-> answer'[c], era |-> era']
    BY <1>5, <1>6 DEF Replies
  <2>3. ASSUME call[c].op = "append"
        PROVE  Taken(reply)' /\ ShowsOwn(reply)'
    <3>1. /\ log' # <<>> /\ log'[Len(log')] = t /\ Len(log') \in DOMAIN log'
      BY <1>5, <1>6, <2>3
    <3>2. In(t, log)'
      BY <3>1 DEF In
    <3>3. Taken(reply)'
      BY <1>1, <1>4, <1>15, <2>2, <2>3, <3>2 DEF Taken, Taking, In
    <3>4. ShowsOwn(reply)'
      BY <1>6, <2>2, <2>3, <3>1 DEF ShowsOwn
    <3> QED
      BY <3>3, <3>4
  <2>4. ASSUME call[c].op \in {"append", "snapshot"}
        PROVE  ShowsBefore(reply)'
    <3>1. ASSUME NEW r \in before[t], load.kind[r] = "messages", got[r].era = era
          PROVE  In(got[r].of, answer'[c])
      <4>1. r \in Requests /\ Answered(r)
        BY DEF IInv, TypeOK, BeforeInv
      <4>2. got[r].of = <<r, tries[r]>> /\ Sound(got[r]) /\ got[r] \in Replies
        BY <4>1 DEF IInv, TypeOK, GotInv, Answered
      <4>3. Taken(got[r]) /\ got[r].of \in Tries
        BY <3>1, <4>2 DEF Sound, Replies
      <4>4. In(got[r].of, log)
        BY <3>1, <4>3 DEF Taken
      <4>5. In(got[r].of, log')
        BY <1>5, <1>9, <2>4, <4>3, <4>4 DEF Monotone
      <4> QED
        BY <1>6, <2>4, <4>5
    <3>2. /\ before' = before /\ load' = load /\ got' = got /\ era' = era
          /\ reply.of = t /\ reply.era = era /\ reply.shows = answer'[c]
      BY <1>1, <1>5, <2>2, <2>4
    <3> QED
      BY <3>1, <3>2 DEF ShowsBefore, In
  <2>5. Sound(reply)'
    <3>1. Sent(reply.of)' /\ reply.era <= era' /\ reply.of = t /\ load' = load
      BY <1>1, <1>4, <1>5, <2>2 DEF Sent
    <3> QED
      BY <1>4, <2>3, <2>4, <3>1 DEF Sound
  <2>6. Pending(c)' = reply
    BY <1>1, <1>3, <1>7, <2>2 DEF Pending
  <2>7. Sound(Pending(c))'
    BY <2>5, <2>6
  <2> QED
    BY <2>1, <2>7 DEF PendingInv
<1>17. BeforeInv'
  BY <1>1, <1>9, BeforeKept DEF IInv, TypeOK
<1>18. ArchiveInv'
  <2>1. CASE archive' = archive
    BY <1>9, <2>1, ArchiveKept
  <2>2. CASE call[c].op = "append" /\ Log!Extends(archive', archive, t)
    <3>1. PICK n \in DOMAIN archive' :
            /\ \A m \in DOMAIN archive : m < n
            /\ archive' = [m \in DOMAIN archive \cup {n} |-> IF m = n THEN t ELSE archive[m]]
      BY <2>2 DEF Log!Extends
    <3>2. /\ DOMAIN archive' = DOMAIN archive \cup {n} /\ archive'[n] = t
          /\ \A m \in DOMAIN archive : m # n => archive'[m] = archive[m]
          /\ n \notin DOMAIN archive
      <4>1. n \in 1 .. MaxNumber /\ MaxNumber \in Nat
        <5>1. DOMAIN archive' \subseteq 1 .. MaxNumber
          BY <1>8 DEF TypeOK
        <5> QED
          BY <5>1, BoundsAssumption
      <4>2. \A m \in DOMAIN archive : m # n
        <5>1. ASSUME n \in DOMAIN archive
              PROVE  FALSE
          BY <3>1, <4>1, <5>1
        <5> QED
          BY <5>1
      <4> QED
        BY <3>1, <4>2
    <3>3. \A m \in DOMAIN archive' : archive'[m] \in issued'
      BY <1>1, <1>4, <2>2, <3>2 DEF IInv, ArchiveInv
    <3>4. ASSUME NEW i \in DOMAIN archive', NEW j \in DOMAIN archive',
                 archive'[i][1] \in before'[archive'[j]],
                 got'[archive'[i][1]].of = archive'[i]
          PROVE  i < j
      <4>1. archive'[j] \in Tries
        BY <1>8, <3>3 DEF TypeOK
      <4>2. archive'[i][1] \in Requests /\ Answered(archive'[i][1])
        BY <1>1, <3>4, <4>1 DEF IInv, TypeOK, BeforeInv
      <4>3. i # n
        <5>1. ASSUME i = n
              PROVE  FALSE
          <6>1. t[1] \in Requests /\ Answered(t[1]) /\ got[t[1]].of = t
            BY <1>1, <3>2, <3>4, <4>2, <5>1
          <6>2. Sound(got[t[1]])
            BY <6>1 DEF IInv, GotInv
          <6>3. Taken(got[t[1]])
            BY <1>4, <2>2, <6>1, <6>2 DEF Sound
          <6> QED
            BY <1>1, <1>4, <2>2, <6>1, <6>3 DEF Taken
        <5> QED
          BY <5>1
      <4>4. i \in DOMAIN archive /\ archive'[i] = archive[i]
        BY <3>2, <4>3
      <4>5. CASE j = n
        BY <3>1, <4>4, <4>5
      <4>6. CASE j # n
        <5>1. j \in DOMAIN archive /\ archive'[j] = archive[j]
          BY <3>2, <4>6
        <5> QED
          BY <1>1, <3>4, <4>4, <5>1 DEF IInv, ArchiveInv, LaterIsNumberedHigher
      <4> QED
        BY <4>5, <4>6
    <3> QED
      BY <3>3, <3>4 DEF ArchiveInv, LaterIsNumberedHigher
  <2> QED
    BY <1>1, <1>4, <2>1, <2>2
<1> QED
  BY <1>8, <1>10, <1>11, <1>12, <1>13, <1>14, <1>16, <1>17, <1>18 DEF IInv

LEMMA Replied ==
  ASSUME NEW S, NEW s \in Seq(S), NEW x \in S, NEW y \in S, NEW end,
         end = <<>> \/ end = <<y>>
  PROVE  /\ s \o (<<x>> \o end) \in Seq(S)
         /\ Len(s) \in Nat /\ DOMAIN s = 1 .. Len(s)
         /\ Len(s \o (<<x>> \o end)) = Len(s) + 1 + Len(end)
         /\ \A i \in 1 .. Len(s) : (s \o (<<x>> \o end))[i] = s[i]
         /\ (s \o (<<x>> \o end))[Len(s) + 1] = x
         /\ \/ end = <<>>
            \/ (s \o (<<x>> \o end))[Len(s) + 2] = y /\ Len(end) = 1
<1> DEFINE m == <<x>> \o end
<1>1. <<x>> \in Seq(S) /\ Len(<<x>>) = 1 /\ <<x>>[1] = x
  OBVIOUS
<1>2. /\ end \in Seq(S)
      /\ \/ end = <<>> /\ Len(end) = 0
         \/ Len(end) = 1 /\ end[1] = y
  <2>1. <<y>> \in Seq(S) /\ Len(<<y>>) = 1 /\ <<y>>[1] = y
    OBVIOUS
  <2>2. <<>> \in Seq(S) /\ Len(<<>>) = 0
    OBVIOUS
  <2> QED
    BY <2>1, <2>2
<1>3. /\ m \in Seq(S) /\ Len(m) = 1 + Len(end)
      /\ \A i \in 1 .. 1 + Len(end) : m[i] = IF i <= 1 THEN <<x>>[i] ELSE end[i - 1]
  BY <1>1, <1>2, ConcatProperties
<1>4. m[1] = x /\ (Len(end) = 1 => m[2] = y)
  <2> HIDE DEF m
  <2>1. Len(end) \in {0, 1} /\ 1 \in 1 .. 1 + Len(end)
    BY <1>2
  <2>2. Len(end) = 1 => 2 \in 1 .. 1 + Len(end) /\ ~(2 <= 1) /\ 2 - 1 = 1
    OBVIOUS
  <2>3. m[1] = x
    BY <1>1, <1>3, <2>1
  <2>4. ASSUME Len(end) = 1
        PROVE  m[2] = y
    <3>1. m[2] = end[1] /\ end[1] = y
      BY <1>2, <1>3, <2>2, <2>4
    <3> QED
      BY <3>1
  <2> QED
    BY <2>3, <2>4
<1> HIDE DEF m
<1>5. /\ s \o m \in Seq(S) /\ Len(s \o m) = Len(s) + Len(m)
      /\ \A i \in 1 .. Len(s) + Len(m) : (s \o m)[i] = IF i <= Len(s) THEN s[i] ELSE m[i - Len(s)]
  BY <1>3, ConcatProperties
<1>6. Len(s) \in Nat /\ DOMAIN s = 1 .. Len(s)
  OBVIOUS
<1> DEFINE n == Len(s)
           k == Len(end)
<1>7. n \in Nat /\ k \in {0, 1} /\ Len(m) = 1 + k
  BY <1>2, <1>3, <1>6
<1> HIDE DEF n, k
<1>8. /\ n + (1 + k) = n + 1 + k /\ \A i \in 1 .. n : i \in 1 .. n + (1 + k) /\ i <= n
      /\ n + 1 \in 1 .. n + (1 + k) /\ ~(n + 1 <= n) /\ (n + 1) - n = 1
      /\ k = 1 => n + 2 \in 1 .. n + (1 + k) /\ ~(n + 2 <= n) /\ (n + 2) - n = 2
  BY <1>7
<1>9. s \o m \in Seq(S) /\ Len(s \o m) = n + 1 + k
  BY <1>5, <1>7, <1>8 DEF n
<1>10. \A i \in 1 .. n : (s \o m)[i] = s[i]
  BY <1>5, <1>7, <1>8 DEF n
<1>11. (s \o m)[n + 1] = x
  BY <1>4, <1>5, <1>7, <1>8 DEF n
<1>12. k = 1 => (s \o m)[n + 2] = y
  BY <1>4, <1>5, <1>7, <1>8 DEF n, k
<1>13. end = <<>> \/ k = 1
  BY <1>2 DEF k
<1>14. n \in Nat /\ DOMAIN s = 1 .. n
  BY <1>6 DEF n
<1> USE DEF n, k, m
<1> QED
  BY ONLY <1>9, <1>10, <1>11, <1>12, <1>13, <1>14

(* A reply is written: it is to the request that the client waits for      *)
(* after those it has replies to on their way.                             *)
LEMMA WriteReplyKeeps ==
  ASSUME IInv, NEW c \in Conns, WriteReply(c)
  PROVE  IInv'
<1>1. /\ \/ at[c] = "call" /\ phase[c] = "returned"
            /\ phase' = [phase EXCEPT ![c] = "idle"]
            /\ call' = [call EXCEPT ![c] = Log!NoCall]
            /\ answer' = [answer EXCEPT ![c] = <<>>]
         \/ at[c] = "reply" /\ UNCHANGED <<call, phase, answer>>
      /\ \/ /\ back' = IF client[c] = "away" THEN back
                        ELSE [back EXCEPT ![c] = @ \o Response(c)]
            /\ Close(c) \/ (at' = [at EXCEPT ![c] = "read"] /\ wire' = wire)
         \/ Close(c) /\ back' = back
      /\ cur' = [cur EXCEPT ![c] = Idle]
      /\ stamp' = [stamp EXCEPT ![c] = 0]
      /\ UNCHANGED <<log, archive, issued, client, waiting, tries, got, before, load, era>>
  <2>1. /\ \/ at[c] = "call" /\ Log!Return(c)
           \/ at[c] = "reply" /\ UNCHANGED storeVars
        /\ cur' = [cur EXCEPT ![c] = Idle]
        /\ stamp' = [stamp EXCEPT ![c] = 0]
        /\ UNCHANGED <<client, waiting, tries, got, before, load, era>>
    BY DEF WriteReply, clientVars
  <2>4. \/ /\ back' = IF client[c] = "away" THEN back
                       ELSE [back EXCEPT ![c] = @ \o Response(c)]
           /\ Close(c) \/ (at' = [at EXCEPT ![c] = "read"] /\ wire' = wire)
        \/ Close(c) /\ back' = back
    <3>1. \/ /\ back' = IF client[c] = "away" THEN back
                        ELSE [back EXCEPT ![c] = @ \o Response(c)]
             /\ \/ cur[c].way = "last" /\ Close(c)
                \/ cur[c].way # "last" /\ at' = [at EXCEPT ![c] = "read"] /\ UNCHANGED wire
          \/ Close(c) /\ UNCHANGED back
      BY DEF WriteReply, AfterError
    <3> QED
      BY ONLY <3>1
  <2>2. Log!Return(c) => /\ phase[c] = "returned"
                         /\ phase' = [phase EXCEPT ![c] = "idle"]
                         /\ call' = [call EXCEPT ![c] = Log!NoCall]
                         /\ answer' = [answer EXCEPT ![c] = <<>>]
                         /\ UNCHANGED <<log, archive, issued>>
    BY DEF Log!Return
  <2>3. UNCHANGED storeVars => UNCHANGED <<log, archive, call, phase, answer, issued>>
    BY DEF storeVars
  <2> QED
    BY <2>1, <2>2, <2>3, <2>4
<1>2. Busy(c) /\ Serves(c) /\ cur[c].try \in Tries
  BY <1>1, Typed DEF IInv, ServerInv, Busy
<1>3. /\ call'[c] = Log!NoCall /\ phase'[c] = "idle"
      /\ \A d \in Conns : d # c => /\ call'[d] = call[d] /\ phase'[d] = phase[d]
                                 /\ answer'[d] = answer[d]
      /\ call' \in [Conns -> Log!Calls \cup {Log!NoCall}]
      /\ phase' \in [Conns -> {"idle", "called", "returned"}]
      /\ answer' \in [Conns -> Seq(Tries)]
  <2>1. <<>> \in Seq(Tries)
    OBVIOUS
  <2>2. at[c] = "reply" => phase[c] = "idle" /\ call[c] = Log!NoCall
    BY <1>2 DEF IInv, TypeOK, Serves
  <2>3. /\ call \in [Conns -> Log!Calls \cup {Log!NoCall}]
        /\ phase \in [Conns -> {"idle", "called", "returned"}]
        /\ answer \in [Conns -> Seq(Tries)]
    BY DEF IInv, TypeOK
  <2>4. CASE /\ phase' = [phase EXCEPT ![c] = "idle"]
             /\ call' = [call EXCEPT ![c] = Log!NoCall]
             /\ answer' = [answer EXCEPT ![c] = <<>>]
    BY <2>1, <2>3, <2>4
  <2>5. CASE at[c] = "reply" /\ UNCHANGED <<call, phase, answer>>
    BY <2>2, <2>3, <2>5
  <2> QED
    BY <1>1, <2>4, <2>5
<1>4. /\ \A d \in Conns : d # c => /\ cur'[d] = cur[d] /\ stamp'[d] = stamp[d]
                                 /\ at'[d] = at[d] /\ wire'[d] = wire[d]
      /\ \/ at'[c] = "closed" /\ wire'[c] = <<>>
         \/ at'[c] = "read" /\ wire'[c] = wire[c]
      /\ ~Busy(c)'
  BY <1>1 DEF IInv, TypeOK, Close, Busy
<1>5. PICK reply \in Replies : reply = Pending(c)
  BY <1>2, Typed
<1>6. reply.of = cur[c].try /\ Sound(reply)
  <2>1. CASE phase[c] = "returned"
    BY <1>5, <2>1 DEF IInv, PendingInv, Pending
  <2>2. CASE at[c] = "reply"
    <3>1. StoreCall(cur[c].try) = Log!NoCall
      BY <1>2, <2>2 DEF Serves
    <3>2. load.kind[cur[c].try[1]] \notin {"messages", "captures"}
      BY <1>2, <3>1, StoreCallFacts, CallFacts
    <3>3. stamp[c] <= era
      BY DEF IInv, TypeOK
    <3> QED
      BY <1>2, <1>5, <3>2, <3>3 DEF Sound, Pending, Serves
  <2> QED
    BY <1>1, <1>5, <2>1, <2>2 DEF Pending
<1>7. PICK end \in {<<>>, <<NoReply>>} : Response(c) = <<reply>> \o end
  BY <1>5 DEF Response, Pending
<1> DEFINE n == Len(back[c])
           sent == back[c] \o Response(c)
<1>8. /\ sent \in Seq(Replies \cup {NoReply}) /\ n \in Nat /\ DOMAIN back[c] = 1 .. n
      /\ Len(sent) = n + 1 + Len(end) /\ DOMAIN sent = 1 .. Len(sent)
      /\ \A i \in 1 .. n : sent[i] = back[c][i]
      /\ sent[n + 1] = reply /\ reply # NoReply
      /\ \/ end = <<>> /\ Len(end) = 0
         \/ sent[n + 2] = NoReply /\ Len(end) = 1
  <2> DEFINE all == Replies \cup {NoReply}
  <2>1. back[c] \in Seq(all) /\ reply # NoReply /\ reply \in all /\ NoReply \in all
    BY Typed, NoReplyIsNone
  <2> HIDE DEF all
  <2>2. PICK old \in Seq(all), new \in all, none \in all :
          old = back[c] /\ new = reply /\ none = NoReply
    BY <2>1
  <2>3. /\ old \o (<<new>> \o end) \in Seq(all)
        /\ Len(old) \in Nat /\ DOMAIN old = 1 .. Len(old)
        /\ Len(old \o (<<new>> \o end)) = Len(old) + 1 + Len(end)
        /\ \A i \in 1 .. Len(old) : (old \o (<<new>> \o end))[i] = old[i]
        /\ (old \o (<<new>> \o end))[Len(old) + 1] = new
        /\ \/ end = <<>>
           \/ (old \o (<<new>> \o end))[Len(old) + 2] = none /\ Len(end) = 1
    <3>1. end = <<>> \/ end = <<none>>
      BY <2>2
    <3> QED
      BY <3>1, Replied
  <2>4. /\ sent \in Seq(all)
        /\ n \in Nat /\ DOMAIN back[c] = 1 .. n
        /\ Len(sent) = n + 1 + Len(end)
        /\ \A i \in 1 .. n : sent[i] = back[c][i]
        /\ sent[n + 1] = reply
        /\ \/ end = <<>>
           \/ sent[n + 2] = NoReply /\ Len(end) = 1
    BY <1>7, <2>2, <2>3
  <2> HIDE DEF sent, n
  <2>5. DOMAIN sent = 1 .. Len(sent) /\ Len(<<>>) = 0
    BY <2>4
  <2> QED
    BY <2>1, <2>4, <2>5 DEF all
<1>9. /\ \A d \in Conns : d # c => back'[d] = back[d]
      /\ \/ back'[c] = back[c] /\ (at'[c] = "closed" \/ client[c] = "away")
         \/ back'[c] = sent /\ client[c] # "away"
  <2>1. Close(c) => at'[c] = "closed"
    BY DEF IInv, TypeOK, Close
  <2> QED
    BY <1>1, <2>1 DEF IInv, TypeOK
<1> HIDE DEF sent, n
<1>10. TypeOK'
  <2>1. back' \in [Conns -> Seq(Replies \cup {NoReply})]
    <3>1. back \in [Conns -> Seq(Replies \cup {NoReply})]
      BY DEF IInv, TypeOK
    <3>2. back' = back \/ back' = [back EXCEPT ![c] = sent]
      BY <1>1, <3>1 DEF sent
    <3> QED
      BY <1>8, <3>1, <3>2
  <2>2. at' \in [Conns -> {"closed", "read", "call", "reply"}]
    <3>1. \E x \in {"closed", "read"} : at' = [at EXCEPT ![c] = x]
      BY <1>1 DEF Close
    <3>2. at \in [Conns -> {"closed", "read", "call", "reply"}]
      BY DEF IInv, TypeOK
    <3> QED
      BY <3>1, <3>2
  <2>3. wire' \in [Conns -> Seq(Messages)]
    <3>1. <<>> \in Seq(Messages)
      OBVIOUS
    <3>2. wire' = wire \/ wire' = [wire EXCEPT ![c] = <<>>]
      BY <1>1 DEF Close
    <3>3. wire \in [Conns -> Seq(Messages)]
      BY DEF IInv, TypeOK
    <3> QED
      BY <3>1, <3>2, <3>3
  <2>4. stamp' \in [Conns -> 0 .. era'] /\ cur' \in [Conns -> Messages \cup {Idle}]
    <3>1. 0 \in 0 .. era
      BY DEF IInv, TypeOK
    <3> QED
      BY <1>1, <3>1 DEF IInv, TypeOK
  <2>5. ASSUME NEW d \in Conns
        PROVE  at'[d] = "call" <=> phase'[d] # "idle"
    <3>1. CASE d = c
      BY <1>3, <1>4, <3>1
    <3>2. CASE d # c
      <4>1. at[d] = "call" <=> phase[d] # "idle"
        BY DEF IInv, TypeOK
      <4> QED
        BY <1>3, <1>4, <3>2, <4>1
    <3> QED
      BY <3>1, <3>2
  <2> QED
    BY <1>1, <1>3, <2>1, <2>2, <2>3, <2>4, <2>5 DEF IInv, TypeOK
<1>11. Monotone
  <2>1. \A d \in Conns : phase'[d] = "called" => phase[d] = "called" /\ call'[d] = call[d]
    BY <1>3
  <2> QED
    BY <1>1, <1>10, <2>1 DEF Monotone, Sent, TypeOK, Answered, In
<1>12. ServerInv'
  <2>1. ASSUME NEW d \in Conns, d # c
        PROVE  Serves(d)'
    BY <1>1, <1>3, <1>4, <2>1, ServesKept DEF Sent
  <2>2. Serves(c)'
    BY <1>1, <1>2, <1>3, <1>4 DEF Serves, Sent
  <2> QED
    BY <1>1, <2>1, <2>2 DEF IInv, ServerInv, Sent
<1>13. CallsInv'
  BY <1>1, <1>3, CallsKept
<1>14. WaitingInv'
  <2>1. \A d \in Conns : client'[d] = "away" => waiting'[d] = <<>> /\ back'[d] = <<>>
    BY <1>1, <1>9 DEF IInv, WaitingInv
  <2> QED
    BY <1>1, <2>1, WaitsKept
<1>15. StepInv'
  <2>1. ASSUME NEW d \in Conns, d # c, client'[d] # "away"
        PROVE  InStep(d)'
    BY <1>1, <1>4, <1>9, <2>1, StepKept
  <2>2. ASSUME client'[c] # "away", back'[c] = back[c], at'[c] = "closed"
        PROVE  InStep(c)'
    BY <1>1, <2>2, StepKept
  <2>3. ASSUME client[c] # "away", back'[c] = sent
        PROVE  InStep(c)'
    <3> DEFINE w == Len(wire[c])
    <3>1. InStep(c) /\ at[c] # "closed" /\ Served(c) = 1 /\ w \in Nat
          /\ waiting'[c] = waiting[c]
      BY <1>1, <1>2, <2>3, Typed DEF IInv, StepInv, Busy, Served
    <3>2. DOMAIN waiting[c] = 1 .. Len(waiting[c]) /\ Len(waiting[c]) \in Nat
      BY Typed
    <3>3. ASSUME Clear(c)
          PROVE  /\ Len(waiting[c]) = n + 1 + w /\ waiting[c][n + 1] = reply.of
                 /\ \A i \in DOMAIN wire[c] : waiting[c][n + 1 + i] = wire[c][i].try
                 /\ n + 1 \in DOMAIN waiting[c]
      <4>1. /\ Len(waiting[c]) = n + 1 + w /\ waiting[c][n + 1] = reply.of
            /\ \A i \in DOMAIN wire[c] : waiting[c][n + 1 + i] = wire[c][i].try
        BY <1>2, <1>6, <3>1, <3>3 DEF InStep, n
      <4> HIDE DEF w
      <4>2. n + 1 \in 1 .. Len(waiting[c])
        <5>1. n \in Nat /\ w \in Nat /\ Len(waiting[c]) = n + 1 + w
          BY <1>8, <3>1, <4>1
        <5> QED
          BY <5>1
      <4> QED
        BY <3>2, <4>1, <4>2 DEF w
    <3> HIDE DEF w
    <3>4. ASSUME NEW i \in DOMAIN sent, \A j \in 1 .. i : sent[j] # NoReply
          PROVE  i \in DOMAIN waiting[c] /\ sent[i].of = waiting[c][i]
      <4>1. i \in Nat /\ i >= 1 /\ i <= n + 1
        <5>1. i \in Nat /\ i >= 1 /\ i <= n + 1 + Len(end)
          BY <1>8
        <5>2. ASSUME i > n + 1
              PROVE  FALSE
          <6>1. n + 2 \in 1 .. i /\ Len(end) = 1
            BY <1>8, <5>1, <5>2
          <6> QED
            BY <1>8, <3>4, <6>1
        <5> QED
          BY <1>8, <5>1, <5>2
      <4>2. CASE i <= n
        <5>1. i \in 1 .. n /\ \A j \in 1 .. i : j \in 1 .. n
          BY <1>8, <4>1, <4>2
        <5>2. \A j \in 1 .. i : back[c][j] # NoReply
          BY <1>8, <3>4, <5>1
        <5> QED
          BY <1>8, <3>1, <5>1, <5>2 DEF InStep
      <4>3. CASE i = n + 1
        <5>1. Clear(c)
          <6>1. \A j \in 1 .. n : j \in 1 .. i
            BY <1>8, <4>3
          <6> QED
            BY <1>8, <3>4, <6>1 DEF Clear
        <5> QED
          BY <1>8, <3>3, <4>3, <5>1
      <4> QED
        BY <1>8, <4>1, <4>2, <4>3
    <3>5. ASSUME at'[c] # "closed", Clear(c)'
          PROVE  /\ Len(waiting[c]) = Len(sent) + 0 + Len(wire'[c])
                 /\ \A i \in DOMAIN wire'[c] : waiting[c][Len(sent) + 0 + i] = wire'[c][i].try
      <4>1. \A i \in DOMAIN sent : sent[i] # NoReply
        BY <2>3, <3>5 DEF Clear
      <4>2. Len(end) = 0 /\ Len(sent) = n + 1 /\ Len(sent) + 0 = n + 1
        <5>1. Len(end) = 1 => n + 2 \in DOMAIN sent
          BY <1>8
        <5> QED
          BY <1>8, <4>1, <5>1
      <4>3. Clear(c)
        <5>1. \A i \in 1 .. n : i \in DOMAIN sent
          BY <1>8, <4>2
        <5> QED
          BY <1>8, <4>1, <5>1 DEF Clear
      <4>4. wire'[c] = wire[c]
        BY <1>4, <3>5
      <4> QED
        BY <3>3, <4>2, <4>3, <4>4 DEF w
    <3>6. Served(c)' = 0
      BY <1>4 DEF Served
    <3> QED
      BY <1>4, <2>3, <3>1, <3>4, <3>5, <3>6 DEF InStep
  <2> QED
    BY <1>1, <1>9, <2>1, <2>2, <2>3 DEF StepInv
<1>16. GotInv'
  BY <1>1, <1>11, GotKept DEF Answered
<1>17. BackInv'
  <2>1. Sound(reply)'
    BY <1>6, <1>11, SoundKept
  <2>2. ASSUME NEW d \in Conns, NEW i \in DOMAIN back[d], back[d][i] # NoReply
        PROVE  \A x : x = back[d][i] => x \in Replies /\ Sound(x)
    BY <2>2, Typed DEF IInv, BackInv
  <2>3. ASSUME NEW d \in Conns, NEW i \in DOMAIN back'[d], back'[d][i] # NoReply
        PROVE  Sound(back[d][i])'
    <3>1. CASE i \in DOMAIN back[d] /\ back'[d][i] = back[d][i]
      <4>1. PICK x \in Replies : x = back[d][i] /\ Sound(x)
        BY <2>2, <2>3, <3>1
      <4>2. Sound(x)'
        BY <1>11, <4>1, SoundKept
      <4> QED
        BY <3>1, <4>1, <4>2
    <3>2. CASE d = c /\ back'[c] = sent /\ i \notin 1 .. n
      <4>1. i \in 1 .. Len(sent)
        BY <1>8, <3>2
      <4>2. \/ i = n + 1
            \/ i = n + 2 /\ sent[n + 2] = NoReply
        <5>1. n \in Nat /\ Len(sent) = n + 1 + Len(end)
          BY <1>8
        <5>2. CASE Len(end) = 0
          BY <3>2, <4>1, <5>1, <5>2
        <5>3. CASE Len(end) = 1 /\ sent[n + 2] = NoReply
          <6>1. i = n + 1 \/ i = n + 2
            BY <3>2, <4>1, <5>1, <5>3
          <6> QED
            BY <5>3, <6>1
        <5> QED
          BY <1>8, <5>2, <5>3
      <4>3. back'[d][i] = reply
        BY <1>8, <2>3, <3>2, <4>2
      <4> QED
        BY <2>1, <4>3
    <3> QED
      BY <1>8, <1>9, <3>1, <3>2
  <2> QED
    BY <2>3 DEF BackInv
<1>18. PendingInv'
  <2>1. ASSUME NEW d \in Conns, phase'[d] = "returned"
        PROVE  Sound(Pending(d))'
    <3>1. d # c /\ phase[d] = "returned"
      BY <1>3, <2>1
    <3> QED
      BY <1>3, <1>4, <1>11, <3>1, PendingKept
  <2> QED
    BY <2>1 DEF PendingInv
<1>19. BeforeInv' /\ ArchiveInv'
  BY <1>1, <1>11, BeforeKept, ArchiveKept DEF IInv, TypeOK
<1> QED
  BY <1>10, <1>12, <1>13, <1>14, <1>15, <1>16, <1>17, <1>18, <1>19 DEF IInv

(* The deadline, or the end of what the client sends.                      *)
LEMMA ReadFailsKeeps ==
  ASSUME IInv, NEW c \in Conns, ReadFails(c)
  PROVE  IInv'
<1>1. /\ at[c] = "read"
      /\ at' = [at EXCEPT ![c] = "closed"]
      /\ wire' = [wire EXCEPT ![c] = <<>>]
      /\ UNCHANGED <<log, archive, call, phase, answer, issued, cur, back, client, waiting,
                     tries, got, before, load, era, stamp>>
  BY DEF ReadFails, Close, storeVars, clientVars, historyVars
<1>2. TypeOK'
  <2>1. <<>> \in Seq(Messages)
    OBVIOUS
  <2>2. wire' \in [Conns -> Seq(Messages)]
    BY <1>1, <2>1 DEF IInv, TypeOK
  <2> QED
    BY <1>1, <2>2 DEF IInv, TypeOK
<1>3. Monotone
  BY <1>1, <1>2 DEF Monotone, Sent, TypeOK, Answered, In
<1>4. /\ \A d \in Conns \ {c} : at'[d] = at[d] /\ wire'[d] = wire[d]
      /\ at'[c] = "closed" /\ wire'[c] = <<>>
  BY <1>1 DEF IInv, TypeOK
<1>5. ServerInv'
  <2>1. Serves(c)'
    <3>1. Serves(c) /\ ~Busy(c) /\ ~Busy(c)'
      BY <1>1, <1>4 DEF IInv, ServerInv, Busy
    <3> QED
      BY <1>1, <1>4, <3>1 DEF Serves
  <2>2. ASSUME NEW d \in Conns, d # c
        PROVE  Serves(d)'
    BY <1>1, <1>4, <2>2, ServesKept DEF Sent
  <2> QED
    BY <1>1, <2>1, <2>2 DEF IInv, ServerInv, Sent
<1>6. CallsInv'
  BY <1>1, CallsKept
<1>7. WaitingInv'
  <2>1. \A d \in Conns : client'[d] = "away" => waiting'[d] = <<>> /\ back'[d] = <<>>
    BY <1>1 DEF IInv, WaitingInv
  <2> QED
    BY <1>1, <2>1, WaitsKept
<1>8. StepInv'
  BY <1>1, <1>4, StepKept DEF StepInv
<1>9. GotInv' /\ BackInv'
  BY <1>1, <1>3, GotKept, BackKept DEF Answered
<1>10. PendingInv'
  BY <1>1, <1>3, PendingKept DEF PendingInv
<1>11. BeforeInv' /\ ArchiveInv'
  BY <1>1, <1>3, BeforeKept, ArchiveKept DEF IInv, TypeOK
<1> QED
  BY <1>2, <1>5, <1>6, <1>7, <1>8, <1>9, <1>10, <1>11 DEF IInv

(* Calls are lost, replies that are out are not.                           *)
LEMMA CrashKeeps ==
  ASSUME IInv, Crash
  PROVE  IInv'
<1>1. /\ log' = <<>> /\ call' = [c \in Conns |-> Log!NoCall]
      /\ phase' = [c \in Conns |-> "idle"] /\ answer' = [c \in Conns |-> <<>>]
      /\ at' = [c \in Conns |-> "closed"] /\ cur' = [c \in Conns |-> Idle]
      /\ wire' = [c \in Conns |-> <<>>]
      /\ era' = era + 1 /\ stamp' = [c \in Conns |-> 0]
      /\ UNCHANGED <<archive, issued, back, client, waiting, tries, got, before, load>>
  BY DEF Crash, Log!Lose, clientVars
<1>2. TypeOK'
  <2>1. /\ <<>> \in Seq(Tries) /\ <<>> \in Seq(Messages)
        /\ era' \in Nat /\ 0 \in 0 .. era'
    BY <1>1 DEF IInv, TypeOK
  <2>2. /\ log' \in Seq(Tries) /\ call' \in [Conns -> Log!Calls \cup {Log!NoCall}]
        /\ phase' \in [Conns -> {"idle", "called", "returned"}]
        /\ answer' \in [Conns -> Seq(Tries)]
        /\ at' \in [Conns -> {"closed", "read", "call", "reply"}]
        /\ cur' \in [Conns -> Messages \cup {Idle}]
        /\ wire' \in [Conns -> Seq(Messages)]
        /\ stamp' \in [Conns -> 0 .. era']
        /\ \A c \in Conns : at'[c] = "call" <=> phase'[c] # "idle"
    BY <1>1, <2>1
  <2> QED
    BY <1>1, <2>1, <2>2 DEF IInv, TypeOK
<1>3. Monotone
  <2>1. era \in Nat /\ era' \in Nat /\ era <= era' /\ era' # era
    BY <1>1 DEF IInv, TypeOK
  <2> QED
    BY <1>1, <2>1 DEF Monotone, Sent, Answered
<1>4. ServerInv'
  <2>1. ASSUME NEW c \in Conns
        PROVE  Serves(c)'
    <3>1. wire'[c] = <<>> /\ at'[c] = "closed" /\ call'[c] = Log!NoCall /\ ~Busy(c)'
      BY <1>1 DEF Busy
    <3> QED
      BY <3>1 DEF Serves
  <2> QED
    BY <1>1, <2>1 DEF IInv, ServerInv, Sent
<1>5. CallsInv'
  BY <1>1, CallsKept
<1>6. WaitingInv'
  <2>1. \A d \in Conns : client'[d] = "away" => waiting'[d] = <<>> /\ back'[d] = <<>>
    BY <1>1 DEF IInv, WaitingInv
  <2> QED
    BY <1>1, <2>1, WaitsKept
<1>7. StepInv'
  BY <1>1, StepKept DEF StepInv
<1>8. GotInv' /\ BackInv'
  BY <1>1, <1>3, GotKept, BackKept DEF Answered
<1>9. PendingInv'
  BY <1>1 DEF PendingInv
<1>10. BeforeInv' /\ ArchiveInv'
  BY <1>1, <1>3, BeforeKept, ArchiveKept DEF IInv, TypeOK
<1> QED
  BY <1>2, <1>4, <1>5, <1>6, <1>7, <1>8, <1>9, <1>10 DEF IInv

LEMMA StutterKeeps ==
  ASSUME IInv, UNCHANGED vars
  PROVE  IInv'
<1>1. UNCHANGED <<log, archive, call, phase, answer, issued, at, cur, wire, back, client,
                  waiting, tries, got, before, load, era, stamp>>
  BY DEF vars, storeVars, serverVars, clientVars, historyVars
<1>2. TypeOK'
  BY <1>1 DEF IInv, TypeOK
<1>3. Monotone
  BY <1>1, <1>2 DEF Monotone, Sent, TypeOK, Answered, In
<1>4. ServerInv'
  BY <1>1, ServesKept DEF IInv, ServerInv, Sent
<1>5. CallsInv'
  BY <1>1, CallsKept
<1>6. WaitingInv'
  <2>1. \A d \in Conns : client'[d] = "away" => waiting'[d] = <<>> /\ back'[d] = <<>>
    BY <1>1 DEF IInv, WaitingInv
  <2> QED
    BY <1>1, <2>1, WaitsKept
<1>7. StepInv'
  BY <1>1, StepKept DEF StepInv
<1>8. GotInv' /\ BackInv'
  BY <1>1, <1>3, GotKept, BackKept DEF Answered
<1>9. PendingInv'
  BY <1>1, <1>3, PendingKept DEF PendingInv
<1>10. BeforeInv' /\ ArchiveInv'
  BY <1>1, <1>3, BeforeKept, ArchiveKept DEF IInv, TypeOK
<1> QED
  BY <1>2, <1>4, <1>5, <1>6, <1>7, <1>8, <1>9, <1>10 DEF IInv

-------------------------------------------------------------------------------
(* The theorems *)

LEMMA InitInv == Init => IInv
<1> SUFFICES ASSUME Init
             PROVE  IInv
  OBVIOUS
<1> USE DEF Init, Log!Init
<1>1. /\ <<>> \in Seq(Tries) /\ <<>> \in Seq(Messages) /\ <<>> \in Seq(Replies \cup {NoReply})
      /\ DOMAIN <<>> = {} /\ Len(<<>>) = 0
      /\ load.ahead \in Nat
  BY LoadsAssumption DEF Load
<1>2. DOMAIN archive = {} /\ 0 \in 0 .. MaxTries /\ 0 \in 0 .. era
  BY BoundsAssumption
<1>3. TypeOK
  BY <1>1, <1>2 DEF TypeOK
<1>4. ServerInv
  <2>1. ASSUME NEW c \in Conns
        PROVE  Serves(c)
    <3>1. wire[c] = <<>> /\ at[c] = "closed" /\ call[c] = Log!NoCall /\ ~Busy(c)
      BY DEF Busy
    <3> QED
      BY <1>1, <3>1 DEF Serves
  <2> QED
    BY <2>1 DEF ServerInv
<1>5. CallsInv
  BY CallFacts DEF CallsInv
<1>6. WaitingInv
  BY <1>1 DEF WaitingInv
<1>7. StepInv
  BY DEF StepInv
<1>8. GotInv /\ PendingInv /\ BeforeInv
  BY DEF GotInv, PendingInv, BeforeInv, Answered
<1>9. BackInv
  BY <1>1 DEF BackInv
<1>10. ArchiveInv
  BY <1>2 DEF ArchiveInv, LaterIsNumberedHigher
<1> QED
  BY <1>3, <1>4, <1>5, <1>6, <1>7, <1>8, <1>9, <1>10 DEF IInv

LEMMA NextKeeps == IInv /\ [Next]_vars => IInv'
<1> SUFFICES ASSUME IInv, [Next]_vars
             PROVE  IInv'
  OBVIOUS
<1>1. ASSUME NEW c \in Conns, Client(c)
      PROVE  IInv'
  BY <1>1, OpenKeeps, SendKeeps, ReceiveKeeps, HangUpKeeps DEF Client
<1>2. ASSUME NEW c \in Conns, Serve(c)
      PROVE  IInv'
  BY <1>2, ReadRequestKeeps, EffectKeeps, WriteReplyKeeps, ReadFailsKeeps DEF Serve
<1>3. CASE Crash
  BY <1>3, CrashKeeps
<1>4. CASE UNCHANGED vars
  BY <1>4, StutterKeeps
<1> QED
  BY <1>1, <1>2, <1>3, <1>4 DEF Next

(* Invariance: the inductive invariant of the connections, their clients   *)
(* and the store behind them (http1.go:27-107, store.go:15-42).            *)
THEOREM Invariance == Spec => []IInv
<1>1. Init => IInv
  BY InitInv
<1>2. IInv /\ [Next]_vars => IInv'
  BY NextKeeps
<1> QED
  BY <1>1, <1>2, PTL DEF Spec

(* TypeCorrect: every variable keeps its type, and a connection is in a    *)
(* call of the store exactly while its goroutine is (http1.go:55-70).      *)
THEOREM TypeCorrect == Spec => []TypeOK
<1>1. IInv => TypeOK
  BY DEF IInv
<1> QED
  BY <1>1, Invariance, PTL

(* InStepAlways: what a client takes for the reply to a request is the     *)
(* reply to that very try of it, however it pipelines, hangs up and sends  *)
(* again, and whatever fails (http1.go:39-107).                            *)
THEOREM InStepAlways == Spec => []RepliesInStep
<1>1. IInv => RepliesInStep
  BY DEF IInv, GotInv, RepliesInStep
<1> QED
  BY <1>1, Invariance, PTL

(* OwnCaptureLast: the reply to POST /v1/messages ends with the capture of *)
(* the try it answers (store.go:19-21, router.go:64-68).                   *)
THEOREM OwnCaptureLast == Spec => []RepliesShowOwn
<1>1. IInv => RepliesShowOwn
  <2> SUFFICES ASSUME IInv, NEW r \in Requests, Answered(r), load.kind[r] = "messages"
               PROVE  ShowsOwn(got[r])
    BY DEF RepliesShowOwn, ShowsOwn
  <2>1. got[r].of[1] = r /\ Sound(got[r])
    BY DEF IInv, GotInv
  <2> QED
    BY <2>1 DEF Sound
<1> QED
  BY <1>1, Invariance, PTL

(* SeenOnceAnswered: a client that has the reply to its request, and asks  *)
(* later, on whatever connection, sees its capture in the list it gets,    *)
(* unless a reset or a crash came between the two (store.go:15-35).        *)
THEOREM SeenOnceAnswered == Spec => []AnsweredIsSeen
<1>1. IInv => AnsweredIsSeen
  <2> SUFFICES ASSUME IInv, NEW r \in Requests, NEW s \in Requests,
                      Answered(r), load.kind[r] = "messages",
                      Answered(s), load.kind[s] \in {"messages", "captures"},
                      r \in before[got[s].of], got[r].era = got[s].era
               PROVE  In(got[r].of, got[s].shows)
    BY DEF AnsweredIsSeen, In
  <2>1. got[s].of[1] = s /\ Sound(got[s])
    BY DEF IInv, GotInv
  <2>2. ShowsBefore(got[s])
    BY <2>1 DEF Sound
  <2> QED
    BY <2>2 DEF ShowsBefore
<1> QED
  BY <1>1, Invariance, PTL

(* NumberedInOrder: the capture of a request sent after another was        *)
(* answered has the higher file number, also after a restart (output.go:98,*)
(* compare-sub2api.sh:7, 45).                                              *)
THEOREM NumberedInOrder == Spec => []LaterIsNumberedHigher
<1>1. IInv => LaterIsNumberedHigher
  BY DEF IInv, ArchiveInv
<1> QED
  BY <1>1, Invariance, PTL
===============================================================================
