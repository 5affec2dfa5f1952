------------------------------- MODULE Http1Conn -------------------------------
(***************************************************************************)
(* pkg/httpfp/http1.go with the router and the store behind it: HTTP/1.1   *)
(* connections, their clients, and what a client can conclude from a reply *)
(* about the captures.                                                     *)
(*                                                                         *)
(* A client sends a request whole or breaks off in its body, may pipeline, *)
(* may ask to close, hangs up when it likes, and sends a request that was  *)
(* not answered again, on any connection, while the server may still be    *)
(* busy with the first try.  The goroutine of a connection reads, calls    *)
(* the store and replies in turn, and ends at the first error.             *)
(*                                                                         *)
(* The store is the one CaptureLog specifies.  A capture is named by the   *)
(* try of the request that made it.                                        *)
(***************************************************************************)
EXTENDS Naturals, Sequences

CONSTANTS
  Conns,     \* connections, one goroutine each; one that has ended is reused
  Requests,  \* what clients want to be answered
  Loads,     \* what they ask for, in which ways, and how often (see Load)
  MaxTries,  \* bound: times a request is sent
  MaxNumber  \* bound: highest file number

Kinds == {"messages", "captures", "reset", "other", "head"}

(* A request is sent whole, with the announcement that it is the last on   *)
(* its connection, or it breaks off in its body.                           *)
Ways == {"whole", "last", "cut"}

(* A load: the kind of each request, how often it may be sent, on which    *)
(* connections, in which ways, how many ahead of the replies, and after    *)
(* how many resets and crashes there is no further crash.                  *)
Load == [kind : [Requests -> Kinds], tries : [Requests -> 0 .. MaxTries],
         conns : SUBSET Conns, ways : SUBSET Ways, ahead : Nat, eras : Nat]

Tries == Requests \X (1 .. MaxTries)
NoReply == [of |-> "nobody"]

ASSUME BoundsAssumption == {MaxTries, MaxNumber} \subseteq Nat
ASSUME LoadsAssumption == Loads \subseteq Load

VARIABLES
  log, archive, call, phase, answer, issued,  \* those of CaptureLog
  at,       \* where the goroutine of a connection is
  cur,      \* the request it has read
  wire,     \* requests on their way to it
  back,     \* replies on their way from it
  client,   \* the client of a connection: "away", "open" or "ending"
  waiting,  \* tries it sent on it and has no reply to, in order
  load,     \* the load, which never changes
  tries,    \* times a request was sent
  got,      \* the reply a request got
  before,   \* requests that were answered before a try was sent (history)
  era,      \* resets and crashes up to now (history)
  stamp     \* era of the call a connection made (history)

storeVars == <<log, archive, call, phase, answer, issued>>
serverVars == <<at, cur>>
clientVars == <<client, waiting, tries, got, before>>
historyVars == <<era, stamp>>
vars == <<storeVars, serverVars, wire, back, clientVars, load, historyVars>>

Log == INSTANCE CaptureLog WITH Handlers <- Conns, Records <- Tries

Idle == [try |-> <<>>, way |-> "whole"]

Init ==
  /\ Log!Init
  /\ at = [c \in Conns |-> "closed"]
  /\ cur = [c \in Conns |-> Idle]
  /\ wire = [c \in Conns |-> <<>>]
  /\ back = [c \in Conns |-> <<>>]
  /\ client = [c \in Conns |-> "away"]
  /\ waiting = [c \in Conns |-> <<>>]
  /\ load \in Loads
  /\ tries = [r \in Requests |-> 0]
  /\ got = [r \in Requests |-> NoReply]
  /\ before = [t \in Tries |-> {}]
  /\ era = 0
  /\ stamp = [c \in Conns |-> 0]

-------------------------------------------------------------------------------
(* Clients *)

Answered(r) == got[r] # NoReply
Outstanding(t) == \E c \in Conns : \E i \in DOMAIN waiting[c] : waiting[c][i] = t

Open(c) ==
  /\ client[c] = "away" /\ at[c] = "closed" /\ c \in load.conns
  /\ client' = [client EXCEPT ![c] = "open"]
  /\ at' = [at EXCEPT ![c] = "read"]
  /\ UNCHANGED <<storeVars, cur, wire, back, waiting, load, tries, got, before, historyVars>>

(* A request that has no reply and waits for none is sent, for the first   *)
(* time or again.  After one that ends the connection nothing is sent.     *)
Send(c, r) ==
  /\ client[c] = "open" /\ Len(waiting[c]) < load.ahead
  /\ ~Answered(r) /\ ~Outstanding(<<r, tries[r]>>)
  /\ tries[r] < load.tries[r]
  /\ tries' = [tries EXCEPT ![r] = @ + 1]
  /\ LET t == <<r, tries'[r]>>
     IN  \E way \in load.ways :
           /\ way = "cut" => load.kind[r] = "messages"
           /\ wire' = [wire EXCEPT ![c] =
                IF at[c] = "closed" THEN @ ELSE Append(@, [try |-> t, way |-> way])]
           /\ client' = [client EXCEPT ![c] = IF way = "whole" THEN @ ELSE "ending"]
           /\ waiting' = [waiting EXCEPT ![c] = Append(@, t)]
           /\ before' = [before EXCEPT ![t] = {q \in Requests : Answered(q)}]
  /\ UNCHANGED <<storeVars, serverVars, back, load, got, historyVars>>

Leave(c) ==
  /\ client' = [client EXCEPT ![c] = "away"]
  /\ waiting' = [waiting EXCEPT ![c] = <<>>]
  /\ back' = [back EXCEPT ![c] = <<>>]

(* The next reply is taken for that to the oldest request; bytes that are  *)
(* no reply, or a reply to nothing, make the client hang up.               *)
Receive(c) ==
  /\ client[c] # "away" /\ back[c] # <<>>
  /\ \/ /\ waiting[c] # <<>> /\ Head(back[c]) # NoReply
        /\ got' = [got EXCEPT ![waiting[c][1][1]] = Head(back[c])]
        /\ back' = [back EXCEPT ![c] = Tail(@)]
        /\ waiting' = [waiting EXCEPT ![c] = Tail(@)]
        /\ UNCHANGED client
     \/ /\ waiting[c] = <<>> \/ Head(back[c]) = NoReply
        /\ Leave(c)
        /\ UNCHANGED got
  /\ UNCHANGED <<storeVars, serverVars, wire, load, tries, before, historyVars>>

(* The client loses its patience; or it sees the end of the connection.    *)
HangUp(c) ==
  /\ client[c] # "away"
  /\ Leave(c)
  /\ UNCHANGED <<storeVars, serverVars, wire, load, tries, got, before, historyVars>>

SeeEnd(c) == at[c] = "closed" /\ back[c] = <<>> /\ HangUp(c)

-------------------------------------------------------------------------------
(* The goroutine of a connection *)

(* conn.Close.  Replies still on their way may be lost by it: the client   *)
(* then sees what it sees when it hangs up itself.                         *)
Close(c) ==
  /\ at' = [at EXCEPT ![c] = "closed"]
  /\ wire' = [wire EXCEPT ![c] = <<>>]

(* Router.Handle and Service.Handle: the call of the store a request makes.*)
StoreCall(t) ==
  CASE load.kind[t[1]] = "messages" -> [op |-> "append", record |-> t]
    [] load.kind[t[1]] = "captures" -> [op |-> "snapshot"]
    [] load.kind[t[1]] = "reset" -> [op |-> "reset"]
    [] OTHER -> Log!NoCall

(* http.ReadRequest, io.ReadAll of its body, which fails if that broke off, *)
(* and the call of the router.                                             *)
ReadRequest(c) ==
  /\ at[c] = "read" /\ wire[c] # <<>> /\ Head(wire[c]).way # "cut"
  /\ cur' = [cur EXCEPT ![c] = Head(wire[c])]
  /\ wire' = [wire EXCEPT ![c] = Tail(@)]
  /\ LET wanted == StoreCall(Head(wire[c]).try)
     IN  \/ /\ wanted # Log!NoCall
            /\ at' = [at EXCEPT ![c] = "call"]
            /\ Log!Invoke(c) /\ call'[c] = wanted
         \/ /\ wanted = Log!NoCall
            /\ at' = [at EXCEPT ![c] = "reply"]
            /\ UNCHANGED storeVars
  /\ UNCHANGED <<back, clientVars, load, historyVars>>

(* Mutants of ReadFails: the deadline ends the connection whatever its     *)
(* goroutine does; there is no deadline.                                   *)
ReadFails_AnyTime(c) ==
  /\ at[c] # "closed"
  /\ Close(c)
  /\ UNCHANGED <<storeVars, cur, back, clientVars, load, historyVars>>

ReadFails_NoDeadline(c) ==
  /\ at[c] = "read" /\ client[c] = "away"
  /\ Close(c)
  /\ UNCHANGED <<storeVars, cur, back, clientVars, load, historyVars>>

(* The read fails: the client hung up between requests or within one, or   *)
(* the read deadline came, whatever had arrived by then.                   *)
ReadFails(c) ==
  /\ at[c] = "read"
  /\ Close(c)
  /\ UNCHANGED <<storeVars, cur, back, clientVars, load, historyVars>>

(* Append, Snapshot or Reset takes effect.  A capture may reach the        *)
(* directory or not, under a number CaptureLog allows.                     *)
Effect(c) ==
  /\ archive' \in {archive} \cup
       {[m \in DOMAIN archive \cup {n} |-> IF m = n THEN call[c].record ELSE archive[m]] :
          n \in IF call[c].op = "append" THEN 1 .. MaxNumber ELSE {}}
  /\ Log!Effect(c)
  /\ era' = IF call[c].op = "reset" THEN era + 1 ELSE era
  /\ stamp' = [stamp EXCEPT ![c] = era']
  /\ UNCHANGED <<serverVars, wire, back, clientVars, load>>

(* http.Response.Write and Flush.  The response does not know its request, *)
(* so the one to HEAD goes out with its body.                              *)
Response(c) ==
  <<[of |-> cur[c].try, shows |-> answer[c], era |-> stamp[c]]>>
    \o (IF load.kind[cur[c].try[1]] = "head" THEN <<NoReply>> ELSE <<>>)

(* Mutant of AfterError: the error of a write is ignored.                  *)
AfterError_GoesOn(c) == at' = [at EXCEPT ![c] = "read"] /\ UNCHANGED wire

AfterError(c) == Close(c)

(* The call returns, if there was one, and the reply is written; the loop  *)
(* ends if that fails or if the request asked to close.  A write may       *)
(* succeed after the client hung up: nobody gets those bytes, and the loop *)
(* goes on to what the client had sent before.                             *)
WriteReply(c) ==
  /\ \/ at[c] = "call" /\ Log!Return(c)
     \/ at[c] = "reply" /\ UNCHANGED storeVars
  /\ \/ /\ back' = IF client[c] = "away" THEN back
                   ELSE [back EXCEPT ![c] = @ \o Response(c)]
        /\ \/ cur[c].way = "last" /\ Close(c)
           \/ cur[c].way # "last" /\ at' = [at EXCEPT ![c] = "read"] /\ UNCHANGED wire
     \/ AfterError(c) /\ UNCHANGED back
  /\ cur' = [cur EXCEPT ![c] = Idle]
  /\ stamp' = [stamp EXCEPT ![c] = 0]
  /\ UNCHANGED <<clientVars, load, era>>

(* The process dies and is started again.                                  *)
Crash ==
  /\ era < load.eras
  /\ Log!Lose
  /\ at' = [c \in Conns |-> "closed"]
  /\ cur' = [c \in Conns |-> Idle]
  /\ wire' = [c \in Conns |-> <<>>]
  /\ era' = era + 1
  /\ stamp' = [c \in Conns |-> 0]
  /\ UNCHANGED <<back, clientVars, load>>

Client(c) ==
  Open(c) \/ Receive(c) \/ HangUp(c) \/ \E r \in Requests : Send(c, r)

Serve(c) == ReadRequest(c) \/ ReadFails(c) \/ Effect(c) \/ WriteReply(c)

Next == Crash \/ \E c \in Conns : Client(c) \/ Serve(c)

Spec == Init /\ [][Next]_vars

(* The goroutine goes on, its read deadline comes, and a client takes what *)
(* it is sent and sees the end of a connection.                            *)
Fairness ==
  \A c \in Conns : WF_vars(Serve(c)) /\ WF_vars(Receive(c) \/ SeeEnd(c))

FairSpec == Spec /\ Fairness

-------------------------------------------------------------------------------
(* Properties *)

Messages == [try : Tries, way : Ways]
Replies == [of : Tries, shows : Seq(Tries), era : Nat]

(* TypeOK: every variable keeps its type, and a connection is in a call of *)
(* the store exactly while its goroutine is (http1.go:55-70).              *)
TypeOK ==
  /\ log \in Seq(Tries) /\ issued \subseteq Tries
  /\ DOMAIN archive \subseteq 1 .. MaxNumber
  /\ call \in [Conns -> Log!Calls \cup {Log!NoCall}]
  /\ phase \in [Conns -> {"idle", "called", "returned"}]
  /\ answer \in [Conns -> Seq(Tries)]
  /\ at \in [Conns -> {"closed", "read", "call", "reply"}]
  /\ cur \in [Conns -> Messages \cup {Idle}]
  /\ wire \in [Conns -> Seq(Messages)]
  /\ back \in [Conns -> Seq(Replies \cup {NoReply})]
  /\ client \in [Conns -> {"away", "open", "ending"}]
  /\ waiting \in [Conns -> Seq(Tries)]
  /\ \A c \in Conns : Len(waiting[c]) <= load.ahead
  /\ load \in Loads
  /\ tries \in [Requests -> 0 .. MaxTries]
  /\ got \in [Requests -> Replies \cup {NoReply}]
  /\ before \in [Tries -> SUBSET Requests]
  /\ era \in Nat /\ stamp \in [Conns -> 0 .. era]
  /\ \A c \in Conns : at[c] = "call" <=> phase[c] # "idle"

(* RepliesInStep: what a client takes for the reply to a request is the    *)
(* reply to that very try of it, however it pipelines, whatever fails      *)
(* (http1.go:39-107).                                                      *)
RepliesInStep ==
  \A r \in Requests : Answered(r) => got[r].of = <<r, tries[r]>>

(* RepliesShowOwn: the reply to POST /v1/messages ends with the capture of *)
(* the try it answers (store.go:19-21, router.go:64-68).                   *)
RepliesShowOwn ==
  \A r \in Requests :
    Answered(r) /\ load.kind[r] = "messages" =>
      /\ got[r].shows # <<>>
      /\ got[r].shows[Len(got[r].shows)] = got[r].of

(* AnsweredIsSeen: a client that has the reply to its request, and asks    *)
(* later, on whatever connection, sees its capture in the list it gets,    *)
(* unless a reset or a crash came between the two (store.go:15-35).        *)
AnsweredIsSeen ==
  \A r, s \in Requests :
    /\ Answered(r) /\ load.kind[r] = "messages"
    /\ Answered(s) /\ load.kind[s] \in {"messages", "captures"}
    /\ r \in before[got[s].of]
    /\ got[r].era = got[s].era
    => \E i \in DOMAIN got[s].shows : got[s].shows[i] = got[r].of

(* LaterIsNumberedHigher: the capture of a request sent after another was  *)
(* answered has the higher file number, also after a restart: the files    *)
(* are in the order in which a client made its requests, which is what     *)
(* compare-sub2api.sh compares by (output.go:98, compare-sub2api.sh:7, 45).*)
LaterIsNumberedHigher ==
  \A i, j \in DOMAIN archive :
    LET r == archive[i][1]
    IN  r \in before[archive[j]] /\ got[r].of = archive[i] => i < j

(* NobodyWaits: a client that sent a request is answered, or learns that   *)
(* it will not be (http1.go:35-107).                                       *)
NobodyWaits ==
  \A r \in Requests :
    (tries[r] > 0 /\ Outstanding(<<r, tries[r]>>))
      ~> ~Outstanding(<<r, tries[r]>>)

-------------------------------------------------------------------------------
(* The inductive invariant behind the safety properties.                   *)

Sent(t) == t[2] <= tries[t[1]]
Busy(c) == at[c] \in {"call", "reply"}
Taking(t) == [op |-> "append", record |-> t]
In(t, seq) == \E i \in DOMAIN seq : seq[i] = t

(* What is on its way to the server, and what it has read, was sent; the   *)
(* call it makes is the one the request asks for.                          *)
Serves(c) ==
  /\ \A i \in DOMAIN wire[c] : Sent(wire[c][i].try)
  /\ at[c] = "closed" => wire[c] = <<>>
  /\ Busy(c) =>
       /\ cur[c] \in Messages /\ Sent(cur[c].try)
       /\ call[c] = StoreCall(cur[c].try)
  /\ ~Busy(c) => call[c] = Log!NoCall
  /\ at[c] = "reply" <=> Busy(c) /\ call[c] = Log!NoCall

ServerInv ==
  /\ \A t \in issued : Sent(t)
  /\ \A c \in Conns : Serves(c)

(* Each capture is handed to the store once.                               *)
CallsInv ==
  \A c \in Conns : call[c].op = "append" =>
    /\ call[c].record \in issued
    /\ \A d \in Conns : call[d] = call[c] => d = c

(* A client waits for the last try of a request only, in one place.        *)
Waits(c, i) ==
  LET t == waiting[c][i]
  IN  /\ t[2] = tries[t[1]] /\ ~Answered(t[1])
      /\ \A d \in Conns : \A j \in DOMAIN waiting[d] :
           waiting[d][j] = t => d = c /\ j = i

WaitingInv ==
  \A c \in Conns :
    /\ client[c] = "away" => waiting[c] = <<>> /\ back[c] = <<>>
    /\ \A i \in DOMAIN waiting[c] : Waits(c, i)

(* Up to the bytes that are no reply, the replies, the request that is     *)
(* served and those that are to be read are what the client waits for.     *)
Clear(c) == \A i \in DOMAIN back[c] : back[c][i] # NoReply
Served(c) == IF Busy(c) THEN 1 ELSE 0

InStep(c) ==
  /\ \A i \in DOMAIN back[c] : (\A j \in 1 .. i : back[c][j] # NoReply) =>
       i \in DOMAIN waiting[c] /\ back[c][i].of = waiting[c][i]
  /\ at[c] # "closed" /\ Clear(c) =>
       /\ Len(waiting[c]) = Len(back[c]) + Served(c) + Len(wire[c])
       /\ Busy(c) => waiting[c][Len(back[c]) + 1] = cur[c].try
       /\ \A i \in DOMAIN wire[c] :
            waiting[c][Len(back[c]) + Served(c) + i] = wire[c][i].try

StepInv == \A c \in Conns : client[c] # "away" => InStep(c)

(* What is true of a reply, from the call it tells of to the end: its own  *)
(* capture has been taken; it shows those of the requests that had been    *)
(* answered before it was sent, if they are of its era.                    *)
Taken(reply) ==
  /\ reply.of \in issued
  /\ \A c \in Conns : phase[c] = "called" => call[c] # Taking(reply.of)
  /\ reply.era = era => In(reply.of, log)

ShowsOwn(reply) ==
  reply.shows # <<>> /\ reply.shows[Len(reply.shows)] = reply.of

ShowsBefore(reply) ==
  \A r \in before[reply.of] :
    load.kind[r] = "messages" /\ got[r].era = reply.era =>
      In(got[r].of, reply.shows)

Sound(reply) ==
  /\ Sent(reply.of) /\ reply.era <= era
  /\ load.kind[reply.of[1]] = "messages" => Taken(reply) /\ ShowsOwn(reply)
  /\ load.kind[reply.of[1]] \in {"messages", "captures"} => ShowsBefore(reply)

Pending(c) == [of |-> cur[c].try, shows |-> answer[c], era |-> stamp[c]]

GotInv ==
  \A r \in Requests : Answered(r) => got[r].of = <<r, tries[r]>> /\ Sound(got[r])
BackInv ==
  \A c \in Conns : \A i \in DOMAIN back[c] :
    back[c][i] # NoReply => Sound(back[c][i])
PendingInv == \A c \in Conns : phase[c] = "returned" => Sound(Pending(c))

BeforeInv == \A t \in Tries : \A r \in before[t] : Answered(r)

ArchiveInv ==
  /\ \A n \in DOMAIN archive : archive[n] \in issued
  /\ LaterIsNumberedHigher

IInv ==
  /\ TypeOK /\ ServerInv /\ CallsInv /\ WaitingInv /\ StepInv
  /\ GotInv /\ BackInv /\ PendingInv /\ BeforeInv /\ ArchiveInv
===============================================================================
