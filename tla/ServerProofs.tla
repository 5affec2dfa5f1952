----------------------------- MODULE ServerProofs -----------------------------
(***************************************************************************)
(* Machine-checked proofs about Server, for any set of connections, any    *)
(* deadlines and any number of errors.                                     *)
(*                                                                         *)
(* The argument: the wait group counts the goroutines (Running), so that   *)
(* Wait ends only when there are none; the loop stops only after a signal, *)
(* when it reads no ClientHello (LoopInv), so none can be started then.    *)
(* The channel is empty exactly until the first error (ErrorInv).  A       *)
(* connection's write deadline is never renewed, so a request is read only *)
(* after it and answered only before it (TimeInv).                         *)
(***************************************************************************)
EXTENDS Server, FiniteSetTheorems, TLAPS

(* The constants as the provers need them.                                 *)
LEMMA DeadlineFacts ==
  /\ Deadline \in Nat /\ Deadline >= 1
  /\ ReadDeadline \in Nat /\ ReadDeadline >= 1 /\ ReadDeadline <= Deadline
  /\ MaxAge = Deadline + ReadDeadline + 1
BY DeadlineAssumption DEF MaxAge

LEMMA InitInv == Init => IInv
<1> SUFFICES ASSUME Init PROVE IInv
  OBVIOUS
<1> USE DEF Init
<1>1. Running = {} /\ Serving = {}
  BY DEF Running, Serving
<1>2. IsFiniteSet(Running) /\ wg = Cardinality(Running)
  BY <1>1, FS_EmptySet
<1>3. TypeOK
  <2>1. age \in [Conns -> 0 .. MaxAge]
    BY DeadlineFacts
  <2>2. readBy \in [Conns -> 0 .. MaxAge + 1] /\ writeBy \in [Conns -> 0 .. MaxAge + 1]
    BY DeadlineFacts
  <2>3. wg = Cardinality(Serving \cup {c \in Conns : phase[c] = "spawned"})
    BY <1>2 DEF Running
  <2>4. phase \in [Conns -> Phases] /\ proto \in [Conns -> Protocols]
    BY DEF Phases, Protocols
  <2>5. backlog \in Seq(Conns) /\ loop \in LoopLocations
    BY DEF LoopLocations
  <2> QED
    BY <2>1, <2>2, <2>3, <2>4, <2>5 DEF TypeOK
<1>4. LoopInv /\ ErrorInv
  BY DEF LoopInv, ErrorInv
<1>5. TimeInv /\ LifetimeBounded
  BY <1>1 DEF TimeInv, LifetimeBounded
<1> QED
  BY <1>2, <1>3, <1>4, <1>5 DEF IInv

-------------------------------------------------------------------------------
(* The wait group *)

(* A step starts one goroutine, ends one or does neither, and the wait     *)
(* group is told.                                                          *)
LEMMA RunningSteps ==
  ASSUME IInv, [Next]_vars
  PROVE  \/ Running' = Running /\ wg' = wg
         \/ \E c \in Conns : c \notin Running /\ Running' = Running \cup {c} /\ wg' = wg + 1
         \/ \E c \in Running : Running' = Running \ {c} /\ wg' = wg - 1
<1> USE DEF Running, Serving, Move
<1>1. phase \in [Conns -> Phases]
  BY DEF IInv, TypeOK
<1>2. CASE UNCHANGED <<wg, phase>>
  BY <1>2
<1>3. CASE CloseListener \/ Return
  BY <1>1, <1>3 DEF CloseListener, Return, CloseSocket
<1>4. CASE AcceptConn \/ HelloBad
  BY <1>1, <1>4 DEF AcceptConn, HelloBad
<1>5. CASE HelloRead
  <2>1. cur \in Conns /\ phase[cur] = "hello" /\ phase' = [phase EXCEPT ![cur] = "spawned"]
        /\ wg' = wg + 1
    BY <1>5 DEF HelloRead, IInv, LoopInv
  <2>2. cur \notin Running /\ Running' = Running \cup {cur}
    BY <1>1, <2>1
  <2> QED
    BY <2>1, <2>2
<1>6. ASSUME NEW c \in Conns, Connect(c) \/ Start(c) \/ Handshake(c)
                              \/ RequestRead(c) \/ ReplyWritten(c)
      PROVE  Running' = Running /\ wg' = wg
  BY <1>1, <1>6 DEF Connect, Start, Handshake, RequestRead, ReplyWritten
<1>7. ASSUME NEW c \in Conns, HangUp(c) \/ TimeOut(c)
      PROVE  c \in Running /\ Running' = Running \ {c} /\ wg' = wg - 1
  BY <1>1, <1>7 DEF HangUp, TimeOut, Finish, Expired
<1>8. Cancel \/ Tick \/ AcceptClosed \/ AcceptFailed \/ AcceptFails \/ UNCHANGED vars
      => UNCHANGED <<wg, phase>>
  BY DEF Cancel, Tick, AcceptClosed, AcceptFailed, AcceptFails, vars, connVars
<1> QED
  BY <1>2, <1>3, <1>4, <1>5, <1>6, <1>7, <1>8 DEF Next, AcceptLoop, Serve

LEMMA CountKeeps ==
  ASSUME IInv, [Next]_vars
  PROVE  IsFiniteSet(Running)' /\ wg' = Cardinality(Running)'
<1>1. IsFiniteSet(Running) /\ wg = Cardinality(Running) /\ wg \in Nat
  BY FS_CardinalityType DEF IInv, TypeOK, Running
<1>2. CASE Running' = Running /\ wg' = wg
  BY <1>1, <1>2
<1>3. ASSUME NEW c \in Conns, c \notin Running, Running' = Running \cup {c}, wg' = wg + 1
      PROVE  IsFiniteSet(Running') /\ wg' = Cardinality(Running')
  BY <1>1, <1>3, FS_AddElement
<1>4. ASSUME NEW c \in Running, Running' = Running \ {c}, wg' = wg - 1
      PROVE  IsFiniteSet(Running') /\ wg' = Cardinality(Running')
  BY <1>1, <1>4, FS_RemoveElement
<1> QED
  BY <1>2, <1>3, <1>4, RunningSteps

-------------------------------------------------------------------------------
(* The accept loop *)

LEMMA LoopKeeps ==
  ASSUME IInv, [Next]_vars
  PROVE  LoopInv'
<1> USE DEF LoopInv, Running, Serving, Move, acceptVars, connVars
<1>1. /\ phase \in [Conns -> Phases]
      /\ backlog \in Seq(Conns)
      /\ cancelled \in BOOLEAN /\ open \in BOOLEAN
      /\ cur \in Errors \cup {None}
      /\ LoopInv
  BY DEF IInv, TypeOK
<1>2. CASE Cancel \/ CloseListener
  BY <1>1, <1>2 DEF Cancel, CloseListener, CloseSocket
<1>3. CASE AcceptConn
  BY <1>1, <1>3 DEF AcceptConn
<1>4. CASE AcceptClosed \/ AcceptFails
  BY <1>1, <1>4 DEF AcceptClosed, AcceptFails, Errors
<1>5. CASE HelloRead \/ HelloBad
  BY <1>1, <1>5 DEF HelloRead, HelloBad, Errors
<1>6. CASE AcceptFailed
  BY <1>1, <1>6 DEF AcceptFailed
<1>7. CASE Return
  <2>1. Running = {}
    BY <1>7, FS_EmptySet DEF Return, IInv, TypeOK
  <2> QED
    BY <1>1, <1>7, <2>1 DEF Return, CloseSocket
<1>8. ASSUME NEW c \in Conns, Connect(c)
      PROVE  LoopInv'
  BY <1>1, <1>8 DEF Connect
<1>9. ASSUME NEW c \in Conns, Serve(c)
      PROVE  LoopInv'
  BY <1>1, <1>9 DEF Serve, Start, Handshake, RequestRead, ReplyWritten,
                    HangUp, TimeOut, Finish, Expired
<1>10. CASE Tick \/ UNCHANGED vars
  BY <1>1, <1>10 DEF Tick, vars
<1> QED
  BY <1>2, <1>3, <1>4, <1>5, <1>6, <1>7, <1>8, <1>9, <1>10 DEF Next, AcceptLoop

(* Only AcceptFailed sends an error, and only Return receives one.         *)
LEMMA ErrorKeeps ==
  ASSUME IInv, [Next]_vars
  PROVE  ErrorInv'
<1> USE DEF ErrorInv, acceptVars, connVars
<1>1. ErrorInv /\ LoopInv
  BY DEF IInv
<1>2. CASE AcceptFailed
  <2>1. cur \in Errors /\ cur # None
    BY <1>1, <1>2, NoneAssumption DEF AcceptFailed, LoopInv, Errors
  <2>2. errCh \in failed \/ errCh = None
    BY <1>1
  <2>3. None \notin failed
    BY NoneAssumption DEF IInv, TypeOK, Errors
  <2> QED
    BY <1>1, <1>2, <2>1, <2>2, <2>3 DEF AcceptFailed
<1>3. CASE Return
  BY <1>1, <1>3 DEF Return
<1>4. CASE UNCHANGED <<errCh, failed, result>> /\ loop' # "returned"
  BY <1>1, <1>4
<1>5. CASE UNCHANGED <<errCh, failed, result, loop>>
  BY <1>1, <1>5
<1>6. AcceptConn \/ AcceptClosed \/ AcceptFails \/ HelloRead \/ HelloBad
      => UNCHANGED <<errCh, failed, result>> /\ loop' # "returned"
  BY DEF AcceptConn, AcceptClosed, AcceptFails, HelloRead, HelloBad
<1>7. Cancel \/ CloseListener \/ Tick \/ UNCHANGED vars
      => UNCHANGED <<errCh, failed, result, loop>>
  BY DEF Cancel, CloseListener, Tick, vars
<1>8. ASSUME NEW c \in Conns, Connect(c) \/ Serve(c)
      PROVE  UNCHANGED <<errCh, failed, result, loop>>
  BY <1>8 DEF Connect, Serve, Start, Handshake, RequestRead, ReplyWritten,
              HangUp, TimeOut, Finish
<1> QED
  BY <1>2, <1>3, <1>4, <1>5, <1>6, <1>7, <1>8 DEF Next, AcceptLoop

-------------------------------------------------------------------------------
(* The clocks *)

(* What goes on outside the goroutines that serve touches no clock and     *)
(* moves no connection into or out of them.                                *)
LEMMA ClocksUntouched ==
  ASSUME IInv, UNCHANGED <<age, readBy, writeBy, proto>>,
         phase' \in [Conns -> Phases],
         \A c \in Conns :
           \/ phase'[c] = phase[c]
           \/ /\ phase[c] \in {"away", "queued", "hello"}
              /\ phase'[c] \in {"queued", "hello", "spawned", "closed"}
           \/ phase'[c] = "closed"
  PROVE  TimeInv' /\ LifetimeBounded'
<1>1. TimeInv'
  BY DEF IInv, TimeInv, Serving
<1>2. LifetimeBounded'
  BY DEF IInv, LifetimeBounded, Serving
<1> QED
  BY <1>1, <1>2

LEMMA ClocksKeep ==
  ASSUME IInv, [Next]_vars
  PROVE  TimeInv' /\ LifetimeBounded'
<1> USE DEF Move, acceptVars, connVars
<1>1. /\ phase \in [Conns -> Phases]
      /\ proto \in [Conns -> Protocols]
      /\ age \in [Conns -> 0 .. MaxAge]
      /\ readBy \in [Conns -> 0 .. MaxAge + 1]
      /\ writeBy \in [Conns -> 0 .. MaxAge + 1]
      /\ TimeInv /\ LifetimeBounded
  BY DEF IInv, TypeOK
<1>2. CASE CloseListener \/ Return
  <2>1. phase' \in [Conns -> Phases]
    BY <1>1, <1>2 DEF CloseListener, Return, CloseSocket, Phases
  <2> QED
    BY <1>2, <2>1, ClocksUntouched DEF CloseListener, Return, CloseSocket
<1>3. CASE AcceptConn \/ HelloRead \/ HelloBad
  <2>1. phase' \in [Conns -> Phases]
    BY <1>1, <1>3 DEF AcceptConn, HelloRead, HelloBad, Phases
  <2>2. \A c \in Conns :
           \/ phase'[c] = phase[c]
           \/ /\ phase[c] \in {"away", "queued", "hello"}
              /\ phase'[c] \in {"queued", "hello", "spawned", "closed"}
    BY <1>1, <1>3 DEF AcceptConn, HelloRead, HelloBad
  <2>3. UNCHANGED <<age, readBy, writeBy, proto>>
    BY <1>3 DEF AcceptConn, HelloRead, HelloBad
  <2> QED
    BY <2>1, <2>2, <2>3, ClocksUntouched
<1>4. CASE Cancel \/ AcceptClosed \/ AcceptFails \/ AcceptFailed \/ UNCHANGED vars
  <2>1. UNCHANGED <<phase, age, readBy, writeBy, proto>>
    BY <1>4 DEF Cancel, AcceptClosed, AcceptFails, AcceptFailed, vars
  <2> QED
    BY <1>1, <2>1, ClocksUntouched
<1>5. ASSUME NEW c \in Conns, Connect(c) \/ HangUp(c) \/ TimeOut(c)
      PROVE  TimeInv' /\ LifetimeBounded'
  <2>1. phase' \in [Conns -> Phases]
    BY <1>1, <1>5 DEF Connect, HangUp, TimeOut, Finish, Phases
  <2>2. \A d \in Conns :
           \/ phase'[d] = phase[d]
           \/ phase[d] = "away" /\ phase'[d] = "queued"
           \/ phase'[d] = "closed"
    BY <1>1, <1>5 DEF Connect, HangUp, TimeOut, Finish
  <2>3. UNCHANGED <<age, readBy, writeBy, proto>>
    BY <1>5 DEF Connect, HangUp, TimeOut, Finish
  <2> QED
    BY <2>1, <2>2, <2>3, ClocksUntouched
<1>6. ASSUME NEW c \in Conns, Start(c)
      PROVE  TimeInv' /\ LifetimeBounded'
  BY <1>1, <1>6, DeadlineFacts DEF Start, TimeInv, LifetimeBounded, Serving
<1>7. ASSUME NEW c \in Conns, Handshake(c)
      PROVE  TimeInv' /\ LifetimeBounded'
  <2>1. phase[c] = "handshake" /\ age[c] < Deadline /\ age[c] \in Nat
    BY <1>1, <1>7, DeadlineFacts DEF Handshake, Expired, TimeInv
  <2>2. PICK p \in Protocols :
          /\ proto' = [proto EXCEPT ![c] = p]
          /\ readBy' = [readBy EXCEPT ![c] = IF p = "h1" THEN age[c] + ReadDeadline ELSE @]
          /\ UNCHANGED <<writeBy, age>>
          /\ phase' = [phase EXCEPT ![c] = "read"]
    BY <1>7 DEF Handshake, RenewRead
  <2>3. TimeInv'
    BY <1>1, <2>1, <2>2, DeadlineFacts DEF TimeInv, Serving
  <2>4. LifetimeBounded'
    BY <1>1, <2>1, <2>2, DeadlineFacts DEF TimeInv, LifetimeBounded, Serving
  <2> QED
    BY <2>3, <2>4
<1>8. ASSUME NEW c \in Conns, RequestRead(c)
      PROVE  TimeInv' /\ LifetimeBounded'
  BY <1>1, <1>8 DEF RequestRead, TimeInv, LifetimeBounded, Serving
<1>9. ASSUME NEW c \in Conns, ReplyWritten(c)
      PROVE  TimeInv' /\ LifetimeBounded'
  <2>1. phase[c] = "write" /\ age[c] < Deadline /\ age[c] \in Nat
    BY <1>1, <1>9, DeadlineFacts DEF ReplyWritten, Expired, TimeInv, Serving
  <2>2. /\ readBy' = [readBy EXCEPT ![c] = IF proto[c] = "h1" THEN age[c] + ReadDeadline ELSE @]
        /\ UNCHANGED <<writeBy, age, proto>>
        /\ phase' = [phase EXCEPT ![c] = "read"]
    BY <1>9 DEF ReplyWritten, RenewRead
  <2>3. TimeInv'
    BY <1>1, <2>1, <2>2, DeadlineFacts DEF TimeInv, Serving
  <2>4. LifetimeBounded'
    BY <1>1, <2>1, <2>2, DeadlineFacts DEF TimeInv, LifetimeBounded, Serving
  <2> QED
    BY <2>3, <2>4
<1>10. CASE Tick
  <2>1. /\ UNCHANGED <<phase, proto, readBy, writeBy>>
        /\ \A c \in Conns : age'[c] = IF c \in Serving THEN age[c] + 1 ELSE age[c]
        /\ Serving' = Serving
    BY <1>10 DEF Tick, Serving
  <2>2. ASSUME NEW c \in Serving
        PROVE  /\ phase[c] = "handshake" => age[c] + 1 <= Deadline
               /\ age[c] + 1 <= Deadline + (IF proto[c] = "h1" THEN ReadDeadline ELSE 0)
    <3>1. age[c] \in Nat /\ readBy[c] \in Nat /\ c \in Conns
      BY <1>1, DeadlineFacts DEF Serving
    <3>2. phase[c] \in {"handshake", "read"} => age[c] < readBy[c]
      BY <1>10, <3>1, <1>1, DeadlineFacts DEF Tick, Expired
    <3>3. phase[c] = "write" => age[c] < Deadline
      BY <1>10, <3>1, <1>1, DeadlineFacts DEF Tick, Expired, TimeInv
    <3> QED
      BY <1>1, <3>1, <3>2, <3>3, DeadlineFacts DEF TimeInv, Serving
  <2>3. TimeInv'
    BY <1>1, <2>1, <2>2 DEF TimeInv, Serving
  <2>4. LifetimeBounded'
    BY <1>1, <2>1, <2>2 DEF LifetimeBounded, Serving
  <2> QED
    BY <2>3, <2>4
<1> QED
  BY <1>2, <1>3, <1>4, <1>5, <1>6, <1>7, <1>8, <1>9, <1>10 DEF Next, AcceptLoop, Serve

-------------------------------------------------------------------------------
(* Types *)

LEMMA LoopTypes ==
  ASSUME IInv, [Next]_vars
  PROVE  /\ cancelled' \in BOOLEAN /\ open' \in BOOLEAN
         /\ backlog' \in Seq(Conns)
         /\ loop' \in LoopLocations
         /\ cur' \in Errors \cup {None} /\ errCh' \in Errors \cup {None}
         /\ result' \in Errors \cup {None} /\ failed' \subseteq Errors
<1> USE DEF LoopLocations, acceptVars, connVars
<1>1. /\ cancelled \in BOOLEAN /\ open \in BOOLEAN
      /\ backlog \in Seq(Conns)
      /\ loop \in LoopLocations
      /\ cur \in Errors \cup {None} /\ errCh \in Errors \cup {None}
      /\ result \in Errors \cup {None} /\ failed \subseteq Errors
      /\ loop = "failed" => cur \in Errors
  BY DEF IInv, TypeOK, LoopInv
<1>2. CASE AcceptConn
  BY <1>1, <1>2 DEF AcceptConn, Errors
<1>3. CASE AcceptFails
  BY <1>1, <1>3 DEF AcceptFails, Errors
<1>4. CASE AcceptFailed
  BY <1>1, <1>4 DEF AcceptFailed
<1>5. CASE AcceptClosed \/ HelloRead \/ HelloBad
  BY <1>1, <1>5 DEF AcceptClosed, HelloRead, HelloBad
<1>6. CASE Return \/ CloseListener \/ Cancel
  <2>1. <<>> \in Seq(Conns)
    OBVIOUS
  <2>2. CASE Return
    BY <1>1, <2>1, <2>2 DEF Return, CloseSocket
  <2>3. CASE CloseListener
    BY <1>1, <2>1, <2>3 DEF CloseListener, CloseSocket
  <2>4. CASE Cancel
    BY <1>1, <2>4 DEF Cancel
  <2> QED
    BY <1>6, <2>2, <2>3, <2>4
<1>7. ASSUME NEW c \in Conns, Connect(c)
      PROVE  UNCHANGED <<cancelled, open, loop, cur, errCh, result, failed>>
             /\ backlog' \in Seq(Conns)
  BY <1>1, <1>7 DEF Connect
<1>8. ASSUME NEW c \in Conns, Serve(c)
      PROVE  UNCHANGED acceptVars
  BY <1>8 DEF Serve, Start, Handshake, RequestRead, ReplyWritten,
              HangUp, TimeOut, Finish
<1>9. CASE Tick \/ UNCHANGED vars
  BY <1>1, <1>9 DEF Tick, vars
<1> QED
  BY <1>1, <1>2, <1>3, <1>4, <1>5, <1>6, <1>7, <1>8, <1>9 DEF Next, AcceptLoop

LEMMA ConnTypes ==
  ASSUME IInv, [Next]_vars
  PROVE  /\ phase' \in [Conns -> Phases]
         /\ proto' \in [Conns -> Protocols]
         /\ age' \in [Conns -> 0 .. MaxAge]
         /\ readBy' \in [Conns -> 0 .. MaxAge + 1]
         /\ writeBy' \in [Conns -> 0 .. MaxAge + 1]
<1> USE DEF Phases, acceptVars, connVars, Move
<1>1. /\ phase \in [Conns -> Phases]
      /\ proto \in [Conns -> Protocols]
      /\ age \in [Conns -> 0 .. MaxAge]
      /\ readBy \in [Conns -> 0 .. MaxAge + 1]
      /\ writeBy \in [Conns -> 0 .. MaxAge + 1]
      /\ TimeInv
  BY DEF IInv, TypeOK
<1>2. CASE AcceptConn \/ HelloRead \/ HelloBad
  BY <1>1, <1>2 DEF AcceptConn, HelloRead, HelloBad
<1>3. CASE CloseListener \/ Return
  BY <1>1, <1>3 DEF CloseListener, Return, CloseSocket
<1>4. CASE Cancel \/ AcceptClosed \/ AcceptFails \/ AcceptFailed \/ UNCHANGED vars
  BY <1>1, <1>4 DEF Cancel, AcceptClosed, AcceptFails, AcceptFailed, vars
<1>5. CASE Tick
  <2>1. \A c \in Serving : age[c] + 1 \in 0 .. MaxAge
    BY <1>1, <1>5, DeadlineFacts DEF Tick, Serving
  <2> QED
    BY <1>1, <1>5, <2>1 DEF Tick
<1>6. ASSUME NEW c \in Conns, Connect(c) \/ RequestRead(c) \/ HangUp(c) \/ TimeOut(c)
      PROVE  UNCHANGED <<proto, age, readBy, writeBy>> /\ phase' \in [Conns -> Phases]
  BY <1>1, <1>6 DEF Connect, RequestRead, HangUp, TimeOut, Finish
<1>7. ASSUME NEW c \in Conns, Start(c)
      PROVE  /\ UNCHANGED <<proto, age>> /\ phase' \in [Conns -> Phases]
             /\ readBy' \in [Conns -> 0 .. MaxAge + 1]
             /\ writeBy' \in [Conns -> 0 .. MaxAge + 1]
  BY <1>1, <1>7, DeadlineFacts DEF Start
<1>8. ASSUME NEW c \in Conns, Handshake(c) \/ ReplyWritten(c)
      PROVE  /\ UNCHANGED <<age, writeBy>> /\ phase' \in [Conns -> Phases]
             /\ proto' \in [Conns -> Protocols]
             /\ readBy' \in [Conns -> 0 .. MaxAge + 1]
  <2>1. age[c] \in Nat /\ age[c] + ReadDeadline \in 0 .. MaxAge + 1
    BY <1>1, <1>8, DeadlineFacts DEF Handshake, ReplyWritten, Expired, TimeInv, Serving
  <2>2. CASE Handshake(c)
    BY <1>1, <2>1, <2>2 DEF Handshake, RenewRead
  <2>3. CASE ReplyWritten(c)
    BY <1>1, <2>1, <2>3 DEF ReplyWritten, RenewRead
  <2> QED
    BY <1>8, <2>2, <2>3
<1> QED
  BY <1>1, <1>2, <1>3, <1>4, <1>5, <1>6, <1>7, <1>8 DEF Next, AcceptLoop, Serve

-------------------------------------------------------------------------------
(* Theorems *)

(* Every step of the specification keeps the invariant.                    *)
LEMMA NextKeeps == IInv /\ [Next]_vars => IInv'
<1> SUFFICES ASSUME IInv, [Next]_vars PROVE IInv'
  OBVIOUS
<1>1. TypeOK'
  <2>1. wg' = Cardinality(Serving' \cup {c \in Conns : phase'[c] = "spawned"})
    BY CountKeeps DEF Running
  <2> QED
    BY <2>1, LoopTypes, ConnTypes DEF TypeOK
<1> QED
  BY <1>1, CountKeeps, LoopKeeps, ErrorKeeps, ClocksKeep DEF IInv

(* The invariant holds in every behaviour.                                 *)
THEOREM Invariance == Spec => []IInv
BY InitInv, NextKeeps, PTL DEF Spec

(* Types are kept, and the wait group counts the goroutines that serve or  *)
(* are about to (server.go:110-114).                                       *)
THEOREM TypeCorrect == Spec => []TypeOK
<1>1. IInv => TypeOK
  BY DEF IInv
<1> QED
  BY Invariance, <1>1, PTL

(* ListenAndServe returns only after a signal, with the socket closed and  *)
(* every connection that was accepted served to its end, whatever the loop *)
(* was doing when the signal came (server.go:81-117).                      *)
THEOREM ReturnsDrained == Spec => []DrainedOnReturn
<1>1. IInv => DrainedOnReturn
  BY DEF IInv, TypeOK, LoopInv, DrainedOnReturn, Running, Serving, Phases
<1> QED
  BY Invariance, <1>1, PTL

(* The process exits 0 exactly when no Accept failed while it served, and  *)
(* otherwise reports one of the errors it met (server.go:91-102, 118-123). *)
THEOREM ExitReportsError == Spec => []ExitStatus
<1>1. IInv => ExitStatus
  BY DEF IInv, ErrorInv, ExitStatus
<1> QED
  BY Invariance, <1>1, PTL

(* Whatever its client does, a connection is served for at most the        *)
(* deadline of handleConnection, and one more read deadline with HTTP/1    *)
(* (server.go:127, http1.go:40).                                           *)
THEOREM LifetimesBounded == Spec => []LifetimeBounded
<1>1. IInv => LifetimeBounded
  BY DEF IInv
<1> QED
  BY Invariance, <1>1, PTL
===============================================================================
