-------------------------------- MODULE Server --------------------------------
(***************************************************************************)
(* pkg/server/server.go, with the Accept of pkg/tlsfp/listener.go and the  *)
(* deadlines of pkg/httpfp: the accept loop, which reads the ClientHello   *)
(* of one connection at a time, the goroutines that serve connections, the *)
(* goroutine that closes the listener when the context is cancelled, and   *)
(* what ListenAndServe hands to main.                                      *)
(*                                                                         *)
(* What is read and written on a connection is left out: a request either  *)
(* arrives in time or not, and the call of the router is part of the step  *)
(* that reads the request (CaptureStore models it).  Time is counted in    *)
(* units of at most half the read deadline, or a read could never last.    *)
(***************************************************************************)
EXTENDS Integers, Sequences, FiniteSets

CONSTANTS
  Conns,        \* TCP connections clients may open
  Deadline,     \* handleConnection's deadline: 2 minutes
  ReadDeadline, \* HTTP1Handler.Serve's read deadline: 30 seconds
  AcceptError,  \* an error of the kernel's accept, such as EMFILE
  None          \* no connection, no error

ASSUME DeadlineAssumption ==
  /\ Deadline \in Nat \ {0}
  /\ ReadDeadline \in 1 .. Deadline
ASSUME NoneAssumption ==
  /\ AcceptError \notin Conns
  /\ None \notin Conns \cup {AcceptError}

VARIABLES
  cancelled, \* has a signal cancelled the context?
  open,      \* is the listening socket open?
  backlog,   \* connections the kernel has completed and nobody accepted yet
  loop,      \* where the accept loop is
  cur,       \* the connection whose ClientHello it reads, or the error it got
  errCh,     \* the channel of one error
  wg,        \* Server.waitGroup
  result,    \* what ListenAndServe returned
  phase,     \* where each connection is
  proto,     \* the protocol ALPN chose for it
  age,       \* units since handleConnection set its deadline
  readBy,    \* age at which a blocked read fails
  writeBy,   \* age at which a blocked write fails
  failed     \* errors of Accept met while serving (history)

acceptVars == <<cancelled, open, backlog, loop, cur, errCh, result, failed>>
connVars == <<wg, phase, proto, age, readBy, writeBy>>
vars == <<acceptVars, connVars>>

Errors == Conns \cup {AcceptError}
Protocols == {"h1", "h2"}
LoopLocations == {"accept", "hello", "failed", "wait", "returned"}
Phases == {"away", "queued", "hello", "spawned", "handshake", "read", "write",
           "closed"}

(* Bound: no clock runs past the point where a property has failed.        *)
MaxAge == Deadline + ReadDeadline + 1

(* Connections with a running goroutine that is blocked in network I/O.    *)
Serving == {c \in Conns : phase[c] \in {"handshake", "read", "write"}}

(* I/O on a connection whose deadline has passed fails at once.            *)
Expired(c) ==
  \/ phase[c] \in {"handshake", "read"} /\ age[c] >= readBy[c]
  \/ phase[c] \in {"handshake", "write"} /\ age[c] >= writeBy[c]

-------------------------------------------------------------------------------
Init ==
  /\ cancelled = FALSE
  /\ open = TRUE
  /\ backlog = <<>>
  /\ loop = "accept"
  /\ cur = None
  /\ errCh = None
  /\ wg = 0
  /\ result = None
  /\ phase = [c \in Conns |-> "away"]
  /\ proto = [c \in Conns |-> "h1"]
  /\ age = [c \in Conns |-> 0]
  /\ readBy = [c \in Conns |-> 0]
  /\ writeBy = [c \in Conns |-> 0]
  /\ failed = {}

Move(c, from, to) ==
  /\ phase[c] = from
  /\ phase' = [phase EXCEPT ![c] = to]

Connect(c) ==
  /\ open
  /\ Move(c, "away", "queued")
  /\ backlog' = Append(backlog, c)
  /\ UNCHANGED <<cancelled, open, loop, cur, errCh, result, failed>>
  /\ UNCHANGED <<wg, proto, age, readBy, writeBy>>

(* SIGINT or SIGTERM: signal.NotifyContext cancels the context.            *)
Cancel ==
  /\ ~cancelled
  /\ loop # "returned"
  /\ cancelled' = TRUE
  /\ UNCHANGED <<open, backlog, loop, cur, errCh, result, failed, connVars>>

(* Closing the socket resets the connections of its backlog.               *)
CloseSocket ==
  /\ open' = FALSE
  /\ backlog' = <<>>
  /\ phase' = [c \in Conns |-> IF phase[c] = "queued" THEN "closed"
                               ELSE phase[c]]

(* The goroutine that waits for ctx.Done. *)
CloseListener ==
  /\ cancelled
  /\ open
  /\ CloseSocket
  /\ UNCHANGED <<cancelled, loop, cur, errCh, result, failed>>
  /\ UNCHANGED <<wg, proto, age, readBy, writeBy>>

(* Listener.Accept takes a connection and goes on to read its ClientHello, *)
(* in the accept loop's own goroutine and with no deadline.                *)
AcceptConn ==
  /\ loop = "accept"
  /\ backlog # <<>>
  /\ loop' = "hello"
  /\ cur' = Head(backlog)
  /\ backlog' = Tail(backlog)
  /\ Move(Head(backlog), "queued", "hello")
  /\ UNCHANGED <<cancelled, open, errCh, result, failed>>
  /\ UNCHANGED <<wg, proto, age, readBy, writeBy>>

(* The kernel's accept fails for lack of resources; the loop does not      *)
(* wait before it tries again.                                             *)
AcceptFails ==
  /\ loop = "accept"
  /\ open
  /\ loop' = "failed"
  /\ cur' = AcceptError
  /\ UNCHANGED <<cancelled, open, backlog, errCh, result, failed, connVars>>

(* net.ErrClosed ends the loop. *)
AcceptClosed ==
  /\ loop = "accept"
  /\ ~open
  /\ loop' = "wait"
  /\ UNCHANGED <<cancelled, open, backlog, cur, errCh, result, failed, connVars>>

(* A whole ClientHello: Accept returns, the loop starts a goroutine.       *)
HelloRead ==
  /\ loop = "hello"
  /\ loop' = "accept"
  /\ cur' = None
  /\ Move(cur, "hello", "spawned")
  /\ wg' = wg + 1
  /\ UNCHANGED <<cancelled, open, backlog, errCh, result, failed>>
  /\ UNCHANGED <<proto, age, readBy, writeBy>>

(* End of input, a record of another kind, a ClientHello that cannot be    *)
(* parsed: Accept closes the connection and returns the error.             *)
HelloBad ==
  /\ loop = "hello"
  /\ loop' = "failed"
  /\ Move(cur, "hello", "closed")
  /\ UNCHANGED <<cancelled, open, backlog, cur, errCh, result, failed>>
  /\ UNCHANGED <<wg, proto, age, readBy, writeBy>>

(* Mutants of AcceptFailed: the error that ends the loop is reported too;  *)
(* the send to the channel blocks while it is full.                        *)
AcceptFailed_ReportsLast ==
  /\ loop = "failed"
  /\ errCh' = IF errCh = None THEN cur ELSE errCh
  /\ \/ /\ cancelled
        /\ loop' = "wait"
        /\ UNCHANGED failed
     \/ /\ ~cancelled
        /\ loop' = "accept"
        /\ failed' = failed \cup {cur}
  /\ cur' = None
  /\ UNCHANGED <<cancelled, open, backlog, result, connVars>>

AcceptFailed_Blocks ==
  /\ loop = "failed"
  /\ \/ /\ cancelled
        /\ loop' = "wait"
        /\ UNCHANGED <<errCh, failed>>
     \/ /\ ~cancelled
        /\ errCh = None
        /\ loop' = "accept"
        /\ errCh' = cur
        /\ failed' = failed \cup {cur}
  /\ cur' = None
  /\ UNCHANGED <<cancelled, open, backlog, result, connVars>>

(* The loop's error path: leave when shutting down, otherwise keep the     *)
(* first error that finds the channel empty and accept again.              *)
AcceptFailed ==
  /\ loop = "failed"
  /\ \/ /\ cancelled
        /\ loop' = "wait"
        /\ UNCHANGED <<errCh, failed>>
     \/ /\ ~cancelled
        /\ loop' = "accept"
        /\ errCh' = IF errCh = None THEN cur ELSE errCh
        /\ failed' = failed \cup {cur}
  /\ cur' = None
  /\ UNCHANGED <<cancelled, open, backlog, result, connVars>>

(* Mutant of Return: the connections are not waited for.                   *)
Return_NoWait ==
  /\ loop = "wait"
  /\ loop' = "returned"
  /\ result' = errCh
  /\ CloseSocket
  /\ UNCHANGED <<cancelled, cur, errCh, failed, wg, proto, age, readBy, writeBy>>

(* waitGroup.Wait, the error if there was one, the deferred Close.         *)
Return ==
  /\ loop = "wait"
  /\ wg = 0
  /\ loop' = "returned"
  /\ result' = errCh
  /\ CloseSocket
  /\ UNCHANGED <<cancelled, cur, errCh, failed, wg, proto, age, readBy, writeBy>>

-------------------------------------------------------------------------------
(* handleConnection *)

Start(c) ==
  /\ Move(c, "spawned", "handshake")
  /\ readBy' = [readBy EXCEPT ![c] = Deadline]
  /\ writeBy' = [writeBy EXCEPT ![c] = Deadline]
  /\ UNCHANGED <<acceptVars, wg, proto, age>>

(* Mutant of RenewRead: SetDeadline instead of SetReadDeadline.            *)
RenewRead_Both(c, p) ==
  /\ readBy' = [readBy EXCEPT ![c] = IF p = "h1" THEN age[c] + ReadDeadline ELSE @]
  /\ writeBy' = [writeBy EXCEPT ![c] = IF p = "h1" THEN age[c] + ReadDeadline ELSE @]

(* The top of the HTTP/1 loop sets a new read deadline for each request;   *)
(* HTTP/2 never does.                                                      *)
RenewRead(c, p) ==
  /\ readBy' = [readBy EXCEPT ![c] = IF p = "h1" THEN age[c] + ReadDeadline ELSE @]
  /\ UNCHANGED writeBy

Handshake(c) ==
  /\ ~Expired(c)
  /\ Move(c, "handshake", "read")
  /\ \E p \in Protocols :
       /\ proto' = [proto EXCEPT ![c] = p]
       /\ RenewRead(c, p)
  /\ UNCHANGED <<acceptVars, wg, age>>

(* A request is complete and answered; the reply is yet to be sent.        *)
RequestRead(c) ==
  /\ ~Expired(c)
  /\ Move(c, "read", "write")
  /\ UNCHANGED <<acceptVars, wg, proto, age, readBy, writeBy>>

ReplyWritten(c) ==
  /\ ~Expired(c)
  /\ Move(c, "write", "read")
  /\ RenewRead(c, proto[c])
  /\ UNCHANGED <<acceptVars, wg, proto, age>>

(* Mutant of Finish: a way out of the goroutine without waitGroup.Done.    *)
Finish_NoDone(c) ==
  /\ phase' = [phase EXCEPT ![c] = "closed"]
  /\ UNCHANGED <<acceptVars, wg, proto, age, readBy, writeBy>>

(* The connection is closed, the goroutine ends, waitGroup.Done.           *)
Finish(c) ==
  /\ phase' = [phase EXCEPT ![c] = "closed"]
  /\ wg' = wg - 1
  /\ UNCHANGED <<acceptVars, proto, age, readBy, writeBy>>

(* The client closes, resets or breaks the protocol; GOAWAY; or the last   *)
(* request asked to close.                                                 *)
HangUp(c) ==
  /\ c \in Serving
  /\ Finish(c)

TimeOut(c) ==
  /\ Expired(c)
  /\ Finish(c)

(* A unit of time passes.  A read or write whose deadline has come returns *)
(* before that: runtime timers do not lag by that much.                    *)
Tick ==
  /\ \A c \in Serving : ~Expired(c) /\ age[c] < MaxAge
  /\ age' = [c \in Conns |-> IF c \in Serving THEN age[c] + 1 ELSE age[c]]
  /\ UNCHANGED <<acceptVars, wg, phase, proto, readBy, writeBy>>

-------------------------------------------------------------------------------
AcceptLoop ==
  AcceptConn \/ AcceptClosed \/ AcceptFailed \/ Return

Serve(c) ==
  Start(c) \/ Handshake(c) \/ RequestRead(c) \/ ReplyWritten(c) \/ HangUp(c)
  \/ TimeOut(c)

Next ==
  \/ Cancel \/ CloseListener \/ Tick
  \/ AcceptLoop \/ AcceptFails \/ HelloRead \/ HelloBad
  \/ \E c \in Conns : Connect(c) \/ Serve(c)

Spec == Init /\ [][Next]_vars

(* Goroutines that can run do, time passes, a deadline that has come ends  *)
(* its I/O, and an accept that fails for lack of resources does not do so  *)
(* for ever.  A client on an accepted connection owes nothing.             *)
Fairness ==
  /\ WF_vars(CloseListener)
  /\ SF_vars(AcceptConn) /\ WF_vars(AcceptClosed) /\ WF_vars(AcceptFailed)
  /\ WF_vars(Return)
  /\ WF_vars(Tick)
  /\ \A c \in Conns : WF_vars(Start(c)) /\ WF_vars(TimeOut(c))

(* Every client either sends a ClientHello or hangs up.                    *)
HelloFairness == WF_vars(HelloRead \/ HelloBad)

SilentSpec == Spec /\ Fairness
FairSpec == SilentSpec /\ HelloFairness

-------------------------------------------------------------------------------
(* Properties *)

(* TypeOK: every variable keeps its type, and the wait group counts the    *)
(* goroutines that have been started and have not ended (server.go:110-114). *)
TypeOK ==
  /\ cancelled \in BOOLEAN
  /\ open \in BOOLEAN
  /\ backlog \in Seq(Conns)
  /\ loop \in LoopLocations
  /\ cur \in Errors \cup {None}
  /\ errCh \in Errors \cup {None}
  /\ wg = Cardinality(Serving \cup {c \in Conns : phase[c] = "spawned"})
  /\ result \in Errors \cup {None}
  /\ phase \in [Conns -> Phases]
  /\ proto \in [Conns -> Protocols]
  /\ age \in [Conns -> 0 .. MaxAge]
  /\ readBy \in [Conns -> 0 .. MaxAge + 1]
  /\ writeBy \in [Conns -> 0 .. MaxAge + 1]
  /\ failed \subseteq Errors

(* DrainedOnReturn: ListenAndServe returns only after a signal, with the   *)
(* socket closed and no connection left half-way: every one that was       *)
(* accepted has been served to its end, whatever the loop was doing when   *)
(* the signal came (server.go:81-117).                                     *)
DrainedOnReturn ==
  loop = "returned" =>
    /\ cancelled /\ ~open
    /\ \A c \in Conns : phase[c] \in {"away", "closed"}

(* ExitStatus: the process exits 0 exactly when no Accept failed while it  *)
(* was serving; an error met while shutting down is not reported, and one  *)
(* met and survived long before is (server.go:91-102, 118-123, main.go:33-36). *)
ExitStatus ==
  loop = "returned" =>
    IF failed = {} THEN result = None ELSE result \in failed

(* LifetimeBounded: however a client behaves, two minutes after its        *)
(* handshake began an HTTP/2 connection is closed, and an HTTP/1 one at    *)
(* most 30 seconds later: a renewed read deadline does not prolong it,     *)
(* because the write deadline is never renewed (server.go:127, http1.go:40). *)
LifetimeBounded ==
  \A c \in Serving :
    age[c] <= Deadline + (IF proto[c] = "h1" THEN ReadDeadline ELSE 0)

(* ShutdownCompletes: after a signal ListenAndServe returns.               *)
ShutdownCompletes == cancelled ~> loop = "returned"

(* EveryConnectionEnds: a connection that reached the backlog is accepted  *)
(* and served or refused, and does not last for ever.                      *)
EveryConnectionEnds ==
  \A c \in Conns : phase[c] = "queued" ~> phase[c] = "closed"

-------------------------------------------------------------------------------
(* The inductive invariant behind TypeOK, DrainedOnReturn, ExitStatus and  *)
(* LifetimeBounded.                                                        *)

(* Goroutines that have been started and have not ended.                   *)
Running == Serving \cup {c \in Conns : phase[c] = "spawned"}

(* The accept loop reads the ClientHello of one connection, and of none    *)
(* when it waits; it comes to wait only after a signal, and a socket that  *)
(* was closed has no backlog.                                              *)
LoopInv ==
  /\ \A c \in Conns : phase[c] = "hello" => loop = "hello" /\ cur = c
  /\ loop = "hello" => cur \in Conns
  /\ loop = "failed" => cur \in Errors
  /\ loop \in {"wait", "returned"} \/ ~open => cancelled
  /\ ~open => \A c \in Conns : phase[c] # "queued"
  /\ loop = "returned" => ~open /\ Running = {}

(* The channel is full as soon as an Accept failed, with one of the errors. *)
ErrorInv ==
  /\ IF failed = {} THEN errCh = None ELSE errCh \in failed
  /\ loop = "returned" => result = errCh

(* The read deadline of a connection may be renewed, its write deadline is *)
(* the one handleConnection set; and time stops for nobody at a deadline.  *)
TimeInv ==
  \A c \in Conns :
    /\ phase[c] \in {"away", "queued", "hello", "spawned"} => age[c] = 0
    /\ phase[c] = "handshake" => readBy[c] = Deadline /\ age[c] <= Deadline
    /\ c \in Serving =>
         /\ writeBy[c] = Deadline
         /\ readBy[c] <= Deadline + (IF proto[c] = "h1" THEN ReadDeadline ELSE 0)

IInv ==
  /\ TypeOK /\ IsFiniteSet(Running)
  /\ LoopInv /\ ErrorInv /\ TimeInv /\ LifetimeBounded
===============================================================================
