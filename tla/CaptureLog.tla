------------------------------ MODULE CaptureLog ------------------------------
(***************************************************************************)
(* What capture.Store promises the request handlers that share it: each    *)
(* call takes effect atomically, at one instant between its invocation and *)
(* its return.  The log holds the captures since the last Reset; the       *)
(* archive is the part of the output directory a reader can rely on, a     *)
(* numbering of captures that only ever grows upwards, in capture order.   *)
(*                                                                         *)
(* CaptureStore, the locks, files and crashes of pkg/capture, is shown to  *)
(* implement this module.                                                  *)
(***************************************************************************)
EXTENDS Naturals, Sequences

CONSTANTS Handlers,   \* the goroutines that serve connections
          Records     \* the captures that may be taken, one per request

VARIABLES log,        \* the captures a Snapshot returns
          archive,    \* file number |-> capture, for every complete file set
          call,       \* handler |-> the store call it is making
          phase,      \* handler |-> "idle", "called" or "returned"
          answer,     \* handler |-> the captures its call returned
          issued      \* captures that have been handed to Append

vars == <<log, archive, call, phase, answer, issued>>

NoCall == [op |-> "none"]
ReadOrReset == {[op |-> "snapshot"], [op |-> "reset"]}
Calls == [op : {"append"}, record : Records] \cup ReadOrReset

Init ==
  /\ log = <<>>
  /\ archive = [n \in {} |-> {}]
  /\ call = [h \in Handlers |-> NoCall]
  /\ phase = [h \in Handlers |-> "idle"]
  /\ answer = [h \in Handlers |-> <<>>]
  /\ issued = {}

(* A handler calls the store. *)
Invoke(h) ==
  /\ phase[h] = "idle"
  /\ \E c \in Calls :
       /\ call' = [call EXCEPT ![h] = c]
       /\ \/ /\ c \in ReadOrReset
             /\ UNCHANGED issued
          \/ /\ c \notin ReadOrReset
             /\ c.record \notin issued
             /\ issued' = issued \cup {c.record}
  /\ phase' = [phase EXCEPT ![h] = "called"]
  /\ UNCHANGED <<log, archive, answer>>

(* Mutant of Extends: the first free number, not the next. *)
Extends_Reuses(new, old, record) ==
  \E n \in DOMAIN new :
    new = [m \in DOMAIN old \cup {n} |-> IF m = n THEN record ELSE old[m]]

(* An archive that has gained one capture, above every number it had. *)
Extends(new, old, record) ==
  \E n \in DOMAIN new :
    /\ \A m \in DOMAIN old : m < n
    /\ new = [m \in DOMAIN old \cup {n} |-> IF m = n THEN record ELSE old[m]]

(* Mutants of Shown and Kept: an Append shows the log without its capture; *)
(* it keeps nothing else. *)
Shown_Before(old, new) == old

Kept_Only(old, record) == <<record>>

Shown(old, new) == new
Kept(old, record) == Append(old, record)

(* The instant a call takes effect.  An Append shows its caller the log    *)
(* that ends with its own capture; the capture reaches the archive or, if  *)
(* there is no directory or writing failed, it does not.                   *)
Effect(h) ==
  /\ phase[h] = "called"
  /\ phase' = [phase EXCEPT ![h] = "returned"]
  /\ \/ /\ call[h].op = "append"
        /\ log' = Kept(log, call[h].record)
        /\ answer' = [answer EXCEPT ![h] = Shown(log, log')]
        /\ archive' = archive \/ Extends(archive', archive, call[h].record)
     \/ /\ call[h].op = "snapshot"
        /\ answer' = [answer EXCEPT ![h] = log]
        /\ UNCHANGED <<log, archive>>
     \/ /\ call[h].op = "reset"
        /\ log' = <<>>
        /\ UNCHANGED <<archive, answer>>
  /\ UNCHANGED <<call, issued>>

Return(h) ==
  /\ phase[h] = "returned"
  /\ phase' = [phase EXCEPT ![h] = "idle"]
  /\ call' = [call EXCEPT ![h] = NoCall]
  /\ answer' = [answer EXCEPT ![h] = <<>>]
  /\ UNCHANGED <<log, archive, issued>>

(* The process ends: calls and log are gone, the archive stays. *)
Lose ==
  /\ log' = <<>>
  /\ call' = [h \in Handlers |-> NoCall]
  /\ phase' = [h \in Handlers |-> "idle"]
  /\ answer' = [h \in Handlers |-> <<>>]
  /\ UNCHANGED <<archive, issued>>

Next ==
  \/ \E h \in Handlers : Invoke(h) \/ Effect(h) \/ Return(h)
  \/ Lose

Spec == Init /\ [][Next]_vars

===============================================================================
