----------------------------- MODULE MCHelloReader -----------------------------
(* Instances of HelloReader for TLC. *)
EXTENDS HelloReader, FiniteSets

(* Handshake bytes: a message of the given type and length, then n more.   *)
(* The bytes of the body are all different, so that none can stand for     *)
(* another.                                                                *)
HelloBytes(type, length, n) ==
  <<type, 0, 0, length>> \o [i \in 1 .. length + n |-> 100 + i]

(* The bytes, cut after each position in a set.                            *)
CutAt(bytes, cuts) ==
  LET all == cuts \cup {0, Len(bytes)}
      end(i) == CHOOSE e \in all : Cardinality({c \in all : c < e}) = i
  IN  [i \in 1 .. Cardinality(all) - 1 |->
         [type |-> Handshake, payload |-> SubSeq(bytes, end(i - 1) + 1, end(i))]]

Cut == UNION {{CutAt(m, cuts) : cuts \in SUBSET (1 .. Len(m) - 1)} :
                m \in {HelloBytes(1, l, n) : l \in 0 .. 2, n \in 0 .. 2}}

Foreign == {[type |-> 23, payload |-> <<9>>], [type |-> Handshake, payload |-> <<>>]}

(* A foreign record before, within or after the message; another message.  *)
AllStreams ==
  Cut
  \cup {SubSeq(s, 1, i) \o <<f>> \o SubSeq(s, i + 1, Len(s)) :
          s \in {CutAt(HelloBytes(1, 2, 0), cuts) : cuts \in {{}, {2}, {5}, {2, 4}}},
          i \in 0 .. 1, f \in Foreign}
  \cup {CutAt(HelloBytes(2, 1, 0), cuts) : cuts \in SUBSET (1 .. 4)}
===============================================================================
