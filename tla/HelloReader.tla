------------------------------ MODULE HelloReader ------------------------------
(***************************************************************************)
(* pkg/tlsfp/listener.go: readClientHelloRecord takes TLS records off a    *)
(* new connection until they hold a whole ClientHello message, and the     *)
(* ObservedConn plays the bytes taken back to crypto/tls, which must not   *)
(* notice that somebody read them first.                                   *)
(*                                                                         *)
(* The client may cut its handshake message into records as it likes, put  *)
(* further bytes into the same record, send something else, or stop, and   *)
(* sends while the server reads.  What ParseClientHello makes of a message *)
(* is in ClientHello; here a message of fewer bytes than MinHello is one   *)
(* it refuses.                                                             *)
(***************************************************************************)
EXTENDS Integers, Sequences

CONSTANTS
  Streams,   \* what clients may send: sequences of records [type, payload]
  MinHello,  \* shortest message that is parsed
  MaxRead    \* bound: largest buffer crypto/tls reads into

Byte == 0 .. 255
Record == [type : Byte, payload : Seq(Byte)]

ASSUME StreamsAssumption ==
  \A s \in Streams : s \in Seq(Record) /\ \A i \in DOMAIN s : Len(s[i].payload) < 256 * 256
ASSUME LimitsAssumption == MinHello \in Nat /\ MaxRead \in Nat \ {0}

VARIABLES
  stream,     \* the records this client sends
  said,       \* bytes and payloads up to each record it has sent (history)
  conn,       \* bytes on the connection that nobody has read
  raw,        \* the bytes read, readClientHelloRecord's raw
  handshake,  \* their payloads, without the record headers
  expected,   \* length of the message, -1 while unknown
  status,     \* "reading", "accepted" or "refused"
  hello,      \* the message that was parsed
  buf,        \* ObservedConn.buf: bytes still to be played back
  delivered   \* bytes crypto/tls has read

readerVars == <<raw, handshake, expected>>
vars == <<stream, said, conn, readerVars, status, hello, buf, delivered>>

Handshake == 22
ClientHelloType == 1

Bytes(record) ==
  <<record.type, 3, 1, Len(record.payload) \div 256, Len(record.payload) % 256>>
    \o record.payload

Nothing == [bytes |-> <<>>, payloads |-> <<>>]
Sent == said[Len(said)]

Init ==
  /\ stream \in Streams
  /\ said = <<Nothing>>
  /\ conn = <<>>
  /\ raw = <<>>
  /\ handshake = <<>>
  /\ expected = -1
  /\ status = "reading"
  /\ hello = <<>>
  /\ buf = <<>>
  /\ delivered = <<>>

(* The client sends its next record, unless the server has hung up.  A     *)
(* part of one is as good as none: the server waits for the rest.          *)
Send ==
  /\ status # "refused"
  /\ Len(said) <= Len(stream)
  /\ LET record == stream[Len(said)]
     IN  /\ said' = Append(said, [bytes |-> Sent.bytes \o Bytes(record),
                                  payloads |-> Sent.payloads \o record.payload])
         /\ conn' = conn \o Bytes(record)
  /\ UNCHANGED <<stream, readerVars, status, hello, buf, delivered>>

Announced(bytes) == 256 * (256 * bytes[2] + bytes[3]) + bytes[4]

(* Mutant of MessageLength: the length is that of message and header.      *)
MessageLength_WithHeader(bytes) ==
  IF expected = -1 /\ Len(bytes) >= 4 THEN 4 + Announced(bytes) ELSE expected

(* The 24-bit length in the message's own header, once four bytes of it    *)
(* have come.                                                              *)
MessageLength(bytes) ==
  IF expected = -1 /\ Len(bytes) >= 4 THEN Announced(bytes) ELSE expected

(* Mutant of Message: what follows it in its record is taken for a part.   *)
Message_Rest(payloads, length) == SubSeq(payloads, 5, Len(payloads))

Message(payloads, length) == SubSeq(payloads, 5, 4 + length)

(* Mutant of Taken: the record headers are not kept.                       *)
Taken_Payload(record) == record.payload

(* What is kept of a record to be played back.                             *)
Taken(record) == Bytes(record)

Accept(bytes, payloads, length) ==
  /\ status' = "accepted"
  /\ hello' = Message(payloads, length)
  /\ buf' = bytes

Refuse ==
  /\ status' = "refused"
  /\ UNCHANGED <<hello, buf>>

(* The record at the head of some bytes, by the length in its header.      *)
RecordLength(bytes) == 256 * bytes[4] + bytes[5]
FirstRecord(bytes) ==
  [type |-> bytes[1], payload |-> SubSeq(bytes, 6, 5 + RecordLength(bytes))]
After(bytes, n) == SubSeq(bytes, n + 1, Len(bytes))

(* One turn of the loop: a record's header and payload.                    *)
ReadRecord ==
  /\ status = "reading"
  /\ Len(conn) >= 5 /\ Len(conn) >= 5 + RecordLength(conn)
  /\ conn' = After(conn, 5 + RecordLength(conn))
  /\ UNCHANGED <<stream, said, delivered>>
  /\ LET record == FirstRecord(conn)
         bytes == handshake \o record.payload
         length == MessageLength(bytes)
         wrong == expected = -1 /\ Len(bytes) >= 4 /\ bytes[1] # ClientHelloType
     IN  /\ raw' = raw \o Taken(record)
         /\ \/ /\ record.payload = <<>> \/ record.type # Handshake \/ wrong
               /\ Refuse
               /\ UNCHANGED <<handshake, expected>>
            \/ /\ record.payload # <<>> /\ record.type = Handshake /\ ~wrong
               /\ handshake' = bytes
               /\ expected' = length
               /\ \/ /\ length # -1 /\ Len(bytes) >= 4 + length
                     /\ \/ length >= MinHello /\ Accept(raw', bytes, length)
                        \/ length < MinHello /\ Refuse
                  \/ /\ length = -1 \/ Len(bytes) < 4 + length
                     /\ UNCHANGED <<status, hello, buf>>

(* The connection ends, perhaps within a record.                           *)
ReadFails ==
  /\ status = "reading"
  /\ Refuse
  /\ UNCHANGED <<stream, said, conn, readerVars, delivered>>

(* Mutant of Read: a buffer larger than what is left to play back is       *)
(* filled from the connection, and the rest of the playback is dropped.    *)
Read_Skips(n) ==
  /\ status = "accepted"
  /\ \/ /\ Len(buf) >= n
        /\ delivered' = delivered \o SubSeq(buf, 1, n)
        /\ buf' = After(buf, n)
        /\ UNCHANGED conn
     \/ /\ Len(buf) < n /\ n <= Len(conn)
        /\ delivered' = delivered \o SubSeq(conn, 1, n)
        /\ conn' = After(conn, n)
        /\ buf' = <<>>
  /\ UNCHANGED <<stream, said, readerVars, status, hello>>

(* ObservedConn.Read into n bytes: from the playback while there is any,   *)
(* then from the connection, which may return fewer bytes than asked for.  *)
Read(n) ==
  /\ status = "accepted"
  /\ \/ /\ buf # <<>>
        /\ LET k == IF n < Len(buf) THEN n ELSE Len(buf)
           IN  delivered' = delivered \o SubSeq(buf, 1, k) /\ buf' = After(buf, k)
        /\ UNCHANGED conn
     \/ /\ buf = <<>> /\ n <= Len(conn)
        /\ delivered' = delivered \o SubSeq(conn, 1, n) /\ conn' = After(conn, n)
        /\ UNCHANGED buf
  /\ UNCHANGED <<stream, said, readerVars, status, hello>>

Next == Send \/ ReadRecord \/ ReadFails \/ \E n \in 1 .. MaxRead : Read(n)

Spec == Init /\ [][Next]_vars

-------------------------------------------------------------------------------
(* Properties *)

Prefix == [bytes : Seq(Byte), payloads : Seq(Byte)]

(* What has been taken off the connection, and what is left on it.         *)
ReadOrLeft == status = "reading" => raw \o conn = Sent.bytes

(* TypeOK: every variable keeps its type; what has been taken off the      *)
(* connection and what is left are what was sent.                          *)
TypeOK ==
  /\ stream \in Streams
  /\ said \in Seq(Prefix)
  /\ Len(said) \in 1 .. Len(stream) + 1
  /\ {conn, raw, handshake, hello, buf, delivered} \subseteq Seq(Byte)
  /\ expected \in Int /\ -1 <= expected /\ expected < 256 * 256 * 256
  /\ status \in {"reading", "accepted", "refused"}
  /\ ReadOrLeft

(* PlayedBack: crypto/tls reads the connection as if nobody had before it: *)
(* what it has read, what is left to play back and what is left on the     *)
(* connection are the bytes the client sent, in order, none twice and none *)
(* missing, wherever the records were cut and however large its reads are  *)
(* (listener.go:39-41, 57-62, 82, 94).                                     *)
PlayedBack ==
  status = "accepted" => delivered \o buf \o conn = Sent.bytes

(* HelloAsSent: the message that is fingerprinted is the handshake message *)
(* the client sent, independent of how it was cut into records and of what *)
(* follows it in its last record or the next (listener.go:100-110).        *)
HelloAsSent ==
  status = "accepted" =>
    LET message == Sent.payloads
    IN  /\ message[1] = ClientHelloType
        /\ Len(message) >= 4 + Announced(message)
        /\ hello = SubSeq(message, 5, 4 + Announced(message))

(* WaitsForNothing: the reader never asks for a record after the message   *)
(* is whole: the client would be waiting for an answer too                 *)
(* (listener.go:77-115).                                                   *)
WaitsForNothing ==
  status = "reading" /\ Len(handshake) >= 4 =>
    Len(handshake) < 4 + Announced(handshake)

-------------------------------------------------------------------------------
(* The inductive invariant behind the safety properties.                   *)

Begins(part, whole) ==
  Len(part) <= Len(whole) /\ \A i \in 1 .. Len(part) : part[i] = whole[i]

(* What was sent grew record by record.                                    *)
SaidInv ==
  /\ said[1] = Nothing
  /\ \A i \in 1 .. Len(said) - 1 :
       /\ said[i + 1].bytes = said[i].bytes \o Bytes(stream[i])
       /\ said[i + 1].payloads = said[i].payloads \o stream[i].payload
  /\ \A i \in DOMAIN said :
       /\ Begins(said[i].bytes, Sent.bytes)
       /\ Begins(said[i].payloads, Sent.payloads)

(* The reader is between two records, and knows the length of the message  *)
(* as soon as it can.                                                      *)
ReaderInv ==
  status # "refused" =>
    /\ \E i \in DOMAIN said : raw = said[i].bytes /\ handshake = said[i].payloads
    /\ expected = IF Len(handshake) >= 4 THEN Announced(handshake) ELSE -1
    /\ Len(handshake) >= 4 => handshake[1] = ClientHelloType
    /\ status = "reading" => delivered = <<>>

AcceptedInv ==
  status = "accepted" =>
    /\ Len(handshake) >= 4 /\ Len(handshake) >= 4 + Announced(handshake)
    /\ hello = Message(handshake, Announced(handshake))

IInv ==
  /\ TypeOK /\ SaidInv /\ ReaderInv /\ AcceptedInv
  /\ PlayedBack /\ WaitsForNothing
===============================================================================
