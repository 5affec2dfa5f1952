# tlsident: models, checks and proofs

tlsident is a TLS server that an HTTP client (Claude Code) is pointed at. It
takes the fingerprints of the client's TLS and HTTP behaviour, returns them in
the replies of a small imitation of the Anthropic API, and writes each capture
to numbered files. This directory holds TLA+ models of it, the runs that check
them with TLC, and theorems proved with TLAPS.

## The system

| part | source | state | operations |
| --- | --- | --- | --- |
| capture store, output writer | `pkg/capture/store.go`, `output.go` | the list of captures (`RWMutex`), the next number (`Mutex`), the output directory | `Append`, `Snapshot`, `Reset`, `Write`, numbering at start |
| server | `pkg/server/server.go`, `cmd/tlsident/main.go` | listener, error channel of one, wait group, context | accept loop, closing, `handleConnection`, the exit status |
| ClientHello reader | `pkg/tlsfp/listener.go` | bytes read so far, bytes to play back | `Accept`, `Read` |
| ClientHello parser | `pkg/tlsfp/parser.go`, `grease.go` | none | `ParseClientHello`, JA3, JA4, GREASE |
| HTTP/2 connection | `pkg/httpfp/http2.go`, `common.go` | requests by stream, decoded fields, tracker | one per frame type |
| HTTP/1 connection | `pkg/httpfp/http1.go` | its deadlines, what is buffered of the next requests | read, answer, keep alive or end |
| Anthropic router | `pkg/api/anthropic/router.go`, `pkg/api/router.go` | none | maps requests to calls of the store, lays out replies |
| peet.ws API | `pkg/api/peetws/service.go` | none | builds JSON of one request |
| formatters, certificate, version | `pkg/capture/format*.go`, `pkg/certutil`, `pkg/version` | none | pure |

How they interact: the accept loop reads the ClientHello of one connection at a
time and starts a goroutine for it. The goroutine performs the TLS handshake on
a connection that plays the ClientHello back, and serves HTTP/1 or HTTP/2. Each
complete request is handed to the router, in the same goroutine; the router
calls the one store all goroutines share. The store calls the output writer
while it holds its mutex.

What is hard, and what has to be right:

* *Store*: many goroutines append, read and reset; a write of three files can
  fail or be cut short by a crash after any of them; a number is used again
  after a failure and must not be after a success; a new run continues in a
  used directory.
* *Server*: an Accept may fail, or hang, at any time around the signal; the
  result is read from a channel that was filled long before; deadlines are set
  twice and differ in what they cover.
* *HTTP/1*: a client may send ahead of the replies, break off in a body, go
  silent, hang up, or send a request again that was captured but not answered;
  nothing but the order of the replies tells which request one belongs to.
* *HTTP/2*: streams interleave on one connection and share the decoder's
  output; requests end in HEADERS, in DATA, in an empty DATA frame or in
  trailers, or not at all; the fingerprint is made of what came first.
* *ClientHello*: nested lengths, arbitrary cuts into records, repeated and
  made-up (GREASE) extensions.
* *Replies about fingerprints*: they are not built from what was received but
  rebuilt from lists and from the printed fingerprint.

`PROJECT.json` lists each hazard with its line and the properties that cover it.

## Modules

| module | models |
| --- | --- |
| `CaptureLog` | abstract: what the store promises, calls that take effect at one instant and an archive that only grows upwards |
| `CaptureStore` | `store.go`, `output.go`, the store calls of the router, process crashes and starts |
| `CaptureStoreProofs` | theorems about `CaptureStore` |
| `CaptureRefinement` | over `CaptureStoreProofs`: `CaptureStore` implements `CaptureLog` |
| `Server` | `server.go`, `Accept`, the deadlines of both HTTP handlers |
| `ServerProofs` | theorems about `Server` |
| `HelloReader` | `readClientHelloRecord`, `ObservedConn.Read` |
| `HelloReaderProofs` | theorems about `HelloReader` |
| `ClientHello` | `parser.go`, `grease.go` |
| `PeetWs` | over `ClientHello`: what the replies of `peetws/service.go` say about it |
| `Sub2API` | over `ClientHello`: the fingerprint and the profile of `format_sub2api_json.go` and `format_sub2api_yaml.go` |
| `ClientHelloProofs` | theorems about these three |
| `Akamai` | the HTTP/2 fingerprint, printed by `common.go` and parsed back by `peetws/service.go` |
| `AkamaiProofs` | what is printed can be read back, by theorem |
| `Http2Conn` | over `Akamai`: `http2.go`, `HTTP2Tracker` |
| `Http2ConnProofs` | over `AkamaiProofs`: theorems about `Http2Conn` |
| `Http1Conn` | over `CaptureLog`: `http1.go`, the router, and the clients of both |
| `Http1ConnProofs` | theorems about `Http1Conn` |
| `MC…` | the instances of each for TLC |

The definitions named `X_Something` in front of a definition `X` are mutants: a
bug someone could plausibly write there. `PROJECT.json` pairs each property with
one of them that violates it, so that each property is known to depend on the code.

### CaptureStore

A handler is the goroutine of a connection. `pc` says where it is in a call of
the store: it asks for the lock (`called`), waits for readers (`announced`) or
for a writer (`parked`), holds the lock (`locked`, `format`, `fill`, `unlock`)
or reads (`reading`). `Append`'s own work is `AppendRecord`; `Write`'s loop is
`OpenFile` and `FillFile`, once per formatter, so that a crash can leave a
truncated file; `FinishWrite` is `w.next++`. Decisions of the model:

* The read-write mutex is modelled as `sync` builds it: a writer announces
  itself and then waits for the readers before it; readers that find a writer
  park, and its `Unlock` hands the lock to all of them.
* A failed `os.WriteFile` leaves `Junk`, contents nobody can rely on. An error
  of its `Close` after a complete write, which would leave the file whole, is not
  modelled apart. Formatting can fail before a file is opened.
* `Crash` is the death of the process: what `write(2)` returned for stays. The
  loss of power, where even that could disappear, is not modelled.
* What a directory holds before the first start is `Junk` under any names. Only
  one process uses a directory at a time; nobody else changes it meanwhile.
* `writer` tells whether `-outdir` was given; a restart may change it. `first` is
  the number a process began with; only `DenseNumbers` reads it.
* Each record is appended once, so that the captures in the files are told apart.

*Refinement.* `ImplementsCaptureLog` is the specification of `CaptureLog` with
the log mapped to the records, without the last one while its files are being
written, and the archive to the numbers whose files are complete: an `Append`
takes effect when its last file is whole, or when it gives up. TLC checks it in
the run `store`, `CallsAreAtomic` proves it.

### Server

`phase` is where a connection is: in the backlog, its ClientHello being read by
the accept loop, with a goroutine, blocked in the handshake, a read or a write,
or closed. `loop` is where the accept loop is. Time is in units of which the
shortest deadline has two, so that a request can take time and still arrive. A
read, a write or the handshake fails once its deadline has come, before another
unit passes (`Tick`). The call of the router is
part of the step that reads the request; it takes no time of that order.

### HelloReader and ClientHello

`HelloReader` has a client that sends one record after another while the server
reads. The server sees bytes: it takes a record off the connection by the
length it finds in the header, as the code does, and refuses or stops waiting
when the client sends something else or ends. `said` is history: what was sent
up to each record, so that the bytes read can be compared with it. The model
checks what is read, handed to the parser and played back. `ClientHello` works on single messages, byte by
byte with the code's own offsets, so that TLC itself reports an index out of
range. It begins with a hello a client means and encodes it. Then the message is cut at
any byte, or one extension is `garbled`: its payload is cut, or the length of the
list in it is wrong, while all lengths around it are right, so that only the
parser of that extension can notice. What `ParseClientHello` finds is compared
with what was meant. What a client may mean
is only limited by the widths of numbers and lengths (`Sayable`). A fingerprint is the
tuple of its parts; a sorted list is the bag of its values, as equal numbers are
not told apart; hashes are taken to be injective.

What the code does with reserved (GREASE) values differs by list, and
`GREASEFiltered` says how: they are filtered from cipher suites, extension types,
groups, signature algorithms, versions, key shares and PSK modes, and raise the
flag `enable_grease`; reserved names of protocols and reserved certificate
compression algorithms are kept and do not raise it, and the first protocol
counts in JA4 (`parser.go:425`) even if it is a reserved one.

`PeetWs` adds to the states of `ClientHello` what `/api/tls` and the others make of a
capture. It shows most extensions not from their own bytes but from the lists
the parser collects over the whole message, which is why `ExtensionsAsSent` is
worth checking. It speaks only of messages that `crypto/tls` would go on with: a
repeated extension, or no version it knows, ends the handshake, and there is no
reply. The tables of names are left out: what they name is named one to one.

`Sub2API` is about the purpose of the files: another program is to imitate the
captured client from them. `Imitation` is a client that sends what a file lists;
parsed again, it has to leave the capture the file was made from. That crosses
the parser, the filters, JA3, JA4 and the formatters, and would show a list that is
written to the wrong field, or that JA3 takes from elsewhere than the file. A
profile leaves out the certificate compression, so its imitation is captured as
the original just when that offered none (`ProfileLacksCompression`). Both speak
of captures there can be: a capture is made after the handshake, which
`crypto/tls` ends at a repeated extension and at an empty key share.

### Http2Conn

A step is one frame, with everything the server does before it reads the next
one. Header fields are values that name their stream and block, which is all
that is needed to see one in the wrong place. The client is a legal one: it
opens streams in rising order, decides on a length of its body when it begins a
request, sends the body in parts within the flow-control window, ends the
stream with the last part, with an empty DATA frame or with trailers, and may
reset a stream or leave. When a reply cannot be written any more, the request
was captured all the same (`RespondFails`). PING replies change no state and
are left out. A header block and its CONTINUATION frames are one step, as
nothing may come between them. A unit of the flow-control window is a chunk. A
SETTINGS frame is a sequence of pairs, as the print of the fingerprint
separates them; the four numbers of a PRIORITY frame are one value.
`SentFrames` is what a reply says the client sent: `parseAkamaiFingerprint`
applied to the print `Snapshot` made, and `FramesAsSent` compares that with the
frames of the run.

### Http1Conn

A connection has a goroutine (`at`: it reads, is in a call of the store, or
replies), a `wire` of requests on their way, a list `back` of replies on
theirs, and a client. The store is not modelled again: it is the one of
`CaptureLog`, through `INSTANCE`, which the run `store` shows `CaptureStore` to
implement. So captures are appended, numbered, reset and lost exactly as they
are there, from several connections at once. Decisions of the model:

* A client takes the next reply for that to the oldest request it waits for. It
  sends a request again, on any connection, once the last try has no chance
  of a reply; the server may still be busy with that try.
* A body that breaks off (the way `cut`) is read to an error and nothing is handed
  to the router; `last` is a request with `Connection: close`, after which the loop ends.
* A read fails when the client has hung up or the deadline of 30 seconds has
  come; time is not counted here (`Server` counts it), so it may come whenever
  the goroutine reads. A write can fail in any reply. It can also
  succeed after the client has hung up, as far as the kernel takes the bytes; nobody
  gets them, and the loop goes on to what the client had sent before.
* The response to `HEAD` carries a body; the client takes it for the beginning
  of the next reply, and hangs up. A reset of the connection by the kernel, which may
  lose replies already written, is for the client the same as to hang up itself.
* `before`, `era` and `stamp` are history: they record what was answered before a
  request was sent and which reset or crash came in between, and no step depends
  on them but for the bound on crashes.
* A `load` says what clients ask for, and bounds it; it is chosen at the start
  so that several small scenarios share one run.

## Runs

| run | instance | shows |
| --- | --- | --- |
| `store` | 3 handlers, 3 captures, 2 formatters, crashes, with and without `-outdir`, empty and used directories | `LastFileSeals`, `ArchiveIntact`, `DenseNumbers`: a reader of the directory is never misled, and a process leaves no gap in its numbers, which `compare-sub2api.sh` relies on; `ImplementsCaptureLog`: every behaviour is one of the atomic log |
| `returns` | 3 handlers, 2 formatters, fairness | every call of the store returns |
| `lifecycle` | 2 connections, deadlines of 5 and 2 units, fairness | what has ended when `ListenAndServe` returns, what it returns, how long a connection may last; shutdown completes, connections end |
| `silent` | the same without fairness of clients, both deadlines of 2 units | violated, see below |
| `requests` | 3 streams, bodies of up to 2 chunks, window of all of them, fairness | replies belong to their own requests, nothing is left behind, every request is answered |
| `tracker` | 2 streams, 2 SETTINGS, 2 WINDOW_UPDATE frames, 2 PRIORITY frames for 1 place | what the fingerprint is made of, that a later capture of a connection knows all that an earlier one knew, and what a reply gets back out of the print |
| `window` | 2 streams, bodies of up to 2 chunks, window of 3, fairness | violated, see below |
| `frames` | 4 captures, frames of 2 | violated, see below |
| `hello` | messages of 4 to 8 bytes in every cut, foreign records, sent while the server reads | the bytes are played back unchanged, the message parsed is the one sent, and the reader never waits for more than that |
| `parser` | 168 hellos, some of them others in a new order; each whole, cut at every byte, and with each extension cut at every byte or its list given every other length up to one too many | the parser, the fingerprints, and the replies and files made of them |
| `negotiated` | the same | violated, see below |
| `exchange` | 2 connections; two requests pipelined and sent again, a request sent again elsewhere with a crash, three requests with a reset | replies stay in step with requests and show their own capture; an answered capture is seen, and numbered below later ones; nobody waits for ever |

*Bounds.* Two writers are enough for every conflict over a file number, a third
handler makes room for a reader next to them; a third capture lets a number be
reused after a failure and then followed by another; with two formatters there
is a file that is whole while the last is not. For a reply to be taken for
another's, two requests on one connection are enough; for a capture to be
overtaken, one that is tried twice beside another one, with two numbers and a
crash; for a list to miss one, a capture, a reset and a list. Connections of
`Server` meet only in
the backlog, the accept loop, the error channel and the wait group: with two,
each of these is shared by a pair at every stage, and the kernel's own error
makes a third that competes for the channel. Three streams show one that ends
between the frames of another, and one reset. The deadlines are short but keep
their order, and a renewed read deadline can end before, with and after that of
the connection. The bounds are `Crashes`, `MaxAge`, `PriorityLimit` (32 in the
code), `MaxChunks`, `MaxSettings`, `MaxUpdates`, `MaxPriorities`, `MaxCaptures`,
`MaxRead`, `MaxTries`, `MaxNumber` and the numbers in a `Load`; all stand in guards or in constants, none is a constraint on the
search. 16- and 24-bit lengths stay far below their limits: they are added and
compared in Go's `int`, which cannot overflow. Runs of `Server`, `Http2Conn`,
`Http1Conn`, `HelloReader` and `ClientHello` do not check deadlock, because a process, a
connection or a message ends there; those of `CaptureStore` do.

*Fairness.* The store: the scheduler runs each goroutine (`WF` of each step),
and `sync.Mutex` hands itself to a writer that waited a millisecond, so a writer
that finds it free again and again gets it (`SF` of `Lock`). The server:
goroutines run, time passes, an expired deadline ends its I/O; a kernel that
refuses a connection for lack of descriptors does not do so for ever (`SF` of
`AcceptConn`). Nothing is assumed of a client once it is served: deadlines
see to it. `HelloFairness`, that a client either sends a ClientHello or hangs
up, is *not* ensured by the code and used in `lifecycle` alone. `Http2Conn` assumes
a client that keeps sending what the window allows within the two minutes.
`Http1Conn`: a goroutine goes on (`WF` of `Serve`, where the read deadline is
one of its steps), and a client takes what has arrived and sees the end of its
connection (`WF` of `Receive` or `SeeEnd`); it need not send anything.

### Where the code and its documents disagree

* `silent`: `Accept` reads the ClientHello in the accept loop, with no
  deadline. A client that connects and says nothing stops all others, and after
  a signal the process does not end; the data collection workflow kills it and
  waits (`.github/workflows/data-collection.yml:86`).
* `window`: the server never sends WINDOW_UPDATE. After 65,535 bytes of
  request bodies on an HTTP/2 connection the client has to wait, until the
  deadline closes the connection; that request is neither answered nor
  captured, though `docs/prompts/453d7c0.txt:11` promises an entry for each.
* `frames`: the reply holds all captures and is sent as one DATA frame,
  whatever frame size and window the client allows.
* `negotiated`: `tls_version_negotiated` of `/api/all` is the largest version in
  the ClientHello, reserved (GREASE) values included, although no connection
  can use those (`service.go:390-399`); JA4 leaves them out (`parser.go:386`).
* *Certificate compression*: the reference below a profile is headed "extension
  order, cert compression" (`format_sub2api_yaml.go:55`), and the prompt it was
  designed from lists `compress_cert_algos` there
  (`docs/prompts/453d7c0.txt:29-31`), but only the order is written. A client that
  offers certificate compression cannot be imitated from its profile alone. The
  run `parser` checks `ProfileLacksCompression`, which states just that: the
  imitation is captured as the original if and only if that offered none. The
  fingerprint of `format_sub2api_json.go` has the list.

Worth knowing as well, though no document speaks of it: the last header
block of a stream, its trailers, replaces the fields and the length that
`/api/all` reports for the request (`http2.go:111-113, 128`); the response to
`HEAD` carries a body (`http1.go:80`), so that a client has to give up the
connection; requests open when a client sends GOAWAY are not answered
(`http2.go:144`); all captures of one client have the same key in their profiles, so that joined profiles
(`.github/workflows/data-collection.yml:254-259`) repeat it.

## Proofs

TLAPS proves each safety property of the runs, and the refinement, for every
value of the constants, but for `RepliesFit` and `NegotiatedIsOffered`, which the
code violates, and `GarbledListsShortened`. In each module `IInv` is the inductive invariant (`Invariance` is
`Spec => []IInv`; `ClientHelloProofs` has `Arrived` instead, and most of its work in
lemmas about operators); TLC confirmed it on the instances of the runs before it was
proved. Where a proof failed because it was too weak, it was strengthened; no
property was weakened for a proof.

| theorem | says |
| --- | --- |
| *`CaptureStoreProofs`* | for any handlers, records, formatters and initial directory, with or without crashes |
| `TypeCorrect` | `Spec => []TypeOK` |
| `LastFileVouches` | `Spec => []LastFileSeals` |
| `CompleteNumbersAreFinal` | `Spec => ArchiveIntact` |
| `NoGaps` | `Spec => []DenseNumbers` |
| `WritersExclude` | whoever changes records or files is alone |
| *`CaptureRefinement`* | the same |
| `CallsAreAtomic` | `Spec => ImplementsCaptureLog` |
| *`ServerProofs`* | for any set of connections, any deadlines and any number of errors |
| `TypeCorrect` | `Spec => []TypeOK`; with it, the wait group counts the goroutines |
| `ReturnsDrained` | `Spec => []DrainedOnReturn` |
| `ExitReportsError` | `Spec => []ExitStatus` |
| `LifetimesBounded` | `Spec => []LifetimeBounded` |
| *`HelloReaderProofs`* | for any records of a client |
| `TypeCorrect` | `Spec => []TypeOK` |
| `NothingLost` | `Spec => []PlayedBack` |
| `HelloTakenAsSent` | `Spec => []HelloAsSent` |
| `NeverWaits` | `Spec => []WaitsForNothing` |
| *`ClientHelloProofs`* | for any hellos that can be said |
| `Understands` | `ParseClientHello` gets out of an encoded hello exactly what it means |
| `ReadsWhatWasMeant` | `Spec => []ParsesWhatWasMeant` |
| `RefusesCutMessages` | `Spec => []CutMessagesRefused` |
| `GREASEIsFiltered` | `Spec => []GREASEFiltered` |
| `JA4KeepsUnderShuffling` | `Spec => []JA4IgnoresOrder` |
| `ShowsExtensionsAsSent` | `Spec => []ExtensionsAsSent` |
| `PeetprintKeepsUnderShuffling` | `Spec => []PeetprintIgnoresOrder` |
| `RecapturesFingerprint` | `Spec => []FingerprintRecaptured` |
| `ProfileLacks` | `Spec => []ProfileLacksCompression` |
| *`AkamaiProofs`* | for any settings, window, priorities and pseudo-header order |
| `PrintReadBack` | `parseAkamaiFingerprint` gets settings and increment back out of the print |
| *`Http2ConnProofs`* | for any streams, bodies, SETTINGS and limits |
| `TypeCorrect` | `Spec => []TypeOK` |
| `RequestsSeparate` | `Spec => []AnswersAreOwn` |
| `AnsweredAtEnd` | `Spec => []AnsweredIffEnded` |
| `MapHoldsOpen` | `Spec => []NothingLeftBehind` |
| `OneFingerprint` | `Spec => CapturesOnlyLearn` |
| `FirstOnesKept` | `Spec => []TrackerKeepsFirst` |
| `FramesShown` | `Spec => []FramesAsSent` |
| *`Http1ConnProofs`* | for any connections, clients, loads and limits |
| `TypeCorrect` | `Spec => []TypeOK` |
| `InStepAlways` | `Spec => []RepliesInStep` |
| `OwnCaptureLast` | `Spec => []RepliesShowOwn` |
| `SeenOnceAnswered` | `Spec => []AnsweredIsSeen` |
| `NumberedInOrder` | `Spec => []LaterIsNumberedHigher` |

*Assumptions* are the named ones of each module; TLC evaluates them on the
instances of every run.

* `CaptureStore`: formatters have different suffixes and there is one at least;
  `Nobody` is no handler and `Junk` no record; an initial directory is finite
  and holds nothing but `Junk`.
* `Server`: a deadline is at least one unit, and the one of a read is not after
  that of the connection (30 seconds and 2 minutes); `None` and the kernel's
  own error are no connections.
* `HelloReader`: a client sends bytes, in records whose length fits the 16 bits
  of the header; `crypto/tls` reads into buffers that are not empty.
* `ClientHello`: numbers fit their one or two bytes, and every list, payload and
  part of the message is short enough for the length before it (`Sayable`): else
  there are no bytes for such a hello.
* `Http2Conn`: streams and increments are positive, a SETTINGS frame is
  a non-empty list of pairs; at least one PRIORITY frame is kept; bounds are natural numbers.
* `Http1Conn`: a load has the form of a `Load`; bounds are natural numbers.

### CaptureStore

`LastFileSeals` is not inductive: to know that filling the last file
of a number completes it, one has to know that the files before it were filled
by this very `Write` (`WriteInv`) and that nobody touched them meanwhile
(`LockInv`); to know that truncating the first file of the next number breaks
no complete one, that the last file of that number is not whole unless its
`Write` is about to count it (`NumberInv`). A crash in exactly that moment
leaves a complete number that `next` has not passed; the next start begins above
it because `nextOutputSequence` looks at the directory (`NextSequenceAbove`, from
the fact that a finite set of numbers has a greatest element). `DownInv` ties
all of it to a running process. `NoGaps` adds to it that complete numbers stay
complete (`ArchivedGrows`) and that a number is used up only after its `Write`
has filled every file.

`CallsAreAtomic` has one lemma per action: it maps to the step of `CaptureLog`
that is due, or to none. A `Snapshot` takes effect when it copies, a `Reset`
when it clears, an `Append` when its last file is whole or it gives up; until
then the abstract log lacks the last record. Only the holder of `Store.mu` can
be in between, so that no other call notices (`LockInv`), and the archive gets a
number when its last file becomes whole, one above all it holds (`NumberInv`).

### Server

`wg` is the cardinality of the set of goroutines, `Running`, so a `Wait` that
ends finds none; the loop stops only after a signal and not while it reads a
ClientHello (`LoopInv`), so none can be started any more. The channel is empty
exactly until the first error (`ErrorInv`), which makes the result that of
`ExitStatus` although it is read long after. The write deadline is never
renewed, so that a reply is written only before it and the read that follows
can last one read deadline more (`TimeInv`).

### HelloReader

What was read ends between two records of the client (`ReaderInv`). To keep
that, one needs that what is left on the connection then begins with a whole
record, whose length is the one in its header (`FirstOf`): the arithmetic of two
bytes, and the fact that what was sent up to a record begins what was sent up to
a later one (`SaidInv`). So the handshake bytes are payloads up to there, and
later ones change nothing at their head: neither the length the message
announces nor, once it is accepted, the message (`AcceptedInv`).

### ClientHello

What arrives is the beginning of a message, perhaps all of it, or is garbled, and what was
parsed is what `ParseClientHello` makes of it (`Arrived`); that is inductive at
once. The work is about operators.

`Understands` says that `ParseClientHello(Encode(h))` is `Meaning(h)`, for every hello
that can be said. It goes by layout: part `p` of message `m` begins at offset
`o` (`At(m, o, p)`), which gives the length found there, which gives the offset
of the next part. In a list of entries the walk from the offset of one entry
yields that entry and goes on at the next (`EntriesOfBytes`). A cut message
disagrees with one of the lengths that lie before the cut, unless the cut falls where
the code takes the end for that of an older client.

The remaining properties compare two hellos that can be said, and so two
meanings:

* *without GREASE*: that `Plain(h)` can be said needs that leaving out entries
  makes no list, and so no extension, longer (`LessFits`). What a capture tells
  apart in the two meanings is `Alike`, so the captures are equal
  (`AlikeCaptured`) but for the flag, which is down exactly if nothing was left
  out. What is kept as it was sent follows from the meaning itself. Filters commute with `Collect`: what is kept of all extensions of a type
  together is what is kept of each.
* *shuffled*: two lists in which every value occurs as often (`Shuffled`) are
  equally long (`CountedLen`), still are so when both are filtered
  (`CountedOnly`) or mapped (`CountedMapped`), and are the same bag when sorted
  (`CountedSame`). The lists in the extensions are those of the original, because no
  extension comes twice (`OwnCounted`), and so are their meanings
  (`ShuffledMeaning`).
* *imitated*: the imitation says no more than the captured hello, with one host
  of one byte and shares of one byte; here the original must have a host and no
  empty share. So it can be said as well, and its meaning is `Alike` that of the
  original; for a profile, if no certificate compression was offered, and else
  the two captures differ in that list.

`Only`, `Entries` and `FlattenSeq` are recursive functions on lengths or offsets. The
library's induction theorems take an operator as a parameter, which the provers
cannot instantiate; but a property can be given as the set of the numbers or
sequences that have it, and that this set is all of them follows from the
well-foundedness of `<` (`WFMin`): `Induct`, `SequenceInduct`, `FrontInduct`.

### Http2Conn

While the connection lasts, the map holds exactly the requests of the streams
on which the client is sending, each with what its stream has carried so far
(`RequestsInv`, with `SentInv` for what a legal client sends). A frame changes
the request of its own stream only; the last one moves it to the answers. The
decoder's list is emptied before each block, which is why fields cannot end up on
another stream. Each part of the tracker changes only from "not yet known", or
grows (`TrackerInv`, `PseudoInv`), so that what an earlier answer reported is
still in the tracker (`AnswersInv`) when the next one is made of it: hence the step of
`CapturesOnlyLearn`.

A reply that lists the frames is made of the tracker it was given and of the
last block its own stream carried (`ShownInv`), and gets the former out of a print.
`Split` cuts it at its marks (`SplitAt`): a setting has one colon, the settings
one semicolon fewer than there are of them (`SettingsPrint`, by
the place of each token in `Joined`), and no bar occurs before the two that
fence the window in (`FirstParts`). So `PrintReadBack` holds for any tracker,
two zeros standing for no window, and `FirstOnesKept` says what the parts are.

### Http1Conn

On each connection the replies on their way, the request being served and those
still to be read are, in this order, what the client waits for (`InStep`);
a request is not sent again while a try of it is waited for or once it is
answered (`WaitingInv`). So the next reply is the one to the oldest request. That a
reply shows its own capture is true when its call takes effect; it stays true
(`Sound`) because within an era the log only grows, and what numbers an
archive has is never taken back. `BeforeInv` and `ArchiveInv` carry the order of numbers
across crashes: a capture that was answered was numbered before, and the next
number is above all numbers used. `ServerInv`, `CallsInv`, `BackInv`, `PendingInv` and `GotInv` say
what is known of a request in each place it can be in. The store is `CaptureLog`,
so with `CallsAreAtomic` the theorems speak of the store the code has.

### Only model-checked

*Damaged lists* (`GarbledListsShortened`): what a list parser makes of bytes that are
no encoding needs a theory of its own.

*Liveness* (`EveryCallReturns`, `ShutdownCompletes`, `EveryConnectionEnds`,
`EveryRequestAnswered`, `NobodyWaits`): it rests on fairness and thereby on
ENABLED, which the provers do not reach.

## Not modelled, and the plan

* *Formatters* (`format_*.go`), besides what `Sub2API` has: the plain JSON of a
  record, fields copied from HTTP headers, timestamps, names of profiles. That
  they can fail, and in which order they are called, is in `CaptureStore`.
* *Tables of names and hashes* in `parser.go`, `common.go` and `service.go`:
  one-to-one, as far as the properties tell values apart.
* *Layout of replies, token estimates, extraction of headers* in
  `anthropic/router.go` and `common.go`: functions of one request.
* *Certificates, version, logging, CI scripts*: no behaviour that anything here
  depends on.
* *Clients that break RFC 9113*, such as with DATA on a stream that was never
  opened, which the code answers with 404: nothing says what it should do.
* *Two processes on one directory, and loss of power*: nothing in the code is
  meant to cope with either.

What is left: `GarbledListsShortened` could be proved with lemmas about `Entries` on
bytes that encode nothing. Liveness stays with TLC, for the reason above, and so do the two
properties the code violates.
