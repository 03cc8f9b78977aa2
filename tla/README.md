# A verification project for vanguard

Vanguard serves and calls Connect RPC methods over REST, by the `google.api.http`
rules of their protobuf descriptors. This directory holds TLA+ models of its
concurrent and stateful parts, TLC configurations that check them on small
instances, and TLAPS proofs that hold for every instance.

## The system

| component | source | state | operations | talks to |
|---|---|---|---|---|
| client stream | `stream_client.go` | send side (`sendClosed`, `reqURL`, pipe, compressor), receive side (`received`), and under `mu` the outcome (`ready`, `dispatch`, `response`, `rawBody`, `closed`) | Send, CloseSend, Receive, Close, the request goroutine, `respond` | `http.Client.Do`, an `io.Pipe` as request body, pooled compressors, the caller's context |
| server stream, restHandler | `stream_handler.go`, `vanguard.go` | `body`, `done`; `sent`, `headersSet`, `compressWriter`; the status line | ServeHTTP, Receive, Send, SendHeaders, close | the handler under `connect.Server.Call`, `http.ResponseWriter`, the routes |
| forward | `forward.go` | the upstream context, the channel `sent`, two threads | forwardRequests, forwardResponses | a server stream downstream, a client stream upstream |
| chunked bodies | `encoding.go` `readChunk` | the reader's position | one chunk per Receive of a stream of `HttpBody` | both streams, the peer through `net/http` |
| routes | `router.go`, `method.go` | the trie, each method's `httpRule` | Mount's `resolveMethods`, `insert`, `match` | restHandler |
| compression | `compression.go` | the table of compressors; a decompressor released once | negotiate, decompressBody | both streams |
| transport | `vanguard.go` | the cache of methods by procedure | NewClientStream, resolveMethod | client stream, the rules of the routes |
| path template parser | `path_parser.go` | the parser's position, open and closed variables | parsePathTemplate | routes, path codec |
| path codec | `httprule.go`, `path_parser.go`, `router.go` | the segments of a path under construction | httpEncodePathValues, escape, unescape, capture | routes, both streams |
| division of a message, query parameters | `router.go` makeTarget, `httprule.go`, `stream_client.go`, `stream_handler.go`, `params.go` | what path, query and body have taken of a message | bind, requestURL, encodeBody, decodeBody, setParameter | path codec, both streams |
| gRPC adapter | `vanguardgrpc/` | a handler's header metadata, and whether it is sent | registration, contexts, SetHeader, SendHeader, the stub's calls, conversion of errors | server stream |
| body codec, errors, type resolver | `codec.go`, `encoding.go`, `errors.go`, `type_resolver.go` | none | conversions | both streams |

What is hard in it: a client stream is shared by up to four threads which meet
only in `mu`, `ready` and a pipe, so the order of *publish*, *close the pipe*,
*cancel* and *close the body* decides whether a call hangs, leaks or blames the
wrong party. `forward` joins two such streams with a goroutine nobody waits for.
A REST response has one status line and no trailers, so what can still be said
about a late failure depends on what was written before. A body without message
framing must tell "end" from "gave up". The routes are filled in the order of a
Go map, and the transport's cache by whichever call comes first. A message is
taken apart into path, query and body by one program and put together by
another, each with its own idea of what belongs where. PROJECT.json lists these hazards one by one, at their lines.

What makes each part correct:

- client stream: one outcome per call, seen by all; no body left open and no
  decompressor taken from its reader; a clean end of an upload means all of it;
  every call returns once the context is done.
- server stream: a client can tell a failed call from a successful one, and
  reads what the headers announce; a handler that reads to the end has the URL
  fields once and every chunk of an upload its client finished. For an upload that
  was cut short the code promises less: HTTP/1's error for it is taken for the end
  of a chunk (see `aborted_body` below).
- forward: it reports success only for a complete call; failures end both
  sides; its goroutine ends.
- chunked bodies: nothing lost, nothing added, an abort is an error (the last of
  these does not hold).
- routes: the answer is a function of the rules, not of their order.
- transport: client and server use the same rule, whoever resolved it.
- path template parser: exactly the grammar is accepted, and nothing of a
  template is lost or misplaced in what is parsed.
- path codec: a value that fits its template arrives as it was; one that does not
  is refused by the client.
- division of a message: each field arrives once and whole, whatever carried it.
- gRPC adapter: what a handler returned is what the client is told; metadata set
  in time is sent.

## Modules

| module | models | state and actions against the code |
|---|---|---|
| `CallOutcome` | what a REST call promises its reader | abstract: a verdict, a body, the answers of Receive |
| `ClientStream` | `clientStream` | `snd`, `received`, `st` are its three groups of fields; `pc` holds a label per thread; an action per step between two points where another thread can get in: a lock, a pipe write, `Do`, a select, a body read |
| `ClientStreamInv` | | the inductive invariant of `ClientStream` in named parts, and what each further property adds to it |
| `ClientStreamProofs`, `ClientStreamRefinement` | | theorems: types, publication, Send, uploads, bodies and blame; the refinement of `CallOutcome` |
| `Forward` | `forward`, over any upstream that keeps `CallOutcome` | `pump` is the goroutine, `relay` the handler's thread, `sent` the channel |
| `ServerStream` | `ServeHTTP` and `serverStream` | `in` and `resp` are the two sides of the stream, `wire` what the client gets |
| `ChunkedBody` | `readChunk` over a body | `body` is what the peer wrote and how it ended, `reader` a Receive in `io.ReadFull` |
| `Router` | `resolveMethods`, `insert`, `match` | `trie` maps (path, verb, HTTP method) to a target, nodes are the prefixes of its paths |
| `Transport` | `resolveMethod` and the cache, with `Router` | `cache` is the map of methods, `call` a concurrent caller: Load is the lookup, Resolve the rule and `LoadOrStore` |
| `PathEscape` | `pathEscape`, `pathUnescape`, splitting and joining | operators on sequences of characters |
| `PathTemplate` | `parsePathTemplate` | a token a step; `at` is what the descent expects, `open` its stack, `pattern` and `found` what it has written |
| `PathCodec` | `httpEncodePathValues`, `match` of one route, `capture` | `segments` and `k` are the encoder's loop, `uri` the path on the wire, `got` what decodeRequestURL has set |
| `RequestCodec` | `makeTarget`, `requestURL` and `encodeBody` against `Receive`'s `decodeBody` and `decodeURL` | `request` is taken apart into `uri`, `query` (built from `pending`) and `payload`; `server` is put together from them |
| `GRPCHandler` | `vanguardgrpc`, around a generated stub, with `ServerStream` | `stub` is where the adapter is, `meta` the header metadata, `gave` what the handler said and what became of it |
| `ForwardProofs`, `GRPCHandlerProofs`, `ChunkedBodyProofs`, `TransportProofs`, `RequestCodecProofs` | | the inductive invariant of the module they are named for, and its theorems; `GRPCHandlerProofs` has those of `ServerStream` too, `TransportProofs` those of `Router` |
| `PathEscapeProofs` | | what escaping, unescaping, splitting and joining do to texts of any length |
| `MC...` | | the instances TLC checks |

How they compose. `ClientStream` implements `CallOutcome` by a refinement
mapping (`ImplementsOutcome`). `Forward` INSTANCEs `CallOutcome` as its upstream
call and takes two of `ClientStream`'s properties as what its fairness rests on
(`FailedSendDecides`, `EofHasVerdict`). `ServerStream` and `ClientStream`
read a chunk as a step; `ChunkedBody` models that step for both, and
`ServerStream`'s `ReceiveCut` has what it finds of a client that gives up: a
message that may be empty, then io.EOF or the same again without end. `GRPCHandler`
EXTENDS `ServerStream`: it replaces the free handler by a stub whose calls are
the stream's actions, and checks the stream's properties again together with its
own. `Transport` EXTENDS `Router`: once Mount has succeeded, callers resolve
against the rules the routes were filled from. `RequestCodec` INSTANCEs
`PathTemplate` and `PathCodec` over its own variables: the template that was
parsed is the one that is bound, encoded with, and captured by, so a parser that
misplaces a variable shows up in a message as well.

An operator `BadX` before an operator `X` is a plausible mistake in it (a dropped
guard, a swapped order, a missing reset). PROJECT.json names for each property
the mistake that it notices; no specification uses one.

What is abstracted: a message is one of a few kinds (it encodes, it is no proto
message, its URL does not encode, ...), an error is its class, a body is a count
of messages, chunks or bytes; only `RequestCodec` and what it is made of look at
characters, of which they have those that the code treats differently. Locks
taken and released without a step of another thread in between are one step. Of
headers there are Content-Encoding and marks for the metadata of a handler; others,
wording and formatting are left out.

## Runs

| run | instance | shows |
|---|---|---|
| `client_stream` | all stream types, messages and encodings, 3 calls on the send side, 2 Receives | the nine safety properties below, and `CallOutcome` |
| `client_stream_live` | all stream types, 2 calls and 1 Receive, fairness | `CtxUnblocks`, `CloseReturns`, `EofHasVerdict` |
| `forward` | 2 requests, 2 responses, any error anywhere, fairness | `CompleteSuccess`, `FailureEndsCall`, `PumpStops` |
| `server_stream` | bodies of up to 2 chunks, 5 calls of a gRPC handler, 2 header marks | `FailureVisible`, `AnsweredOnce`, `EncodingHonest`, `OneStatusLine`, `RequestWhole`, `MetadataArrives`, `VerdictKept` |
| `chunked_body` | 7 bytes in chunks of 3, 5 Receives, fairness | `WholeAtEOF`, `NoEmptyChunk`, `ShortOnlyLast`, `ReceiveReturns` |
| `router` | two methods with 2 and 1 bindings of 8 templates, external rules, paths of up to 3 segments; two callers with a call each, four Specs | `MatchesBest`, `MountDecided`, `PrimaryIsFirst`, `RoutesAreTheRules`, `ClientAgrees` |
| `request_codec` | every template of up to 8 tokens and twelve longer ones; ten with values of up to 3 characters and longer ones that fit, five with 756 divisions of a message | `TemplateParsed`, `RoundTrip`, `SentIsFound`, `MessageDelivered` |

The client stream's properties: `UploadComplete` (a clean end of the upload
means every accepted message and no lost one), `ReadsPublishedResponse`,
`NoOrphanBody`, `SendBlamesMessage`, `FailedSendDecides`, `OutcomeOnce`,
`DecompressorSpared`, and the refinement.

Why the bounds are enough. Three calls on the send side are a first message, a
later one and a CloseSend, or a failure between two of them; the stream keeps
no history beyond "first" and "closed". Two Receives are one and its successor;
a third meets the same state. The handler's five calls cover a full receive side
of two chunks (three calls) with two sends in any order; a method's stub is a
Receive, a Send and what its implementation does between them. Two header marks
are one in time and one too late. Seven bytes in chunks
of three make two full chunks and a short one, and every multiple below. The
router's templates are chosen to overlap in every way the search distinguishes:
literal against `*` against `**`, a verb against a colon in a segment, one
HTTP method against `*` and against none. Two callers are one that fills the
cache and one that finds it, or two that race to fill it; the Specs are two
methods, a procedure no route serves and one without a descriptor. Eight tokens
are the shortest templates with two variables, one after or within the other,
and every wrong token at every position of the parser; the longer ones add
bounds, verbs and literals inside a variable. Variables name each kind of field:
a text, a list, a message, a field of one. The values run over every
way in which slashes, percent signs, colons and stars can meet in three
characters; the templates have a variable of one segment, of two, open-ended,
with literals, nested in another, with a verb and without. A division gives a
rule one of seven bodies (none, all, a field, a message, one it may not name)
and a message every mix of empty and set fields, with lists of two and three. The
bounds `MaxSends`, `MaxReceives`, `MaxRequests`, `MaxResponses`, `MaxBody`,
`MaxCalls`, `MaxBytes`, `MaxChunks`, `MaxTokens` appear in guards only, and all
are parameters of the theorems.

The systems that come to rest say so (`Terminated`, `Served` and `Ended`,
`Finished`, `Mounted` and `Called`, `Decided`), each in a step that changes
nothing, so TLC's deadlock check is on in every run and a thread that is stuck anywhere else is found.

### Fairness

- Threads of the program take a step they can take: the Go scheduler.
- `ClientStream`: a canceled round trip, and one whose request body failed,
  returns; a read of a body that is closed or canceled returns; a blocked pipe
  write ends when the round trip is canceled, since `net/http` closes the request
  body. Nothing is assumed of servers or of the application: replies and calls
  may never come.
- `Forward`: of the upstream call only what `ClientStream` provides; a write
  downstream returns; a read downstream returns once the handler has.
- `ChunkedBody`: `io.ReadFull` goes on with what it has begun, the peer ends the
  body some time, the application goes on calling Receive.

### Where code and comments disagree

Five runs check a statement of a comment that the code does not keep; each has a
finding in PROJECT.json with the lines.

| run | statement | what happens |
|---|---|---|
| `read_after_release` | Close is "safe to call concurrently with Send and Receive" | after an early Close, respond releases the decompressor and still publishes the response, which Receive then reads |
| `request_after_failed_send` | "The request cannot complete" | CloseSend issues the request of a unary call whose Send failed |
| `forward_masks_error` | "errors pass through in both directions" | forward may return the Canceled of its own cancel |
| `aborted_body` | "aborting is the only way to report the error" | readChunk takes a truncated HTTP/1 body for a short chunk |
| `misfit_path_value` | "expected field %s to match pattern %q" | for `{name=g/**}` the value `g` is sent as `/g/**` and arrives as `g/**` |

## Proofs

Every theorem holds for all values of the constants that satisfy the module's
named assumptions. `ConstantsAssumption`: the bounds are natural numbers, the
names of errors are not those of other outcomes. `ConfigAssumption`: a rule is a
record with a path whose `**`, if any, comes last, as the template parser leaves
it. `PathAssumption`: no segment of a request's path is a star, since
`canonicalSegment` escapes every star. `WordsAssumption`: a word of a template is
a run of literal characters, and what it escapes is in the alphabet. Each invariant below was checked by TLC on the
instance of its module before it was proved. In every module `InvInit` and
`InvStep` (or their named pieces) show that it is inductive, with a step per
action; a theorem about a property is then `IInv => property` and one line of
temporal logic.

| module | theorem | states |
|---|---|---|
| `ClientStreamProofs` | `Invariance`, `TypeCorrect` | `IInv`, `TypeOK` |
| | `ReadsPublished`, `FirstOutcomeStays`, `FailedSendDecided` | `ReadsPublishedResponse`, `OutcomeOnce`, `FailedSendDecides` |
| | `UploadsComplete`, `NoBodyOrphaned` | `UploadComplete`, `NoOrphanBody` |
| | `BlameIsRight`, `DecompressorIsSpared` | `SendBlamesMessage`, `DecompressorSpared` |
| `ClientStreamRefinement` | `StreamImplementsOutcome` | `Spec => ImplementsOutcome` |
| `GRPCHandlerProofs` | `Invariance`, `TypeCorrect` | `IInv`, `TypeOK` of `ServerStream` |
| | `FailuresAreVisible`, `OneAnswer`, `EncodingIsHonest` | `FailureVisible`, `AnsweredOnce`, `EncodingHonest` |
| | `StatusIsFinal`, `RequestsAreWhole` | `OneStatusLine`, `RequestWhole` |
| | `HandlerImplementsStream` | `HandlerSpec => Spec` of `ServerStream` |
| | `HandlerInvariance`, `HandlerTypeCorrect` | `HandlerInv`, `HandlerTypeOK` |
| | `MetadataIsCarried`, `VerdictIsKept` | `MetadataArrives`, `VerdictKept` |
| `ChunkedBodyProofs` | `Invariance`, `TypeCorrect` | `IInv`, `TypeOK` |
| | `EOFIsLast`, `EmptyIsAborted`, `ShortIsLast` | `WholeAtEOF`, `NoEmptyChunk`, `ShortOnlyLast` |
| `ForwardProofs` | `Invariance`, `TypeCorrect`, `SuccessIsComplete` | `IInv`, `TypeOK`, `CompleteSuccess` |
| `TransportProofs` | `Invariance`, `TypeCorrect` | `TransportInv`, `TransportTypeOK` |
| | `MountIsDecided`, `FirstRuleIsPrimary`, `EveryRuleIsRouted` | `MountDecided`, `PrimaryIsFirst`, `RoutesAreTheRules` |
| | `ClientAndServerAgree` | `ClientAgrees` |
| | `BestIsMatched` | `MatchesBest` |
| `RequestCodecProofs` | `Invariance`, `TypeCorrect` | `IInv`, `TypeOK` |
| | `MessagesAreDelivered` | `MessageDelivered` |
| | `PathInvariance` | `PathInv` |
| | `PathsAreFound`, `ValuesRoundTrip` | `SentIsFound`, `RoundTrip` |
| | `GrammarInvariance` | `GrammarInv` |
| | `TemplatesAreParsed` | `TemplateParsed` |

### The client stream

`ReadsPublishedResponse` and `OutcomeOnce` are not inductive: nothing in them
says that only the thread holding `mu` publishes. `IInv` adds what the code
relies on without saying: `mu` is held exactly while a respond call handles a
response and nothing is published then (`MutexHeld`); a sender that holds a
response has closed the send side (`SenderResponds`); a response in hand, or
recorded, has a body (`ResponsesHaveBodies`); and a verdict is published together
with its response (`PublishedWhole`). `FailedSendDecides` needs only types and
the step lemma `DecidedStep`.

The other properties each add a part. `NoOrphanBody` needs an owner for an open
body at every moment, not only after Close (`BodyOwned`). `SendBlamesMessage`
rests on the order in the request goroutine, which responds before it closes the
read end (`RespondsFirst`). `UploadComplete` needs an account of the pipe
(`UploadInv`): what Send accepted has been read or is held back by the
compressor, a lost message means an error on the pipe or a Send about to put it
there, and the pipe ends cleanly only after a CloseSend that flushed.

The refinement maps the threads to a verdict, a body and an answer.
`RefinementStep` takes the actions in three groups. The send side decides nothing
that the reader sees. A respond call either decides, in one step, or arrives with
a response, or drops one (`RespondMaps`); for that a call makes one request at most
(`OneRequest`), or a second body would have no place in the outcome. A Receive
delivers, refuses, ends, fails or says io.EOF again (`ReceiveMaps`), which depends
on how the response is read (`ReceiveSide`).

### Server stream and gRPC adapter

`FailureVisible` and `AnsweredOnce` speak of the end of a call, so the invariant
has to follow it there: what the status line says is what the stream has
committed, and every part of the body is in its encoding (`LineHonest`); `sent`
agrees with what was written, save for a write that failed (`SentCounted`); the
response ends once, cleanly only for a call that did not fail (`EndsOnce`); and
until a Receive fails or the upload is cut short, messages seen and body left add
up to the request (`BodyCounted`). `RequestWhole` claims no more than that: an
upload with a Content-Length that was cut short may end without an error and
without its rest, and one that repeats the cut has no end.

`HandlerImplementsStream` shows that the adapter uses the stream as any handler
may: each of its steps is one of `ServerStream`'s or leaves that module's
variables alone. So all theorems about the stream hold under it, and
`HandlerInv` only adds where the stub is (`InStep`), what metadata is on the wire
(`MetadataKept`) and what the stub has passed on (`VerdictPassed`).

### forward and chunked bodies

`CompleteSuccess` is about the end; `Relaying` counts the responses while the
loop runs and says that an upstream call that is over and has not failed has the
verdict ok, since otherwise Receive would have answered an error and the loop
ended; `Finished` carries the property from the end of the loop to forward's
return. The proof uses of the upstream call only `CallOutcome`, which
`StreamImplementsOutcome` shows of a client stream. For a reader of chunks,
`BytesCounted` says that what was taken off the wire is delivered or in the
buffer, and `EOFLast` that io.EOF is final.

### Routes and transport

A place for rules is a method or an entry of WithRules; `Done` are those visited
so far. The trie is `Exact` for them: its keys are theirs, each leads to the
binding and method it was inserted with, and no two of them share one.
`PlaceAdded` extends that by a place whose rules can be inserted, in any order,
and `RefusedIsConflict` shows that rules that cannot be are in conflict with
another place; with `Done = Places` at the end (`AllDone`) they give
`MountDecided` and `RoutesAreTheRules`. `KnownBy` says which rule a method has
after n entries of WithRules. For the client, `Agreed` says that a cached or
returned rule is the server's; `SameRule`, that both sides choose the same, for a
procedure no route serves because Mount refuses rules for it.

`BestIsMatched` speaks of every path, not only of those an instance lists.
`findTarget` is a function of what remains of a path, defined by its own values
on shorter remainders; that there is such a function, and that it finds the first
in order of preference (literal, `*`, `**`, segment by segment) among the rules
that match the remainder, are both inductions on its length. `Exact` makes the
nodes of the trie those of the rules.

### Texts

`PathEscapeProofs` is about all texts. The library's induction theorems take the
induction predicate as an operator, which the installed provers cannot
instantiate; here the predicate is a set instead (of the numbers, or of the
texts, for which the claim holds), and `Induction`, `FromTheEnd` and
`TextInduction` are ordinary first-order lemmas, proved from the least number a
set has. Each recursive function of `PathEscape` is shown to exist and to
satisfy its equation (`EscapeIs`, `UnescapeIs`, `SplitIs`, `FlattenIs`), then to
treat a text head first (`...Unfolds`), and from there on the recursion is not
looked at again. The results the codec uses are `UnescapeEscape` (what "single"
writes, comes back), `UnescapeMulti` (so does what "multi" writes, but for the
case of an escaped slash), `JoinedSplit` and `SplitJoined` (a text is its parts,
parts without a separator are found again), `JoinedValid`, and `ValueRound` for a
value that is cut into parts, escaped, joined and decoded.

### The request codec

`IInv` has three parts. `ParserInv` is what the parser keeps: `**` is the last
segment it wrote, open variables start inside the template, closed ones have
proper bounds. `CodecTypes` adds the types of what is encoded, sent and captured,
and that the codec runs on the template that was parsed. `Division` follows each
field: until the body is decoded the query and the body hold exactly what was
asked of them; then a field is in the path and not in the query, or what the server
has of it and what the query still holds are together what was sent.
`MessageDelivered` is `Division` once the query is empty.

`SentIsFound` and `RoundTrip` speak of the end of a call; `PathInv` leads there.
`PatternCanonical`: a literal of the pattern is in the one form that
`canonicalSegment` gives a request's segment, without which a route would not
match its own path. `Nesting`: variables nest, and of two with one name the
later contains the earlier; the server captures the earlier last, and it must
restore the field as exactly as the later one did (`SmallerInside`), since a
variable of one segment keeps the case of an escaped slash and one of several does
not. `Matching`: a segment is a valid escape and is literal where the pattern is,
so that the encoder never writes what `match` would refuse.
`Kept`: every part written for a variable is still there, and every other segment
is the pattern's; this is what makes a captured range the range that was
written. `Outcome`: the URI is these segments joined, with the verb; a path that
was sent is neither unfound nor undecodable; a variable that was captured has
the value sent. A step of the encoder keeps `Kept`, since it writes only what
does not clash with what is there (`OverlaidKeeps`), and refuses only what does
not fit (`RefusedMisfit`); a capture keeps `Outcome` by `ValueRound` (`CaptureStep`), and
the step in between, from segments to a path and back, is `SplitJoined` with
the verb cut off at the last colon (`SentMatches`).

`TemplateParsed` compares the parser, which keeps a stack, with a grammar that
looks at the whole template, and with the template printed back. `GrammarInv`
relates them after every token. Of the grammar (`ReadingInv`): `Place`, what the
parser expects is told by the last two tokens; `Counted`, it has as many
variables open as brackets; `Noted`, it has seen a `**` or a name exactly when
the template so far has; and `Parsed`, what it has not rejected is a beginning
of the grammar. Then a token is taken exactly if the grammar lets it follow
(`Expected`), since what the grammar says of a position depends on nothing after
it (`GrammarGrows`). Of the text (`Wording`): what was read, with its literals
canonical, is what is printed of the segments, of the variables closed and of
those still open, and of the bracket or name at hand. An open variable prints
its bracket outside those closed at its place, so closing it moves it from the
one list to the other and adds no more than the closing bracket (`TextCloses`).
At the end none is open, and the text is the template's. That no variable is
named twice apart is `Nesting`.

### Only model-checked

- Liveness (`CtxUnblocks`, `CloseReturns`, `EofHasVerdict`, `FailureEndsCall`,
  `PumpStops`, `ReceiveReturns`): it depends on fairness and ENABLED, which the
  prover does not handle. `Forward`'s fairness therefore rests on
  `FailedSendDecides`, proved, and on `CtxUnblocks` and `EofHasVerdict`, checked.

Every invariant and action property of a passing run is a theorem.

## Plan

Done, in this order: `ClientStream` with `CallOutcome`, its invariant and proofs;
`Forward`; `ServerStream`; `ChunkedBody`; `Router`; `PathCodec`; `PathTemplate`,
and `RequestCodec` to compose it with `PathCodec`; `GRPCHandler` over
`ServerStream`; `Transport` over `Router`.

Proved: the types of every module and every safety and action property of the
passing runs; the refinement of `CallOutcome` by `ClientStream`, and
that of `ServerStream` by `GRPCHandler`.

Open:

- A composition of a client stream and a server stream over `ChunkedBody`: what
  a Receive on one side says about a failure on the other.

## Not modelled, and why

- Which error a client's call has that cannot be encoded: a rule with a variable
  that names a message is served, and the call ends in `Bind` (`Marshalable`),
  before the variables that come first in the path could refuse it as well.
- Whether `maxReadBytes` caps a body: `ReceiveCut` lets any upload that lacks
  bytes repeat the cut, as a capped one does, and `ReceiveReadFails` has the cap
  exceeded.
- Text: of a message, the model has strings, lists of them and messages. The text
  of numbers, bytes, enums and well-known types, the JSON codec, map fields,
  unknown parameters, path variables inside a message the body takes, and the
  status body are conversions whose content is protobuf reflection, as is the
  type resolver.
- `X-Server-Timeout` is a floating point number; the server model distinguishes
  one that parses from one that does not, and a timeout that fires is an end of
  the context.
- `negotiate`'s q-weights and table of names: `ServerStream` has its result.
- The gRPC adapter's `SetTrailer` has no reader in REST; `NewCodec`, the peer's
  address and the method name in the context have no state.
- `net/http`'s mux, which redirects paths with empty or dot segments before a
  handler sees them.
- The connect library, `net/http`, `io.Pipe` and compressors are environment,
  modelled from how the code uses them. `CallInfo` belongs to connect; respond's
  write of it is a step of its own (`info`), but its readers are the
  application's threads. Data races are modelled only as the interleaving of the
  steps above.
- Examples and generated code are not part of the program; of the latter
  `GRPCHandler` has the shape of a gRPC stub.

Three things the models show that no run is devoted to:

- `{g={g}}` parses, although a variable is named twice: the parser looks a name
  up among the variables it has closed. `TemplateParsed` says so, and
  `MessageDelivered` that the message still arrives.
- A Spec whose procedure is in the transport's cache gets the cached rule even
  if its own schema is another, or missing; `Load` has it as it is.
- `grpc.SetHeader` succeeds after the status line is out, and its metadata goes
  nowhere; `meta.late` keeps what was lost.
