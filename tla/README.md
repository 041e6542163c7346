# pingpong: verification development

`pingpong` moves one file from a sender to a receiver through a server in a
local network. The sender prints a *code phrase*; whoever starts a receiver
with that phrase is asked whether it wants the file, and the server then
relays the chunks. The program is a small stack: a blocking queue, an
asynchronous connection, a server and a client base class, and on top of them
the file server and the two client routines.

This directory holds TLA+ models of that stack, the TLC runs that check them
on small instances, and TLAPS proofs, for every instance, of every invariant
that those runs check and of the three refinements. Paths below are relative
to `src/`; `ppserver`, `ppclient` and `ppcommon` stand for
`filetransmission/ppserver` and so on.

## 1. Inventory

| part | state | operations | talks to |
|---|---|---|---|
| `FileServer`, `ClientStorage` (`ppserver/src/server.cpp`) | phrase of each sender, metadata of its file, sender/receiver pairs, sessions | one handler per message type, run by `update()` on the main thread | connections (`send`, `disconnectAfterFlush`), relay sessions |
| `ServerOneToOneRetranslatorSession` (`ppcommon/.../session.hpp:246-280`) | the sink | `onMessage`: pass Chunk, FinalChunk, Abort on | the receiver's connection |
| sender routine (`ppclient/src/sender.cpp`, `session.hpp:147-223`) | phrase, chunk size, position in the file | announce, wait for a receiver, send chunks, wait for Success | server |
| receiver routine (`ppclient/src/receiver.cpp`, `session.hpp:60-128`) | phrase, output file | ask, prompt the user, receive chunks, report | server, user, disk |
| messages (`ppcommon.hpp`, `net_message.hpp`) | a header and a body of bytes | `operator<<` appends, `operator>>` takes off the end; one encoding for each kind of payload | - |
| `Connection`, writing (`net_common/.../net_connection.hpp`) | outgoing queue, pending counter, socket, `m_close_after_flush` | `send`, flush, `disconnect`, `disconnectAfterFlush`, asynchronous writes | two threads: its owner and the io thread |
| `Connection`, reading | `m_forming_in_message` | `readHeader`, `readBody`, `addToIncomingMessageQueue` | the io thread, the incoming queue |
| `ServerBase`, `ClientBase` | connections, incoming queue | accept, `update`; connect, disconnect, flush | `Connection`, `TSQueue` |
| handshake (`net_connection.hpp:235-295`) | a nonce and its expected answer | write and read validation | peer |
| `TSQueue` (`tsqueue.hpp`) | deque, mutex, condition variable | push, pop, `wait`, `waitFor` | io thread (producer), main thread (only consumer) |
| discovery (`discovery_client.cpp`, `discovery_server.cpp`, `unix_ip_utils.cpp`) | UDP socket, the list of interfaces | choose an interface, probe its subnet, answer, fall back to localhost | network |
| phrase generator, hash, command line, logger | - | pure or library code | - |

How the parts meet. A server process has two threads. The io thread accepts
connections, reads whole messages into *one* incoming queue and writes what
the connections have queued. The main thread pops messages and runs one
handler to completion for each; `ClientStorage` belongs to it alone. A client
process has the same two threads: the io thread reads into the client's own
queue, the main thread runs the routine from top to bottom and blocks where it
waits. A transfer is

    sender: Send -> (waits)           receiver: RequestReceive -> Accept | Reject
                                      (user agrees) Receive ->
    sender: Accept -> Chunk ... FinalChunk ->  relayed to the receiver
                                      FinishReceive ->
    sender: Success, connection closed after a flush

What makes it hard:

* the client routines and the handlers interleave freely; the phrase is looked
  up twice with the user in between;
* four tables describe one session, and two of them refuse inserts silently;
* nothing tells the server's main thread that a client has gone: handlers run
  on dead connections and offers of dead senders stay;
* a chain of four messages has to get through before either side may say that
  the file is there, and a client that ends stops its io thread with whatever
  it has not written yet;
* the writing side of a connection is a protocol between two threads with a
  counter, a queue and a flag that change at different moments;
* on the reading side the queue is notified outside its lock, the handler of a
  completed read runs although the socket has been closed, and payloads are
  taken apart from the back with lengths that the peer has put there.

`PROJECT.json` lists these as hazards, each at its line, with the properties
that watch it.

## 2. Modules

    PPCommon          messages
      FileServer      the server in an open environment  --implements-->  Rendezvous
        MCFileServer    instance for TLC
        FileServerProofs  TLAPS proofs
    Transfer          real clients around FileServer     --implements-->  FileServer
      MCTransfer        instances for TLC
      TransferProofs    TLAPS proofs: the refinement, types, a sender's offer
      TransferRequestProofs   phrases, a receiver's request
      TransferStreamProofs    the chunks between two files
    Connection        writing side of a connection       --implements-->  Channel
      ConnectionProofs  TLAPS proofs, of the refinement too
    MessageCodec      payloads as bytes
      Inbox             reading side, queue and the thread that empties it
        MCInbox           instance for TLC
        InboxProofs       TLAPS proofs, of the codec first
    Handshake         how a connection comes into being
      HandshakeProofs   TLAPS proofs
    Discovery         how a client finds the server
      MCDiscovery       instance for TLC
      DiscoveryProofs   TLAPS proofs

**PPCommon** (`ppcommon.hpp`). A message has a type, and of its payload what
somebody acts on: the phrase, the file that the metadata describes, the body
of a chunk. `ClientMessage` is every well-formed message a client can send.

**FileServer** (`server.cpp`, and of `net_server.hpp` and `net_connection.hpp`
what the server sees of its connections). Variables and their counterparts:

| variable | code |
|---|---|
| `phrase` | `m_pending_phrase_senders` (a bimap: `BimapInsert` refuses a taken phrase) |
| `context` | `m_pending_transmissions` |
| `receiverOf` | `m_senders_receivers` (a bimap) |
| `sink` | `m_sessions`, each with its `m_sink` |
| `incoming` | `m_messages_in` |
| `conn`, `closing`, `out` | socket, `disconnectAfterFlush` pending, messages accepted by `send` |

`Update` is one turn of `ServerBase::update`; `OnMessage` dispatches to one
operator per handler, each with every call the handler makes. `Connect`,
`Arrive`, `WriteDone`, `CloseFlushed` and `ConnectionLost` belong to the io
thread and the network. A handler is one step because nobody else touches the
tables and because it looks once at each socket it writes to; messages and
losses arrive between handlers in any order. A message may arrive on a
connection that has just been closed: its read had completed, and its handler
runs all the same (module Inbox shows where this comes from). The environment
is *open*: every connected client may send every message of `ClientMessage` at
any time, in any order, so chunks before an offer, a client that is sender and
receiver at once, two receivers for one phrase and the like are all there.

**Rendezvous** is what the server is for, without messages: an offer under a
phrase nobody else uses, a link from an offer to the first receiver that asks
for it, and offer and link ending together. `FileServer` implements it with
`offer <- phrase, link <- sink`.

**Transfer** puts the two routines around the server. It instantiates
`FileServer` with its own variables and uses the server's actions, so that the
server's code is modelled once. `pc[c]` is the place where a routine blocks or
may be overtaken: `hello` (connected), `await` (sender waits for Accept),
`sending` (mainLoop), `confirm`; `asked`, `prompt`, `receiving`, `flushing`;
and the results `ok`, `failed`, `declined`. `up[c]` and `inbox[c]` are the two
directions between a client and the server (with the server's `out[c]` as the
second half of the latter), `link[c]` is the client's own view of the socket.
The bytes of a file are the sequence of its chunks, a chunk says which file
and which part it is and whether its hash matches. `sent`, `ended`, `ready`,
`shown`, `got` and `diskBad` are the routines' local state, as far as it
matters: position, end of input, whether `chunksize` has been assigned, the
prompt, the output file, the state of its stream.

`Leave` is the end of a routine. The destructor of `ClientBase` stops the
io_context at once, so any suffix of what was sent may be lost; only the
receiver's success path waits for `flush()` first (`flushing`). When the
server's end closes (`ServerCloses`, `Reset`), what is still in `up` is never
read, but for one message whose read has completed (`Unread`).

`FaultStep` holds the failures, at most `MaxFaults` per behaviour: a process
killed anywhere, a connection reset, a flipped bit in a chunk, a source file
that has gone (before the offer, where its size is asked for, or before the
first chunk), a read error, an output file that cannot be opened, a failed write.

**Connection** is `Connection::send`, `waitForOutgoingQueueEmpty`,
`disconnectAfterFlush` and `ClientBase::disconnect` on the owner's thread
against posted handlers and write completions on the io thread. A step is
what happens between two points where the other thread can be seen to
interfere: `send` is three steps (test of the socket, count, post). A write is
started, completes (`WriteCompletes`: its bytes are out), and its handler runs
later in three steps (pop, uncount and notify, continue), also when the socket
has been closed in between: as with reads, the success of an operation is not
taken back. A write that has not completed when the socket closes fails
(`WriteFailed`). `m_owner_type` (`ownerType`) says who calls: a client flushes
and disconnects at once, a server disconnects after a flush. Errors of the
network are at most `MaxErrors`.

**Channel** is a FIFO connection: what is sent while the socket is open is
written once and in order, and a close that was asked for waits until as many
messages as had been sent (`due`) are written. Before that only a connection
closes that is `broken`, by an error of the network or because its owner
leaves. What a closed channel still holds stays where it is and is never
written. `Connection` implements it, which is what allows `FileServer` and `Transfer` to take
`SendTo`, `WriteDone` and `CloseFlushed` for single steps. The mapping: a
message enters the channel when `send` has found the socket open, whatever
the owner thread has still to do with it (`Accepted`), and leaves it when it is
on the wire (`WriteCompletes`); the n-th call sends message n, so the abstract queue is
the run of numbers in between (`Unwritten`). `due` is `mark`, what had been sent
when `disconnectAfterFlush` was called.

**MessageCodec** is what `operator<<`, `operator>>`, `encode` and `decode` do to
a message: bytes appended to the body and taken off its end. A length is one
byte and is taken modulo `ByteModulus`, as the assignment to a `uint8_t` does;
a read into a value does not look whether the bytes are there, and one that is
not inside the body marks the message (`inside`); a read into a container takes
what there is. `Payload` is what a program can fill in: a phrase or a name of any length, also one whose length does not fit its byte; a
receiver's PreMetadata carries numbers nobody has assigned, which are free bytes.

**Inbox** is the way of a message from the peer's bytes to the decoded payload:
`readHeader`, `readBody` and `addToIncomingMessageQueue` on the io thread, the
queue, and the main thread in either of its two manners: `update(true)` and the
client's loops sleep until there is a message (`wait`), `waitForConfirmation`
sleeps for a period and looks at the connection in between (`poll`). A
completed read (`done`) and its handler are two steps, as are `push_back`'s
critical section and its notify (`io` is the connection in between), and the
test of the queue, the sleep and the wake-up. The peer may close or die after
any cell of its stream, the socket may close from this end at any time, and
wake-ups may be spurious.

**Handshake** is one connection from `async_connect` to the first messages in
both directions: `connectToServer` and `connectToClient`, the accept handler,
`writeValidation` and `readValidation`, and the client's
`waitForConnection`. The two ends run the same code and are told apart by
`End`. A write is started (`writes`), then taken by the network (`stream`, the
bytes on their way to the other end), then completed by its handler (`done`);
the peer may have read and answered before the handler runs, which is why the
client may send messages that the server finds behind its answer. `reading[e]`
says what the read under way at `e` expects: eight bytes of a handshake, or a
message. `Obfuscate` gives the nonce its one answer; it masks bits, so that a
value damaged on its way may still have the right answer, or a wrong one.
`Break`, `Garble` and `ConnectError` are the failures, at most `MaxErrors`. `ConnectDone`/`Accept`/... end where FileServer's `Connect` and
Transfer's `Start` begin.

**Discovery** is `autoConnect`'s search: the choice of an interface
(`getLocalIPv4`: up, no loopback, not link-local, private before others; then
`getNetmaskForIP`, which takes the mask of the first interface with that
address, even of one that is down), `getSubnetRange` and the loop of
`discoverServerByUnicastBruteforce` over the unsigned integers below `Size`
(2^32), the DiscoveryServers that answer, UDP in between (`probes` and `answers` may be lost, doubled or
delayed), the timeout and the fallback to the own machine. `UsableHosts` is
the reference: the addresses of the subnet but its first and last, by
counting, with no masks. The operators `&` and `|` are parameters, `BitAnd`
and `BitOr`; the model asks of them what they do to a netmask, for subnets of the
sizes in `Blocks` (`BitsAssumption`). `MCDiscovery` gives them the operators
of the module Bitwise, and TLC finds that these do what is asked.

The answer of `handleRequest` may be rubbish (`Damaged`), because its buffer does
not outlive the call that starts the send. The client looks at its beginning
only (`IsAnswer`): when that is intact, what is behind the slash, or its absence,
gives the port it connects to, 0 or any other, or the exception of `std::stoi`,
which nobody catches (`threw`). `garbled` remembers which servers have sent such
an answer; nothing reads it but the property.

Definitions whose name ends in `_Something` directly before a definition of
the same name without it are mutants: plausible slips of the same code. Each
is introduced by a comment that says so. No module uses them; they are
substituted, one at a time, to see that a property notices.

## 3. Runs

| run | instance | question |
|---|---|---|
| `file_server` | 3 clients (symmetric), 2 phrases, 1 file, chunk bodies of 1, 3 and 4 bytes with a hash of 2, chunks of at most 1 and sizes modulo 8; 2 messages queued, 1 unwritten per client | Are the tables consistent, are only fitting chunks relayed, does every session end with a word to somebody who waits, is it a Rendezvous? |
| `transfer` | 2 senders (2 chunks and 1), 2 receivers, 1 phrase, no faults, fairness | Do started transfers complete, is every request answered, do real clients stay inside the open environment? |
| `transfer_faults` | the same with 2 phrases and 1 fault | What has been received, from whom, and what may each side conclude, when anything may fail once? |
| `connection` | 4 messages, two with no body, 2 errors, a client's and a server's connection, fairness | What do flush and close promise; is it a channel? |
| `inbox` | each of 28 messages alone on a connection, a conversation of two, two connections on one queue; bytes modulo 4, words and hashes of 2 bytes; fairness | Is what is taken what was sent, whatever breaks off where; is a message ever left in a queue with everybody asleep? |
| `handshake` | 3 messages in each direction, 2 errors, fairness | Do both ends stay in step on the byte stream, is only a validated client heard, does a connection come up? |
| `discovery` | addresses of 4 bits; a single interface with every netmask and every address under it, and every pair of interfaces out of 27 (three addresses, two masks or none, up, down or loopback); 2 servers with different ports, 3 ports to be read; 2 answers under way; fairness | Is the right interface taken and exactly its subnet probed, does the search end, where does the client turn? |

and five runs that are expected to find a disagreement between the code and
what it says of itself (section 6).

Why the bounds are enough. *Three clients*: a sender, a receiver and one who
interferes, as second sender or second receiver; every handler reads and
writes at most the entries of the client, its sender and its sink. *Two
phrases* are needed for a sender that changes its phrase; *one* phrase in
`transfer` makes both senders draw the same one, which is the collision.
*Bodies*: one shorter than a hash (the subtraction wraps), one that just fits,
one a byte too long; modulo 8 plays the part of 2^64 and is larger than hash
plus chunk, which is all the proofs ask. *Queues*: a second message in the
incoming queue makes a handler run on a connection that has gone in between;
`MaxOut` bounds only the environment (handlers always append), 1 in the open
model where more says nothing new, 2 in `transfer` so that a chunk and
FinalChunk can be under way together. *Chunks*: two make order, loss and an
end in mid-file visible. *Messages of a connection*: four let one be written,
one wait in the queue, one be posted and one be counted and not yet posted;
a message without a body both behind one with a body and behind another
without. *Messages of the inbox*: a payload of each kind, names and phrases of
different lengths, one phrase and one name longer than a byte can say, and uninitialised
numbers below, at and beyond what is there; the reader starts anew after each
message, so two in a row show that it does, and two connections that the queue
keeps them apart. *One fault* is a fault at every
point of every interleaving; two add combinations that the routines, which
end at the first, do not see. *Messages of a handshake*: two in each
direction put one message behind the handshake value and one behind a message,
and the third is there for an error between them.
*Four bits of address*: subnets of 1 to 16 addresses, at the lower end, in the
middle and at the upper end of the integers, where sums wrap; two servers lie
in one subnet under some masks and in different ones under others. *Two
answers* under way let a sound one and a damaged one race; a third would be
lost, as any answer may be.

`CHECK_DEADLOCK FALSE` in all of them, because the system may stop: clients
end, a sender waits for a receiver that never comes, the owner of a connection
stops calling.

Fairness. In `Transfer`: weak fairness of the server's main loop, of each
connection's progress and of each routine, which are threads of a running
process and TCP. Nothing obliges a user to start a client or to answer the
prompt, and no fault has to happen; the bounds on queues only delay, because
each client sends finitely many messages. In `Connection`: the io thread runs
handlers while there are any, a write on an open socket completes, one on a
closed socket fails, and a thread inside a call goes on; calls, errors and spurious wake-ups are free.
In `Inbox`: both threads run, and a period of `waitFor` ends although wake-ups
keep coming (strong fairness of `Timeout`), because `wait_for` with a
predicate fixes its deadline once; the peer owes nothing. In `Handshake`: the
io threads and the network go on and the client polls; sending and errors are
free. In `Discovery`: the client's own loop goes on and
its clock runs; no server has to answer and no datagram has to arrive.

What the runs check, beyond types:

* `StorageConsistent` - one sender per phrase, one sender per receiver, a
  phrase always has a file, a pair always has a session, a session keeps its
  sender's phrase.
* `ChunksFit` - the unsigned size test lets exactly the right sizes through.
* `SessionEndsLoudly` - a session that goes has told Success to its sender, on
  the report of the receiver it is paired with, or Abort to its sink, and its
  sender's connection is to be closed.
* `ReceivedInOrder` - the output file is at all times an initial part of what
  the sender with the receiver's phrase has sent.
* `ReceiverOkIsComplete`, `SenderOkIsReceived` - success on either side means
  that everything the sender read has been received.
* `SenderStartsInitialised` - `chunksize` is assigned before it is used.
* `SuccessIsLast` - Success leaves when nothing of the sender is unread, so
  the close behind it is orderly; `NoSessionOnClosing` - no session on a
  connection that is about to be closed.
* `ConsentedFile` - as long as only one sender has drawn the phrase, the file
  written is the one the user has agreed to. (Receive looks the phrase up
  again; with two senders and one phrase, whose offers the bimap admits one
  after the other, it may lead to the second one's file.)
* `StartedTransferCompletes`, `LinkedReceiverCompletes`, `RequestIsAnswered` -
  without faults, a transfer that starts ends well on both sides, and requests
  are answered.
* `PendingCounts`, `OneWriter`, `QueueIsDriven`, `FlushMeansWritten`,
  `NothingCutOff`, `FlushReturns`, `CloseHappens` - the counter is exact at
  every step of both threads, there is one writer and it never stalls, flush
  means written, a delayed close takes nothing with it and happens.
* `TakenAsSent` - what the main thread takes from a connection is what its
  peer said, from the first message on, whole, once and in order, and never
  something made of a message that was cut off; no read of a decode leaves the
  body, and one whose lengths fit gives the payload back and leaves nothing;
  `SaidIsTaken` - the queue is drained again and again and reading never stops
  short, so no wake-up is lost; `PollEnds` - the poll of `waitForConfirmation`
  does not outlast the connection.
* `InStep` - a read of a handshake value never meets a message nor the other
  way round; `WritesDoNotMix` - the handshake, which does not go through
  `m_messages_out`, never writes while a message is being written;
  `OnlyValidated` - nothing is taken from a client before its answer has been
  found right; `ConnectionComesUp`, `MessagesArrive` - without errors the
  client gets through and both directions deliver.
* `ScanIsExact` - the range is that of the preferred interface; masks and loop
  probe every usable host but the client, and in a subnet that has usable
  hosts nothing else; `TargetIsServer` - the client connects to its own machine
  or to a server it has probed, at that server's port unless an answer of this
  very server was damaged behind the phrase, and is thrown out of the search
  only by such an answer; `SearchEnds` - from every subnet but one (section 6).
* `ImplementsRendezvous`, `ImplementsServer`, `ImplementsChannel` - the
  refinements.

## 4. Proofs

| module | theorem | states |
|---|---|---|
| `FileServerProofs` | `TypeCorrect` | `Spec => []TypeOK` |
| | `StorageStaysConsistent` | `Spec => []StorageConsistent` |
| | `RelayedChunksFit` | `Spec => []ChunksFit` |
| | `SessionsEndLoudly` | `Spec => SessionEndsLoudly` |
| | `ServerIsRendezvous` | `Spec => ImplementsRendezvous` |
| `TransferProofs` | `SendingInvariant` | `Spec => []Sending` |
| | `TransferImplementsServer` | `Spec => ImplementsServer` |
| | `ServerStaysSafe` | `Spec => []ServerSafe`: FileServer's `TypeOK` and `StorageConsistent` |
| | `TypeCorrect` | `Spec => []TypeOK` |
| | `OffersInvariant` | `Spec => []Offers` |
| | `SessionsAvoidClosing` | `Spec => []NoSessionOnClosing` |
| | `StartsInitialised` | `Spec => []SenderStartsInitialised` |
| `TransferRequestProofs` | `CodesInvariant` | `Spec => []Codes` |
| | `RequestsInvariant` | `Spec => []Requests` |
| `TransferStreamProofs` | `FinalsInvariant` | `Spec => []Finals` |
| | `StreamsInvariant` | `Spec => []Streams` |
| | `ChunksInOrder` | `Spec => []ReceivedInOrder` |
| | `SuccessIsComplete` | `Spec => []ReceiverOkIsComplete` |
| | `SuccessWasReceived` | `Spec => []SenderOkIsReceived` |
| | `NothingBehindSuccess` | `Spec => []SuccessIsLast` |
| | `ConsentedFileOnly` | `Spec => []ConsentedFile` |
| `ConnectionProofs` | `TypeCorrect` | `Spec => []TypeOK` |
| | `PendingIsCounted` | `Spec => []PendingCounts` |
| | `WriterIsSingle` | `Spec => []OneWriter` |
| | `QueueKeepsItsWriter` | `Spec => []QueueIsDriven` |
| | `FlushIsHonest` | `Spec => []FlushMeansWritten` |
| | `CloseCutsNothingOff` | `Spec => []NothingCutOff` |
| | `ConnectionIsChannel` | `Spec => ImplementsChannel` |
| `HandshakeProofs` | `TypeCorrect` | `Spec => []TypeOK` |
| | `StepsAgree` | `Spec => []InStep` |
| | `WritesStayApart` | `Spec => []WritesDoNotMix` |
| | `OnlyValidatedAreHeard` | `Spec => []OnlyValidated` |
| `InboxProofs` | `PreMetadataIsRead`, `PostMetadataIsRead`, `ChunkIsRead` | decode after encode, payload by payload |
| | `PayloadsRoundTrip` | `DecodeBody(id, EncodeBody(id, p)) = [payload \|-> p, left \|-> Whole(<<>>)]` |
| | `DecodeStaysInside` | `DecodeBody(id, EncodeBody(id, p)).left.inside`, whatever the lengths |
| | `RequestIsRead` | a receiver's PreMetadata is read and used up whatever its uninitialised sizes say |
| | `MessagesInPlace` | `Spec => []IInv` |
| | `TypeCorrect` | `Spec => []TypeOK` |
| | `TakenIsSaid` | `Spec => []TakenAsSent` |
| `DiscoveryProofs` | `SearchInvariant` | `Spec => []IInv` |
| | `TypeCorrect` | `Spec => []TypeOK` |
| | `RangeIsExact` | `Spec => []ScanIsExact` |
| | `ServerIsFound` | `Spec => []TargetIsServer` |

They hold for every set of clients, phrases, files and bodies, every number of
messages and of errors, and every value of the sizes and bounds. Assumptions:
those of the modules. `None` is no phrase, file, body or client (it stands for
a missing key); hash length, chunk size and bounds are natural numbers, a hash
is not empty, and a hash with a whole chunk is smaller than the word size, as
32 + 512 is smaller than 2^64. In `Transfer`, no client is both sender and
receiver, each sender has a file and each file a number of chunks. In `Inbox`,
connections say messages that a program can fill in (`ScriptAssumption`):
the byte stream of a well-behaved peer, which may end anywhere. In `Discovery`,
the sizes of subnets divide the number of addresses, `BitAnd` and `BitOr` do to
a netmask what `BitsAssumption` says, 0 and every server's port are ports, and an interface has an address and a
mask of ones before zeros, or none.

*The server.* The inductive invariant is `IInv == TypeOK /\ StorageConsistent`.
The parts of `StorageConsistent` need one another: the pair that FinishReceive
finds is known to have a session, that session a phrase, and the phrase a
context, only because every handler keeps all of them. `HandlerKeeps` puts the
handlers together, each a lemma of its own. `ChunksFit` is inductive on top of
it: only `OnSessionedMessage` appends a chunk, behind the size test, and
`DataSizeFits` is the arithmetic of its wrap-around (`SendFits`,
`HandlerFits`). `SessionsEndLoudly` follows step by step (`HandlerIsLoud`): of
the handlers only finishing and aborting remove a session.
`ServerIsRendezvous` maps each handler to an abstract action or to a stutter
(`HandlerImplements`); `Offer` needs that a client that sends Send has no
session, `Join` that the phrase was found and that the session is new.

*The transfer.* Every action of `Transfer` either contains one of the server's
actions or leaves the server alone; the one thing to show is that what the
server reads is a message that `FileServer` admits. `Sending` says so of
everything in `up`, and it needs to say besides that a receiver at the prompt
knows its phrase (Receive is built from it) and that a sender's position is a
number (the chunk it sends is one of the file). It is kept by every step, the
faults included: a damaged chunk is still a chunk, a truncated stream of
messages a stream of messages; what a closed socket leaves unread, or the one
message of it that was read, was among those messages (`UnreadKeeps`). With it
the server's theorems hold in a transfer: `ServerSafe` is `FileServer`'s own
invariant, taken over through an instance of `FileServerProofs`.

The properties of a transfer relate a sender to a receiver that share nothing
but a phrase, so their invariant has to follow a transfer from end to end. It is
built in layers, each a theorem that the next one uses before and after a step.

* `Kinds`: who says what to whom. Senders say Send and data, receivers the
  rest; senders are told Accept and Success, receivers Accept, Reject, Abort
  and data; offers and sessions belong to senders and lead to receivers.
  `TypeOK` follows here.
* `Offers`: the life of an offer. Before it the server has nothing of the
  sender. While Send is under way, in `up` or in `incoming`, it is all there is
  of its sender; while the offer waits, the sender says nothing and is told
  nothing; a sender with a session is not about to be closed
  (`NoSessionOnClosing`), and the first thing a sender at `await` hears is
  Accept, which is why `chunksize` is assigned (`SenderStartsInitialised`).
* `Codes`: messages carry the phrase their client was given; a context found under
  a phrase is that of the sender that printed it.
* `Requests`: the life of a request. Nothing of a stream reaches a receiver
  before it has said Receive, its Receive is heard once, and the prompt shows
  a file whose sender has the receiver's phrase.
* `Finals`: FinalChunk is said once, at the end of the file, as the last word.
* `Streams`: the chunks. `Mark(s)` numbers the data messages of sender `s`; a
  queue `Carries` a run of successive numbers from x + 1 to y. `Flow` says that
  the receiver's inbox carries on where its file ends, `Wire` that the server's
  queue carries on where the inbox ends, `Way` the same for the main thread's
  queue and the sender's stream. Each joint may be cut, by a closed socket or a
  lost session, and behind a cut nothing more is asked: what is there will
  not be delivered. `Fed` says that all that a receiver can get comes from one
  sender; `Complete` that a receiver has everything of a sender that has come to its
  end. `Done` and `Assured` carry `Complete` from the receiver's loop through
  FinishReceive to Success: so success means, at every place of the chain of
  messages, that the file is there, unless the disk has failed.

The delicate steps are the Receive that starts the stream (`Streams` needs that
nothing of the sender is under way yet and that no other session leads to this
receiver) and the chunk that the main thread passes on (its number is the next
one at the receiver's queue, whatever was said to the receiver beside it).
The run's properties are then read off: `ReceivedInOrder` from `Fed`,
`ReceiverOkIsComplete` from `Done`, `SenderOkIsReceived` and `SuccessIsLast` from
`Assured` (a `Complete` sender has nothing under way), `ConsentedFile` from
`Fed` and what `Requests` says of the prompt.

*The connection.* What `flush` may conclude from a counter and a queue depends
on where every message is, so the invariant places all of them. Message n is
the n-th sent: the first `Len(wire)` are on the wire, `outq` holds the next
ones in order (`OutqFollowsWire`), and the handlers posted carry on from there
to `next - 1` without a gap (`PostedFollowsOutq`); a posted
`disconnectAfterFlush` stands in that row behind the message `mark`. `Chain`
says so of a queue of handlers, and `ChainAppend` and `ChainTail` are all that
the steps need of it: posting adds a link at one end, running takes one off the
other. `ClosesAreAskedFor` explains each close, which is what `NothingCutOff`
needs. Then each step keeps the invariant, a lemma for each action, and every
property follows from it. Between the completion of a message's last write and
its handler the message is on the wire and in `outq` at once; `Handled` counts
the messages on the wire without that one. `StepIsChannelStep` is the
refinement: a test of the socket is the abstract send, the completion of a
message's last write the abstract write, a handler that closes the socket the
abstract close, and everything else leaves the row of unwritten messages as it
is. The close is allowed there because `ClosesAreAskedFor` and `OwnersKeepApart`
leave three reasons for it: a flushed queue behind `mark`, an error, or a client
that leaves.

*The handshake.* What an end reads was written by the other end some time
before, so the invariant looks at all that is under way in one direction, on
the wire and still in writes: `Plain`, messages only, or `Greeting`, one
handshake value in front of messages. Which of the two follows from what the
reader waits for (`ClientWaits`, `ServerWaits`, `ServerHasChecked`); the rest
of the invariant says when nothing can be under way at all (`Unmet`,
`NonceUnsent`) and that the client speaks messages only once its answer is
written (`ClientHasAnswered`, `ClientSpeaks`). The delicate step is the
client's answer: its handler may run long after the server has read it.

*The messages.* Reading takes off the end of a body exactly what was appended
last (`LastIsRead`); each payload is then read part by part from its back
(`PhraseIsRead`, `FileIsRead`). `PayloadsRoundTrip` asks that lengths fit their
byte and a sender's name size is the length of the name. `PreMetadataIsRead` asks
nothing of the numbers of a receiver, which are uninitialised: type and phrase
come back all the same. With lengths that do not fit, the numbers read back are
smaller than what is there (`n % b <= n`), which is why a decode leaves bytes
behind but never leaves the body (`DecodeStaysInside`).

*The inbox.* The property is about what was taken, the invariant about where
everything else is. Of connection `c` the first `Len(taken[c])` messages were taken;
the next ones, up to some `a`, are in the shared queue, at places given by
an increasing function (`InQueue`); message `a + 1` may be in pieces,
read as far as `Reads` says; the others lie on the stream, each at its offset
(`Carried`), and behind the last whole one there may be a piece of one more
that the peer did not finish (`Ends`). Each step moves one message from one place
to the next, or only shifts an offset. The case to look at is the end of a
broken stream: a read completes only when as many cells are there as it has asked
for, and fewer than that are left of an unfinished message, so that a piece
is never taken for a message. What is taken is `Decoded` from the
very body that was encoded, and the codec's theorems say what comes of it.

*The search.* `getSubnetRange` computes with masks; `BlockIs`, `RangeHolds` and
their lemmas turn it into block arithmetic: the network is `ip - ip % b`, the
broadcast address `b - 1` further on, nothing wraps while there are hosts, and
what counting finds usable is the interval in between. A subnet of one or two
addresses has none, and the range is then the network's address alone. The
loop's invariant (`Progress`) is that all of the range below `addr_int` but the
client has been probed. `Honest` says that probes and answers come only from
probed servers, whatever UDP doubles or delays, and that an answer that begins
with the phrase names its server's port unless that server is in `garbled`; the
target follows.

Only model-checked: liveness (`StartedTransferCompletes`,
`LinkedReceiverCompletes`, `RequestIsAnswered`, `FlushReturns`, `CloseHappens`,
`SaidIsTaken`, `PollEnds`, `ConnectionComesUp`, `MessagesArrive`,
`SearchEnds`), because fairness and ENABLED are beyond the prover; and the
disagreements of section 6, which are counterexamples.

## 5. Not modelled

* `onClientDisconnect`, `messageClient`, `messageAllClients`: no caller.
* `ServerSaveFileSession`: deprecated, empty.
* The list of connections of `ServerBase` and its counter of ids: nothing
  reads them. `Handshake` follows one connection.
* `discoverServerByBroadcast` and `getLocalSubnet`: no caller. A
  `DiscoveryServer` that cannot open or bind its socket reports it and never
  listens: to `Discovery`, an address that is not in `Server`.
* `back`, `pop_back`, `push_front`, `size` and `clear` of `TSQueue`: no caller
  but the destructor.
* The dead branch of `onSendEstablishment` (a session exists) is modelled,
  although `onMessage` never reaches it.
* Memory effects of the unsynchronised `is_open()` beyond reading the old or
  the new value.
* Command line, logger, SHA-256, the wording of phrases.

## 6. Where the code and its words disagree

| run | what is said | what happens |
|---|---|---|
| `bad_chunk_aborts_both` | `server.cpp:302`: a bad chunk gives "Abort -> Sender, Abort -> Receiver" | only the sink is told; the sender's connection is closed without a message |
| `received_whole` | `receiver.cpp:127` "File have been successfully received" | a failed write (or read) ends in success on both sides |
| `second_receiver` | `server.cpp:253` "Server starts to send files from ... to ..." | a second receiver for a running transfer gets nothing and is never told |
| `wait_for_connection_ends` | `sender.cpp:21` "Failed to connect to the server" | `connect()` returns true at once, the handler of `async_connect` ignores an error, and the client polls for ever |
| `flush_always_returns` | `receiver.cpp:122` "wait till all outgoing messaged are sent" | after a failed write `flush()` never returns |

Four more have no run of their own; a module's comment or property has the case.

* `server.cpp:295` says of FinalChunk "Success -> Sender , FinalChunk ->
  Receiver". The code only passes FinalChunk on (`OnSessionedMessage`); Success
  goes to the sender when the receiver reports with FinishReceive
  (`server.cpp:264`, `FinishSession`). `SenderOkIsReceived` holds because the code
  does not do what that comment says: a Success on FinalChunk would come before
  the receiver has read anything.
* `unix_ip_utils.cpp:156-176` and the loop of `discovery_client.cpp:83` do not
  agree on 255.255.255.255 in a subnet of its own: the last host is the largest
  `uint32_t`, `addr_int <= last_host_int` is always true, and the loop begins
  again at 0.0.0.0 and sends to every address there is. `SearchEnds` leaves out
  this one subnet (`OnlyTheLast`); the run has it.
* `discovery_client.cpp:114-120` trusts a datagram whose beginning is right.
  `discovery_server.cpp:84` hands `async_send_to` a buffer that is freed when
  `handleRequest` returns, so the port behind it may be another, 0 when the slash
  is gone, or no number, and `std::stoi` then throws through `autoConnect`.
  `TargetIsServer` allows each of these only with such an answer.
* `server.cpp:227` looks a phrase up again for Receive. When another sender has
  offered a file under the same phrase since the prompt, the receiver gets a file
  it was not asked about; `ConsentedFile` speaks of phrases that one sender alone
  has drawn.

## 7. Plan

In this order, the most important behaviour first:

1. *done* `PPCommon`, `Rendezvous`, `FileServer` with its runs and proofs.
2. *done* `Transfer`: real clients, faults, liveness, refinement of
   `FileServer`.
3. *done* `Channel`, `Connection`: two threads, refinement of `Channel`.
4. *done* `Handshake`: accept, connect and validation, up to the point where
   `Connect` and `Start` begin.
5. *done* `Discovery`: probes and answers over UDP, timeout, fallback; the
   range and the scan against a reference definition.
6. *done* `TransferProofs`: `ImplementsServer`.
7. *done* `MessageCodec`, `Inbox`: payloads as written and read back, the reading
   side, `TSQueue`.
8. *done* `ConnectionProofs`, `HandshakeProofs`, the codec's proofs.
9. *done* Proofs of `Transfer`: `TransferProofs`, `TransferRequestProofs`,
   `TransferStreamProofs`.
10. *done* Proofs of `Inbox` and of `Discovery`: `InboxProofs`, `DiscoveryProofs`.

Left: that `Connection` and `Handshake` together implement what `Inbox` takes for
its peer and `Transfer` for its links is argued by the module boundaries (section
2) and not stated as a refinement.
