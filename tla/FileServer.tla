----------------------------- MODULE FileServer -----------------------------
(***************************************************************************)
(* The server of filetransmission/ppserver: FileServer, its ClientStorage  *)
(* and the ServerOneToOneRetranslatorSession that relays chunks, in an     *)
(* open environment.  Any connected client may send any well formed        *)
(* message at any moment and any connection may be lost at any moment;     *)
(* nothing is assumed of the order in which a peer speaks.                 *)
(*                                                                         *)
(* Two threads touch this state.  The asio thread appends what it reads to *)
(* the one incoming queue, writes what the connections have queued and     *)
(* closes sockets; the main thread takes messages off the queue and runs   *)
(* one handler to completion for each.  ClientStorage belongs to the main  *)
(* thread alone, and a handler looks once at each socket it writes to, so  *)
(* a handler is one step.                                                  *)
(***************************************************************************)
EXTENDS PPCommon, Integers, Sequences

CONSTANTS
    Client,         \* connections, in the order of nothing in particular
    BodySize,       \* bytes of a chunk's body, hash included
    HashLength,     \* SHA256_DIGEST_LENGTH
    MaxChunkSize,   \* m_max_chunk_size
    SizeModulus,    \* 2^64: size_t wraps here
    MaxIncoming,    \* bound: messages waiting in m_messages_in
    MaxOut          \* bound: messages waiting to be written to one client

ASSUME ClientAssumption == None \notin Client

ASSUME SizeAssumption ==
    /\ HashLength \in Nat \ {0}
    /\ MaxChunkSize \in Nat
    /\ SizeModulus \in Nat
    /\ HashLength + MaxChunkSize < SizeModulus
    /\ BodySize \in [Body -> 0 .. (SizeModulus - 1)]

ASSUME BoundAssumption == MaxIncoming \in Nat /\ MaxOut \in Nat

VARIABLES
    conn,       \* the socket of each client, as the server sees it
    closing,    \* the connections asked to close once they are flushed
    incoming,   \* m_messages_in: one queue for the messages of all clients
    out,        \* what send() has accepted and the socket has not yet taken
    phrase,     \* m_pending_phrase_senders: sender <-> phrase
    context,    \* m_pending_transmissions: sender -> its file's metadata
    receiverOf, \* m_senders_receivers: sender <-> receiver
    sink        \* m_sessions: sender -> the session's m_sink

storage == <<phrase, context, receiverOf, sink>>
vars == <<conn, closing, incoming, out, storage>>

-----------------------------------------------------------------------------
(* The containers of ClientStorage: None is the value of a missing key.    *)

Erase(f, k) == [f EXCEPT ![k] = None]

(* A mutant: operator[] and assignment instead of insert. *)
MapInsert_Overwrites(f, k, v) == [f EXCEPT ![k] = v]

(* std::unordered_map::insert leaves an existing entry as it is. *)
MapInsert(f, k, v) == IF f[k] = None THEN [f EXCEPT ![k] = v] ELSE f

(* boost::bimap::insert also refuses a value that another key maps to. *)
BimapInsert(f, k, v) ==
    IF \A j \in Client : f[j] # v THEN MapInsert(f, k, v) ELSE f

KeyOf(f, v) == IF \E k \in Client : f[k] = v
               THEN CHOOSE k \in Client : f[k] = v
               ELSE None

GetSenderByCode(code) == KeyOf(phrase, code)
GetSenderByReceiver(receiver) == KeyOf(receiverOf, receiver)

-----------------------------------------------------------------------------
(* Connection::send, seen from the main thread: refused when the socket is *)
(* closed, otherwise queued behind what was sent before.                   *)

IsConnected(c) == conn[c] = "open"

SendTo(c, m) == IF IsConnected(c) THEN [out EXCEPT ![c] = Append(@, m)] ELSE out

(* A mutant: the phrase is not erased. *)
RemovePendingSender_KeepsPhrase(s) ==
    /\ context' = Erase(context, s)
    /\ UNCHANGED phrase

RemovePendingSender(s) ==
    /\ phrase' = Erase(phrase, s)
    /\ context' = Erase(context, s)

(* A mutant: the session is not erased. *)
RemoveSession_KeepsSession(s) ==
    /\ receiverOf' = Erase(receiverOf, s)
    /\ closing' = IF IsConnected(s) THEN closing \cup {s} ELSE closing
    /\ UNCHANGED sink

(* removeSession, with the disconnectAfterFlush() that closes the sender's *)
(* connection whether or not it had a session.                             *)
RemoveSession(s) ==
    /\ sink' = Erase(sink, s)
    /\ receiverOf' = Erase(receiverOf, s)
    /\ closing' = IF IsConnected(s) THEN closing \cup {s} ELSE closing

AddSession(s, r) ==
    /\ receiverOf' = BimapInsert(receiverOf, s, r)
    /\ sink' = MapInsert(sink, s, r)

(* A mutant: the session is erased before it is told to abort. *)
RemoveSessionAbruptly_TooLate(s) ==
    /\ RemovePendingSender(s)
    /\ RemoveSession(s)
    /\ UNCHANGED out

RemoveSessionAbruptly(s) ==
    /\ out' = IF sink[s] # None THEN SendTo(sink[s], Signal("Abort")) ELSE out
    /\ RemovePendingSender(s)
    /\ RemoveSession(s)

-----------------------------------------------------------------------------
(* The handlers, one per message type that the server answers.             *)

(* A mutant: the offer is acknowledged with Success. *)
OnSendEstablishment_Acknowledges(c, m) ==
    /\ phrase' = BimapInsert(Erase(phrase, c), c, m.code)
    /\ context' = MapInsert(Erase(context, c), c, m.file)
    /\ out' = SendTo(c, Signal("Success"))
    /\ UNCHANGED <<sink, receiverOf, closing>>

OnSendEstablishment(c, m) ==
    /\ phrase' = BimapInsert(Erase(phrase, c), c, m.code)
    /\ context' = MapInsert(Erase(context, c), c, m.file)
    /\ IF sink[c] # None
       THEN out' = SendTo(c, Signal("Reject")) /\ RemoveSession(c)
       ELSE UNCHANGED <<out, sink, receiverOf, closing>>

(* Mutants: the phrase is sent for the file; an unknown phrase is ignored; *)
(* some offer is answered with, not the one the phrase leads to.           *)
OnReceiveEstablishment_SendsPhrase(c, m) ==
    LET s == GetSenderByCode(m.code)
    IN  /\ out' = SendTo(c, IF s # None THEN Accept(phrase[s]) ELSE Signal("Reject"))
        /\ UNCHANGED <<closing, storage>>

OnReceiveEstablishment_Silent(c, m) ==
    LET s == GetSenderByCode(m.code)
    IN  /\ out' = IF s # None THEN SendTo(c, Accept(context[s])) ELSE out
        /\ UNCHANGED <<closing, storage>>

OnReceiveEstablishment_Some(c, m) ==
    /\ out' = SendTo(c, IF \E s \in Client : context[s] # None
                        THEN Accept(context[CHOOSE s \in Client : context[s] # None])
                        ELSE Signal("Reject"))
    /\ UNCHANGED <<closing, storage>>

OnReceiveEstablishment(c, m) ==
    LET s == GetSenderByCode(m.code)
        known == s # None /\ context[s] # None
    IN  /\ out' = SendTo(c, IF known THEN Accept(context[s]) ELSE Signal("Reject"))
        /\ UNCHANGED <<closing, storage>>

EstablishTransmissionSession(r, m) ==
    LET s == GetSenderByCode(m.code)
    IN  IF s = None
        THEN /\ out' = SendTo(r, Signal("Abort"))
             /\ UNCHANGED <<closing, storage>>
        ELSE IF context[s] = None
        THEN RemoveSessionAbruptly(s)
        ELSE /\ AddSession(s, r)
             /\ out' = SendTo(s, Accept(context[s]))
             /\ UNCHANGED <<closing, phrase, context>>

(* A mutant: the sender is disconnected without Success. *)
FinishSession_Silent(r) ==
    LET s == GetSenderByReceiver(r)
    IN  IF s = None
        THEN UNCHANGED <<closing, out, storage>>
        ELSE RemovePendingSender(s) /\ RemoveSession(s) /\ UNCHANGED out

FinishSession(r) ==
    LET s == GetSenderByReceiver(r)
    IN  IF s = None
        THEN UNCHANGED <<closing, out, storage>>
        ELSE /\ out' = SendTo(s, Signal("Success"))
             /\ RemovePendingSender(s)
             /\ RemoveSession(s)

(* A mutant: FailedReceive is handled like FinishReceive. *)
FailSession_Finishes(r) == FinishSession(r)

FailSession(r) ==
    LET s == GetSenderByReceiver(r)
    IN  IF s = None
        THEN UNCHANGED <<closing, out, storage>>
        ELSE RemoveSessionAbruptly(s)

(* A mutant: the subtraction is signed. *)
DataSize_Signed(body) == BodySize[body] - HashLength

(* msg.size() - offset in size_t: a body shorter than a hash wraps around. *)
DataSize(body) == LET n == BodySize[body] - HashLength
                  IN  IF n < 0 THEN n + SizeModulus ELSE n

(* Mutants: FinalChunk is confirmed to the sender at once; FinalChunk ends *)
(* with the server.                                                        *)
OnSessionedMessage_Confirms(s, m) ==
    IF m.id = "FinalChunk"
    THEN /\ out' = [SendTo(sink[s], m) EXCEPT ![s] = Append(@, Signal("Success"))]
         /\ UNCHANGED <<closing, storage>>
    ELSE out' = SendTo(sink[s], m) /\ UNCHANGED <<closing, storage>>

OnSessionedMessage_KeepsFinal(s, m) ==
    /\ out' = IF m.id = "FinalChunk" THEN out ELSE SendTo(sink[s], m)
    /\ UNCHANGED <<closing, storage>>

(* A client that has a session: FinalChunk is relayed and what became of   *)
(* it ignored, Chunk is relayed when it fits and the receiver is there,    *)
(* anything else ends the session.                                         *)
OnSessionedMessage(s, m) ==
    IF \/ m.id = "FinalChunk"
       \/ /\ m.id = "Chunk"
          /\ DataSize(m.body) <= MaxChunkSize
          /\ IsConnected(sink[s])
    THEN /\ out' = SendTo(sink[s], m)
         /\ UNCHANGED <<closing, storage>>
    ELSE RemoveSessionAbruptly(s)

(* FileServer::onMessage. *)
OnMessage(c, m) ==
    IF sink[c] # None THEN OnSessionedMessage(c, m)
    ELSE CASE m.id = "Send"           -> OnSendEstablishment(c, m)
           [] m.id = "RequestReceive" -> OnReceiveEstablishment(c, m)
           [] m.id = "Receive"        -> EstablishTransmissionSession(c, m)
           [] m.id = "FinishReceive"  -> FinishSession(c)
           [] m.id = "FailedReceive"  -> FailSession(c)
           [] OTHER                   -> UNCHANGED <<closing, out, storage>>

(* ServerBase::update: one message, whatever its connection has become. *)
Update ==
    /\ incoming # <<>>
    /\ incoming' = Tail(incoming)
    /\ OnMessage(Head(incoming).remote, Head(incoming).msg)
    /\ UNCHANGED conn

-----------------------------------------------------------------------------
(* The asio thread and the network.                                        *)

(* A connection is accepted and has passed validation. *)
Connect(c) ==
    /\ conn[c] = "absent"
    /\ conn' = [conn EXCEPT ![c] = "open"]
    /\ UNCHANGED <<closing, incoming, out, storage>>

(* The bounds: nothing arrives while m_messages_in is at MaxIncoming or a   *)
(* client has MaxOut messages unwritten.                                   *)
Room == /\ Len(incoming) < MaxIncoming
        /\ \A c \in Client : Len(out[c]) < MaxOut

(* addToIncomingMessageQueue: a complete message of c has been read.  The  *)
(* handler of a read that has completed runs even if the socket has been   *)
(* closed in the meantime (module Inbox).                                  *)
Arrive(c, m) ==
    /\ conn[c] # "absent"
    /\ Room
    /\ incoming' = Append(incoming, [remote |-> c, msg |-> m])
    /\ UNCHANGED <<conn, closing, out, storage>>

(* The write of the oldest message has completed. *)
WriteDone(c) ==
    /\ IsConnected(c)
    /\ out[c] # <<>>
    /\ out' = [out EXCEPT ![c] = Tail(@)]
    /\ UNCHANGED <<conn, closing, incoming, storage>>

Close(c) ==
    /\ conn' = [conn EXCEPT ![c] = "closed"]
    /\ closing' = closing \ {c}
    /\ out' = [out EXCEPT ![c] = <<>>]
    /\ UNCHANGED <<incoming, storage>>

(* disconnectAfterFlush takes effect: nothing is left to write. *)
CloseFlushed(c) == c \in closing /\ out[c] = <<>> /\ Close(c)

(* The peer goes away, or a read or a write fails.  The server forgets     *)
(* nothing: onClientDisconnect is not called on this path.                 *)
ConnectionLost(c) == IsConnected(c) /\ Close(c)

-----------------------------------------------------------------------------
Init ==
    /\ conn = [c \in Client |-> "absent"]
    /\ closing = {}
    /\ incoming = <<>>
    /\ out = [c \in Client |-> <<>>]
    /\ phrase = [c \in Client |-> None]
    /\ context = [c \in Client |-> None]
    /\ receiverOf = [c \in Client |-> None]
    /\ sink = [c \in Client |-> None]

Next ==
    \/ Update
    \/ \E c \in Client :
        \/ Connect(c)
        \/ \E m \in ClientMessage : Arrive(c, m)
        \/ WriteDone(c)
        \/ CloseFlushed(c)
        \/ ConnectionLost(c)

Spec == Init /\ [][Next]_vars

-----------------------------------------------------------------------------
(* Types: every table holds values of its own kind. *)
TypeOK ==
    /\ conn \in [Client -> {"absent", "open", "closed"}]
    /\ closing \subseteq Client
    /\ incoming \in Seq([remote : Client, msg : ClientMessage])
    /\ out \in [Client -> Seq(Message)]
    /\ phrase \in [Client -> Phrase \cup {None}]
    /\ context \in [Client -> File \cup {None}]
    /\ receiverOf \in [Client -> Client \cup {None}]
    /\ sink \in [Client -> Client \cup {None}]

(* A phrase leads to one sender. *)
PhrasesDistinct ==
    \A s, t \in Client : phrase[s] # None /\ phrase[s] = phrase[t] => s = t

(* A receiver is paired with one sender. *)
ReceiversDistinct ==
    \A s, t \in Client : receiverOf[s] # None /\ receiverOf[s] = receiverOf[t] => s = t

(* A phrase that can be found has a file behind it: getContextBySender     *)
(* never comes back empty after getSenderByCode succeeded.                 *)
PhraseHasContext == \A s \in Client : phrase[s] # None => context[s] # None

(* A pair belongs to a session: finishSession and FailedReceive, which     *)
(* find the sender through the pair, always have a session to end.         *)
PairHasSession == \A s \in Client : receiverOf[s] # None => sink[s] # None

(* A session keeps its sender's phrase: the sender cannot replace it.      *)
SessionHasOffer == \A s \in Client : sink[s] # None => phrase[s] # None

(* The four tables of ClientStorage, written by six handlers in pieces     *)
(* that may fail (an insert that refuses), never contradict each other.    *)
StorageConsistent ==
    /\ PhrasesDistinct
    /\ ReceiversDistinct
    /\ PhraseHasContext
    /\ PairHasSession
    /\ SessionHasOffer

(* A chunk that the server passes on holds a whole hash and no more data   *)
(* than m_max_chunk_size, although the test of onSessionedMessage is one   *)
(* unsigned subtraction.                                                   *)
ChunksFit ==
    \A c \in Client : \A i \in 1 .. Len(out[c]) :
        out[c][i].id = "Chunk" =>
            BodySize[out[c][i].body] \in HashLength .. (HashLength + MaxChunkSize)

(* A session never just disappears.  Its sender's connection is closed     *)
(* after a flush, and, as far as they are still connected, either the      *)
(* sender was told Success because the receiver it is paired with reported *)
(* FinishReceive, or the sink was told Abort.                              *)
Told(c, id) == IsConnected(c) => out'[c] = Append(out[c], Signal(id))

SessionEnds(s) ==
    /\ IsConnected(s) => s \in closing'
    /\ \/ /\ Head(incoming) = [remote |-> receiverOf[s], msg |-> Signal("FinishReceive")]
          /\ Told(s, "Success")
       \/ Told(sink[s], "Abort")

SessionEndsLoudly ==
    [][\A s \in Client : sink[s] # None /\ sink'[s] = None => SessionEnds(s)]_vars

(* What the comments of onSessionedMessage say of a bad chunk: "bad : Abort *)
(* -> Sender, Abort -> Receiver".                                          *)
BadChunkAbortsBoth ==
    [][\A s \in Client :
        /\ sink[s] # None /\ sink'[s] = None
        /\ Head(incoming).remote = s /\ Head(incoming).msg.id = "Chunk"
        => Told(s, "Abort") /\ Told(sink[s], "Abort")]_vars

(* What the server is for: Rendezvous, read off its tables. *)
Rdv == INSTANCE Rendezvous WITH offer <- phrase, link <- sink

ImplementsRendezvous == Rdv!Spec

=============================================================================
