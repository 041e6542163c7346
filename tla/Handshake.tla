----------------------------- MODULE Handshake ------------------------------
(***************************************************************************)
(* How a connection comes into being: the client connects, the server      *)
(* accepts and writes a nonce, the client writes back what obfuscate makes *)
(* of it, and each end starts to read messages when it takes the other for *)
(* validated.  From there on FileServer's Connect and Transfer's Start     *)
(* have happened.                                                          *)
(*                                                                         *)
(* Bytes are kept as far as somebody reads them in one piece: a handshake  *)
(* value of eight bytes, or a message.  An asynchronous write is started,  *)
(* then taken by the network, then completed by its handler, and the peer  *)
(* may have read and answered before the handler runs.                     *)
(***************************************************************************)
EXTENDS Integers, Sequences

CONSTANTS
    MaxMessages,    \* bound: messages of each end
    MaxErrors       \* bound: failures of the network

ASSUME BoundAssumption == MaxMessages \in Nat /\ MaxErrors \in Nat

End == {"client", "server"}
Peer(e) == IF e = "client" THEN "server" ELSE "client"

VARIABLES
    main,       \* the client's main thread: in waitForConnection or past it
    dialled,    \* async_connect: "pending", "done" or "failed"
    sock,       \* the sockets: "none", "open" or "closed"
    reading,    \* the asynchronous read under way at each end
    writes,     \* writes started and not yet taken by the network
    done,       \* writes whose completion has not been handled
    stream,     \* what is on its way to each end
    valid,      \* m_validated
    incoming,   \* messages each end has received
    sent,       \* messages each end has sent
    errors

vars == <<main, dialled, sock, reading, writes, done, stream, valid, incoming, sent, errors>>

-----------------------------------------------------------------------------
(* What obfuscate may make of a handshake value.  It is the same function   *)
(* on both sides, so that the nonce has one answer; its masks drop some of  *)
(* the bits, so that other values may have this answer too.                 *)
Obfuscate(in) == IF in = "nonce" THEN {"answer"} ELSE {"answer", "noise"}

StartWrite(e, item) == writes' = [writes EXCEPT ![e] = Append(@, item)]

CloseSocket(e) ==
    /\ sock' = [sock EXCEPT ![e] = "closed"]
    /\ reading' = [reading EXCEPT ![e] = "nothing"]

-----------------------------------------------------------------------------
(* The connection is made; the client waits for the server's nonce. *)
ConnectDone ==
    /\ dialled = "pending"
    /\ dialled' = "done"
    /\ reading' = [reading EXCEPT !["client"] = "validation"]
    /\ UNCHANGED <<main, sock, writes, done, stream, valid, incoming, sent, errors>>

(* Nobody listens: the handler of async_connect looks away. *)
ConnectError ==
    /\ dialled = "pending"
    /\ errors < MaxErrors
    /\ errors' = errors + 1
    /\ dialled' = "failed"
    /\ UNCHANGED <<main, sock, reading, writes, done, stream, valid, incoming, sent>>

(* A mutant: the connection starts to read messages at once. *)
Accept_ReadsMessages ==
    /\ dialled = "done" /\ sock["server"] = "none"
    /\ sock' = [sock EXCEPT !["server"] = "open"]
    /\ StartWrite("server", "nonce")
    /\ reading' = [reading EXCEPT !["server"] = "message"]
    /\ UNCHANGED <<main, dialled, done, stream, valid, incoming, sent, errors>>

(* The acceptor has a socket: connectToClient writes and reads at once. *)
Accept ==
    /\ dialled = "done" /\ sock["server"] = "none"
    /\ sock' = [sock EXCEPT !["server"] = "open"]
    /\ StartWrite("server", "nonce")
    /\ reading' = [reading EXCEPT !["server"] = "validation"]
    /\ UNCHANGED <<main, dialled, done, stream, valid, incoming, sent, errors>>

-----------------------------------------------------------------------------
(* Writing. *)

Without(q, i) == SubSeq(q, 1, i - 1) \o SubSeq(q, i + 1, Len(q))

(* The network takes one of the writes under way. *)
Transmit(e) ==
    /\ sock[e] = "open"
    /\ \E i \in 1 .. Len(writes[e]) :
          /\ writes' = [writes EXCEPT ![e] = Without(@, i)]
          /\ done' = [done EXCEPT ![e] = Append(@, writes[e][i])]
          /\ stream' = [stream EXCEPT ![Peer(e)] = Append(@, writes[e][i])]
    /\ UNCHANGED <<main, dialled, sock, reading, valid, incoming, sent, errors>>

(* A mutant: the ends are taken for one another. *)
Answered_Server(e, item) == e = "server" /\ item # "message"

(* The client has answered: it counts itself validated and reads on. *)
Answered(e, item) == e = "client" /\ item # "message"

(* readHeader: a read on a socket that has been closed comes to nothing. *)
ReadMessages(e) ==
    reading' = IF sock[e] = "open" THEN [reading EXCEPT ![e] = "message"] ELSE reading

(* A mutant: the client does not start to read. *)
WriteCompleted_Deaf(e) ==
    /\ done[e] # <<>>
    /\ done' = [done EXCEPT ![e] = Tail(@)]
    /\ valid' = IF Answered(e, Head(done[e])) THEN [valid EXCEPT ![e] = TRUE] ELSE valid
    /\ UNCHANGED <<main, dialled, sock, reading, writes, stream, incoming, sent, errors>>

WriteCompleted(e) ==
    /\ done[e] # <<>>
    /\ done' = [done EXCEPT ![e] = Tail(@)]
    /\ IF Answered(e, Head(done[e]))
       THEN ReadMessages(e) /\ valid' = [valid EXCEPT ![e] = TRUE]
       ELSE UNCHANGED <<valid, reading>>
    /\ UNCHANGED <<main, dialled, sock, writes, stream, incoming, sent, errors>>

-----------------------------------------------------------------------------
(* Reading. *)

(* A mutant: the connection stays when the answer is wrong. *)
CheckAnswer_Lenient(in) ==
    /\ valid' = IF in = "answer" THEN [valid EXCEPT !["server"] = TRUE] ELSE valid
    /\ ReadMessages("server")
    /\ UNCHANGED <<sock, writes, incoming>>

(* The server compares the answer with the one it expects. *)
CheckAnswer(in) ==
    /\ IF in = "answer"
       THEN /\ valid' = [valid EXCEPT !["server"] = TRUE]
            /\ ReadMessages("server")
            /\ UNCHANGED sock
       ELSE CloseSocket("server") /\ UNCHANGED valid
    /\ UNCHANGED <<writes, incoming>>

(* A mutant: the client is validated when it starts to write. *)
GiveAnswer_ValidAtOnce(in) ==
    /\ \E out \in Obfuscate(in) : StartWrite("client", out)
    /\ reading' = [reading EXCEPT !["client"] = "nothing"]
    /\ valid' = [valid EXCEPT !["client"] = TRUE]
    /\ UNCHANGED <<sock, incoming>>

GiveAnswer(in) ==
    /\ \E out \in Obfuscate(in) : StartWrite("client", out)
    /\ reading' = [reading EXCEPT !["client"] = "nothing"]
    /\ UNCHANGED <<sock, valid, incoming>>

TakeMessage(e, in) ==
    /\ incoming' = [incoming EXCEPT ![e] = Append(@, in)]
    /\ UNCHANGED <<sock, reading, writes, valid>>

ReadCompleted(e) ==
    /\ sock[e] = "open" /\ reading[e] # "nothing" /\ stream[e] # <<>>
    /\ stream' = [stream EXCEPT ![e] = Tail(@)]
    /\ LET in == Head(stream[e])
       IN  IF reading[e] = "message" THEN TakeMessage(e, in)
           ELSE IF e = "server" THEN CheckAnswer(in) ELSE GiveAnswer(in)
    /\ UNCHANGED <<main, dialled, done, sent, errors>>

(* An operation under way that an error can end. *)
Busy(e) == sock[e] = "open" /\ (reading[e] # "nothing" \/ writes[e] # <<>>)

(* The peer has closed: a read finds the end of the stream once it has     *)
(* taken what there was, a write fails.                                    *)
EndOfStream(e) ==
    /\ Busy(e) /\ sock[Peer(e)] = "closed"
    /\ stream[e] = <<>> \/ writes[e] # <<>>
    /\ CloseSocket(e)
    /\ UNCHANGED <<main, dialled, writes, done, stream, valid, incoming, sent, errors>>

(* The network fails under a read or a write. *)
Break(e) ==
    /\ Busy(e)
    /\ errors < MaxErrors
    /\ errors' = errors + 1
    /\ CloseSocket(e)
    /\ UNCHANGED <<main, dialled, writes, done, stream, valid, incoming, sent>>

(* A handshake value is damaged on its way. *)
Garble(e) ==
    /\ errors < MaxErrors
    /\ stream[e] # <<>> /\ Head(stream[e]) # "message"
    /\ errors' = errors + 1
    /\ stream' = [stream EXCEPT ![e][1] = "noise"]
    /\ UNCHANGED <<main, dialled, sock, reading, writes, done, valid, incoming, sent>>

-----------------------------------------------------------------------------
(* waitForConnection: c.isConnected() && c.isValidated(). *)
Pass ==
    /\ main = "polling"
    /\ sock["client"] = "open" /\ valid["client"]
    /\ main' = "running"
    /\ UNCHANGED <<dialled, sock, reading, writes, done, stream, valid, incoming, sent, errors>>

(* Connection::send starts a write when no other message is being written: *)
(* the client sends as it likes, the server to a client it has heard of.   *)
SendMessage(e) ==
    /\ sock[e] = "open" /\ valid[e]
    /\ IF e = "client" THEN main = "running" ELSE incoming[e] # <<>>
    /\ sent[e] < MaxMessages
    /\ \A i \in 1 .. Len(writes[e]) : writes[e][i] # "message"
    /\ StartWrite(e, "message")
    /\ sent' = [sent EXCEPT ![e] = @ + 1]
    /\ UNCHANGED <<main, dialled, sock, reading, done, stream, valid, incoming, errors>>

-----------------------------------------------------------------------------
Init ==
    /\ main = "polling" /\ dialled = "pending"
    /\ sock = [e \in End |-> IF e = "client" THEN "open" ELSE "none"]
    /\ reading = [e \in End |-> "nothing"]
    /\ writes = [e \in End |-> <<>>]
    /\ done = [e \in End |-> <<>>]
    /\ stream = [e \in End |-> <<>>]
    /\ valid = [e \in End |-> FALSE]
    /\ incoming = [e \in End |-> <<>>]
    /\ sent = [e \in End |-> 0]
    /\ errors = 0

Progress ==
    \/ ConnectDone \/ Accept \/ Pass
    \/ \E e \in End : Transmit(e) \/ WriteCompleted(e) \/ ReadCompleted(e) \/ EndOfStream(e)

Next ==
    \/ Progress
    \/ \E e \in End : SendMessage(e) \/ Break(e) \/ Garble(e)
    \/ ConnectError

Spec == Init /\ [][Next]_vars

(* The io threads and the network go on, and the client polls. *)
FairSpec == Spec /\ WF_vars(Progress)

-----------------------------------------------------------------------------
Item == {"nonce", "answer", "noise", "message"}

TypeOK ==
    /\ main \in {"polling", "running"}
    /\ dialled \in {"pending", "done", "failed"}
    /\ sock \in [End -> {"none", "open", "closed"}]
    /\ reading \in [End -> {"nothing", "validation", "message"}]
    /\ {writes, done, stream} \subseteq [End -> Seq(Item)]
    /\ valid \in [End -> BOOLEAN]
    /\ incoming \in [End -> Seq({"message"})]
    /\ sent \in [End -> 0 .. MaxMessages]
    /\ errors \in 0 .. MaxErrors

(* The two ends stay in step on the stream: a read of eight bytes meets a  *)
(* handshake value and a read of a message a message, although the client  *)
(* goes on to messages before the server has looked at its answer.         *)
InStep ==
    \A e \in End : reading[e] # "nothing" /\ stream[e] # <<>> =>
        (reading[e] = "message" <=> Head(stream[e]) = "message")

(* The handshake writes to the socket behind the back of m_messages_out:   *)
(* never while a message is being written.                                 *)
WritesDoNotMix == \A e \in End : Len(writes[e]) <= 1

(* Nothing is taken from a client whose answer the server has not found    *)
(* right, although the client sends as soon as it has answered.            *)
OnlyValidated == incoming["server"] # <<>> => valid["server"] /\ valid["client"]

(* Without errors the client gets past waitForConnection, and what either  *)
(* end sends is received.                                                  *)
ConnectionComesUp == main = "polling" ~> (main = "running" \/ errors > 0)

MessagesArrive ==
    \A e \in End : \A n \in 1 .. MaxMessages :
        sent[e] = n ~> (Len(incoming[Peer(e)]) >= n \/ errors > 0)

(* "Failed to connect to the server": waitForConnection is over some time. *)
WaitForConnectionEnds == main = "polling" ~> main # "polling"

=============================================================================
