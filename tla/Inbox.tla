-------------------------------- MODULE Inbox -------------------------------
(***************************************************************************)
(* The reading side of Net::Connection, the queue it fills and the thread  *)
(* that empties it.  The io thread reads a header, then a body, and pushes *)
(* the message to a TSQueue; the main thread sleeps on the queue's         *)
(* condition variable and decodes what it takes.  A server's connections   *)
(* share one queue, a client's connection has one to itself.               *)
(*                                                                         *)
(* The main thread takes messages in one of two ways.  "wait": update(true) *)
(* and the client's establishSession and mainLoop, which sleep until there  *)
(* is a message.  "poll": waitForConfirmation, which sleeps for a period    *)
(* at a time and looks at the connection in between.                        *)
(***************************************************************************)
EXTENDS MessageCodec

CONSTANTS
    Conn,       \* connections
    Scripts     \* what peers may have to say: for each connection that there
                \* is, the messages that will be sent on it

Loop == "loop"
Ids == {"none", "Accept", "Reject", "Success", "Abort", "Send", "RequestReceive",
        "FinishReceive", "FailedReceive", "Receive", "Chunk", "FinalChunk"}

(* A message as a program fills it in. *)
Sayable(m) == m.id \in Ids \ {"none"} /\ m.payload \in Payload(m.id)

ASSUME ScriptAssumption ==
    /\ Loop \notin Conn
    /\ \A s \in Scripts :
          /\ DOMAIN s # {} /\ DOMAIN s \subseteq Conn
          /\ \A c \in DOMAIN s :
                Len(s[c]) \in Nat /\ \A i \in 1 .. Len(s[c]) : Sayable(s[c][i])

VARIABLES
    script,     \* one of them, chosen at the start
    manner,     \* "wait" or "poll"
    said,       \* how many of them the peer has written in full
    gone,       \* the peer has closed its end, or died
    stream,     \* written by the peer and not yet read
    open,       \* m_socket
    reading,    \* the asynchronous read under way
    done,       \* it has completed; its handler has not run yet
    forming,    \* m_forming_in_message
    io,         \* the connection whose push_back has yet to notify, if any
    deq,        \* m_messages_in
    main,       \* where the main thread stands
    taken       \* the messages taken from each connection, decoded

peerVars == <<script, said, gone, stream>>
readVars == <<open, reading, done, forming>>
vars == <<peerVars, readVars, manner, io, deq, main, taken>>

There == DOMAIN script

NoMessage == [id |-> "none", size |-> 0, body |-> <<>>]

-----------------------------------------------------------------------------
(* The peer.  On the wire a header is one cell, a body a cell for a byte.  *)

HeaderCell(id, size) == [kind |-> "header", id |-> id, value |-> size]
ByteCell(b) == [kind |-> "byte", id |-> "none", value |-> b]

Cells(m) ==
    LET body == EncodeBody(m.id, m.payload)
    IN  <<HeaderCell(m.id, HeaderSize(body))>> \o [i \in 1 .. Len(body) |-> ByteCell(body[i])]

Says(c) == script[c][said[c] + 1]

PeerWrites(c) ==
    /\ ~gone[c] /\ said[c] < Len(script[c])
    /\ said' = [said EXCEPT ![c] = @ + 1]
    /\ stream' = [stream EXCEPT ![c] = @ \o Cells(Says(c))]
    /\ UNCHANGED <<script, gone, readVars, manner, io, deq, main, taken>>

(* It closes its end between two messages, or dies within one. *)
PeerLeaves(c) ==
    /\ ~gone[c]
    /\ gone' = [gone EXCEPT ![c] = TRUE]
    /\ \/ UNCHANGED stream
       \/ /\ said[c] < Len(script[c])
          /\ \E n \in 1 .. (Len(Cells(Says(c))) - 1) :
                stream' = [stream EXCEPT ![c] = @ \o SubSeq(Cells(Says(c)), 1, n)]
    /\ UNCHANGED <<script, said, readVars, manner, io, deq, main, taken>>

-----------------------------------------------------------------------------
(* The io thread.                                                          *)

Wanted(c) == IF reading[c] = "header" THEN 1 ELSE forming[c].size

(* The read completes.  The handler is queued; it runs even if the socket  *)
(* is closed before its turn.                                              *)
ReadCompletes(c) ==
    /\ open[c] /\ reading[c] # "nothing" /\ ~done[c]
    /\ Len(stream[c]) >= Wanted(c)
    /\ done' = [done EXCEPT ![c] = TRUE]
    /\ LET cells == SubSeq(stream[c], 1, Wanted(c))
       IN  forming' = [forming EXCEPT ![c] =
               IF reading[c] = "header"
               THEN [@ EXCEPT !.id = cells[1].id, !.size = cells[1].value]
               ELSE [@ EXCEPT !.body = [i \in 1 .. Wanted(c) |-> cells[i].value]]]
    /\ stream' = [stream EXCEPT ![c] = SubSeq(@, Wanted(c) + 1, Len(@))]
    /\ UNCHANGED <<script, said, gone, open, reading, manner, io, deq, main, taken>>

(* A mutant: m_forming_in_message has been reset before it is pushed. *)
PushBack_Reset(c) ==
    /\ deq' = Append(deq, [remote |-> c, msg |-> NoMessage])
    /\ io' = c
    /\ reading' = [reading EXCEPT ![c] = "nothing"]

(* addToIncomingMessageQueue up to the end of push_back's critical section. *)
PushBack(c) ==
    /\ deq' = Append(deq, [remote |-> c, msg |-> forming[c]])
    /\ io' = c
    /\ reading' = [reading EXCEPT ![c] = "nothing"]

HeaderRead(c) ==
    /\ io = Loop /\ done[c] /\ reading[c] = "header"
    /\ done' = [done EXCEPT ![c] = FALSE]
    /\ IF forming[c].size > 0
       THEN reading' = [reading EXCEPT ![c] = "body"] /\ UNCHANGED <<deq, io>>
       ELSE PushBack(c)
    /\ UNCHANGED <<peerVars, open, forming, manner, main, taken>>

BodyRead(c) ==
    /\ io = Loop /\ done[c] /\ reading[c] = "body"
    /\ done' = [done EXCEPT ![c] = FALSE]
    /\ PushBack(c)
    /\ UNCHANGED <<peerVars, open, forming, manner, main, taken>>

(* A mutant: nobody is notified. *)
Notify_Silent(c) ==
    /\ io = c
    /\ io' = Loop
    /\ forming' = [forming EXCEPT ![c] = NoMessage]
    /\ reading' = [reading EXCEPT ![c] = "header"]
    /\ UNCHANGED <<peerVars, open, done, manner, deq, main, taken>>

(* notify_one outside the lock, then the next message is begun. *)
Notify(c) ==
    /\ io = c
    /\ io' = Loop
    /\ main' = IF main = "asleep" THEN "test" ELSE main
    /\ forming' = [forming EXCEPT ![c] = NoMessage]
    /\ reading' = [reading EXCEPT ![c] = "header"]
    /\ UNCHANGED <<peerVars, open, done, manner, deq, taken>>

(* End of stream in the middle of a read, or the socket has been closed. *)
ReadFails(c) ==
    /\ io = Loop
    /\ reading[c] # "nothing" /\ ~done[c]
    /\ ~open[c] \/ (gone[c] /\ Len(stream[c]) < Wanted(c))
    /\ open' = [open EXCEPT ![c] = FALSE]
    /\ reading' = [reading EXCEPT ![c] = "nothing"]
    /\ UNCHANGED <<peerVars, done, forming, manner, io, deq, main, taken>>

(* The socket is closed from this end: a write has failed, or a close that  *)
(* was to come after a flush is due.                                        *)
SocketCloses(c) ==
    /\ io = Loop /\ open[c]
    /\ open' = [open EXCEPT ![c] = FALSE]
    /\ UNCHANGED <<peerVars, reading, done, forming, manner, io, deq, main, taken>>

-----------------------------------------------------------------------------
(* The main thread.                                                        *)

MainGoes(from, to) ==
    /\ main = from
    /\ main' = to
    /\ UNCHANGED <<peerVars, readVars, manner, io, deq, taken>>

(* Only a client polls, and it has one connection.                         *)
Connected == \A c \in There : open[c]

(* waitForIncomingQueueMessage: connected and empty, one after the other.  *)
PollConnected == MainGoes("begin", IF Connected THEN "pollEmpty" ELSE "drain") /\ manner = "poll"
PollEmpty == MainGoes("pollEmpty", IF deq = <<>> THEN "test" ELSE "drain")

WaitBegins == MainGoes("begin", "test") /\ manner = "wait"

(* wait and waitFor: the predicate under the lock; it goes on, or releases *)
(* the lock and sleeps in one step.                                        *)
Woken == IF manner = "wait" THEN "drain" ELSE "begin"
WaitTest == MainGoes("test", IF deq = <<>> THEN "asleep" ELSE Woken)

SpuriousWakeup == MainGoes("asleep", "test")

(* A mutant: when the period is over, another begins. *)
Timeout_Again == MainGoes("asleep", "test") /\ manner = "poll"

(* The period is over; the predicate is looked at once more, but whatever   *)
(* it says the wait is.                                                     *)
Timeout == MainGoes("asleep", "begin") /\ manner = "poll"

(* pop_front, and the handler's decode. *)
Take ==
    /\ main = "drain" /\ deq # <<>>
    /\ LET m == Head(deq)
       IN  taken' = [taken EXCEPT ![m.remote] =
               Append(@, [id |-> m.msg.id, got |-> DecodeBody(m.msg.id, m.msg.body)])]
    /\ deq' = Tail(deq)
    /\ UNCHANGED <<peerVars, readVars, manner, io, main>>

Drained == MainGoes("drain", "begin") /\ deq = <<>>

-----------------------------------------------------------------------------
Init ==
    /\ script \in Scripts
    /\ manner \in {"wait", "poll"}
    /\ manner = "poll" => \E c \in Conn : There = {c}
    /\ said = [c \in There |-> 0]
    /\ gone = [c \in There |-> FALSE]
    /\ stream = [c \in There |-> <<>>]
    /\ open = [c \in There |-> TRUE]
    /\ reading = [c \in There |-> "header"]
    /\ done = [c \in There |-> FALSE]
    /\ forming = [c \in There |-> NoMessage]
    /\ taken = [c \in There |-> <<>>]
    /\ io = Loop /\ deq = <<>> /\ main = "begin"

IoStep(c) == ReadCompletes(c) \/ HeaderRead(c) \/ BodyRead(c) \/ Notify(c) \/ ReadFails(c)

MainStep ==
    \/ PollConnected \/ PollEmpty \/ WaitBegins \/ WaitTest \/ Timeout
    \/ Take \/ Drained

Next ==
    \/ \E c \in There : PeerWrites(c) \/ PeerLeaves(c) \/ SocketCloses(c) \/ IoStep(c)
    \/ MainStep \/ SpuriousWakeup

Spec == Init /\ [][Next]_vars

(* Both threads run.  The end of a period is fixed when the wait begins, so *)
(* spurious wake-ups do not put it off.  The peer owes nothing, no socket   *)
(* has to close and no spurious wake-up has to come.                        *)
Fairness ==
    /\ \A c \in Conn : WF_vars(c \in There /\ IoStep(c))
    /\ WF_vars(MainStep)
    /\ SF_vars(Timeout)

FairSpec == Spec /\ Fairness

-----------------------------------------------------------------------------
Read == [id : Ids, size : Nat, body : Seq(Byte)]
Cell == [kind : {"header", "byte"}, id : Ids, value : Nat]

TypeOK ==
    /\ manner \in {"wait", "poll"}
    /\ said \in [There -> Nat] /\ stream \in [There -> Seq(Cell)]
    /\ gone \in [There -> BOOLEAN] /\ open \in [There -> BOOLEAN]
    /\ reading \in [There -> {"header", "body", "nothing"}]
    /\ done \in [There -> BOOLEAN] /\ forming \in [There -> Read]
    /\ io \in There \cup {Loop}
    /\ deq \in Seq([remote : There, msg : {m \in Read : m.id # "none" /\ m.size = Len(m.body)}])
    /\ main \in {"begin", "pollEmpty", "test", "asleep", "drain"}
    /\ DOMAIN taken = There
    /\ \A c \in There : \A i \in 1 .. Len(taken[c]) : taken[c][i].id \in Ids \ {"none"}

(* The lengths fit their byte.  A receiver's phrase comes from the command *)
(* line and need not.                                                      *)
Fits(m) ==
    /\ m.id \in Metadata \cup {"Accept", "Receive"} => Len(m.payload.code) < ByteModulus
    /\ m.id \in {"Send", "Accept"} => Len(m.payload.file.name) < ByteModulus

(* What the other end has to see.  Of a request for a file only the phrase *)
(* means anything: the receiver fills in nothing else.                     *)
ReadAs(m, payload) ==
    IF m.id = "RequestReceive"
    THEN payload.code = m.payload.code /\ payload.type = m.payload.type
    ELSE payload = m.payload

(* What the main thread has taken from a connection is what its peer said,  *)
(* message by message from the first, none half, none twice, nothing made   *)
(* of a message that was cut off; no decode reads outside the body, and one *)
(* whose lengths fit gives back the payload and uses up the message.        *)
TakenAsSent ==
    \A c \in There :
        /\ Len(taken[c]) <= said[c]
        /\ \A i \in 1 .. Len(taken[c]) :
              /\ taken[c][i].id = script[c][i].id
              /\ taken[c][i].got.left.inside
              /\ Fits(script[c][i]) => /\ ReadAs(script[c][i], taken[c][i].got.payload)
                                       /\ taken[c][i].got.left.body = <<>>

(* Liveness.  Again and again the main thread has emptied the queue, and    *)
(* the queue has caught up with the peer while the socket is open: no       *)
(* wake-up is lost between push_back's lock and its notify, and the reader  *)
(* always reads on.  (A peer says finitely much, so it is all taken.)       *)
Queued(c) == SelectSeq(deq, LAMBDA m : m.remote = c)
CaughtUp(c) == c \in There => ~open[c] \/ Len(taken[c]) + Len(Queued(c)) = said[c]

SaidIsTaken == []<>(deq = <<>>) /\ \A c \in Conn : []<>CaughtUp(c)

(* waitForIncomingQueueMessage does not outlast the connection. *)
PollEnds == manner = "poll" /\ ~Connected ~> main = "drain"

=============================================================================
