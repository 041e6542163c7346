---------------------------- MODULE Connection ------------------------------
(***************************************************************************)
(* The writing side of Net::Connection, step by step.  Two threads share   *)
(* it.  The owner (the client's or the server's main thread) calls send(), *)
(* waitForOutgoingQueueEmpty() and the disconnects; each send() checks,    *)
(* counts and posts.  The io thread runs what was posted and the           *)
(* completions of the asynchronous writes, one at a time.                  *)
(*                                                                         *)
(* isConnected() reads the socket while the io thread may be closing it;   *)
(* the read is one word and returns the old or the new value.              *)
(***************************************************************************)
EXTENDS Integers, Sequences

CONSTANTS
    MaxSends,   \* bound: calls of send(); the n-th sends message n
    Bodiless,   \* the messages that have a header only
    MaxErrors   \* bound: errors of the network

ASSUME BoundAssumption == MaxSends \in Nat /\ MaxErrors \in Nat

Msg == 1 .. MaxSends

ASSUME BodilessAssumption == Bodiless \subseteq Msg

VARIABLES
    ownerType,  \* m_owner_type
    owner,      \* where the owner thread stands
    next,       \* the message the owner sends next
    io,         \* where the io thread stands between two handlers
    posted,     \* handlers posted to the io_context
    outq,       \* m_messages_out
    ops,        \* asynchronous writes under way
    pending,    \* m_pending_writes
    flushFirst, \* m_close_after_flush
    open,       \* the socket
    stopped,    \* the io_context has been stopped
    wire,       \* messages written in full
    asked,      \* disconnectAfterFlush has been called ...
    mark,       \* ... when so many messages had been sent
    errors

ownerVars == <<ownerType, owner, next, asked, mark>>
ioVars == <<io, outq, ops, flushFirst, wire>>
vars == <<ownerVars, ioVars, posted, pending, open, stopped, errors>>

(* What is posted to the io thread: a message to push, or a close. *)
Push(m) == [do |-> "push", msg |-> m]
Task(name) == [do |-> name, msg |-> 0]

-----------------------------------------------------------------------------
(* The owner thread.                                                       *)

(* send(): refused on a closed socket, otherwise ... *)
SendCheck ==
    /\ owner = "idle" /\ next <= MaxSends /\ open
    /\ owner' = "checked"
    /\ UNCHANGED <<ownerType, next, asked, mark, ioVars, posted, pending, open, stopped, errors>>

(* A mutant: the message is not counted. *)
SendCount_Forgets ==
    /\ owner = "checked"
    /\ owner' = "counted"
    /\ UNCHANGED <<ownerType, next, asked, mark, ioVars, posted, pending, open, stopped, errors>>

(* ... counted under m_flush_mutex ... *)
SendCount ==
    /\ owner = "checked"
    /\ owner' = "counted"
    /\ pending' = pending + 1
    /\ UNCHANGED <<ownerType, next, asked, mark, ioVars, posted, open, stopped, errors>>

(* ... and handed to the io thread. *)
SendPost ==
    /\ owner = "counted"
    /\ owner' = "idle"
    /\ posted' = Append(posted, Push(next))
    /\ next' = next + 1
    /\ UNCHANGED <<ownerType, asked, mark, ioVars, pending, open, stopped, errors>>

(* waitForOutgoingQueueEmpty: ClientBase::flush calls it while connected. *)
FlushStart ==
    /\ ownerType = "client" /\ owner = "idle" /\ open
    /\ owner' = "flushing"
    /\ UNCHANGED <<ownerType, next, asked, mark, ioVars, posted, pending, open, stopped, errors>>

(* A mutant: the messages still posted are overlooked. *)
Drained_QueueOnly == outq = <<>>

Drained == pending = 0 /\ outq = <<>>

(* The predicate is evaluated with m_flush_mutex held: the owner goes on,  *)
(* or releases the mutex and sleeps in one step.                           *)
FlushTest ==
    /\ owner = "flushing"
    /\ owner' = IF Drained THEN "flushed" ELSE "asleep"
    /\ UNCHANGED <<ownerType, next, asked, mark, ioVars, posted, pending, open, stopped, errors>>

SpuriousWakeup ==
    /\ owner = "asleep"
    /\ owner' = "flushing"
    /\ UNCHANGED <<ownerType, next, asked, mark, ioVars, posted, pending, open, stopped, errors>>

FlushReturn ==
    /\ owner = "flushed"
    /\ owner' = "idle"
    /\ UNCHANGED <<ownerType, next, asked, mark, ioVars, posted, pending, open, stopped, errors>>

(* The server closes behind what it has sent, when it removes a session; a *)
(* second time is left out, it would only ask again.                       *)
DisconnectAfterFlush ==
    /\ ownerType = "server" /\ owner = "idle" /\ ~asked
    /\ posted' = Append(posted, Task("closeAfterFlush"))
    /\ asked' = TRUE
    /\ mark' = next - 1
    /\ UNCHANGED <<ownerType, owner, next, ioVars, pending, open, stopped, errors>>

(* ClientBase::disconnect: the close is posted, the io_context stopped at  *)
(* once, whether or not its thread has come to it.                         *)
Disconnect ==
    /\ ownerType = "client" /\ owner = "idle"
    /\ owner' = "stopping"
    /\ posted' = IF open THEN Append(posted, Task("close")) ELSE posted
    /\ UNCHANGED <<ownerType, next, asked, mark, ioVars, pending, open, stopped, errors>>

Stop ==
    /\ owner = "stopping"
    /\ owner' = "gone"
    /\ stopped' = TRUE
    /\ UNCHANGED <<ownerType, next, asked, mark, ioVars, posted, pending, open, errors>>

-----------------------------------------------------------------------------
(* The io thread.                                                          *)

Running == io = "loop" /\ ~stopped

(* writeHeader() *)
WriteHeader(q) == Append(q, "header")

(* Mutants: the message has been moved from; every push starts a write;    *)
(* messages are pushed in front.                                           *)
RunPush_Moved(m) ==
    /\ outq' = Append(outq, 0)
    /\ ops' = IF outq = <<>> THEN WriteHeader(ops) ELSE ops
    /\ UNCHANGED <<open, flushFirst>>

RunPush_AlwaysWrites(m) ==
    /\ outq' = Append(outq, m)
    /\ ops' = WriteHeader(ops)
    /\ UNCHANGED <<open, flushFirst>>

RunPush_Front(m) ==
    /\ outq' = <<m>> \o outq
    /\ ops' = IF outq = <<>> THEN WriteHeader(ops) ELSE ops
    /\ UNCHANGED <<open, flushFirst>>

RunPush(m) ==
    /\ outq' = Append(outq, m)
    /\ ops' = IF outq = <<>> THEN WriteHeader(ops) ELSE ops
    /\ UNCHANGED <<open, flushFirst>>

(* A mutant: the socket is closed at once. *)
RunCloseAfterFlush_AtOnce ==
    /\ open' = FALSE
    /\ UNCHANGED <<outq, ops, flushFirst>>

RunCloseAfterFlush ==
    /\ IF outq = <<>>
       THEN open' = FALSE /\ UNCHANGED flushFirst
       ELSE flushFirst' = TRUE /\ UNCHANGED open
    /\ UNCHANGED <<outq, ops>>

RunPosted ==
    /\ Running /\ posted # <<>>
    /\ posted' = Tail(posted)
    /\ LET task == Head(posted)
       IN  CASE task.do = "push" -> RunPush(task.msg)
             [] task.do = "closeAfterFlush" -> RunCloseAfterFlush
             [] task.do = "close" -> open' = FALSE /\ UNCHANGED <<outq, ops, flushFirst>>
    /\ UNCHANGED <<ownerVars, io, pending, stopped, wire, errors>>

Without(q, i) == SubSeq(q, 1, i - 1) \o SubSeq(q, i + 1, Len(q))

(* The front message has been written. *)
EndsMessage(i) == ops[i] = "body" \/ Head(outq) \in Bodiless

(* The bytes of a write are out, on an open socket; the message is on the  *)
(* wire with the last of them.  The handler waits for the io thread.       *)
WriteCompletes ==
    /\ io = "loop" /\ open
    /\ \E i \in 1 .. Len(ops) :
          /\ ops[i] \in {"header", "body"}
          /\ ops' = [ops EXCEPT ![i] = IF @ = "header" THEN "headerDone" ELSE "bodyDone"]
          /\ wire' = IF EndsMessage(i) THEN Append(wire, Head(outq)) ELSE wire
    /\ UNCHANGED <<ownerVars, io, posted, outq, pending, flushFirst, open, stopped, errors>>

(* The front message is popped, still counted. *)
PopFront(i) ==
    /\ outq' = Tail(outq)
    /\ ops' = Without(ops, i)
    /\ io' = "popped"

HeaderWritten(i) ==
    /\ ops[i] = "headerDone"
    /\ IF Head(outq) \in Bodiless
       THEN PopFront(i)
       ELSE ops' = [ops EXCEPT ![i] = "body"] /\ UNCHANGED <<outq, io>>

BodyWritten(i) == ops[i] = "bodyDone" /\ PopFront(i)

(* The handler of a write that has succeeded; the socket may have been     *)
(* closed since.                                                           *)
Written ==
    /\ Running
    /\ \E i \in 1 .. Len(ops) : HeaderWritten(i) \/ BodyWritten(i)
    /\ UNCHANGED <<ownerVars, posted, pending, flushFirst, wire, open, stopped, errors>>

(* A mutant: nobody is notified. *)
Settle_Silent ==
    /\ io = "popped"
    /\ io' = "settled"
    /\ pending' = IF pending > 0 THEN pending - 1 ELSE 0
    /\ UNCHANGED <<ownerVars, posted, outq, ops, flushFirst, wire, open, stopped, errors>>

(* Under m_flush_mutex: uncount, and wake the flusher at zero. *)
Settle ==
    /\ io = "popped"
    /\ io' = "settled"
    /\ pending' = IF pending > 0 THEN pending - 1 ELSE 0
    /\ owner' = IF pending' = 0 /\ owner = "asleep" THEN "flushing" ELSE owner
    /\ UNCHANGED <<ownerType, next, asked, mark, posted, outq, ops, flushFirst, wire, open,
                   stopped, errors>>

(* Mutants: the next message is not written; the close is forgotten. *)
Continue_Stops ==
    /\ io = "settled"
    /\ io' = "loop"
    /\ open' = IF outq = <<>> /\ flushFirst THEN FALSE ELSE open
    /\ UNCHANGED <<ownerVars, posted, outq, ops, flushFirst, wire, pending, stopped, errors>>

Continue_StaysOpen ==
    /\ io = "settled"
    /\ io' = "loop"
    /\ ops' = IF outq # <<>> THEN WriteHeader(ops) ELSE ops
    /\ UNCHANGED <<ownerVars, posted, outq, flushFirst, wire, pending, open, stopped, errors>>

(* The rest of the completion handler. *)
Continue ==
    /\ io = "settled"
    /\ io' = "loop"
    /\ ops' = IF outq # <<>> THEN WriteHeader(ops) ELSE ops
    /\ open' = IF outq = <<>> /\ flushFirst THEN FALSE ELSE open
    /\ UNCHANGED <<ownerVars, posted, outq, flushFirst, wire, pending, stopped, errors>>

(* A write completes with an error, of the network or because the socket   *)
(* was closed under it: the message stays queued and counted.              *)
WriteFailed ==
    /\ Running
    /\ \E i \in 1 .. Len(ops) : ops[i] \in {"header", "body"} /\ ops' = Without(ops, i)
    /\ errors' = IF open THEN errors + 1 ELSE errors
    /\ errors' <= MaxErrors
    /\ open' = FALSE
    /\ UNCHANGED <<ownerVars, io, posted, outq, flushFirst, wire, pending, stopped>>

(* A read completes with an error: the peer has gone. *)
ReadFailed ==
    /\ Running /\ open
    /\ errors < MaxErrors
    /\ errors' = errors + 1
    /\ open' = FALSE
    /\ UNCHANGED <<ownerVars, io, posted, outq, ops, flushFirst, wire, pending, stopped>>

-----------------------------------------------------------------------------
Init ==
    /\ ownerType \in {"client", "server"}
    /\ owner = "idle" /\ next = 1 /\ asked = FALSE /\ mark = 0
    /\ io = "loop" /\ outq = <<>> /\ ops = <<>> /\ flushFirst = FALSE /\ wire = <<>>
    /\ posted = <<>> /\ pending = 0 /\ open = TRUE /\ stopped = FALSE /\ errors = 0

OwnerStep ==
    \/ SendCheck \/ SendCount \/ SendPost
    \/ FlushStart \/ FlushTest \/ FlushReturn \/ SpuriousWakeup
    \/ DisconnectAfterFlush \/ Disconnect \/ Stop

IoStep ==
    RunPosted \/ WriteCompletes \/ Written \/ Settle \/ Continue \/ WriteFailed \/ ReadFailed

Next == OwnerStep \/ IoStep

Spec == Init /\ [][Next]_vars

(* The io thread runs handlers while there are any and a thread inside a   *)
(* call goes on.  Nothing makes the owner call anything, and no error and  *)
(* no spurious wakeup has to come.                                         *)
Fairness ==
    /\ WF_vars(RunPosted \/ WriteCompletes \/ Written \/ Settle \/ Continue)
    /\ WF_vars(~open /\ WriteFailed)
    /\ WF_vars(SendCount \/ SendPost \/ FlushTest \/ FlushReturn \/ Stop)

FairSpec == Spec /\ Fairness

-----------------------------------------------------------------------------
TypeOK ==
    /\ ownerType \in {"client", "server"}
    /\ owner \in {"idle", "checked", "counted", "flushing", "asleep", "flushed",
                  "stopping", "gone"}
    /\ next \in 1 .. (MaxSends + 1)
    /\ io \in {"loop", "popped", "settled"}
    /\ posted \in Seq([do : {"push", "closeAfterFlush", "close"}, msg : 0 .. MaxSends])
    /\ outq \in Seq(Msg) /\ wire \in Seq(Msg)
    /\ ops \in Seq({"header", "headerDone", "body", "bodyDone"})
    /\ pending \in Nat
    /\ {flushFirst, open, stopped, asked} \subseteq BOOLEAN
    /\ mark \in 0 .. MaxSends
    /\ errors \in 0 .. MaxErrors

(* The front message is on the wire and its handler has still to run. *)
Unhandled ==
    \E i \in 1 .. Len(ops) :
        ops[i] = "bodyDone" \/ (ops[i] = "headerDone" /\ Head(outq) \in Bodiless)

(* The messages on the wire whose last handler has run. *)
Handled == IF Unhandled THEN Len(wire) - 1 ELSE Len(wire)

(* m_pending_writes counts the messages that send() has taken and whose    *)
(* write the io thread has not settled, wherever the two threads stand.    *)
PendingCounts ==
    LET taken == (next - 1) + (IF owner = "counted" THEN 1 ELSE 0)
        settled == Handled - (IF io = "popped" THEN 1 ELSE 0)
    IN  pending = taken - settled

(* Two asynchronous writes on one socket would interleave their bytes. *)
OneWriter ==
    /\ Len(ops) <= 1
    /\ io # "loop" => ops = <<>>

(* A writer is always about when there is something to write. *)
QueueIsDriven == io = "loop" /\ outq # <<>> /\ open => ops # <<>>

(* When flush() returns, every message sent before is on the wire. *)
FlushMeansWritten == owner = "flushed" => Len(wire) = next - 1

(* A close asked for with disconnectAfterFlush takes nothing with it that  *)
(* was sent before, unless the network failed.                             *)
NothingCutOff == ~open /\ errors = 0 => Len(wire) >= mark

(* The abstract channel: the queue is what send() has accepted and is not  *)
(* written, message n being the n-th.                                      *)
Accepted == IF owner \in {"checked", "counted"} THEN next ELSE next - 1

Unwritten == [i \in 1 .. (Accepted - Len(wire)) |-> Len(wire) + i]

Broken == errors > 0 \/ owner \in {"stopping", "gone"}

Chan == INSTANCE Channel
            WITH isOpen <- open,
                 queue <- Unwritten,
                 due <- mark,
                 broken <- Broken

ImplementsChannel == Chan!Spec

(* flush() returns as long as the connection lasts. *)
FlushReturns ==
    owner \in {"flushing", "asleep"} ~> (owner \notin {"flushing", "asleep"} \/ ~open)

(* A connection that is to be closed after a flush is closed. *)
CloseHappens == asked ~> (~open \/ stopped)

(* "wait till all outgoing messaged are sent": the wait is over some time. *)
FlushAlwaysReturns ==
    owner \in {"flushing", "asleep"} ~> owner \notin {"flushing", "asleep"}

=============================================================================
