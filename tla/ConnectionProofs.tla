-------------------------- MODULE ConnectionProofs --------------------------
(***************************************************************************)
(* The safety properties of Connection, and that it implements Channel,    *)
(* for any number of messages and of network errors.                       *)
(*                                                                         *)
(* None of the properties is inductive: what flush() finds depends on      *)
(* where each message is that send() has counted.  Messages are numbered   *)
(* in the order they are sent, and the invariant places all of them: first *)
(* those on the wire, then those in m_messages_out, then those in handlers *)
(* posted and not yet run, with no gap and nothing twice.  A close that is *)
(* posted has its place in that order too, the one after the messages sent *)
(* before it.                                                              *)
(***************************************************************************)
EXTENDS Connection, TLAPS

-----------------------------------------------------------------------------
(* The inductive invariant.                                                *)

Handler == [do : {"push", "closeAfterFlush", "close"}, msg : 0 .. MaxSends]

(* How many messages had been sent before a handler was posted, and after, *)
(* if n have been sent now and k had been when the close was asked for.    *)
Before(t, n, k) == IF t.do = "push" THEN t.msg - 1
                   ELSE IF t.do = "closeAfterFlush" THEN k ELSE n
After(t, n, k) == IF t.do = "push" THEN t.msg ELSE Before(t, n, k)

(* Handlers that take the io thread from message g to message n, each one  *)
(* going on where the one before it stopped.                               *)
Chain(q, g, n, k) ==
    /\ g <= n
    /\ q = <<>> => g = n
    /\ q # <<>> => Before(q[1], n, k) = g /\ After(q[Len(q)], n, k) = n
    /\ \A i \in 1 .. Len(q) :
          /\ i < Len(q) => After(q[i], n, k) = Before(q[i + 1], n, k)
          /\ q[i].do = "push" => q[i].msg \in 1 .. n

(* How many messages the io thread has been given. *)
Given == Handled + Len(outq)

OutqFollowsWire == \A i \in 1 .. Len(outq) : outq[i] = Handled + i

PostedFollowsOutq == Chain(posted, Given, next - 1, mark)

(* A close is there because it was asked for. *)
ClosesAreAskedFor ==
    /\ \A i \in 1 .. Len(posted) :
          /\ posted[i].do = "close" => owner \in {"stopping", "gone"}
          /\ posted[i].do = "closeAfterFlush" => asked
    /\ flushFirst => asked /\ mark <= Given
    /\ ~open /\ errors = 0 /\ owner \notin {"stopping", "gone"} => asked

WritesAreOfOutq ==
    /\ ops # <<>> => outq # <<>>
    /\ Handled >= 0

(* Only the server asks for the delayed close, only a client leaves. *)
OwnersKeepApart ==
    /\ asked \/ mark > 0 => ownerType = "server"
    /\ owner \in {"stopping", "gone"} => ownerType = "client"

(* send() has accepted no more than there is to send. *)
SendsAreBounded == owner \in {"checked", "counted"} => next <= MaxSends

IInv ==
    /\ TypeOK /\ PendingCounts /\ OneWriter /\ QueueIsDriven
    /\ FlushMeansWritten /\ NothingCutOff
    /\ OutqFollowsWire /\ PostedFollowsOutq /\ ClosesAreAskedFor
    /\ WritesAreOfOutq /\ SendsAreBounded /\ OwnersKeepApart

-----------------------------------------------------------------------------
(* Facts used in several places. *)

(* The order of the messages does not depend on anything else. *)
LEMMA OrderUnchanged ==
    ASSUME OutqFollowsWire, PostedFollowsOutq, UNCHANGED <<next, mark, posted, outq>>,
           Handled' = Handled
    PROVE  OutqFollowsWire' /\ PostedFollowsOutq'
  BY DEF OutqFollowsWire, PostedFollowsOutq, Given

(* At most one write is under way, and what it says of the wire. *)
LEMMA HandledOf ==
    ASSUME IInv
    PROVE  /\ Len(wire) \in Nat /\ Len(outq) \in Nat /\ Len(ops) \in Nat
           /\ Handled \in Nat /\ Given \in Nat
           /\ ops = <<>> => Handled = Len(wire)
           /\ ops # <<>> => /\ Len(ops) = 1 /\ outq # <<>>
                            /\ Unhandled <=> \/ ops[1] = "bodyDone"
                                             \/ ops[1] = "headerDone" /\ Head(outq) \in Bodiless
<1>1. /\ Len(wire) \in Nat /\ Len(outq) \in Nat /\ Len(ops) \in Nat /\ Len(ops) <= 1
      /\ ops \in Seq({"header", "headerDone", "body", "bodyDone"})
  BY DEF IInv, TypeOK, OneWriter
<1>2. Handled \in Nat /\ Given \in Nat
  <2>1. Handled >= 0
    BY DEF IInv, WritesAreOfOutq
  <2>2. Handled \in Int
    BY <1>1 DEF Handled
  <2> QED
    BY <1>1, <2>1, <2>2 DEF Given
<1>3. ASSUME ops = <<>> PROVE Handled = Len(wire)
  <2>1. 1 .. Len(ops) = {}
    BY <1>3
  <2>2. ~Unhandled
    BY <2>1, Zenon DEF Unhandled
  <2> QED
    BY <2>2 DEF Handled
<1>4. ASSUME ops # <<>> PROVE outq # <<>>
  BY <1>4 DEF IInv, WritesAreOfOutq
<1>5. ASSUME ops # <<>> PROVE Len(ops) = 1
  <2>1. PICK n \in Nat : n = Len(ops)
    BY <1>1
  <2>2. n # 0
    BY <1>1, <1>5, <2>1
  <2>3. n <= 1
    BY <1>1, <2>1
  <2>4. n = 1
    BY <2>2, <2>3
  <2> QED
    BY <2>1, <2>4
<1>6. ASSUME ops # <<>>
      PROVE  Unhandled <=> \/ ops[1] = "bodyDone"
                           \/ ops[1] = "headerDone" /\ Head(outq) \in Bodiless
  <2>1. /\ \A i \in 1 .. Len(ops) : i = 1
        /\ 1 \in 1 .. Len(ops)
    <3>1. Len(ops) = 1
      BY <1>5, <1>6
    <3>2. 1 .. 1 = {1}
      OBVIOUS
    <3> QED
      BY <3>1, <3>2
  <2> QED
    BY <2>1, Zenon DEF Unhandled
<1> QED
  BY <1>1, <1>2, <1>3, <1>4, <1>5, <1>6

(* A handler is posted, behind the others. *)
LEMMA ChainAppend ==
    ASSUME NEW q \in Seq(Handler), NEW t \in Handler,
           NEW g \in Nat, NEW n \in Nat, NEW k \in Nat, NEW m \in Nat, NEW j \in Nat,
           Chain(q, g, n, k), n <= m, Before(t, m, j) = n, After(t, m, j) = m,
           t.do = "push" => t.msg \in 1 .. m,
           \A i \in 1 .. Len(q) : /\ q[i].do = "close" => m = n
                                  /\ q[i].do = "closeAfterFlush" => j = k
    PROVE  Chain(Append(q, t), g, m, j)
<1> DEFINE r == Append(q, t)
<1>1. /\ Len(q) \in Nat /\ Len(r) = Len(q) + 1 /\ r # <<>>
      /\ r[Len(q) + 1] = t
      /\ \A i \in 1 .. Len(q) : r[i] = q[i] /\ q[i] \in Handler
  OBVIOUS
<1>2. \A i \in 1 .. Len(q) : /\ Before(r[i], m, j) = Before(q[i], n, k)
                             /\ After(r[i], m, j) = After(q[i], n, k)
  BY <1>1 DEF Before, After, Handler
<1> HIDE DEF r
<1>3. g <= m
  BY DEF Chain
<1>4. Before(r[1], m, j) = g
  <2>1. CASE q = <<>>
    BY <1>1, <2>1 DEF Chain
  <2>2. CASE q # <<>>
    BY <1>1, <1>2, <2>2 DEF Chain
  <2> QED
    BY <2>1, <2>2
<1>5. After(r[Len(r)], m, j) = m
  BY <1>1
<1>6. ASSUME NEW i \in 1 .. Len(r)
      PROVE  /\ i < Len(r) => After(r[i], m, j) = Before(r[i + 1], m, j)
             /\ r[i].do = "push" => r[i].msg \in 1 .. m
  <2>1. CASE i < Len(q)
    BY <1>1, <1>2, <2>1 DEF Chain
  <2>2. CASE i = Len(q)
    <3>1. After(r[i], m, j) = n /\ r[i + 1] = t
      BY <1>1, <1>2, <2>2 DEF Chain
    <3>2. r[i].do = "push" => r[i].msg \in 1 .. n
      BY <1>1, <2>2 DEF Chain
    <3> QED
      BY <3>1, <3>2
  <2>3. CASE i = Len(q) + 1
    BY <1>1, <2>3
  <2> QED
    BY <1>1, <2>1, <2>2, <2>3
<1>7. Chain(r, g, m, j)
  BY <1>1, <1>3, <1>4, <1>5, <1>6 DEF Chain
<1> QED
  BY <1>7 DEF r

(* The first handler is run. *)
LEMMA ChainTail ==
    ASSUME NEW q \in Seq(Handler), NEW g \in Nat, NEW n \in Nat, NEW k \in Nat,
           Chain(q, g, n, k), q # <<>>
    PROVE  Chain(Tail(q), After(q[1], n, k), n, k)
<1> DEFINE r == Tail(q)
<1>1. /\ Len(q) \in Nat \ {0} /\ Len(r) = Len(q) - 1
      /\ \A i \in 1 .. Len(r) : r[i] = q[i + 1]
      /\ r = <<>> => Len(q) = 1
      /\ q[1] \in Handler
  <2>1. Len(q) \in Nat /\ Len(q) # 0
    OBVIOUS
  <2>2. q[1] \in Handler
    BY <2>1
  <2>3. Len(r) = Len(q) - 1 /\ \A i \in 1 .. Len(r) : r[i] = q[i + 1]
    BY <2>1
  <2>4. Len(<<>>) = 0
    OBVIOUS
  <2> HIDE DEF r
  <2> QED
    BY <2>1, <2>2, <2>3, <2>4
<1> HIDE DEF r
<1>2. After(q[1], n, k) <= n
  BY <1>1 DEF Chain, Before, After, Handler
<1>3. ASSUME NEW i \in 1 .. Len(r)
      PROVE  /\ i < Len(r) => After(r[i], n, k) = Before(r[i + 1], n, k)
             /\ r[i].do = "push" => r[i].msg \in 1 .. n
  BY <1>1 DEF Chain
<1>4. r # <<>> => Before(r[1], n, k) = After(q[1], n, k) /\ After(r[Len(r)], n, k) = n
  BY <1>1 DEF Chain
<1>5. r = <<>> => After(q[1], n, k) = n
  BY <1>1 DEF Chain
<1>6. Chain(r, After(q[1], n, k), n, k)
  BY <1>2, <1>3, <1>4, <1>5 DEF Chain
<1> QED
  BY <1>6 DEF r

(* The one write under way has completed. *)
LEMMA WithoutTheOnly ==
    ASSUME NEW S, NEW q \in Seq(S), Len(q) <= 1, NEW i \in 1 .. Len(q)
    PROVE  Without(q, i) = <<>>
<1>0. i = 1 /\ Len(q) \in Nat
  OBVIOUS
<1>1. Len(q) >= 1
  OBVIOUS
<1>2. SubSeq(q, 1, 0) = <<>> /\ SubSeq(q, 2, 1) = <<>>
  BY <1>0, <1>1
<1> QED
  BY <1>0, <1>1, <1>2 DEF Without

LEMMA InitIInv == Init => IInv
<1> SUFFICES ASSUME Init PROVE IInv
  OBVIOUS
<1>1. TypeOK
  <2>1. posted \in Seq(Handler) /\ outq \in Seq(Msg) /\ wire \in Seq(Msg) /\ ops \in Seq({"header", "headerDone", "body", "bodyDone"})
    BY DEF Init
  <2>2. pending \in Nat /\ next \in 1 .. (MaxSends + 1) /\ mark \in 0 .. MaxSends /\ errors \in 0 .. MaxErrors
    BY BoundAssumption DEF Init
  <2> QED
    BY <2>1, <2>2 DEF Init, TypeOK, Handler
<1>2. Len(wire) = 0 /\ Len(outq) = 0 /\ Len(posted) = 0 /\ Len(ops) = 0
  BY DEF Init
<1>8. Handled = 0 /\ Given = 0
  <2>1. 1 .. Len(ops) = {}
    BY <1>2
  <2> QED
    BY <1>2, <2>1 DEF Handled, Unhandled, Given
<1>3. PendingCounts
  <2>1. owner = "idle" /\ next = 1 /\ io = "loop" /\ pending = 0
    BY DEF Init
  <2> QED
    BY <1>8, <2>1 DEF PendingCounts
<1>7. FlushMeansWritten
  BY DEF Init, FlushMeansWritten
<1>4. OneWriter /\ QueueIsDriven /\ NothingCutOff
  BY <1>2 DEF Init, OneWriter, QueueIsDriven, NothingCutOff
<1>5. OutqFollowsWire /\ PostedFollowsOutq
  BY <1>2, <1>8 DEF Init, OutqFollowsWire, PostedFollowsOutq, Chain
<1>6. ClosesAreAskedFor /\ WritesAreOfOutq /\ SendsAreBounded /\ OwnersKeepApart
  BY <1>2, <1>8 DEF Init, ClosesAreAskedFor, WritesAreOfOutq, SendsAreBounded, OwnersKeepApart
<1> QED
  BY <1>1, <1>3, <1>4, <1>5, <1>6, <1>7 DEF IInv

LEMMA StutterKeepsIInv == IInv /\ UNCHANGED vars => IInv'
  BY DEF IInv, vars, ownerVars, ioVars, TypeOK, PendingCounts, OneWriter, QueueIsDriven,
         FlushMeansWritten, NothingCutOff, OutqFollowsWire, PostedFollowsOutq, ClosesAreAskedFor,
         WritesAreOfOutq, SendsAreBounded, OwnersKeepApart, Handled, Unhandled, Given, Before, After

-----------------------------------------------------------------------------
(* The owner's steps. *)

(* Steps that move the owner and nothing else. *)
OwnerMoves == SendCheck \/ FlushStart \/ FlushTest \/ FlushReturn \/ SpuriousWakeup

LEMMA OwnerMovesKeepIInv == ASSUME IInv, OwnerMoves PROVE IInv'
<1>0. UNCHANGED <<ownerType, next, asked, mark, io, outq, ops, flushFirst, wire, posted, pending, open, stopped, errors>>
  BY DEF OwnerMoves, SendCheck, FlushStart, FlushTest, FlushReturn, SpuriousWakeup, ioVars
<1>g. Handled' = Handled /\ Given' = Given
  BY <1>0 DEF Handled, Unhandled, Given
<1>k. Handled \in Nat /\ Given \in Nat
  BY HandledOf
<1>1. OutqFollowsWire' /\ PostedFollowsOutq'
  BY <1>0, <1>g, <1>k, OrderUnchanged DEF IInv
<1>2. TypeOK'
  BY <1>0, <1>g, <1>k DEF IInv, TypeOK, OwnerMoves, SendCheck, FlushStart, FlushTest, FlushReturn, SpuriousWakeup
<1>3. PendingCounts' /\ OneWriter' /\ QueueIsDriven' /\ WritesAreOfOutq' /\ SendsAreBounded' /\ OwnersKeepApart'
  BY <1>0, <1>g, <1>k DEF IInv, TypeOK, PendingCounts, OneWriter, QueueIsDriven, WritesAreOfOutq, SendsAreBounded, OwnersKeepApart,
              OwnerMoves, SendCheck, FlushStart, FlushTest, FlushReturn, SpuriousWakeup
<1>4. FlushMeansWritten'
  <2>1. CASE FlushTest /\ Drained
    <3>1. ops = <<>> /\ Handled = Len(wire)
      BY <2>1, HandledOf DEF Drained, IInv, WritesAreOfOutq
    <3>2. Handled <= next - 1
      BY <2>1, HandledOf DEF IInv, TypeOK, PostedFollowsOutq, Chain, Drained, Given
    <3> QED
      BY <1>0, <1>g, <1>k, <2>1, <3>1, <3>2 DEF IInv, TypeOK, PendingCounts, FlushMeansWritten, FlushTest, Drained
  <2>2. CASE owner' # "flushed"
    BY <2>2 DEF FlushMeansWritten
  <2> QED
    BY <2>1, <2>2 DEF OwnerMoves, SendCheck, FlushStart, FlushTest, FlushReturn, SpuriousWakeup
<1>5. NothingCutOff' /\ ClosesAreAskedFor'
  BY <1>0, <1>g, <1>k DEF IInv, NothingCutOff, ClosesAreAskedFor,
              OwnerMoves, SendCheck, FlushStart, FlushTest, FlushReturn, SpuriousWakeup
<1> QED
  BY <1>1, <1>2, <1>3, <1>4, <1>5 DEF IInv

LEMMA SendCountKeepsIInv == ASSUME IInv, SendCount PROVE IInv'
<1>g. Handled' = Handled /\ Given' = Given
  BY DEF SendCount, ioVars, Handled, Unhandled, Given
<1>1. OutqFollowsWire' /\ PostedFollowsOutq'
  BY <1>g, OrderUnchanged DEF IInv, SendCount, ioVars
<1>2. PendingCounts' /\ FlushMeansWritten'
  BY <1>g, HandledOf DEF SendCount, ioVars, IInv, TypeOK, PendingCounts, FlushMeansWritten
<1>3. TypeOK'
  BY DEF SendCount, ioVars, IInv, TypeOK
<1>4. OneWriter' /\ QueueIsDriven' /\ NothingCutOff' /\ ClosesAreAskedFor' /\ WritesAreOfOutq'
      /\ SendsAreBounded' /\ OwnersKeepApart'
  BY <1>g DEF SendCount, ioVars, IInv, OneWriter, QueueIsDriven, NothingCutOff, ClosesAreAskedFor,
              WritesAreOfOutq, SendsAreBounded, OwnersKeepApart
<1> QED
  BY <1>1, <1>2, <1>3, <1>4 DEF IInv

LEMMA StopKeepsIInv == ASSUME IInv, Stop PROVE IInv'
<1>g. Handled' = Handled /\ Given' = Given
  BY DEF Stop, ioVars, Handled, Unhandled, Given
<1>1. OutqFollowsWire' /\ PostedFollowsOutq'
  BY <1>g, OrderUnchanged DEF IInv, Stop, ioVars
<1> QED
  BY <1>1, <1>g DEF Stop, ioVars, IInv, TypeOK, PendingCounts, OneWriter, QueueIsDriven,
              FlushMeansWritten, NothingCutOff, ClosesAreAskedFor, WritesAreOfOutq,
              SendsAreBounded, OwnersKeepApart

(* A message is posted: it is the next after all that were sent. *)
LEMMA SendPostKeepsIInv == ASSUME IInv, SendPost PROVE IInv'
<1>t. PICK t : t = Push(next)
  OBVIOUS
<1>0. /\ owner = "counted" /\ owner' = "idle" /\ next' = next + 1 /\ posted' = Append(posted, t)
      /\ UNCHANGED <<ownerType, asked, mark, io, outq, ops, flushFirst, wire, pending, open, stopped, errors>>
  BY <1>t DEF SendPost, ioVars
<1>g. Handled' = Handled /\ Given' = Given
  BY <1>0 DEF Handled, Unhandled, Given
<1>k. Handled \in Nat /\ Given \in Nat
  BY HandledOf
<1>1. /\ next \in Msg /\ next \in 1 .. MaxSends /\ mark \in Nat /\ Given \in Nat
      /\ posted \in Seq(Handler) /\ t \in Handler /\ t.do = "push" /\ t.msg = next
  BY <1>0, <1>g, <1>k, <1>t, BoundAssumption DEF IInv, TypeOK, SendsAreBounded, OwnersKeepApart, Msg, Push, Handler
<1>2. TypeOK'
  BY <1>0, <1>g, <1>k, <1>1, BoundAssumption DEF IInv, TypeOK, Handler
<1>3. PendingCounts' /\ OneWriter' /\ QueueIsDriven' /\ WritesAreOfOutq' /\ SendsAreBounded' /\ OwnersKeepApart'
      /\ FlushMeansWritten' /\ NothingCutOff' /\ OutqFollowsWire'
  BY <1>0, <1>g, <1>k DEF IInv, TypeOK, PendingCounts, OneWriter, QueueIsDriven, WritesAreOfOutq, SendsAreBounded, OwnersKeepApart,
              FlushMeansWritten, NothingCutOff, OutqFollowsWire
<1>4. \A i \in 1 .. Len(posted) : posted[i].do # "close"
  BY <1>0, <1>g, <1>k DEF IInv, ClosesAreAskedFor
<1>5. PostedFollowsOutq'
  <2>1. Chain(posted, Given, next - 1, mark) /\ next - 1 \in Nat /\ next \in Nat /\ next - 1 <= next
    BY <1>1 DEF IInv, PostedFollowsOutq
  <2>2. Before(t, next, mark) = next - 1 /\ After(t, next, mark) = next
    BY <1>1 DEF Before, After
  <2>3. /\ t.do = "push" => t.msg \in 1 .. next
        /\ \A i \in 1 .. Len(posted) : /\ posted[i].do = "close" => next = next - 1
                                       /\ posted[i].do = "closeAfterFlush" => mark = mark
    BY <1>1, <1>4
  <2>5. Chain(Append(posted, t), Given, next, mark)
    BY <1>1, <2>1, <2>2, <2>3, ChainAppend
  <2>4. Given' = Given /\ next' - 1 = next
    BY <1>0, <1>g, <1>k, <1>1 DEF Given
  <2> QED
    BY <1>0, <1>g, <1>k, <2>5, <2>4 DEF PostedFollowsOutq
<1>6. ClosesAreAskedFor'
  <2>1. \A i \in 1 .. Len(posted') : posted'[i] = t \/ (i \in 1 .. Len(posted) /\ posted'[i] = posted[i])
    BY <1>0, <1>g, <1>k, <1>1
  <2> QED
    BY <1>0, <1>g, <1>k, <1>1, <1>4, <2>1 DEF IInv, ClosesAreAskedFor
<1> QED
  BY <1>2, <1>3, <1>5, <1>6 DEF IInv

(* A close is posted: its place is behind all that were sent. *)
LEMMA DisconnectAfterFlushKeepsIInv == ASSUME IInv, DisconnectAfterFlush PROVE IInv'
<1>t. PICK t : t = Task("closeAfterFlush")
  OBVIOUS
<1>0. /\ ownerType = "server" /\ owner = "idle" /\ asked = FALSE /\ asked' = TRUE /\ mark' = next - 1
      /\ posted' = Append(posted, t)
      /\ UNCHANGED <<ownerType, owner, next, io, outq, ops, flushFirst, wire, pending, open, stopped, errors>>
  BY <1>t DEF DisconnectAfterFlush, ioVars, IInv, TypeOK
<1>g. Handled' = Handled /\ Given' = Given
  BY <1>0 DEF Handled, Unhandled, Given
<1>k. Handled \in Nat /\ Given \in Nat
  BY HandledOf
<1>1. /\ next \in 1 .. (MaxSends + 1) /\ mark \in Nat /\ Given \in Nat
      /\ posted \in Seq(Handler) /\ t \in Handler /\ t.do = "closeAfterFlush"
  BY <1>0, <1>g, <1>k, <1>t, BoundAssumption DEF IInv, TypeOK, Task, Handler
<1>2. TypeOK'
  BY <1>0, <1>g, <1>k, <1>1, BoundAssumption DEF IInv, TypeOK, Handler
<1>3. PendingCounts' /\ OneWriter' /\ QueueIsDriven' /\ WritesAreOfOutq' /\ SendsAreBounded' /\ OwnersKeepApart'
      /\ FlushMeansWritten' /\ OutqFollowsWire'
  BY <1>0, <1>g, <1>k DEF IInv, TypeOK, PendingCounts, OneWriter, QueueIsDriven, WritesAreOfOutq, SendsAreBounded, OwnersKeepApart,
              FlushMeansWritten, OutqFollowsWire
<1>4. \A i \in 1 .. Len(posted) : posted[i].do # "close" /\ posted[i].do # "closeAfterFlush"
  BY <1>0, <1>g, <1>k DEF IInv, ClosesAreAskedFor
<1>5. NothingCutOff'
  BY <1>0, <1>g, <1>k DEF IInv, NothingCutOff, ClosesAreAskedFor
<1>6. PostedFollowsOutq'
  <2>1. PICK n : n = next - 1
    OBVIOUS
  <2>2. Chain(posted, Given, n, mark) /\ n \in Nat /\ n <= n
    BY <1>1, <2>1 DEF IInv, PostedFollowsOutq
  <2>3. Before(t, n, n) = n /\ After(t, n, n) = n
    BY <1>1 DEF Before, After
  <2>4. /\ t.do # "push"
        /\ \A i \in 1 .. Len(posted) : posted[i].do # "close" /\ posted[i].do # "closeAfterFlush"
    BY <1>1, <1>4
  <2>5. Chain(Append(posted, t), Given, n, n)
    BY <1>1, <2>2, <2>3, <2>4, ChainAppend
  <2> QED
    BY <1>0, <1>g, <1>k, <2>1, <2>5 DEF PostedFollowsOutq
<1>7. ClosesAreAskedFor'
  <2>1. \A i \in 1 .. Len(posted') : posted'[i] = t \/ (i \in 1 .. Len(posted) /\ posted'[i] = posted[i])
    BY <1>0, <1>g, <1>k, <1>1
  <2> QED
    BY <1>0, <1>g, <1>k, <1>1, <1>4, <2>1 DEF IInv, ClosesAreAskedFor
<1> QED
  BY <1>2, <1>3, <1>5, <1>6, <1>7 DEF IInv

(* So is the close of disconnect(), after which nothing else is posted. *)
LEMMA DisconnectKeepsIInv == ASSUME IInv, Disconnect PROVE IInv'
<1>t. PICK t : t = Task("close")
  OBVIOUS
<1>0. /\ ownerType = "client" /\ owner = "idle" /\ owner' = "stopping"
      /\ posted' = IF open THEN Append(posted, t) ELSE posted
      /\ UNCHANGED <<ownerType, next, asked, mark, io, outq, ops, flushFirst, wire, pending, open, stopped, errors>>
  BY <1>t DEF Disconnect, ioVars
<1>g. Handled' = Handled /\ Given' = Given
  BY <1>0 DEF Handled, Unhandled, Given
<1>k. Handled \in Nat /\ Given \in Nat
  BY HandledOf
<1>1. /\ next \in 1 .. (MaxSends + 1) /\ mark \in Nat /\ Given \in Nat
      /\ posted \in Seq(Handler) /\ t \in Handler /\ t.do = "close"
  BY <1>0, <1>g, <1>k, <1>t, BoundAssumption DEF IInv, TypeOK, Task, Handler
<1>2. TypeOK'
  <2>1. posted' \in Seq(Handler)
    BY <1>0, <1>g, <1>k, <1>1
  <2> QED
    BY <1>0, <1>g, <1>k, <2>1 DEF IInv, TypeOK, Handler
<1>3. PendingCounts' /\ OneWriter' /\ QueueIsDriven' /\ WritesAreOfOutq' /\ SendsAreBounded' /\ OwnersKeepApart'
      /\ FlushMeansWritten' /\ OutqFollowsWire' /\ NothingCutOff'
  BY <1>0, <1>g, <1>k DEF IInv, TypeOK, PendingCounts, OneWriter, QueueIsDriven, WritesAreOfOutq, SendsAreBounded, OwnersKeepApart,
              FlushMeansWritten, OutqFollowsWire, NothingCutOff
<1>4. PostedFollowsOutq'
  <2>1. PICK n : n = next - 1
    OBVIOUS
  <2>2. Chain(posted, Given, n, mark) /\ n \in Nat /\ n <= n
    BY <1>1, <2>1 DEF IInv, PostedFollowsOutq
  <2>3. Before(t, n, mark) = n /\ After(t, n, mark) = n
    BY <1>1 DEF Before, After
  <2>4. Chain(Append(posted, t), Given, n, mark)
    BY <1>1, <2>2, <2>3, ChainAppend
  <2> QED
    BY <1>0, <1>g, <2>1, <2>2, <2>4 DEF PostedFollowsOutq
<1>5. ClosesAreAskedFor'
  <2>1. \A i \in 1 .. Len(posted') : posted'[i] = t \/ (i \in 1 .. Len(posted) /\ posted'[i] = posted[i])
    BY <1>0, <1>g, <1>k, <1>1
  <2> QED
    BY <1>0, <1>g, <1>k, <1>1, <2>1 DEF IInv, ClosesAreAskedFor
<1> QED
  BY <1>2, <1>3, <1>4, <1>5 DEF IInv

-----------------------------------------------------------------------------
(* The io thread's steps. *)

(* A message is pushed: it follows those in m_messages_out. *)
LEMMA RunPushKeepsIInv ==
    ASSUME IInv, RunPosted, posted[1].do = "push"
    PROVE  IInv'
<1> DEFINE msg == posted[1].msg
<1>h. Head(posted) = posted[1]
  BY DEF RunPosted, IInv, TypeOK
<1>0. /\ io = "loop" /\ posted # <<>> /\ posted' = Tail(posted)
      /\ outq' = Append(outq, msg)
      /\ ops' = IF outq = <<>> THEN Append(ops, "header") ELSE ops
      /\ UNCHANGED <<ownerType, owner, next, asked, mark, io, flushFirst, wire, pending, open, stopped, errors>>
  BY <1>h DEF RunPosted, Running, RunPush, WriteHeader, ownerVars
<1>1. /\ next \in 1 .. (MaxSends + 1) /\ mark \in Nat /\ Given \in Nat /\ next - 1 \in Nat
      /\ posted \in Seq(Handler) /\ outq \in Seq(Msg) /\ wire \in Seq(Msg)
      /\ ops \in Seq({"header", "headerDone", "body", "bodyDone"})
  BY BoundAssumption, HandledOf DEF IInv, TypeOK, Handler
<1>2. Chain(posted, Given, next - 1, mark)
  BY DEF IInv, PostedFollowsOutq
<1>3. msg = Given + 1 /\ msg \in 1 .. (next - 1)
  <2>1. Before(posted[1], next - 1, mark) = Given /\ 1 \in 1 .. Len(posted)
    BY <1>0, <1>1, <1>2 DEF Chain
  <2>2. msg \in 1 .. (next - 1)
    BY <1>2, <2>1 DEF Chain
  <2> QED
    BY <2>1, <2>2, <1>1 DEF Before
<1>4. msg \in Msg
  BY <1>1, <1>3, BoundAssumption DEF Msg
<1> HIDE DEF msg
<1>12. Handled' = Handled
  <2>1. CASE outq = <<>>
    <3>1. ops = <<>> /\ ops' = <<"header">>
      <4>1. ops = <<>>
        BY <2>1 DEF IInv, WritesAreOfOutq
      <4> QED
        BY <1>0, <2>1, <4>1
    <3>2. Len(ops) = 0 /\ Len(ops') = 1 /\ ops'[1] = "header"
      BY <3>1
    <3>3. \A i \in 1 .. Len(ops') : ops'[i] = "header"
      BY <3>2
    <3> QED
      BY <1>0, <3>2, <3>3 DEF Handled, Unhandled
  <2>2. CASE outq # <<>>
    <3>1. ops' = ops /\ Head(outq') = Head(outq)
      BY <1>0, <1>1, <1>4, <2>2
    <3> QED
      BY <1>0, <3>1 DEF Handled, Unhandled
  <2> QED
    BY <2>1, <2>2
<1>5. Given' = Given + 1
  BY <1>0, <1>1, <1>4, <1>12, HandledOf DEF Given
<1>6. TypeOK'
  <2>1. posted' \in Seq(Handler) /\ outq' \in Seq(Msg)
    BY <1>0, <1>1, <1>4
  <2>2. ops' \in Seq({"header", "headerDone", "body", "bodyDone"})
    BY <1>0, <1>1
  <2> QED
    BY <1>0, <2>1, <2>2 DEF IInv, TypeOK, Handler
<1>7. PendingCounts' /\ FlushMeansWritten' /\ NothingCutOff' /\ SendsAreBounded' /\ OwnersKeepApart'
  BY <1>0, <1>12 DEF IInv, PendingCounts, FlushMeansWritten, NothingCutOff, SendsAreBounded, OwnersKeepApart
<1>8. OneWriter' /\ QueueIsDriven' /\ WritesAreOfOutq'
  <2>1. outq' # <<>>
    <3>1. Len(outq') = Len(outq) + 1 /\ Len(outq) \in Nat /\ Len(<<>>) = 0
      BY <1>0, <1>1, <1>4
    <3> QED
      BY <3>1
  <2>2. CASE outq = <<>>
    <3>1. ops = <<>>
      BY <2>2 DEF IInv, WritesAreOfOutq
    <3>2. ops' # <<>> /\ Len(ops') = 1
      BY <1>0, <2>2, <3>1
    <3> QED
      <4>1. io' = "loop"
        BY <1>0
      <4>2. OneWriter'
        BY <3>2, <4>1 DEF OneWriter
      <4> QED
        BY <1>12, <2>1, <3>2, <4>2 DEF QueueIsDriven, WritesAreOfOutq, IInv
  <2>3. CASE outq # <<>>
    BY <1>0, <1>12, <2>1, <2>3 DEF IInv, OneWriter, QueueIsDriven, WritesAreOfOutq
  <2> QED
    BY <2>2, <2>3
<1>9. OutqFollowsWire'
  <2>1. \A i \in 1 .. Len(outq') : outq'[i] = IF i <= Len(outq) THEN outq[i] ELSE msg
    BY <1>0, <1>1, <1>4
  <2>2. Len(outq') = Len(outq) + 1 /\ Len(outq) \in Nat /\ Handled \in Nat
    BY <1>0, <1>1, <1>4, HandledOf
  <2> QED
    <3>1. msg = Handled + Len(outq) + 1
      BY <1>3 DEF Given, msg
    <3>2. ASSUME NEW i \in 1 .. Len(outq') PROVE outq'[i] = Handled' + i
      <4>1. CASE i <= Len(outq)
        BY <1>0, <1>12, <2>1, <2>2, <4>1 DEF IInv, OutqFollowsWire
      <4>2. CASE i = Len(outq) + 1
        BY <1>0, <1>12, <2>1, <2>2, <3>1, <4>2
      <4> QED
        BY <2>2, <4>1, <4>2
    <3> QED
      BY <3>2 DEF OutqFollowsWire
<1>10. PostedFollowsOutq'
  <2>1. After(posted[1], next - 1, mark) = Given + 1
    BY <1>3 DEF After, msg
  <2>2. Chain(Tail(posted), Given + 1, next - 1, mark)
    BY <1>0, <1>1, <1>2, <2>1, ChainTail
  <2> QED
    BY <1>0, <1>5, <2>2 DEF PostedFollowsOutq
<1>11. ClosesAreAskedFor'
  <2>1. \A i \in 1 .. Len(posted') : i + 1 \in 1 .. Len(posted) /\ posted'[i] = posted[i + 1]
    BY <1>0, <1>1
  <2> QED
    BY <1>0, <1>1, <1>5, <2>1 DEF IInv, ClosesAreAskedFor
<1> QED
  BY <1>6, <1>7, <1>8, <1>9, <1>10, <1>11 DEF IInv

(* A close is run: nothing of what was sent before it is still queued, or  *)
(* it waits for the queue to drain.                                        *)
LEMMA RunCloseKeepsIInv ==
    ASSUME IInv, RunPosted, posted[1].do # "push"
    PROVE  IInv'
<1>h. Head(posted) = posted[1] /\ posted[1] \in Handler
  <2>1. posted \in Seq(Handler) /\ posted # <<>>
    BY DEF RunPosted, IInv, TypeOK, Handler
  <2>2. Len(posted) \in Nat /\ Len(posted) # 0
    BY <2>1
  <2> QED
    BY <2>1, <2>2
<1>0. /\ io = "loop" /\ posted # <<>> /\ posted' = Tail(posted)
      /\ UNCHANGED <<ownerType, owner, next, asked, mark, io, outq, ops, wire, pending, stopped, errors>>
  BY <1>h DEF RunPosted, Running, RunCloseAfterFlush, ownerVars, Handler
<1>g. Handled' = Handled /\ Given' = Given
  BY <1>0 DEF Handled, Unhandled, Given
<1>k. Handled \in Nat /\ Given \in Nat
  BY HandledOf
<1>1. /\ next \in 1 .. (MaxSends + 1) /\ mark \in Nat /\ Given \in Nat /\ next - 1 \in Nat
      /\ posted \in Seq(Handler) /\ posted[1] \in Handler
  BY <1>h, <1>k, BoundAssumption DEF IInv, TypeOK, Handler
<1>2. \/ /\ posted[1].do = "closeAfterFlush" /\ outq = <<>>
         /\ open' = FALSE /\ flushFirst' = flushFirst
      \/ /\ posted[1].do = "closeAfterFlush" /\ outq # <<>>
         /\ open' = open /\ flushFirst' = TRUE
      \/ /\ posted[1].do = "close" /\ open' = FALSE /\ flushFirst' = flushFirst
  BY <1>h DEF RunPosted, RunCloseAfterFlush, Handler
<1>3. Before(posted[1], next - 1, mark) = Given /\ After(posted[1], next - 1, mark) = Given
  BY <1>0, <1>g, <1>k DEF IInv, PostedFollowsOutq, Chain, After
<1>4. posted[1].do = "closeAfterFlush" => mark = Given /\ asked
  BY <1>0, <1>g, <1>k, <1>1, <1>3 DEF Before, IInv, ClosesAreAskedFor
<1>5. posted[1].do = "close" => owner \in {"stopping", "gone"}
  BY <1>0, <1>g, <1>k, <1>1 DEF IInv, ClosesAreAskedFor
<1>6. TypeOK'
  <2>1. posted' \in Seq(Handler)
    BY <1>0, <1>g, <1>k, <1>1
  <2> QED
    BY <1>0, <1>g, <1>k, <1>2, <2>1 DEF IInv, TypeOK, Handler
<1>7. PendingCounts' /\ OneWriter' /\ QueueIsDriven' /\ FlushMeansWritten' /\ OutqFollowsWire'
      /\ WritesAreOfOutq' /\ SendsAreBounded' /\ OwnersKeepApart'
  BY <1>0, <1>g, <1>k, <1>2 DEF IInv, PendingCounts, OneWriter, QueueIsDriven, FlushMeansWritten, OutqFollowsWire,
                    WritesAreOfOutq, SendsAreBounded, OwnersKeepApart
<1>8. NothingCutOff'
  <2>1. outq = <<>> => Given = Len(wire)
    <3>1. outq = <<>> => ops = <<>> /\ Len(outq) = 0
      BY DEF IInv, WritesAreOfOutq
    <3> QED
      BY <3>1, HandledOf DEF Given
  <2> QED
    BY <1>0, <1>g, <1>k, <1>2, <1>4, <1>5, <2>1 DEF IInv, TypeOK, NothingCutOff, OwnersKeepApart
<1>9. PostedFollowsOutq'
  <2>1. Chain(Tail(posted), Given, next - 1, mark)
    BY <1>0, <1>g, <1>k, <1>1, <1>3, ChainTail DEF IInv, PostedFollowsOutq
  <2> QED
    BY <1>0, <1>g, <1>k, <2>1 DEF PostedFollowsOutq
<1>10. ClosesAreAskedFor'
  <2>1. \A i \in 1 .. Len(posted') : i + 1 \in 1 .. Len(posted) /\ posted'[i] = posted[i + 1]
    BY <1>0, <1>g, <1>k, <1>1
  <2>2. Given' = Given
    BY <1>0, <1>g, <1>k DEF Given
  <2> QED
    BY <1>0, <1>g, <1>k, <1>1, <1>2, <1>4, <1>5, <2>1, <2>2 DEF IInv, ClosesAreAskedFor
<1> QED
  BY <1>6, <1>7, <1>8, <1>9, <1>10 DEF IInv

(* Only one write is under way, and it is the front message's.  When it    *)
(* completes the message may be on the wire; nothing else moves.           *)
LEMMA WriteCompletesKeepsIInv == ASSUME IInv, WriteCompletes PROVE IInv'
<1>0. /\ io = "loop" /\ open
      /\ UNCHANGED <<ownerType, owner, next, asked, mark, io, posted, outq, pending, flushFirst, open, stopped, errors>>
  BY DEF WriteCompletes, ownerVars
<1>1. PICK i \in 1 .. Len(ops) :
          /\ ops[i] \in {"header", "body"}
          /\ ops' = [ops EXCEPT ![i] = IF @ = "header" THEN "headerDone" ELSE "bodyDone"]
          /\ wire' = IF EndsMessage(i) THEN Append(wire, Head(outq)) ELSE wire
  BY DEF WriteCompletes
<1>2. /\ outq \in Seq(Msg) /\ wire \in Seq(Msg) /\ next \in Int /\ mark \in Int
      /\ ops \in Seq({"header", "headerDone", "body", "bodyDone"})
  BY DEF IInv, TypeOK
<1>3. i = 1 /\ ops # <<>> /\ Len(ops) = 1 /\ outq # <<>> /\ Handled = Len(wire)
  <2>1. ops # <<>>
    BY <1>1
  <2>2. Len(ops) = 1 /\ outq # <<>>
    BY <2>1, HandledOf
  <2>3. i = 1
    BY <2>2
  <2>4. ~Unhandled
    BY <1>1, <2>1, <2>3, HandledOf
  <2> QED
    BY <2>1, <2>2, <2>3, <2>4 DEF Handled
<1>4. /\ ops' \in Seq({"header", "headerDone", "body", "bodyDone"}) /\ Len(ops') = 1
      /\ ops'[1] = IF ops[1] = "header" THEN "headerDone" ELSE "bodyDone"
  BY <1>1, <1>2, <1>3
<1>5. ops' # <<>>
  <2>1. Len(<<>>) = 0
    OBVIOUS
  <2> QED
    BY <1>4, <2>1
<1>6. Head(outq) \in Msg /\ Len(outq) \in Nat \ {0} /\ Len(wire) \in Nat
  <2>1. Len(outq) \in Nat /\ Len(outq) # 0
    BY <1>2, <1>3
  <2> QED
    BY <1>2, <1>3, <2>1
<1>7. /\ wire' \in Seq(Msg)
      /\ Len(wire') = IF EndsMessage(1) THEN Len(wire) + 1 ELSE Len(wire)
  BY <1>1, <1>2, <1>3, <1>6
<1>8. Handled' = Handled /\ Given' = Given
  <2>1. \A j \in 1 .. Len(ops') : j = 1
    BY <1>4
  <2>2. 1 \in 1 .. Len(ops')
    BY <1>4
  <2>3. Unhandled' <=> EndsMessage(1)
    <3>1. Unhandled' <=> \/ ops'[1] = "bodyDone"
                         \/ ops'[1] = "headerDone" /\ Head(outq) \in Bodiless
      BY <1>0, <2>1, <2>2, Zenon DEF Unhandled
    <3> QED
      BY <1>1, <1>3, <1>4, <3>1 DEF EndsMessage
  <2> QED
    BY <1>0, <1>3, <1>6, <1>7, <2>3 DEF Handled, Given
<1>9. OutqFollowsWire' /\ PostedFollowsOutq'
  BY <1>0, <1>8, OrderUnchanged DEF IInv
<1>10. TypeOK'
  BY <1>0, <1>4, <1>7 DEF IInv, TypeOK
<1>11. PendingCounts' /\ OneWriter' /\ QueueIsDriven' /\ WritesAreOfOutq' /\ SendsAreBounded' /\ OwnersKeepApart'
  BY <1>0, <1>3, <1>4, <1>5, <1>8 DEF IInv, PendingCounts, OneWriter, QueueIsDriven, WritesAreOfOutq,
                    SendsAreBounded, OwnersKeepApart
<1>12. FlushMeansWritten'
  <2>1. Given <= next - 1 /\ Given > Len(wire)
    BY <1>3, <1>6 DEF IInv, PostedFollowsOutq, Chain, Given
  <2> QED
    BY <1>0, <1>2, <1>6, <2>1, HandledOf DEF IInv, FlushMeansWritten
<1>13. NothingCutOff' /\ ClosesAreAskedFor'
  BY <1>0, <1>8 DEF IInv, NothingCutOff, ClosesAreAskedFor
<1> QED
  BY <1>9, <1>10, <1>11, <1>12, <1>13 DEF IInv

(* The handler goes on from the header to the body, or pops the message.   *)
LEMMA WrittenKeepsIInv == ASSUME IInv, Written PROVE IInv'
<1>0. /\ io = "loop"
      /\ UNCHANGED <<ownerType, owner, next, asked, mark, posted, pending, flushFirst, wire, open, stopped, errors>>
  BY DEF Written, Running, ownerVars
<1>1. /\ outq \in Seq(Msg) /\ wire \in Seq(Msg) /\ next \in Int
      /\ ops \in Seq({"header", "headerDone", "body", "bodyDone"})
  BY DEF IInv, TypeOK
<1>2. PICK i \in 1 .. Len(ops) : HeaderWritten(i) \/ BodyWritten(i)
  BY DEF Written
<1>3. i = 1 /\ ops # <<>> /\ Len(ops) = 1 /\ outq # <<>>
  <2>1. ops # <<>>
    BY <1>2
  <2>2. Len(ops) = 1 /\ outq # <<>>
    BY <2>1, HandledOf
  <2> QED
    BY <2>1, <2>2
<1>4. Len(outq) \in Nat \ {0} /\ Len(wire) \in Nat /\ Handled \in Nat
  BY <1>1, <1>3, HandledOf
<1>5. CASE PopFront(1) /\ (ops[1] = "bodyDone" \/ (ops[1] = "headerDone" /\ Head(outq) \in Bodiless))
  <2>0. outq' = Tail(outq) /\ ops' = <<>> /\ io' = "popped" /\ Len(ops') = 0
    <3>1. outq' = Tail(outq) /\ ops' = Without(ops, 1) /\ io' = "popped"
      BY <1>5 DEF PopFront
    <3>2. Without(ops, 1) = <<>>
      <4>1. Len(ops) <= 1 /\ 1 \in 1 .. Len(ops)
        BY <1>3
      <4> QED
        BY <1>1, <4>1, WithoutTheOnly
    <3>3. Len(<<>>) = 0
      OBVIOUS
    <3> QED
      BY <3>1, <3>2, <3>3
  <2>1. /\ Len(outq') = Len(outq) - 1 /\ outq' \in Seq(Msg)
        /\ \A j \in 1 .. Len(outq') : outq'[j] = outq[j + 1]
    BY <1>1, <1>3, <1>4, <2>0
  <2>2. Handled = Len(wire) - 1
    <3>1. Unhandled
      BY <1>3, <1>5, HandledOf
    <3> QED
      BY <3>1 DEF Handled
  <2>3. Handled' = Len(wire)
    <3>1. 1 .. Len(ops') = {}
      BY <2>0
    <3>2. ~Unhandled'
      BY <3>1, Zenon DEF Unhandled
    <3> QED
      BY <1>0, <3>2 DEF Handled
  <2>4. Handled' = Handled + 1 /\ Given' = Given
    BY <1>4, <2>1, <2>2, <2>3 DEF Given
  <2>5. TypeOK'
    <3>1. ops' \in Seq({"header", "headerDone", "body", "bodyDone"})
      BY <2>0
    <3> QED
      BY <1>0, <2>0, <2>1, <3>1 DEF IInv, TypeOK
  <2>6. PendingCounts'
    BY <1>0, <1>1, <1>4, <2>0, <2>4 DEF IInv, PendingCounts
  <2>7. OneWriter' /\ QueueIsDriven' /\ WritesAreOfOutq' /\ SendsAreBounded' /\ OwnersKeepApart'
    BY <1>0, <1>4, <2>0, <2>4 DEF IInv, OneWriter, QueueIsDriven, WritesAreOfOutq, SendsAreBounded, OwnersKeepApart
  <2>8. FlushMeansWritten' /\ NothingCutOff'
    BY <1>0 DEF IInv, FlushMeansWritten, NothingCutOff
  <2>9. OutqFollowsWire'
    BY <1>4, <2>1, <2>4 DEF IInv, OutqFollowsWire
  <2>10. PostedFollowsOutq' /\ ClosesAreAskedFor'
    BY <1>0, <2>4 DEF IInv, PostedFollowsOutq, ClosesAreAskedFor
  <2> QED
    BY <2>5, <2>6, <2>7, <2>8, <2>9, <2>10 DEF IInv
<1>6. CASE /\ ops[1] = "headerDone" /\ Head(outq) \notin Bodiless
           /\ ops' = [ops EXCEPT ![1] = "body"] /\ UNCHANGED <<outq, io>>
  <2>1. /\ ops' \in Seq({"header", "headerDone", "body", "bodyDone"}) /\ Len(ops') = 1
        /\ ops'[1] = "body"
    BY <1>1, <1>3, <1>6
  <2>2. ops' # <<>>
    <3>1. Len(<<>>) = 0
      OBVIOUS
    <3> QED
      BY <2>1, <3>1
  <2>3. Handled' = Handled /\ Given' = Given
    <3>1. Handled = Len(wire)
      BY <1>3, <1>6, HandledOf DEF Handled
    <3>2. \A j \in 1 .. Len(ops') : ops'[j] = "body"
      BY <2>1
    <3>3. Handled' = Len(wire')
      BY <3>2 DEF Handled, Unhandled
    <3> QED
      BY <1>0, <1>6, <3>1, <3>3 DEF Given
  <2>4. OutqFollowsWire' /\ PostedFollowsOutq'
    BY <1>0, <1>6, <2>3, OrderUnchanged DEF IInv
  <2>5. TypeOK'
    BY <1>0, <1>6, <2>1 DEF IInv, TypeOK
  <2>6. PendingCounts' /\ OneWriter' /\ QueueIsDriven' /\ WritesAreOfOutq' /\ SendsAreBounded' /\ OwnersKeepApart'
        /\ FlushMeansWritten' /\ NothingCutOff'
    BY <1>0, <1>3, <1>6, <2>1, <2>2, <2>3 DEF IInv, PendingCounts, OneWriter, QueueIsDriven,
                      WritesAreOfOutq, SendsAreBounded, OwnersKeepApart, FlushMeansWritten, NothingCutOff
  <2>7. ClosesAreAskedFor'
    BY <1>0, <1>6, <2>3 DEF IInv, ClosesAreAskedFor
  <2> QED
    BY <2>4, <2>5, <2>6, <2>7 DEF IInv
<1> QED
  BY <1>2, <1>3, <1>5, <1>6 DEF HeaderWritten, BodyWritten

LEMMA SettleKeepsIInv == ASSUME IInv, Settle PROVE IInv'
<1>0. /\ io = "popped" /\ io' = "settled"
      /\ pending' = IF pending > 0 THEN pending - 1 ELSE 0
      /\ UNCHANGED <<ownerType, next, asked, mark, posted, outq, ops, flushFirst, wire, open, stopped, errors>>
  BY DEF Settle
<1>6. owner' = owner \/ (owner = "asleep" /\ owner' = "flushing")
  BY DEF Settle
<1>g. Handled' = Handled /\ Given' = Given
  BY <1>0 DEF Handled, Unhandled, Given
<1>k. Handled \in Nat /\ Given \in Nat
  BY HandledOf
<1>1. OutqFollowsWire' /\ PostedFollowsOutq'
  BY <1>0, <1>g, <1>k, OrderUnchanged DEF IInv
<1>2. TypeOK'
  BY <1>0, <1>g, <1>k, <1>6 DEF IInv, TypeOK
<1>3. PendingCounts'
  <2>1. pending > 0
    BY <1>0, HandledOf DEF IInv, TypeOK, PendingCounts, PostedFollowsOutq, Chain, Given
  <2>2. (owner' = "counted") <=> (owner = "counted")
    BY <1>6
  <2> QED
    BY <1>0, <1>g, <1>k, <2>1, <2>2 DEF IInv, TypeOK, PendingCounts
<1>4. OneWriter' /\ QueueIsDriven' /\ WritesAreOfOutq' /\ SendsAreBounded' /\ OwnersKeepApart' /\ FlushMeansWritten'
      /\ NothingCutOff'
  BY <1>0, <1>g, <1>k, <1>6 DEF IInv, OneWriter, QueueIsDriven, WritesAreOfOutq, SendsAreBounded, OwnersKeepApart, FlushMeansWritten,
              NothingCutOff
<1>5. ClosesAreAskedFor'
  BY <1>0, <1>g, <1>k, <1>6 DEF IInv, ClosesAreAskedFor
<1> QED
  BY <1>1, <1>2, <1>3, <1>4, <1>5 DEF IInv

LEMMA ContinueKeepsIInv == ASSUME IInv, Continue PROVE IInv'
<1>0. /\ io = "settled" /\ io' = "loop"
      /\ ops' = IF outq # <<>> THEN Append(ops, "header") ELSE ops
      /\ open' = IF outq = <<>> /\ flushFirst THEN FALSE ELSE open
      /\ UNCHANGED <<ownerType, owner, next, asked, mark, posted, outq, flushFirst, wire, pending, stopped, errors>>
  BY DEF Continue, WriteHeader, ownerVars
<1>2. ops = <<>>
  BY <1>0 DEF IInv, OneWriter
<1>3. /\ ops' \in Seq({"header", "headerDone", "body", "bodyDone"}) /\ Len(ops') <= 1
      /\ outq # <<>> <=> ops' # <<>>
  <2>1. CASE outq = <<>>
    <3>1. ops' = <<>> /\ Len(<<>>) = 0
      BY <1>0, <1>2, <2>1
    <3> QED
      BY <2>1, <3>1
  <2>2. CASE outq # <<>>
    <3>1. ops' = <<"header">>
      BY <1>0, <1>2, <2>2
    <3> QED
      BY <2>2, <3>1
  <2> QED
    BY <2>1, <2>2
<1>8. Handled' = Handled /\ Given' = Given
  <2>1. Handled = Len(wire)
    BY <1>2, HandledOf
  <2>2. \A i \in 1 .. Len(ops') : ops'[i] = "header"
    <3>1. CASE outq = <<>>
      BY <1>0, <1>2, <3>1
    <3>2. CASE outq # <<>>
      <4>1. ops' = <<"header">>
        BY <1>0, <1>2, <3>2
      <4> QED
        BY <4>1
    <3> QED
      BY <3>1, <3>2
  <2>3. Handled' = Len(wire')
    BY <2>2 DEF Handled, Unhandled
  <2> QED
    BY <1>0, <2>1, <2>3 DEF Given
<1>1. OutqFollowsWire' /\ PostedFollowsOutq'
  BY <1>0, <1>8, OrderUnchanged DEF IInv
<1>4. TypeOK'
  BY <1>0, <1>3 DEF IInv, TypeOK
<1>5. PendingCounts' /\ OneWriter' /\ QueueIsDriven' /\ WritesAreOfOutq' /\ SendsAreBounded' /\ OwnersKeepApart'
      /\ FlushMeansWritten'
  BY <1>0, <1>3, <1>8 DEF IInv, PendingCounts, OneWriter, QueueIsDriven, WritesAreOfOutq, SendsAreBounded, OwnersKeepApart,
                    FlushMeansWritten
<1>6. NothingCutOff'
  <2>1. outq = <<>> /\ flushFirst => Len(wire) >= mark
    BY <1>2, HandledOf DEF IInv, TypeOK, ClosesAreAskedFor, Given
  <2> QED
    BY <1>0, <2>1 DEF IInv, NothingCutOff
<1>7. ClosesAreAskedFor'
  BY <1>0, <1>8 DEF IInv, ClosesAreAskedFor
<1> QED
  BY <1>1, <1>4, <1>5, <1>6, <1>7 DEF IInv

(* An error is counted, unless it is of a write under which the socket had *)
(* been closed already.                                                    *)
LEMMA FailureKeepsIInv == ASSUME IInv, WriteFailed \/ ReadFailed PROVE IInv'
<1>0. /\ open' = FALSE /\ io = "loop"
      /\ UNCHANGED <<ownerType, owner, next, asked, mark, io, posted, outq, flushFirst, wire, pending, stopped>>
  BY DEF WriteFailed, ReadFailed, Running, ownerVars
<1>1. errors' \in 0 .. MaxErrors /\ (open => errors' # 0) /\ (~open => errors' = errors)
  BY BoundAssumption DEF WriteFailed, ReadFailed, IInv, TypeOK
<1>2. ops' = ops \/ ops' = <<>>
  BY WithoutTheOnly DEF WriteFailed, ReadFailed, IInv, TypeOK, OneWriter
<1>7. Handled' = Handled /\ Given' = Given
  <2>1. CASE ops' = ops
    BY <1>0, <2>1 DEF Handled, Unhandled, Given
  <2>2. CASE ops' # ops
    <3>1. PICK i \in 1 .. Len(ops) : ops[i] \in {"header", "body"} /\ ops' = Without(ops, i)
      BY <2>2 DEF WriteFailed, ReadFailed
    <3>2. ops # <<>> /\ i = 1
      BY <3>1, HandledOf
    <3>3. Handled = Len(wire)
      BY <3>1, <3>2, HandledOf DEF Handled
    <3>4. Len(ops') = 0
      BY <1>2, <2>2
    <3>5. Handled' = Len(wire')
      <4>1. 1 .. Len(ops') = {}
        BY <3>4
      <4>2. ~Unhandled'
        BY <4>1, Zenon DEF Unhandled
      <4> QED
        BY <4>2 DEF Handled
    <3> QED
      BY <1>0, <3>3, <3>5 DEF Given
  <2> QED
    BY <2>1, <2>2
<1>3. OutqFollowsWire' /\ PostedFollowsOutq'
  BY <1>0, <1>7, OrderUnchanged DEF IInv
<1>4. TypeOK'
  <2>1. ops' \in Seq({"header", "headerDone", "body", "bodyDone"})
    <3>1. <<>> \in Seq({"header", "headerDone", "body", "bodyDone"}) /\ ops \in Seq({"header", "headerDone", "body", "bodyDone"})
      BY DEF IInv, TypeOK
    <3> QED
      BY <1>2, <3>1
  <2> QED
    BY <1>0, <1>1, <2>1 DEF IInv, TypeOK
<1>5. PendingCounts' /\ OneWriter' /\ QueueIsDriven' /\ WritesAreOfOutq' /\ SendsAreBounded' /\ OwnersKeepApart'
      /\ FlushMeansWritten'
  BY <1>0, <1>2, <1>7 DEF IInv, PendingCounts, OneWriter, QueueIsDriven, WritesAreOfOutq, SendsAreBounded, OwnersKeepApart,
                    FlushMeansWritten
<1>6. NothingCutOff' /\ ClosesAreAskedFor'
  BY <1>0, <1>1, <1>7 DEF IInv, NothingCutOff, ClosesAreAskedFor
<1> QED
  BY <1>3, <1>4, <1>5, <1>6 DEF IInv

-----------------------------------------------------------------------------
(* The theorems. *)

LEMMA NextKeepsIInv == IInv /\ [Next]_vars => IInv'
<1> SUFFICES ASSUME IInv, [Next]_vars PROVE IInv'
  OBVIOUS
<1>1. CASE OwnerStep
  BY <1>1, OwnerMovesKeepIInv, SendCountKeepsIInv, SendPostKeepsIInv, StopKeepsIInv,
     DisconnectAfterFlushKeepsIInv, DisconnectKeepsIInv DEF OwnerStep, OwnerMoves
<1>2. CASE IoStep
  BY <1>2, RunPushKeepsIInv, RunCloseKeepsIInv, WriteCompletesKeepsIInv, WrittenKeepsIInv, SettleKeepsIInv,
     ContinueKeepsIInv, FailureKeepsIInv DEF IoStep
<1>3. CASE UNCHANGED vars
  BY <1>3, StutterKeepsIInv
<1> QED
  BY <1>1, <1>2, <1>3 DEF Next

(* IInv holds in every reachable state. *)
THEOREM IInvHolds == Spec => []IInv
<1>1. Init => IInv
  BY InitIInv
<1>2. IInv /\ [Next]_vars => IInv'
  BY NextKeepsIInv
<1> QED
  BY <1>1, <1>2, PTL DEF Spec

(* The connection's members keep their types: send, flush, the disconnects *)
(* and the io thread's handlers, for any number of messages and errors.    *)
THEOREM TypeCorrect == Spec => []TypeOK
<1>1. IInv => TypeOK
  BY DEF IInv
<1> QED
  BY <1>1, IInvHolds, PTL

(* m_pending_writes is the number of messages that send() has counted and  *)
(* no completion has settled, at every point of both threads.              *)
THEOREM PendingIsCounted == Spec => []PendingCounts
<1>1. IInv => PendingCounts
  BY DEF IInv
<1> QED
  BY <1>1, IInvHolds, PTL

(* Never two asynchronous writes on one socket: send's handler starts one  *)
(* only when it finds the queue empty, a completion starts the next.       *)
THEOREM WriterIsSingle == Spec => []OneWriter
<1>1. IInv => OneWriter
  BY DEF IInv
<1> QED
  BY <1>1, IInvHolds, PTL

(* As long as something is queued and the socket is open, a write is under *)
(* way: no message is left behind by the check for an empty queue.         *)
THEOREM QueueKeepsItsWriter == Spec => []QueueIsDriven
<1>1. IInv => QueueIsDriven
  BY DEF IInv
<1> QED
  BY <1>1, IInvHolds, PTL

(* When waitForOutgoingQueueEmpty lets the owner go, all it sent is on the *)
(* wire.                                                                   *)
THEOREM FlushIsHonest == Spec => []FlushMeansWritten
<1>1. IInv => FlushMeansWritten
  BY DEF IInv
<1> QED
  BY <1>1, IInvHolds, PTL

(* disconnectAfterFlush closes behind everything sent before it.           *)
THEOREM CloseCutsNothingOff == Spec => []NothingCutOff
<1>1. IInv => NothingCutOff
  BY DEF IInv
<1> QED
  BY <1>1, IInvHolds, PTL

-----------------------------------------------------------------------------
(* The refinement. *)

(* What is under Channel's queue while the socket is open, and its steps.  *)
LEMMA UnwrittenKept ==
    ASSUME Accepted' = Accepted, wire' = wire
    PROVE  Unwritten' = Unwritten
  BY DEF Unwritten

LEMMA FirstOfARun ==
    ASSUME NEW n \in Nat, NEW m \in Nat \ {0}
    PROVE  LET run == [i \in 1 .. m |-> n + i]
           IN  /\ run # <<>> /\ Head(run) = n + 1
               /\ Tail(run) = [i \in 1 .. (m - 1) |-> (n + 1) + i]
<1> DEFINE run == [i \in 1 .. m |-> n + i]
<1>1. run \in Seq(Nat) /\ Len(run) = m
  OBVIOUS
<1>2. Len(<<>>) = 0
  OBVIOUS
<1>3. Head(run) = n + 1
  OBVIOUS
<1>4. Tail(run) = [i \in 1 .. (m - 1) |-> (n + 1) + i]
  BY <1>1
<1>5. run # <<>>
  <2> HIDE DEF run
  <2> QED
    BY <1>1, <1>2
<1> QED
  BY <1>3, <1>4, <1>5

(* What the abstract variables of Channel do in a step that neither sends  *)
(* nor writes: the socket stays as it is, or closes for a reason.          *)
LEMMA StepOfTheSocket ==
    ASSUME IInv, Unwritten' = Unwritten, wire' = wire, asked' = asked, mark' = mark,
           Broken => Broken',
           \/ open' = open
           \/ open' = FALSE /\ (Broken' \/ (asked /\ Len(wire) >= mark))
    PROVE  [Chan!Next]_(Chan!vars)
<1>0. open \in BOOLEAN /\ open' \in BOOLEAN /\ Broken \in BOOLEAN /\ Broken' \in BOOLEAN
  BY DEF IInv, TypeOK, Broken
<1>1. CASE Broken' /\ ~Broken
  BY <1>0, <1>1 DEF Chan!Next, Chan!Break
<1>2. CASE Broken' = Broken /\ open' = open
  BY <1>2 DEF Chan!vars
<1>3. CASE Broken' = Broken /\ open' # open
  BY <1>0, <1>3 DEF Chan!Next, Chan!Close
<1> QED
  BY <1>0, <1>1, <1>2, <1>3

LEMMA StepIsChannelStep ==
    ASSUME IInv, [Next]_vars
    PROVE  [Chan!Next]_(Chan!vars)
<1>h. /\ next \in 1 .. (MaxSends + 1) /\ Len(wire) \in Nat /\ Len(outq) \in Nat
      /\ Handled \in Nat /\ Given \in Nat /\ Given <= next - 1 /\ Len(wire) <= Given
      /\ Len(wire) <= next - 1
  <2>1. next \in 1 .. (MaxSends + 1) /\ Len(wire) \in Nat /\ Len(outq) \in Nat
    BY DEF IInv, TypeOK
  <2>2. Given <= next - 1 /\ Handled \in Nat
    BY HandledOf DEF IInv, PostedFollowsOutq, Chain
  <2>3. CASE ops = <<>>
    BY <2>1, <2>2, <2>3, HandledOf DEF Given
  <2>4. CASE ops # <<>>
    <3>1. outq # <<>> /\ Handled >= Len(wire) - 1
      BY <2>1, <2>4, HandledOf DEF Handled
    <3>2. Len(outq) # 0
      BY <3>1 DEF IInv, TypeOK
    <3> QED
      BY <2>1, <2>2, <3>1, <3>2 DEF Given
  <2> QED
    BY <2>1, <2>2, <2>3, <2>4, HandledOf
<1>1. CASE SendCheck
  <2>0. /\ open /\ open' = open /\ wire' = wire /\ asked' = asked /\ mark' = mark
        /\ Accepted = next - 1 /\ Accepted' = next /\ next \in Msg
        /\ Broken' = Broken
    BY <1>h, <1>1, BoundAssumption DEF SendCheck, ioVars, Accepted, Msg, Broken
  <2>1. Unwritten' = Append(Unwritten, next)
    BY <1>h, <2>0 DEF Unwritten, Msg
  <2>2. Chan!Send(next)
    BY <2>0, <2>1 DEF Chan!Send
  <2> QED
    BY <2>0, <2>2 DEF Chan!Next
<1>2. CASE SendCount \/ SendPost \/ FlushStart \/ FlushTest \/ FlushReturn \/ SpuriousWakeup \/ Disconnect \/ Stop
  <2>1. wire' = wire /\ open' = open /\ asked' = asked /\ mark' = mark
    BY <1>2 DEF SendCount, SendPost, FlushStart, FlushTest, FlushReturn, SpuriousWakeup, Disconnect,
                Stop, ioVars
  <2>2. Accepted' = Accepted
    BY <1>h, <1>2 DEF SendCount, SendPost, FlushStart, FlushTest, FlushReturn, SpuriousWakeup, Disconnect,
                Stop, Accepted
  <2>3. Broken => Broken'
    BY <1>2 DEF SendCount, SendPost, FlushStart, FlushTest, FlushReturn, SpuriousWakeup, Disconnect,
                Stop, Broken
  <2> QED
    BY <2>1, <2>2, <2>3, UnwrittenKept, StepOfTheSocket
<1>3. CASE DisconnectAfterFlush
  <2>1. /\ wire' = wire /\ open' = open /\ asked' = TRUE /\ mark' = next - 1
        /\ Accepted' = Accepted /\ Accepted = next - 1 /\ Broken' = Broken
    BY <1>3 DEF DisconnectAfterFlush, ioVars, Accepted, Broken
  <2>2. Unwritten' = Unwritten
    BY <2>1, UnwrittenKept
  <2>3. Len(Unwritten) = next - 1 - Len(wire)
    BY <1>h, <2>1 DEF Unwritten
  <2>4. mark' = Len(wire) + Len(Unwritten)
    BY <1>h, <2>1, <2>3
  <2> QED
    BY <2>1, <2>2, <2>4 DEF Chan!Next, Chan!AskClose
<1>4. CASE RunPosted \/ Written \/ Settle \/ Continue \/ WriteFailed \/ ReadFailed
  <2>1. wire' = wire /\ asked' = asked /\ mark' = mark /\ next' = next
        /\ (owner' = owner \/ (owner = "asleep" /\ owner' = "flushing"))
    BY <1>4 DEF RunPosted, Written, Settle, Continue, WriteFailed, ReadFailed, ownerVars
  <2>2. Unwritten' = Unwritten
    BY <2>1, UnwrittenKept DEF Accepted
  <2>3. /\ errors \in Nat /\ (errors' = errors \/ errors' = errors + 1)
        /\ Broken => Broken'
    <3>0. errors \in Nat
      BY BoundAssumption DEF IInv, TypeOK
    <3>1. errors' = errors \/ errors' = errors + 1
      BY <1>4 DEF RunPosted, Written, Settle, Continue, WriteFailed, ReadFailed
    <3> QED
      BY <2>1, <3>0, <3>1 DEF Broken
  <2>4. \/ open' = open
        \/ open' = FALSE /\ (Broken' \/ (asked /\ Len(wire) >= mark))
    <3>0. outq = <<>> => Len(wire) = Given
      <4>1. outq = <<>> => ops = <<>> /\ Len(outq) = 0
        BY DEF IInv, WritesAreOfOutq
      <4> QED
        BY <4>1, HandledOf DEF Given
    <3>1. CASE RunPosted
      <4>1. posted \in Seq(Handler) /\ posted # <<>> /\ 1 \in 1 .. Len(posted)
        <5>1. posted \in Seq(Handler) /\ posted # <<>>
          BY <3>1 DEF RunPosted, IInv, TypeOK, Handler
        <5>2. Len(posted) \in Nat /\ Len(posted) # 0
          BY <5>1
        <5> QED
          BY <5>1, <5>2
      <4>2. Head(posted) = posted[1] /\ posted[1] \in Handler
        BY <4>1
      <4>3. CASE posted[1].do = "push"
        BY <3>1, <4>2, <4>3 DEF RunPosted, RunPush
      <4>4. CASE posted[1].do = "close"
        BY <2>1, <3>1, <4>1, <4>2, <4>4 DEF RunPosted, Broken, IInv, ClosesAreAskedFor
      <4>5. CASE posted[1].do = "closeAfterFlush"
        <5>1. asked /\ mark = Given
          BY <4>1, <4>5 DEF IInv, ClosesAreAskedFor, PostedFollowsOutq, Chain, Before
        <5>2. open' = open \/ (open' = FALSE /\ outq = <<>>)
          BY <3>1, <4>2, <4>5 DEF RunPosted, RunCloseAfterFlush
        <5> QED
          BY <1>h, <3>0, <5>1, <5>2
      <4> QED
        BY <4>2, <4>3, <4>4, <4>5 DEF Handler
    <3>2. CASE Continue
      <4>1. open' = open \/ (open' = FALSE /\ outq = <<>> /\ flushFirst)
        BY <3>2 DEF Continue
      <4>2. flushFirst => asked /\ mark <= Given
        BY DEF IInv, ClosesAreAskedFor
      <4>3. mark \in Int /\ Given \in Int
        BY HandledOf DEF IInv, TypeOK
      <4> QED
        BY <1>h, <3>0, <4>1, <4>2, <4>3
    <3>3. CASE Written \/ Settle
      BY <3>3 DEF Written, Settle
    <3>4. CASE WriteFailed \/ ReadFailed
      <4>1. open' = FALSE /\ (open => errors' = errors + 1)
        BY <3>4 DEF WriteFailed, ReadFailed
      <4>2. open \in BOOLEAN
        BY DEF IInv, TypeOK
      <4>3. CASE open
        <5>1. errors' > 0
          BY <2>3, <4>1, <4>3
        <5> QED
          BY <4>1, <5>1 DEF Broken
      <4> QED
        BY <4>1, <4>2, <4>3
    <3> QED
      BY <1>4, <3>1, <3>2, <3>3, <3>4
  <2> QED
    BY <2>1, <2>2, <2>3, <2>4, StepOfTheSocket
<1>5. CASE WriteCompletes
  <2>0. /\ open /\ open' = open /\ asked' = asked /\ mark' = mark
        /\ Accepted' = Accepted /\ Accepted \in Int /\ Accepted >= next - 1 /\ Broken' = Broken
    BY <1>h, <1>5 DEF WriteCompletes, ownerVars, Accepted, Broken
  <2>1. PICK i \in 1 .. Len(ops) :
            /\ ops[i] \in {"header", "body"}
            /\ wire' = IF EndsMessage(i) THEN Append(wire, Head(outq)) ELSE wire
    BY <1>5 DEF WriteCompletes
  <2>2. CASE wire' = wire
    BY <2>0, <2>2, UnwrittenKept, StepOfTheSocket
  <2>3. CASE wire' = Append(wire, Head(outq))
    <3>1. ops # <<>> /\ i = 1
      <4>1. ops # <<>>
        BY <2>1
      <4>2. Len(ops) = 1
        BY <4>1, HandledOf
      <4> QED
        BY <2>1, <4>1, <4>2
    <3>2. outq # <<>> /\ Handled = Len(wire)
      <4>1. ~Unhandled
        BY <2>1, <3>1, HandledOf
      <4> QED
        BY <3>1, <4>1, HandledOf DEF Handled
    <3>3. outq \in Seq(Msg) /\ wire \in Seq(Msg)
      BY DEF IInv, TypeOK
    <3>4. Len(outq) \in Nat /\ Len(outq) # 0 /\ Head(outq) = outq[1]
      BY <3>2, <3>3
    <3>5. Head(outq) = Len(wire) + 1
      BY <3>2, <3>4 DEF IInv, OutqFollowsWire
    <3>6. Len(wire) + 1 <= Accepted /\ Len(wire') = Len(wire) + 1
      BY <1>h, <2>0, <2>3, <3>2, <3>3, <3>4 DEF Given
    <3>7. Accepted - Len(wire) \in Nat \ {0}
      BY <1>h, <2>0, <3>6
    <3>8. Unwritten # <<>> /\ Head(Unwritten) = Len(wire) + 1
      BY <1>h, <3>7, FirstOfARun DEF Unwritten
    <3>9. Unwritten' = Tail(Unwritten)
      <4>1. Unwritten' = [j \in 1 .. (Accepted - Len(wire) - 1) |-> (Len(wire) + 1) + j]
        BY <1>h, <2>0, <3>6 DEF Unwritten
      <4> QED
        BY <1>h, <3>7, <4>1, FirstOfARun DEF Unwritten
    <3> QED
      BY <2>0, <2>3, <3>5, <3>8, <3>9 DEF Chan!Next, Chan!Write
  <2> QED
    BY <2>1, <2>2, <2>3
<1>6. CASE UNCHANGED vars
  BY <1>6, UnwrittenKept DEF vars, ownerVars, ioVars, Accepted, Broken, Chan!vars
<1> QED
  BY <1>1, <1>2, <1>3, <1>4, <1>5, <1>6 DEF Next, OwnerStep, IoStep

(* A connection is the first-in first-out channel that FileServer and      *)
(* Transfer take it for: what send() accepts is written once and in order, *)
(* and the close of disconnectAfterFlush waits for everything sent before  *)
(* it, unless an error or the owner's leaving closes the socket first.     *)
THEOREM ConnectionIsChannel == Spec => ImplementsChannel
<1>1. Init => Chan!Init
  <2>1. Init => Unwritten = <<>>
    BY DEF Init, Unwritten, Accepted
  <2>2. Init => ~Broken
    BY DEF Init, Broken
  <2> QED
    BY <2>1, <2>2 DEF Init, Chan!Init
<1>2. IInv /\ [Next]_vars => [Chan!Next]_(Chan!vars)
  BY StepIsChannelStep
<1> QED
  BY <1>1, <1>2, IInvHolds, PTL DEF Spec, ImplementsChannel, Chan!Spec
=============================================================================
