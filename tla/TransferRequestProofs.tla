------------------------ MODULE TransferRequestProofs ------------------------
(***************************************************************************)
(* What leads a receiver to a sender, for every set of senders, receivers, *)
(* phrases and files and under every fault.                                *)
(*                                                                         *)
(* Two more layers on top of TransferProofs.                               *)
(*   Codes      a client's messages carry the phrase it was given, and an  *)
(*              offer is found under the phrase its sender printed;        *)
(*   Requests   the life of a receiver's request: nothing reaches it       *)
(*              before it has consented, its Receive is heard once.        *)
(***************************************************************************)
EXTENDS TransferProofs

-----------------------------------------------------------------------------
(* Codes. *)

(* What c says of its phrase and its file is so. *)
Truthful(c, m) ==
    /\ m.id \in {"Send", "RequestReceive", "Receive"} => m.code = code[c]
    /\ m.id = "Send" => m.file = FileOf[c]

AllTruthful(c, q) == \A i \in 1 .. Len(q) : Truthful(c, q[i])

HeardTruthful(c) ==
    \A i \in 1 .. Len(incoming) : incoming[i].remote = c => Truthful(c, incoming[i].msg)

Code(c) ==
    /\ pc[c] \in {"new", "hello"} => code[c] = None /\ Quiet(c)
    /\ AllTruthful(c, up[c])
    /\ HeardTruthful(c)
    /\ c \in Sender => context[c] \in {None, FileOf[c]} /\ phrase[c] \in {None, code[c]}

Codes == \A c \in Client : Code(c)

LEMMA TruthfulFrame ==
    ASSUME NEW c, NEW m, Truthful(c, m), code'[c] = code[c]
    PROVE  Truthful(c, m)'
  BY DEF Truthful

LEMMA HeardFrame ==
    ASSUME NEW c, Code(c), NoNews(c), code'[c] = code[c]
    PROVE  HeardTruthful(c)'
<1>1. PICK k \in {0, 1} : \A i \in 1 .. Len(incoming') : incoming'[i].remote = c =>
          i + k \in 1 .. Len(incoming) /\ incoming'[i] = incoming[i + k]
  BY DEF NoNews
<1> QED
  BY <1>1 DEF Code, HeardTruthful, Truthful

LEMMA CodeFrame ==
    ASSUME Known, NEW c \in Client, Code(c), SameClient(c), SameTablesOf(c), NoNews(c)
    PROVE  Code(c)'
<1>1. /\ pc'[c] = pc[c] /\ code'[c] = code[c] /\ up'[c] = up[c]
      /\ context'[c] = context[c] /\ phrase'[c] = phrase[c]
  BY DEF SameClient, SameTablesOf
<1>2. NoneHeard(c) => NoneHeard(c)'
  BY NoNewsNone
<1>3. HeardTruthful(c)'
  BY <1>1, HeardFrame
<1>4. AllTruthful(c, up[c])'
  BY <1>1 DEF Code, AllTruthful, HeardTruthful, Truthful
<1> QED
  BY <1>1, <1>2, <1>3, <1>4 DEF Code, Quiet

LEMMA TruthfulPut ==
    ASSUME NEW S, NEW q \in Seq(S), NEW c, AllTruthful(c, q), NEW m \in S, Truthful(c, m)
    PROVE  AllTruthful(c, Put(q, c, m)) /\ Put(q, c, m) \in Seq(S)
  BY DEF Put, AllTruthful

LEMMA TruthfulPrefix ==
    ASSUME NEW S, NEW q \in Seq(S), NEW c, AllTruthful(c, q), NEW n \in 0 .. Len(q)
    PROVE  AllTruthful(c, SubSeq(q, 1, n))
  BY DEF AllTruthful

(* What is not about a phrase is truthful. *)
LEMMA DataTruthful ==
    ASSUME NEW c
    PROVE  /\ \A b : Truthful(c, Server!Chunk(b))
           /\ \A id \in {"FinalChunk", "FinishReceive", "FailedReceive"} :
                 Truthful(c, Server!Signal(id))
  BY DEF Truthful, Server!Chunk, Server!Signal, Server!Encode

(* A routine's step that leaves the phrase alone. *)
LEMMA RoutineKeepsCode ==
    ASSUME Known, NEW c \in Client, Code(c), UNCHANGED serverVars, code'[c] = code[c],
           pc'[c] \notin {"new", "hello"}, AllTruthful(c, up'[c])
    PROVE  Code(c)'
<1>1. UNCHANGED <<incoming, phrase, context>>
  BY DEF serverVars
<1> QED
  BY <1>1 DEF Code, AllTruthful, HeardTruthful, Truthful

LEMMA LeaveKeepsCode ==
    ASSUME Known, NEW c \in Client, Code(c), UNCHANGED serverVars, code'[c] = code[c],
           NEW result \in Over, NEW q \in Seq(Server!ClientMessage), AllTruthful(c, q),
           Leave(c, result, q)
    PROVE  Code(c)'
<1>1. pc'[c] = result /\ \E n \in 0 .. Len(q) : up'[c] = SubSeq(q, 1, n)
  BY LeaveFacts
<1>2. AllTruthful(c, up'[c])
  BY <1>1, TruthfulPrefix
<1> QED
  BY <1>1, <1>2, RoutineKeepsCode DEF Over

LEMMA QueueKeepsCode ==
    ASSUME Known, NEW c \in Client, Code(c), UNCHANGED serverVars, code'[c] = code[c],
           pc'[c] \notin {"new", "hello"}, NEW m \in Server!ClientMessage, Truthful(c, m),
           Queue(c, m)
    PROVE  Code(c)'
<1>1. up'[c] = Put(up[c], c, m)
  BY DEF Queue, Known, Sending
<1>2. AllTruthful(c, up'[c])
  BY <1>1, TruthfulPut, UpType DEF Code
<1> QED
  BY <1>2, RoutineKeepsCode

LEMMA AnswerKeepsCode ==
    ASSUME Known, NEW c \in Client, Code(c), UNCHANGED serverVars, code'[c] = code[c],
           NEW next, next \notin {"new", "hello"}, pc[c] \notin {"new", "hello"}, Answer(c, next)
    PROVE  Code(c)'
<1>1. CASE Leave(c, "failed", up[c])
  BY <1>1, LeaveKeepsCode, UpType DEF Code, Over
<1>2. CASE up' = up /\ \E l \in {next, pc[c]} : pc' = [pc EXCEPT ![c] = l]
  BY <1>2, RoutineKeepsCode DEF Code, Known, Sending
<1> QED
  BY <1>1, <1>2 DEF Answer, Go

(* The phrase is given before anything is said. *)
LEMMA NamingKeepsCode ==
    ASSUME Known, NEW c \in Client, Code(c), pc[c] = "hello", UNCHANGED serverVars,
           pc'[c] \notin {"new", "hello"},
           \/ up'[c] = <<>>
           \/ \E m : up'[c] = <<m>> /\ Truthful(c, m)',
           c \in Sender => Offer(c)
    PROVE  Code(c)'
<1>1. UNCHANGED <<incoming, phrase, context>> /\ Quiet(c)
  BY DEF serverVars, Code
<1>2. AllTruthful(c, up[c])'
  <2>1. ASSUME NEW m, up'[c] = <<m>>, Truthful(c, m)'
        PROVE  AllTruthful(c, up[c])'
    <3>1. Len(<<m>>) = 1 /\ <<m>>[1] = m
      OBVIOUS
    <3> QED
      BY <2>1, <3>1 DEF AllTruthful, Truthful
  <2>2. CASE up'[c] = <<>>
    BY <2>2 DEF AllTruthful
  <2> QED
    BY <2>1, <2>2
<1>3. c \in Sender => phrase[c] = None
  BY DEF Offer, Fresh, Unoffered
<1> QED
  BY <1>1, <1>2, <1>3 DEF Code, Quiet, NoneHeard, HeardTruthful

(* On a queue that is empty a routine puts one message or none. *)
LEMMA PutFirst ==
    ASSUME Known, NEW c \in Client, NEW m, Queue(c, m), up[c] = <<>>
    PROVE  up'[c] = <<m>> \/ up'[c] = <<>>
  BY DEF Queue, Put, Known, Sending

LEMMA SenderKeepsCode ==
    ASSUME Known, Offers, NEW s \in Sender, Code(s),
           SenderStep(s) \/ Crash(s) \/ FileGone(s) \/ ReadError(s)
    PROVE  Code(s)'
<1>0. s \in Client /\ UNCHANGED serverVars /\ up[s] \in Seq(Server!ClientMessage)
      /\ AllTruthful(s, up[s]) /\ Offer(s)
  BY SenderSpeaks, UpType DEF Spoken, Client, Code, Offers
<1>1. CASE Announce(s)
  <2>1. PICK p \in Phrase :
           /\ code' = [code EXCEPT ![s] = p]
           /\ IF link[s] THEN Queue(s, Server!Send(p, FileOf[s])) /\ Go(s, "await")
                         ELSE Leave(s, "failed", up[s])
    BY <1>1 DEF Announce
  <2>2. pc[s] = "hello" /\ up[s] = <<>> /\ code'[s] = p
    BY <1>0, <1>1, <2>1 DEF Announce, Code, Quiet, Known, Sending
  <2>3. pc'[s] \in {"await", "failed"}
    BY <1>0, <2>1, LeaveFacts DEF Go, Known, Sending
  <2>4. Truthful(s, Server!Send(p, FileOf[s]))'
    BY <2>2 DEF Truthful, Server!Send, Server!Encode
  <2>5. up'[s] = <<>> \/ up'[s] = <<Server!Send(p, FileOf[s])>>
    <3>1. CASE link[s]
      BY <1>0, <2>1, <2>2, <3>1, PutFirst
    <3>2. CASE ~link[s]
      <4>1. \E n \in 0 .. Len(up[s]) : up'[s] = SubSeq(up[s], 1, n)
        BY <1>0, <2>1, <3>2, FailFacts
      <4> QED
        BY <2>2, <4>1
    <3> QED
      BY <3>1, <3>2
  <2> QED
    BY <1>0, <2>2, <2>3, <2>4, <2>5, NamingKeepsCode
<1>2. CASE AwaitReceiver(s)
  BY <1>0, <1>2, AnswerKeepsCode DEF AwaitReceiver
<1>3. CASE SendChunk(s)
  <2>1. Server!Chunk(Contents(FileOf[s])[sent[s] + 1]) \in Server!ClientMessage
    BY <1>3, NextChunk, ChunkIsClientMessage DEF SendChunk
  <2> QED
    BY <1>0, <1>3, <2>1, QueueKeepsCode, DataTruthful DEF SendChunk
<1>4. CASE EndOfInput(s)
  <2>1. pc'[s] = "confirm" /\ code' = code /\ Queue(s, Server!Signal("FinalChunk"))
    BY <1>0, <1>4 DEF EndOfInput, Go, Known, Sending
  <2> QED
    BY <1>0, <2>1, QueueKeepsCode, DataTruthful, SignalIsClientMessage
<1>5. CASE StopSending(s)
  <2>1. Leave(s, "failed", Put(up[s], s, Server!Signal("FinalChunk"))) /\ code' = code
    BY <1>5 DEF StopSending, dataVars
  <2>2. /\ AllTruthful(s, Put(up[s], s, Server!Signal("FinalChunk")))
        /\ Put(up[s], s, Server!Signal("FinalChunk")) \in Seq(Server!ClientMessage)
    BY <1>0, TruthfulPut, DataTruthful, SignalIsClientMessage
  <2> QED
    BY <1>0, <2>1, <2>2, LeaveKeepsCode DEF Over
<1>6. CASE Confirm(s)
  <2>1. pc[s] = "confirm" /\ code' = code
    BY <1>6 DEF Confirm, dataVars
  <2>2. \/ Leave(s, "ok", up[s])
        \/ Leave(s, "failed", up[s])
        \/ UNCHANGED <<pc, up>>
    BY <1>6 DEF Confirm
  <2> QED
    BY <1>0, <2>1, <2>2, LeaveKeepsCode, RoutineKeepsCode DEF Over
<1>7. CASE Crash(s) \/ FileGone(s)
  BY <1>0, <1>7, LeaveKeepsCode DEF Crash, FileGone, dataVars, Over
<1> QED
  BY <1>1, <1>2, <1>3, <1>4, <1>5, <1>6, <1>7 DEF SenderStep, FinishSending, ReadError

LEMMA ReceiverKeepsCode ==
    ASSUME Known, NEW r \in Receiver, Code(r),
           \/ ReceiverStep(r) \/ Decline(r) \/ Consent(r) \/ Crash(r)
           \/ OpenError(r) \/ WriteError(r)
    PROVE  Code(r)'
<1>0. r \in Client /\ r \notin Sender /\ UNCHANGED serverVars
      /\ up[r] \in Seq(Server!ClientMessage) /\ AllTruthful(r, up[r])
  BY ReceiverSpeaks, UpType, ClientsAssumption DEF Spoken, Client, Code
<1>1. CASE Ask(r)
  <2>1. PICK p \in Phrase :
           /\ code' = [code EXCEPT ![r] = p]
           /\ Queue(r, Server!RequestReceive(p)) /\ Go(r, "asked")
    BY <1>1 DEF Ask
  <2>2. pc[r] = "hello" /\ up[r] = <<>> /\ code'[r] = p /\ pc'[r] = "asked"
    BY <1>0, <1>1, <2>1 DEF Ask, Code, Quiet, Go, Known, Sending
  <2>3. Truthful(r, Server!RequestReceive(p))'
    BY <2>2 DEF Truthful, Server!RequestReceive, Server!Encode
  <2> QED
    BY <1>0, <2>1, <2>2, <2>3, PutFirst, NamingKeepsCode
<1>2. CASE AwaitOffer(r)
  BY <1>0, <1>2, AnswerKeepsCode DEF AwaitOffer
<1>3. ASSUME NEW written, TakeMessage(r, written)
      PROVE  Code(r)'
  <2>1. pc[r] = "receiving" /\ code' = code
    BY <1>3 DEF TakeMessage
  <2>2. \/ Leave(r, "failed", up[r])
        \/ ReportSuccess(r)
        \/ UNCHANGED <<pc, up>>
    BY <1>3 DEF TakeMessage
  <2>3. CASE ReportSuccess(r)
    <3>1. pc'[r] = "flushing" /\ Queue(r, Server!Signal("FinishReceive"))
      BY <1>0, <2>3 DEF ReportSuccess, Go, Known, Sending
    <3> QED
      BY <1>0, <2>1, <3>1, QueueKeepsCode, DataTruthful, SignalIsClientMessage
  <2> QED
    BY <1>0, <2>1, <2>2, <2>3, LeaveKeepsCode, RoutineKeepsCode DEF Over
<1>4. CASE Flushed(r)
  <2>1. pc'[r] = "ok" /\ up' = up /\ code' = code
    BY <1>0, <1>4 DEF Flushed, dataVars, Go, Known, Sending
  <2> QED
    BY <1>0, <2>1, RoutineKeepsCode
<1>5. CASE Decline(r) \/ Crash(r)
  BY <1>0, <1>5, LeaveKeepsCode DEF Decline, Crash, dataVars, Over
<1>6. ASSUME pc[r] = "prompt"
      PROVE  /\ Server!Receive(code[r]) \in Server!ClientMessage
             /\ Truthful(r, Server!Receive(code[r]))
  BY <1>6, PhraseIsClientMessage
     DEF Known, Sending, Truthful, Server!Receive, Server!Encode
<1>7. CASE Consent(r)
  <2>1. pc'[r] = "receiving" /\ code' = code /\ Queue(r, Server!Receive(code[r]))
    BY <1>0, <1>7 DEF Consent, dataVars, Go, Known, Sending
  <2> QED
    BY <1>0, <1>6, <1>7, <2>1, QueueKeepsCode DEF Consent
<1>8. CASE OpenError(r)
  <2> DEFINE q == Put(up[r], r, Server!Receive(code[r]))
  <2>1. AllTruthful(r, q) /\ q \in Seq(Server!ClientMessage)
    BY <1>0, <1>6, <1>8, TruthfulPut DEF OpenError
  <2>2. /\ AllTruthful(r, Put(q, r, Server!Signal("FailedReceive")))
        /\ Put(q, r, Server!Signal("FailedReceive")) \in Seq(Server!ClientMessage)
    BY <2>1, TruthfulPut, DataTruthful, SignalIsClientMessage
  <2>3. Leave(r, "failed", Put(q, r, Server!Signal("FailedReceive"))) /\ code' = code
    BY <1>8 DEF OpenError, dataVars
  <2> QED
    BY <1>0, <2>2, <2>3, LeaveKeepsCode DEF Over
<1> QED
  BY <1>1, <1>2, <1>3, <1>4, <1>5, <1>7, <1>8 DEF ReceiverStep, ReceiveMessage, WriteError

(* What the server's end has done with the queue from c. *)
LEMMA UnreadTruthful ==
    ASSUME Known, NEW c \in Client, Code(c), Unread(c) \/ up' = up
    PROVE  AllTruthful(c, up'[c]) /\ (up[c] = <<>> => up'[c] = <<>>)
<1>1. up[c] \in Seq(Server!ClientMessage)
  BY UpType
<1>2. up'[c] \in {up[c], <<>>} \/ (up[c] # <<>> /\ up'[c] = <<Head(up[c])>>)
  BY UnreadFacts
<1>3. ASSUME up[c] # <<>>, up'[c] = <<Head(up[c])>>
      PROVE  AllTruthful(c, up'[c])
  <2>1. PICK m : m = Head(up[c])
    OBVIOUS
  <2>2. Truthful(c, m) /\ Len(<<m>>) = 1 /\ <<m>>[1] = m /\ up'[c] = <<m>>
    BY <1>1, <1>3, <2>1, HeadTail DEF Code, AllTruthful
  <2> QED
    BY <2>2 DEF AllTruthful
<1>4. AllTruthful(c, <<>>)
  BY DEF AllTruthful
<1> QED
  BY <1>2, <1>3, <1>4 DEF Code

LEMMA NetworkKeepsCode ==
    ASSUME Known, NEW c \in Client, Code(c),
           NetworkStep(c) \/ Reset(c) \/ Start(c)
    PROVE  Code(c)'
<1>1. CASE ServerReads(c)
  <2>1. /\ up[c] # <<>> /\ up'[c] = Tail(up[c]) /\ UNCHANGED <<pc, code, phrase, context>>
        /\ incoming' = Append(incoming, [remote |-> c, msg |-> Head(up[c])])
    BY <1>1 DEF ServerReads, Server!Arrive, Server!storage, dataVars, Known, Sending
  <2>2. /\ up[c] \in Seq(Server!ClientMessage) /\ incoming \in Seq(Heard)
    BY UpType
  <2>3. AllTruthful(c, Tail(up[c])) /\ Truthful(c, Head(up[c]))
    BY <2>1, <2>2, HeadTail DEF Code, AllTruthful
  <2>4. \A i \in 1 .. Len(incoming') :
           \/ i \in 1 .. Len(incoming) /\ incoming'[i] = incoming[i]
           \/ incoming'[i].msg = Head(up[c])
    BY <2>1, <2>2
  <2>5. HeardTruthful(c)'
    BY <2>1, <2>3, <2>4 DEF Code, HeardTruthful, Truthful
  <2>6. pc[c] \notin {"new", "hello"}
    BY <2>1 DEF Code, Quiet
  <2> QED
    BY <2>1, <2>3, <2>5, <2>6 DEF Code, AllTruthful, Truthful
<1>2. CASE ServerWrites(c) \/ ClientNotices(c)
  <2>1. UNCHANGED <<pc, code, up, incoming, phrase, context>>
    BY <1>2 DEF ServerWrites, ClientNotices, Server!WriteDone, Server!storage, serverVars, dataVars
  <2> QED
    BY <2>1 DEF Code, Quiet, NoneHeard, AllTruthful, HeardTruthful, Truthful
<1>3. CASE ServerCloses(c) \/ Reset(c) \/ ServerNotices(c)
  <2>1. Server!Close(c) /\ (Unread(c) \/ up' = up) /\ UNCHANGED <<pc, code>>
    BY <1>3 DEF ServerCloses, ServerNotices, Reset, Server!CloseFlushed, Server!ConnectionLost,
       clientVars, dataVars
  <2>2. UNCHANGED <<incoming, phrase, context>>
    BY <2>1 DEF Server!Close, Server!storage
  <2>3. AllTruthful(c, up'[c]) /\ (up[c] = <<>> => up'[c] = <<>>)
    BY <2>1, UnreadTruthful
  <2> QED
    BY <2>1, <2>2, <2>3 DEF Code, Quiet, NoneHeard, AllTruthful, HeardTruthful, Truthful
<1>4. CASE Start(c)
  <2>1. /\ pc[c] = "new" /\ pc'[c] = "hello"
        /\ UNCHANGED <<code, up, incoming, phrase, context>>
    BY <1>4 DEF Start, Server!Connect, Server!storage, Go, dataVars, Known, Sending
  <2> QED
    BY <2>1 DEF Code, Quiet, NoneHeard, AllTruthful, HeardTruthful, Truthful
<1> QED
  BY <1>1, <1>2, <1>3, <1>4 DEF NetworkStep

LEMMA CorruptKeepsCode ==
    ASSUME Known, NEW s \in Sender, Code(s), Corrupt(s)
    PROVE  Code(s)'
<1>0. s \in Client /\ up[s] \in Seq(Server!ClientMessage)
  BY UpType DEF Client
<1>1. PICK i \in 1 .. Len(up[s]) :
         /\ up[s][i].id = "Chunk"
         /\ up'[s] = [up[s] EXCEPT ![i] = Damaged(up[s][i])]
  BY <1>0 DEF Corrupt, Known, Sending
<1>2. Truthful(s, Damaged(up[s][i]))
  BY DataTruthful DEF Damaged
<1>3. AllTruthful(s, up'[s])
  BY <1>0, <1>1, <1>2 DEF Code, AllTruthful
<1>4. up[s] # <<>>
  BY <1>0, <1>1
<1>5. UNCHANGED <<pc, code, incoming, phrase, context>>
  BY DEF Corrupt, serverVars, dataVars
<1> QED
  BY <1>3, <1>4, <1>5 DEF Code, Quiet, AllTruthful, HeardTruthful, Truthful

LEMMA HandlerKeepsCodes ==
    ASSUME Known, ServerHandles, Codes
    PROVE  Codes'
<1> SUFFICES ASSUME NEW c \in Client
             PROVE  Code(c)'
  BY DEF Codes
<1>0. Code(c) /\ Sender \subseteq Client
  BY DEF Codes, Client
<1>1. PICK e : e = Head(incoming)
  OBVIOUS
<1>2. /\ Handled(e) /\ SameClient(c) /\ NoNews(c) /\ e \in Heard
      /\ e = incoming[1] /\ 1 \in 1 .. Len(incoming)
  BY <1>1, HandlerElsewhere, UpType
<1>3. UNCHANGED code
  BY DEF ServerHandles, clientVars, dataVars
<1>4. c \in Sender => context'[c] \in {None, FileOf[c]} /\ phrase'[c] \in {None, code'[c]}
  <2> SUFFICES ASSUME c \in Sender
               PROVE  context'[c] \in {None, FileOf[c]} /\ phrase'[c] \in {None, code[c]}
    BY <1>3
  <2>0. context[c] \in {None, FileOf[c]} /\ phrase[c] \in {None, code[c]}
    BY <1>0 DEF Code
  <2>1. CASE Ignored(e) \/ Answered(e) \/ Refusal(e) \/ Relayed(e)
    BY <2>0, <2>1 DEF Ignored, Answered, Refusal, Relayed
  <2>2. CASE Offered(e)
    <3>1. CASE e.remote = c
      <4>1. e.msg.code = code[c] /\ e.msg.file = FileOf[c]
        BY <1>0, <1>2, <2>2, <3>1 DEF Code, HeardTruthful, Truthful, Offered
      <4> QED
        BY <2>2, <3>1, <4>1 DEF Offered, Known, ServerSafe, Server!TypeOK
    <3>2. CASE e.remote # c
      BY <2>0, <2>2, <3>2 DEF Offered, Known, ServerSafe, Server!TypeOK
    <3> QED
      BY <3>1, <3>2
  <2>3. ASSUME NEW s \in Sender, Joined(e, s) PROVE UNCHANGED <<phrase, context>>
    BY <2>3 DEF Joined
  <2>4. ASSUME NEW s \in Sender, Completed(e, s) \/ BrokenOff(e, s)
        PROVE  context'[c] \in {None, FileOf[c]} /\ phrase'[c] \in {None, code[c]}
    <3>1. Withdrawn(s)
      BY <2>4 DEF Completed, BrokenOff
    <3> QED
      BY <1>0, <2>0, <3>1, WithdrawnFacts
  <2> QED
    BY <1>2, <2>0, <2>1, <2>2, <2>3, <2>4 DEF Handled
<1>5. NoneHeard(c) => NoneHeard(c)'
  BY <1>2, NoNewsNone
<1>6. HeardTruthful(c)'
  BY <1>0, <1>2, <1>3, HeardFrame
<1> QED
  BY <1>0, <1>2, <1>3, <1>4, <1>5, <1>6 DEF Code, Quiet, AllTruthful, Truthful, SameClient

LEMMA CodesFrame ==
    ASSUME Known, Codes, NEW c \in Client, Elsewhere(c), Code(c)'
    PROVE  Codes'
<1> SUFFICES ASSUME NEW d \in Client, d # c
             PROVE  Code(d)'
  BY DEF Codes
<1>1. SameClient(d) /\ SameTablesOf(d) /\ NoNews(d)
  BY DEF Elsewhere
<1> QED
  BY <1>1, CodeFrame DEF Codes

LEMMA StepKeepsCodes ==
    ASSUME Known, Offers, Codes, [Next]_vars
    PROVE  Codes'
<1>0. Sender \subseteq Client /\ Receiver \subseteq Client /\ Client = Sender \cup Receiver
  BY DEF Client
<1>1. CASE ServerHandles
  BY <1>1, HandlerKeepsCodes
<1>2. ASSUME NEW c \in Client, NetworkStep(c) \/ Reset(c) \/ Start(c)
      PROVE  Codes'
  BY <1>2, NetworkElsewhere, NetworkKeepsCode, CodesFrame DEF Codes
<1>3. ASSUME NEW s \in Sender, SenderStep(s) \/ Crash(s) \/ FileGone(s) \/ ReadError(s)
      PROVE  Codes'
  <2>1. Others(s) /\ UNCHANGED serverVars
    BY <1>0, <1>3, SenderOthers, CrashOthers, SenderSpeaks DEF Spoken
  <2> QED
    BY <1>0, <1>3, <2>1, RoutineElsewhere, SenderKeepsCode, CodesFrame DEF Codes
<1>4. ASSUME NEW r \in Receiver,
             \/ ReceiverStep(r) \/ Decline(r) \/ Consent(r) \/ Crash(r)
             \/ OpenError(r) \/ WriteError(r)
      PROVE  Codes'
  <2>1. Others(r) /\ UNCHANGED serverVars
    BY <1>0, <1>4, ReceiverOthers, CrashOthers, ReceiverSpeaks DEF Spoken
  <2> QED
    BY <1>0, <1>4, <2>1, RoutineElsewhere, ReceiverKeepsCode, CodesFrame DEF Codes
<1>5. ASSUME NEW s \in Sender, Corrupt(s)
      PROVE  Codes'
  BY <1>0, <1>5, CorruptElsewhere, CorruptKeepsCode, CodesFrame DEF Codes
<1>6. CASE UNCHANGED vars
  <2>1. ASSUME NEW c \in Client PROVE SameClient(c) /\ SameTablesOf(c) /\ NoNews(c)
    BY <1>6, QuietQueue
       DEF vars, serverVars, clientVars, dataVars, SameClient, SameTablesOf
  <2> QED
    BY <2>1, CodeFrame DEF Codes
<1> QED
  BY <1>0, <1>1, <1>2, <1>3, <1>4, <1>5, <1>6 DEF Next, UserStep, FaultStep

(* A phrase that leads anywhere leads to the sender that printed it and to *)
(* the file it was started with.                                           *)
THEOREM CodesInvariant == Spec => []Codes
<1>1. Init => Codes
  BY DEF Init, Server!Init, Codes, Code, Quiet, NoneHeard, AllTruthful, HeardTruthful, Client
<1>2. Known /\ Offers /\ Codes /\ [Next]_vars => Codes'
  BY StepKeepsCodes
<1> QED
  BY <1>1, <1>2, KindsInvariant, OffersInvariant, PTL DEF Spec

(* A phrase once given is kept. *)
CodesStay == \A c \in Client : code[c] # None => code'[c] = code[c]

LEMMA StepKeepsCode ==
    ASSUME Known, Codes, [Next]_vars
    PROVE  CodesStay
<1>1. CASE \E s \in Sender : Announce(s)
  BY <1>1 DEF Announce, CodesStay, Codes, Code, Known, Sending, Client
<1>2. CASE \E r \in Receiver : Ask(r)
  BY <1>2 DEF Ask, CodesStay, Codes, Code, Known, Sending, Client
<1>3. CASE UNCHANGED code
  BY <1>3 DEF CodesStay
<1>4. ASSUME NEW s \in Sender, SenderStep(s) \/ FileGone(s) \/ ReadError(s)
      PROVE  Announce(s) \/ UNCHANGED code
  BY <1>4 DEF SenderStep, AwaitReceiver, SendChunk, FinishSending, EndOfInput, StopSending,
              Confirm, FileGone, ReadError, dataVars
<1>5. ASSUME NEW r \in Receiver,
             ReceiverStep(r) \/ Decline(r) \/ Consent(r) \/ OpenError(r) \/ WriteError(r)
      PROVE  Ask(r) \/ UNCHANGED code
  BY <1>5 DEF ReceiverStep, AwaitOffer, ReceiveMessage, TakeMessage, Flushed, Decline, Consent,
              OpenError, WriteError, dataVars
<1>6. ASSUME NEW c \in Client, NetworkStep(c) \/ Start(c) \/ Crash(c) \/ Reset(c)
      PROVE  UNCHANGED code
  BY <1>6 DEF NetworkStep, ServerReads, ServerWrites, ServerCloses, ServerNotices,
              ClientNotices, Start, Crash, Reset, clientVars, dataVars
<1>7. CASE ServerHandles \/ UNCHANGED vars \/ \E s \in Sender : Corrupt(s)
  BY <1>3, <1>7 DEF ServerHandles, Corrupt, vars, clientVars, dataVars
<1> QED
  BY <1>1, <1>2, <1>3, <1>4, <1>5, <1>6, <1>7 DEF Next, UserStep, FaultStep

-----------------------------------------------------------------------------
(* The life of a receiver's request. *)

Asking == {"new", "hello", "asked", "prompt"}

(* f is the file of a sender that printed r's phrase. *)
Names(r, f) == \E s \in Sender : code[s] = code[r] /\ code[s] # None /\ f = FileOf[s]

Sinkless(r) == \A s \in Sender : sink[s] # r

IsData(m) == m.id \in {"Chunk", "FinalChunk"}
DryQueue(q) == \A i \in 1 .. Len(q) : ~IsData(q[i])
Dry(r) == got[r] = <<>> /\ ~diskBad[r] /\ DryQueue(inbox[r]) /\ DryQueue(out[r])

OnlyAsks(q) == \A i \in 1 .. Len(q) : q[i].id = "RequestReceive"
OnlyAnswers(q) == \A i \in 1 .. Len(q) : q[i].id \in {"Accept", "Reject"}
Naming(r, q) == \A i \in 1 .. Len(q) : q[i].id = "Accept" => Names(r, q[i].file)

(* Where r has said Receive, and where it has been heard. *)
Accepts(r, i) == i \in 1 .. Len(up[r]) /\ up[r][i].id = "Receive"
Accepted(r, i) ==
    i \in 1 .. Len(incoming) /\ incoming[i].remote = r /\ incoming[i].msg.id = "Receive"
Pending(r) == \E i \in Nat : Accepts(r, i) \/ Accepted(r, i)

Unasked(r) == pc[r] \in {"new", "hello"} => Untold(r)

(* Before its consent a receiver has only asked, and has only been         *)
(* answered.                                                               *)
Consenting(r) ==
    pc[r] \in Asking =>
        /\ OnlyAsks(up[r])
        /\ \A i \in 1 .. Len(incoming) :
              incoming[i].remote = r => incoming[i].msg.id = "RequestReceive"
        /\ OnlyAnswers(inbox[r]) /\ OnlyAnswers(out[r])

(* Until its Receive is heard no session leads to it and nothing comes.    *)
Waterless(r) == pc[r] \in Asking \/ Pending(r) => Sinkless(r) /\ Dry(r)

(* Receive is said once. *)
AcceptsOnce(r) ==
    \A i, j \in Nat :
        /\ Accepts(r, i) /\ Accepts(r, j) => i = j
        /\ Accepted(r, i) /\ Accepted(r, j) => i = j
        /\ ~(Accepts(r, i) /\ Accepted(r, j))

(* The offer that was shown was one of the receiver's phrase. *)
Shown(r) ==
    /\ Naming(r, inbox[r]) /\ Naming(r, out[r])
    /\ pc[r] \in {"prompt", "receiving"} \/ got[r] # <<>> => Names(r, shown[r])

Request(r) == Unasked(r) /\ Consenting(r) /\ Waterless(r) /\ AcceptsOnce(r) /\ Shown(r)

Requests == /\ receiverOf = sink
            /\ \A r \in Receiver : Request(r)

LEMMA NamesFrame ==
    ASSUME NEW r \in Receiver, CodesStay, NEW f, Names(r, f), code'[r] = code[r]
    PROVE  Names(r, f)'
  BY DEF Names, CodesStay, Client

LEMMA NamingFrame ==
    ASSUME NEW r \in Receiver, CodesStay, code'[r] = code[r], NEW q, Naming(r, q)
    PROVE  Naming(r, q)'
  BY NamesFrame DEF Naming

(* The parts of Request that a step may leave alone, each by itself. *)
LEMMA ShownFrame ==
    ASSUME Known, NEW r \in Receiver, Shown(r), CodesStay, code'[r] = code[r],
           shown'[r] = shown[r],
           pc'[r] \in {"prompt", "receiving"} => pc[r] \in {"prompt", "receiving"},
           got'[r] # <<>> => got[r] # <<>> \/ pc[r] = "receiving",
           Naming(r, inbox'[r]), Naming(r, out'[r])
    PROVE  Shown(r)'
<1>1. Naming(r, inbox[r])' /\ Naming(r, out[r])'
  <2>1. PICK p, q : p = inbox'[r] /\ q = out'[r]
    OBVIOUS
  <2>2. Naming(r, p)' /\ Naming(r, q)'
    BY <2>1, NamingFrame
  <2> QED
    BY <2>1, <2>2 DEF Naming, Names
<1>2. Names(r, shown[r]) => Names(r, shown[r])'
  <2>1. PICK f : f = shown[r]
    OBVIOUS
  <2> QED
    BY <2>1, NamesFrame DEF Names
<1> QED
  BY <1>1, <1>2 DEF Shown

(* What the main thread is still to hear of r, after a step that brings    *)
(* none.                                                                   *)
LEMMA StillHeard ==
    ASSUME Known, NEW r \in Receiver, NoNews(r)
    PROVE  /\ \A i \in 1 .. Len(incoming') : incoming'[i].remote = r =>
                 \E j \in 1 .. Len(incoming) : incoming'[i] = incoming[j]
           /\ \E k \in {0, 1} : \A i : Accepted(r, i)' => Accepted(r, i + k)
  BY DEF NoNews, Accepted

LEMMA RequestFrame ==
    ASSUME Known, NEW r \in Receiver, Request(r), SameClient(r), out'[r] = out[r], NoNews(r),
           CodesStay, Sinkless(r) => Sinkless(r)'
    PROVE  Request(r)'
<1>1. /\ pc'[r] = pc[r] /\ up'[r] = up[r] /\ inbox'[r] = inbox[r] /\ code'[r] = code[r]
      /\ shown'[r] = shown[r] /\ got'[r] = got[r] /\ diskBad'[r] = diskBad[r]
      /\ out'[r] = out[r]
  BY DEF SameClient
<1>2. PICK k \in {0, 1} : \A i : Accepted(r, i)' => Accepted(r, i + k)
  BY StillHeard
<1>3. Dry(r) => Dry(r)'
  BY <1>1 DEF Dry, DryQueue
<1>4. Consenting(r)'
  BY <1>1, StillHeard DEF Request, Consenting, OnlyAsks, OnlyAnswers
<1>5. \A i : Accepts(r, i)' <=> Accepts(r, i)
  BY <1>1 DEF Accepts
<1>6. Waterless(r)'
  <2>1. Pending(r)' => Pending(r)
    BY <1>2, <1>5 DEF Pending
  <2> QED
    BY <1>1, <1>3, <2>1 DEF Request, Waterless
<1>7. AcceptsOnce(r)'
  <2> SUFFICES ASSUME NEW i \in Nat, NEW j \in Nat
               PROVE  /\ Accepts(r, i)' /\ Accepts(r, j)' => i = j
                      /\ Accepted(r, i)' /\ Accepted(r, j)' => i = j
                      /\ ~(Accepts(r, i)' /\ Accepted(r, j)')
    BY DEF AcceptsOnce
  <2>1. i + k \in Nat /\ j + k \in Nat /\ (i + k = j + k => i = j)
    OBVIOUS
  <2> QED
    BY <1>2, <1>5, <2>1 DEF Request, AcceptsOnce
<1>8. Shown(r)'
  BY <1>1, ShownFrame DEF Request, Shown
<1> QED
  BY <1>1, <1>4, <1>6, <1>7, <1>8 DEF Request, Unasked, Untold

(* What a receiver has left of its inbox. *)
Emptier(r) ==
    \/ inbox'[r] \in {inbox[r], <<>>}
    \/ inbox[r] # <<>> /\ inbox'[r] = Tail(inbox[r])

LEMMA EmptierFacts ==
    ASSUME Known, NEW r \in Receiver, Emptier(r)
    PROVE  /\ DryQueue(inbox[r]) => DryQueue(inbox'[r])
           /\ Naming(r, inbox[r]) => Naming(r, inbox'[r])
<1>1. inbox[r] \in Seq(Server!Message)
  BY UpType DEF Client
<1>2. CASE inbox'[r] \in {inbox[r], <<>>}
  BY <1>2 DEF DryQueue, Naming
<1>3. ASSUME inbox[r] # <<>>, inbox'[r] = Tail(inbox[r])
      PROVE  \A i \in 1 .. Len(inbox'[r]) :
                i + 1 \in 1 .. Len(inbox[r]) /\ inbox'[r][i] = inbox[r][i + 1]
  BY <1>1, <1>3, HeadTail
<1> QED
  BY <1>2, <1>3 DEF Emptier, DryQueue, Naming

(* A step of the receiver's routine after its consent, or at its end. *)
LEMMA WorkKeepsRequest ==
    ASSUME Known, NEW r \in Receiver, Request(r), UNCHANGED serverVars, CodesStay,
           code'[r] = code[r], shown'[r] = shown[r], pc'[r] \notin Asking,
           pc'[r] = "receiving" => pc[r] = "receiving",
           Emptier(r),
           \A i \in Nat : Accepts(r, i)' => Accepts(r, i),
           Pending(r) => got'[r] = got[r] /\ diskBad'[r] = diskBad[r],
           got'[r] # got[r] => pc[r] = "receiving"
    PROVE  Request(r)'
<1>1. UNCHANGED <<incoming, out, sink>>
  BY DEF serverVars
<1>2. \A i \in Nat : Accepted(r, i)' <=> Accepted(r, i)
  BY <1>1 DEF Accepted
<1>3. Waterless(r)'
  <2>1. Pending(r)' => Pending(r)
    BY <1>2 DEF Pending
  <2>2. Pending(r) /\ Dry(r) => Dry(r)'
    BY <1>1, EmptierFacts DEF Dry, DryQueue
  <2> QED
    BY <1>1, <2>1, <2>2 DEF Request, Waterless, Sinkless
<1>4. AcceptsOnce(r)'
  BY <1>2 DEF Request, AcceptsOnce
<1>5. Shown(r)'
  <2>1. Naming(r, inbox'[r]) /\ Naming(r, out'[r])
    BY <1>1, EmptierFacts DEF Request, Shown
  <2>2. pc'[r] \in {"prompt", "receiving"} => pc[r] \in {"prompt", "receiving"}
    BY DEF Asking
  <2> QED
    BY <2>1, <2>2, ShownFrame DEF Request
<1> QED
  BY <1>3, <1>4, <1>5 DEF Request, Unasked, Consenting, Asking

(* Consent, or what is left of it when ./out cannot be opened. *)
LEMMA AcceptKeepsRequest ==
    ASSUME Known, NEW r \in Receiver, Request(r), UNCHANGED serverVars, CodesStay,
           code'[r] = code[r], shown'[r] = shown[r], got'[r] = got[r],
           diskBad'[r] = diskBad[r], pc[r] = "prompt", pc'[r] \in {"receiving", "failed"},
           Emptier(r),
           NEW k, \A i \in Nat : Accepts(r, i)' => i = k
    PROVE  Request(r)'
<1>1. UNCHANGED <<incoming, out, sink>>
  BY DEF serverVars
<1>2. \A i \in Nat : ~Accepted(r, i)'
  BY <1>1 DEF Accepted, Request, Consenting, Asking
<1>3. Waterless(r)'
  <2>1. Dry(r) /\ Sinkless(r)
    BY DEF Request, Waterless, Asking
  <2> QED
    BY <1>1, <2>1, EmptierFacts DEF Waterless, Sinkless, Dry, DryQueue
<1>4. AcceptsOnce(r)'
  BY <1>2 DEF AcceptsOnce
<1>5. Shown(r)'
  <2>1. Naming(r, inbox'[r]) /\ Naming(r, out'[r])
    BY <1>1, EmptierFacts DEF Request, Shown
  <2> QED
    BY <2>1, ShownFrame DEF Request
<1> QED
  BY <1>3, <1>4, <1>5 DEF Request, Unasked, Consenting, Asking

(* A routine that leaves says nothing new. *)
LEMMA LeaveKeepsRequest ==
    ASSUME Known, NEW r \in Receiver, Request(r), UNCHANGED serverVars, CodesStay,
           code'[r] = code[r], shown'[r] = shown[r], got'[r] = got[r],
           diskBad'[r] = diskBad[r], NEW result \in Over, Leave(r, result, up[r])
    PROVE  Request(r)'
<1>0. r \in Client /\ up[r] \in Seq(Server!ClientMessage)
  BY UpType DEF Client
<1>1. PICK n \in 0 .. Len(up[r]) : up'[r] = SubSeq(up[r], 1, n)
  BY <1>0, LeaveFacts
<1>2. pc'[r] = result /\ inbox'[r] = <<>>
  BY <1>0, LeaveFacts
<1>3. \A i \in Nat : Accepts(r, i)' => Accepts(r, i)
  BY <1>0, <1>1 DEF Accepts
<1> QED
  BY <1>2, <1>3, WorkKeepsRequest DEF Over, Asking, Emptier

LEMMA AskKeepsRequest ==
    ASSUME Known, NEW r \in Receiver, Code(r), Request(r), Ask(r)
    PROVE  Request(r)'
<1>0. r \in Client
  BY DEF Client
<1>1. PICK p \in Phrase : /\ code' = [code EXCEPT ![r] = p]
                          /\ Queue(r, Server!RequestReceive(p)) /\ Go(r, "asked")
  BY DEF Ask
<1>2. /\ pc[r] = "hello" /\ pc'[r] = "asked" /\ inbox' = inbox /\ shown' = shown
      /\ got' = got /\ diskBad' = diskBad /\ UNCHANGED <<incoming, out, sink>>
  BY <1>0, <1>1 DEF Ask, Go, Known, Sending, serverVars
<1>3. up[r] = <<>> /\ NoneHeard(r) /\ Untold(r)
  BY <1>2 DEF Code, Quiet, Request, Unasked
<1>4. PICK m : m = Server!RequestReceive(p)
  OBVIOUS
<1>5. m.id = "RequestReceive" /\ (up'[r] = <<m>> \/ up'[r] = <<>>)
  BY <1>0, <1>1, <1>3, <1>4, PutFirst DEF Server!RequestReceive, Server!Encode
<1>6. OnlyAsks(up'[r])
  BY <1>5 DEF OnlyAsks
<1>7. \A i \in Nat : ~Accepts(r, i)' /\ ~Accepted(r, i)'
  BY <1>2, <1>3, <1>6 DEF Accepts, Accepted, OnlyAsks, NoneHeard
<1>8. Sinkless(r) /\ Dry(r)
  BY <1>2 DEF Request, Waterless, Asking
<1>9. Shown(r)'
  BY <1>2, <1>3, <1>8 DEF Shown, Naming, Untold, Dry
<1> QED
  BY <1>2, <1>3, <1>6, <1>7, <1>8, <1>9
     DEF Request, Unasked, Consenting, Waterless, Pending, AcceptsOnce, NoneHeard, Untold,
         OnlyAnswers, Dry, DryQueue, Sinkless, Asking

(* establishSession: the answer is a Reject, or an Accept with the file of *)
(* a sender that printed the phrase.                                       *)
LEMMA OfferKeepsRequest ==
    ASSUME Known, NEW r \in Receiver, Request(r), CodesStay, AwaitOffer(r)
    PROVE  Request(r)'
<1>0. r \in Client /\ inbox[r] \in Seq(Server!Message)
  BY UpType DEF Client
<1>1. /\ pc[r] = "asked" /\ inbox[r] # <<>> /\ Answer(r, "prompt") /\ UNCHANGED serverVars
      /\ UNCHANGED <<code, got, diskBad>>
      /\ shown' = [shown EXCEPT ![r] = Head(inbox[r]).file]
  BY DEF AwaitOffer, Answer
<1>2. UNCHANGED <<incoming, out, sink>>
  BY <1>1 DEF serverVars
<1>3. PICK m : m = Head(inbox[r])
  OBVIOUS
<1>4. /\ m = inbox[r][1] /\ 1 \in 1 .. Len(inbox[r]) /\ Tail(inbox[r]) \in Seq(Server!Message)
      /\ \A i \in 1 .. Len(Tail(inbox[r])) :
            i + 1 \in 1 .. Len(inbox[r]) /\ Tail(inbox[r])[i] = inbox[r][i + 1]
  BY <1>0, <1>1, <1>3, HeadTail
<1>5. m.id \in {"Accept", "Reject"} /\ (m.id = "Accept" => Names(r, m.file))
  BY <1>1, <1>4 DEF Request, Consenting, Shown, OnlyAnswers, Naming, Asking
<1>6. shown'[r] = m.file
  BY <1>1, <1>3 DEF Known, ClientTypes
<1>7. Sinkless(r) /\ Dry(r) /\ Naming(r, inbox[r]) /\ Naming(r, out[r])
  BY <1>1 DEF Request, Waterless, Asking, Shown
<1>8. \A i \in Nat : ~Accepted(r, i)' /\ ~Accepts(r, i)
  BY <1>1, <1>2 DEF Request, Consenting, OnlyAsks, Accepts, Accepted, Asking
<1>9. /\ \A q : Naming(r, q) => Naming(r, q)'
      /\ \A f : Names(r, f) => Names(r, f)'
  <2>1. code'[r] = code[r]
    BY <1>1
  <2> QED
    BY <2>1, NamesFrame, NamingFrame
<1>10. CASE Leave(r, "failed", up[r])
  <2>1. /\ pc'[r] = "failed" /\ inbox'[r] = <<>>
        /\ \E n \in 0 .. Len(up[r]) : up'[r] = SubSeq(up[r], 1, n)
    BY <1>0, <1>10, FailFacts
  <2>2. \A i \in Nat : ~Accepts(r, i)'
    BY <1>0, <1>8, <2>1, UpType DEF Accepts
  <2>3. Shown(r)'
    <3>1. PICK q : q = out[r]
      OBVIOUS
    <3>2. Naming(r, q)'
      BY <1>7, <1>9, <3>1
    <3> QED
      BY <1>1, <1>2, <1>7, <2>1, <3>1, <3>2 DEF Shown, Naming, Names, Dry
  <2> QED
    BY <1>1, <1>2, <1>7, <1>8, <2>1, <2>2, <2>3
       DEF Request, Unasked, Consenting, Waterless, Pending, AcceptsOnce, Asking
<1>11. CASE /\ inbox' = [inbox EXCEPT ![r] = Tail(inbox[r])]
            /\ pc' = [pc EXCEPT ![r] = "prompt"] /\ up' = up /\ m.id = "Accept"
  <2>1. pc'[r] = "prompt" /\ inbox'[r] = Tail(inbox[r]) /\ up'[r] = up[r] /\ out'[r] = out[r]
    BY <1>0, <1>2, <1>11 DEF Known, Sending, ClientTypes
  <2>2. Dry(r)' /\ OnlyAnswers(inbox[r])' /\ OnlyAnswers(out[r])' /\ Naming(r, Tail(inbox[r]))
    BY <1>1, <1>2, <1>4, <1>7, <2>1
       DEF Dry, DryQueue, Request, Consenting, OnlyAnswers, Naming, Asking
  <2>3. \A i \in Nat : ~Accepts(r, i)'
    BY <1>8, <2>1 DEF Accepts
  <2>4. Shown(r)'
    <3>1. PICK q, t : q = out[r] /\ t = Tail(inbox[r])
      OBVIOUS
    <3>2. Naming(r, q)' /\ Naming(r, t)' /\ Names(r, m.file)'
      BY <1>5, <1>7, <1>9, <1>11, <2>2, <3>1
    <3> QED
      <4>1. Naming(r, inbox[r])' /\ Naming(r, out[r])'
        BY <2>1, <3>1, <3>2 DEF Naming, Names
      <4>2. Names(r, shown[r])'
        BY <1>6, <3>2 DEF Names
      <4> QED
        BY <4>1, <4>2 DEF Shown
  <2>5. OnlyAsks(up[r])' /\ \A i \in 1 .. Len(incoming') :
           incoming'[i].remote = r => incoming'[i].msg.id = "RequestReceive"
    BY <1>1, <1>2, <2>1 DEF Request, Consenting, OnlyAsks, Asking
  <2>6. Sinkless(r)'
    BY <1>2, <1>7 DEF Sinkless
  <2> QED
    BY <1>8, <2>1, <2>2, <2>3, <2>4, <2>5, <2>6
       DEF Request, Unasked, Consenting, Waterless, Pending, AcceptsOnce, Asking
<1> QED
  BY <1>1, <1>3, <1>5, <1>10, <1>11 DEF Answer, Go

(* A message that is not a Receive is put behind the others. *)
LEMMA PutAccepts ==
    ASSUME Known, NEW r \in Receiver, NEW m \in Server!ClientMessage, m.id # "Receive",
           Queue(r, m)
    PROVE  \A i \in Nat : Accepts(r, i)' => Accepts(r, i)
<1>0. r \in Client /\ up[r] \in Seq(Server!ClientMessage)
  BY UpType DEF Client
<1>1. up'[r] = up[r] \/ up'[r] = Append(up[r], m)
  BY <1>0 DEF Queue, Put, Known, Sending
<1>2. CASE up'[r] = Append(up[r], m)
  <2>1. /\ Len(up'[r]) = Len(up[r]) + 1 /\ Len(up[r]) \in Nat
        /\ \A i \in 1 .. Len(up[r]) : up'[r][i] = up[r][i]
        /\ up'[r][Len(up[r]) + 1] = m
    BY <1>0, <1>2
  <2> QED
    BY <2>1 DEF Accepts
<1> QED
  BY <1>1, <1>2 DEF Accepts

LEMMA TakeMessageKeepsRequest ==
    ASSUME Known, NEW r \in Receiver, Request(r), CodesStay, NEW written,
           TakeMessage(r, written)
    PROVE  Request(r)'
<1>0. r \in Client /\ up[r] \in Seq(Server!ClientMessage) /\ inbox[r] \in Seq(Server!Message)
  BY UpType DEF Client
<1>1. /\ pc[r] = "receiving" /\ inbox[r] # <<>> /\ UNCHANGED serverVars
      /\ UNCHANGED <<code, shown>>
  BY DEF TakeMessage
<1>2. PICK m : m = Head(inbox[r])
  OBVIOUS
<1>3. m = inbox[r][1] /\ 1 \in 1 .. Len(inbox[r])
  BY <1>0, <1>1, <1>2, HeadTail
<1>4. CASE Leave(r, "failed", up[r]) /\ UNCHANGED <<got, diskBad>>
  BY <1>1, <1>4, LeaveKeepsRequest DEF Over
<1>5. CASE /\ inbox' = [inbox EXCEPT ![r] = Tail(inbox[r])]
           /\ diskBad' = [diskBad EXCEPT ![r] = diskBad[r] \/ (m.id = "Chunk" /\ ~written)]
           /\ got' = IF m.id = "Chunk" /\ ~diskBad'[r]
                     THEN [got EXCEPT ![r] = Append(got[r], m.body)] ELSE got
           /\ \/ ReportSuccess(r)
              \/ UNCHANGED <<pc, link, up>>
  <2>1. \A i \in Nat : Accepts(r, i)' => Accepts(r, i)
    <3>1. CASE ReportSuccess(r)
      <4>1. /\ Queue(r, Server!Signal("FinishReceive"))
            /\ Server!Signal("FinishReceive") \in Server!ClientMessage
            /\ Server!Signal("FinishReceive").id # "Receive"
        BY <3>1, SignalIsClientMessage DEF ReportSuccess, Server!Signal, Server!Encode
      <4> QED
        BY <4>1, PutAccepts
    <3>2. CASE UNCHANGED up
      BY <3>2 DEF Accepts
    <3> QED
      BY <1>5, <3>1, <3>2
  <2>2. pc'[r] \in {"receiving", "flushing"}
    BY <1>0, <1>1, <1>5 DEF ReportSuccess, Go, Known, Sending
  <2>3. inbox'[r] = Tail(inbox[r])
    BY <1>0, <1>5 DEF Known, ClientTypes
  <2>4. Pending(r) => got'[r] = got[r] /\ diskBad'[r] = diskBad[r]
    <3>1. Pending(r) => m.id # "Chunk"
      BY <1>3 DEF Request, Waterless, Dry, DryQueue, IsData
    <3> QED
      BY <1>5, <3>1 DEF Known, ClientTypes
  <2> QED
    BY <1>1, <2>1, <2>2, <2>3, <2>4, WorkKeepsRequest DEF Asking, Emptier
<1> QED
  BY <1>2, <1>4, <1>5 DEF TakeMessage

LEMMA ConsentKeepsRequest ==
    ASSUME Known, NEW r \in Receiver, Request(r), CodesStay, Consent(r) \/ OpenError(r)
    PROVE  Request(r)'
<1>0. r \in Client /\ up[r] \in Seq(Server!ClientMessage)
  BY UpType DEF Client
<1>1. /\ pc[r] = "prompt" /\ UNCHANGED serverVars
      /\ UNCHANGED <<code, shown, got, diskBad>>
  BY DEF Consent, OpenError, dataVars
<1>2. \A i \in 1 .. Len(up[r]) : up[r][i].id # "Receive"
  BY <1>1 DEF Request, Consenting, OnlyAsks, Asking
<1>3. PICK m, m2 : m = Server!Receive(code[r]) /\ m2 = Server!Signal("FailedReceive")
  OBVIOUS
<1>4. /\ m \in Server!ClientMessage /\ m2 \in Server!ClientMessage
      /\ m.id = "Receive" /\ m2.id = "FailedReceive"
  <2>1. code[r] \in Phrase
    BY <1>1 DEF Known, Sending
  <2> QED
    BY <1>3, <2>1, PhraseIsClientMessage, SignalIsClientMessage
       DEF Server!Receive, Server!Signal, Server!Encode
<1> DEFINE q == Put(up[r], r, m)
           Last == Len(up[r]) + 1
<1>5. /\ q \in Seq(Server!ClientMessage)
      /\ \A i \in 1 .. Len(q) : q[i].id = "Receive" => i = Last
  BY <1>0, <1>2, <1>4 DEF Put
<1>6. CASE Consent(r)
  <2>1. up'[r] = q /\ pc'[r] = "receiving" /\ inbox' = inbox
    BY <1>0, <1>3, <1>6 DEF Consent, Queue, Go, Known, Sending
  <2>2. \A i \in Nat : Accepts(r, i)' => i = Last
    BY <1>5, <2>1 DEF Accepts
  <2> QED
    BY <1>1, <2>1, <2>2, AcceptKeepsRequest DEF Emptier
<1>7. CASE OpenError(r)
  <2> DEFINE q2 == Put(q, r, m2)
  <2>1. /\ q2 \in Seq(Server!ClientMessage)
        /\ \A i \in 1 .. Len(q2) : q2[i].id = "Receive" => i = Last
    <3> HIDE DEF q, Last
    <3> QED
      BY <1>4, <1>5 DEF Put
  <2>2. Leave(r, "failed", q2)
    BY <1>3, <1>7 DEF OpenError
  <2>3. /\ pc'[r] = "failed" /\ inbox'[r] = <<>>
        /\ \E n \in 0 .. Len(q2) : up'[r] = SubSeq(q2, 1, n)
    BY <1>0, <2>2, LeaveFacts
  <2>4. \A i \in Nat : Accepts(r, i)' => i = Last
    <3> HIDE DEF q2, Last
    <3> QED
      BY <2>1, <2>3 DEF Accepts
  <2> QED
    BY <1>1, <2>3, <2>4, AcceptKeepsRequest DEF Emptier
<1> QED
  BY <1>6, <1>7

LEMMA ReceiverKeepsRequest ==
    ASSUME Known, NEW r \in Receiver, Code(r), Request(r), CodesStay,
           \/ ReceiverStep(r) \/ Decline(r) \/ Consent(r) \/ Crash(r)
           \/ OpenError(r) \/ WriteError(r)
    PROVE  Request(r)'
<1>1. CASE Ask(r)
  BY <1>1, AskKeepsRequest
<1>2. CASE AwaitOffer(r)
  BY <1>2, OfferKeepsRequest
<1>3. CASE ReceiveMessage(r) \/ WriteError(r)
  BY <1>3, TakeMessageKeepsRequest DEF ReceiveMessage, WriteError
<1>4. CASE Consent(r) \/ OpenError(r)
  BY <1>4, ConsentKeepsRequest
<1>5. CASE Decline(r) \/ Crash(r)
  BY <1>5, LeaveKeepsRequest DEF Decline, Crash, dataVars, Over
<1>6. CASE Flushed(r)
  <2>1. /\ pc'[r] = "ok" /\ inbox'[r] = <<>> /\ up' = up
        /\ UNCHANGED serverVars /\ UNCHANGED <<code, shown, got, diskBad>>
    BY <1>6 DEF Flushed, Go, dataVars, Client, Known, Sending, ClientTypes
  <2> QED
    BY <2>1, WorkKeepsRequest DEF Asking, Emptier, Accepts
<1> QED
  BY <1>1, <1>2, <1>3, <1>4, <1>5, <1>6 DEF ReceiverStep

(* A Receive moves from the connection to the queue of the main thread. *)
LEMMA ReadsAccepts ==
    ASSUME Known, NEW r \in Receiver, ServerReads(r)
    PROVE  /\ \A i \in Nat : Accepts(r, i)' => Accepts(r, i + 1)
           /\ \A i \in Nat : Accepted(r, i)' =>
                 Accepted(r, i) \/ (i = Len(incoming) + 1 /\ Accepts(r, 1))
<1>0. /\ r \in Client /\ up[r] \in Seq(Server!ClientMessage) /\ incoming \in Seq(Heard)
      /\ Len(incoming) \in Nat
  BY UpType DEF Client
<1>1. /\ up[r] # <<>> /\ up'[r] = Tail(up[r])
      /\ incoming' = Append(incoming, [remote |-> r, msg |-> Head(up[r])])
  BY <1>0 DEF ServerReads, Server!Arrive, Known, Sending
<1>2. PICK m : m = Head(up[r])
  OBVIOUS
<1>3. /\ m = up[r][1] /\ 1 \in 1 .. Len(up[r])
      /\ \A i \in 1 .. Len(up'[r]) : i + 1 \in 1 .. Len(up[r]) /\ up'[r][i] = up[r][i + 1]
  BY <1>0, <1>1, <1>2, HeadTail
<1>4. /\ Len(incoming') = Len(incoming) + 1
      /\ \A i \in 1 .. Len(incoming) : incoming'[i] = incoming[i]
      /\ incoming'[Len(incoming) + 1] = [remote |-> r, msg |-> m]
  BY <1>0, <1>1, <1>2
<1>5. \A i \in Nat : Accepts(r, i)' => Accepts(r, i + 1)
  BY <1>0, <1>3 DEF Accepts
<1>6. ASSUME NEW i \in Nat, Accepted(r, i)', i # Len(incoming) + 1
      PROVE  Accepted(r, i)
  <2>1. i \in 1 .. Len(incoming)
    BY <1>0, <1>4, <1>6 DEF Accepted
  <2> QED
    BY <1>4, <1>6, <2>1 DEF Accepted
<1>7. ASSUME NEW i \in Nat, Accepted(r, i)', i = Len(incoming) + 1
      PROVE  Accepts(r, 1)
  BY <1>3, <1>4, <1>7 DEF Accepted, Accepts
<1>8. ASSUME NEW i \in Nat, Accepted(r, i)'
      PROVE  Accepted(r, i) \/ (i = Len(incoming) + 1 /\ Accepts(r, 1))
  <2>1. CASE i # Len(incoming) + 1
    BY <1>6, <1>8, <2>1
  <2>2. CASE i = Len(incoming) + 1
    BY <1>7, <1>8, <2>2
  <2> QED
    BY <2>1, <2>2
<1> QED
  BY <1>5, <1>8

LEMMA ReadsKeepRequest ==
    ASSUME Known, NEW r \in Receiver, Request(r), CodesStay, ServerReads(r)
    PROVE  Request(r)'
<1>0. /\ r \in Client /\ up[r] \in Seq(Server!ClientMessage) /\ incoming \in Seq(Heard)
      /\ Len(incoming) \in Nat
  BY UpType DEF Client
<1>1. /\ up[r] # <<>> /\ up'[r] = Tail(up[r])
      /\ incoming' = Append(incoming, [remote |-> r, msg |-> Head(up[r])])
      /\ UNCHANGED <<pc, inbox, out, sink, code, shown, got, diskBad>>
  BY <1>0 DEF ServerReads, Server!Arrive, Server!storage, dataVars, Known, Sending
<1>2. PICK m : m = Head(up[r])
  OBVIOUS
<1>3. /\ m = up[r][1] /\ 1 \in 1 .. Len(up[r])
      /\ \A i \in 1 .. Len(up'[r]) : i + 1 \in 1 .. Len(up[r]) /\ up'[r][i] = up[r][i + 1]
  BY <1>0, <1>1, <1>2, HeadTail
<1>4. /\ Len(incoming') = Len(incoming) + 1
      /\ \A i \in 1 .. Len(incoming) : incoming'[i] = incoming[i]
      /\ incoming'[Len(incoming) + 1] = [remote |-> r, msg |-> m]
  BY <1>0, <1>1, <1>2
<1>5. \A i \in Nat : Accepts(r, i)' => Accepts(r, i + 1)
  BY ReadsAccepts
<1>6. \A i \in Nat : Accepted(r, i)' =>
         Accepted(r, i) \/ (i = Len(incoming) + 1 /\ Accepts(r, 1))
  BY ReadsAccepts
<1>7. Waterless(r)'
  <2>1. Pending(r)' => Pending(r)
    BY <1>5, <1>6 DEF Pending
  <2>2. Dry(r)' <=> Dry(r)
    BY <1>1 DEF Dry, DryQueue
  <2> QED
    BY <1>1, <2>1, <2>2 DEF Request, Waterless, Sinkless
<1>8. AcceptsOnce(r)'
  <2> SUFFICES ASSUME NEW i \in Nat, NEW j \in Nat
               PROVE  /\ Accepts(r, i)' /\ Accepts(r, j)' => i = j
                      /\ Accepted(r, i)' /\ Accepted(r, j)' => i = j
                      /\ ~(Accepts(r, i)' /\ Accepted(r, j)')
    BY DEF AcceptsOnce
  <2>1. /\ Accepts(r, i + 1) /\ Accepts(r, j + 1) => i = j
        /\ i # 0 => ~(Accepts(r, i + 1) /\ Accepts(r, 1))
        /\ ~(Accepts(r, i + 1) /\ Accepted(r, j))
        /\ ~(Accepts(r, 1) /\ Accepted(r, j)) /\ ~(Accepts(r, 1) /\ Accepted(r, i))
        /\ Accepted(r, i) /\ Accepted(r, j) => i = j
    <3>1. /\ i + 1 \in Nat /\ j + 1 \in Nat /\ 1 \in Nat
          /\ (i # 0 => i + 1 # 1) /\ (i + 1 = j + 1 => i = j)
      OBVIOUS
    <3> QED
      BY <3>1 DEF Request, AcceptsOnce
  <2>2. Accepts(r, i)' => i # 0
    BY DEF Accepts
  <2> QED
    BY <1>5, <1>6, <2>1, <2>2
<1>9. Consenting(r)'
  <2> SUFFICES ASSUME pc[r] \in Asking
               PROVE  /\ OnlyAsks(up[r])' /\ OnlyAnswers(inbox[r])' /\ OnlyAnswers(out[r])'
                      /\ \A i \in 1 .. Len(incoming') :
                            incoming'[i].remote = r => incoming'[i].msg.id = "RequestReceive"
    BY <1>1 DEF Consenting
  <2>1. /\ OnlyAsks(up[r]) /\ OnlyAnswers(inbox[r]) /\ OnlyAnswers(out[r])
        /\ \A i \in 1 .. Len(incoming) :
              incoming[i].remote = r => incoming[i].msg.id = "RequestReceive"
    BY DEF Request, Consenting
  <2>2. OnlyAsks(up[r])' /\ m.id = "RequestReceive"
    BY <1>3, <2>1 DEF OnlyAsks
  <2>3. \A i \in 1 .. Len(incoming') :
           incoming'[i].remote = r => incoming'[i].msg.id = "RequestReceive"
    <3> SUFFICES ASSUME NEW i \in 1 .. Len(incoming'), incoming'[i].remote = r
                 PROVE  incoming'[i].msg.id = "RequestReceive"
      OBVIOUS
    <3>1. CASE i = Len(incoming) + 1
      BY <1>4, <2>2, <3>1
    <3>2. CASE i \in 1 .. Len(incoming)
      BY <1>4, <2>1, <3>2
    <3> QED
      BY <1>0, <1>4, <3>1, <3>2
  <2> QED
    BY <1>1, <2>1, <2>2, <2>3 DEF OnlyAnswers
<1>10. Shown(r)'
  BY <1>1, ShownFrame DEF Request, Shown
<1> QED
  BY <1>1, <1>7, <1>8, <1>9, <1>10 DEF Request, Unasked, Untold, Code, Quiet

(* What is written to a receiver moves from the server's queue to its own. *)
LEMMA WritesKeepRequest ==
    ASSUME Known, NEW r \in Receiver, Request(r), CodesStay, ServerWrites(r)
    PROVE  Request(r)'
<1>0. /\ r \in Client /\ inbox[r] \in Seq(Server!Message) /\ out[r] \in Seq(Server!Message)
      /\ Len(inbox[r]) \in Nat
  BY UpType DEF Client
<1>1. /\ out[r] # <<>> /\ out'[r] = Tail(out[r])
      /\ inbox'[r] \in {inbox[r], Append(inbox[r], Head(out[r]))}
      /\ UNCHANGED <<pc, up, incoming, sink, code, shown, got, diskBad>>
  BY <1>0 DEF ServerWrites, Server!WriteDone, Server!storage, dataVars,
              Known, ServerSafe, Server!TypeOK, ClientTypes
<1>2. PICK m : m = Head(out[r])
  OBVIOUS
<1>3. /\ m \in Server!Message /\ m = out[r][1] /\ 1 \in 1 .. Len(out[r])
      /\ \A i \in 1 .. Len(out'[r]) : i + 1 \in 1 .. Len(out[r]) /\ out'[r][i] = out[r][i + 1]
  BY <1>0, <1>1, <1>2, HeadTail
<1>4. \A i \in 1 .. Len(inbox'[r]) :
         \/ i \in 1 .. Len(inbox[r]) /\ inbox'[r][i] = inbox[r][i]
         \/ inbox'[r][i] = m
  <2>1. CASE inbox'[r] = Append(inbox[r], m)
    <3>1. \A i \in 1 .. Len(Append(inbox[r], m)) :
             \/ i \in 1 .. Len(inbox[r]) /\ Append(inbox[r], m)[i] = inbox[r][i]
             \/ Append(inbox[r], m)[i] = m
      BY <1>0, <1>3
    <3> QED
      BY <2>1, <3>1
  <2>2. CASE inbox'[r] = inbox[r]
    BY <2>2
  <2> QED
    BY <1>1, <1>2, <2>1, <2>2
<1>5. /\ Dry(r) => Dry(r)'
      /\ OnlyAnswers(out[r]) /\ OnlyAnswers(inbox[r]) =>
            OnlyAnswers(out[r])' /\ OnlyAnswers(inbox[r])'
      /\ Naming(r, out'[r]) /\ Naming(r, inbox'[r])
  <2>1. Dry(r) => Dry(r)'
    BY <1>1, <1>3, <1>4 DEF Dry, DryQueue
  <2>2. OnlyAnswers(out[r]) /\ OnlyAnswers(inbox[r]) =>
           OnlyAnswers(out[r])' /\ OnlyAnswers(inbox[r])'
    BY <1>3, <1>4 DEF OnlyAnswers
  <2>3. Naming(r, out'[r]) /\ Naming(r, inbox'[r])
    BY <1>3, <1>4 DEF Request, Shown, Naming
  <2> QED
    BY <2>1, <2>2, <2>3
<1>6. \A i : (Accepts(r, i)' <=> Accepts(r, i)) /\ (Accepted(r, i)' <=> Accepted(r, i))
  BY <1>1 DEF Accepts, Accepted
<1>7. Shown(r)'
  BY <1>1, <1>5, ShownFrame DEF Request
<1>8. Waterless(r)' /\ AcceptsOnce(r)'
  BY <1>1, <1>5, <1>6 DEF Request, Waterless, Pending, AcceptsOnce, Sinkless
<1> QED
  BY <1>1, <1>5, <1>7, <1>8 DEF Request, Unasked, Untold, Consenting, OnlyAsks

(* The connection closes: what is left of the two queues. *)
LEMMA CloseKeepsRequest ==
    ASSUME Known, NEW r \in Receiver, Request(r), CodesStay, Server!Close(r),
           Unread(r) \/ up' = up,
           UNCHANGED <<pc, inbox, code, shown, got, diskBad>>
    PROVE  Request(r)'
<1>0. r \in Client /\ up[r] \in Seq(Server!ClientMessage)
  BY UpType DEF Client
<1>1. out'[r] = <<>> /\ UNCHANGED <<incoming, sink>>
  BY <1>0 DEF Server!Close, Server!storage, Known, ServerSafe, Server!TypeOK
<1>2. \A i \in 1 .. Len(up'[r]) : i \in 1 .. Len(up[r]) /\ up'[r][i] = up[r][i]
  <2>1. PICK m : m = Head(up[r])
    OBVIOUS
  <2>2. ASSUME up[r] # <<>>, up'[r] = <<m>>
        PROVE  \A i \in 1 .. Len(up'[r]) : i \in 1 .. Len(up[r]) /\ up'[r][i] = up[r][i]
    <3>1. Len(<<m>>) = 1 /\ <<m>>[1] = m /\ m = up[r][1] /\ 1 \in 1 .. Len(up[r])
      BY <1>0, <2>1, <2>2, HeadTail
    <3> QED
      BY <2>2, <3>1
  <2> QED
    BY <1>0, <2>1, <2>2, UnreadFacts
<1>3. \A i : /\ Accepts(r, i)' => Accepts(r, i)
             /\ Accepted(r, i)' <=> Accepted(r, i)
  BY <1>1, <1>2 DEF Accepts, Accepted
<1>4. Waterless(r)' /\ AcceptsOnce(r)'
  BY <1>1, <1>3 DEF Request, Waterless, Pending, AcceptsOnce, Sinkless, Dry, DryQueue
<1>5. Shown(r)'
  BY <1>1, ShownFrame DEF Request, Shown, Naming
<1> QED
  BY <1>1, <1>2, <1>4, <1>5
     DEF Request, Unasked, Untold, Consenting, OnlyAsks, OnlyAnswers

LEMMA NetworkKeepsRequest ==
    ASSUME Known, NEW r \in Receiver, Request(r), CodesStay,
           NetworkStep(r) \/ Reset(r) \/ Start(r)
    PROVE  Request(r)'
<1>1. CASE ServerCloses(r) \/ Reset(r) \/ ServerNotices(r)
  <2>1. /\ Server!Close(r) /\ (Unread(r) \/ up' = up)
        /\ UNCHANGED <<pc, inbox, code, shown, got, diskBad>>
    BY <1>1 DEF ServerCloses, ServerNotices, Reset, Server!CloseFlushed, Server!ConnectionLost,
       clientVars, dataVars
  <2> QED
    BY <2>1, CloseKeepsRequest
<1>2. CASE ClientNotices(r) \/ Start(r)
  <2>1. /\ UNCHANGED <<up, inbox, incoming, out, sink, code, shown, got, diskBad>>
        /\ pc'[r] = pc[r] \/ (pc[r] = "new" /\ pc'[r] = "hello")
    BY <1>2 DEF ClientNotices, Start, Server!Connect, Server!storage, Go, serverVars, dataVars,
       Client, Known, Sending
  <2>2. Shown(r)'
    BY <2>1, ShownFrame DEF Request, Shown
  <2>3. \A i : (Accepts(r, i)' <=> Accepts(r, i)) /\ (Accepted(r, i)' <=> Accepted(r, i))
    BY <2>1 DEF Accepts, Accepted
  <2>4. Waterless(r)' /\ AcceptsOnce(r)'
    BY <2>1, <2>3 DEF Request, Waterless, Pending, AcceptsOnce, Sinkless, Dry, DryQueue, Asking
  <2> QED
    BY <2>1, <2>2, <2>4
       DEF Request, Unasked, Untold, Consenting, OnlyAsks, OnlyAnswers, Asking
<1> QED
  BY <1>1, <1>2, ReadsKeepRequest, WritesKeepRequest DEF NetworkStep

(* Past its Receive a receiver may be told anything. *)
LEMMA ToldKeepsRequest ==
    ASSUME Known, NEW r \in Receiver, Request(r), SameClient(r), CodesStay,
           pc[r] \notin Asking, \A i \in Nat : ~Accepts(r, i) /\ ~Accepted(r, i)',
           Naming(r, out'[r])
    PROVE  Request(r)'
<1>1. /\ pc'[r] = pc[r] /\ up'[r] = up[r] /\ inbox'[r] = inbox[r] /\ code'[r] = code[r]
      /\ shown'[r] = shown[r] /\ got'[r] = got[r]
  BY DEF SameClient
<1>2. \A i \in Nat : ~Accepts(r, i)'
  BY <1>1 DEF Accepts
<1>3. Shown(r)'
  BY <1>1, ShownFrame DEF Request, Shown
<1> QED
  BY <1>1, <1>2, <1>3
     DEF Request, Unasked, Consenting, Waterless, Pending, AcceptsOnce, Asking

LEMMA NamingAppend ==
    ASSUME Known, NEW r \in Receiver, Naming(r, out[r]), NEW a \in Server!Message,
           a.id = "Accept" => Names(r, a.file),
           out'[r] \in {out[r], Append(out[r], a)}
    PROVE  Naming(r, out'[r])
<1>1. out[r] \in Seq(Server!Message) /\ Len(out[r]) \in Nat
  BY UpType DEF Client
<1>2. ASSUME out'[r] = Append(out[r], a)
      PROVE  Naming(r, out'[r])
  BY <1>1, <1>2 DEF Naming
<1> QED
  BY <1>2

(* What the main thread has taken was r's Receive: there is no other. *)
LEMMA ReceiveIsHeard ==
    ASSUME Known, NEW r \in Receiver, Request(r), incoming # <<>>, incoming' = Tail(incoming),
           NEW e, e = incoming[1], e.remote = r, e.msg.id = "Receive"
    PROVE  /\ pc[r] \notin Asking /\ Sinkless(r)
           /\ \A i \in Nat : ~Accepts(r, i) /\ ~Accepted(r, i)'
<1>0. incoming \in Seq(Heard)
  BY DEF Known, Kinds
<1>1. 1 \in 1 .. Len(incoming) /\ Accepted(r, 1)
  BY <1>0 DEF Accepted
<1>2. \A i \in Nat : ~Accepts(r, i) /\ (Accepted(r, i) => i = 1)
  BY <1>1 DEF Request, AcceptsOnce
<1>3. \A i \in Nat : Accepted(r, i)' => Accepted(r, i + 1) /\ i # 0
  BY <1>0, HeadTail DEF Accepted
<1>4. \A i \in Nat : ~Accepted(r, i)'
  BY <1>2, <1>3
<1>5. Pending(r) /\ pc[r] \notin Asking
  BY <1>1 DEF Pending, Request, Consenting
<1> QED
  BY <1>2, <1>4, <1>5 DEF Request, Waterless

(* A receiver with a session is past its Receive. *)
LEMMA SessionIsPast ==
    ASSUME Known, NEW r \in Receiver, Request(r), ~Sinkless(r), NoNews(r)
    PROVE  /\ pc[r] \notin Asking
           /\ \A i \in Nat : ~Accepts(r, i) /\ ~Accepted(r, i)'
<1>1. pc[r] \notin Asking /\ ~Pending(r)
  BY DEF Request, Waterless
<1>2. PICK k \in {0, 1} : \A i : Accepted(r, i)' => Accepted(r, i + k)
  BY StillHeard
<1>3. \A i \in Nat : i + k \in Nat
  OBVIOUS
<1> QED
  BY <1>1, <1>2, <1>3 DEF Pending

(* An answer names the file of the sender that printed the phrase. *)
LEMMA AnsweredNames ==
    ASSUME Known, Codes, NEW e \in Heard, e = incoming[1], 1 \in 1 .. Len(incoming),
           e.remote \in Receiver, e.msg.id = "RequestReceive",
           NEW a \in ReceiverAnswer, a.id = "Accept",
           NEW s \in Sender, phrase[s] = e.msg.code, a.file = context[s]
    PROVE  Names(e.remote, a.file)
<1>1. e.remote \in Client /\ s \in Client /\ e.msg \in Server!ClientMessage
  BY Roles DEF Client
<1>2. e.msg.code = code[e.remote] /\ e.msg.code \in Phrase
  BY <1>1, Payload DEF Codes, Code, HeardTruthful, Truthful
<1>3. phrase[s] # None /\ a.file # None
  BY <1>2, NoneAssumption DEF ReceiverAnswer
<1>4. code[s] = phrase[s] /\ a.file = FileOf[s]
  BY <1>1, <1>3 DEF Codes, Code
<1> QED
  BY <1>2, <1>3, <1>4 DEF Names

LEMMA AnsweredKeepsRequest ==
    ASSUME Known, Codes, NEW r \in Receiver, Request(r), SameClient(r), NoNews(r), CodesStay,
           NEW e \in Heard, e = incoming[1], 1 \in 1 .. Len(incoming),
           e.remote = r, Answered(e)
    PROVE  Request(r)'
<1>0. r \in Client /\ out[r] \in Seq(Server!Message) /\ Len(out[r]) \in Nat
  BY UpType DEF Client
<1>1. PICK a \in ReceiverAnswer :
         /\ a.id \in {"Accept", "Reject"}
         /\ a.id = "Accept" => \E s \in Sender : phrase[s] = e.msg.code /\ a.file = context[s]
         /\ out' = Server!SendTo(r, a)
  BY DEF Answered
<1>2. a.id = "Accept" => Names(r, a.file)
  BY <1>1, AnsweredNames DEF Answered
<1>3. /\ pc'[r] = pc[r] /\ up'[r] = up[r] /\ inbox'[r] = inbox[r] /\ code'[r] = code[r]
      /\ shown'[r] = shown[r] /\ got'[r] = got[r] /\ diskBad'[r] = diskBad[r] /\ sink' = sink
  BY DEF SameClient, Answered
<1>4. a \in Server!Message /\ out'[r] \in {out[r], Append(out[r], a)}
  BY <1>0, <1>1, SendToFacts DEF ReceiverAnswer
<1>5. \A i \in 1 .. Len(out'[r]) :
         (i \in 1 .. Len(out[r]) /\ out'[r][i] = out[r][i]) \/ out'[r][i] = a
  <2>1. \A i \in 1 .. Len(Append(out[r], a)) :
           \/ i \in 1 .. Len(out[r]) /\ Append(out[r], a)[i] = out[r][i]
           \/ Append(out[r], a)[i] = a
    BY <1>0, <1>4
  <2> QED
    BY <1>4, <2>1
<1>6. Naming(r, out'[r])
  BY <1>2, <1>4, NamingAppend DEF Request, Shown
<1>7. Shown(r)'
  BY <1>3, <1>6, ShownFrame DEF Request, Shown
<1>8. PICK k \in {0, 1} : \A i : Accepted(r, i)' => Accepted(r, i + k)
  BY StillHeard
<1>9. \A i \in Nat : /\ i + k \in Nat
                     /\ \A j \in Nat : i + k = j + k => i = j
                     /\ Accepts(r, i)' <=> Accepts(r, i)
  BY <1>3 DEF Accepts
<1>10. Waterless(r)'
  <2>1. Pending(r)' => Pending(r)
    BY <1>8, <1>9 DEF Pending
  <2>2. Dry(r) => Dry(r)'
    BY <1>1, <1>3, <1>5 DEF Dry, DryQueue, IsData
  <2> QED
    BY <1>3, <2>1, <2>2 DEF Request, Waterless, Sinkless
<1>11. AcceptsOnce(r)'
  BY <1>8, <1>9 DEF Request, AcceptsOnce
<1>12. Consenting(r)'
  <2>1. OnlyAnswers(out[r]) => OnlyAnswers(out[r])'
    BY <1>1, <1>5 DEF OnlyAnswers
  <2> QED
    BY <1>3, <2>1, StillHeard DEF Request, Consenting, OnlyAsks, OnlyAnswers
<1>13. Unasked(r)'
  <2>1. pc[r] \notin {"new", "hello"}
    BY <1>0 DEF Codes, Code, Quiet, NoneHeard
  <2> QED
    BY <1>3, <2>1 DEF Unasked
<1> QED
  BY <1>7, <1>10, <1>11, <1>12, <1>13 DEF Request

LEMMA JoinedReceiver ==
    ASSUME Known, NEW e, NEW s \in Sender, Joined(e, s), Sinkless(e.remote),
           receiverOf = sink
    PROVE  receiverOf' = sink'
<1>1. \A j \in Client : sink[j] # e.remote
  BY ServerConstants DEF Joined, Client, Sinkless, Known, Kinds, SendersOffer
<1> QED
  BY <1>1 DEF Joined, Server!AddSession, Server!BimapInsert

LEMMA HandlerKeepsRequest ==
    ASSUME Known, Codes, ServerHandles, CodesStay, Requests, NEW r \in Receiver
    PROVE  Request(r)'
<1>0. /\ Request(r) /\ r \in Client /\ r \notin Sender /\ Sender \subseteq Client
      /\ Receiver \subseteq Client
  BY ClientsAssumption DEF Requests, Client
<1>1. PICK e : e = Head(incoming)
  OBVIOUS
<1>2. /\ Handled(e) /\ SameClient(r) /\ NoNews(r) /\ e \in Heard
      /\ e = incoming[1] /\ 1 \in 1 .. Len(incoming) /\ incoming # <<>>
      /\ incoming' = Tail(incoming)
  BY <1>1, HandlerElsewhere, UpType DEF ServerHandles, Server!Update
<1>3. Naming(r, out[r])
  BY <1>0 DEF Request, Shown
<1>4. /\ Server!Signal("Abort") \in Server!Message /\ Server!Signal("Abort").id = "Abort"
      /\ e.msg \in Server!Message
  <2>1. Server!Signal("Abort") \in Server!Message
    BY ServerAnswers, AnswersAreMessages
  <2>2. Server!Signal("Abort").id = "Abort"
    BY DEF Server!Signal, Server!Encode
  <2>3. e.msg \in Server!Message
    BY <1>2, Roles, Payload
  <2> QED
    BY <2>1, <2>2, <2>3
<1>5. CASE Ignored(e) \/ Offered(e)
  <2>1. UNCHANGED <<out, sink>>
    BY <1>5 DEF Ignored, Offered
  <2> QED
    BY <1>0, <1>2, <2>1, RequestFrame DEF Sinkless
<1>6. CASE Answered(e)
  <2>1. CASE e.remote = r
    BY <1>0, <1>2, <1>6, <2>1, AnsweredKeepsRequest
  <2>2. CASE e.remote # r
    <3>1. out'[r] = out[r] /\ sink' = sink
      BY <1>0, <1>1, <1>6, <2>2, HandledElsewhere DEF SameTablesOf, Answered
    <3> QED
      BY <1>0, <1>2, <3>1, RequestFrame DEF Sinkless
  <2> QED
    BY <2>1, <2>2
<1>7. CASE Refusal(e)
  <2>1. CASE e.remote = r
    <3>1. out'[r] \in {out[r], Append(out[r], Server!Signal("Abort"))}
      BY <1>0, <1>7, <2>1, SendToFacts DEF Refusal
    <3>2. Naming(r, out'[r])
      BY <1>3, <1>4, <3>1, NamingAppend
    <3> QED
      BY <1>0, <1>2, <1>7, <2>1, <3>2, ReceiveIsHeard, ToldKeepsRequest DEF Refusal
  <2>2. CASE e.remote # r
    <3>1. out'[r] = out[r] /\ sink' = sink
      BY <1>0, <1>1, <1>7, <2>2, HandledElsewhere DEF SameTablesOf, Refusal
    <3> QED
      BY <1>0, <1>2, <3>1, RequestFrame DEF Sinkless
  <2> QED
    BY <2>1, <2>2
<1>8. CASE Relayed(e)
  <2>1. e.remote \in Sender /\ sink' = sink /\ out' = Server!SendTo(sink[e.remote], e.msg)
        /\ e.msg.id \in {"Chunk", "FinalChunk"} /\ sink[e.remote] \in Receiver
    BY <1>8 DEF Relayed
  <2>2. CASE sink[e.remote] = r
    <3>1. ~Sinkless(r)
      BY <2>1, <2>2 DEF Sinkless
    <3>2. out'[r] \in {out[r], Append(out[r], e.msg)}
      BY <1>0, <2>1, <2>2, SendToFacts
    <3>3. Naming(r, out'[r])
      BY <1>3, <1>4, <2>1, <3>2, NamingAppend
    <3> QED
      BY <1>0, <1>2, <3>1, <3>3, SessionIsPast, ToldKeepsRequest
  <2>3. CASE sink[e.remote] # r
    <3>1. out'[r] = out[r]
      BY <1>0, <2>1, <2>3, SendToFacts
    <3> QED
      BY <1>0, <1>2, <2>1, <3>1, RequestFrame DEF Sinkless
  <2> QED
    BY <2>2, <2>3
<1>9. ASSUME NEW s \in Sender, Joined(e, s)
      PROVE  Request(r)'
  <2>1. /\ out'[r] = out[r] /\ sink'[s] = IF sink[s] = None THEN e.remote ELSE sink[s]
        /\ \A d \in Client \ {s} : sink'[d] = sink[d]
    BY <1>0, <1>1, <1>9, HandledElsewhere, JoinedFacts DEF SameTablesOf
  <2>2. CASE e.remote = r
    <3>1. Naming(r, out'[r])
      BY <1>3, <2>1
    <3> QED
      BY <1>0, <1>2, <1>9, <2>2, <3>1, ReceiveIsHeard, ToldKeepsRequest DEF Joined
  <2>3. CASE e.remote # r
    <3>1. Sinkless(r) => Sinkless(r)'
      BY <1>0, <2>1, <2>3 DEF Sinkless
    <3> QED
      BY <1>0, <1>2, <2>1, <3>1, RequestFrame
  <2> QED
    BY <2>2, <2>3
<1>10. ASSUME NEW s \in Sender, Completed(e, s) \/ BrokenOff(e, s)
       PROVE  Request(r)'
  <2>1. Withdrawn(s)
    BY <1>10 DEF Completed, BrokenOff
  <2>2. Sinkless(r) => Sinkless(r)'
    BY <1>0, <2>1, WithdrawnFacts, ClientsAssumption DEF Sinkless, Client
  <2>3. CASE BrokenOff(e, s) /\ sink[s] = r
    <3>1. ~Sinkless(r)
      BY <2>3 DEF Sinkless
    <3>2. out'[r] \in {out[r], Append(out[r], Server!Signal("Abort"))}
      BY <1>0, <2>3, SendToFacts DEF BrokenOff
    <3>3. Naming(r, out'[r])
      BY <1>3, <1>4, <3>2, NamingAppend
    <3> QED
      BY <1>0, <1>2, <3>1, <3>3, SessionIsPast, ToldKeepsRequest
  <2>4. CASE ~(BrokenOff(e, s) /\ sink[s] = r)
    <3>1. out'[r] = out[r]
      BY <1>0, <1>1, <1>10, <2>4, HandledElsewhere DEF SameTablesOf
    <3> QED
      BY <1>0, <1>2, <2>2, <3>1, RequestFrame
  <2> QED
    BY <2>3, <2>4
<1> QED
  BY <1>2, <1>5, <1>6, <1>7, <1>8, <1>9, <1>10 DEF Handled

LEMMA HandlerKeepsRequests ==
    ASSUME Known, Codes, ServerHandles, CodesStay, Requests
    PROVE  Requests'
<1>1. PICK e : e = Head(incoming)
  OBVIOUS
<1>2. /\ Handled(e) /\ e \in Heard /\ e = incoming[1] /\ incoming # <<>>
      /\ incoming' = Tail(incoming)
  BY <1>1, HandlerElsewhere, UpType DEF ServerHandles, Server!Update
<1>3. CASE Ignored(e) \/ Offered(e) \/ Answered(e) \/ Refusal(e) \/ Relayed(e)
  <2>1. receiverOf' = sink'
    BY <1>3 DEF Requests, Ignored, Offered, Answered, Refusal, Relayed
  <2> QED
    BY <2>1, HandlerKeepsRequest DEF Requests
<1>4. ASSUME NEW s \in Sender, Joined(e, s)
      PROVE  receiverOf' = sink'
  <2>1. e.remote \in Receiver /\ e.msg.id = "Receive"
    BY <1>4 DEF Joined
  <2>2. Sinkless(e.remote)
    BY <1>2, <2>1, ReceiveIsHeard DEF Requests
  <2> QED
    BY <1>4, <2>2, JoinedReceiver DEF Requests
<1>5. ASSUME NEW s \in Sender, Completed(e, s) \/ BrokenOff(e, s)
      PROVE  receiverOf' = sink'
  BY <1>5 DEF Completed, BrokenOff, Withdrawn, Requests
<1> QED
  BY <1>2, <1>3, <1>4, <1>5, HandlerKeepsRequest DEF Requests, Handled

(* Steps of one client or its network. *)
LEMMA RequestsFrame ==
    ASSUME Known, Requests, CodesStay, NEW c \in Client, Elsewhere(c),
           UNCHANGED <<sink, receiverOf>>, c \in Receiver => Request(c)'
    PROVE  Requests'
<1> SUFFICES ASSUME NEW r \in Receiver, r # c
             PROVE  Request(r)'
  BY DEF Requests
<1>1. SameClient(r) /\ SameTablesOf(r) /\ NoNews(r)
  BY DEF Elsewhere, Client
<1> QED
  BY <1>1, RequestFrame DEF Requests, SameTablesOf, Sinkless

LEMMA StepKeepsRequests ==
    ASSUME Known, Codes, Requests, [Next]_vars
    PROVE  Requests'
<1>0. /\ Sender \subseteq Client /\ Receiver \subseteq Client /\ Client = Sender \cup Receiver
      /\ Sender \cap Receiver = {} /\ CodesStay
  BY ClientsAssumption, StepKeepsCode DEF Client
<1>1. CASE ServerHandles
  BY <1>0, <1>1, HandlerKeepsRequests
<1>2. ASSUME NEW c \in Client, NetworkStep(c) \/ Reset(c) \/ Start(c)
      PROVE  Requests'
  <2>1. UNCHANGED <<sink, receiverOf>>
    BY <1>2 DEF NetworkStep, Reset, Start, ServerReads, ServerWrites, ServerCloses,
                ServerNotices, ClientNotices, Server!Arrive, Server!WriteDone,
                Server!CloseFlushed, Server!ConnectionLost, Server!Close, Server!Connect,
                Server!storage, serverVars
  <2> QED
    BY <1>0, <1>2, <2>1, NetworkElsewhere, NetworkKeepsRequest, RequestsFrame DEF Requests
<1>3. ASSUME NEW s \in Sender, SenderStep(s) \/ Crash(s) \/ FileGone(s) \/ ReadError(s)
      PROVE  Requests'
  <2>1. Others(s) /\ UNCHANGED serverVars
    BY <1>0, <1>3, SenderOthers, CrashOthers, SenderSpeaks DEF Spoken
  <2>2. UNCHANGED <<sink, receiverOf>>
    BY <2>1 DEF serverVars
  <2> QED
    BY <1>0, <2>1, <2>2, RoutineElsewhere, RequestsFrame
<1>4. ASSUME NEW r \in Receiver,
             \/ ReceiverStep(r) \/ Decline(r) \/ Consent(r) \/ Crash(r)
             \/ OpenError(r) \/ WriteError(r)
      PROVE  Requests'
  <2>1. Others(r) /\ UNCHANGED serverVars
    BY <1>0, <1>4, ReceiverOthers, CrashOthers, ReceiverSpeaks DEF Spoken
  <2>2. UNCHANGED <<sink, receiverOf>>
    BY <2>1 DEF serverVars
  <2> QED
    BY <1>0, <1>4, <2>1, <2>2, RoutineElsewhere, ReceiverKeepsRequest, RequestsFrame
       DEF Requests, Codes
<1>5. ASSUME NEW s \in Sender, Corrupt(s)
      PROVE  Requests'
  <2>1. UNCHANGED <<sink, receiverOf>>
    BY <1>5 DEF Corrupt, serverVars
  <2> QED
    BY <1>0, <1>5, <2>1, CorruptElsewhere, RequestsFrame
<1>6. CASE UNCHANGED vars
  <2>1. ASSUME NEW c \in Client PROVE SameClient(c) /\ SameTablesOf(c) /\ NoNews(c)
    BY <1>6, QuietQueue
       DEF vars, serverVars, clientVars, dataVars, SameClient, SameTablesOf
  <2>2. UNCHANGED <<sink, receiverOf>>
    BY <1>6 DEF vars, serverVars
  <2> QED
    BY <1>0, <2>1, <2>2, RequestFrame DEF Requests, Sinkless, SameTablesOf
<1> QED
  BY <1>0, <1>1, <1>2, <1>3, <1>4, <1>5, <1>6 DEF Next, UserStep, FaultStep

(* Nothing reaches a receiver before its consent is heard; it is heard     *)
(* once, and the prompt it was given for showed a file of its own phrase.  *)
THEOREM RequestsInvariant == Spec => []Requests
<1>1. Init => Requests
  <2> SUFFICES ASSUME Init, NEW r \in Receiver
               PROVE  Request(r) /\ receiverOf = sink
    BY DEF Requests, Init, Server!Init
  <2>1. r \in Client /\ Sender \subseteq Client /\ r # None
    BY ClientsAssumption DEF Client
  <2>2. /\ pc[r] = "new" /\ up[r] = <<>> /\ inbox[r] = <<>> /\ out[r] = <<>>
        /\ incoming = <<>> /\ got[r] = <<>> /\ diskBad[r] = FALSE /\ receiverOf = sink
        /\ \A s \in Sender : sink[s] = None
    BY <2>1 DEF Init, Server!Init
  <2> QED
    BY <2>1, <2>2
       DEF Request, Unasked, Untold, Consenting, OnlyAsks, OnlyAnswers, Waterless, Sinkless,
           Dry, DryQueue, AcceptsOnce, Accepts, Accepted, Shown, Naming
<1>2. Known /\ Codes /\ Requests /\ [Next]_vars => Requests'
  BY StepKeepsRequests
<1> QED
  BY <1>1, <1>2, KindsInvariant, CodesInvariant, PTL DEF Spec
=============================================================================
