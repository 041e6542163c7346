------------------------------ MODULE Transfer ------------------------------
(***************************************************************************)
(* A whole transfer: the server of module FileServer between real clients, *)
(* the sendRoutine and the receiveRoutine of filetransmission/ppclient     *)
(* with their ClientSenderSession and ClientReceiverSession.               *)
(*                                                                         *)
(* Between a client and the server there is one TCP connection.  up[c] is  *)
(* what the client's send() has accepted and the server has not yet read;  *)
(* out[c] is the server's side of it, and a message leaves out[c] for      *)
(* inbox[c], the client's own m_messages_in, when it is written and read.  *)
(* Each end notices for itself that the connection is gone: link[c] is the *)
(* client's isConnected(), conn[c] the server's.                           *)
(*                                                                         *)
(* Faults (a crash, a reset, a flipped bit, a failing disk) are actions of *)
(* their own, at most MaxFaults of them in a run.                          *)
(***************************************************************************)
EXTENDS Integers, Sequences

CONSTANTS
    Phrase, File, None,
    Sender, Receiver,   \* the clients, by what they were started to do
    FileOf,             \* the file each sender was started with
    Parts,              \* the number of chunks a file is read in
    MaxIncoming, MaxOut,
    MaxFaults           \* bound: faults in one run

ASSUME ClientsAssumption == Sender \cap Receiver = {} /\ None \notin Sender \cup Receiver
ASSUME FilesAssumption == FileOf \in [Sender -> File] /\ Parts \in [File -> Nat]

Client == Sender \cup Receiver

(* A chunk's body: which bytes it holds and whether its hash matches them. *)
Body == UNION {[file : {f}, part : 1 .. Parts[f], sound : BOOLEAN] : f \in File}

(* What FileServer assumes of its constants. *)
ASSUME NoneAssumption == None \notin Phrase \cup File \cup Body
ASSUME BoundAssumption ==
    MaxIncoming \in Nat /\ MaxOut \in Nat /\ MaxFaults \in Nat

VARIABLES
    conn, closing, incoming, out, phrase, context, receiverOf, sink, \* the server
    pc,         \* where each client's routine stands
    link,       \* the client's socket is open
    up,         \* sent by the client, not yet read by the server
    inbox,      \* the client's m_messages_in
    code,       \* the phrase a sender printed, or a receiver was started with
    ready,      \* the sender has seen Accept: out_chunksize is initialised
    sent,       \* chunks the sender has read and sent
    ended,      \* the sender has come to what it took for the end of its file
    shown,      \* the file the receiver's prompt described
    got,        \* what the receiver has written to its file
    diskBad,    \* a write to the receiver's file has failed
    faults      \* faults so far

Server == INSTANCE FileServer
            WITH BodySize <- [b \in Body |-> 3], HashLength <- 2,
                 MaxChunkSize <- 1, SizeModulus <- 8

serverVars == <<conn, closing, incoming, out, phrase, context, receiverOf, sink>>
dataVars == <<code, ready, sent, ended, shown, got, diskBad>>
clientVars == <<pc, link, up, inbox, dataVars>>
vars == <<serverVars, clientVars, faults>>

Over == {"ok", "failed", "declined"}

(* The bytes of a file, as the chunks they are sent in. *)
Contents(f) == [i \in 1 .. Parts[f] |-> [file |-> f, part |-> i, sound |-> TRUE]]

-----------------------------------------------------------------------------
(* What the routines share.                                                *)

Go(c, label) == pc' = [pc EXCEPT ![c] = label]

(* Connection::send on the client: queued while the socket is open.  What  *)
(* the server has already hung up on goes nowhere.                         *)
Put(q, c, m) == IF link[c] /\ conn[c] = "open" THEN Append(q, m) ELSE q
Queue(c, m) == up' = [up EXCEPT ![c] = Put(@, c, m)]

(* The routine returns and ~ClientBase stops the io_context: any suffix of *)
(* what was sent may not have been written yet and is lost.                *)
Leave(c, result, q) ==
    /\ Go(c, result)
    /\ link' = [link EXCEPT ![c] = FALSE]
    /\ inbox' = [inbox EXCEPT ![c] = <<>>]
    /\ \E n \in 0 .. Len(q) : up' = [up EXCEPT ![c] = SubSeq(q, 1, n)]

(* waitForConnection has seen a connected and validated socket. *)
Start(c) ==
    /\ pc[c] = "new"
    /\ Server!Connect(c)
    /\ Go(c, "hello")
    /\ link' = [link EXCEPT ![c] = TRUE]
    /\ UNCHANGED <<up, inbox, dataVars, faults>>

(* establishSession of both routines: the client waits for a message, then *)
(* takes one after the other until it meets an answer or has seen all.     *)
Answer(c, next) ==
    /\ inbox[c] # <<>>
    /\ LET m == Head(inbox[c])
       IN  IF m.id = "Reject"
           THEN Leave(c, "failed", up[c])
           ELSE /\ inbox' = [inbox EXCEPT ![c] = Tail(@)]
                /\ Go(c, IF m.id = "Accept" \/ Tail(inbox[c]) = <<>> THEN next ELSE pc[c])
                /\ UNCHANGED <<link, up>>

-----------------------------------------------------------------------------
(* sendRoutine.                                                            *)

(* A mutant: the metadata of the file is left out. *)
Announce_NoMetadata(s) ==
    /\ pc[s] = "hello"
    /\ \E p \in Phrase :
          /\ code' = [code EXCEPT ![s] = p]
          /\ Queue(s, Server!Send(p, None))
    /\ Go(s, "await")
    /\ UNCHANGED <<serverVars, link, inbox, ready, sent, ended, shown, got, diskBad, faults>>

(* The phrase is drawn at random, printed and sent. *)
Announce(s) ==
    /\ pc[s] = "hello"
    /\ \E p \in Phrase :
          /\ code' = [code EXCEPT ![s] = p]
          /\ IF link[s]
             THEN /\ Queue(s, Server!Send(p, FileOf[s]))
                  /\ Go(s, "await")
                  /\ UNCHANGED <<link, inbox>>
             ELSE Leave(s, "failed", up[s])
    /\ UNCHANGED <<serverVars, ready, sent, ended, shown, got, diskBad, faults>>

AwaitReceiver(s) ==
    /\ pc[s] = "await"
    /\ Answer(s, "sending")
    /\ ready' = [ready EXCEPT ![s] = Head(inbox[s]).id = "Accept"]
    /\ UNCHANGED <<serverVars, code, sent, ended, shown, got, diskBad, faults>>

Aborted(s) == \E i \in 1 .. Len(inbox[s]) : inbox[s][i].id = "Abort"

(* One turn of ClientSenderSession::mainLoop: everything in the inbox is   *)
(* looked at and dropped, one chunk is read and sent.                      *)
SendChunk(s) ==
    /\ pc[s] = "sending" /\ ~Aborted(s) /\ link[s]
    /\ sent[s] < Parts[FileOf[s]]
    /\ Queue(s, Server!Chunk(Contents(FileOf[s])[sent[s] + 1]))
    /\ sent' = [sent EXCEPT ![s] = @ + 1]
    /\ inbox' = [inbox EXCEPT ![s] = <<>>]
    /\ UNCHANGED <<serverVars, pc, link, code, ready, ended, shown, got, diskBad, faults>>

(* Nothing more can be read.  The last turn has looked at the inbox, or the *)
(* chunk before has left the stream at its end and there is no more turn:   *)
(* then even an Abort is left to waitForConfirmation.                       *)
EndOfInput(s) ==
    /\ pc[s] = "sending"
    /\ \/ ~Aborted(s) /\ inbox' = [inbox EXCEPT ![s] = <<>>]
       \/ sent[s] > 0 /\ UNCHANGED inbox
    /\ Queue(s, Server!Signal("FinalChunk"))
    /\ Go(s, "confirm")
    /\ ended' = [ended EXCEPT ![s] = TRUE]
    /\ UNCHANGED <<serverVars, link, code, ready, sent, shown, got, diskBad>>

FinishSending(s) ==
    /\ sent[s] = Parts[FileOf[s]]
    /\ EndOfInput(s)
    /\ UNCHANGED faults

(* Abort was received or a send failed: the loop is left, FinalChunk goes  *)
(* out all the same and the routine fails.                                 *)
StopSending(s) ==
    /\ pc[s] = "sending"
    /\ Aborted(s) \/ (~link[s] /\ sent[s] < Parts[FileOf[s]])
    /\ Leave(s, "failed", Put(up[s], s, Server!Signal("FinalChunk")))
    /\ UNCHANGED <<serverVars, dataVars, faults>>

(* waitForConfirmation. *)
Confirm(s) ==
    /\ pc[s] = "confirm"
    /\ inbox[s] # <<>>
    /\ LET id == Head(inbox[s]).id
       IN  CASE id = "Success" -> Leave(s, "ok", up[s])
             [] id = "Abort"   -> Leave(s, "failed", up[s])
             [] OTHER          -> /\ inbox' = [inbox EXCEPT ![s] = Tail(@)]
                                  /\ UNCHANGED <<pc, link, up>>
    /\ UNCHANGED <<serverVars, dataVars, faults>>

-----------------------------------------------------------------------------
(* receiveRoutine.                                                         *)

Ask(r) ==
    /\ pc[r] = "hello"
    /\ \E p \in Phrase :
          /\ code' = [code EXCEPT ![r] = p]
          /\ Queue(r, Server!RequestReceive(p))
    /\ Go(r, "asked")
    /\ UNCHANGED <<serverVars, link, inbox, ready, sent, ended, shown, got, diskBad, faults>>

(* A mutant: the header is taken for the file's metadata. *)
AwaitOffer_Header(r) ==
    /\ pc[r] = "asked"
    /\ Answer(r, "prompt")
    /\ shown' = [shown EXCEPT ![r] = Head(inbox[r]).id]
    /\ UNCHANGED <<serverVars, code, ready, sent, ended, got, diskBad, faults>>

AwaitOffer(r) ==
    /\ pc[r] = "asked"
    /\ Answer(r, "prompt")
    /\ shown' = [shown EXCEPT ![r] = Head(inbox[r]).file]
    /\ UNCHANGED <<serverVars, code, ready, sent, ended, got, diskBad, faults>>

(* The user answers the prompt with anything but y. *)
Decline(r) ==
    /\ pc[r] = "prompt"
    /\ Leave(r, "declined", up[r])
    /\ UNCHANGED <<serverVars, dataVars, faults>>

Consent(r) ==
    /\ pc[r] = "prompt"
    /\ Queue(r, Server!Receive(code[r]))
    /\ Go(r, "receiving")
    /\ UNCHANGED <<serverVars, link, inbox, dataVars, faults>>

(* mainLoop has returned true: FinishReceive, then flush(). *)
ReportSuccess(r) ==
    /\ Queue(r, Server!Signal("FinishReceive"))
    /\ Go(r, "flushing")
    /\ UNCHANGED link

(* A mutant: hashes are not compared. *)
Refused_NoHash(m) == m.id = "Abort"

(* Abort and a chunk whose hash is wrong end the loop, without a word to   *)
(* the server.                                                             *)
Refused(m) == m.id = "Abort" \/ (m.id = "Chunk" /\ ~m.body.sound)

(* A mutant: an empty inbox is taken for the end. *)
Finished_WhenEmpty(m, bad, rest) == m.id = "FinalChunk" \/ rest = <<>>

(* FinalChunk ends the loop well.  The inner loop looks at the stream only *)
(* when the inbox has run empty: then a bad disk ends the outer one, and   *)
(* op_result is still true.                                                *)
Finished(m, bad, rest) == m.id = "FinalChunk" \/ (bad /\ rest = <<>>)

(* One message of ClientReceiverSession::mainLoop; written says whether    *)
(* the write of a chunk succeeds.                                          *)
TakeMessage(r, written) ==
    /\ pc[r] = "receiving"
    /\ inbox[r] # <<>>
    /\ LET m == Head(inbox[r])
           isChunk == m.id = "Chunk"
       IN  IF Refused(m)
           THEN Leave(r, "failed", up[r]) /\ UNCHANGED <<got, diskBad>>
           ELSE /\ inbox' = [inbox EXCEPT ![r] = Tail(@)]
                /\ diskBad' = [diskBad EXCEPT ![r] = @ \/ (isChunk /\ ~written)]
                /\ got' = IF isChunk /\ ~diskBad'[r]
                          THEN [got EXCEPT ![r] = Append(@, m.body)] ELSE got
                /\ IF Finished(m, diskBad'[r], Tail(inbox[r]))
                   THEN ReportSuccess(r)
                   ELSE UNCHANGED <<pc, link, up>>
    /\ UNCHANGED <<serverVars, code, ready, sent, ended, shown>>

ReceiveMessage(r) == TakeMessage(r, TRUE) /\ UNCHANGED faults

(* flush() has returned: everything sent is on its way. *)
Flushed(r) ==
    /\ pc[r] = "flushing"
    /\ Go(r, "ok")
    /\ link' = [link EXCEPT ![r] = FALSE]
    /\ inbox' = [inbox EXCEPT ![r] = <<>>]
    /\ UNCHANGED <<serverVars, up, dataVars, faults>>

-----------------------------------------------------------------------------
(* The server and the connections.                                         *)

ServerHandles ==
    /\ Server!Update
    /\ UNCHANGED <<clientVars, faults>>

ServerReads(c) ==
    /\ up[c] # <<>>
    /\ Server!Arrive(c, Head(up[c]))
    /\ up' = [up EXCEPT ![c] = Tail(@)]
    /\ UNCHANGED <<pc, link, inbox, dataVars, faults>>

(* The server's socket closes.  One message may have been read by then and *)
(* its handler be waiting; what is behind it is never read.                *)
Unread(c) ==
    \/ up' = [up EXCEPT ![c] = <<>>]
    \/ up[c] # <<>> /\ up' = [up EXCEPT ![c] = <<Head(@)>>]

(* Written by the server and read by the client, if it is still there. *)
ServerWrites(c) ==
    /\ Server!WriteDone(c)
    /\ inbox' = IF link[c] THEN [inbox EXCEPT ![c] = Append(@, Head(out[c]))] ELSE inbox
    /\ UNCHANGED <<pc, link, up, dataVars, faults>>

ServerCloses(c) ==
    /\ Server!CloseFlushed(c)
    /\ Unread(c)
    /\ UNCHANGED <<pc, link, inbox, dataVars, faults>>

(* The client has left and all it sent has been read. *)
ServerNotices(c) ==
    /\ ~link[c] /\ up[c] = <<>>
    /\ Server!ConnectionLost(c)
    /\ UNCHANGED <<clientVars, faults>>

ClientNotices(c) ==
    /\ link[c] /\ conn[c] = "closed"
    /\ link' = [link EXCEPT ![c] = FALSE]
    /\ UNCHANGED <<serverVars, pc, up, inbox, dataVars, faults>>

-----------------------------------------------------------------------------
(* Faults.                                                                 *)

Fault == faults < MaxFaults /\ faults' = faults + 1

(* The process is killed. *)
Crash(c) ==
    /\ Fault
    /\ pc[c] \notin Over \cup {"new"}
    /\ Leave(c, "failed", up[c])
    /\ UNCHANGED <<serverVars, dataVars>>

(* The connection is reset: both ends lose what was under way. *)
Reset(c) ==
    /\ Fault
    /\ Server!ConnectionLost(c)
    /\ link' = [link EXCEPT ![c] = FALSE]
    /\ Unread(c)
    /\ UNCHANGED <<pc, inbox, dataVars>>

(* A bit of a chunk flips on its way. *)
Damaged(m) == Server!Chunk([m.body EXCEPT !.sound = FALSE])

Corrupt(c) ==
    /\ Fault
    /\ \E i \in 1 .. Len(up[c]) :
          /\ up[c][i].id = "Chunk"
          /\ up' = [up EXCEPT ![c][i] = Damaged(@)]
    /\ UNCHANGED <<serverVars, pc, link, inbox, dataVars>>

(* The file is gone when establishSession asks for its size, or mainLoop   *)
(* looks for it: the routine fails without a word to the server.           *)
FileGone(s) ==
    /\ Fault
    /\ pc[s] = "hello" \/ (pc[s] = "sending" /\ sent[s] = 0)
    /\ Leave(s, "failed", up[s])
    /\ UNCHANGED <<serverVars, dataVars>>

(* Reading fails; gcount() is 0, as at the end of the file. *)
ReadError(s) ==
    /\ Fault
    /\ sent[s] < Parts[FileOf[s]]
    /\ EndOfInput(s)

(* ./out cannot be opened: the session is given up before it begins. *)
OpenError(r) ==
    /\ Fault
    /\ pc[r] = "prompt"
    /\ Leave(r, "failed", Put(Put(up[r], r, Server!Receive(code[r])),
                             r, Server!Signal("FailedReceive")))
    /\ UNCHANGED <<serverVars, dataVars>>

(* The write of a chunk fails. *)
WriteError(r) ==
    /\ Fault
    /\ inbox[r] # <<>> /\ Head(inbox[r]).id = "Chunk"
    /\ TakeMessage(r, FALSE)

-----------------------------------------------------------------------------
Init ==
    /\ Server!Init
    /\ pc = [c \in Client |-> "new"]
    /\ link = [c \in Client |-> FALSE]
    /\ up = [c \in Client |-> <<>>]
    /\ inbox = [c \in Client |-> <<>>]
    /\ code = [c \in Client |-> None]
    /\ ready = [s \in Sender |-> FALSE]
    /\ sent = [s \in Sender |-> 0]
    /\ ended = [s \in Sender |-> FALSE]
    /\ shown = [r \in Receiver |-> None]
    /\ got = [r \in Receiver |-> <<>>]
    /\ diskBad = [r \in Receiver |-> FALSE]
    /\ faults = 0

SenderStep(s) ==
    \/ Announce(s) \/ AwaitReceiver(s) \/ SendChunk(s)
    \/ FinishSending(s) \/ StopSending(s) \/ Confirm(s)

ReceiverStep(r) ==
    Ask(r) \/ AwaitOffer(r) \/ ReceiveMessage(r) \/ Flushed(r)

NetworkStep(c) ==
    \/ ServerReads(c) \/ ServerWrites(c) \/ ServerCloses(c)
    \/ ServerNotices(c) \/ ClientNotices(c)

UserStep ==
    \/ \E c \in Client : Start(c)
    \/ \E r \in Receiver : Decline(r) \/ Consent(r)

FaultStep ==
    \/ \E c \in Client : Crash(c) \/ Reset(c)
    \/ \E s \in Sender : Corrupt(s) \/ FileGone(s) \/ ReadError(s)
    \/ \E r \in Receiver : OpenError(r) \/ WriteError(r)

Next ==
    \/ ServerHandles
    \/ \E c \in Client : NetworkStep(c)
    \/ \E s \in Sender : SenderStep(s)
    \/ \E r \in Receiver : ReceiverStep(r)
    \/ UserStep
    \/ FaultStep

Spec == Init /\ [][Next]_vars

(* Threads run and the network delivers.  Nothing obliges a user to start  *)
(* a client or to answer the prompt, and no fault has to happen.           *)
Fairness ==
    /\ WF_vars(ServerHandles)
    /\ \A c \in Client : WF_vars(NetworkStep(c))
    /\ \A s \in Sender : WF_vars(SenderStep(s))
    /\ \A r \in Receiver : WF_vars(ReceiverStep(r))

FairSpec == Spec /\ Fairness

-----------------------------------------------------------------------------
TypeOK ==
    /\ pc \in [Client -> Over \cup {"new", "hello", "await", "sending", "confirm",
                                    "asked", "prompt", "receiving", "flushing"}]
    /\ link \in [Client -> BOOLEAN]
    /\ up \in [Client -> Seq(Server!Message)]
    /\ inbox \in [Client -> Seq(Server!Message)]
    /\ code \in [Client -> Phrase \cup {None}]
    /\ ready \in [Sender -> BOOLEAN]
    /\ sent \in [Sender -> Nat]
    /\ ended \in [Sender -> BOOLEAN]
    /\ shown \in [Receiver -> File \cup {None}]
    /\ got \in [Receiver -> Seq(Body)]
    /\ diskBad \in [Receiver -> BOOLEAN]
    /\ faults \in 0 .. MaxFaults
    /\ Server!TypeOK

(* What a sender has sent so far. *)
SentBy(s) == SubSeq(Contents(FileOf[s]), 1, sent[s])

IsPrefixOf(p, q) == Len(p) <= Len(q) /\ p = SubSeq(q, 1, Len(p))

(* What is written to a receiver's file is, at every moment, an initial    *)
(* part of what one sender sent: the one that printed the phrase the       *)
(* receiver was started with.  No chunk is lost, doubled, reordered,       *)
(* altered or taken from another file.                                     *)
ReceivedInOrder ==
    \A r \in Receiver : got[r] # <<>> =>
        \E s \in Sender : code[s] = code[r] /\ IsPrefixOf(got[r], SentBy(s))

(* A receiver that ends well and whose disk is sound has everything its    *)
(* sender read, and that sender had come to the end of its input.          *)
ReceiverOkIsComplete ==
    \A r \in Receiver : pc[r] \in {"flushing", "ok"} /\ ~diskBad[r] =>
        \E s \in Sender : code[s] = code[r] /\ ended[s] /\ got[r] = SentBy(s)

(* A sender that ends well was received: Success comes only after a        *)
(* receiver has gone through all it sent.  finishSession says it, on        *)
(* FinishReceive; a FinalChunk, of which onSessionedMessage's comment has   *)
(* "Success -> Sender", is only passed on.                                  *)
SenderOkIsReceived ==
    \A s \in Sender : pc[s] = "ok" =>
        \E r \in Receiver : code[r] = code[s] /\ (diskBad[r] \/ got[r] = SentBy(s))

(* establishSession returns true with out_chunksize never assigned when    *)
(* the first messages are neither Accept nor Reject: it must not happen.   *)
SenderStartsInitialised ==
    \A s \in Sender : pc[s] \in {"sending", "confirm", "ok"} => ready[s]

(* The server closes the sender's connection behind Success.  If anything  *)
(* of the sender were still unread, the close would reset the connection   *)
(* and could destroy Success on its way: nothing is, unless a receiver     *)
(* with a failing disk has reported success in mid-transfer.               *)
Has(q, id) == \E i \in 1 .. Len(q) : q[i].id = id

SuccessIsLast ==
    \A s \in Sender :
        /\ Has(out[s], "Success") \/ Has(inbox[s], "Success")
        /\ \A r \in Receiver : code[r] = code[s] => ~diskBad[r]
        =>
        /\ up[s] = <<>>
        /\ \A i \in 1 .. Len(incoming) : incoming[i].remote # s

(* A session is never left with a connection that is about to be closed:   *)
(* its chunks could not arrive.                                            *)
NoSessionOnClosing == \A s \in Sender : sink[s] # None => s \notin closing

(* The prompt names a file; what is then written comes from that file, as  *)
(* long as only one sender has drawn the phrase.  The answer to Receive is *)
(* for whatever offer the phrase leads to by then, which may not be the    *)
(* one the prompt described.                                               *)
Alone(p) == \A s, t \in Sender : code[s] = p /\ code[t] = p => s = t

ConsentedFile ==
    \A r \in Receiver : Alone(code[r]) =>
        \A i \in 1 .. Len(got[r]) : got[r][i].file = shown[r]

(* "File have been successfully received": the whole file is there. *)
ReceivedWhole ==
    \A r \in Receiver : pc[r] = "ok" =>
        \E s \in Sender : code[s] = code[r] /\ got[r] = Contents(FileOf[s])

-----------------------------------------------------------------------------
(* Liveness, with no faults. *)

(* Once a sender has been told to go, its transfer completes. *)
StartedTransferCompletes ==
    \A s \in Sender : pc[s] = "sending" ~> pc[s] = "ok"

(* The receiver a session was made for ends well. *)
LinkedReceiverCompletes ==
    \A s \in Sender, r \in Receiver : sink[s] = r ~> pc[r] = "ok"

(* RequestReceive is answered. *)
RequestIsAnswered ==
    \A r \in Receiver : pc[r] = "asked" ~> pc[r] # "asked"

(* The clients only send what FileServer expects of an arbitrary client,   *)
(* and only when it may arrive: what holds of the server in its open       *)
(* environment holds here.                                                 *)
ImplementsServer == Server!Spec

(* A receiver that waits for chunks gets them, or is told that it will not. *)
WaitingReceiverIsServed ==
    \A r \in Receiver : pc[r] = "receiving" ~> pc[r] # "receiving"

=============================================================================
