------------------------------ MODULE Channel -------------------------------
(***************************************************************************)
(* One direction of a connection as the rest of the system sees it, and as *)
(* FileServer and Transfer use it: what is sent while the socket is open   *)
(* is written once and in order; a close that is asked for happens only    *)
(* when everything sent before it has been written.  Only a connection     *)
(* that has broken, or whose owner leaves, closes before that.             *)
(***************************************************************************)
EXTENDS Naturals, Sequences

CONSTANT Msg

VARIABLES
    isOpen,
    queue,      \* sent, not yet written
    wire,       \* written
    asked,      \* disconnectAfterFlush has been called ...
    due,        \* ... and the close waits for so many messages
    broken      \* an error, or the owner leaves

vars == <<isOpen, queue, wire, asked, due, broken>>

Init ==
    /\ isOpen = TRUE /\ broken = FALSE
    /\ queue = <<>> /\ wire = <<>>
    /\ asked = FALSE /\ due = 0

Send(m) ==
    /\ isOpen
    /\ queue' = Append(queue, m)
    /\ UNCHANGED <<isOpen, wire, asked, due, broken>>

Write ==
    /\ isOpen /\ queue # <<>>
    /\ wire' = Append(wire, Head(queue))
    /\ queue' = Tail(queue)
    /\ UNCHANGED <<isOpen, asked, due, broken>>

AskClose ==
    /\ asked' = TRUE
    /\ due' = Len(wire) + Len(queue)
    /\ UNCHANGED <<isOpen, queue, wire, broken>>

(* What is still queued stays unwritten. *)
Close ==
    /\ isOpen
    /\ broken \/ (asked /\ Len(wire) >= due)
    /\ isOpen' = FALSE
    /\ UNCHANGED <<queue, wire, asked, due, broken>>

(* The connection breaks, and closes with it if that is an error.          *)
Break ==
    /\ broken' = TRUE
    /\ isOpen' \in {isOpen, FALSE}
    /\ UNCHANGED <<queue, wire, asked, due>>

Next == (\E m \in Msg : Send(m)) \/ Write \/ AskClose \/ Close \/ Break

Spec == Init /\ [][Next]_vars
=============================================================================
