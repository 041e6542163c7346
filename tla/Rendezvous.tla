----------------------------- MODULE Rendezvous -----------------------------
(***************************************************************************)
(* What the server promises its clients, with no messages, threads or      *)
(* connections: a sender offers a file under a phrase that nobody else     *)
(* uses, the offer is linked to one receiver, and offer and link end       *)
(* together.  FileServer implements this specification.                    *)
(***************************************************************************)
CONSTANTS Client, Phrase, None

VARIABLES
    offer,      \* the phrase that leads to a sender
    link        \* the receiver that a sender's chunks go to

Init ==
    /\ offer = [c \in Client |-> None]
    /\ link = [c \in Client |-> None]

(* A sender that is not linked offers a phrase of its own. *)
Offer(s, p) ==
    /\ link[s] = None
    /\ \A t \in Client \ {s} : offer[t] # p
    /\ offer' = [offer EXCEPT ![s] = p]
    /\ UNCHANGED link

(* It loses the offer it had when the phrase it asks for is taken. *)
Withdraw(s, p) ==
    /\ link[s] = None
    /\ \E t \in Client \ {s} : offer[t] = p
    /\ offer' = [offer EXCEPT ![s] = None]
    /\ UNCHANGED link

(* The first receiver to ask for an offer gets it and keeps it. *)
Join(s, r) ==
    /\ offer[s] # None
    /\ link[s] = None
    /\ link' = [link EXCEPT ![s] = r]
    /\ UNCHANGED offer

(* Offer and link end together, by success or by failure. *)
End(s) ==
    /\ link[s] # None
    /\ offer' = [offer EXCEPT ![s] = None]
    /\ link' = [link EXCEPT ![s] = None]

Next == \E s \in Client :
            \/ \E p \in Phrase : Offer(s, p) \/ Withdraw(s, p)
            \/ \E r \in Client : Join(s, r)
            \/ End(s)

Spec == Init /\ [][Next]_<<offer, link>>
=============================================================================
