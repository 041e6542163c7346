------------------------------- MODULE MCInbox ------------------------------
(* Every payload on a connection of its own, a conversation of two         *)
(* messages, and two connections that share a queue.  Bytes count to 3, so *)
(* a phrase of five does not fit its size.                                 *)
EXTENDS Inbox
CONSTANTS c1, c2

Generated == {<<1>>, <<2, 1>>}              \* phrases a sender draws
Typed == Generated \cup {<<>>, <<1, 2, 3, 2, 1>>}   \* phrases on a command line
NamedFiles == {[name |-> <<2>>, nameSize |-> 1, size |-> <<3, 2>>],
               [name |-> <<1, 2, 0>>, nameSize |-> 3, size |-> <<0, 1>>],
               [name |-> <<3, 1, 2, 0, 2>>, nameSize |-> 1, size |-> <<1, 1>>]}
UnnamedFiles == {[name |-> <<>>, nameSize |-> b, size |-> <<1, 0>>] : b \in {0, 1, 3}}

Msg(id, p) == [id |-> id, payload |-> p]

Payloads ==
    {Msg("Send", [type |-> 0, code |-> p, file |-> f]) : p \in Generated, f \in NamedFiles}
    \cup {Msg("RequestReceive", [type |-> 0, code |-> p, file |-> f]) : p \in Typed, f \in UnnamedFiles}
    \cup {Msg("Accept", [type |-> 0, maxChunkSize |-> <<1, 0>>, code |-> <<2, 1>>, file |-> f]) :
             f \in {f \in NamedFiles : f.nameSize = Len(f.name)}}
    \cup {Msg("Receive", [code |-> p]) : p \in Typed}
    \cup {Msg("Chunk", [data |-> d, hash |-> <<1, 3>>]) : d \in {<<3>>, <<0, 1, 2>>}}
    \cup {Msg("FinalChunk", [empty |-> b]) : b \in {0, 3}}

AChunk == Msg("Chunk", [data |-> <<3>>, hash |-> <<1, 3>>])
AnEnd == Msg("FinalChunk", [empty |-> 2])
ARequest == Msg("Receive", [code |-> <<1>>])

TheScripts ==
    {[c \in {c1} |-> <<m>>] : m \in Payloads}
    \cup {[c \in {c1} |-> <<AChunk, AnEnd>>]}
    \cup {[c \in {c1, c2} |-> IF c = c1 THEN <<AnEnd, AnEnd>> ELSE <<ARequest>>]}
=============================================================================
