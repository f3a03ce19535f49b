-------------------------------- MODULE Bus --------------------------------
(***************************************************************************)
(* What the switchboards of a stack are to their clients: a bus that may   *)
(* lose what is broadcast but invents nothing, brings nothing twice, and   *)
(* keeps the order of each sender.  A packet is its sender and a number    *)
(* that counts the packets of that sender.                                 *)
(*                                                                         *)
(* Switchboard implements this specification.                              *)
(***************************************************************************)
EXTENDS Naturals

CONSTANTS Clients

VARIABLES sent,    \* client -> how many packets it has broadcast
          heard    \* client -> sender -> the last of its packets heard

vars == <<sent, heard>>

Init ==
    /\ sent = [d \in Clients |-> 0]
    /\ heard = [c \in Clients |-> [d \in Clients |-> 0]]

Broadcast(d) ==
    /\ sent'[d] > sent[d]
    /\ sent' = [sent EXCEPT ![d] = sent'[d]]
    /\ UNCHANGED heard

Hear(c, d) ==
    /\ heard'[c][d] > heard[c][d]
    /\ heard'[c][d] <= sent[d]
    /\ heard' = [heard EXCEPT ![c] = [@ EXCEPT ![d] = heard'[c][d]]]
    /\ UNCHANGED sent

Next ==
    \E d \in Clients :
        \/ Broadcast(d)
        \/ \E c \in Clients : Hear(c, d)

Spec == Init /\ [][Next]_vars
=============================================================================
