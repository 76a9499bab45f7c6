----------------------------- MODULE MailSystem -----------------------------
(***************************************************************************)
(* What the post offices of several machines promise: a message is lost    *)
(* when it is sent, or it comes to the mailbox it was sent to, once, and   *)
(* after those that were accepted for that machine before it.              *)
(***************************************************************************)
EXTENDS Naturals, Sequences

CONSTANTS Machines, Boxes

VARIABLES transit,    \* [Machines -> Seq(messages)], on their way to a machine
          mailbox,    \* [Machines -> [Boxes -> Seq(messages)]]
          sent,       \* [Machines -> Nat], how many messages a machine has sent
          stopped     \* [Machines -> BOOLEAN]
vars == <<transit, mailbox, sent, stopped>>

Init ==
    /\ transit = [m \in Machines |-> <<>>]
    /\ mailbox = [m \in Machines |-> [b \in Boxes |-> <<>>]]
    /\ sent = [m \in Machines |-> 0]
    /\ stopped = [m \in Machines |-> FALSE]

\* Sender and number tell a message from all others.
Message(m, box) == [from |-> m, box |-> box, number |-> sent[m] + 1]

\* A message is lost, or accepted by a machine that runs.
Send(m, to, box) ==
    /\ ~stopped[m]
    /\ \/ UNCHANGED transit
       \/ ~stopped[to] /\ transit' = [transit EXCEPT ![to] = Append(@, Message(m, box))]
    /\ sent' = [sent EXCEPT ![m] = @ + 1]
    /\ UNCHANGED <<mailbox, stopped>>

Deliver(m) ==
    /\ ~stopped[m] /\ transit[m] # <<>>
    /\ mailbox' = [mailbox EXCEPT ![m][Head(transit[m]).box] = Append(@, Head(transit[m]))]
    /\ transit' = [transit EXCEPT ![m] = Tail(@)]
    /\ UNCHANGED <<sent, stopped>>

Receive(m, box) ==
    /\ ~stopped[m] /\ mailbox[m][box] # <<>>
    /\ mailbox' = [mailbox EXCEPT ![m][box] = Tail(@)]
    /\ UNCHANGED <<transit, sent, stopped>>

Stop(m) ==
    /\ ~stopped[m]
    /\ stopped' = [stopped EXCEPT ![m] = TRUE]
    /\ UNCHANGED <<transit, mailbox, sent>>

Next == \E m \in Machines :
    \/ Deliver(m) \/ Stop(m)
    \/ \E box \in Boxes : Receive(m, box) \/ \E to \in Machines : Send(m, to, box)

Spec == Init /\ [][Next]_vars
=============================================================================
