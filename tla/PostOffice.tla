----------------------------- MODULE PostOffice -----------------------------
(***************************************************************************)
(* Several machines, each with a network device (network.cc), a post       *)
(* office (post.cc) with its mailboxes, and threads that send and receive, *)
(* as MailTest does.  A packet may be lost.  A machine whose process ends, *)
(* by Halt or by an assertion, no longer answers: the socket of another    *)
(* machine reports it, and the sender aborts.                              *)
(*                                                                         *)
(* Lock and Condition are the stubs of synch.cc: Acquire, Release and      *)
(* Signal do nothing, and Wait is ASSERT(FALSE), so a Receive from an      *)
(* empty mailbox ends the machine.                                         *)
(***************************************************************************)
EXTENDS Naturals, FiniteSets, Sequences

CONSTANTS Machines, Boxes,
          Clients,              \* [Machines -> sets], the threads of each machine
          MaxSends              \* [Machines -> Nat], bound on what a machine sends

\* A machine has finitely many threads.
ASSUME ClientsAssumption == \A m \in Machines : IsFiniteSet(Clients[m])

VARIABLES socket,               \* [Machines -> Seq(Packets)], not yet read
          inbox,                \* [Machines -> Packets, or NoPacket]: inHdr and inbox
          messageAvailable,     \* [Machines -> Nat]
          worker,               \* [Machines -> {"asleep", "ready", "taking"}]
          mailbox,              \* [Machines -> [Boxes -> Seq(Packets)]]
          sendsPending,         \* [Machines -> Nat], NetworkSendDone interrupts to come
          messageSent,          \* [Machines -> Nat]
          sendQueue,            \* [Machines -> Seq(Clients)], of messageSent
          client,               \* [Machines -> [Clients -> {"running", "asleep", "ready"}]]
          sent,                 \* [Machines -> Nat], to number the packets
          stopped               \* [Machines -> BOOLEAN], the process has ended
vars == <<socket, inbox, messageAvailable, worker, mailbox, sendsPending, messageSent,
          sendQueue, client, sent, stopped>>
receiving == <<socket, inbox, messageAvailable, worker, mailbox>>
sending == <<sendsPending, messageSent, sendQueue, client, sent>>

Packets == [from : Machines, box : Boxes, number : Nat \ {0}]
NoPacket == [from |-> 0, box |-> 0, number |-> 0]
Packet(m, box) == [from |-> m, box |-> box, number |-> sent[m] + 1]

Init ==
    /\ socket = [m \in Machines |-> <<>>]
    /\ inbox = [m \in Machines |-> NoPacket]
    /\ messageAvailable = [m \in Machines |-> 0]
    /\ worker = [m \in Machines |-> "ready"]
    /\ mailbox = [m \in Machines |-> [b \in Boxes |-> <<>>]]
    /\ sendsPending = [m \in Machines |-> 0]
    /\ messageSent = [m \in Machines |-> 0]
    /\ sendQueue = [m \in Machines |-> <<>>]
    /\ client = [m \in Machines |-> [c \in Clients[m] |-> "running"]]
    /\ sent = [m \in Machines |-> 0]
    /\ stopped = [m \in Machines |-> FALSE]

----------------------------------------------------------------------------
(* Receiving *)

\* Network::CheckPktAvail; while a packet is buffered the next stays in the
\* socket.  The handler is IncomingPacket, which does V.
\* (Slip: a buffered packet is overwritten.)
MayReadAlways(m) == socket[m] # <<>>
MayRead(m) == inbox[m] = NoPacket /\ socket[m] # <<>>

\* (Slip: V counts without waking the worker.)
NotWoken(m) == worker[m]
Woken(m) == IF worker[m] = "asleep" THEN "ready" ELSE worker[m]

CheckPktAvail(m) ==
    /\ ~stopped[m] /\ MayRead(m)
    /\ inbox' = [inbox EXCEPT ![m] = Head(socket[m])]
    /\ socket' = [socket EXCEPT ![m] = Tail(@)]
    /\ messageAvailable' = [messageAvailable EXCEPT ![m] = @ + 1]
    /\ worker' = [worker EXCEPT ![m] = Woken(m)]
    /\ UNCHANGED <<mailbox, sending, stopped>>

\* The postal worker at messageAvailable->P
WorkerWaits(m) ==
    /\ ~stopped[m] /\ worker[m] = "ready"
    /\ IF messageAvailable[m] > 0
       THEN /\ worker' = [worker EXCEPT ![m] = "taking"]
            /\ messageAvailable' = [messageAvailable EXCEPT ![m] = @ - 1]
       ELSE /\ worker' = [worker EXCEPT ![m] = "asleep"]
            /\ UNCHANGED messageAvailable
    /\ UNCHANGED <<socket, inbox, mailbox, sending, stopped>>

\* Network::Receive: the packet leaves the inbox.
\* (Slip: it stays there.)
StaysInInbox(m) == inbox[m]
AfterReceive(m) == NoPacket

\* MailBox::Put
Put(messages, packet) == Append(messages, packet)

Deliver(m) ==
    /\ ~stopped[m] /\ worker[m] = "taking"
    /\ mailbox' = [mailbox EXCEPT ![m][inbox[m].box] = Put(@, inbox[m])]
    /\ inbox' = [inbox EXCEPT ![m] = AfterReceive(m)]
    /\ worker' = [worker EXCEPT ![m] = "ready"]
    /\ UNCHANGED <<socket, messageAvailable, sending, stopped>>

\* PostOffice::Receive, of a thread whose mailbox is not empty
Receive(m, c, box) ==
    /\ ~stopped[m] /\ client[m][c] = "running"
    /\ mailbox[m][box] # <<>>
    /\ mailbox' = [mailbox EXCEPT ![m][box] = Tail(@)]
    /\ UNCHANGED <<socket, inbox, messageAvailable, worker, sending, stopped>>

\* Condition::Wait is ASSERT(FALSE).
ReceiveEmpty(m, c, box) ==
    /\ ~stopped[m] /\ client[m][c] = "running"
    /\ mailbox[m][box] = <<>>
    /\ stopped' = [stopped EXCEPT ![m] = TRUE]
    /\ UNCHANGED <<receiving, sending>>

----------------------------------------------------------------------------
(* Sending *)

\* messageSent->P of client c, until it sleeps or returns
\* (Slip: the token it finds is left to others.)
PTakesNothing(m, c) ==
    IF messageSent[m] = 0
    THEN /\ client' = [client EXCEPT ![m][c] = "asleep"]
         /\ sendQueue' = [sendQueue EXCEPT ![m] = Append(@, c)]
         /\ UNCHANGED messageSent
    ELSE /\ client' = [client EXCEPT ![m][c] = "running"]
         /\ UNCHANGED <<sendQueue, messageSent>>
P(m, c) ==
    IF messageSent[m] = 0
    THEN /\ client' = [client EXCEPT ![m][c] = "asleep"]
         /\ sendQueue' = [sendQueue EXCEPT ![m] = Append(@, c)]
         /\ UNCHANGED messageSent
    ELSE /\ client' = [client EXCEPT ![m][c] = "running"]
         /\ messageSent' = [messageSent EXCEPT ![m] = @ - 1]
         /\ UNCHANGED sendQueue

\* PostOffice::Send: the packet is lost or put into the socket.  The assertion
\* sendBusy == FALSE holds: sendBusy is never set.
Send(m, c, to, box) ==
    /\ ~stopped[m] /\ client[m][c] = "running"
    /\ sent[m] < MaxSends[m]
    /\ \/ UNCHANGED socket
       \/ ~stopped[to] /\ socket' = [socket EXCEPT ![to] = Append(@, Packet(m, box))]
    /\ sent' = [sent EXCEPT ![m] = @ + 1]
    /\ sendsPending' = [sendsPending EXCEPT ![m] = @ + 1]
    /\ P(m, c)
    /\ UNCHANGED <<inbox, messageAvailable, worker, mailbox, stopped>>

\* SendToSocket asserts that the packet could be sent.
SendAborts(m, c, to) ==
    /\ ~stopped[m] /\ client[m][c] = "running"
    /\ sent[m] < MaxSends[m] /\ stopped[to]
    /\ stopped' = [stopped EXCEPT ![m] = TRUE]
    /\ UNCHANGED <<receiving, sending>>

\* Network::SendDone and PostOffice::PacketSent, which does V
\* (Slip: V wakes a sender only when the count was 0.)
PacketSentWakesOne(m) ==
    /\ messageSent' = [messageSent EXCEPT ![m] = @ + 1]
    /\ IF sendQueue[m] = <<>> \/ messageSent[m] > 0 THEN UNCHANGED <<sendQueue, client>>
       ELSE /\ sendQueue' = [sendQueue EXCEPT ![m] = Tail(@)]
            /\ client' = [client EXCEPT ![m][Head(sendQueue[m])] = "ready"]
PacketSent(m) ==
    /\ messageSent' = [messageSent EXCEPT ![m] = @ + 1]
    /\ IF sendQueue[m] = <<>> THEN UNCHANGED <<sendQueue, client>>
       ELSE /\ sendQueue' = [sendQueue EXCEPT ![m] = Tail(@)]
            /\ client' = [client EXCEPT ![m][Head(sendQueue[m])] = "ready"]

SendDone(m) ==
    /\ ~stopped[m] /\ sendsPending[m] > 0
    /\ sendsPending' = [sendsPending EXCEPT ![m] = @ - 1]
    /\ PacketSent(m)
    /\ UNCHANGED <<receiving, sent, stopped>>

\* A woken sender looks at messageSent again.
ResumeSend(m, c) ==
    /\ ~stopped[m] /\ client[m][c] = "ready"
    /\ P(m, c)
    /\ UNCHANGED <<receiving, sendsPending, sent, stopped>>

\* MailTest ends with Interrupt::Halt.
Halt(m, c) ==
    /\ ~stopped[m] /\ client[m][c] = "running"
    /\ stopped' = [stopped EXCEPT ![m] = TRUE]
    /\ UNCHANGED <<receiving, sending>>

Terminated == (\A m \in Machines : stopped[m]) /\ UNCHANGED vars

Next ==
    \/ \E m \in Machines :
        \/ CheckPktAvail(m) \/ WorkerWaits(m) \/ Deliver(m) \/ SendDone(m)
        \/ \E c \in Clients[m] :
            \/ ResumeSend(m, c) \/ Halt(m, c)
            \/ \E box \in Boxes : Receive(m, c, box) \/ ReceiveEmpty(m, c, box)
            \/ \E to \in Machines : SendAborts(m, c, to) \/ \E box \in Boxes : Send(m, c, to, box)
    \/ Terminated

Spec == Init /\ [][Next]_vars

\* The poll of the network reschedules itself and the send interrupt comes, for
\* simulated time goes on; the scheduler runs the threads that are ready.
Fairness == \A m \in Machines :
    /\ WF_vars(CheckPktAvail(m)) /\ WF_vars(WorkerWaits(m)) /\ WF_vars(Deliver(m))
    /\ WF_vars(SendDone(m)) /\ \A c \in Clients[m] : WF_vars(ResumeSend(m, c))

FairSpec == Spec /\ Fairness

----------------------------------------------------------------------------
(* Properties *)

\* A packet is buffered exactly while the worker has been, or will be, told of
\* it once: none is delivered twice, none is forgotten in the inbox.
OneNotice == \A m \in Machines :
    /\ (IF inbox[m] = NoPacket THEN 0 ELSE 1)
          = messageAvailable[m] + (IF worker[m] = "taking" THEN 1 ELSE 0)
    /\ messageAvailable[m] > 0 => worker[m] = "ready"

\* As many threads are in Send as there are send interrupts to come or not yet
\* used, even when one thread takes the token meant for another; and for each
\* that sleeps, a woken one too late for its token included, one is to come.
SendersMatch == \A m \in Machines :
    /\ Cardinality({c \in Clients[m] : client[m][c] # "running"})
          = sendsPending[m] + messageSent[m]
    /\ Cardinality({c \in Clients[m] : client[m][c] = "asleep"}) <= sendsPending[m]

\* A packet that reached the socket reaches a mailbox.
Delivered == \A m \in Machines :
    socket[m] # <<>> ~> (socket[m] = <<>> /\ inbox[m] = NoPacket) \/ stopped[m]

Sends(m, c) == \E to \in Machines, box \in Boxes : Send(m, c, to, box)

\* Each Send of a thread returns, unless other threads of its machine go on sending
\* for ever: sendLock keeps none of them out, and whoever calls P before a woken
\* sender is scheduled takes the token, again and again.
SendReturns == \A m \in Machines : \A c \in Clients[m] :
    <>[][\A d \in Clients[m] \ {c} : ~Sends(m, d)]_vars =>
      (client[m][c] # "running" ~> client[m][c] = "running" \/ stopped[m])

\* What the post offices are to their users
transit == [m \in Machines |->
    (IF inbox[m] = NoPacket THEN <<>> ELSE <<inbox[m]>>) \o socket[m]]

Mail == INSTANCE MailSystem

\* The machines together implement MailSystem: a packet waits in one place at a
\* time from socket to mailbox, whatever polls, wake-ups, deliveries, sends and
\* the ends of machines interleave with.
ImplementsMailSystem == Mail!Spec
=============================================================================
