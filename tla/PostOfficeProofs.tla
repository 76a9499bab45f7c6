-------------------------- MODULE PostOfficeProofs --------------------------
(***************************************************************************)
(* Theorems about the post offices, for any machines, boxes and threads,   *)
(* and any number of packets: the worker is told of each packet once, the  *)
(* send interrupts match the threads in Send, and the machines together    *)
(* implement MailSystem.                                                   *)
(***************************************************************************)
EXTENDS PostOffice, FiniteSetTheorems, SequenceTheorems, TLAPS

----------------------------------------------------------------------------
(* Sequences *)

LEMMA Prefixed ==
    ASSUME NEW S, NEW x \in S, NEW s \in Seq(S)
    PROVE  /\ <<x>> \o s \in Seq(S) /\ <<x>> \o s # <<>>
           /\ Head(<<x>> \o s) = x /\ Tail(<<x>> \o s) = s
<1>1. <<x>> \in Seq(S) /\ Len(<<x>>) = 1 /\ <<x>>[1] = x
  OBVIOUS
<1>2. /\ <<x>> \o s \in Seq(S) /\ Len(<<x>> \o s) = 1 + Len(s)
      /\ \A i \in 1 .. 1 + Len(s) : (<<x>> \o s)[i] = IF i <= 1 THEN x ELSE s[i - 1]
  BY <1>1, ConcatProperties
<1>3. Len(s) \in Nat /\ <<x>> \o s # <<>>
  BY <1>2, LenProperties
<1> DEFINE c == <<x>> \o s
<1> HIDE DEF c
<1>4. Head(c) = x
  BY <1>2, <1>3 DEF c
<1>5. Tail(c) \in Seq(S) /\ Len(Tail(c)) = Len(s)
      /\ \A i \in 1 .. Len(s) : Tail(c)[i] = s[i]
  BY <1>2, <1>3, HeadTailProperties DEF c
<1>6. Tail(c) = s
  BY <1>5, SeqEqual
<1>7. QED
  BY <1>2, <1>3, <1>4, <1>6 DEF c

LEMMA HeadThenTail ==
    ASSUME NEW S, NEW s \in Seq(S), s # <<>>
    PROVE  <<Head(s)>> \o Tail(s) = s
<1>1. Head(s) \in S /\ Tail(s) \in Seq(S) /\ Len(Tail(s)) = Len(s) - 1
      /\ \A i \in 1 .. Len(Tail(s)) : Tail(s)[i] = s[i + 1]
  BY HeadTailProperties
<1>2. Len(s) \in Nat \ {0} /\ Head(s) = s[1]
  BY EmptySeq
<1>3. <<Head(s)>> \in Seq(S) /\ Len(<<Head(s)>>) = 1
  BY <1>1
<1>4. /\ <<Head(s)>> \o Tail(s) \in Seq(S)
      /\ Len(<<Head(s)>> \o Tail(s)) = Len(s)
      /\ \A i \in 1 .. Len(s) : (<<Head(s)>> \o Tail(s))[i] = IF i <= 1 THEN Head(s)
                                                             ELSE Tail(s)[i - 1]
  BY <1>1, <1>2, <1>3, ConcatProperties
<1>5. \A i \in 1 .. Len(s) : (<<Head(s)>> \o Tail(s))[i] = s[i]
  BY <1>1, <1>2, <1>4
<1>6. QED
  BY <1>4, <1>5, SeqEqual

LEMMA AppendBehind ==
    ASSUME NEW S, NEW s \in Seq(S), NEW t \in Seq(S), NEW x \in S
    PROVE  s \o Append(t, x) = Append(s \o t, x)
<1>1. Append(t, x) = t \o <<x>> /\ <<x>> \in Seq(S) /\ s \o t \in Seq(S)
  BY AppendIsConcat, ConcatProperties
<1>2. Append(s \o t, x) = (s \o t) \o <<x>>
  BY <1>1, AppendIsConcat
<1>3. QED
  BY <1>1, <1>2, ConcatAssociative

----------------------------------------------------------------------------
(* Receiving *)

LEMMA PacketTypes ==
    /\ NoPacket \notin Packets
    /\ \A m \in Machines, box \in Boxes : sent[m] \in Nat => Packet(m, box) \in Packets
BY DEF Packets, NoPacket, Packet

ReceiveTypes ==
    /\ socket \in [Machines -> Seq(Packets)]
    /\ inbox \in [Machines -> Packets \cup {NoPacket}]
    /\ messageAvailable \in [Machines -> Nat]
    /\ worker \in [Machines -> {"asleep", "ready", "taking"}]
    /\ mailbox \in [Machines -> [Boxes -> Seq(Packets)]]
    /\ sent \in [Machines -> Nat]
    /\ stopped \in [Machines -> BOOLEAN]

ReceiveInv == ReceiveTypes /\ OneNotice

\* What the actions on the sending side do to the receiving side
SendsPacket(m, to, box) ==
    /\ ~stopped[m]
    /\ \/ UNCHANGED socket
       \/ ~stopped[to] /\ socket' = [socket EXCEPT ![to] = Append(@, Packet(m, box))]
    /\ sent' = [sent EXCEPT ![m] = @ + 1]
    /\ UNCHANGED <<inbox, messageAvailable, worker, mailbox, stopped>>

Stops(m) ==
    /\ ~stopped[m] /\ stopped' = [stopped EXCEPT ![m] = TRUE]
    /\ UNCHANGED <<receiving, sent>>

Quiet == UNCHANGED <<receiving, sent, stopped>>

\* The steps, as far as they are about receiving
LEMMA ReceivingSteps ==
    ASSUME [Next]_vars
    PROVE  \/ Quiet
           \/ \E m \in Machines :
                \/ CheckPktAvail(m) \/ WorkerWaits(m) \/ Deliver(m) \/ Stops(m)
                \/ \E c \in Clients[m], box \in Boxes : Receive(m, c, box)
                \/ \E to \in Machines, box \in Boxes : SendsPacket(m, to, box)
<1>1. CASE UNCHANGED vars
  BY <1>1 DEF vars, Quiet, receiving
<1>2. CASE Terminated
  BY <1>2 DEF Terminated, vars, Quiet, receiving
<1>3. ASSUME NEW m \in Machines, NEW c \in Clients[m]
      PROVE  /\ ResumeSend(m, c) => Quiet
             /\ Halt(m, c) => Stops(m)
             /\ \A box \in Boxes : ReceiveEmpty(m, c, box) => Stops(m)
             /\ \A to \in Machines : SendAborts(m, c, to) => Stops(m)
             /\ \A to \in Machines, box \in Boxes : Send(m, c, to, box) => SendsPacket(m, to, box)
  BY DEF ResumeSend, Halt, ReceiveEmpty, SendAborts, Send, SendsPacket, Stops, Quiet,
         receiving, sending
<1>4. ASSUME NEW m \in Machines, SendDone(m) PROVE Quiet
  BY <1>4 DEF SendDone, Quiet, receiving
<1>5. QED
  BY <1>1, <1>2, <1>3, <1>4 DEF Next

LEMMA ReceiveInit == Init => ReceiveInv
BY PacketTypes DEF Init, ReceiveInv, ReceiveTypes, OneNotice

LEMMA CheckPktAvailInv ==
    ASSUME ReceiveInv, NEW m \in Machines, CheckPktAvail(m)
    PROVE  ReceiveInv'
<1>1. ReceiveTypes /\ inbox[m] = NoPacket /\ socket[m] \in Seq(Packets) /\ socket[m] # <<>>
  BY DEF ReceiveInv, ReceiveTypes, CheckPktAvail, MayRead
<1>2. Head(socket[m]) \in Packets /\ Tail(socket[m]) \in Seq(Packets)
  BY <1>1, HeadTailProperties
<1>3. ReceiveTypes'
  BY <1>1, <1>2 DEF ReceiveTypes, CheckPktAvail, Woken, sending
<1>4. messageAvailable[m] = 0 /\ worker[m] # "taking" /\ Head(socket[m]) # NoPacket
  BY <1>1, <1>2, PacketTypes DEF ReceiveInv, ReceiveTypes, OneNotice
<1>5. ASSUME NEW k \in Machines
      PROVE  /\ inbox'[k] = IF k = m THEN Head(socket[m]) ELSE inbox[k]
             /\ messageAvailable'[k] = IF k = m THEN 1 ELSE messageAvailable[k]
             /\ worker'[k] = IF k = m THEN "ready" ELSE worker[k]
  BY <1>1, <1>4 DEF ReceiveTypes, CheckPktAvail, Woken
<1>6. OneNotice'
  BY <1>4, <1>5 DEF ReceiveInv, OneNotice
<1>7. QED
  BY <1>3, <1>6 DEF ReceiveInv

LEMMA WorkerWaitsInv ==
    ASSUME ReceiveInv, NEW m \in Machines, WorkerWaits(m)
    PROVE  ReceiveInv'
<1>1. ReceiveTypes /\ OneNotice /\ worker[m] = "ready"
  BY DEF ReceiveInv, WorkerWaits
<1>2. ReceiveTypes'
  <2>1. CASE messageAvailable[m] > 0
    <3>1. messageAvailable[m] - 1 \in Nat
      BY <1>1, <2>1 DEF ReceiveTypes
    <3>2. /\ messageAvailable' = [messageAvailable EXCEPT ![m] = messageAvailable[m] - 1]
          /\ worker' = [worker EXCEPT ![m] = "taking"]
      BY <2>1 DEF WorkerWaits
    <3>3. messageAvailable' \in [Machines -> Nat] /\ worker' \in [Machines -> {"asleep", "ready", "taking"}]
      BY <1>1, <3>1, <3>2 DEF ReceiveTypes
    <3>4. QED
      BY <1>1, <3>3 DEF ReceiveTypes, WorkerWaits, sending
  <2>2. CASE ~(messageAvailable[m] > 0)
    BY <1>1, <2>2 DEF ReceiveTypes, WorkerWaits, sending
  <2>3. QED
    BY <2>1, <2>2
<1>3. ASSUME NEW k \in Machines
      PROVE  /\ inbox'[k] = inbox[k]
             /\ k # m => messageAvailable'[k] = messageAvailable[k] /\ worker'[k] = worker[k]
             /\ messageAvailable[m] = 0 => messageAvailable'[m] = 0 /\ worker'[m] = "asleep"
             /\ messageAvailable[m] > 0 => /\ messageAvailable'[m] = messageAvailable[m] - 1
                                           /\ worker'[m] = "taking"
  BY <1>1 DEF ReceiveTypes, WorkerWaits
<1>4. messageAvailable[m] \in {0, 1}
  <2>1. messageAvailable[m] = IF inbox[m] = NoPacket THEN 0 ELSE 1
    <3>1. messageAvailable[m] \in Nat
      BY <1>1 DEF ReceiveTypes
    <3>2. (IF inbox[m] = NoPacket THEN 0 ELSE 1) = messageAvailable[m] + 0
      BY <1>1 DEF OneNotice
    <3>3. QED
      BY <3>1, <3>2
  <2>2. QED
    BY <2>1
<1>5. OneNotice'
  BY <1>1, <1>3, <1>4 DEF OneNotice
<1>6. QED
  BY <1>2, <1>5 DEF ReceiveInv

LEMMA DeliverInv ==
    ASSUME ReceiveInv, NEW m \in Machines, Deliver(m)
    PROVE  ReceiveInv' /\ inbox[m] \in Packets
<1>1. ReceiveTypes /\ OneNotice /\ worker[m] = "taking"
  BY DEF ReceiveInv, Deliver
<1>2. messageAvailable[m] = 0 /\ inbox[m] \in Packets
  BY <1>1 DEF ReceiveTypes, OneNotice
<1>3. inbox[m].box \in Boxes /\ mailbox[m] \in [Boxes -> Seq(Packets)]
  BY <1>1, <1>2 DEF ReceiveTypes, Packets
<1>4. Put(mailbox[m][inbox[m].box], inbox[m]) \in Seq(Packets)
  BY <1>2, <1>3, AppendProperties DEF Put
<1>5. ReceiveTypes'
  <2>1. mailbox' \in [Machines -> [Boxes -> Seq(Packets)]]
    BY <1>1, <1>3, <1>4 DEF ReceiveTypes, Deliver
  <2>2. QED
    BY <1>1, <2>1 DEF ReceiveTypes, Deliver, AfterReceive, sending
<1>6. ASSUME NEW k \in Machines
      PROVE  /\ inbox'[k] = IF k = m THEN NoPacket ELSE inbox[k]
             /\ messageAvailable'[k] = messageAvailable[k]
             /\ worker'[k] = IF k = m THEN "ready" ELSE worker[k]
  BY <1>1 DEF ReceiveTypes, Deliver, AfterReceive
<1>7. OneNotice'
  BY <1>1, <1>2, <1>6 DEF OneNotice
<1>8. QED
  BY <1>2, <1>5, <1>7 DEF ReceiveInv

LEMMA ReceiveNext == ReceiveInv /\ [Next]_vars => ReceiveInv'
<1> SUFFICES ASSUME ReceiveInv, [Next]_vars PROVE ReceiveInv'
  OBVIOUS
<1>1. ReceiveTypes /\ OneNotice
  BY DEF ReceiveInv
<1>2. CASE Quiet
  BY <1>1, <1>2 DEF Quiet, receiving, ReceiveInv, ReceiveTypes, OneNotice
<1>3. ASSUME NEW m \in Machines, Stops(m) PROVE ReceiveInv'
  BY <1>1, <1>3 DEF Stops, receiving, ReceiveInv, ReceiveTypes, OneNotice
<1>4. ASSUME NEW m \in Machines, NEW c \in Clients[m], NEW box \in Boxes, Receive(m, c, box)
      PROVE  ReceiveInv'
  <2>1. mailbox[m][box] \in Seq(Packets) /\ mailbox[m][box] # <<>>
    BY <1>1, <1>4 DEF ReceiveTypes, Receive
  <2>2. Tail(mailbox[m][box]) \in Seq(Packets)
    BY <2>1, HeadTailProperties
  <2>3. mailbox' \in [Machines -> [Boxes -> Seq(Packets)]]
    BY <1>1, <1>4, <2>2 DEF ReceiveTypes, Receive
  <2>4. QED
    BY <1>1, <1>4, <2>3 DEF Receive, sending, ReceiveInv, ReceiveTypes, OneNotice
<1>5. ASSUME NEW m \in Machines, NEW to \in Machines, NEW box \in Boxes, SendsPacket(m, to, box)
      PROVE  ReceiveInv'
  <2>1. Packet(m, box) \in Packets /\ socket[to] \in Seq(Packets)
    BY <1>1, PacketTypes DEF ReceiveTypes
  <2>2. Append(socket[to], Packet(m, box)) \in Seq(Packets)
    BY <2>1, AppendProperties
  <2>3. sent' \in [Machines -> Nat]
    BY <1>1, <1>5 DEF SendsPacket, ReceiveTypes
  <2>4. socket' \in [Machines -> Seq(Packets)]
    <3>1. CASE socket' = socket
      BY <1>1, <3>1 DEF ReceiveTypes
    <3>2. CASE socket' = [socket EXCEPT ![to] = Append(socket[to], Packet(m, box))]
      BY <1>1, <2>2, <3>2 DEF ReceiveTypes
    <3>3. QED
      BY <1>5, <3>1, <3>2 DEF SendsPacket
  <2>5. QED
    BY <1>1, <1>5, <2>3, <2>4 DEF SendsPacket, ReceiveInv, ReceiveTypes, OneNotice
<1>6. QED
  BY <1>2, <1>3, <1>4, <1>5, ReceivingSteps, CheckPktAvailInv, WorkerWaitsInv, DeliverInv

LEMMA ReceiveCorrect == Spec => []ReceiveInv
<1>1. Init => ReceiveInv
  BY ReceiveInit
<1>2. ReceiveInv /\ [Next]_vars => ReceiveInv'
  BY ReceiveNext
<1>3. QED
  BY <1>1, <1>2, PTL DEF Spec

\* The worker is told of each buffered packet exactly once, on any number of
\* machines and for any number of packets.
THEOREM NoticeCorrect == Spec => []OneNotice
BY ReceiveCorrect, PTL DEF ReceiveInv

----------------------------------------------------------------------------
(* Sending *)

\* A queue of the threads in T, each once
Waiting(q, T) ==
    /\ \A i \in 1 .. Len(q) : q[i] \in T
    /\ \A x \in T : \E i \in 1 .. Len(q) : q[i] = x
    /\ \A i, j \in 1 .. Len(q) : i # j => q[i] # q[j]

LEMMA WaitingAppend ==
    ASSUME NEW S, NEW q \in Seq(S), NEW T, NEW c \in S, Waiting(q, T), c \notin T
    PROVE  /\ Append(q, c) \in Seq(S)
           /\ Waiting(Append(q, c), T \cup {c})
<1>1. Len(q) \in Nat /\ Append(q, c) \in Seq(S) /\ Len(Append(q, c)) = Len(q) + 1
      /\ \A i \in 1 .. Len(q) + 1 : Append(q, c)[i] = IF i <= Len(q) THEN q[i] ELSE c
  BY AppendProperties, LenProperties
<1>2. \A x \in T \cup {c} : \E i \in 1 .. Len(Append(q, c)) : Append(q, c)[i] = x
  <2>1. ASSUME NEW x \in T PROVE \E i \in 1 .. Len(Append(q, c)) : Append(q, c)[i] = x
    <3>1. PICK i \in 1 .. Len(q) : q[i] = x
      BY DEF Waiting
    <3>2. i \in 1 .. Len(Append(q, c)) /\ Append(q, c)[i] = x
      BY <1>1, <3>1
    <3>3. QED
      BY <3>2
  <2>2. Len(q) + 1 \in 1 .. Len(Append(q, c)) /\ Append(q, c)[Len(q) + 1] = c
    BY <1>1
  <2>3. QED
    BY <2>1, <2>2
<1>3. QED
  BY <1>1, <1>2 DEF Waiting

LEMMA WaitingTail ==
    ASSUME NEW S, NEW q \in Seq(S), NEW T, Waiting(q, T), q # <<>>
    PROVE  /\ Tail(q) \in Seq(S) /\ Head(q) \in S /\ Head(q) \in T
           /\ Waiting(Tail(q), T \ {Head(q)})
<1>1. Len(q) \in Nat \ {0} /\ Head(q) = q[1] /\ Head(q) \in S /\ Tail(q) \in Seq(S)
      /\ Len(Tail(q)) = Len(q) - 1
      /\ \A i \in 1 .. Len(q) - 1 : Tail(q)[i] = q[i + 1]
  BY HeadTailProperties, EmptySeq, LenProperties
<1>2. ASSUME NEW x \in T \ {Head(q)} PROVE \E i \in 1 .. Len(Tail(q)) : Tail(q)[i] = x
  <2>1. PICK i \in 1 .. Len(q) : q[i] = x
    BY DEF Waiting
  <2>2. i - 1 \in 1 .. Len(Tail(q)) /\ Tail(q)[i - 1] = x
    BY <1>1, <2>1
  <2>3. QED
    BY <2>2
<1>3. QED
  BY <1>1, <1>2 DEF Waiting

Asleep(m) == {c \in Clients[m] : client[m][c] = "asleep"}
InSend(m) == {c \in Clients[m] : client[m][c] # "running"}

SendTypes(m) ==
    /\ sendsPending[m] \in Nat /\ messageSent[m] \in Nat
    /\ sendQueue[m] \in Seq(Clients[m])
    /\ client[m] \in [Clients[m] -> {"running", "asleep", "ready"}]

\* The sleeping threads wait for messageSent, each once and each with a send
\* interrupt to come.
MachineSends(m) ==
    /\ SendTypes(m)
    /\ Waiting(sendQueue[m], Asleep(m))
    /\ Cardinality(InSend(m)) = sendsPending[m] + messageSent[m]
    /\ Cardinality(Asleep(m)) <= sendsPending[m]

SendInv ==
    /\ DOMAIN sendsPending = Machines /\ DOMAIN messageSent = Machines
    /\ DOMAIN sendQueue = Machines /\ DOMAIN client = Machines
    /\ \A m \in Machines : MachineSends(m)

LEMMA InSendFinite ==
    ASSUME NEW m \in Machines
    PROVE  IsFiniteSet(InSend(m)) /\ Cardinality(InSend(m)) \in Nat
<1>1. IsFiniteSet(Clients[m]) /\ InSend(m) \subseteq Clients[m]
  BY ClientsAssumption DEF InSend
<1>2. QED
  BY <1>1, FS_Subset, FS_CardinalityType

LEMMA AsleepFinite ==
    ASSUME NEW m \in Machines
    PROVE  /\ IsFiniteSet(Asleep(m)) /\ Cardinality(Asleep(m)) \in Nat
           /\ Cardinality(Asleep(m)) <= Cardinality(InSend(m))
<1>1. Asleep(m) \subseteq InSend(m)
  BY DEF Asleep, InSend
<1>2. QED
  BY <1>1, InSendFinite, FS_Subset, FS_CardinalityType

LEMMA SendInit == Init => SendInv
<1> SUFFICES ASSUME Init, NEW m \in Machines PROVE MachineSends(m)
  BY DEF Init, SendInv
<1>1. SendTypes(m) /\ sendQueue[m] = <<>> /\ sendsPending[m] = 0 /\ messageSent[m] = 0
  BY DEF Init, SendTypes
<1>2. InSend(m) = {} /\ Asleep(m) = {}
  BY DEF Init, InSend, Asleep
<1>3. Waiting(sendQueue[m], Asleep(m))
  BY <1>1, <1>2, EmptySeq DEF Waiting
<1>4. Cardinality(InSend(m)) = 0 /\ Cardinality(Asleep(m)) = 0
  BY <1>2, FS_EmptySet
<1>5. QED
  BY <1>1, <1>3, <1>4 DEF MachineSends

\* The step leaves another machine alone.
LEMMA SendFrame ==
    ASSUME NEW k \in Machines, MachineSends(k),
           sendsPending'[k] = sendsPending[k], messageSent'[k] = messageSent[k],
           sendQueue'[k] = sendQueue[k], client'[k] = client[k]
    PROVE  MachineSends(k)'
<1>1. Asleep(k)' = Asleep(k) /\ InSend(k)' = InSend(k)
  BY DEF Asleep, InSend
<1>2. QED
  BY <1>1 DEF MachineSends, SendTypes

\* P, called in Send or again by a woken thread
LEMMA PKeepsMachine ==
    ASSUME SendInv, NEW m \in Machines, NEW c \in Clients[m], P(m, c),
           client[m][c] # "asleep", sendsPending'[m] \in Nat,
           sendsPending'[m] = sendsPending[m] + (IF client[m][c] = "running" THEN 1 ELSE 0)
    PROVE  MachineSends(m)'
<1>1. SendTypes(m) /\ Waiting(sendQueue[m], Asleep(m))
      /\ Cardinality(InSend(m)) = sendsPending[m] + messageSent[m]
      /\ Cardinality(Asleep(m)) <= sendsPending[m]
  BY DEF SendInv, MachineSends
<1>2. /\ IsFiniteSet(InSend(m)) /\ Cardinality(InSend(m)) \in Nat
      /\ IsFiniteSet(Asleep(m)) /\ Cardinality(Asleep(m)) \in Nat
  BY InSendFinite, AsleepFinite
<1>3. c \in InSend(m) <=> client[m][c] # "running"
  BY DEF InSend
<1>4. c \notin Asleep(m)
  BY DEF Asleep
<1>5. CASE messageSent[m] = 0
  <2>1. /\ client'[m] = [client[m] EXCEPT ![c] = "asleep"]
        /\ sendQueue'[m] = Append(sendQueue[m], c) /\ messageSent'[m] = messageSent[m]
    BY <1>5 DEF P, SendInv
  <2>2. Asleep(m)' = Asleep(m) \cup {c} /\ InSend(m)' = InSend(m) \cup {c}
    BY <1>1, <2>1 DEF Asleep, InSend, SendTypes
  <2>3. /\ sendQueue'[m] \in Seq(Clients[m])
        /\ Waiting(sendQueue'[m], Asleep(m)')
    <3>1. sendQueue[m] \in Seq(Clients[m])
      BY <1>1 DEF SendTypes
    <3>2. /\ Append(sendQueue[m], c) \in Seq(Clients[m])
          /\ Waiting(Append(sendQueue[m], c), Asleep(m) \cup {c})
      BY <1>1, <1>4, <3>1, WaitingAppend
    <3>3. QED
      BY <2>1, <2>2, <3>2
  <2>4. SendTypes(m)'
    BY <1>1, <2>1, <2>3 DEF SendTypes
  <2>5. Cardinality(InSend(m)') = IF client[m][c] = "running" THEN Cardinality(InSend(m)) + 1
                                  ELSE Cardinality(InSend(m))
    BY <1>2, <1>3, <2>2, FS_AddElement
  <2>6. Cardinality(InSend(m)') = sendsPending'[m] + messageSent'[m]
    <3>1. sendsPending[m] \in Nat /\ messageSent'[m] = 0
      BY <1>1, <1>5, <2>1 DEF SendTypes
    <3>2. Cardinality(InSend(m)) = sendsPending[m]
      BY <1>1, <1>5, <3>1
    <3>3. CASE client[m][c] = "running"
      BY <2>5, <3>1, <3>2, <3>3
    <3>4. CASE client[m][c] # "running"
      BY <2>5, <3>1, <3>2, <3>4
    <3>5. QED
      BY <3>3, <3>4
  <2>7. Cardinality(Asleep(m)') <= sendsPending'[m]
    <3>1. IsFiniteSet(InSend(m)')
      BY <1>2, <2>2, FS_AddElement
    <3>2. Asleep(m)' \subseteq InSend(m)'
      BY DEF Asleep, InSend
    <3>3. Cardinality(Asleep(m)') <= Cardinality(InSend(m)')
      BY <3>1, <3>2, FS_Subset
    <3>4. QED
      BY <1>1, <1>5, <2>1, <2>6, <3>3 DEF SendTypes
  <2>8. QED
    BY <2>3, <2>4, <2>6, <2>7 DEF MachineSends
<1>6. CASE messageSent[m] # 0
  <2>1. /\ client'[m] = [client[m] EXCEPT ![c] = "running"]
        /\ sendQueue'[m] = sendQueue[m] /\ messageSent'[m] = messageSent[m] - 1
    BY <1>6 DEF P, SendInv
  <2>2. Asleep(m)' = Asleep(m) /\ InSend(m)' = InSend(m) \ {c}
    BY <1>1, <2>1 DEF Asleep, InSend, SendTypes
  <2>3. SendTypes(m)'
    BY <1>1, <1>6, <2>1 DEF SendTypes
  <2>4. Cardinality(InSend(m)') = IF client[m][c] = "running" THEN Cardinality(InSend(m))
                                  ELSE Cardinality(InSend(m)) - 1
    BY <1>2, <1>3, <2>2, FS_RemoveElement
  <2>5. Cardinality(InSend(m)') = sendsPending'[m] + messageSent'[m]
    <3>1. sendsPending[m] \in Nat /\ messageSent[m] \in Nat
      BY <1>1 DEF SendTypes
    <3>2. Cardinality(InSend(m)) = sendsPending[m] + messageSent[m]
      BY <1>1
    <3>3. messageSent'[m] = messageSent[m] - 1
      BY <2>1
    <3>4. CASE client[m][c] = "running"
      BY <2>4, <3>1, <3>2, <3>3, <3>4
    <3>5. CASE client[m][c] # "running"
      BY <2>4, <3>1, <3>2, <3>3, <3>5
    <3>6. QED
      BY <3>4, <3>5
  <2>6. Cardinality(Asleep(m)') <= sendsPending'[m]
    BY <1>1, <1>2, <2>2 DEF SendTypes
  <2>7. QED
    BY <1>1, <2>1, <2>2, <2>3, <2>5, <2>6 DEF MachineSends
<1>7. QED
  BY <1>5, <1>6

LEMMA SendDoneKeepsMachine ==
    ASSUME SendInv, NEW m \in Machines, SendDone(m)
    PROVE  MachineSends(m)'
<1>1. SendTypes(m) /\ Waiting(sendQueue[m], Asleep(m))
      /\ Cardinality(InSend(m)) = sendsPending[m] + messageSent[m]
      /\ Cardinality(Asleep(m)) <= sendsPending[m]
  BY DEF SendInv, MachineSends
<1>2. /\ sendsPending[m] > 0 /\ sendsPending'[m] = sendsPending[m] - 1
      /\ messageSent'[m] = messageSent[m] + 1
  BY DEF SendDone, PacketSent, SendInv
<1>3. CASE sendQueue[m] = <<>>
  <2>1. sendQueue'[m] = sendQueue[m] /\ client'[m] = client[m]
    BY <1>3 DEF SendDone, PacketSent
  <2>2. Asleep(m)' = Asleep(m) /\ InSend(m)' = InSend(m)
    BY <2>1 DEF Asleep, InSend
  <2>3. Cardinality(Asleep(m)) = 0
    <3>1. Asleep(m) = {}
      BY <1>1, <1>3 DEF Waiting
    <3>2. QED
      BY <3>1, FS_EmptySet
  <2>4. SendTypes(m)'
    BY <1>1, <1>2, <2>1 DEF SendTypes
  <2>5. /\ Cardinality(Asleep(m)') <= sendsPending'[m]
        /\ Cardinality(InSend(m)') = sendsPending'[m] + messageSent'[m]
    <3>1. /\ Cardinality(InSend(m)') = Cardinality(InSend(m))
          /\ Cardinality(Asleep(m)') = 0
      BY <2>2, <2>3
    <3>2. QED
      BY <1>1, <1>2, <3>1 DEF SendTypes
  <2>6. Waiting(sendQueue[m], Asleep(m))'
    BY <1>1, <2>1, <2>2
  <2>7. QED
    BY <2>4, <2>5, <2>6 DEF MachineSends
<1>4. CASE sendQueue[m] # <<>>
  <2>1. /\ sendQueue'[m] = Tail(sendQueue[m])
        /\ client'[m] = [client[m] EXCEPT ![Head(sendQueue[m])] = "ready"]
    BY <1>4 DEF SendDone, PacketSent, SendInv
  <2>2. /\ Tail(sendQueue[m]) \in Seq(Clients[m]) /\ Head(sendQueue[m]) \in Clients[m]
        /\ Head(sendQueue[m]) \in Asleep(m)
        /\ Waiting(Tail(sendQueue[m]), Asleep(m) \ {Head(sendQueue[m])})
    BY <1>1, <1>4, WaitingTail DEF SendTypes
  <2>3. Asleep(m)' = Asleep(m) \ {Head(sendQueue[m])} /\ InSend(m)' = InSend(m)
    BY <1>1, <2>1, <2>2 DEF Asleep, InSend, SendTypes
  <2>4. SendTypes(m)'
    BY <1>1, <1>2, <2>1, <2>2 DEF SendTypes
  <2>5. Cardinality(Asleep(m)') <= sendsPending'[m]
    <3>1. Cardinality(Asleep(m) \ {Head(sendQueue[m])}) = Cardinality(Asleep(m)) - 1
      BY <2>2, AsleepFinite, FS_RemoveElement
    <3>2. QED
      BY <1>1, <1>2, <2>3, <3>1, AsleepFinite DEF SendTypes
  <2>6. Waiting(sendQueue[m], Asleep(m))'
    BY <2>1, <2>2, <2>3
  <2>7. Cardinality(InSend(m)') = sendsPending'[m] + messageSent'[m]
    <3>1. Cardinality(InSend(m)') = Cardinality(InSend(m))
      BY <2>3
    <3>2. QED
      BY <1>1, <1>2, <3>1 DEF SendTypes
  <2>8. QED
    BY <2>4, <2>5, <2>6, <2>7 DEF MachineSends
<1>5. QED
  BY <1>3, <1>4

LEMMA SendNext == SendInv /\ [Next]_vars => SendInv'
<1> SUFFICES ASSUME SendInv, [Next]_vars PROVE SendInv'
  OBVIOUS
<1>1. ASSUME sendsPending' = sendsPending, messageSent' = messageSent,
             sendQueue' = sendQueue, client' = client
      PROVE  SendInv'
  BY <1>1, SendFrame DEF SendInv
<1>2. CASE UNCHANGED vars
  BY <1>1, <1>2 DEF vars
<1>3. CASE Terminated
  BY <1>1, <1>3 DEF Terminated, vars
<1>4. ASSUME NEW m \in Machines, CheckPktAvail(m) \/ WorkerWaits(m) \/ Deliver(m) PROVE SendInv'
  BY <1>1, <1>4 DEF CheckPktAvail, WorkerWaits, Deliver, sending
<1>5. ASSUME NEW m \in Machines, SendDone(m) PROVE SendInv'
  <2>1. \A k \in Machines \ {m} :
          /\ sendsPending'[k] = sendsPending[k] /\ messageSent'[k] = messageSent[k]
          /\ sendQueue'[k] = sendQueue[k] /\ client'[k] = client[k]
    BY <1>5 DEF SendDone, PacketSent, SendInv
  <2>2. /\ DOMAIN sendsPending' = Machines /\ DOMAIN messageSent' = Machines
        /\ DOMAIN sendQueue' = Machines /\ DOMAIN client' = Machines
    BY <1>5 DEF SendDone, PacketSent, SendInv
  <2>3. QED
    BY <1>5, <2>1, <2>2, SendDoneKeepsMachine, SendFrame DEF SendInv
<1>6. ASSUME NEW m \in Machines, NEW c \in Clients[m], ResumeSend(m, c) PROVE SendInv'
  <2>1. \A k \in Machines \ {m} :
          /\ sendsPending'[k] = sendsPending[k] /\ messageSent'[k] = messageSent[k]
          /\ sendQueue'[k] = sendQueue[k] /\ client'[k] = client[k]
    BY <1>6 DEF ResumeSend, P, SendInv
  <2>2. /\ DOMAIN sendsPending' = Machines /\ DOMAIN messageSent' = Machines
        /\ DOMAIN sendQueue' = Machines /\ DOMAIN client' = Machines
    BY <1>6 DEF ResumeSend, P, SendInv
  <2>3. MachineSends(m)'
    BY <1>6, PKeepsMachine DEF ResumeSend, SendInv, MachineSends, SendTypes
  <2>4. QED
    BY <2>1, <2>2, <2>3, SendFrame DEF SendInv
<1>7. ASSUME NEW m \in Machines, NEW c \in Clients[m], NEW to \in Machines, NEW box \in Boxes,
             Send(m, c, to, box)
      PROVE  SendInv'
  <2>1. \A k \in Machines \ {m} :
          /\ sendsPending'[k] = sendsPending[k] /\ messageSent'[k] = messageSent[k]
          /\ sendQueue'[k] = sendQueue[k] /\ client'[k] = client[k]
    BY <1>7 DEF Send, P, SendInv
  <2>2. /\ DOMAIN sendsPending' = Machines /\ DOMAIN messageSent' = Machines
        /\ DOMAIN sendQueue' = Machines /\ DOMAIN client' = Machines
    BY <1>7 DEF Send, P, SendInv
  <2>3. sendsPending'[m] = sendsPending[m] + 1 /\ sendsPending[m] \in Nat
        /\ client[m][c] = "running" /\ P(m, c)
    BY <1>7 DEF Send, SendInv, MachineSends, SendTypes
  <2>4. MachineSends(m)'
    BY <2>3, PKeepsMachine
  <2>5. QED
    BY <2>1, <2>2, <2>4, SendFrame DEF SendInv
<1>8. ASSUME NEW m \in Machines, NEW c \in Clients[m],
             \/ Halt(m, c)
             \/ \E box \in Boxes : Receive(m, c, box) \/ ReceiveEmpty(m, c, box)
             \/ \E to \in Machines : SendAborts(m, c, to)
      PROVE  SendInv'
  BY <1>1, <1>8 DEF Halt, Receive, ReceiveEmpty, SendAborts, sending
<1>9. QED
  BY <1>2, <1>3, <1>4, <1>5, <1>6, <1>7, <1>8 DEF Next

\* The threads in Send are as many as the send interrupts to come and those not
\* yet used, and a send interrupt is to come for each that sleeps, for any number of
\* threads that take each other's tokens.
THEOREM SendersCorrect == Spec => []SendersMatch
<1>1. Init => SendInv
  BY SendInit
<1>2. SendInv /\ [Next]_vars => SendInv'
  BY SendNext
<1>3. SendInv => SendersMatch
  BY DEF SendInv, MachineSends, InSend, Asleep, SendersMatch
<1>4. QED
  BY <1>1, <1>2, <1>3, PTL DEF Spec

----------------------------------------------------------------------------
(* The machines implement MailSystem *)

LEMMA MailInit == Init => Mail!Init
<1> SUFFICES ASSUME Init PROVE Mail!Init
  OBVIOUS
<1>1. \A m \in Machines : transit[m] = <<>> \o <<>>
  BY DEF Init, transit
<1>2. \A m \in Machines : transit[m] = <<>>
  BY <1>1, EmptySeq, ConcatEmptySeq
<1>3. transit = [m \in Machines |-> <<>>]
  BY <1>2 DEF transit
<1>4. QED
  BY <1>3 DEF Init, Mail!Init

\* What is on its way to m, when its inbox is empty and when it is not
LEMMA TransitOf ==
    ASSUME ReceiveTypes, NEW m \in Machines
    PROVE  /\ inbox[m] = NoPacket => transit[m] = socket[m]
           /\ inbox[m] # NoPacket => transit[m] = <<inbox[m]>> \o socket[m]
           /\ transit[m] \in Seq(Packets)
<1>1. socket[m] \in Seq(Packets) /\ inbox[m] \in Packets \cup {NoPacket}
  BY DEF ReceiveTypes
<1>2. CASE inbox[m] = NoPacket
  BY <1>1, <1>2, ConcatEmptySeq DEF transit
<1>3. CASE inbox[m] # NoPacket
  BY <1>1, <1>3, Prefixed DEF transit
<1>4. QED
  BY <1>2, <1>3

LEMMA CheckPktAvailMaps ==
    ASSUME ReceiveInv, NEW m \in Machines, CheckPktAvail(m)
    PROVE  UNCHANGED Mail!vars
<1>1. ReceiveTypes /\ ReceiveTypes'
  BY CheckPktAvailInv DEF ReceiveInv
<1>2. inbox[m] = NoPacket /\ socket[m] \in Seq(Packets) /\ socket[m] # <<>>
  BY <1>1 DEF ReceiveTypes, CheckPktAvail, MayRead
<1>3. /\ inbox'[m] = Head(socket[m]) /\ socket'[m] = Tail(socket[m])
      /\ \A k \in Machines \ {m} : inbox'[k] = inbox[k] /\ socket'[k] = socket[k]
      /\ mailbox' = mailbox /\ sent' = sent /\ stopped' = stopped
  BY <1>1 DEF ReceiveTypes, CheckPktAvail, sending
<1>4. Head(socket[m]) # NoPacket
  BY <1>2, HeadTailProperties, PacketTypes
<1>5. transit'[m] = <<Head(socket[m])>> \o Tail(socket[m])
  BY <1>3, <1>4 DEF transit
<1>6. transit'[m] = transit[m]
  BY <1>1, <1>2, <1>5, TransitOf, HeadThenTail
<1>7. transit' = transit
  BY <1>3, <1>6 DEF transit
<1>8. QED
  BY <1>3, <1>7 DEF Mail!vars

LEMMA DeliverMaps ==
    ASSUME ReceiveInv, NEW m \in Machines, Deliver(m)
    PROVE  Mail!Deliver(m)
<1>1. ReceiveTypes /\ inbox[m] \in Packets /\ inbox[m] # NoPacket /\ socket[m] \in Seq(Packets)
  BY DeliverInv, PacketTypes DEF ReceiveInv, ReceiveTypes
<1>2. /\ inbox'[m] = NoPacket /\ socket' = socket
      /\ \A k \in Machines \ {m} : inbox'[k] = inbox[k]
  BY <1>1 DEF ReceiveTypes, Deliver, AfterReceive
<1>3. transit[m] = <<inbox[m]>> \o socket[m]
  BY <1>1, TransitOf
<1>4. transit[m] # <<>> /\ Head(transit[m]) = inbox[m] /\ Tail(transit[m]) = socket[m]
  BY <1>1, <1>3, Prefixed
<1>5. transit'[m] = socket[m]
  BY <1>1, <1>2, ConcatEmptySeq DEF transit
<1>6. transit' = [transit EXCEPT ![m] = Tail(transit[m])]
  BY <1>2, <1>4, <1>5 DEF transit
<1>7. QED
  BY <1>4, <1>6 DEF Mail!Deliver, Deliver, Put, sending

LEMMA SendsPacketMaps ==
    ASSUME ReceiveInv, NEW m \in Machines, NEW to \in Machines, NEW box \in Boxes,
           SendsPacket(m, to, box)
    PROVE  Mail!Send(m, to, box)
<1>1. ReceiveTypes /\ Packet(m, box) \in Packets /\ socket[to] \in Seq(Packets)
  BY PacketTypes DEF ReceiveInv, ReceiveTypes
<1>2. Mail!Message(m, box) = Packet(m, box)
  BY DEF Packet, Mail!Message
<1>3. CASE socket' = socket
  <2>1. transit' = transit
    BY <1>3 DEF SendsPacket, transit
  <2>2. QED
    BY <2>1 DEF SendsPacket, Mail!Send
<1>4. CASE /\ ~stopped[to]
           /\ socket' = [socket EXCEPT ![to] = Append(socket[to], Packet(m, box))]
  <2>1. /\ inbox' = inbox /\ socket'[to] = Append(socket[to], Packet(m, box))
        /\ \A k \in Machines \ {to} : socket'[k] = socket[k]
    BY <1>1, <1>4 DEF SendsPacket, ReceiveTypes
  <2>2. transit'[to] = Append(transit[to], Packet(m, box))
    <3>1. CASE inbox[to] = NoPacket
      <4>1. transit'[to] = <<>> \o Append(socket[to], Packet(m, box))
        BY <2>1, <3>1 DEF transit
      <4>2. Append(socket[to], Packet(m, box)) \in Seq(Packets)
        BY <1>1, AppendProperties
      <4>3. QED
        BY <1>1, <3>1, <4>1, <4>2, ConcatEmptySeq, TransitOf
    <3>2. CASE inbox[to] # NoPacket
      <4>1. transit'[to] = <<inbox[to]>> \o Append(socket[to], Packet(m, box))
        BY <2>1, <3>2 DEF transit
      <4>2. <<inbox[to]>> \in Seq(Packets)
        BY <1>1, <3>2 DEF ReceiveTypes
      <4>3. transit[to] = <<inbox[to]>> \o socket[to]
        BY <1>1, <3>2, TransitOf
      <4>4. <<inbox[to]>> \o Append(socket[to], Packet(m, box))
              = Append(<<inbox[to]>> \o socket[to], Packet(m, box))
        BY <1>1, <4>2, AppendBehind
      <4>5. QED
        BY <4>1, <4>3, <4>4
    <3>3. QED
      BY <3>1, <3>2
  <2>3. transit' = [transit EXCEPT ![to] = Append(transit[to], Packet(m, box))]
    BY <2>1, <2>2 DEF transit
  <2>4. QED
    BY <1>2, <1>4, <2>3 DEF SendsPacket, Mail!Send
<1>5. QED
  BY <1>3, <1>4 DEF SendsPacket

LEMMA MailStep ==
    ASSUME ReceiveInv, [Next]_vars
    PROVE  [Mail!Next]_(Mail!vars)
<1>1. CASE Quiet
  BY <1>1 DEF Quiet, receiving, Mail!vars, transit
<1>2. ASSUME NEW m \in Machines, WorkerWaits(m) PROVE UNCHANGED Mail!vars
  BY <1>2 DEF WorkerWaits, sending, Mail!vars, transit
<1>3. ASSUME NEW m \in Machines, Stops(m) PROVE Mail!Next
  <2>1. transit' = transit /\ mailbox' = mailbox /\ sent' = sent
    BY <1>3 DEF Stops, receiving, transit
  <2>2. Mail!Stop(m)
    BY <1>3, <2>1 DEF Stops, Mail!Stop
  <2>3. QED
    BY <2>2 DEF Mail!Next
<1>4. ASSUME NEW m \in Machines, NEW c \in Clients[m], NEW box \in Boxes, Receive(m, c, box)
      PROVE  Mail!Next
  <2>1. transit' = transit /\ sent' = sent
    BY <1>4 DEF Receive, sending, transit
  <2>2. Mail!Receive(m, box)
    BY <1>4, <2>1 DEF Receive, Mail!Receive
  <2>3. QED
    BY <2>2 DEF Mail!Next
<1>5. ASSUME NEW m \in Machines, Deliver(m) PROVE Mail!Next
  BY <1>5, DeliverMaps DEF Mail!Next
<1>6. ASSUME NEW m \in Machines, NEW to \in Machines, NEW box \in Boxes, SendsPacket(m, to, box)
      PROVE  Mail!Next
  BY <1>6, SendsPacketMaps DEF Mail!Next
<1>7. QED
  BY <1>1, <1>2, <1>3, <1>4, <1>5, <1>6, CheckPktAvailMaps, ReceivingSteps

\* The machines together implement MailSystem, for any machines, boxes and
\* threads: no packet that is accepted is lost, doubled or overtaken, whatever
\* polls, wake-ups, deliveries, sends and ends of machines interleave.
THEOREM MailCorrect == Spec => ImplementsMailSystem
<1>1. Init => Mail!Init
  BY MailInit
<1>2. ReceiveInv /\ [Next]_vars => [Mail!Next]_(Mail!vars)
  BY MailStep
<1>3. QED
  BY <1>1, <1>2, ReceiveCorrect, PTL DEF Spec, ImplementsMailSystem, Mail!Spec
=============================================================================
