-------------------------- MODULE ChatServerProofs --------------------------
(***************************************************************************)
(* Theorems about ChatServer, for any number of clients and descriptors.    *)
(*                                                                         *)
(* The inductive invariant has these parts: what is registered, armed and   *)
(* reported (Structure); where an arrival can be (Arrivals); that only late *)
(* resets are taken for good connections (Races); that a client has one     *)
(* connection (Connections), which makes the order of its messages (Order)  *)
(* and their completeness (Complete) a matter of one queue.  For the last   *)
(* three a step is one of the kinds of lemma Effects.                       *)
(***************************************************************************)
EXTENDS ChatServer, TLAPS

USE FdAssumption, ClientAssumption DEF master, polling, waiting, ended, killed

-----------------------------------------------------------------------------
(* Types                                                                   *)

\* Appending one element to a sequence.
LEMMA AppendTypes ==
  ASSUME NEW S, NEW s \in Seq(S), NEW m \in S
  PROVE  /\ Append(s, m) \in Seq(S) /\ Len(Append(s, m)) = Len(s) + 1
         /\ Append(s, m) # <<>> /\ Head(Append(s, m)) \in S
         /\ \A i \in 1..Len(s) : Append(s, m)[i] = s[i]
         /\ Append(s, m)[Len(s) + 1] = m
<1>1. Append(s, m) \in Seq(S) /\ Len(Append(s, m)) = Len(s) + 1 /\ Len(s) \in Nat
  OBVIOUS
<1>2. Append(s, m) # <<>>
  BY <1>1
<1>3. Head(Append(s, m)) \in S
  BY <1>1, <1>2
<1> QED
  BY <1>1, <1>2, <1>3

\* What Erased() and Caught() do to the types of what they change.
LEMMA ErasedTypes ==
  ASSUME TypeOK, NEW fd \in Fd, Erased(fd)
  PROVE  /\ listeners' \subseteq Fd /\ output' \in [Fd -> Seq(Message)]
         /\ written' \in [Fd -> 0..1] /\ open' \in [Fd -> Client \cup {NULL}]
         /\ interest' \in [Fd -> {"none", "in", "inout"}] /\ full' \subseteq Client
BY DEF TypeOK, Erased

LEMMA CaughtTypes ==
  ASSUME TypeOK, NEW fd \in Fd, Caught(fd)
  PROVE  /\ open' \in [Fd -> Client \cup {NULL}]
         /\ interest' \in [Fd -> {"none", "in", "inout"}]
         /\ failed' \subseteq Fd /\ full' \subseteq Client
BY DEF TypeOK, Caught

LEMMA TakeTypes ==
  ASSUME TypeOK, NEW fd, NEW kind, Take(fd, kind)
  PROVE  /\ DOMAIN batch' \subseteq Fd \cup {master}
         /\ \A f \in DOMAIN batch' : batch'[f] \in {"in", "out", "err"}
         /\ at = polling /\ fd \in DOMAIN batch /\ DOMAIN batch' = DOMAIN batch \ {fd}
         /\ \A f \in DOMAIN batch' : batch'[f] = batch[f]
BY DEF TypeOK, Take

LEMMA FlushTypes ==
  ASSUME TypeOK, NEW fd \in Fd, Flush(fd), output[fd] # <<>>, open[fd] # NULL
  PROVE  /\ output' \in [Fd -> Seq(Message)]
         /\ written' \in [Fd -> 0..1]
         /\ interest' \in [Fd -> {"none", "in", "inout"}]
         /\ received' \in [Client -> Seq(Message)] /\ full' \subseteq Client
<1>1. /\ output \in [Fd -> Seq(Message)] /\ written \in [Fd -> 0..1]
      /\ interest \in [Fd -> {"none", "in", "inout"}]
      /\ received \in [Client -> Seq(Message)] /\ open[fd] \in Client
  BY DEF TypeOK
<1>2. Tail(output[fd]) \in Seq(Message) /\ Head(output[fd]) \in Message
  BY <1>1
<1>3. Append(received[open[fd]], Head(output[fd])) \in Seq(Message)
  BY <1>1, <1>2
<1>4. InterestAfter(fd, output'[fd]) \in {"none", "in", "inout"}
  BY <1>1 DEF InterestAfter
<1>5. full' \subseteq Client
  BY <1>1 DEF Flush, TypeOK
<1>6. CASE written' = [written EXCEPT ![fd] = 1] /\ UNCHANGED <<output, interest, received>>
  BY <1>1, <1>5, <1>6
<1>7. CASE /\ written' = [written EXCEPT ![fd] = 0]
           /\ output' = [output EXCEPT ![fd] = Tail(@)]
           /\ interest' = [interest EXCEPT ![fd] = InterestAfter(fd, output'[fd])]
           /\ received' = [received EXCEPT ![open[fd]] = Append(@, Head(output[fd]))]
  BY <1>1, <1>2, <1>3, <1>4, <1>5, <1>7
<1> QED
  BY <1>6, <1>7 DEF Flush

LEMMA InitTypes == Init => TypeOK
<1> SUFFICES ASSUME Init PROVE TypeOK
  OBVIOUS
<1>1. /\ output \in [Fd -> Seq(Message)] /\ inbox \in [Client -> Seq(Data)]
      /\ received \in [Client -> Seq(Message)] /\ backlog \in Seq(Client)
  BY DEF Init
<1>2. DOMAIN batch = {}
  BY DEF Init, Nothing
<1>3. /\ written \in [Fd -> 0..1] /\ open \in [Fd -> Client \cup {NULL}]
      /\ interest \in [Fd -> {"none", "in", "inout"}]
      /\ broken \in [Client -> BOOLEAN] /\ sent \in [Client -> 0..MaxSent + 1]
      /\ joined \in [Client -> Nat] /\ reads \in Nat
  BY DEF Init
<1> QED
  BY <1>1, <1>2, <1>3 DEF Init, TypeOK

LEMMA ClientTypes == ASSUME TypeOK, ClientNext PROVE TypeOK'
<1>1. ASSUME NEW c \in Client, Connect(c) PROVE TypeOK'
  BY <1>1 DEF Connect, TypeOK, server
<1>2. ASSUME NEW c \in Client, NEW data \in {"text", "eot"}, Say(c, data) PROVE TypeOK'
  <2>1. inbox' \in [Client -> Seq(Data)]
    <3>1. Append(inbox[c], data) \in Seq(Data)
      BY DEF TypeOK, Data
    <3> QED
      BY <1>2, <3>1 DEF Say, TypeOK
  <2>2. sent' \in [Client -> 0..MaxSent + 1]
    BY <1>2 DEF Say, TypeOK
  <2> QED
    BY <1>2, <2>1, <2>2 DEF Say, TypeOK, server
<1>3. ASSUME NEW c \in Client, Leave(c) PROVE TypeOK'
  <2>1. inbox' \in [Client -> Seq(Data)]
    <3>1. Append(inbox[c], "fin") \in Seq(Data)
      BY DEF TypeOK, Data
    <3> QED
      BY <1>3, <3>1 DEF Leave, TypeOK
  <2>2. sent' \in [Client -> 0..MaxSent + 1]
    BY <1>3 DEF Leave, TypeOK
  <2> QED
    BY <1>3, <2>1, <2>2 DEF Leave, TypeOK, server
<1>4. ASSUME NEW c \in Client, Break(c) PROVE TypeOK'
  BY <1>4 DEF Break, TypeOK, server
<1>5. ASSUME NEW c \in Client, Drain(c) PROVE TypeOK'
  BY <1>5 DEF Drain, TypeOK, server, network
<1> QED
  BY <1>1, <1>2, <1>3, <1>4, <1>5 DEF ClientNext

\* The steps that leave listeners, their queues and the sockets alone.
LEMMA LoopTypes ==
  ASSUME TypeOK,
         \/ Interrupt \/ Test \/ EpollWait \/ StartAccept \/ StopAccept \/ ReadNothing
         \/ \E fd \in Fd : StartRead(fd)
  PROVE  TypeOK'
<1> USE DEF TypeOK, network
<1>1. CASE Interrupt
  BY <1>1 DEF Interrupt
<1>2. CASE Test
  BY <1>2 DEF Test
<1>3. CASE EpollWait
  BY <1>3 DEF EpollWait, Ready, Kind, Writable
<1>4. CASE StartAccept
  BY <1>4, TakeTypes DEF StartAccept
<1>5. CASE StopAccept
  BY <1>5 DEF StopAccept
<1>6. CASE ReadNothing
  BY <1>6 DEF ReadNothing
<1>7. ASSUME NEW fd \in Fd, StartRead(fd) PROVE TypeOK'
  BY <1>7, TakeTypes DEF StartRead
<1> HIDE DEF TypeOK
<1> QED
  BY <1>1, <1>2, <1>3, <1>4, <1>5, <1>6, <1>7

LEMMA HandleErrorTypes == ASSUME TypeOK, NEW fd \in Fd, HandleError(fd) PROVE TypeOK'
BY ErasedTypes, TakeTypes DEF HandleError, TypeOK, network

LEMMA HandleWritableTypes ==
  ASSUME TypeOK, EventsAreCurrent, NEW fd \in Fd, HandleWritable(fd)
  PROVE  TypeOK'
<1>1. /\ Take(fd, "out") /\ UNCHANGED <<listeners, reads, refused, sigint, network, joined>>
      /\ open[fd] # NULL /\ output[fd] # <<>>
  BY DEF HandleWritable, Take, EventsAreCurrent
<1>2. CASE Flush(fd) /\ UNCHANGED <<at, open, failed>>
  BY <1>1, <1>2, TakeTypes, FlushTypes DEF TypeOK, network
<1>3. CASE Caught(fd) /\ UNCHANGED <<at, output, written, received>>
  BY <1>1, <1>3, TakeTypes, CaughtTypes DEF TypeOK, network
<1>4. CASE at' = killed /\ UNCHANGED <<output, written, interest, open, failed, received, full>>
  BY <1>1, <1>4, TakeTypes DEF TypeOK, network
<1> QED
  BY <1>2, <1>3, <1>4 DEF HandleWritable

LEMMA AcceptTypes == ASSUME TypeOK, Accept PROVE TypeOK'
<1>1. PICK fd \in Fd :
        /\ listeners' = listeners \cup {fd} /\ open' = [open EXCEPT ![fd] = Head(backlog)]
        /\ output' = [output EXCEPT ![fd] = Queue(@, welcome)]
        /\ interest' = [interest EXCEPT ![fd] = "inout"]
  BY DEF Accept, Free
<1>2. /\ joined' = [joined EXCEPT ![Head(backlog)] = reads]
      /\ backlog' = Tail(backlog) /\ backlog # <<>>
      /\ UNCHANGED <<written, batch, at, reads, failed, refused, sigint, edge, inbox, known,
                     broken, sent, late, received, full>>
  BY DEF Accept
<1>3. Head(backlog) \in Client /\ Tail(backlog) \in Seq(Client)
  BY <1>2 DEF TypeOK
<1>4. Queue(output[fd], welcome) \in Seq(Message)
  BY DEF Queue, Message, welcome, TypeOK
<1> QED
  BY <1>1, <1>2, <1>3, <1>4 DEF TypeOK

LEMMA ReadTextTypes ==
  ASSUME TypeOK, NEW n \in 1..MaxSent, ReadText(n), open[at] # NULL
  PROVE  TypeOK'
<1> DEFINE c == open[at]
<1>1. /\ at \in Fd /\ n \in 1..Len(inbox[c])
      /\ inbox' = [inbox EXCEPT ![c] = SubSeq(@, n + 1, Len(@))]
      /\ reads' = reads + 1
      /\ output' = [fd \in Fd |-> IF fd \in Reached THEN Queue(output[fd], reads') ELSE output[fd]]
      /\ interest' = [fd \in Fd |-> IF fd \in Reached \ Stale THEN "inout" ELSE interest[fd]]
      /\ at' \in {at, polling}
      /\ UNCHANGED <<listeners, written, batch, failed, refused, sigint, open, backlog, edge,
                     known, broken, sent, late, received, joined, full>>
  BY DEF ReadText
<1>2. c \in Client /\ inbox[c] \in Seq(Data)
  BY <1>1 DEF TypeOK
<1>3. SubSeq(inbox[c], n + 1, Len(inbox[c])) \in Seq(Data)
  BY <1>1, <1>2
<1>4. \A fd \in Fd : Queue(output[fd], reads') \in Seq(Message)
  BY <1>1 DEF Queue, Message, TypeOK
<1>5. inbox' \in [Client -> Seq(Data)]
  BY <1>1, <1>2, <1>3 DEF TypeOK
<1>6. output' \in [Fd -> Seq(Message)] /\ interest' \in [Fd -> {"none", "in", "inout"}]
  BY <1>1, <1>4 DEF TypeOK
<1>7. reads' \in Nat /\ at' \in Fd \cup {master, polling, waiting, ended, killed}
  BY <1>1 DEF TypeOK
<1> QED
  BY <1>1, <1>5, <1>6, <1>7 DEF TypeOK

LEMMA ReadEotTypes ==
  ASSUME TypeOK, NEW n \in 1..MaxSent, ReadEot(n), open[at] # NULL
  PROVE  TypeOK'
<1> DEFINE c == open[at]
           queue == Queue(output[at], bye)
<1>1. /\ at \in Fd /\ n \in 1..Len(inbox[c])
      /\ inbox' = [inbox EXCEPT ![c] = SubSeq(@, n + 1, Len(@))]
      /\ UNCHANGED <<batch, reads, refused, sigint, backlog, edge, known, broken, sent, late,
                     joined>>
  BY DEF ReadEot
<1>2. c \in Client /\ inbox[c] \in Seq(Data)
  BY <1>1 DEF TypeOK
<1>3. SubSeq(inbox[c], n + 1, Len(inbox[c])) \in Seq(Data)
  BY <1>1, <1>2
<1>4. inbox' \in [Client -> Seq(Data)]
  BY <1>1, <1>2, <1>3 DEF TypeOK
<1>5. queue \in Seq(Message) /\ queue # <<>> /\ Head(queue) \in Message
  <2>1. output[at] \in Seq(Message) /\ bye \in Message
    BY <1>1 DEF Message, TypeOK
  <2> HIDE DEF bye
  <2> QED
    BY <2>1, AppendTypes DEF Queue
<1>6. CASE /\ Caught(at) /\ at' = polling /\ output' = [output EXCEPT ![at] = queue]
           /\ UNCHANGED <<listeners, written, received>>
  BY <1>1, <1>4, <1>5, <1>6, CaughtTypes DEF TypeOK
<1>7. CASE /\ Erased(at) /\ at' = polling /\ UNCHANGED failed
           /\ received' \in {received, [received EXCEPT ![c] = Append(@, Head(queue))]}
  <2>1. received' \in [Client -> Seq(Message)]
    <3>1. received \in [Client -> Seq(Message)]
      BY DEF TypeOK
    <3>2. Append(received[c], Head(queue)) \in Seq(Message)
      BY <1>2, <1>5, <3>1
    <3> HIDE DEF queue, c
    <3> QED
      BY <1>2, <1>7, <3>1, <3>2
  <2> QED
    BY <1>1, <1>4, <1>7, <2>1, ErasedTypes DEF TypeOK
<1>8. CASE /\ at' = killed
           /\ UNCHANGED <<listeners, output, written, interest, open, failed, received, full>>
  BY <1>1, <1>4, <1>8 DEF TypeOK
<1> QED
  BY <1>6, <1>7, <1>8 DEF ReadEot

LEMMA ReadEndTypes == ASSUME TypeOK, ReadEnd PROVE TypeOK'
BY ErasedTypes DEF ReadEnd, TypeOK, network

-----------------------------------------------------------------------------
(* Descriptors, events and what is armed                                   *)

Structure ==
  /\ \A fd \in Fd : open[fd] # NULL => fd \in listeners
  /\ ArmedIffPending
  /\ EventsAreCurrent
  /\ at \in Fd => open[at] # NULL /\ at \notin DOMAIN batch
  /\ at = waiting => batch = Nothing

\* The events not handled yet are some of those before.
Fewer ==
  /\ DOMAIN batch' \subseteq DOMAIN batch
  /\ \A f \in DOMAIN batch' : batch'[f] = batch[f]

LEMMA TakeFewer ==
  ASSUME NEW fd, NEW kind, Take(fd, kind)
  PROVE  /\ Fewer /\ fd \in DOMAIN batch /\ fd \notin DOMAIN batch' /\ at = polling
         /\ batch[fd] = kind
BY DEF Take, Fewer

\* Steps that close a socket whose event is taken.
LEMMA ClosingKeeps ==
  ASSUME TypeOK, Structure, NEW fd \in Fd,
         open' = [open EXCEPT ![fd] = NULL], interest' = [interest EXCEPT ![fd] = "none"],
         \A f \in Fd \ {fd} : output'[f] = output[f] /\ (f \in listeners => f \in listeners'),
         Fewer, fd \notin DOMAIN batch', at' = polling
  PROVE  Structure'
<1>1. open \in [Fd -> Client \cup {NULL}] /\ DOMAIN batch \subseteq Fd \cup {master}
      /\ interest \in [Fd -> {"none", "in", "inout"}]
  BY DEF TypeOK
<1>2. open'[fd] = NULL /\ \A f \in Fd \ {fd} : open'[f] = open[f] /\ interest'[f] = interest[f]
  BY <1>1
<1>3. ArmedIffPending'
  BY <1>2 DEF Structure, ArmedIffPending
<1>4. EventsAreCurrent'
  BY <1>1, <1>2 DEF Structure, EventsAreCurrent, Fewer
<1> QED
  BY <1>2, <1>3, <1>4 DEF Structure

LEMMA ErasedKeeps ==
  ASSUME TypeOK, Structure, NEW fd \in Fd, Erased(fd),
         Fewer, fd \notin DOMAIN batch', at' = polling
  PROVE  Structure'
<1>1. \A f \in Fd \ {fd} : output'[f] = output[f] /\ (f \in listeners => f \in listeners')
  BY DEF Erased, TypeOK
<1> QED
  BY <1>1, ClosingKeeps DEF Erased

\* Steps that only go from one place of the loop to another.
LEMMA LoopKeeps ==
  ASSUME TypeOK, Structure, UNCHANGED <<listeners, output, interest, open>>, Fewer,
         at' \in Fd => open[at'] # NULL /\ at' \notin DOMAIN batch',
         at' = waiting => batch' = Nothing
  PROVE  Structure'
BY DEF Structure, ArmedIffPending, EventsAreCurrent, Fewer

LEMMA InitStructure == Init => Structure
BY DEF Init, Structure, ArmedIffPending, EventsAreCurrent, Nothing

LEMMA EpollWaitStructure == ASSUME TypeOK, Structure, EpollWait PROVE Structure'
<1>1. /\ UNCHANGED <<listeners, output, interest, open>> /\ at' = polling
      /\ DOMAIN batch' \ {master} = Ready
      /\ \A fd \in Ready : batch'[fd] = Kind(fd)
  BY DEF EpollWait, Ready
<1>2. \A fd \in Ready : fd \in Fd /\ open[fd] # NULL /\ (Kind(fd) = "out" => interest[fd] = "inout")
  BY DEF Ready, Kind, Writable
<1>3. EventsAreCurrent'
  BY <1>1, <1>2 DEF Structure, ArmedIffPending, EventsAreCurrent
<1> QED
  BY <1>1, <1>3 DEF Structure, ArmedIffPending

LEMMA FlushStructure ==
  ASSUME TypeOK, Structure, NEW fd \in Fd, Take(fd, "out"), Flush(fd),
         UNCHANGED <<listeners, open, at>>
  PROVE  Structure'
<1>1. Fewer /\ fd \in DOMAIN batch /\ fd \notin DOMAIN batch' /\ at = polling
  BY TakeFewer
<1>2. /\ interest \in [Fd -> {"none", "in", "inout"}] /\ output \in [Fd -> Seq(Message)]
      /\ DOMAIN batch \subseteq Fd \cup {master}
  BY DEF TypeOK
<1>3. output[fd] # <<>> /\ open[fd] # NULL /\ interest[fd] = "inout"
  BY <1>1 DEF Structure, EventsAreCurrent, ArmedIffPending, Take
<1>4. \A f \in Fd \ {fd} : output'[f] = output[f] /\ interest'[f] = interest[f]
  BY <1>2 DEF Flush
<1>5. interest'[fd] = "inout" <=> output'[fd] # <<>>
  BY <1>2, <1>3 DEF Flush, InterestAfter
<1>6. ArmedIffPending'
  BY <1>4, <1>5 DEF Structure, ArmedIffPending
<1>7. EventsAreCurrent'
  BY <1>1, <1>2, <1>4 DEF Structure, EventsAreCurrent, Fewer
<1> QED
  BY <1>1, <1>6, <1>7 DEF Structure

LEMMA HandleWritableStructure ==
  ASSUME TypeOK, Structure, NEW fd \in Fd, HandleWritable(fd)
  PROVE  Structure'
<1>1. Take(fd, "out") /\ UNCHANGED listeners /\ Fewer /\ fd \notin DOMAIN batch' /\ at = polling
  BY TakeFewer DEF HandleWritable
<1>2. CASE Flush(fd) /\ UNCHANGED <<at, open, failed>>
  BY <1>1, <1>2, FlushStructure
<1>3. CASE Caught(fd) /\ UNCHANGED <<at, output, written, received>>
  BY <1>1, <1>3, ClosingKeeps DEF Caught
<1>4. CASE at' = killed /\ UNCHANGED <<output, written, interest, open, failed, received>>
  BY <1>1, <1>4, LoopKeeps
<1> QED
  BY <1>2, <1>3, <1>4 DEF HandleWritable

LEMMA AcceptStructure == ASSUME TypeOK, Structure, Accept PROVE Structure'
<1>1. PICK fd \in Fd :
        /\ open[fd] = NULL
        /\ listeners' = listeners \cup {fd} /\ open' = [open EXCEPT ![fd] = Head(backlog)]
        /\ output' = [output EXCEPT ![fd] = Queue(@, welcome)]
        /\ interest' = [interest EXCEPT ![fd] = "inout"]
  BY DEF Accept, Free
<1>2. UNCHANGED <<batch, at>> /\ at = master
  BY DEF Accept
<1>3. /\ open \in [Fd -> Client \cup {NULL}] /\ DOMAIN batch \subseteq Fd \cup {master}
      /\ interest \in [Fd -> {"none", "in", "inout"}] /\ output \in [Fd -> Seq(Message)]
  BY DEF TypeOK
<1>4. \A f \in Fd \ {fd} : /\ open'[f] = open[f] /\ interest'[f] = interest[f]
                            /\ output'[f] = output[f]
  BY <1>1, <1>3
<1>5. interest'[fd] = "inout" /\ output'[fd] # <<>>
  <2>1. Queue(output[fd], welcome) # <<>>
    BY <1>3, AppendTypes DEF Queue, welcome, Message
  <2> QED
    BY <1>1, <1>3, <2>1
<1>6. ArmedIffPending'
  BY <1>4, <1>5 DEF Structure, ArmedIffPending
<1>7. fd \notin DOMAIN batch
  BY <1>1 DEF Structure, EventsAreCurrent
<1>8. EventsAreCurrent'
  BY <1>1, <1>2, <1>3, <1>4, <1>7 DEF Structure, EventsAreCurrent
<1> QED
  BY <1>1, <1>2, <1>4, <1>6, <1>8 DEF Structure

LEMMA ReadTextStructure ==
  ASSUME TypeOK, Structure, NEW n \in 1..MaxSent, ReadText(n)
  PROVE  Structure'
<1>1. /\ output' = [fd \in Fd |-> IF fd \in Reached THEN Queue(output[fd], reads') ELSE output[fd]]
      /\ interest' = [fd \in Fd |-> IF fd \in Reached \ Stale THEN "inout" ELSE interest[fd]]
      /\ at' \in {at, polling} /\ reads' = reads + 1
      /\ UNCHANGED <<listeners, batch, open>>
  BY DEF ReadText
<1>2. DOMAIN batch \subseteq Fd \cup {master} /\ reads' \in Message
      /\ output \in [Fd -> Seq(Message)]
  BY <1>1 DEF TypeOK, Message
<1>3. \A fd \in Reached \cap Fd : Queue(output[fd], reads') # <<>>
  BY <1>2, AppendTypes DEF Queue
<1>4. ArmedIffPending'
  BY <1>1, <1>3 DEF Structure, ArmedIffPending, Stale, Reached
<1>5. EventsAreCurrent'
  BY <1>1, <1>2, <1>3 DEF Structure, EventsAreCurrent
<1> QED
  BY <1>1, <1>4, <1>5 DEF Structure

LEMMA ReadEotStructure ==
  ASSUME TypeOK, Structure, NEW n \in 1..MaxSent, ReadEot(n)
  PROVE  Structure'
<1>1. at \in Fd /\ UNCHANGED batch /\ Fewer /\ at \notin DOMAIN batch'
  BY DEF ReadEot, Structure, Fewer
<1>2. CASE /\ Caught(at) /\ at' = polling
           /\ output' = [output EXCEPT ![at] = Queue(output[at], bye)]
           /\ UNCHANGED <<listeners, written, received>>
  <2>1. \A f \in Fd \ {at} : output'[f] = output[f]
    BY <1>2 DEF TypeOK
  <2> QED
    BY <1>1, <1>2, <2>1, ClosingKeeps DEF Caught
<1>3. CASE Erased(at) /\ at' = polling
  BY <1>1, <1>3, ErasedKeeps
<1>4. CASE at' = killed /\ UNCHANGED <<listeners, output, written, interest, open, failed, received>>
  BY <1>1, <1>4, LoopKeeps
<1> QED
  BY <1>2, <1>3, <1>4 DEF ReadEot

LEMMA NextStructure == ASSUME TypeOK, Structure, Next PROVE Structure'
<1>1. ASSUME ClientNext PROVE Structure'
  BY <1>1 DEF ClientNext, Connect, Say, Leave, Break, Drain, server, network,
       Structure, ArmedIffPending, EventsAreCurrent
<1>2. ASSUME Interrupt \/ Test \/ StopAccept \/ ReadNothing PROVE Structure'
  <2>1. /\ UNCHANGED <<listeners, output, interest, open, batch>> /\ Fewer
        /\ at' \in {at, polling, ended} \/ (at' = waiting /\ batch = Nothing)
    BY <1>2 DEF Interrupt, Test, StopAccept, ReadNothing, Fewer
  <2> QED
    BY <2>1, LoopKeeps DEF Structure
<1>3. ASSUME StartAccept PROVE Structure'
  BY <1>3, LoopKeeps, TakeFewer DEF StartAccept
<1>4. ASSUME NEW fd \in Fd, StartRead(fd) PROVE Structure'
  <2>1. open[fd] # NULL
    BY <1>4, TakeFewer DEF StartRead, Structure, EventsAreCurrent
  <2> QED
    BY <1>4, <2>1, LoopKeeps, TakeFewer DEF StartRead
<1>5. ASSUME NEW fd \in Fd, HandleError(fd) PROVE Structure'
  BY <1>5, ErasedKeeps, TakeFewer DEF HandleError
<1>6. ASSUME ReadEnd PROVE Structure'
  <2>1. at \in Fd /\ UNCHANGED batch /\ Fewer /\ at \notin DOMAIN batch' /\ at' = polling
    BY <1>6 DEF ReadEnd, Structure, Fewer
  <2> QED
    BY <1>6, <2>1, ErasedKeeps DEF ReadEnd
<1> QED
  BY <1>1, <1>2, <1>3, <1>4, <1>5, <1>6, EpollWaitStructure, HandleWritableStructure,
     AcceptStructure, ReadTextStructure, ReadEotStructure DEF Next, ServerNext

-----------------------------------------------------------------------------
(* Arrivals, and connections that break                                    *)

\* A connection that waits to be accepted was not reported yet, or its report is
\* being handled, or descriptors ran out.
Arrivals ==
  backlog # <<>> /\ ~ edge => master \in DOMAIN batch \/ at = master \/ refused

\* A connection that broke while the loop takes it for a good one broke late.
Races ==
  /\ \A fd \in DOMAIN batch \ {master} :
       batch[fd] # "err" /\ broken[open[fd]] => open[fd] \in late
  /\ at \in Fd /\ broken[open[at]] => open[at] \in late
  /\ KilledOnlyInRace

\* What a step of the server does to arrivals, apart from accepting.
LEMMA ArrivalsKept ==
  ASSUME Arrivals, UNCHANGED <<backlog, edge, refused>>,
         master \in DOMAIN batch => master \in DOMAIN batch' \/ at' = master,
         at = master => at' = master
  PROVE  Arrivals'
BY DEF Arrivals

LEMMA NextArrivals == ASSUME TypeOK, Structure, Arrivals, Next PROVE Arrivals'
<1>1. ASSUME NEW c \in Client, Connect(c) PROVE Arrivals'
  BY <1>1 DEF Connect, Arrivals
<1>2. ASSUME ClientNext, \A c \in Client : ~ Connect(c) PROVE Arrivals'
  BY <1>2 DEF ClientNext, Say, Leave, Break, Drain, server, network, Arrivals
<1>3. ASSUME Interrupt \/ Test \/ ReadNothing PROVE Arrivals'
  BY <1>3 DEF Interrupt, Test, ReadNothing, network, Arrivals
<1>4. ASSUME EpollWait PROVE Arrivals'
  <2>1. batch = Nothing /\ at = waiting
    BY <1>4 DEF EpollWait, Structure
  <2>2. edge => master \in DOMAIN batch'
    BY <1>4 DEF EpollWait
  <2> QED
    BY <1>4, <2>1, <2>2 DEF EpollWait, Arrivals, Nothing
<1>5. ASSUME StartAccept PROVE Arrivals'
  BY <1>5 DEF StartAccept, Arrivals
<1>6. ASSUME StopAccept PROVE Arrivals'
  BY <1>6 DEF StopAccept, Arrivals, network
<1>7. ASSUME Accept PROVE Arrivals'
  BY <1>7 DEF Accept, Arrivals
<1>8. ASSUME NEW fd \in Fd, HandleError(fd) \/ HandleWritable(fd) \/ StartRead(fd)
      PROVE  Arrivals'
  <2>1. UNCHANGED <<backlog, edge, refused>> /\ DOMAIN batch' = DOMAIN batch \ {fd} /\ at = polling
    BY <1>8 DEF HandleError, HandleWritable, StartRead, Take, network
  <2> QED
    BY <2>1, ArrivalsKept
<1>9. ASSUME NEW n \in 1..MaxSent, ReadText(n) \/ ReadEot(n) PROVE Arrivals'
  BY <1>9, ArrivalsKept DEF ReadText, ReadEot
<1>10. ASSUME ReadEnd PROVE Arrivals'
  BY <1>10, ArrivalsKept DEF ReadEnd, network
<1> QED
  BY <1>1, <1>2, <1>3, <1>4, <1>5, <1>6, <1>7, <1>8, <1>9, <1>10 DEF Next, ServerNext

\* Steps of the server after which no other connection is looked at.
LEMMA RacesKept ==
  ASSUME TypeOK, Structure, Races, UNCHANGED <<broken, late, sent>>, Fewer,
         \A f \in DOMAIN batch' \ {master} : open'[f] = open[f],
         at' \in Fd => /\ open'[at'] = open[at']
                       /\ at' = at \/ (at' \in DOMAIN batch /\ batch[at'] # "err"),
         at' = killed =>
           \/ at = killed
           \/ \E fd \in Fd :
                /\ Fatal(open[fd])
                /\ at = fd \/ (fd \in DOMAIN batch /\ batch[fd] # "err")
  PROVE  Races'
<1>1. \A fd \in DOMAIN batch' \ {master} :
        batch'[fd] # "err" /\ broken'[open'[fd]] => open'[fd] \in late'
  BY DEF Races, Fewer
<1>2. at' \in Fd /\ broken'[open'[at']] => open'[at'] \in late'
  BY DEF Races
<1>3. KilledOnlyInRace'
  <2>1. \A c : Fatal(c)' = Fatal(c)
    BY DEF Fatal
  <2>2. CASE at = killed
    BY <2>1, <2>2 DEF Races, KilledOnlyInRace
  <2>3. ASSUME NEW fd \in Fd, Fatal(open[fd]),
               at = fd \/ (fd \in DOMAIN batch /\ batch[fd] # "err")
        PROVE  KilledOnlyInRace'
    <3>1. open[fd] \in late
      BY <2>3 DEF Races, Fatal
    <3> QED
      BY <2>1, <2>3, <3>1 DEF KilledOnlyInRace
  <2>4. CASE at' # killed
    BY <2>4 DEF KilledOnlyInRace
  <2> QED
    BY <2>2, <2>3, <2>4
<1> QED
  BY <1>1, <1>2, <1>3 DEF Races

LEMMA ClientRaces == ASSUME TypeOK, Structure, Races, ClientNext PROVE Races'
<1>1. UNCHANGED <<batch, at, open>>
  BY DEF ClientNext, Connect, Say, Leave, Break, Drain, server
<1>2. /\ \A c \in Client : broken'[c] => c \in late' \/ broken[c]
      /\ late \subseteq late'
      /\ \A c \in Client : Fatal(c) => Fatal(c)'
  <2>1. ASSUME NEW c \in Client, Break(c)
        PROVE  /\ \A d \in Client : broken'[d] => d \in late' \/ broken[d]
               /\ late \subseteq late' /\ \A d \in Client : Fatal(d) => Fatal(d)'
    BY <2>1 DEF Break, Fatal, TypeOK
  <2>2. ASSUME NEW c \in Client, Connect(c) \/ Leave(c) \/ (\E data \in {"text", "eot"} : Say(c, data))
        PROVE  UNCHANGED <<broken, late>> /\ \A d \in Client : Fatal(d) => Fatal(d)'
    BY <2>2 DEF Connect, Leave, Say, Fatal, TypeOK
  <2>3. ASSUME NEW c \in Client, Drain(c)
        PROVE  UNCHANGED <<broken, late>> /\ \A d \in Client : Fatal(d) => Fatal(d)'
    BY <2>3 DEF Drain, Fatal, network
  <2> QED
    BY <2>1, <2>2, <2>3 DEF ClientNext
<1>3. late \subseteq Client /\ (\A fd \in Fd : open[fd] # NULL => open[fd] \in Client)
      /\ DOMAIN batch \subseteq Fd \cup {master}
  BY DEF TypeOK
<1>4. \A fd \in DOMAIN batch \ {master} : open[fd] \in Client
  BY <1>3 DEF Structure, EventsAreCurrent
<1>5. at \in Fd => open[at] \in Client
  BY <1>3 DEF Structure
<1> QED
  BY <1>1, <1>2, <1>3, <1>4, <1>5 DEF Races, KilledOnlyInRace

LEMMA NextRaces == ASSUME TypeOK, Structure, Races, Next PROVE Races'
<1>1. ASSUME Interrupt \/ Test \/ StopAccept \/ ReadNothing PROVE Races'
  <2>1. /\ UNCHANGED <<open, batch, broken, late, sent>> /\ Fewer
        /\ at' = at \/ at' \in {waiting, polling, ended}
    BY <1>1 DEF Interrupt, Test, StopAccept, ReadNothing, network, Fewer
  <2> QED
    BY <2>1, RacesKept
<1>2. ASSUME EpollWait PROVE Races'
  <2>1. /\ UNCHANGED <<open, broken>> /\ at' = polling
        /\ DOMAIN batch' \ {master} = Ready
        /\ \A fd \in Ready : batch'[fd] = Kind(fd)
    BY <1>2 DEF EpollWait, Ready
  <2> QED
    BY <2>1 DEF Races, KilledOnlyInRace, Kind
<1>3. ASSUME StartAccept PROVE Races'
  BY <1>3, TakeFewer, RacesKept DEF StartAccept, network
<1>4. ASSUME Accept PROVE Races'
  <2>1. PICK fd \in Fd : open[fd] = NULL /\ open' = [open EXCEPT ![fd] = Head(backlog)]
    BY <1>4 DEF Accept, Free
  <2>2. UNCHANGED <<batch, at, broken, late, sent>> /\ Fewer /\ at = master
    BY <1>4 DEF Accept, Fewer
  <2>3. \A f \in DOMAIN batch' \ {master} : open'[f] = open[f]
    BY <2>1, <2>2 DEF Structure, EventsAreCurrent, TypeOK
  <2> QED
    BY <2>2, <2>3, RacesKept
<1>5. ASSUME NEW fd \in Fd, StartRead(fd) PROVE Races'
  BY <1>5, TakeFewer, RacesKept DEF StartRead, network
<1>6. ASSUME NEW fd \in Fd, HandleError(fd) PROVE Races'
  <2>1. /\ UNCHANGED <<at, broken, late, sent>> /\ Fewer /\ fd \notin DOMAIN batch' /\ at = polling
        /\ open' = [open EXCEPT ![fd] = NULL]
    BY <1>6, TakeFewer DEF HandleError, network, Erased
  <2>2. \A f \in DOMAIN batch' \ {master} : open'[f] = open[f]
    BY <2>1 DEF TypeOK, Fewer
  <2> QED
    BY <2>1, <2>2, RacesKept
<1>7. ASSUME NEW fd \in Fd, HandleWritable(fd) PROVE Races'
  <2>1. /\ UNCHANGED <<broken, late, sent>> /\ Fewer /\ fd \notin DOMAIN batch' /\ at = polling
        /\ open' = open \/ open' = [open EXCEPT ![fd] = NULL]
        /\ fd \in DOMAIN batch /\ batch[fd] = "out"
        /\ at' = at \/ (at' = killed /\ Fatal(open[fd]))
    BY <1>7, TakeFewer DEF HandleWritable, network, Caught
  <2>2. \A f \in DOMAIN batch' \ {master} : open'[f] = open[f]
    BY <2>1 DEF TypeOK, Fewer
  <2>3. fd \in DOMAIN batch /\ batch[fd] # "err" /\ at' \notin Fd
    BY <2>1
  <2>4. ASSUME at' = killed
        PROVE  \E f \in Fd : Fatal(open[f]) /\ f \in DOMAIN batch /\ batch[f] # "err"
    <3>1. Fatal(open[fd])
      BY <2>1, <2>4
    <3> QED
      BY <2>3, <3>1
  <2> QED
    BY <2>1, <2>2, <2>3, <2>4, RacesKept
<1>8. ASSUME NEW n \in 1..MaxSent, ReadText(n) PROVE Races'
  BY <1>8, RacesKept DEF ReadText, Fewer
<1>9. ASSUME NEW n \in 1..MaxSent, ReadEot(n) PROVE Races'
  <2>1. /\ at \in Fd /\ UNCHANGED <<batch, broken, late, sent>> /\ Fewer
        /\ open' = open \/ open' = [open EXCEPT ![at] = NULL]
        /\ at' = polling \/ (at' = killed /\ Fatal(open[at]))
    BY <1>9 DEF ReadEot, Caught, Erased, Fewer
  <2>2. \A f \in DOMAIN batch' \ {master} : open'[f] = open[f]
    BY <2>1 DEF TypeOK, Structure
  <2> QED
    BY <2>1, <2>2, RacesKept
<1>10. ASSUME ReadEnd PROVE Races'
  <2>1. /\ at \in Fd /\ UNCHANGED <<batch, broken, late, sent>> /\ Fewer /\ at' = polling
        /\ open' = [open EXCEPT ![at] = NULL]
    BY <1>10 DEF ReadEnd, Erased, Fewer, network
  <2>2. \A f \in DOMAIN batch' \ {master} : open'[f] = open[f]
    BY <2>1 DEF TypeOK, Structure
  <2> QED
    BY <2>1, <2>2, RacesKept
<1> QED
  BY <1>1, <1>2, <1>3, <1>4, <1>5, <1>6, <1>7, <1>8, <1>9, <1>10, ClientRaces DEF Next, ServerNext

-----------------------------------------------------------------------------
(* What a step does to messages and connections                            *)

Still ==
  UNCHANGED <<listeners, output, open, received, joined, reads, failed, backlog, known>>

\* The message at the front of a queue is out.
MovedOn(fd) ==
  /\ open[fd] # NULL /\ output[fd] # <<>>
  /\ output' = [output EXCEPT ![fd] = Tail(@)]
  /\ received' = [received EXCEPT ![open[fd]] = Append(@, Head(output[fd]))]
  /\ UNCHANGED <<listeners, open, joined, reads, failed, backlog, known>>

\* A client is removed, possibly with one more message written to it.
Removed(fd) ==
  /\ open[fd] # NULL /\ Erased(fd)
  /\ \/ received' = received
     \/ received' = [received EXCEPT ![open[fd]] = Append(@, Head(Append(output[fd], bye)))]
  /\ UNCHANGED <<joined, reads, failed, backlog, known>>

\* A write fails, possibly with the farewell queued.
GivenUp(fd) ==
  /\ open[fd] # NULL /\ Caught(fd)
  /\ output' = output \/ output' = [output EXCEPT ![fd] = Append(@, bye)]
  /\ UNCHANGED <<listeners, received, joined, reads, backlog, known>>

LEMMA Effects ==
  ASSUME TypeOK, Structure, Next
  PROVE  \/ Still
         \/ \E c \in Client : Connect(c)
         \/ \E fd \in Fd : MovedOn(fd) \/ Removed(fd) \/ GivenUp(fd)
         \/ Accept
         \/ \E n \in 1..MaxSent : ReadText(n)
<1>1. ASSUME NEW c \in Client, Leave(c) \/ Break(c) \/ Drain(c) \/ \E data \in {"text", "eot"} : Say(c, data)
      PROVE  Still
  BY <1>1 DEF Leave, Break, Drain, Say, server, network, Still
<1>2. ASSUME \/ Interrupt \/ Test \/ EpollWait \/ StartAccept \/ StopAccept \/ ReadNothing
             \/ \E fd \in Fd : StartRead(fd)
      PROVE  Still
  BY <1>2 DEF Interrupt, Test, EpollWait, StartAccept, StopAccept, ReadNothing, StartRead, network, Still
<1>3. ASSUME NEW fd \in Fd, HandleError(fd) PROVE Removed(fd)
  <2>1. open[fd] # NULL
    BY <1>3, TakeFewer DEF HandleError, Structure, EventsAreCurrent
  <2> QED
    BY <1>3, <2>1 DEF HandleError, Removed, network
<1>4. ASSUME ReadEnd PROVE at \in Fd /\ Removed(at)
  BY <1>4 DEF ReadEnd, Removed, Structure, network
<1>5. ASSUME NEW fd \in Fd, HandleWritable(fd) PROVE Still \/ MovedOn(fd) \/ GivenUp(fd)
  <2>1. /\ open[fd] # NULL /\ output[fd] # <<>>
        /\ UNCHANGED <<listeners, reads, backlog, known, joined>>
    BY <1>5 DEF HandleWritable, Structure, EventsAreCurrent, network, Take
  <2>2. CASE Flush(fd) /\ UNCHANGED <<open, failed>>
    BY <2>1, <2>2 DEF Flush, Still, MovedOn
  <2>3. CASE Caught(fd) /\ UNCHANGED <<output, written, received>>
    BY <2>1, <2>3 DEF GivenUp
  <2>4. CASE UNCHANGED <<output, written, interest, open, failed, received>>
    BY <2>1, <2>4 DEF Still
  <2> QED
    BY <1>5, <2>2, <2>3, <2>4 DEF HandleWritable
<1>6. ASSUME NEW n \in 1..MaxSent, ReadEot(n)
      PROVE  Still \/ (at \in Fd /\ (Removed(at) \/ GivenUp(at)))
  <2>1. at \in Fd /\ open[at] # NULL /\ UNCHANGED <<reads, backlog, known, joined>>
    BY <1>6 DEF ReadEot, Structure
  <2>2. CASE /\ Caught(at) /\ output' = [output EXCEPT ![at] = Queue(output[at], bye)]
             /\ UNCHANGED <<listeners, written, received>>
    BY <2>1, <2>2 DEF GivenUp, Queue
  <2>3. CASE /\ Erased(at) /\ UNCHANGED failed
             /\ received' \in {received,
                             [received EXCEPT ![open[at]] = Append(@, Head(Queue(output[at], bye)))]}
    BY <2>1, <2>3 DEF Removed, Queue
  <2>4. CASE UNCHANGED <<listeners, output, written, interest, open, failed, received>>
    BY <2>1, <2>4 DEF Still
  <2> QED
    BY <1>6, <2>2, <2>3, <2>4 DEF ReadEot
<1> QED
  BY <1>1, <1>2, <1>3, <1>4, <1>5, <1>6 DEF Next, ClientNext, ServerNext

-----------------------------------------------------------------------------
(* Who is connected                                                        *)

\* A client has one connection at most, and gets nothing before it is accepted.
Connections ==
  /\ \A f, g \in Fd : open[f] # NULL /\ open[f] = open[g] => f = g
  /\ \A i, j \in DOMAIN backlog : backlog[i] = backlog[j] => i = j
  /\ \A i \in DOMAIN backlog, f \in Fd : open[f] # backlog[i]
  /\ \A i \in DOMAIN backlog : backlog[i] \in known /\ received[backlog[i]] = <<>>
  /\ \A f \in Fd : open[f] # NULL => open[f] \in known
  /\ \A c \in Client \ known : received[c] = <<>>

LEMMA InitConnections == Init => Connections
BY DEF Init, Connections

LEMMA NextConnections ==
  ASSUME TypeOK, Structure, Connections, Next
  PROVE  Connections'
<1>1. /\ open \in [Fd -> Client \cup {NULL}] /\ backlog \in Seq(Client) /\ known \subseteq Client
      /\ received \in [Client -> Seq(Message)]
  BY DEF TypeOK
<1>2. ASSUME Still PROVE Connections'
  BY <1>2 DEF Still, Connections
<1>3. ASSUME NEW c \in Client, Connect(c) PROVE Connections'
  <2>1. /\ c \notin known /\ known' = known \cup {c} /\ backlog' = Append(backlog, c)
        /\ UNCHANGED <<open, received>>
    BY <1>3 DEF Connect
  <2>2. /\ DOMAIN backlog' = 1..(Len(backlog) + 1) /\ DOMAIN backlog = 1..Len(backlog)
        /\ Len(backlog) \in Nat
        /\ \A i \in 1..Len(backlog) : backlog'[i] = backlog[i]
        /\ backlog'[Len(backlog) + 1] = c
    BY <1>1, <2>1, AppendTypes
  <2>3. \A i \in DOMAIN backlog' : i \in DOMAIN backlog \/ (i = Len(backlog) + 1 /\ backlog'[i] = c)
    BY <2>2
  <2> QED
    BY <2>1, <2>2, <2>3 DEF Connections
<1>4. ASSUME NEW fd \in Fd, MovedOn(fd) \/ Removed(fd) \/ GivenUp(fd) PROVE Connections'
  <2>1. /\ UNCHANGED <<backlog, known>> /\ open[fd] # NULL
        /\ \A f \in Fd : open'[f] = open[f] \/ open'[f] = NULL
        /\ \A c \in Client : c # open[fd] => received'[c] = received[c]
    BY <1>1, <1>4 DEF MovedOn, Removed, GivenUp, Erased, Caught
  <2>2. \A i \in DOMAIN backlog : backlog[i] \in Client /\ backlog[i] # open[fd]
    BY <1>1 DEF Connections
  <2> QED
    BY <2>1, <2>2 DEF Connections
<1>5. ASSUME Accept PROVE Connections'
  <2>1. PICK fd \in Fd : open[fd] = NULL /\ open' = [open EXCEPT ![fd] = Head(backlog)]
    BY <1>5 DEF Accept, Free
  <2>2. backlog # <<>> /\ backlog' = Tail(backlog) /\ UNCHANGED <<known, received>>
    BY <1>5 DEF Accept
  <2>3. /\ Head(backlog) = backlog[1] /\ 1 \in DOMAIN backlog /\ backlog[1] \in Client
        /\ \A i \in DOMAIN backlog' : i + 1 \in DOMAIN backlog /\ backlog'[i] = backlog[i + 1]
                                     /\ i + 1 # 1
        /\ \A i, j \in DOMAIN backlog' : i + 1 = j + 1 => i = j
    BY <1>1, <2>2
  <2>4. \A f \in Fd : open'[f] = IF f = fd THEN backlog[1] ELSE open[f]
    BY <1>1, <2>1, <2>3
  <2> QED
    BY <2>1, <2>2, <2>3, <2>4 DEF Connections
<1>6. ASSUME NEW n \in 1..MaxSent, ReadText(n) PROVE Connections'
  BY <1>6 DEF ReadText, Connections
<1> QED
  BY <1>2, <1>3, <1>4, <1>5, <1>6, Effects

-----------------------------------------------------------------------------
(* The order of messages                                                   *)

UpTo(s, n) == \A i \in DOMAIN s : s[i] <= n
Before(s, t) == \A i \in DOMAIN s, j \in DOMAIN t : s[i] > 0 /\ t[j] > 0 => s[i] < t[j]

Order ==
  /\ \A c \in Client : Ordered(received[c]) /\ UpTo(received[c], reads)
  /\ \A f \in Fd : Ordered(output[f]) /\ UpTo(output[f], reads)
  /\ \A f \in Fd : open[f] # NULL => Before(received[open[f]], output[f])

LEMMA Messages == Message \subseteq Int /\ welcome \in Message /\ bye \in Message
BY DEF Message, welcome, bye

LEMMA Elements ==
  ASSUME NEW s \in Seq(Message)
  PROVE  /\ Len(s) \in Nat /\ DOMAIN s = 1..Len(s)
         /\ \A i \in DOMAIN s : s[i] \in Int /\ i \in Nat
<1>1. \A i \in DOMAIN s : s[i] \in Message
  OBVIOUS
<1>2. \A m \in Message : m \in Int
  BY Messages
<1> QED
  BY <1>1, <1>2

\* What may be appended: something that is no message, or a later one.
LEMMA AppendKeepsOrder ==
  ASSUME NEW s \in Seq(Message), NEW m \in Message, NEW r \in Nat, NEW q \in Nat,
         Ordered(s), UpTo(s, r), r <= q, m <= q, m <= 0 \/ r < m
  PROVE  /\ Ordered(Append(s, m)) /\ UpTo(Append(s, m), q)
         /\ \A t \in Seq(Message) : Before(t, s) /\ UpTo(t, r) => Before(t, Append(s, m))
<1> DEFINE u == Append(s, m)
<1>1. /\ u \in Seq(Message) /\ Len(s) \in Nat /\ DOMAIN s = 1..Len(s)
      /\ DOMAIN u = 1..(Len(s) + 1)
      /\ \A i \in DOMAIN u : (i \in DOMAIN s /\ u[i] = s[i]) \/ (i = Len(s) + 1 /\ u[i] = m)
  BY AppendTypes
<1>2. m \in Int /\ \A i \in DOMAIN s : s[i] \in Int
  BY Elements, Messages
<1> HIDE DEF u
<1>3. Ordered(u)
  <2>1. ASSUME NEW i \in DOMAIN u, NEW j \in DOMAIN u, i < j, u[i] > 0, u[j] > 0
        PROVE  u[i] < u[j]
    <3>1. i \in DOMAIN s /\ u[i] = s[i]
      BY <1>1, <2>1
    <3>2. CASE j \in DOMAIN s /\ u[j] = s[j]
      BY <2>1, <3>1, <3>2 DEF Ordered
    <3>3. CASE u[j] = m
      BY <1>2, <2>1, <3>1, <3>3 DEF UpTo
    <3> QED
      BY <1>1, <3>2, <3>3
  <2> QED
    BY <2>1 DEF Ordered
<1>5. UpTo(u, q)
  BY <1>1, <1>2 DEF UpTo
<1>4. ASSUME NEW t \in Seq(Message), Before(t, s), UpTo(t, r) PROVE Before(t, u)
  <2>1. \A i \in DOMAIN t : t[i] \in Int
    BY Elements
  <2> QED
    BY <1>1, <1>2, <1>4, <2>1 DEF Before, UpTo
<1> QED
  BY <1>3, <1>4, <1>5 DEF u

\* The greeting and the farewell are no messages.
LEMMA AppendNotice ==
  ASSUME NEW s \in Seq(Message), NEW m \in {welcome, bye}, NEW r \in Nat,
         Ordered(s), UpTo(s, r)
  PROVE  /\ Append(s, m) \in Seq(Message) /\ Append(s, m) # <<>>
         /\ Ordered(Append(s, m)) /\ UpTo(Append(s, m), r)
         /\ \A t \in Seq(Message) : Before(t, s) /\ UpTo(t, r) => Before(t, Append(s, m))
<1>1. m \in Message /\ m <= 0 /\ m <= r /\ r <= r
  BY Messages DEF welcome, bye
<1> QED
  BY <1>1, AppendTypes, AppendKeepsOrder

\* The front of a queue goes to the end of what was received.
LEMMA FrontMoves ==
  ASSUME NEW s \in Seq(Message), NEW t \in Seq(Message), t # <<>>, NEW r \in Nat,
         Ordered(s), Ordered(t), Before(s, t), UpTo(s, r), UpTo(t, r)
  PROVE  /\ Ordered(Append(s, Head(t))) /\ UpTo(Append(s, Head(t)), r)
         /\ Ordered(Tail(t)) /\ UpTo(Tail(t), r)
         /\ Before(Append(s, Head(t)), Tail(t))
<1> DEFINE u == Append(s, Head(t))
           v == Tail(t)
<1>1. /\ Head(t) \in Message /\ Head(t) = t[1] /\ 1 \in DOMAIN t /\ Len(s) \in Nat
      /\ \A i \in DOMAIN v : i + 1 \in DOMAIN t /\ v[i] = t[i + 1] /\ i \in Nat /\ i > 0
  OBVIOUS
<1>2. \A i \in DOMAIN u : (i \in DOMAIN s /\ u[i] = s[i]) \/ (i = Len(s) + 1 /\ u[i] = t[1])
  BY <1>1, AppendTypes
<1>3. /\ \A i \in DOMAIN s : s[i] \in Int /\ i \in 1..Len(s)
      /\ \A i \in DOMAIN t : t[i] \in Int
      /\ \A i \in DOMAIN u : i \in Nat
  <2>1. u \in Seq(Message)
    BY <1>1, AppendTypes
  <2> QED
    BY <2>1, Elements
<1> HIDE DEF u, v
<1>4. Ordered(u) /\ UpTo(u, r)
  BY <1>1, <1>2, <1>3 DEF Ordered, UpTo, Before
<1>5. Ordered(v) /\ UpTo(v, r)
  BY <1>1, <1>3 DEF Ordered, UpTo
<1>6. Before(u, v)
  BY <1>1, <1>2, <1>3 DEF Ordered, Before
<1> QED
  BY <1>4, <1>5, <1>6 DEF u, v

LEMMA InitOrder == Init => Order
BY DEF Init, Order, Ordered, UpTo, Before

LEMMA MovedOnOrder ==
  ASSUME TypeOK, Connections, Order, NEW fd \in Fd, MovedOn(fd)
  PROVE  Order'
<1> DEFINE c == open[fd]
<1>1. /\ c \in Client /\ output \in [Fd -> Seq(Message)] /\ received \in [Client -> Seq(Message)]
      /\ reads \in Nat /\ output[fd] # <<>>
  BY DEF MovedOn, TypeOK
<1>2. /\ \A f \in Fd : output'[f] = IF f = fd THEN Tail(output[fd]) ELSE output[f]
      /\ \A d \in Client : received'[d] = IF d = c THEN Append(received[c], Head(output[fd]))
                                         ELSE received[d]
      /\ UNCHANGED <<open, reads>>
  BY <1>1 DEF MovedOn
<1>3. \A f \in Fd : f # fd => open[f] # c
  BY <1>1 DEF Connections, MovedOn
<1>4. /\ Ordered(received'[c]) /\ UpTo(received'[c], reads)
      /\ Ordered(output'[fd]) /\ UpTo(output'[fd], reads)
      /\ Before(received'[c], output'[fd])
  <2>1. Ordered(output[fd]) /\ UpTo(output[fd], reads) /\ Ordered(received[c])
        /\ UpTo(received[c], reads) /\ Before(received[c], output[fd])
    BY <1>1 DEF Order, MovedOn
  <2> QED
    BY <1>1, <1>2, <2>1, FrontMoves
<1>5. \A f \in Fd : open[f] # NULL => open[f] \in Client
  BY DEF TypeOK
<1> QED
  BY <1>1, <1>2, <1>3, <1>4, <1>5 DEF Order

LEMMA RemovedOrder ==
  ASSUME TypeOK, Connections, Order, NEW fd \in Fd, Removed(fd)
  PROVE  Order'
<1> DEFINE c == open[fd]
           queue == Append(output[fd], bye)
<1>1. /\ c \in Client /\ output \in [Fd -> Seq(Message)] /\ received \in [Client -> Seq(Message)]
      /\ reads \in Nat
  BY DEF Removed, TypeOK
<1>2. /\ \A f \in Fd : output'[f] = IF f = fd THEN <<>> ELSE output[f]
      /\ \A f \in Fd : open'[f] = IF f = fd THEN NULL ELSE open[f]
      /\ UNCHANGED reads
      /\ \A d \in Client \ {c} : received'[d] = received[d]
      /\ received'[c] = received[c] \/ received'[c] = Append(received[c], Head(queue))
  BY <1>1 DEF Removed, Erased, TypeOK
<1>3. \A f \in Fd : f # fd => open[f] # c
  BY <1>1 DEF Connections, Removed
<1>4. /\ Ordered(output[fd]) /\ UpTo(output[fd], reads)
      /\ Ordered(received[c]) /\ UpTo(received[c], reads) /\ Before(received[c], output[fd])
  BY <1>1 DEF Order, Removed
<1>5. /\ queue \in Seq(Message) /\ queue # <<>> /\ Ordered(queue) /\ UpTo(queue, reads)
      /\ Before(received[c], queue)
  BY <1>1, <1>4, AppendNotice
<1> HIDE DEF queue
<1>6. Ordered(received'[c]) /\ UpTo(received'[c], reads)
  <2>1. received[c] \in Seq(Message)
    BY <1>1
  <2>2. CASE received'[c] = Append(received[c], Head(queue))
    BY <1>1, <1>4, <1>5, <2>1, <2>2, FrontMoves
  <2> QED
    BY <1>2, <1>4, <2>2
<1>7. Ordered(<<>>) /\ UpTo(<<>>, reads)
  BY DEF Ordered, UpTo
<1>8. \A f \in Fd : open[f] # NULL => open[f] \in Client
  BY DEF TypeOK
<1> QED
  BY <1>1, <1>2, <1>3, <1>6, <1>7, <1>8 DEF Order

LEMMA GivenUpOrder ==
  ASSUME TypeOK, Order, NEW fd \in Fd, GivenUp(fd)
  PROVE  Order'
<1>1. /\ output \in [Fd -> Seq(Message)] /\ received \in [Client -> Seq(Message)] /\ reads \in Nat
      /\ open \in [Fd -> Client \cup {NULL}]
  BY DEF TypeOK
<1>2. /\ \A f \in Fd \ {fd} : output'[f] = output[f]
      /\ \A f \in Fd : open'[f] = IF f = fd THEN NULL ELSE open[f]
      /\ UNCHANGED <<reads, received>>
      /\ output'[fd] = output[fd] \/ output'[fd] = Append(output[fd], bye)
  BY <1>1 DEF GivenUp, Caught
<1>3. Ordered(output'[fd]) /\ UpTo(output'[fd], reads)
  <2>1. Ordered(output[fd]) /\ UpTo(output[fd], reads) /\ output[fd] \in Seq(Message)
    BY <1>1 DEF Order
  <2>2. CASE output'[fd] = output[fd]
    BY <2>1, <2>2
  <2>3. CASE output'[fd] = Append(output[fd], bye)
    BY <1>1, <2>1, <2>3, AppendNotice
  <2> QED
    BY <1>2, <2>2, <2>3
<1> QED
  BY <1>2, <1>3 DEF Order

LEMMA AcceptOrder == ASSUME TypeOK, Connections, Order, Accept PROVE Order'
<1>1. PICK fd \in Fd :
        /\ open' = [open EXCEPT ![fd] = Head(backlog)]
        /\ output' = [output EXCEPT ![fd] = Queue(@, welcome)]
  BY DEF Accept, Free
<1>2. backlog # <<>> /\ UNCHANGED <<reads, received>>
  BY DEF Accept
<1>3. /\ output \in [Fd -> Seq(Message)] /\ received \in [Client -> Seq(Message)] /\ reads \in Nat
      /\ open \in [Fd -> Client \cup {NULL}] /\ backlog \in Seq(Client)
  BY DEF TypeOK
<1>4. received[Head(backlog)] = <<>>
  <2>1. Head(backlog) = backlog[1] /\ 1 \in DOMAIN backlog
    BY <1>2, <1>3
  <2> QED
    BY <2>1 DEF Connections
<1>5. \A f \in Fd : /\ output'[f] = IF f = fd THEN Append(output[fd], welcome) ELSE output[f]
                    /\ open'[f] = IF f = fd THEN Head(backlog) ELSE open[f]
  BY <1>1, <1>3 DEF Queue
<1>6. Ordered(output'[fd]) /\ UpTo(output'[fd], reads)
  <2>1. Ordered(output[fd]) /\ UpTo(output[fd], reads) /\ output[fd] \in Seq(Message)
    BY <1>3 DEF Order
  <2> QED
    BY <1>3, <1>5, <2>1, AppendNotice
<1>7. Before(<<>>, output'[fd])
  BY DEF Before
<1> QED
  BY <1>2, <1>4, <1>5, <1>6, <1>7 DEF Order

LEMMA ReadTextOrder ==
  ASSUME TypeOK, Order, NEW n \in 1..MaxSent, ReadText(n)
  PROVE  Order'
<1>1. /\ output' = [fd \in Fd |-> IF fd \in Reached THEN Queue(output[fd], reads') ELSE output[fd]]
      /\ reads' = reads + 1 /\ UNCHANGED <<open, received>>
  BY DEF ReadText
<1>2. /\ output \in [Fd -> Seq(Message)] /\ received \in [Client -> Seq(Message)] /\ reads \in Nat
      /\ \A f \in Fd : open[f] # NULL => open[f] \in Client
  BY DEF TypeOK
<1>3. ASSUME NEW s \in Seq(Message), UpTo(s, reads) PROVE UpTo(s, reads')
  <2>1. \A i \in DOMAIN s : s[i] \in Int
    BY Elements
  <2> QED
    BY <1>1, <1>2, <1>3, <2>1 DEF UpTo
<1>4. ASSUME NEW f \in Fd
      PROVE  /\ Ordered(output'[f]) /\ UpTo(output'[f], reads')
             /\ open[f] # NULL => Before(received[open[f]], output'[f])
  <2>1. /\ Ordered(output[f]) /\ UpTo(output[f], reads)
        /\ open[f] # NULL => /\ Before(received[open[f]], output[f])
                             /\ UpTo(received[open[f]], reads)
    BY <1>2 DEF Order
  <2>2. reads' \in Message /\ reads' \in Nat /\ reads <= reads' /\ reads < reads' /\ reads' <= reads'
    BY <1>1, <1>2 DEF Message
  <2>3. CASE f \in Reached
    <3>1. output'[f] = Append(output[f], reads')
      BY <1>1, <2>3 DEF Queue
    <3> QED
      BY <1>2, <2>1, <2>2, <3>1, AppendKeepsOrder
  <2>4. CASE f \notin Reached
    BY <1>1, <1>2, <1>3, <2>1, <2>4
  <2> QED
    BY <2>3, <2>4
<1> QED
  BY <1>1, <1>2, <1>3, <1>4 DEF Order

LEMMA NextOrder ==
  ASSUME TypeOK, Structure, Connections, Order, Next
  PROVE  Order'
<1>1. ASSUME Still PROVE Order'
  BY <1>1 DEF Still, Order
<1>2. ASSUME NEW c \in Client, Connect(c) PROVE Order'
  BY <1>2 DEF Connect, server, Order
<1> QED
  BY <1>1, <1>2, MovedOnOrder, RemovedOrder, GivenUpOrder, AcceptOrder, ReadTextOrder, Effects

-----------------------------------------------------------------------------
(* Broadcasts are complete below the descriptors on which a write failed   *)

\* The welcome and the messages from j + 1 to r.
Full(s, j, r) ==
  /\ s \in Seq(Message) /\ j <= r /\ Len(s) = r - j + 1 /\ s[1] = welcome
  /\ \A i \in 2..Len(s) : s[i] = j + i - 1

Below(f) == \A g \in failed : f < g

Complete ==
  \A f \in Fd : Below(f) =>
    /\ open[f] = NULL => f \notin listeners /\ output[f] = <<>>
    /\ open[f] # NULL => Full(received[open[f]] \o output[f], joined[open[f]], reads)

LEMMA Concatenation ==
  ASSUME NEW s \in Seq(Message), NEW t \in Seq(Message)
  PROVE  /\ s \o t \in Seq(Message) /\ Len(s \o t) = Len(s) + Len(t)
         /\ Len(s) \in Nat /\ Len(t) \in Nat
         /\ \A i \in 1..(Len(s) + Len(t)) :
              (s \o t)[i] = IF i <= Len(s) THEN s[i] ELSE t[i - Len(s)]
OBVIOUS

LEMMA SameSeq ==
  ASSUME NEW s \in Seq(Message), NEW t \in Seq(Message), Len(s) = Len(t),
         \A i \in 1..Len(s) : s[i] = t[i]
  PROVE  s = t
OBVIOUS

LEMMA FullExtends ==
  ASSUME NEW s \in Seq(Message), NEW t \in Seq(Message), NEW j \in Nat, NEW r \in Nat,
         Full(s \o t, j, r)
  PROVE  Full(s \o Append(t, r + 1), j, r + 1)
<1> DEFINE v == s \o t
           w == s \o Append(t, r + 1)
<1>1. v \in Seq(Message) /\ r + 1 \in Message
  BY Concatenation DEF Message
<1>2. w = Append(v, r + 1)
  OBVIOUS
<1> HIDE DEF v, w
<1>3. /\ w \in Seq(Message) /\ Len(w) = Len(v) + 1 /\ w[Len(v) + 1] = r + 1
      /\ \A i \in 1..Len(v) : w[i] = v[i]
  BY <1>1, <1>2, AppendTypes
<1>4. Len(v) = r - j + 1 /\ j <= r /\ v[1] = welcome /\ \A i \in 2..Len(v) : v[i] = j + i - 1
  BY DEF Full, v
<1>5. Len(v) \in Nat /\ 1 \in 1..Len(v) /\ j <= r + 1
  BY <1>4
<1>6. Len(w) = (r + 1) - j + 1 /\ w[1] = welcome
  BY <1>3, <1>4, <1>5
<1>7. ASSUME NEW i \in 2..Len(w) PROVE w[i] = j + i - 1
  <2>1. i \in 2..Len(v) \/ i = Len(v) + 1
    BY <1>3, <1>5
  <2>2. CASE i \in 2..Len(v)
    <3>1. i \in 1..Len(v)
      BY <2>2
    <3> QED
      BY <1>3, <1>4, <2>2, <3>1
  <2>3. CASE i = Len(v) + 1
    BY <1>3, <1>4, <2>3
  <2> QED
    BY <2>1, <2>2, <2>3
<1>8. Full(w, j, r + 1)
  BY <1>3, <1>5, <1>6, <1>7 DEF Full
<1> QED
  BY <1>8 DEF w

\* What moves from a queue to the client leaves both together as they are.
LEMMA MovingKeeps ==
  ASSUME NEW s \in Seq(Message), NEW t \in Seq(Message), t # <<>>
  PROVE  Append(s, Head(t)) \o Tail(t) = s \o t
OBVIOUS

LEMMA InitComplete == Init => Complete
BY DEF Init, Complete, Below

LEMMA NextComplete ==
  ASSUME TypeOK, Structure, Connections, Complete, Next
  PROVE  Complete'
<1>1. /\ open \in [Fd -> Client \cup {NULL}] /\ backlog \in Seq(Client) /\ reads \in Nat
      /\ received \in [Client -> Seq(Message)] /\ output \in [Fd -> Seq(Message)]
      /\ joined \in [Client -> Nat] /\ listeners \subseteq Fd
  BY DEF TypeOK
<1>2. ASSUME Still \/ \E c \in Client : Connect(c) PROVE Complete'
  BY <1>2 DEF Still, Connect, server, Complete, Below
<1>3. ASSUME NEW fd \in Fd, MovedOn(fd) PROVE Complete'
  <2>1. /\ UNCHANGED <<listeners, open, joined, reads, failed>>
        /\ open[fd] \in Client /\ output[fd] # <<>>
        /\ \A f \in Fd : output'[f] = IF f = fd THEN Tail(output[fd]) ELSE output[f]
        /\ \A d \in Client : received'[d] = IF d = open[fd]
                                           THEN Append(received[open[fd]], Head(output[fd]))
                                           ELSE received[d]
    BY <1>1, <1>3 DEF MovedOn
  <2>2. received'[open[fd]] \o output'[fd] = received[open[fd]] \o output[fd]
    BY <1>1, <2>1, MovingKeeps
  <2>3. \A f \in Fd : f # fd /\ open[f] # NULL => open[f] # open[fd] /\ open[f] \in Client
    BY <1>1 DEF Connections
  <2> QED
    BY <2>1, <2>2, <2>3 DEF Complete, Below
<1>4. ASSUME NEW fd \in Fd, Removed(fd) PROVE Complete'
  <2>1. /\ UNCHANGED <<joined, reads, failed>> /\ listeners' = listeners \ {fd}
        /\ \A f \in Fd : output'[f] = IF f = fd THEN <<>> ELSE output[f]
        /\ \A f \in Fd : open'[f] = IF f = fd THEN NULL ELSE open[f]
        /\ \A d \in Client : d # open[fd] => received'[d] = received[d]
    BY <1>1, <1>4 DEF Removed, Erased
  <2>2. \A f \in Fd : f # fd /\ open[f] # NULL => open[f] # open[fd] /\ open[f] \in Client
    BY <1>1 DEF Connections
  <2> QED
    BY <2>1, <2>2 DEF Complete, Below
<1>5. ASSUME NEW fd \in Fd, GivenUp(fd) PROVE Complete'
  <2>1. /\ UNCHANGED <<listeners, received, joined, reads>> /\ failed' = failed \cup {fd}
        /\ \A f \in Fd \ {fd} : output'[f] = output[f] /\ open'[f] = open[f]
    BY <1>1, <1>5 DEF GivenUp, Caught
  <2>2. \A f \in Fd : Below(f)' => Below(f) /\ f < fd
    BY <2>1 DEF Below
  <2>3. \A f \in Fd : f < fd => f # fd
    OBVIOUS
  <2> QED
    BY <2>1, <2>2, <2>3 DEF Complete
<1>6. ASSUME Accept PROVE Complete'
  <2> DEFINE c == Head(backlog)
  <2>1. PICK fd \in Fd :
          /\ open[fd] = NULL /\ listeners' = listeners \cup {fd}
          /\ open' = [open EXCEPT ![fd] = c]
          /\ output' = [output EXCEPT ![fd] = Queue(@, welcome)]
    BY <1>6 DEF Accept, Free
  <2>2. /\ backlog # <<>> /\ joined' = [joined EXCEPT ![c] = reads]
        /\ UNCHANGED <<reads, failed, received>>
    BY <1>6 DEF Accept
  <2>3. c \in Client /\ received[c] = <<>> /\ \A f \in Fd : open[f] # c
    <3>1. c = backlog[1] /\ 1 \in DOMAIN backlog /\ c \in Client
      BY <1>1, <2>2
    <3> QED
      BY <3>1 DEF Connections
  <2> HIDE DEF c
  <2>4. /\ \A f \in Fd : open'[f] = IF f = fd THEN c ELSE open[f]
        /\ \A f \in Fd : output'[f] = IF f = fd THEN Append(output[fd], welcome) ELSE output[f]
        /\ \A d \in Client : joined'[d] = IF d = c THEN reads ELSE joined[d]
    BY <1>1, <2>1, <2>2, <2>3 DEF Queue
  <2>5. ASSUME Below(fd) PROVE Full(received'[c] \o output'[fd], reads, reads)
    <3>1. output[fd] = <<>>
      BY <2>1, <2>5 DEF Complete
    <3>2. output'[fd] = <<welcome>> /\ received'[c] = <<>>
      BY <2>2, <2>3, <2>4, <3>1
    <3>3. received'[c] \o output'[fd] = <<welcome>>
      BY <3>2
    <3>4. <<welcome>> \in Seq(Message) /\ Len(<<welcome>>) = 1 /\ <<welcome>>[1] = welcome
      BY Messages
    <3>5. reads <= reads /\ reads - reads + 1 = 1 /\ 2..1 = {}
      BY <1>1
    <3> HIDE DEF welcome
    <3> QED
      BY <3>3, <3>4, <3>5 DEF Full
  <2>6. \A f \in Fd : f # fd /\ open[f] # NULL => open[f] # c /\ open[f] \in Client
    BY <1>1, <2>3
  <2>7. ASSUME NEW f \in Fd, Below(f)
        PROVE  /\ open'[f] = NULL => f \notin listeners' /\ output'[f] = <<>>
               /\ open'[f] # NULL => Full(received'[open'[f]] \o output'[f], joined'[open'[f]], reads')
    <3>1. CASE f = fd
      <4>1. open'[f] = c /\ c # NULL /\ joined'[c] = reads /\ reads' = reads
        BY <2>2, <2>3, <2>4, <3>1
      <4> QED
        BY <2>5, <2>7, <3>1, <4>1
    <3>2. CASE f # fd
      BY <2>1, <2>2, <2>4, <2>6, <2>7, <3>2 DEF Complete
    <3> QED
      BY <3>1, <3>2
  <2>8. \A f : Below(f)' <=> Below(f)
    BY <2>2 DEF Below
  <2> QED
    BY <2>7, <2>8 DEF Complete
<1>7. ASSUME NEW n \in 1..MaxSent, ReadText(n) PROVE Complete'
  <2> SUFFICES ASSUME NEW f \in Fd, Below(f)'
               PROVE  /\ open'[f] = NULL => f \notin listeners' /\ output'[f] = <<>>
                      /\ open'[f] # NULL =>
                           Full(received'[open'[f]] \o output'[f], joined'[open'[f]], reads')
    BY DEF Complete
  <2>1. /\ output'[f] = IF f \in Reached THEN Append(output[f], reads') ELSE output[f]
        /\ reads' = reads + 1 /\ UNCHANGED <<listeners, failed, open, received, joined>>
    BY <1>7 DEF ReadText, Queue
  <2>2. Below(f)
    BY <2>1 DEF Below
  <2>3. f \in Reached <=> f \in listeners
    <3>1. ASSUME NEW g \in Stale PROVE f <= g
      <4>1. g \in Fd /\ ~ Below(g)
        BY <1>1 DEF Stale, Complete
      <4>2. PICK h \in failed : ~ g < h
        BY <4>1 DEF Below
      <4>3. f < h /\ h \in Fd
        BY <2>2, <4>2 DEF Below, TypeOK
      <4> QED
        BY <4>1, <4>2, <4>3
    <3> QED
      BY <3>1 DEF Reached
  <2>4. CASE open[f] = NULL
    BY <2>1, <2>2, <2>3, <2>4 DEF Complete
  <2>5. CASE open[f] # NULL
    <3>1. f \in listeners /\ open[f] \in Client
      BY <1>1, <2>5 DEF Structure
    <3>2. Full(received[open[f]] \o output[f], joined[open[f]], reads)
      BY <2>1, <2>2, <2>5 DEF Complete
    <3>3. Full(received[open[f]] \o Append(output[f], reads + 1), joined[open[f]], reads + 1)
      BY <1>1, <3>1, <3>2, FullExtends
    <3> QED
      BY <2>1, <2>3, <2>5, <3>1, <3>3
  <2> QED
    BY <2>4, <2>5, <2>1
<1> QED
  BY <1>2, <1>3, <1>4, <1>5, <1>6, <1>7, Effects

-----------------------------------------------------------------------------
(* The inductive invariant                                                 *)

IInv ==
  TypeOK /\ Structure /\ Arrivals /\ Races /\ Connections /\ Order /\ Complete

LEMMA NextTypes == ASSUME TypeOK, Structure, Next PROVE TypeOK'
<1>1. EventsAreCurrent /\ (at \in Fd => open[at] # NULL)
  BY DEF Structure
<1>2. ASSUME NEW n \in 1..MaxSent, ReadText(n) \/ ReadEot(n) PROVE TypeOK'
  <2>1. open[at] # NULL
    BY <1>1, <1>2 DEF ReadText, ReadEot
  <2> QED
    BY <1>2, <2>1, ReadTextTypes, ReadEotTypes
<1> QED
  BY <1>1, <1>2, ClientTypes, LoopTypes, HandleErrorTypes, HandleWritableTypes, AcceptTypes,
     ReadEndTypes DEF Next, ServerNext

LEMMA InitIInv == Init => IInv
<1> SUFFICES ASSUME Init PROVE IInv
  OBVIOUS
<1>1. Arrivals /\ Races
  BY DEF Init, Arrivals, Races, KilledOnlyInRace, Nothing
<1> QED
  BY <1>1, InitTypes, InitStructure, InitConnections, InitOrder, InitComplete DEF IInv

LEMMA NextIInv == ASSUME IInv, [Next]_vars PROVE IInv'
<1>1. CASE UNCHANGED vars
  <2> USE <1>1 DEF vars, server, network
  <2>1. TypeOK'
    BY DEF IInv, TypeOK
  <2>2. Structure' /\ Arrivals'
    BY DEF IInv, Structure, ArmedIffPending, EventsAreCurrent, Arrivals
  <2>3. Races' /\ Connections'
    BY DEF IInv, Races, KilledOnlyInRace, Fatal, Connections
  <2>4. Order' /\ Complete'
    BY DEF IInv, Order, Complete, Below
  <2> QED
    BY <2>1, <2>2, <2>3, <2>4 DEF IInv
<1>2. CASE Next
  BY <1>2, NextTypes, NextStructure, NextArrivals, NextRaces, NextConnections, NextOrder,
     NextComplete DEF IInv
<1> QED
  BY <1>1, <1>2

-----------------------------------------------------------------------------
(* The theorems.                                                           *)

(* The inductive invariant holds in every state.                           *)
THEOREM Inductive == Spec => []IInv
BY InitIInv, NextIInv, PTL DEF Spec

(* Types of the server, its clients and the network.                       *)
THEOREM TypeCorrect == Spec => []TypeOK
<1>1. IInv => TypeOK
  BY DEF IInv
<1> QED
  BY <1>1, Inductive, PTL

(* EPOLLOUT is armed exactly while a queue is not empty.                   *)
THEOREM ArmedExactly == Spec => []ArmedIffPending
<1>1. IInv => ArmedIffPending
  BY DEF IInv, Structure
<1> QED
  BY <1>1, Inductive, PTL

(* No event of a batch is stale when its turn comes: flush() finds a queue  *)
(* that is not empty.                                                      *)
THEOREM EventsCurrent == Spec => []EventsAreCurrent
<1>1. IInv => EventsAreCurrent
  BY DEF IInv, Structure
<1> QED
  BY <1>1, Inductive, PTL

(* The server waits with connections left behind only if descriptors ran   *)
(* out.                                                                    *)
THEOREM AcceptsAll == Spec => []NoneLeftBehind
<1>1. IInv => NoneLeftBehind
  BY DEF IInv, Structure, Arrivals, NoneLeftBehind, Nothing
<1> QED
  BY <1>1, Inductive, PTL

(* SIGPIPE kills the server only if a connection broke after it was        *)
(* reported.                                                               *)
THEOREM SingleCauseOfDeath == Spec => []KilledOnlyInRace
<1>1. IInv => KilledOnlyInRace
  BY DEF IInv, Races
<1> QED
  BY <1>1, Inductive, PTL

(* Clients get messages in the order of reading, none of them twice.       *)
THEOREM ReadingOrder == Spec => []InReadingOrder
<1>1. ASSUME IInv PROVE InReadingOrder
  <2>1. Order /\ TypeOK
    BY <1>1 DEF IInv
  <2>2. ASSUME NEW fd \in Fd, open[fd] # NULL PROVE Ordered(received[open[fd]] \o output[fd])
    <3> DEFINE s == received[open[fd]]
               t == output[fd]
    <3>1. s \in Seq(Message) /\ t \in Seq(Message) /\ open[fd] \in Client
      BY <2>1, <2>2 DEF TypeOK
    <3>2. Ordered(s) /\ Ordered(t) /\ Before(s, t)
      BY <2>1, <2>2, <3>1 DEF Order
    <3> HIDE DEF s, t
    <3>3. /\ DOMAIN (s \o t) = 1..(Len(s) + Len(t)) /\ Len(s) \in Nat /\ Len(t) \in Nat
          /\ DOMAIN s = 1..Len(s) /\ DOMAIN t = 1..Len(t)
          /\ \A i \in 1..(Len(s) + Len(t)) :
               (s \o t)[i] = IF i <= Len(s) THEN s[i] ELSE t[i - Len(s)]
      BY <3>1, Concatenation
    <3>4. Ordered(s \o t)
      <4> SUFFICES ASSUME NEW i \in 1..(Len(s) + Len(t)), NEW j \in 1..(Len(s) + Len(t)), i < j,
                          (s \o t)[i] > 0, (s \o t)[j] > 0
                   PROVE  (s \o t)[i] < (s \o t)[j]
        BY <3>3 DEF Ordered
      <4>1. CASE j <= Len(s)
        BY <3>2, <3>3, <4>1 DEF Ordered
      <4>2. CASE i <= Len(s) /\ j > Len(s)
        <5>1. j - Len(s) \in 1..Len(t) /\ i \in 1..Len(s)
          BY <3>3, <4>2
        <5> QED
          BY <3>2, <3>3, <4>2, <5>1 DEF Before
      <4>3. CASE i > Len(s)
        <5>1. /\ i - Len(s) \in 1..Len(t) /\ j - Len(s) \in 1..Len(t) /\ i - Len(s) < j - Len(s)
              /\ ~ i <= Len(s) /\ ~ j <= Len(s)
          BY <3>3, <4>3
        <5> QED
          BY <3>2, <3>3, <5>1 DEF Ordered
      <4> QED
        BY <3>3, <4>1, <4>2, <4>3
    <3> QED
      BY <3>4 DEF s, t
  <2> QED
    BY <2>1, <2>2 DEF Order, InReadingOrder
<1> QED
  BY <1>1, Inductive, PTL

(* Every client below the descriptors on which a write() failed has got, or *)
(* has in its queue, each message read since it was accepted.               *)
THEOREM BroadcastsComplete == Spec => []BroadcastUnlessFailed
<1>1. ASSUME IInv, NEW fd \in Fd, open[fd] # NULL, Below(fd)
      PROVE  received[open[fd]] \o output[fd] =
               <<welcome>> \o [i \in 1..(reads - joined[open[fd]]) |-> joined[open[fd]] + i]
  <2> DEFINE s == received[open[fd]] \o output[fd]
             j == joined[open[fd]]
             n == reads - j
             m == [i \in 1..n |-> j + i]
  <2>1. Full(s, j, reads) /\ j \in Nat /\ reads \in Nat
    BY <1>1 DEF IInv, Complete, TypeOK
  <2> HIDE DEF s, j
  <2>2. /\ s \in Seq(Message) /\ n \in Nat /\ Len(s) = n + 1 /\ s[1] = welcome
        /\ \A i \in 2..(n + 1) : s[i] = j + i - 1
    BY <2>1 DEF Full
  <2> HIDE DEF n
  <2>3. m \in Seq(Message) /\ Len(m) = n /\ <<welcome>> \in Seq(Message) /\ Len(<<welcome>>) = 1
    <3>1. \A i \in 1..n : j + i \in Message
      BY <2>1, <2>2 DEF Message
    <3> QED
      BY <2>2, <3>1, Messages
  <2> DEFINE w == <<welcome>>
  <2>4. /\ w \o m \in Seq(Message) /\ Len(w \o m) = 1 + n /\ w[1] = welcome
        /\ \A i \in 1..(1 + n) : (w \o m)[i] = IF i <= 1 THEN w[i] ELSE m[i - 1]
    <3>1. w \in Seq(Message) /\ Len(w) = 1 /\ w[1] = welcome
      BY <2>3
    <3>2. m \in Seq(Message) /\ Len(m) = n
      BY <2>3
    <3> HIDE DEF w, m
    <3>3. /\ w \o m \in Seq(Message) /\ Len(w \o m) = Len(w) + Len(m)
          /\ \A i \in 1..(Len(w) + Len(m)) :
               (w \o m)[i] = IF i <= Len(w) THEN w[i] ELSE m[i - Len(w)]
      BY <3>1, <3>2, Concatenation, Zenon
    <3> QED
      BY <3>1, <3>2, <3>3
  <2> HIDE DEF w, m
  <2>5. ASSUME NEW i \in 1..(n + 1) PROVE (w \o m)[i] = s[i]
    <3>1. CASE i = 1
      BY <2>2, <2>4, <3>1
    <3>2. CASE i > 1
      <4>1. i - 1 \in 1..n /\ i \in 2..(n + 1) /\ i \in 1..(1 + n) /\ ~ i <= 1
        BY <2>2, <3>2
      <4>2. m[i - 1] = j + (i - 1)
        BY <4>1 DEF m
      <4>3. s[i] = j + i - 1
        BY <2>2, <4>1
      <4> QED
        BY <2>1, <2>4, <4>1, <4>2, <4>3
    <3>3. i = 1 \/ i > 1
      BY <2>2
    <3> QED
      BY <3>1, <3>2, <3>3
  <2>6. s = w \o m
    <3>1. Len(s) = Len(w \o m) /\ \A i \in 1..Len(s) : s[i] = (w \o m)[i]
      BY <2>2, <2>4, <2>5
    <3> QED
      BY <2>2, <2>4, <3>1, SameSeq
  <2> QED
    BY <2>6 DEF s, j, n, w, m
<1>2. IInv => BroadcastUnlessFailed
  BY <1>1 DEF BroadcastUnlessFailed, Below
<1> QED
  BY <1>2, Inductive, PTL
=============================================================================
