----------------------------- MODULE ChatServer -----------------------------
(***************************************************************************)
(* The chat server of homework/04-epoll: its event loop, the Listener       *)
(* objects with their output queues, and the sockets and the epoll instance *)
(* as the server uses them.  Clients connect, send, leave and reset their   *)
(* connections at any time, also between the events of one batch; they need  *)
(* not read what the server writes, so that send buffers get full.          *)
(*                                                                         *)
(* A message is what one read() returned, identified by its place in the    *)
(* order of reading; writing it takes one or two calls of write().          *)
(***************************************************************************)
EXTENDS Integers, FiniteSets, Sequences

CONSTANTS
  Client,   \* clients, each of which connects at most once
  NULL,
  Fd,       \* descriptors that accept() may return
  MaxSent   \* bound: how many pieces of data a client sends

ASSUME FdAssumption == Fd \subseteq Nat \ {0} /\ IsFiniteSet(Fd)
ASSUME ClientAssumption == NULL \notin Client /\ MaxSent \in Nat

VARIABLES
  listeners,   \* keys of the map listeners
  output,      \* Listener::output, the messages
  written,     \* WriteTask::written of the front, in halves of a message
  open,        \* the connection behind a descriptor, NULL when it is closed
  interest,    \* events epoll watches on a descriptor
  batch,       \* events of the latest epoll_wait() not handled yet
  at,          \* the descriptor it accepts on or reads from, or one of the
               \* places below
  sigint,      \* SIGINT arrived
  backlog,     \* connections that accept() has not returned yet
  edge,        \* a connection arrived since the last report (EPOLLET)
  inbox,       \* data of a client not read yet
  known,       \* clients that have connected
  broken,      \* the client reset its connection
  full,        \* clients that do not read: the send buffer of their socket is full
  sent,        \* how many pieces of data a client has sent
  received,    \* messages written to the socket of a client
  joined,      \* how many messages had been read when it was accepted
  reads,       \* how many messages were read so far
  failed,      \* descriptors on which some write() failed
  refused,     \* the latest accept() failed for want of descriptors
  late         \* clients whose connection broke since the latest epoll_wait()

server == <<listeners, output, written, interest, batch, at, reads, failed, refused, sigint>>
network == <<backlog, edge, inbox, known, broken, sent, late>>
vars == <<server, network, open, received, joined, full>>

master == 0
polling == -1   \* between two events of a batch, or behind the last one
waiting == -2   \* in epoll_wait()
ended == -3
killed == -4    \* by SIGPIPE
welcome == 0
bye == -1
Message == {welcome, bye} \cup Nat
Data == {"text", "eot", "fin"}

TypeOK ==
  /\ listeners \subseteq Fd
  /\ output \in [Fd -> Seq(Message)]
  /\ written \in [Fd -> 0..1]
  /\ open \in [Fd -> Client \cup {NULL}]
  /\ interest \in [Fd -> {"none", "in", "inout"}]
  /\ DOMAIN batch \subseteq Fd \cup {master}
  /\ \A fd \in DOMAIN batch : batch[fd] \in {"in", "out", "err"}
  /\ at \in Fd \cup {master, polling, waiting, ended, killed}
  /\ sigint \in BOOLEAN /\ refused \in BOOLEAN /\ late \subseteq Client
  /\ backlog \in Seq(Client) /\ edge \in BOOLEAN
  /\ known \subseteq Client
  /\ inbox \in [Client -> Seq(Data)] /\ broken \in [Client -> BOOLEAN]
  /\ sent \in [Client -> 0..MaxSent + 1]
  /\ received \in [Client -> Seq(Message)]
  /\ joined \in [Client -> Nat] /\ reads \in Nat /\ failed \subseteq Fd
  /\ full \subseteq Client

Nothing == [fd \in {} |-> "in"]

Init ==
  /\ listeners = {}
  /\ output = [fd \in Fd |-> <<>>] /\ written = [fd \in Fd |-> 0]
  /\ open = [fd \in Fd |-> NULL] /\ interest = [fd \in Fd |-> "none"]
  /\ batch = Nothing /\ at = polling /\ sigint = FALSE
  /\ backlog = <<>> /\ edge = FALSE
  /\ inbox = [c \in Client |-> <<>>] /\ known = {}
  /\ broken = [c \in Client |-> FALSE] /\ sent = [c \in Client |-> 0]
  /\ received = [c \in Client |-> <<>>] /\ joined = [c \in Client |-> 0]
  /\ reads = 0 /\ failed = {} /\ refused = FALSE /\ late = {} /\ full = {}

-----------------------------------------------------------------------------
(* Clients                                                                 *)

Connected(c) == (\E i \in DOMAIN backlog : backlog[i] = c) \/ (\E fd \in Fd : open[fd] = c)

Connect(c) ==
  /\ c \notin known
  /\ known' = known \cup {c}
  /\ backlog' = Append(backlog, c) /\ edge' = TRUE
  /\ UNCHANGED <<server, open, received, joined, full, inbox, broken, sent, late>>

\* A client sends text or EOT (Ctrl+D).
Say(c, data) ==
  /\ Connected(c) /\ ~ broken[c] /\ sent[c] < MaxSent
  /\ inbox' = [inbox EXCEPT ![c] = Append(@, data)]
  /\ sent' = [sent EXCEPT ![c] = @ + 1]
  /\ UNCHANGED <<server, open, received, joined, full, backlog, edge, known, broken, late>>

\* A client closes its side of the connection.
Leave(c) ==
  /\ Connected(c) /\ ~ broken[c] /\ sent[c] <= MaxSent
  /\ inbox' = [inbox EXCEPT ![c] = Append(@, "fin")]
  /\ sent' = [sent EXCEPT ![c] = MaxSent + 1]
  /\ UNCHANGED <<server, open, received, joined, full, backlog, edge, known, broken, late>>

\* The connection is reset.
Break(c) ==
  /\ Connected(c) /\ ~ broken[c]
  /\ broken' = [broken EXCEPT ![c] = TRUE]
  /\ late' = late \cup {c}
  /\ UNCHANGED <<server, open, received, joined, full, backlog, edge, inbox, known, sent>>

\* A client reads what was written to its socket.
Drain(c) ==
  /\ Connected(c) /\ ~ broken[c] /\ c \in full
  /\ full' = full \ {c}
  /\ UNCHANGED <<server, network, open, received, joined>>

\* SIGINT: epoll_wait() is interrupted and returns without events, unless the
\* signal came before the process waits in it.
Interrupt ==
  /\ at \notin {ended, killed}
  /\ sigint' = TRUE
  /\ at' \in IF at = waiting THEN {waiting, polling} ELSE {at}
  /\ UNCHANGED <<listeners, output, written, interest, batch, reads, failed, refused,
                 network, open, received, joined, full>>

ClientNext ==
  \E c \in Client :
    \/ Connect(c)
    \/ \E data \in {"text", "eot"} : Say(c, data)
    \/ Leave(c)
    \/ Break(c)
    \/ Drain(c)

-----------------------------------------------------------------------------
(* Listeners                                                               *)

\* Mutant of Erased: the entry of the map stays behind.
ErasedSocketOnly(fd) ==
  /\ listeners' = listeners
  /\ output' = output /\ written' = written
  /\ open' = [open EXCEPT ![fd] = NULL]
  /\ interest' = [interest EXCEPT ![fd] = "none"]
  /\ full' = full \ {open[fd]}

\* listeners.erase(fd): the destructor closes the socket.
Erased(fd) ==
  /\ listeners' = listeners \ {fd}
  /\ output' = [output EXCEPT ![fd] = <<>>]
  /\ written' = [written EXCEPT ![fd] = 0]
  /\ open' = [open EXCEPT ![fd] = NULL]
  /\ interest' = [interest EXCEPT ![fd] = "none"]
  /\ full' = full \ {open[fd]}

\* catch (ListenerException&): the socket is closed, the entry stays.
Caught(fd) ==
  /\ open' = [open EXCEPT ![fd] = NULL]
  /\ interest' = [interest EXCEPT ![fd] = "none"]
  /\ full' = full \ {open[fd]}
  /\ failed' = failed \cup {fd}

\* Mutant of InterestAfter: events are no longer wanted once a message is out.
InterestAlwaysIn(fd, out) == "in"

\* Mutant of InterestAfter: events stay as they are.
InterestKept(fd, out) == interest[fd]

\* Mutant of InterestAfter: the next write is armed without reading.
InterestOutOnly(fd, out) == IF out = <<>> THEN "in" ELSE "out"

\* The events flush() leaves armed with the messages out in the queue.
InterestAfter(fd, out) == IF out = <<>> THEN "in" ELSE interest[fd]

\* Mutant of Queue: newer messages go to the front.
QueueFront(out, m) == <<m>> \o out

\* put(): the message goes to the end of the queue.
Queue(out, m) == Append(out, m)

\* flush() on descriptor fd: write() takes half of the message at the front,
\* which fills the buffer of the socket, or all of what remains of it.
Flush(fd) ==
  \/ /\ written[fd] = 0
     /\ written' = [written EXCEPT ![fd] = 1]
     /\ full' = full \cup {open[fd]}
     /\ UNCHANGED <<output, interest, received>>
  \/ /\ written' = [written EXCEPT ![fd] = 0]
     /\ output' = [output EXCEPT ![fd] = Tail(@)]
     /\ interest' = [interest EXCEPT ![fd] = InterestAfter(fd, output'[fd])]
     /\ received' = [received EXCEPT ![open[fd]] = Append(@, Head(output[fd]))]
     /\ full' \in {full, full \cup {open[fd]}}

-----------------------------------------------------------------------------
(* The event loop                                                          *)

\* EPOLLOUT is wanted on fd, and there is room in the send buffer.
Writable(fd) == interest[fd] = "inout" /\ open[fd] \notin full

\* Mutant of Kind: EPOLLOUT is looked at before the errors.
KindOutFirst(fd) ==
  IF Writable(fd) THEN "out" ELSE IF broken[open[fd]] THEN "err" ELSE "in"

\* What epoll_wait() reports on fd, as main() looks at it: reading comes last,
\* also while messages for a full socket are queued.
Kind(fd) ==
  IF broken[open[fd]] THEN "err" ELSE IF Writable(fd) THEN "out" ELSE "in"

Ready ==
  {fd \in Fd : open[fd] # NULL /\
                (broken[open[fd]] \/ Writable(fd) \/ inbox[open[fd]] # <<>>)}

\* Mutant of Goes: the flag is read once, before the loop.
GoesOn == TRUE

\* while (!sigint)
Goes == ~ sigint

Test ==
  /\ at = polling /\ batch = Nothing
  /\ at' = IF Goes THEN waiting ELSE ended
  /\ UNCHANGED <<listeners, output, written, interest, batch, reads, failed, refused,
                 sigint, network, open, received, joined, full>>

EpollWait ==
  /\ at = waiting
  /\ Ready # {} \/ edge
  /\ batch' = [fd \in Ready \cup (IF edge THEN {master} ELSE {}) |->
                 IF fd = master THEN "in" ELSE Kind(fd)]
  /\ at' = polling /\ edge' = FALSE /\ late' = {}
  /\ UNCHANGED <<listeners, output, written, interest, reads, failed, refused, sigint,
                 open, backlog, inbox, known, broken, sent, received, joined, full>>

\* The next event is one of the batch.
Take(fd, kind) ==
  /\ at = polling /\ fd \in DOMAIN batch /\ batch[fd] = kind
  /\ batch' = [f \in DOMAIN batch \ {fd} |-> batch[f]]

HandleError(fd) ==
  /\ Take(fd, "err")
  /\ Erased(fd)
  /\ UNCHANGED <<at, reads, failed, refused, sigint, network, received, joined>>

\* A write() to a connection that was reset fails, or raises SIGPIPE if the peer
\* had closed its side before.
Fatal(c) == broken[c] /\ sent[c] > MaxSent

\* The write() in flush() fails: the connection broke, or the buffer is full.
Fails(c) == (broken[c] \/ c \in full) /\ ~ Fatal(c)

\* EPOLLOUT: flush(), which throws when the connection broke since.
HandleWritable(fd) ==
  /\ Take(fd, "out")
  /\ \/ /\ ~ broken[open[fd]] /\ open[fd] \notin full
        /\ Flush(fd)
        /\ UNCHANGED <<at, open, failed>>
     \/ /\ Fails(open[fd])
        /\ Caught(fd)
        /\ UNCHANGED <<at, output, written, received>>
     \/ /\ Fatal(open[fd])
        /\ at' = killed
        /\ UNCHANGED <<output, written, interest, open, failed, received, full>>
  /\ UNCHANGED <<listeners, reads, refused, sigint, network, joined>>

StartAccept ==
  /\ Take(master, "in")
  /\ at' = master
  /\ UNCHANGED <<listeners, output, written, interest, reads, failed, refused, sigint,
                 network, open, received, joined, full>>

Free == {fd \in Fd : open[fd] = NULL}

\* accept() returns the lowest free descriptor.  The Listener that the map may
\* still have under it is assigned to; its queue stays.  put() arms EPOLLOUT.
Accept ==
  /\ at = master /\ backlog # <<>>
  /\ \E fd \in Free :
       /\ \A f \in Free : fd <= f
       /\ listeners' = listeners \cup {fd}
       /\ open' = [open EXCEPT ![fd] = Head(backlog)]
       /\ output' = [output EXCEPT ![fd] = Queue(@, welcome)]
       /\ interest' = [interest EXCEPT ![fd] = "inout"]
  /\ joined' = [joined EXCEPT ![Head(backlog)] = reads]
  /\ backlog' = Tail(backlog)
  /\ UNCHANGED <<written, batch, at, reads, failed, refused, sigint, edge, inbox, known,
                 broken, sent, late, received, full>>

\* Mutant of StopAccept: not every waiting connection is accepted.
StopAcceptEarly ==
  /\ at = master
  /\ at' = polling /\ refused' = FALSE
  /\ UNCHANGED <<listeners, output, written, interest, batch, reads, failed, sigint,
                 network, open, received, joined, full>>

\* accept() fails, as there is no connection or no descriptor left.
StopAccept ==
  /\ at = master /\ (backlog = <<>> \/ Free = {})
  /\ at' = polling /\ refused' = (backlog # <<>>)
  /\ UNCHANGED <<listeners, output, written, interest, batch, reads, failed, sigint,
                 network, open, received, joined, full>>

StartRead(fd) ==
  /\ fd \in Fd /\ Take(fd, "in")
  /\ at' = fd
  /\ UNCHANGED <<listeners, output, written, interest, reads, failed, refused, sigint,
                 network, open, received, joined, full>>

\* The loop over all listeners stops at the first one whose socket is closed,
\* where put() throws after it queued the message.
Stale == {fd \in listeners : open[fd] = NULL}
Reached == {fd \in listeners : \A f \in Stale : fd <= f}

\* read() returned n pieces of data at once, beginning with text: they are one
\* message to all listeners, and reading goes on unless put() throws.
ReadText(n) ==
  /\ at \in Fd
  /\ LET c == open[at] IN
     /\ n \in 1..Len(inbox[c]) /\ inbox[c][1] = "text" /\ inbox[c][n] # "fin"
     /\ inbox' = [inbox EXCEPT ![c] = SubSeq(@, n + 1, Len(@))]
  /\ reads' = reads + 1
  /\ output' = [fd \in Fd |->
                  IF fd \in Reached THEN Queue(output[fd], reads') ELSE output[fd]]
  /\ interest' = [fd \in Fd |-> IF fd \in Reached \ Stale THEN "inout" ELSE interest[fd]]
  /\ at' = IF Stale = {} THEN at ELSE polling
  /\ UNCHANGED <<listeners, written, batch, failed, refused, sigint, open, backlog, edge,
                 known, broken, sent, late, received, joined, full>>

\* EOT first: the farewell is queued, flush() writes some or all of the front of
\* the queue, or throws, as the socket was not reported writable; the client is
\* removed.
ReadEot(n) ==
  /\ at \in Fd
  /\ LET c == open[at]
         queue == Queue(output[at], bye) IN
     /\ n \in 1..Len(inbox[c]) /\ inbox[c][1] = "eot" /\ inbox[c][n] # "fin"
     /\ inbox' = [inbox EXCEPT ![c] = SubSeq(@, n + 1, Len(@))]
     /\ \/ /\ Fails(c)
           /\ Caught(at)
           /\ at' = polling
           /\ output' = [output EXCEPT ![at] = queue]
           /\ UNCHANGED <<listeners, written, received>>
        \/ /\ ~ broken[c]
           /\ Erased(at)
           /\ at' = polling
           /\ received' \in {received, [received EXCEPT ![c] = Append(@, Head(queue))]}
           /\ UNCHANGED failed
        \/ /\ Fatal(c)
           /\ at' = killed
           /\ UNCHANGED <<listeners, output, written, interest, open, failed, received,
                          full>>
  /\ UNCHANGED <<batch, reads, refused, sigint, backlog, edge, known, broken, sent, late,
                 joined>>

\* End of file, or an error: the client is removed.
ReadEnd ==
  /\ at \in Fd
  /\ LET data == inbox[open[at]] IN
     IF data = <<>> THEN broken[open[at]] ELSE data[1] = "fin"
  /\ Erased(at)
  /\ at' = polling
  /\ UNCHANGED <<batch, reads, failed, refused, sigint, network, received, joined>>

\* EAGAIN.
ReadNothing ==
  /\ at \in Fd /\ inbox[open[at]] = <<>> /\ ~ broken[open[at]]
  /\ at' = polling
  /\ UNCHANGED <<listeners, output, written, interest, batch, reads, failed, refused,
                 sigint, network, open, received, joined, full>>

ServerNext ==
  \/ Test \/ EpollWait
  \/ \E fd \in Fd : HandleError(fd) \/ HandleWritable(fd) \/ StartRead(fd)
  \/ StartAccept \/ Accept \/ StopAccept
  \/ \E n \in 1..MaxSent : ReadText(n) \/ ReadEot(n)
  \/ ReadEnd \/ ReadNothing

Next == ClientNext \/ Interrupt \/ ServerNext

Spec == Init /\ [][Next]_vars

\* The server process runs; clients owe nothing.
FairSpec == Spec /\ WF_vars(ServerNext)

-----------------------------------------------------------------------------
(* Properties                                                              *)

\* The messages, which are above 0, are in the order of reading.
Ordered(s) == \A i, j \in DOMAIN s : i < j /\ s[i] > 0 /\ s[j] > 0 => s[i] < s[j]

\* Nobody gets messages twice or in another order than they were read in, over
\* partial writes, failures and the reuse of descriptors.
InReadingOrder ==
  /\ \A c \in Client : Ordered(received[c])
  /\ \A fd \in Fd : open[fd] # NULL => Ordered(received[open[fd]] \o output[fd])

\* An event that waits to be handled concerns a connection that is open, and a
\* writable one that has something to write: flush() never looks at the front
\* of an empty queue and listeners[fd] never makes a Listener without socket.
EventsAreCurrent ==
  \A fd \in DOMAIN batch \ {master} :
    /\ open[fd] # NULL /\ fd \in listeners
    /\ batch[fd] = "out" => output[fd] # <<>>

\* EPOLLOUT is armed exactly while there is something to write.
ArmedIffPending ==
  \A fd \in Fd : open[fd] # NULL => (interest[fd] = "inout" <=> output[fd] # <<>>)

\* A failed write() harms only clients on its descriptor or higher ones, for
\* ever: every other client has got, or has in its queue, the welcome and each
\* message read since it was accepted, and nothing else.
BroadcastUnlessFailed ==
  \A fd \in Fd : open[fd] # NULL /\ (\A f \in failed : fd < f) =>
    received[open[fd]] \o output[fd] =
      <<welcome>> \o [i \in 1..(reads - joined[open[fd]]) |-> joined[open[fd]] + i]

Over == at \in {ended, killed}

\* The server waits while connections are left behind only if descriptors ran
\* out: the master socket reports each arrival once (EPOLLET).
NoneLeftBehind == at = waiting /\ ~ edge /\ backlog # <<>> => refused

\* SIGPIPE, which a client can cause that closes its side and then resets the
\* connection, ends the server only if the reset arrives between the report of
\* epoll_wait() and the write().
KilledOnlyInRace == at = killed => \E c \in late : Fatal(c)

Queued(c) == \E fd \in Fd : open[fd] = c /\ output[fd] # <<>>
Gone(c) == \A fd \in Fd : open[fd] # c

\* What a client sends is read, even while it does not read itself, and what is
\* queued for a client that reads again and again is written, whatever the others
\* do, unless its connection or the server ends: no event is lost.
ServesEveryone ==
  \A c \in Client :
    /\ inbox[c] # <<>> ~> inbox[c] = <<>> \/ Gone(c) \/ Over
    /\ []<>(c \notin full) => (Queued(c) ~> ~ Queued(c) \/ Over)

\* Every connection is accepted, as long as descriptors do not run out and the
\* server goes on.
AcceptsEveryone ==
  Cardinality(Fd) >= Cardinality(Client) =>
    \A c \in Client :
      (\E i \in DOMAIN backlog : backlog[i] = c) ~> Over \/ (\E fd \in Fd : open[fd] = c)

\* SIGINT ends the server when it meets the next event at the latest; a signal
\* just before epoll_wait() is not noticed sooner.
ShutsDown == sigint /\ (Ready # {} \/ edge) ~> Over
=============================================================================
