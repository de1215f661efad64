---------------------------- MODULE MCChatServer ----------------------------
(* ChatServer with interchangeable clients, for TLC.                       *)
EXTENDS ChatServer, TLC

\* No definition of ChatServer singles out a client.
Clients == Permutations(Client)

\* Bound on how many clients leave or lose their connection.
CONSTANT MaxGone
FewGone == Cardinality({c \in Client : broken[c] \/ sent[c] > MaxSent}) <= MaxGone

\* Bound on how many clients send or leave.
CONSTANT MaxTalkers
FewTalkers == Cardinality({c \in Client : sent[c] > 0}) <= MaxTalkers

\* Bound on how many clients at a time do not read.
CONSTANT MaxFull
FewFull == Cardinality(full) <= MaxFull

\* SIGINT is followed no further: after it the server only goes on as before or
\* ends, which is the subject of ChatServerLive.
Running == ~ sigint
=============================================================================
