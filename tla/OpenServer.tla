----------------------------- MODULE OpenServer -----------------------------
(***************************************************************************)
(* The open server of ipc2/opend and its clients (ipc2/open): a client     *)
(* sends the name of a file over a UNIX domain socket and receives an open *)
(* descriptor or an error.  loop says which of the two loops is linked     *)
(* with the server, loop.poll.c or loop.select.c.  Arrays start at 1.      *)
(***************************************************************************)
EXTENDS Integers, Sequences, SequencesExt

CONSTANTS
  Client,      \* client processes, numbered as they connect; each is its own user
  NALLOC,      \* entries that the arrays grow by
  MaxAsk       \* bound: requests made by all clients together

VARIABLES
  loop, pc,    \* the loop in use; where the server is in it, or "dead"
  i,           \* the entry that the loop is at
  client,      \* client[]: fd (NoFd if free) and uid
  pollfd, numfd,             \* loop.poll.c: fd and revents, entries in use
  allset, rset, maxfd, maxi, \* loop.select.c
  errmsg,      \* the request that errmsg is about
  fdof,        \* the server's descriptor of each accepted connection
  backlog,     \* connections not accepted yet
  inbox,       \* what the server can read from a client, piece by piece
  outbox,      \* what a client can receive
  st, asked,   \* each client: new, idle, waiting for an answer, gone
  asks,        \* requests made
  odd, misled, \* clients with a request like Odd; with the answer to another
  packed, wronguid           \* pollfd[] was packed; a uid was not the client's

vars == <<loop, pc, i, client, pollfd, numfd, allset, rset, maxfd, maxi, errmsg,
          fdof, backlog, inbox, outbox, st, asked, asks, odd, misled, packed, wronguid>>
pollvars == <<pollfd, numfd>>
selectvars == <<allset, rset, maxfd, maxi>>
server == <<loop, pc, i, client, pollvars, selectvars, errmsg, fdof, packed, wronguid>>
people == <<st, asked, asks, odd, misled>>

NoFd == -1
ListenFd == 0
Nothing == "nothing"

\* A name that opens; one that does not; one too long for one read; too many words.
Requests == {"file", "missing", "long", "many"}
Odd == {"long", "many"}

\* csopen sends the request with one writev; a read takes at most MAXLINE bytes.
Sent(r) == IF r = "long" THEN <<"head", "rest">> ELSE <<r>>
\* The request that a piece belongs to.
Of(piece) == IF piece \in {"head", "rest"} THEN "long" ELSE piece
-----------------------------------------------------------------------------
FreeEntry == [fd |-> NoFd, uid |-> 0]
client_alloc == [k \in 1..NALLOC |-> FreeEntry]

IsFree(e) == e.fd = NoFd
client_addKeep(array, fd, uid) ==
  LET room == IF SelectInSeq(array, IsFree) = 0 THEN array \o client_alloc ELSE array
  IN [room EXCEPT ![SelectInSeq(room, IsFree)].fd = fd]
client_add(array, fd, uid) ==
  LET room == IF SelectInSeq(array, IsFree) = 0 THEN array \o client_alloc ELSE array
  IN [room EXCEPT ![SelectInSeq(room, IsFree)] = [fd |-> fd, uid |-> uid]]

client_del(array, fd) ==
  LET Has(e) == e.fd = fd
  IN [array EXCEPT ![SelectInSeq(array, Has)].fd = NoFd]

NewPollfd == [fd |-> NoFd, revents |-> "none"]
grow_pollfd(array) == array \o [k \in 1..NALLOC |-> NewPollfd]

Peer(fd) == CHOOSE c \in Client : fdof[c] = fd
LowestFd == CHOOSE f \in 1..Len(client) + 1 :
              /\ \A c \in Client : fdof[c] # f
              /\ \A g \in 1..f - 1 : \E c \in Client : fdof[c] = g

\* A name in the file system that clients connect to.
serv_listen == backlog = <<>>

PollInit == pollfd = [grow_pollfd(<<>>) EXCEPT ![1].fd = ListenFd] /\ numfd = 1
SelectInit == allset = {ListenFd} /\ rset = {} /\ maxfd = ListenFd /\ maxi = 0

Init ==
  /\ loop \in {"poll", "select"} /\ pc = "wait" /\ i = 1 /\ errmsg = Nothing
  /\ client = IF loop = "poll" THEN client_add(client_alloc, ListenFd, 0) ELSE client_alloc
  /\ PollInit /\ SelectInit /\ serv_listen
  /\ packed = FALSE /\ wronguid = FALSE /\ fdof = [c \in Client |-> NoFd]
  /\ inbox = [c \in Client |-> <<>>] /\ outbox = [c \in Client |-> <<>>]
  /\ st \in [Client -> {"new", "gone"}] /\ asked = [c \in Client |-> Nothing]
  /\ asks \in 0..MaxAsk /\ odd = {} /\ misled = {}
-----------------------------------------------------------------------------
(***************************************************************************)
(* What a client can receive: text of an error, the two bytes of send_fd   *)
(* with a status, the same with a descriptor.                              *)
(***************************************************************************)
Chunk(kind, r) == [kind |-> kind, of |-> r]
send_fd(r) == <<Chunk("fd", r)>>
send_err(r, msg) ==
  (IF msg = Nothing THEN <<>> ELSE <<Chunk("text", msg)>>) \o <<Chunk("status", r)>>

\* The three words of a request: "open", the name and the flags.
cli_args(piece) == piece \in {"file", "missing"}
\* Too many words, or not the right ones.
buf_args(piece) == piece # "many" /\ cli_args(piece)
\* The request that errmsg is about next: buf_args itself never writes to it.
Complaint(piece) == IF piece = "many" THEN errmsg ELSE Of(piece)

(***************************************************************************)
(* handle_request: what was read is answered; a client that is gone turns  *)
(* the answer into a SIGPIPE that the server does not catch.               *)
(***************************************************************************)
handle_request(c, uid) ==
  LET piece == Head(inbox[c])
      opened == piece # "head" /\ buf_args(piece) /\ piece # "missing" IN
  /\ inbox' = [inbox EXCEPT ![c] = IF piece = "head" THEN Tail(@) ELSE <<>>]
  /\ wronguid' = (wronguid \/ uid # c)
  /\ errmsg' = IF opened THEN errmsg ELSE Complaint(piece)
  /\ IF st[c] = "gone" THEN pc' = "dead" /\ UNCHANGED <<i, outbox>>
     ELSE /\ outbox' = [outbox EXCEPT ![c] = @ \o
               (IF opened THEN send_fd(piece) ELSE send_err(Of(piece), Complaint(piece)))]
          /\ i' = i + 1 /\ UNCHANGED pc
  /\ UNCHANGED <<loop, client, pollvars, selectvars, fdof, packed, backlog, people>>

HasData(c) == inbox[c] # <<>>
HungUp(c) == st[c] = "gone"
\* read returns: with data, or with 0 at the end of the connection.
Readable(c) == HasData(c) \/ HungUp(c)

\* serv_accept succeeds: the new descriptor and the user it belongs to.
serv_accept == backlog # <<>> /\ backlog' = Tail(backlog)
               /\ fdof' = [fdof EXCEPT ![Head(backlog)] = LowestFd]

(***************************************************************************)
(* serv_accept fails, for example because the name is older than STALE     *)
(* seconds, and log_sys ends the server.                                   *)
(***************************************************************************)
AcceptFails ==
  /\ pc = "wait" /\ backlog # <<>> /\ pc' = "dead"
  /\ UNCHANGED <<loop, i, client, pollvars, selectvars, errmsg, fdof, packed, wronguid,
                 backlog, inbox, outbox, people>>
-----------------------------------------------------------------------------
revents(fd) ==
  IF fd = ListenFd THEN IF backlog # <<>> THEN "in" ELSE "none"
  ELSE IF HungUp(Peer(fd)) THEN "hup" ELSE IF HasData(Peer(fd)) THEN "in" ELSE "none"

Polled == [k \in DOMAIN pollfd |->
            IF k <= numfd THEN [pollfd[k] EXCEPT !.revents = revents(pollfd[k].fd)] ELSE pollfd[k]]

PollAcceptStale ==
  /\ Polled[1].revents = "in" /\ serv_accept
  /\ client' = client_add(client, LowestFd, Head(backlog))
  /\ pollfd' = LET room == IF numfd = Len(pollfd) THEN grow_pollfd(Polled) ELSE Polled
               IN [room EXCEPT ![numfd + 1].fd = LowestFd]
  /\ numfd' = numfd + 1
PollAccept ==
  /\ Polled[1].revents = "in" /\ serv_accept
  /\ client' = client_add(client, LowestFd, Head(backlog))
  /\ pollfd' = LET room == IF numfd = Len(pollfd) THEN grow_pollfd(Polled) ELSE Polled
               IN [room EXCEPT ![numfd + 1] = [fd |-> LowestFd, revents |-> "none"]]
  /\ numfd' = numfd + 1

\* poll returns, and the new connection, if there is one, is accepted.
Poll ==
  /\ loop = "poll" /\ pc = "wait"
  /\ \E k \in 1..numfd : Polled[k].revents # "none"
  /\ \/ PollAccept
     \/ /\ Polled[1].revents = "none" /\ pollfd' = Polled
        /\ UNCHANGED <<client, numfd, backlog, fdof>>
  /\ pc' = "scan" /\ i' = 2
  /\ UNCHANGED <<loop, selectvars, errmsg, packed, wronguid, inbox, outbox, people>>

\* The client closed the connection: its entries are freed, pollfd[] is packed.
PollHangupKeep(fd) ==
  /\ client' = client_del(client, fd)
  /\ fdof' = [fdof EXCEPT ![Peer(fd)] = NoFd]
  /\ i' = i + 1
  /\ numfd' = numfd - 1
  /\ UNCHANGED <<loop, pc, pollfd, packed, selectvars, errmsg, wronguid, backlog, inbox, outbox, people>>
PollHangup(fd) ==
  /\ client' = client_del(client, fd)
  /\ fdof' = [fdof EXCEPT ![Peer(fd)] = NoFd]
  /\ IF i < numfd THEN pollfd' = [pollfd EXCEPT ![i] = pollfd[numfd]] /\ packed' = TRUE /\ i' = i
                  ELSE i' = i + 1 /\ UNCHANGED <<pollfd, packed>>
  /\ numfd' = numfd - 1
  /\ UNCHANGED <<loop, pc, selectvars, errmsg, wronguid, backlog, inbox, outbox, people>>

PollScan ==
  /\ loop = "poll" /\ pc = "scan" /\ i <= numfd
  /\ LET fd == pollfd[i].fd IN
     \/ pollfd[i].revents = "none" /\ i' = i + 1
        /\ UNCHANGED <<loop, pc, client, pollvars, selectvars, errmsg, fdof, packed, wronguid,
                       backlog, inbox, outbox, people>>
     \/ pollfd[i].revents = "hup" /\ PollHangup(fd)
     \/ pollfd[i].revents = "in" /\ ~HasData(Peer(fd)) /\ HungUp(Peer(fd)) /\ PollHangup(fd)
     \/ pollfd[i].revents = "in" /\ HasData(Peer(fd)) /\ handle_request(Peer(fd), client[i].uid)
-----------------------------------------------------------------------------
\* select returns; a new connection is accepted before anything else is looked at.
Ready == {fd \in allset : fd <= maxfd /\
            (IF fd = ListenFd THEN backlog # <<>> ELSE Readable(Peer(fd)))}

SelectAccept ==
  /\ ListenFd \in Ready /\ serv_accept
  /\ client' = client_add(client, LowestFd, Head(backlog))
  /\ allset' = allset \union {LowestFd}
  /\ maxfd' = IF LowestFd > maxfd THEN LowestFd ELSE maxfd
  /\ LET at == CHOOSE k \in DOMAIN client' : client'[k].fd = LowestFd
     IN maxi' = IF at > maxi THEN at ELSE maxi
  /\ UNCHANGED <<pc, i>>

Select ==
  /\ loop = "select" /\ pc = "wait" /\ Ready # {} /\ rset' = Ready
  /\ \/ SelectAccept
     \/ /\ ListenFd \notin Ready /\ pc' = "scan" /\ i' = 1
        /\ UNCHANGED <<client, allset, maxfd, maxi, backlog, fdof>>
  /\ UNCHANGED <<loop, pollvars, errmsg, packed, wronguid, inbox, outbox, people>>

SelectHangup(fd) ==
  /\ client' = client_del(client, fd)
  /\ fdof' = [fdof EXCEPT ![Peer(fd)] = NoFd]
  /\ allset' = allset \ {fd} /\ i' = i + 1
  /\ UNCHANGED <<loop, pc, pollvars, rset, maxfd, maxi, errmsg, packed, wronguid,
                 backlog, inbox, outbox, people>>

SelectScan ==
  /\ loop = "select" /\ pc = "scan" /\ i <= maxi
  /\ LET fd == client[i].fd IN
     \/ (fd = NoFd \/ fd \notin rset) /\ i' = i + 1
        /\ UNCHANGED <<loop, pc, client, pollvars, selectvars, errmsg, fdof, packed, wronguid,
                       backlog, inbox, outbox, people>>
     \/ fd # NoFd /\ fd \in rset /\ ~HasData(Peer(fd)) /\ HungUp(Peer(fd)) /\ SelectHangup(fd)
     \/ fd # NoFd /\ fd \in rset /\ HasData(Peer(fd)) /\ handle_request(Peer(fd), client[i].uid)

\* read fails on a connection that poll or select returned, and log_sys ends the server.
ReadFails ==
  /\ pc = "scan" /\ pc' = "dead"
  /\ \/ loop = "poll" /\ i <= numfd /\ pollfd[i].revents = "in"
     \/ loop = "select" /\ i <= maxi /\ client[i].fd \in rset
  /\ UNCHANGED <<loop, i, client, pollvars, selectvars, errmsg, fdof, packed, wronguid,
                 backlog, inbox, outbox, people>>

ScanEnd ==
  /\ pc = "scan" /\ i > (IF loop = "poll" THEN numfd ELSE maxi) /\ pc' = "wait" /\ i' = 1
  /\ UNCHANGED <<loop, client, pollvars, selectvars, errmsg, fdof, packed, wronguid,
                 backlog, inbox, outbox, people>>
-----------------------------------------------------------------------------
\* cli_conn: the connection is made whether or not the server accepts it yet.
cli_conn(c) ==
  /\ st[c] = "new" /\ pc # "dead" /\ \A d \in Client : d < c => st[d] # "new"
  /\ st' = [st EXCEPT ![c] = "idle"] /\ backlog' = Append(backlog, c)
  /\ UNCHANGED <<server, inbox, outbox, asked, asks, odd, misled>>

\* csopen sends the request; a dead server's socket raises SIGPIPE.
csopen(c, r) ==
  /\ st[c] = "idle" /\ asks < MaxAsk /\ asks' = asks + 1
  /\ asked' = [asked EXCEPT ![c] = r]
  /\ IF pc = "dead" THEN st' = [st EXCEPT ![c] = "gone"] /\ UNCHANGED <<inbox, odd>>
     ELSE /\ st' = [st EXCEPT ![c] = "asked"]
          /\ inbox' = [inbox EXCEPT ![c] = @ \o Sent(r)]
          /\ odd' = IF r \in Odd THEN odd \union {c} ELSE odd
  /\ UNCHANGED <<server, backlog, outbox, misled>>

\* What recv_fd makes of the bytes of one recvmsg.
ReceivedShort(part) ==
  IF \E n \in 1..Len(part) - 1 : part[n].kind # "text" THEN "gone" ELSE "idle"
Received(part) ==
  IF \E n \in 1..Len(part) - 1 : part[n].kind # "text" THEN "gone"
  ELSE IF Last(part).kind = "text" THEN "asked" ELSE "idle"

(***************************************************************************)
(* recv_fd receives what has arrived, or a part of it.  A status that is   *)
(* not at the end of it is a format error, and err_dump ends the client;   *)
(* without a status it goes on; a closed connection is an error.           *)
(***************************************************************************)
recv_fd(c) ==
  /\ st[c] = "asked"
  /\ \/ \E k \in 1..Len(outbox[c]) :
          LET part == SubSeq(outbox[c], 1, k) IN
             /\ outbox' = [outbox EXCEPT ![c] = SubSeq(@, k + 1, Len(@))]
             /\ st' = [st EXCEPT ![c] = Received(part)]
             /\ misled' = IF \E n \in 1..k : part[n].of # asked[c] THEN misled \union {c} ELSE misled
     \/ /\ pc = "dead" /\ outbox[c] = <<>>
        /\ st' = [st EXCEPT ![c] = "idle"] /\ UNCHANGED <<outbox, misled>>
  /\ UNCHANGED <<server, backlog, inbox, asked, asks, odd>>

\* End of the input, or a signal.
ClientExit(c) ==
  /\ st[c] \in {"idle", "asked"} /\ st' = [st EXCEPT ![c] = "gone"]
  /\ UNCHANGED <<server, backlog, inbox, outbox, asked, asks, odd, misled>>

\* No client is left, or none that still finds a server.
Ended ==
  /\ \A c \in Client : st[c] = "gone" \/ (st[c] = "new" /\ pc = "dead")
  /\ pc # "scan" /\ UNCHANGED vars

Next ==
  \/ Poll \/ PollScan \/ Select \/ SelectScan \/ ScanEnd \/ AcceptFails \/ ReadFails
  \/ \E c \in Client :
       \/ cli_conn(c) \/ recv_fd(c) \/ ClientExit(c)
       \/ \E r \in Requests : csopen(c, r)
  \/ Ended
-----------------------------------------------------------------------------
(***************************************************************************)
(* A client that asks for names that fit a read receives descriptors and   *)
(* errors of its own requests only, whoever hangs up in between and        *)
(* whichever descriptor or entry is used again.                            *)
(***************************************************************************)
OwnAnswer == misled \subseteq odd

(***************************************************************************)
(* Whenever the server waits, the arrays hold the descriptors of the open  *)
(* connections, each once, so no client is left out of the next poll or    *)
(* select and no closed descriptor is in it.                               *)
(***************************************************************************)
Connections == {fdof[c] : c \in Client} \ {NoFd}
OneEntry(array, fd) == \E k \in DOMAIN array : array[k].fd = fd /\ \A n \in DOMAIN array : array[n].fd = fd => n = k
TablesMatch ==
  pc = "wait" =>
    /\ {client[k].fd : k \in DOMAIN client} \ {NoFd, ListenFd} = Connections
    /\ \A fd \in Connections : OneEntry(client, fd)
    /\ loop = "poll" => \A fd \in Connections : OneEntry(SubSeq(pollfd, 1, numfd), fd)
    /\ loop = "poll" => numfd = 1 + Len(SetToSeq(Connections))
    /\ loop = "select" => allset = Connections \union {ListenFd} /\ \A fd \in Connections : fd <= maxfd

\* The loop never reads from a client that has sent nothing: the read would block every other one.
NeverBlocks ==
  pc = "scan" =>
    /\ loop = "poll" /\ i <= numfd /\ pollfd[i].revents # "none" => Readable(Peer(pollfd[i].fd))
    /\ loop = "select" /\ i <= maxi /\ client[i].fd \in rset => Readable(Peer(client[i].fd))

(***************************************************************************)
(* A request is handled with the uid of the client that made it: always in *)
(* loop.select.c, and in loop.poll.c until pollfd[] is packed, which moves *)
(* its entries away from those of client[].                                *)
(***************************************************************************)
UidOfClient == wronguid => loop = "poll" /\ packed
=============================================================================
