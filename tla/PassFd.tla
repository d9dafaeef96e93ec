------------------------------- MODULE PassFd -------------------------------
(***************************************************************************)
(* The open server that the client starts itself (ipc2/open.fe, opend.fe)  *)
(* and the protocol for passing descriptors, byte by byte: text of an      *)
(* error, a null byte, a status.  The functions are those of lib, or the   *)
(* pair of ipc2/sendfd2.c and recvfd2.c, which passes the user too.        *)
(***************************************************************************)
EXTENDS Integers, Sequences, FiniteSetsExt, SequencesExt

CONSTANTS
  MAXLINE,     \* bytes of every buffer
  Name,        \* names that the client reads: length, and whether it can be opened
  CL_OPEN,     \* bytes that a request has besides the name
  CantOpen, Usage, \* bytes that "can't open" adds to the name, bytes of the usage message
  MaxAsk       \* bound: lines of the client's input

VARIABLES
  pair,        \* "fd": the functions of lib; "ufd": recv_ufd with its send_fd
  cpc, asked,  \* the client: where it is, the names asked for so far
  pipe,        \* fd[]: "none", "up", or "alone" after a fork that failed
  spc, todo,   \* the server: where it is, what it has yet to write
  errmsg,      \* strlen(errmsg)
  keeps,       \* the child has the client's end too
  up, down,    \* bytes on their way to the server, and to the client
  uid,         \* the user recv_ufd has stored
  odd, early,  \* a request longer than MAXLINE; an answer that was not read to its end
  misled       \* an answer was taken for that of another request

serv == <<spc, todo, errmsg, keeps>>
hist == <<odd, early, misled>>
vars == <<pair, cpc, asked, pipe, serv, up, down, uid, hist>>

Init ==
  /\ pair \in {"fd", "ufd"} /\ cpc = "fgets" /\ asked = <<>> /\ pipe = "none"
  /\ spc = "none" /\ todo = <<>> /\ errmsg = 0 /\ keeps = FALSE
  /\ up = <<>> /\ down = <<>> /\ uid = "unset" /\ odd = FALSE /\ early = FALSE /\ misled = FALSE

ClientEnded == cpc \in {"gone", "dumped"}
\* Nobody has the client's end, or the server's end, of the socket pair open.
ClientClosed == ClientEnded /\ ~keeps
ServerClosed == pipe = "up" /\ spc = "gone"
-----------------------------------------------------------------------------
\* The client's main: a line that holds a name.
fgets(nm) ==
  /\ cpc = "fgets" /\ Len(asked) < MaxAsk /\ nm.len < MAXLINE
  /\ asked' = Append(asked, nm) /\ cpc' = "csopen"
  /\ UNCHANGED <<pair, pipe, serv, up, down, uid, hist>>

\* csopen, the first time: a fork that fails leaves fd[], and both ends are the client's.
ForkServer ==
  /\ cpc = "csopen" /\ pipe = "none"
  /\ \/ pipe' = "alone" /\ cpc' = "fgets" /\ UNCHANGED <<spc, keeps>>
     \/ pipe' = "up" /\ spc' = "child" /\ keeps' = TRUE /\ UNCHANGED cpc
  /\ UNCHANGED <<pair, asked, todo, errmsg, up, down, uid, hist>>

\* The child closes fd[0], makes fd[1] its input and output, and executes opend.
ExecServerOpen ==
  /\ spc = "child" /\ spc' \in {"read", "gone"} /\ UNCHANGED keeps
  /\ UNCHANGED <<pair, cpc, asked, pipe, todo, errmsg, up, down, uid, hist>>
ExecServer ==
  /\ spc = "child" /\ spc' \in {"read", "gone"} /\ keeps' = FALSE
  /\ UNCHANGED <<pair, cpc, asked, pipe, todo, errmsg, up, down, uid, hist>>

\* The bytes of request k: which one they are of, and whether it is the null byte at the end.
Request(k) ==
  LET n == asked[k].len + CL_OPEN IN [p \in 1..n |-> [of |-> k, pos |-> p, nul |-> p = n]]

\* csopen goes on: the request is written; a server that is gone makes it SIGPIPE.
Writev ==
  /\ cpc = "csopen" /\ pipe # "none"
  /\ IF ServerClosed THEN cpc' = "gone" /\ UNCHANGED <<up, odd>>
     ELSE /\ cpc' = "recv" /\ up' = up \o Request(Len(asked))
          /\ odd' = (odd \/ Len(Request(Len(asked))) > MAXLINE)
  /\ UNCHANGED <<pair, asked, pipe, serv, down, uid, early, misled>>
-----------------------------------------------------------------------------
\* A message of n bytes as snprintf leaves it in errmsg, which is given MAXLINE - 1 bytes.
snprintfAll(n) == IF n > MAXLINE - 1 THEN MAXLINE - 1 ELSE n
snprintf(n) == IF n > MAXLINE - 2 THEN MAXLINE - 2 ELSE n

Char(b, k, ctl) == [byte |-> b, of |-> k, ctl |-> ctl]
\* The two bytes of send_fd, and what goes with them: nothing, the descriptor, the descriptor and the user.
send_fd(k, status) ==
  LET ctl == IF status = "bad" THEN "none" ELSE pair IN <<Char("nul", k, ctl), Char(status, k, ctl)>>
\* send_err: the text, if any, and the status are two writes.
send_err(k, n) ==
  (IF n = 0 THEN <<>> ELSE <<[p \in 1..n |-> Char("text", k, "none")]>>) \o <<send_fd(k, "bad")>>

\* What buf_args and cli_args make of a string that is a whole request, the end of one, or empty.
argsOf(string) ==
  IF Len(string) = 1 THEN "stale"
  ELSE IF string[1].pos # 1 \/ asked[string[1].of].len = 0 THEN "usage" ELSE "open"

(***************************************************************************)
(* handle_request: buf has to end with a null byte; the string that it     *)
(* starts with is the request, whatever follows it.                        *)
(***************************************************************************)
Answer(buf) ==
  LET k == buf[1].of
      string == SubSeq(buf, 1, Min({p \in 1..Len(buf) : buf[p].nul}))
  IN IF ~Last(buf).nul THEN [text |-> snprintf(Len(buf) + CantOpen), fd |-> FALSE]
     ELSE CASE argsOf(string) = "stale" -> [text |-> errmsg, fd |-> FALSE]
            [] argsOf(string) = "usage" -> [text |-> Usage, fd |-> FALSE]
            [] asked[k].there -> [text |-> errmsg, fd |-> TRUE]
            [] OTHER -> [text |-> snprintf(asked[k].len + CantOpen), fd |-> FALSE]
handle_requestMute(buf) ==
  /\ errmsg' = Answer(buf).text
  /\ todo' = IF Answer(buf).fd THEN <<send_fd(buf[1].of, "ok")>>
             ELSE IF errmsg' = Usage THEN <<>> ELSE send_err(buf[1].of, errmsg')
handle_request(buf) ==
  /\ errmsg' = Answer(buf).text
  /\ todo' = IF Answer(buf).fd THEN <<send_fd(buf[1].of, "ok")>> ELSE send_err(buf[1].of, errmsg')

Taken(stream) == Min({MAXLINE, Len(stream)})
Rest(stream) == SubSeq(stream, Taken(stream) + 1, Len(stream))

\* The server's main: read a request and handle it, until the client has closed its end.
ServerRead ==
  /\ spc = "read"
  /\ \/ /\ up # <<>> /\ handle_request(SubSeq(up, 1, Taken(up))) /\ up' = Rest(up)
        /\ spc' = IF todo' = <<>> THEN "read" ELSE "write"
     \/ up = <<>> /\ ClientClosed /\ spc' = "gone" /\ UNCHANGED <<todo, errmsg, up>>
  /\ UNCHANGED <<pair, cpc, asked, pipe, keeps, down, uid, hist>>
\* One write of the answer, which is SIGPIPE if the client is gone.
ServerWrite ==
  /\ spc = "write"
  /\ IF ClientClosed THEN spc' = "gone" /\ UNCHANGED <<todo, down>>
     ELSE /\ down' = down \o Head(todo) /\ todo' = Tail(todo)
          /\ spc' = IF Len(todo) = 1 THEN "read" ELSE "write"
  /\ UNCHANGED <<pair, cpc, asked, pipe, errmsg, keeps, up, uid, hist>>
-----------------------------------------------------------------------------
\* The loop of recv_fd looks for a byte that is 0: a status may be one too.
Zeros(buf) == {p \in 1..Len(buf) : buf[p].byte \in {"nul", "ok"}}
\* The null byte has to be the last but one, and a descriptor has to come with status 0.
WellFormed(buf) ==
  /\ Min(Zeros(buf)) = Len(buf) - 1
  /\ Last(buf).byte = "ok" => Last(buf).ctl = pair

(***************************************************************************)
(* recv_fd, recv_ufd: one recvmsg, and what is made of it.  Text goes to   *)
(* userfunc, which may fail to write it; then the function returns though  *)
(* the status may not have come.  err_dump ends the client.                *)
(***************************************************************************)
TextReturn(buf) == Zeros(buf) = {} /\ cpc' = "fgets" /\ UNCHANGED <<uid, early, misled>>
Text(buf) ==
  /\ Zeros(buf) = {} /\ UNCHANGED <<uid, misled>>
  /\ UNCHANGED <<cpc, early>> \/ (cpc' = "fgets" /\ early' = TRUE)
Dump(buf) ==
  /\ Zeros(buf) # {} /\ ~WellFormed(buf) /\ cpc' = "dumped" /\ UNCHANGED <<uid, early, misled>>
Final(buf) ==
  /\ Zeros(buf) # {} /\ WellFormed(buf) /\ UNCHANGED early
  /\ \/ cpc' = IF Last(buf).byte = "ok" THEN "cat" ELSE "fgets"
     \/ Len(buf) > 2 /\ cpc' = "fgets"
  /\ uid' = IF Last(buf).byte = "ok" /\ pair = "ufd" THEN "server" ELSE uid
  /\ misled' = (misled \/ Last(buf).of # Len(asked))
recv_fd ==
  /\ cpc = "recv" /\ down # <<>> /\ down' = Rest(down)
  /\ LET buf == SubSeq(down, 1, Taken(down)) IN Text(buf) \/ Dump(buf) \/ Final(buf)
  /\ UNCHANGED <<pair, asked, pipe, serv, up, odd>>
RecvClosed ==
  /\ cpc = "recv" /\ down = <<>> /\ ServerClosed /\ cpc' = "fgets"
  /\ UNCHANGED <<pair, asked, pipe, serv, up, down, uid, hist>>
\* setsockopt (recv_ufd only), malloc or recvmsg fails: the function returns with the answer, or a part, to come.
RecvFails ==
  /\ cpc = "recv" /\ cpc' = "fgets" /\ early' = TRUE
  /\ UNCHANGED <<pair, asked, pipe, serv, up, down, uid, odd, misled>>

\* The file is copied to the output and closed; an error there ends the client.
Cat ==
  /\ cpc = "cat" /\ cpc' \in {"fgets", "gone"}
  /\ UNCHANGED <<pair, asked, pipe, serv, up, down, uid, hist>>
\* End of the input, or a signal.
ClientExit ==
  /\ ~ClientEnded /\ cpc' = "gone"
  /\ UNCHANGED <<pair, asked, pipe, serv, up, down, uid, hist>>
ServerKilled ==
  /\ spc \in {"child", "read", "write"} /\ spc' = "gone" /\ keeps' = FALSE
  /\ UNCHANGED <<pair, cpc, asked, pipe, todo, errmsg, up, down, uid, hist>>
Ended == ClientEnded /\ spc \in {"none", "gone"} /\ UNCHANGED vars

Next ==
  \/ \E nm \in Name : fgets(nm)
  \/ ForkServer \/ ExecServer \/ Writev \/ ServerRead \/ ServerWrite
  \/ recv_fd \/ RecvClosed \/ RecvFails \/ Cat \/ ClientExit \/ ServerKilled \/ Ended
-----------------------------------------------------------------------------
(***************************************************************************)
(* The descriptor or status that csopen returns is that of its own         *)
(* request, unless some request did not fit a read and so has several      *)
(* answers, or an answer was abandoned half read.                          *)
(***************************************************************************)
FdAnswer == misled => odd \/ early

(***************************************************************************)
(* With the same exceptions, recv_fd never meets a message it takes for    *)
(* badly formed, though it may find text and status in one recvmsg: the    *)
(* longest text and the two bytes after it just fit.  A descriptor comes   *)
(* with its user.                                                          *)
(***************************************************************************)
WholeAnswer ==
  /\ cpc = "dumped" => odd \/ early
  /\ cpc = "cat" /\ pair = "ufd" => uid = "server"

(***************************************************************************)
(* A client that waits for an answer will see one, or the end of the       *)
(* connection: only after a fork that failed does it wait for itself.      *)
(***************************************************************************)
AnswerComes ==
  cpc = "recv" /\ down = <<>> => pipe = "alone" \/ up # <<>> \/ spc \in {"write", "gone"}

\* A server whose client has ended is not kept waiting by a descriptor of its own.
ServerLeaves == ClientEnded /\ spc = "read" => ClientClosed
=============================================================================
