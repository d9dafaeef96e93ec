------------------------------- MODULE Submit -------------------------------
(***************************************************************************)
(* A document on its way from the print command (printer/print.c) to the   *)
(* spooler's client thread: the stream of a header and the file's bytes,   *)
(* written with writen (lib/writen.c), read with the timed reads treadn    *)
(* and tread (printer/util.c), and the response, read with readn           *)
(* (lib/readn.c).  Reads and writes may be short; the network may stall    *)
(* and the command may die at any point.  Printd has what the client       *)
(* thread does with the file.                                              *)
(***************************************************************************)
EXTENDS Integers

CONSTANTS
  HDR,         \* bytes of a struct printreq
  RESP,        \* bytes of a struct printresp
  IOBUFSZ,     \* bytes that the command and the thread move at a time
  SOCKBUF,     \* bytes that the connection holds in each direction
  JOBNM_MAX,   \* size of the job's name
  MaxFile      \* bound: bytes of a file

VARIABLES
  size, namelen, \* the document
  pc, nleft,   \* the command: where it is; bytes left of the transfer under way
  fileleft,    \* bytes of the file not read yet
  at, hleft,   \* the thread: where it is; bytes left of the header
  up, down,    \* bytes of the connection: written by the command, by the thread
  taken, got,  \* bytes read by the thread, by the command
  stored,      \* bytes of the stream that are in the data file: [from, to]
  ok,          \* the response says that the job is accepted
  quiet,       \* a read has timed out while the command was still to write
  stall        \* the network delivers nothing for now

vars == <<size, namelen, pc, nleft, fileleft, at, hleft, up, down, taken, got, stored, ok, quiet, stall>>
Min2(a, b) == IF a < b THEN a ELSE b

Init ==
  /\ size \in 0..MaxFile /\ namelen \in JOBNM_MAX - 1..JOBNM_MAX + 1
  /\ pc = "connect" /\ nleft = 0 /\ fileleft = size /\ at = "none" /\ hleft = HDR
  /\ up = 0 /\ down = 0 /\ taken = 0 /\ got = 0 /\ stored = [from |-> 0, to |-> 0]
  /\ ok = FALSE /\ quiet = FALSE /\ stall = FALSE

\* The job's name: of a long one "... " and its end; what is kept of it and the length that makes.
jobnmOff(len) == IF len > JOBNM_MAX THEN [kept |-> JOBNM_MAX - 5, total |-> JOBNM_MAX - 1] ELSE [kept |-> len, total |-> len]
jobnm(len) == IF len >= JOBNM_MAX THEN [kept |-> JOBNM_MAX - 5, total |-> JOBNM_MAX - 1] ELSE [kept |-> len, total |-> len]
-----------------------------------------------------------------------------
\* main: connect_retry on each address in turn.
Contact ==
  /\ pc = "connect"
  /\ \/ pc' = "header" /\ nleft' = HDR /\ at' = "header"
     \/ pc' = "error" /\ UNCHANGED <<nleft, at>>
  /\ UNCHANGED <<size, namelen, fileleft, hleft, up, down, taken, got, stored, ok, quiet, stall>>

\* writen: write until all is written; a write may take part of it, and may fail once the thread is gone.
writen ==
  /\ pc \in {"header", "data"} /\ nleft > 0
  /\ \/ \E n \in 1..Min2(nleft, SOCKBUF - (up - taken)) : nleft' = nleft - n /\ up' = up + n /\ UNCHANGED pc
     \/ at = "gone" /\ pc' = "error" /\ UNCHANGED <<nleft, up>>
  /\ UNCHANGED <<size, namelen, fileleft, at, hleft, down, taken, got, stored, ok, quiet, stall>>
\* submit_file: the file by IOBUFSZ bytes after the header, to its end.
submit_file ==
  /\ pc \in {"header", "data"} /\ nleft = 0
  /\ IF fileleft > 0
     THEN pc' = "data" /\ nleft' = Min2(IOBUFSZ, fileleft) /\ fileleft' = fileleft - nleft'
     ELSE pc' = "reply" /\ nleft' = RESP /\ UNCHANGED fileleft
  /\ UNCHANGED <<size, namelen, at, hleft, up, down, taken, got, stored, ok, quiet, stall>>
\* readn: the whole response, or an end of file or an error before it.
readn ==
  /\ pc = "reply"
  /\ \/ \E n \in 1..Min2(nleft, down - got) : nleft' = nleft - n /\ got' = got + n /\ UNCHANGED pc
     \/ nleft > 0 /\ at = "gone" /\ pc' = "error" /\ UNCHANGED <<nleft, got>>
     \/ nleft = 0 /\ pc' = (IF ok THEN "jobid" ELSE "rejected") /\ UNCHANGED <<nleft, got>>
  /\ UNCHANGED <<size, namelen, fileleft, at, hleft, up, down, taken, stored, ok, quiet, stall>>
-----------------------------------------------------------------------------
\* select's outcomes in tread: bytes to read, the end of the stream, or nothing for timout seconds.
Readable == ~stall /\ up > taken
AtEnd == ~stall /\ up = taken /\ pc \in {"error", "dead"}
tread(nbytes) == Readable /\ \E n \in 1..Min2(nbytes, up - taken) : taken' = taken + n
TimesOut == ~Readable /\ ~AtEnd /\ quiet' = (quiet \/ up > taken \/ pc \in {"header", "data"})
NoMore == (AtEnd /\ UNCHANGED quiet) \/ TimesOut

Answer(good) == ok' = good /\ down' = down + RESP
\* treadn for the header: until all of it is there, an end of file or a timeout; then the data file is created.
treadnShort ==
  /\ at = "header" /\ tread(hleft) /\ hleft' = 0 /\ at' = "data"
  /\ stored' = [from |-> taken', to |-> taken'] /\ UNCHANGED <<ok, down, quiet>>
  /\ UNCHANGED <<size, namelen, pc, nleft, fileleft, up, got, stall>>
treadn ==
  /\ at = "header"
  /\ \/ /\ hleft > 0 /\ tread(hleft) /\ hleft' = hleft - (taken' - taken)
        /\ UNCHANGED <<at, ok, down, quiet, stored>>
     \/ /\ hleft > 0 /\ NoMore
        /\ at' = "gone" /\ Answer(FALSE) /\ UNCHANGED <<taken, hleft, stored>>
     \/ hleft = 0 /\ at' = "gone" /\ Answer(FALSE) /\ UNCHANGED <<taken, hleft, quiet, stored>>
     \/ /\ hleft = 0 /\ at' = "data" /\ stored' = [from |-> taken, to |-> taken]
        /\ UNCHANGED <<taken, hleft, ok, down, quiet>>
  /\ UNCHANGED <<size, namelen, pc, nleft, fileleft, up, got, stall>>
\* The loop that stores the file: silence, an error and an end of file all end it.
UploadOnce ==
  /\ at = "data"
  /\ tread(IOBUFSZ) /\ stored' = [stored EXCEPT !.to = taken'] /\ at' = "accept" /\ UNCHANGED <<ok, down, quiet>>
  /\ UNCHANGED <<size, namelen, pc, nleft, fileleft, hleft, up, got, stall>>
Upload ==
  /\ at = "data"
  /\ \/ tread(IOBUFSZ) /\ stored' = [stored EXCEPT !.to = taken'] /\ UNCHANGED <<at, ok, down, quiet>>
     \/ NoMore /\ at' = "accept" /\ UNCHANGED <<taken, stored, ok, down>>
     \/ Readable /\ at' = "gone" /\ Answer(FALSE) /\ UNCHANGED <<taken, stored, quiet>>
  /\ UNCHANGED <<size, namelen, pc, nleft, fileleft, hleft, up, got, stall>>
\* The control file is written, or not.
Accepted ==
  /\ at = "accept" /\ at' = "gone" /\ \E good \in BOOLEAN : Answer(good)
  /\ UNCHANGED <<size, namelen, pc, nleft, fileleft, hleft, up, taken, got, stored, quiet, stall>>
-----------------------------------------------------------------------------
Network ==
  /\ at \in {"header", "data"} /\ stall' = ~stall
  /\ UNCHANGED <<size, namelen, pc, nleft, fileleft, at, hleft, up, down, taken, got, stored, ok, quiet>>
Dies ==
  /\ pc \in {"header", "data", "reply"} /\ pc' = "dead"
  /\ UNCHANGED <<size, namelen, nleft, fileleft, at, hleft, up, down, taken, got, stored, ok, quiet, stall>>
Ended == pc \in {"jobid", "rejected", "error", "dead"} /\ at \in {"none", "gone"} /\ UNCHANGED vars

Next ==
  \/ Contact \/ writen \/ submit_file \/ readn
  \/ treadn \/ Upload \/ Accepted
  \/ Network \/ Dies \/ Ended
-----------------------------------------------------------------------------
(***************************************************************************)
(* What is stored starts with the first byte after the header, however the *)
(* header arrives; a command that printed a job ID has its whole file      *)
(* stored, unless a silence was taken for the end of the file.             *)
(***************************************************************************)
HeaderApart == at = "data" \/ stored.to > 0 => stored.from = HDR
AckedWhole == pc = "jobid" => stored.to = HDR + size \/ quiet

\* The name in the header has room for its null byte and is the end of the file's name.
NameFits == pc # "connect" => LET j == jobnm(namelen) IN j.total + 1 <= JOBNM_MAX /\ (j.kept = namelen \/ j.kept = j.total - 4)
=============================================================================
