-------------------------------- MODULE Pty --------------------------------
(***************************************************************************)
(* The pty program (pty/main.c, loop.c, driver.c) with pty_fork            *)
(* (lib/ptyfork.c, ptyopen.c): a program runs on the slave side of a       *)
(* pseudo terminal; a parent copies from the master to standard output,    *)
(* its child copies standard input to the master, and either tells the     *)
(* other when it is done.  With -d both talk to a driver instead.          *)
(***************************************************************************)
EXTENDS Integers

CONSTANTS
  PTYBUF,      \* chunks that the pseudo terminal holds
  MaxData      \* bound: chunks that the program, and the user, write

VARIABLES
  opt,         \* the options: [interactive, ignoreeof, driver]
  sp, sc, sg, sd, \* parent, child of loop, program on the slave, driver
  handler, sigcaught, \* SIGTERM is caught by the parent; it has been
  raw,         \* the user's terminal is in raw mode
  master,      \* who has the master open
  duplex,      \* who has the driver's end of the stream pipe open
  typed, eof, inq, \* input to come, and whether it then ends; input in the pty
  made, outq, got, shown, \* output: made by the program, in the pty, read, copied
  how,         \* why the parent has left its loop
  stray,       \* SIGTERM has gone to a process that is not the parent
  untold       \* why the parent does not know of its child's end: "none" (it does), "error" of
               \* the child, or SIGTERM was "missed" between two reads

vars == <<opt, sp, sc, sg, sd, handler, sigcaught, raw, master, duplex,
          typed, eof, inq, made, outq, got, shown, how, stray, untold>>

Init ==
  /\ opt \in [interactive : BOOLEAN, ignoreeof : BOOLEAN, driver : BOOLEAN]
  /\ sp = "open" /\ sc = "none" /\ sg = "none" /\ sd = "none" /\ handler = FALSE /\ sigcaught = FALSE
  /\ raw = FALSE /\ master = {} /\ duplex = {} /\ typed \in {0, MaxData} /\ eof \in BOOLEAN /\ inq = 0
  /\ made = 0 /\ outq = 0 /\ got = FALSE /\ shown = 0 /\ how = "none" /\ stray = FALSE /\ untold = "none"
-----------------------------------------------------------------------------
\* The terminal's mode that the parent's, or its forked copy's, exit restores.
tty_atexitNone == UNCHANGED raw
tty_atexit == raw' = FALSE
\* exit closes what the process has open.
Closes(who) == master' = master \ {who} /\ duplex' = duplex \ {who}

\* err_sys: ptym_open or a fork fails, or standard output does.
ErrSys(why) == sp' = "gone" /\ how' = why /\ tty_atexit /\ Closes("parent")

pty_fork ==
  /\ sp = "open"
  /\ \/ /\ sp' = "forked" /\ sg' = "born" /\ master' = {"parent", "program"}
        /\ UNCHANGED <<how, raw, duplex>>
     \/ ErrSys("error") /\ UNCHANGED sg
  /\ UNCHANGED <<opt, sc, sd, handler, sigcaught, typed, eof, inq, made, outq, got, shown, stray, untold>>

\* The child of pty_fork: setsid, the slave becomes its controlling terminal and its
\* standard files, the master is closed; set_noecho; exec.
SlaveStartOpen ==
  /\ sg = "born" /\ sg' \in {"runs", "ended"} /\ UNCHANGED master
  /\ UNCHANGED <<opt, sp, sc, sd, handler, sigcaught, raw, duplex, typed, eof, inq, made, outq, got, shown, how, stray, untold>>
SlaveStart ==
  /\ sg = "born" /\ sg' \in {"runs", "ended"} /\ master' = master \ {"program"}
  /\ UNCHANGED <<opt, sp, sc, sd, handler, sigcaught, raw, duplex, typed, eof, inq, made, outq, got, shown, how, stray, untold>>

tty_raw ==
  /\ sp = "forked" /\ sp' = "ready" /\ ~opt.driver
  /\ raw' = opt.interactive
  /\ UNCHANGED <<opt, sc, sg, sd, handler, sigcaught, master, duplex, typed, eof, inq, made, outq, got, shown, how, stray, untold>>

\* The driver inherits the master too; the parent closes the driver's end of the pipe.
do_driverOpen ==
  /\ sp = "forked" /\ opt.driver
  /\ sp' = "ready" /\ sd' = "runs" /\ master' = master \union {"driver"} /\ duplex' = {"driver", "parent"}
  /\ UNCHANGED <<opt, sc, sg, handler, sigcaught, raw, typed, eof, inq, made, outq, got, shown, how, stray, untold>>
do_driver ==
  /\ sp = "forked" /\ opt.driver
  /\ sp' = "ready" /\ sd' = "runs" /\ master' = master \union {"driver"} /\ duplex' = {"driver"}
  /\ UNCHANGED <<opt, sc, sg, handler, sigcaught, raw, typed, eof, inq, made, outq, got, shown, how, stray, untold>>
\* tty_raw, fd_pipe or the fork of do_driver or of loop fails.
StartFails ==
  /\ sp \in {"forked", "ready"} /\ ErrSys("error")
  /\ UNCHANGED <<opt, sc, sg, sd, handler, sigcaught, typed, eof, inq, made, outq, got, shown, stray, untold>>
-----------------------------------------------------------------------------
\* loop: fork, and only then the handler.
LoopFork ==
  /\ sp = "ready" /\ sp' = "split" /\ sc' = "read" /\ master' = master \union {"child"}
  /\ duplex' = IF "parent" \in duplex THEN duplex \union {"child"} ELSE duplex
  /\ UNCHANGED <<opt, sg, sd, handler, sigcaught, raw, typed, eof, inq, made, outq, got, shown, how, stray, untold>>
signal_intr ==
  /\ sp = "split" /\ sp' = "copies" /\ handler' = TRUE
  /\ UNCHANGED <<opt, sc, sg, sd, sigcaught, raw, master, duplex, typed, eof, inq, made, outq, got, shown, how, stray, untold>>

\* The child reads standard input, or finds its end, or writes to the master.  A read or a
\* write that fails ends it by err_sys: its exit restores the terminal, and it tells nobody.
StdinEnds == typed = 0 /\ IF opt.driver THEN duplex = {} ELSE eof
ChildCopy ==
  /\ \/ sc = "read" /\ typed > 0 /\ typed' = typed - 1 /\ sc' = "write" /\ UNCHANGED inq
     \/ sc = "write" /\ inq < PTYBUF /\ inq' = inq + 1 /\ sc' = "read" /\ UNCHANGED typed
     \/ sc = "read" /\ StdinEnds /\ sc' = "eof" /\ UNCHANGED <<typed, inq>>
  /\ UNCHANGED <<opt, sp, sg, sd, handler, sigcaught, raw, master, duplex, eof, made, outq, got, shown, how, stray, untold>>

ChildError ==
  /\ sc \in {"read", "write"} /\ sc' = "gone" /\ untold' = "error" /\ tty_atexit /\ Closes("child")
  /\ UNCHANGED <<opt, sp, sg, sd, handler, sigcaught, typed, eof, inq, made, outq, got, shown, how, stray>>

(***************************************************************************)
(* SIGTERM reaches the parent: it dies of it before it has its handler;    *)
(* with the handler, its read returns if it is in it, and its write fails  *)
(* if it sleeps there; between two reads only the flag is set.             *)
(***************************************************************************)
sig_term ==
  \/ ~handler /\ sp' = "gone" /\ how' = "killed" /\ Closes("parent")
     /\ UNCHANGED <<sigcaught, raw, untold>>
  \/ /\ handler /\ sigcaught' = TRUE
     /\ \/ untold' = (IF sp = "copies" THEN "missed" ELSE "none") /\ UNCHANGED <<sp, how, raw, master, duplex>>
        \/ sp = "copies" /\ ~got /\ sp' = "after" /\ how' = "signal" /\ UNCHANGED <<raw, master, duplex, untold>>
        \/ sp = "copies" /\ got /\ ErrSys("error") /\ UNCHANGED untold
Notify(wanted) ==
  /\ sc = "eof" /\ sc' = "done"
  /\ \/ ~wanted /\ UNCHANGED <<sp, sigcaught, how, raw, master, duplex, stray, untold>>
     \/ wanted /\ sp # "gone" /\ sig_term /\ UNCHANGED stray
     \/ wanted /\ sp = "gone" /\ stray' = TRUE /\ UNCHANGED <<sp, sigcaught, how, raw, master, duplex, untold>>
  /\ UNCHANGED <<opt, sg, sd, handler, typed, eof, inq, made, outq, got, shown>>
ChildNotifyBackwards == Notify(opt.ignoreeof)
ChildNotify == Notify(~opt.ignoreeof)
ChildExit ==
  /\ sc = "done" /\ sc' = "gone" /\ tty_atexit /\ Closes("child")
  /\ UNCHANGED <<opt, sp, sg, sd, handler, sigcaught, typed, eof, inq, made, outq, got, shown, how, stray, untold>>

\* The parent reads the master, or finds the slave closed and nothing left, or writes.
ParentReadAny ==
  /\ sp = "copies" /\ ~got
  /\ \/ outq > 0 /\ outq' = outq - 1 /\ got' = TRUE /\ UNCHANGED <<sp, how>>
     \/ sg = "ended" /\ sp' = "after" /\ how' = "eof" /\ UNCHANGED <<outq, got>>
  /\ UNCHANGED <<opt, sc, sg, sd, handler, sigcaught, raw, master, duplex, typed, eof, inq, made, shown, stray, untold>>
ParentRead ==
  /\ sp = "copies" /\ ~got
  /\ \/ outq > 0 /\ outq' = outq - 1 /\ got' = TRUE /\ UNCHANGED <<sp, how>>
     \/ outq = 0 /\ sg = "ended" /\ sp' = "after" /\ how' = "eof" /\ UNCHANGED <<outq, got>>
  /\ UNCHANGED <<opt, sc, sg, sd, handler, sigcaught, raw, master, duplex, typed, eof, inq, made, shown, stray, untold>>
ParentWrite ==
  /\ sp = "copies" /\ got /\ got' = FALSE
  /\ \/ shown' = shown + 1 /\ UNCHANGED <<sp, how, raw, master, duplex>>
     \/ ErrSys("error") /\ UNCHANGED shown
  /\ UNCHANGED <<opt, sc, sg, sd, handler, sigcaught, typed, eof, inq, made, outq, stray, untold>>
\* The parent ends the child unless it was the child that sent the signal.
ParentAfterQuiet ==
  /\ sp = "after" /\ sp' = "gone" /\ tty_atexit /\ Closes("parent")
  /\ UNCHANGED <<opt, sc, sg, sd, handler, sigcaught, typed, eof, inq, made, outq, got, shown, how, stray, untold>>
ParentAfter ==
  /\ sp = "after" /\ sp' = "gone" /\ tty_atexit
  /\ sc' = IF sigcaught THEN sc ELSE "gone"
  /\ master' = master \ ({"parent"} \union IF sigcaught THEN {} ELSE {"child"})
  /\ duplex' = duplex \ {"parent", "child"}
  /\ UNCHANGED <<opt, sg, sd, handler, sigcaught, typed, eof, inq, made, outq, got, shown, how, stray, untold>>
-----------------------------------------------------------------------------
\* The program reads, writes or ends; the system hangs it up when the master is closed.
Program ==
  /\ sg = "runs"
  /\ \/ inq > 0 /\ inq' = inq - 1 /\ UNCHANGED <<sg, made, outq>>
     \/ made < MaxData /\ outq < PTYBUF /\ made' = made + 1 /\ outq' = outq + 1 /\ UNCHANGED <<sg, inq>>
     \/ sg' = "ended" /\ UNCHANGED <<inq, made, outq>>
  /\ UNCHANGED <<opt, sp, sc, sd, handler, sigcaught, raw, master, duplex, typed, eof, got, shown, how, stray, untold>>
Hangup ==
  /\ sg = "runs" /\ master = {} /\ sg' = "ended"
  /\ UNCHANGED <<opt, sp, sc, sd, handler, sigcaught, raw, master, duplex, typed, eof, inq, made, outq, got, shown, how, stray, untold>>
DriverEnds ==
  /\ sd = "runs" /\ sd' = "ended" /\ Closes("driver")
  /\ UNCHANGED <<opt, sp, sc, sg, handler, sigcaught, raw, typed, eof, inq, made, outq, got, shown, how, stray, untold>>

Parent ==
  pty_fork \/ tty_raw \/ do_driver \/ StartFails \/ LoopFork \/ signal_intr \/ ParentRead \/ ParentWrite \/ ParentAfter
Child == ChildCopy \/ ChildError \/ ChildNotify \/ ChildExit
ParentWaits == sp = "copies" /\ ~got /\ outq = 0 /\ sg # "ended"
ChildWaits == \/ sc = "read" /\ typed = 0 /\ ~StdinEnds
              \/ sc = "write" /\ inq = PTYBUF
Quiet ==
  /\ ParentWaits \/ sp = "gone"
  /\ ChildWaits \/ sc \in {"none", "gone"}
  /\ sg # "born" /\ UNCHANGED vars

Next == Parent \/ Child \/ SlaveStart \/ Program \/ Hangup \/ DriverEnds \/ Quiet
-----------------------------------------------------------------------------
(***************************************************************************)
(* A parent that ends tells its child, wherever it is, so that none is     *)
(* left in a read of standard input, and the child's signal goes to its    *)
(* parent and to no other process.  An error of the parent is the          *)
(* exception: err_sys tells the child nothing.                             *)
(***************************************************************************)
EndsBoth ==
  /\ sp = "gone" /\ how \in {"eof", "signal", "killed"} => ~ChildWaits
  /\ stray => how = "error"

(***************************************************************************)
(* The parent does not go on to read from the program when its child has   *)
(* ended and nobody can type any more, unless end of file is to be         *)
(* ignored.  There are two exceptions, and in both the parent waits until  *)
(* the program ends, which may wait for input: SIGTERM came between two    *)
(* reads, where it only sets the flag (loop.c:43-46), or the child ended   *)
(* by an error and sent none (loop.c:19-24), although the comment of       *)
(* sig_term says that it does "when read() fails".                         *)
(***************************************************************************)
ParentTold == sp = "copies" /\ ~got /\ sc \in {"done", "gone"} => opt.ignoreeof \/ untold # "none"

\* All output that the program made is copied when the parent leaves because of the program's end.
OutputWhole == how = "eof" => shown = made

(***************************************************************************)
(* When both processes are gone no one has the master but the driver, so   *)
(* that the program is hung up.                                            *)
(***************************************************************************)
HangsUp == sp = "gone" /\ sc \in {"none", "gone"} /\ sd # "runs" /\ sg # "born" => master = {}

\* The driver's end is the end of input for the child: no other process keeps the pipe open.
DriverEndSeen == opt.driver /\ sd = "ended" => duplex = {}

\* The user's terminal is back in its mode when both processes are gone.
TtyRestored == sp = "gone" /\ sc \in {"none", "gone"} => ~raw
=============================================================================
