------------------------------ MODULE Terminal ------------------------------
(***************************************************************************)
(* The mode of a terminal: tty_cbreak, tty_raw, tty_reset and tty_atexit   *)
(* (lib/ttymodes.c), which change it and verify what the driver really     *)
(* did, and getpass (termios/getpass.c), which reads a line with the echo  *)
(* off while two signals are blocked.  A program calls them in any order,  *)
(* and may catch signals as termios/t_raw.c does.                          *)
(***************************************************************************)
EXTENDS Integers, FiniteSets

CONSTANTS
  Both,        \* settings that both modes take away: ECHO, ICANON, a VTIME other than 0
  RawOnly,     \* settings that only raw mode takes away: ISIG, ICRNL, OPOST
  Tty,         \* terminals that the program has open
  MAX_PASS_LEN, \* length of a password
  MaxCall      \* bound: calls but those of tty_reset; MAX_PASS_LEN + 1 characters are typed

\* Settings that are on; raw mode sets one.
Flag == Both \union RawOnly \union {"CS8"}
Cleared(mode) == IF mode = "cbreak" THEN Both ELSE Both \union RawOnly
IsSet(mode) == IF mode = "cbreak" THEN {} ELSE {"CS8"}
Wanted(mode, from) == (from \ Cleared(mode)) \union IsSet(mode)

VARIABLES
  term, orig,  \* the settings of each terminal, now and at the start
  save_termios, ttysavefd, ttystate,
  pc,          \* where the program is: "out" of the routines; in tty_cbreak or tty_raw
               \* ("cbreak", "raw") before the verification; or in getpass
  fd, buf,     \* the terminal there; getpass: characters kept
  typed, calls,
  ots,         \* getpass: the settings it will restore
  mask, pend, ended, \* signals blocked; pending; why the program ended
  harm         \* terminals that a call left otherwise than it was to restore them

vars == <<term, orig, save_termios, ttysavefd, ttystate, pc, fd, buf, typed, calls, ots, mask, pend, ended, harm>>
None == "none"

Init ==
  /\ \E some \in {Flag \ {"CS8"}, {"ECHO", "ISIG"}} : orig = [t \in Tty |-> some]
  /\ term = orig /\ save_termios = {} /\ ttysavefd = None /\ ttystate = "reset" /\ pc = "out"
  /\ fd = None /\ buf = 0 /\ typed = 0 /\ calls = 0 /\ ots = {} /\ mask = {} /\ pend = {} /\ ended = None
  /\ harm = {}
-----------------------------------------------------------------------------
\* tcsetattr returns 0 when it has made at least one of the changes.
tcsetattr(from, to) ==
  LET Changed == (from \ to) \union (to \ from)
  IN {(from \ done) \union (done \intersect to) : done \in {d \in SUBSET Changed : d # {} \/ from = to}}

\* The verification reads back only the settings that the mode is about.
StuckAny(mode, got) == TRUE
Stuck(mode, got) == got \intersect Cleared(mode) = {} /\ IsSet(mode) \subseteq got

\* The settings saved are put back, with what the call makes of it.
PutBack(t, saved, outcomes) ==
  \E got \in outcomes : /\ term' = [term EXCEPT ![t] = got]
                        /\ harm' = IF got = saved THEN harm ELSE harm \union {t}
\* The same by a call whose result nobody looks at: it may fail.
Unchecked(t, saved) == PutBack(t, saved, {term[t]} \union tcsetattr(term[t], saved))

(***************************************************************************)
(* tty_cbreak and tty_raw: refused unless the state is RESET; tcgetattr or *)
(* tcsetattr fails, or changes are made, all or a part of them.            *)
(***************************************************************************)
CallOk == pc = "out" /\ ended = None /\ calls < MaxCall /\ calls' = calls + 1
Change(t, mode) ==
  \/ UNCHANGED <<save_termios, term, pc, fd>>
  \/ /\ save_termios' = term[t]
     /\ \/ UNCHANGED <<term, pc, fd>>
        \/ /\ \E got \in tcsetattr(term[t], Wanted(mode, term[t])) : term' = [term EXCEPT ![t] = got]
           /\ pc' = mode /\ fd' = t
SetModeAgain(t, mode) ==
  /\ CallOk /\ Change(t, mode)
  /\ UNCHANGED <<orig, ttysavefd, ttystate, buf, typed, ots, mask, pend, ended, harm>>
SetMode(t, mode) ==
  /\ CallOk
  /\ \/ ttystate # "reset" /\ UNCHANGED <<save_termios, term, pc, fd>>
     \/ ttystate = "reset" /\ Change(t, mode)
  /\ UNCHANGED <<orig, ttysavefd, ttystate, buf, typed, ots, mask, pend, ended, harm>>
tty_cbreak(t) == SetMode(t, "cbreak")
tty_raw(t) == SetMode(t, "raw")

\* The changes stick, or are to be taken back because they do not or cannot be read.
Verify ==
  /\ pc \in {"cbreak", "raw"} /\ ended = None /\ pc' = "out" /\ fd' = None
  /\ \/ Stuck(pc, term[fd]) /\ ttystate' = pc /\ ttysavefd' = fd /\ UNCHANGED <<term, harm>>
     \/ Unchecked(fd, save_termios) /\ UNCHANGED <<ttystate, ttysavefd>>
  /\ UNCHANGED <<orig, save_termios, buf, typed, calls, ots, mask, pend, ended>>

\* tty_reset: the caller gives the terminal it changed; the call fails, or restores all or a part.
Reset(t) ==
  \/ ttystate = "reset" /\ UNCHANGED <<term, ttystate, harm>>
  \/ ttystate # "reset" /\ UNCHANGED <<term, ttystate, harm>>
  \/ /\ ttystate # "reset" /\ ttystate' = "reset"
     /\ PutBack(t, save_termios, tcsetattr(term[t], save_termios))
tty_reset(t) ==
  /\ pc = "out" /\ ended = None /\ t = ttysavefd /\ Reset(t)
  /\ UNCHANGED <<orig, save_termios, ttysavefd, pc, fd, buf, typed, calls, ots, mask, pend, ended>>

\* exit with tty_atexit registered.
ResetAndExit ==
  /\ Reset(ttysavefd) /\ ended' = IF ttystate' = "reset" THEN "exit" ELSE "failed"
  /\ UNCHANGED <<orig, save_termios, ttysavefd, pc, fd, buf, typed, calls, ots, mask, pend>>
tty_atexit == pc = "out" /\ ended = None /\ ResetAndExit
\* The handler of t_raw.c for SIGINT, SIGQUIT and SIGTERM: tty_reset and exit, wherever the program is.
sig_catch == pc \in {"out", "cbreak", "raw"} /\ ended = None /\ ResetAndExit
-----------------------------------------------------------------------------
\* getpass: SIGINT and SIGTSTP are blocked before the echo goes and until it is back.
PassBlock(t) ==
  /\ CallOk /\ ttystate = "reset" /\ pc' = "blocked" /\ fd' = t /\ mask' = {"INT", "TSTP"} /\ buf' = 0 /\ typed' = 0
  /\ UNCHANGED <<term, orig, save_termios, ttysavefd, ttystate, ots, pend, ended, harm>>
\* A tcsetattr that fails leaves the echo on, and nobody knows.
PassNoEcho ==
  /\ pc = "blocked" /\ ended = None /\ pc' = "read"
  /\ ots' = term[fd] /\ \E off \in {{}, {"ECHO"}} : term' = [term EXCEPT ![fd] = @ \ off]
  /\ UNCHANGED <<orig, save_termios, ttysavefd, ttystate, fd, buf, typed, calls, mask, pend, ended, harm>>
\* A character more is kept while there is room.
PassChar ==
  /\ pc = "read" /\ ended = None /\ typed <= MAX_PASS_LEN
  /\ typed' = typed + 1 /\ buf' = IF buf < MAX_PASS_LEN THEN buf + 1 ELSE buf
  /\ UNCHANGED <<term, orig, save_termios, ttysavefd, ttystate, pc, fd, calls, ots, mask, pend, ended, harm>>
\* Newline or end of file; then the echo and the mask, in this order.
PassEndMaskFirst ==
  /\ pc = "read" /\ ended = None /\ pc' = "echo" /\ mask' = {}
  /\ \/ pend = {} /\ Unchecked(fd, ots) /\ UNCHANGED ended
     \/ pend # {} /\ ended' = "signal" /\ UNCHANGED <<term, harm>>
  /\ UNCHANGED <<orig, save_termios, ttysavefd, ttystate, fd, buf, typed, calls, ots, pend>>
PassEnd ==
  /\ pc = "read" /\ ended = None /\ pc' = "echo" /\ Unchecked(fd, ots)
  /\ UNCHANGED <<orig, save_termios, ttysavefd, ttystate, fd, buf, typed, calls, ots, mask, pend, ended>>
PassUnblock ==
  /\ pc = "echo" /\ ended = None /\ pc' = "out" /\ fd' = None /\ mask' = {}
  /\ ended' = IF pend = {} THEN None ELSE "signal"
  /\ UNCHANGED <<term, orig, save_termios, ttysavefd, ttystate, buf, typed, calls, ots, pend, harm>>

\* A signal that is not caught, from the keyboard or (SIGTERM) from elsewhere: SIGINT, SIGQUIT
\* and SIGTERM end the program, SIGTSTP stops it.
Key(sig) ==
  /\ ended = None
  /\ sig = "TERM" \/ "ISIG" \in term[IF fd = None THEN CHOOSE t \in Tty : TRUE ELSE fd]
  /\ IF sig \in mask THEN pend' = pend \union {sig} /\ UNCHANGED ended
     ELSE ended' = (IF sig \in {"QUIT", "TERM"} THEN "quit" ELSE "signal") /\ UNCHANGED pend
  /\ UNCHANGED <<term, orig, save_termios, ttysavefd, ttystate, pc, fd, buf, typed, calls, ots, mask, harm>>
Ended == ended # None /\ UNCHANGED vars

Next ==
  \/ \E t \in Tty : tty_cbreak(t) \/ tty_raw(t) \/ tty_reset(t) \/ PassBlock(t)
  \/ Verify \/ tty_atexit \/ sig_catch \/ PassNoEcho \/ PassChar \/ PassEnd \/ PassUnblock
  \/ \E sig \in {"INT", "TSTP", "QUIT", "TERM"} : Key(sig)
  \/ Ended
-----------------------------------------------------------------------------
(***************************************************************************)
(* While the state is RAW or CBREAK, the terminal has every setting of the *)
(* mode and what is saved is what it had at first; a terminal that no call *)
(* has put in a mode has its own settings, whatever tcsetattr did in part. *)
(* This is so until a call that restores a terminal does it in part or,    *)
(* where nobody looks at its result, not at all (ttymodes.c:42, 52, 118,   *)
(* 131 and 146, getpass.c:39): those terminals are the ones of harm.       *)
(***************************************************************************)
ModeKnown ==
  /\ ttystate # "reset" => /\ ttysavefd \notin harm => save_termios = orig[ttysavefd]
                           /\ Stuck(ttystate, term[ttysavefd])
  /\ \A t \in Tty \ harm : (ttystate = "reset" \/ t # ttysavefd) /\ pc \in {"out", "blocked"} => term[t] = orig[t]

\* No partly changed terminal is taken for one in the mode.
NoHalfMode == ttystate # "reset" =>
  term[ttysavefd] = Wanted(ttystate, save_termios)

(***************************************************************************)
(* A program that ends by exit, also from the handler of t_raw.c, or by    *)
(* one of the two signals that getpass blocks, with its state RESET,       *)
(* leaves every terminal as it was, but for those that a call did not      *)
(* restore (harm) and but for one moment: a signal that comes after        *)
(* tcsetattr has changed the terminal and before the state says so         *)
(* (ttymodes.c:33-57 and 109-136) finds nothing to reset.                  *)
(***************************************************************************)
EchoBack ==
  ended \in {"exit", "signal"} /\ ttystate = "reset" /\ pc \notin {"cbreak", "raw"} =>
    \A t \in Tty \ harm : term[t] = orig[t]
=============================================================================
