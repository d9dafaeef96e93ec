------------------------------ MODULE TreeWalk ------------------------------
(***************************************************************************)
(* Two walks of a directory tree while another process removes files:      *)
(* myftw (filedir/ftw8.c), which recurs with one path buffer that it lets  *)
(* grow, made by path_alloc (lib/pathalloc.c); and ttyname                 *)
(* (termios/ttyname.c), which searches /dev and then each directory on the *)
(* list of those that it has met.  A name is a node of the tree; "." is an *)
(* entry of every directory too.  Links to directories, which ttyname      *)
(* follows, and the names that it skips (/dev/fd, /dev/stdin) are not in   *)
(* the tree.                                                               *)
(***************************************************************************)
EXTENDS Integers, Sequences, FiniteSets

CONSTANTS
  MaxNode,     \* bound: files of the tree; 1 is the start, or /dev
  NAME_MAX,    \* longest name
  PATH_MAX     \* size that path_alloc starts from

Node == 1..MaxNode

VARIABLES
  prog,        \* "ftw" or "tty"
  par, dirs, shut, \* the tree: parents, directories, those that cannot be read
  gone,        \* files removed meanwhile
  st,          \* where the walk is
  stack,       \* calls of dopath that read a directory: [n, todo]
  path, slash, pathlen, \* names in fullpath, whether it ends in a slash, and its size
  start,       \* length of the start's name
  visits,      \* for each file, the types that func was called with: "F", "D", "DNR", "NS"
  nfiles, ndir, \* what myfunc counts: files and directories
  list, tail,  \* ttyname's list from head on; "null", "ok" or "freed"
  todo, ddp,   \* entries left in the directory searched; directories of the list that have been
  dev, calls,  \* the terminal looked for; calls of ttyname
  found, lost  \* what ttyname returned; a directory was left out for lack of memory

treevars == <<prog, par, dirs, shut, start>>
ftwvars == <<stack, path, slash, pathlen, visits, nfiles, ndir>>
ttyvars == <<list, tail, todo, ddp, dev, calls, found, lost>>
vars == <<treevars, gone, st, ftwvars, ttyvars>>
None == 0
Children(d) == {c \in 2..MaxNode : par[c] = d}

\* The size that path_alloc returns: with or without room for the null byte, as the version of the system says.
path_alloc == {PATH_MAX, PATH_MAX + 1}

Init ==
  /\ prog \in {"ftw", "tty"} /\ gone = {}
  /\ par \in {f \in [2..MaxNode -> Node] : \A n \in 2..MaxNode : f[n] < n}
  /\ dirs \in {d \in SUBSET Node : 1 \in d /\ \A n \in 2..MaxNode : par[n] \in d}
  /\ shut \in {{}} \union {{d} : d \in dirs}
  /\ start \in IF prog = "ftw" THEN {1, NAME_MAX + PATH_MAX} ELSE {1}
  /\ st = "start" /\ stack = <<>> /\ path = <<>> /\ slash = FALSE /\ pathlen = 0 /\ visits = [n \in Node |-> <<>>]
  /\ nfiles = 0 /\ ndir = 0
  /\ list = <<>> /\ tail = "null" /\ todo = {} /\ ddp = 0 /\ calls = 0 /\ found = None /\ lost = FALSE
  /\ dev \in IF prog = "tty" THEN 2..MaxNode \ dirs ELSE {None}

\* Names are 1 byte long, but for the last node's, and each has a slash before it but the start's.
Longs == Cardinality({k \in 2..Len(path) : path[k] = MaxNode})
strlen == start + 2 * (Len(path) - 1) + (NAME_MAX - 1) * Longs + (IF slash THEN 1 ELSE 0)
-----------------------------------------------------------------------------
myftw ==
  /\ prog = "ftw" /\ st = "start" /\ st' = "visit" /\ path' = <<1>>
  /\ \E size \in path_alloc : pathlen' = IF size <= start THEN 2 * start ELSE size
  /\ UNCHANGED <<treevars, gone, stack, slash, visits, nfiles, ndir, ttyvars>>

\* dopath for one name: lstat and func; for a directory the buffer and the slash.
Top == path[Len(path)]
Return == st' = IF stack = <<>> THEN "done" ELSE "read"
GrowShort(n) == IF n + NAME_MAX > pathlen THEN 2 * pathlen ELSE pathlen
Grow(n) == IF n + NAME_MAX + 2 > pathlen THEN 2 * pathlen ELSE pathlen
\* myfunc counts files and directories; it only reports what cannot be read or is not there.
myfunc(type) ==
  /\ visits' = [visits EXCEPT ![Top] = Append(@, type)]
  /\ nfiles' = nfiles + (IF type = "F" THEN 1 ELSE 0)
  /\ ndir' = ndir + (IF type = "D" THEN 1 ELSE 0)
dopath ==
  /\ st = "visit" /\ myfunc(IF Top \in gone THEN "NS" ELSE IF Top \in dirs THEN "D" ELSE "F")
  /\ IF Top \in dirs \ gone
     THEN st' = "open" /\ pathlen' = Grow(strlen) /\ slash' = TRUE
     ELSE Return /\ UNCHANGED <<pathlen, slash>>
  /\ UNCHANGED <<treevars, gone, stack, path, ttyvars>>
\* A directory that cannot be read is told to func a second time and passed over; its slash
\* stays in the buffer.
CannotReadStop == myfunc("DNR") /\ st' = "done"
CannotRead == myfunc("DNR") /\ Return
opendir ==
  /\ st = "open"
  /\ IF Top \in shut \union gone
     THEN CannotRead /\ UNCHANGED stack
     ELSE /\ st' = "read" /\ stack' = Append(stack, [n |-> Len(path), todo |-> Children(Top) \ gone])
          /\ UNCHANGED <<visits, nfiles, ndir>>
  /\ UNCHANGED <<treevars, gone, path, slash, pathlen, ttyvars>>
\* The name is put after the slash of its directory, whatever was there; "." and ".." are not.
NamePathEnd(n, c) == Append(path, c)
NamePath(n, c) == Append(SubSeq(path, 1, n), c)
Frame == stack[Len(stack)]
readdir ==
  /\ prog = "ftw" /\ st = "read"
  /\ \E c \in Frame.todo :
       /\ stack' = [stack EXCEPT ![Len(stack)].todo = @ \ {c}]
       /\ path' = NamePath(Frame.n, c) /\ slash' = FALSE /\ st' = "visit"
  /\ UNCHANGED <<treevars, gone, pathlen, visits, nfiles, ndir, ttyvars>>
closedir ==
  /\ prog = "ftw" /\ st = "read" /\ Frame.todo = {}
  /\ path' = SubSeq(path, 1, Frame.n) /\ slash' = FALSE
  /\ stack' = SubSeq(stack, 1, Len(stack) - 1) /\ st' = IF Len(stack) = 1 THEN "done" ELSE "read"
  /\ UNCHANGED <<treevars, gone, pathlen, visits, nfiles, ndir, ttyvars>>
-----------------------------------------------------------------------------
\* Entries of a directory: its files, and itself by the name ".", which stands for ".." too.
Entries(d) == {<<"name", c>> : c \in Children(d) \ gone} \union {<<"dot", d>>}
ttyname ==
  /\ prog = "tty" /\ st = "start" /\ calls < 2 /\ calls' = calls + 1
  /\ st' = "search" /\ todo' = IF 1 \in shut THEN {} ELSE Entries(1)
  /\ found' = None /\ lost' = FALSE
  /\ UNCHANGED <<treevars, gone, ftwvars, list, tail, ddp, dev>>

\* add: not "." and "..", nor without memory.
SkipNone(e) == FALSE
Skip(e) == e[1] = "dot"
add(e) ==
  IF Skip(e) THEN UNCHANGED <<list, tail, lost>>
  ELSE \/ /\ list' = CASE tail = "null" -> <<e[2]>> [] tail = "ok" -> Append(list, e[2]) [] OTHER -> list
          /\ tail' = (IF tail = "null" THEN "ok" ELSE tail) /\ UNCHANGED lost
       \/ lost' = TRUE /\ UNCHANGED <<list, tail>>
searchdir ==
  /\ st = "search"
  /\ \E e \in todo :
       /\ todo' = todo \ {e}
       /\ IF e[2] \in gone THEN UNCHANGED <<list, tail, lost, found, st>>
          ELSE IF e[2] \in dirs THEN add(e) /\ UNCHANGED <<found, st>>
          ELSE IF e[2] = dev THEN found' = dev /\ st' = "clean" /\ UNCHANGED <<list, tail, lost>>
          ELSE UNCHANGED <<list, tail, lost, found, st>>
  /\ UNCHANGED <<treevars, gone, ftwvars, ddp, dev, calls>>
\* The next directory of the list, which may have grown meanwhile.
NextDir ==
  /\ prog = "tty" /\ st = "search" /\ todo = {}
  /\ IF ddp < Len(list)
     THEN /\ ddp' = ddp + 1 /\ UNCHANGED st
          /\ todo' = IF list[ddp + 1] \in shut \union gone THEN {} ELSE Entries(list[ddp + 1])
     ELSE st' = "clean" /\ UNCHANGED <<ddp, todo>>
  /\ UNCHANGED <<treevars, gone, ftwvars, list, tail, dev, calls, found, lost>>
cleanupHead ==
  /\ st = "clean" /\ st' = "start" /\ list' = <<>> /\ tail' = (IF tail = "ok" THEN "freed" ELSE tail) /\ ddp' = 0
  /\ UNCHANGED <<treevars, gone, ftwvars, todo, dev, calls, found, lost>>
cleanup ==
  /\ st = "clean" /\ st' = "start" /\ list' = <<>> /\ tail' = "null" /\ ddp' = 0
  /\ UNCHANGED <<treevars, gone, ftwvars, todo, dev, calls, found, lost>>
-----------------------------------------------------------------------------
\* Another process removes a file, or a directory that is empty.
Remove(n) ==
  /\ st \notin {"start", "done"} /\ n # 1 /\ gone = {} /\ Children(n) = {} /\ gone' = {n}
  /\ UNCHANGED <<treevars, st, ftwvars, ttyvars>>
Ended == (st = "done" \/ (prog = "tty" /\ st = "start" /\ calls = 2)) /\ UNCHANGED vars

Next ==
  \/ myftw \/ dopath \/ opendir \/ readdir \/ closedir
  \/ ttyname \/ searchdir \/ NextDir \/ cleanup
  \/ \E n \in Node : Remove(n)
  \/ Ended
-----------------------------------------------------------------------------
\* The buffer names the file that func is called for, after any directories, read or not, before it.
PathRight ==
  st = "visit" => path[1] = 1 /\ \A k \in 2..Len(path) : par[path[k]] = path[k - 1]

\* The path and its null byte are always inside the buffer, with a start of any length.
PathFits == path # <<>> => strlen + 1 <= pathlen

\* A file below a directory that cannot be read is out of reach.
Above == LET up[n \in Node] == IF n = 1 THEN {} ELSE {par[n]} \union up[par[n]] IN up
Hidden(n) == Above[n] \intersect shut # {}
(***************************************************************************)
(* Every file that stays is counted once and as what it is, though         *)
(* directories cannot be read and a file goes: func hears of a file once,  *)
(* of a directory once, and again only when it cannot be read, and of      *)
(* what is below that one not at all.  A file that goes is heard of at     *)
(* most once, but for a directory that goes before it is read.             *)
(***************************************************************************)
CountedOnce ==
  LET seen == {n \in Node : ~Hidden(n)}
      Heard(n) == IF n \notin dirs THEN <<"F">> ELSE IF n \in shut THEN <<"D", "DNR">> ELSE <<"D">>
  IN /\ \A n \in Node :
          \/ visits[n] \in {<<>>, IF n \in dirs THEN <<"D">> ELSE <<"F">>}
          \/ visits[n] = <<"NS">> /\ n \in gone
          \/ visits[n] = <<"D", "DNR">> /\ n \in dirs \intersect (shut \union gone)
     /\ st = "done" => /\ \A n \in Node \ gone : visits[n] = IF n \in seen THEN Heard(n) ELSE <<>>
                       /\ ndir \in Cardinality((seen \intersect dirs) \ gone)..Cardinality(seen \intersect dirs)
                       /\ nfiles \in Cardinality(seen \ (dirs \union gone))..Cardinality(seen \ dirs)

\* ttyname searches each directory once, though each names itself.
SearchedOnce == \A j, k \in DOMAIN list : list[j] = list[k] => j = k

\* ttyname finds the terminal wherever it is, in its second call as in the first, unless it ran out of memory.
TtyFound ==
  prog = "tty" /\ st = "start" /\ calls > 0 => found = dev \/ dev \in gone \/ Hidden(dev) \/ lost
=============================================================================
