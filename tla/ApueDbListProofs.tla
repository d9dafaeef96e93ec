------------------------- MODULE ApueDbListProofs -------------------------
(***************************************************************************)
(* Proofs about the hash chains and the free list.  The argument has three *)
(* parts: what the three changes of a list do to its shape, for any list;  *)
(* what each process knows of the list it has locked; and which change     *)
(* each write of the library is.                                           *)
(***************************************************************************)
EXTENDS ApueDbProofs, ApueDbRefine, FiniteSetTheorems, NaturalsInduction,
        WellFoundedInduction

(***************************************************************************)
(* Lists.  nx[o] is the successor of offset o and lo[o] the list it is on, *)
(* L the loose records, e the end of the file.                             *)
(***************************************************************************)
Cells(L, e) == {o \in 0..(e - 1) : o < FirstRec \/ o \notin L}

Apart(nx, lo, L, e) ==
  \A o \in Cells(L, e) : nx[o] # 0 =>
    nx[o] \in FirstRec..(e - 1) /\ nx[o] \notin L /\ lo[nx[o]] = lo[o]
Unshared(nx, L, e) ==
  \A o1, o2 \in Cells(L, e) : nx[o1] = nx[o2] /\ nx[o1] # 0 => o1 = o2
Covered(nx, L, e) ==
  \A i \in FirstRec..(e - 1) : i \in L \/ \E o \in Cells(L, e) : nx[o] = i
\* h grows along every list: none runs in a circle.
Ascends(nx, L, e, h) ==
  \A o \in Cells(L, e) : nx[o] # 0 => h[o] < h[nx[o]]

Shape(nx, lo, L, e) ==
  /\ Apart(nx, lo, L, e) /\ Unshared(nx, L, e) /\ Covered(nx, L, e)
  /\ \E h \in [0..(e - 1) -> Nat] : Ascends(nx, L, e, h)

\* Record x is taken out of its list, after pre.
LEMMA TakeOut ==
  ASSUME NEW nx, NEW lo, NEW L, NEW e \in Nat, Shape(nx, lo, L, e),
         NEW pre \in Cells(L, e), NEW x, nx[pre] = x, x # 0,
         NEW nx2, NEW lo2, nx2[pre] = nx[x],
         \A o \in 0..(e - 1) : o # pre /\ o # x => nx2[o] = nx[o],
         \A o \in 0..(e - 1) : o # x => lo2[o] = lo[o]
  PROVE  Shape(nx2, lo2, L \cup {x}, e) /\ pre # x /\ x \in FirstRec..(e - 1) /\ x \notin L
<1> DEFINE L2 == L \cup {x}
<1>1. PICK h \in [0..(e - 1) -> Nat] : Ascends(nx, L, e, h)
  BY DEF Shape
<1>2. FirstRec \in Nat /\ x \in FirstRec..(e - 1) /\ x \notin L /\ lo[x] = lo[pre]
  BY Sizes DEF Shape, Apart
<1>3. x \in Cells(L, e) /\ pre \in 0..(e - 1) /\ x \in 0..(e - 1)
  BY <1>2 DEF Cells
<1>4. h[x] \in Nat /\ h[pre] \in Nat /\ h[pre] < h[x] /\ pre # x
  BY <1>1, <1>3 DEF Ascends
<1>5. nx[x] # 0 => /\ nx[x] \in FirstRec..(e - 1) /\ nx[x] \notin L /\ lo[nx[x]] = lo[x]
                   /\ h[x] < h[nx[x]] /\ h[nx[x]] \in Nat /\ nx[x] # x
                   /\ nx[x] \in 0..(e - 1)
  BY <1>1, <1>2, <1>3, <1>4, SMTT(30) DEF Shape, Apart, Ascends
<1>6. Cells(L2, e) = Cells(L, e) \ {x}
  BY <1>2 DEF Cells
<1>7. ASSUME NEW o \in Cells(L2, e), o # pre
      PROVE  o \in Cells(L, e) /\ o \in 0..(e - 1) /\ o # x /\ nx2[o] = nx[o] /\ nx[o] # x
             /\ lo2[o] = lo[o]
  BY <1>2, <1>6, <1>7 DEF Cells, Shape, Unshared
<1>8. lo2[pre] = lo[pre] /\ pre \in Cells(L2, e)
  BY <1>3, <1>4, <1>6
<1>9. Apart(nx2, lo2, L2, e)
  <2> SUFFICES ASSUME NEW o \in Cells(L2, e), nx2[o] # 0
               PROVE  /\ nx2[o] \in FirstRec..(e - 1) /\ nx2[o] \notin L2
                      /\ lo2[nx2[o]] = lo2[o]
    BY DEF Apart
  <2>1. CASE o = pre
    BY <1>2, <1>5, <1>8, <2>1
  <2>2. CASE o # pre
    <3>1. nx[o] \in FirstRec..(e - 1) /\ nx[o] \notin L /\ lo[nx[o]] = lo[o]
      BY <1>7, <2>2 DEF Shape, Apart
    <3>2. nx[o] \in 0..(e - 1)
      BY <1>2, <3>1
    <3> QED BY <1>7, <2>2, <3>1, <3>2
  <2> QED BY <2>1, <2>2
<1>10. Unshared(nx2, L2, e)
  <2>1. ASSUME NEW o \in Cells(L2, e), o # pre, nx2[o] = nx2[pre], nx2[o] # 0 PROVE FALSE
    <3>1. nx[o] = nx[x] /\ nx[o] # 0 /\ o \in Cells(L, e) /\ o # x
      BY <1>7, <2>1
    <3> QED BY <1>3, <3>1 DEF Shape, Unshared
  <2>2. ASSUME NEW o1 \in Cells(L2, e), NEW o2 \in Cells(L2, e), o1 # pre, o2 # pre,
               nx2[o1] = nx2[o2], nx2[o1] # 0
        PROVE  o1 = o2
    BY <1>7, <2>2 DEF Shape, Unshared
  <2> QED BY <2>1, <2>2 DEF Unshared
<1>11. Covered(nx2, L2, e)
  <2> SUFFICES ASSUME NEW i \in FirstRec..(e - 1), i \notin L2
               PROVE  \E o \in Cells(L2, e) : nx2[o] = i
    BY DEF Covered
  <2>1. PICK o \in Cells(L, e) : nx[o] = i
    BY DEF Shape, Covered
  <2>2. CASE o = x
    BY <1>8, <2>1, <2>2
  <2>3. CASE o # x
    <3>1. o # pre
      BY <2>1
    <3> QED BY <1>6, <1>7, <2>1, <2>3, <3>1
  <2> QED BY <2>2, <2>3
<1>12. Ascends(nx2, L2, e, h)
  <2> SUFFICES ASSUME NEW o \in Cells(L2, e), nx2[o] # 0
               PROVE  h[o] < h[nx2[o]]
    BY DEF Ascends
  <2>1. CASE o = pre
    BY <1>4, <1>5, <2>1
  <2>2. CASE o # pre
    BY <1>1, <1>7, <2>2 DEF Ascends
  <2> QED BY <2>1, <2>2
<1> QED BY <1>2, <1>4, <1>9, <1>10, <1>11, <1>12 DEF Shape

\* The loose record x becomes the first of list c.
LEMMA PutFirst ==
  ASSUME NEW nx, NEW lo, NEW L, NEW e \in Nat, e >= FirstRec, Shape(nx, lo, L, e),
         NEW c \in 0..NHash, NEW x \in FirstRec..(e - 1), x \in L,
         nx[x] = nx[c], lo[x] = lo[c],
         NEW nx2, NEW lo2, nx2[c] = x,
         \A o \in 0..(e - 1) : o # c => nx2[o] = nx[o],
         \A o \in 0..(e - 1) : lo2[o] = lo[o]
  PROVE  Shape(nx2, lo2, L \ {x}, e)
<1> DEFINE L2 == L \ {x}
<1>1. PICK h \in [0..(e - 1) -> Nat] : Ascends(nx, L, e, h)
  BY DEF Shape
<1>2. FirstRec \in Nat /\ NHash \in Nat /\ FirstRec = NHash + 1 /\ x # 0
  BY Sizes DEF FirstRec
<1>3. /\ c \in Cells(L, e) /\ c \in 0..(e - 1) /\ x \in 0..(e - 1) /\ c # x
      /\ x \notin Cells(L, e) /\ c < FirstRec
  BY <1>2 DEF Cells
<1>4. Cells(L2, e) = Cells(L, e) \cup {x} /\ Cells(L, e) \subseteq 0..(e - 1)
  BY <1>2, <1>3 DEF Cells
<1>5. ASSUME NEW o \in Cells(L, e), nx[o] # 0
      PROVE  /\ nx[o] \in FirstRec..(e - 1) /\ nx[o] \notin L /\ lo[nx[o]] = lo[o]
             /\ nx[o] # x /\ nx[o] # c /\ nx[o] \in 0..(e - 1) /\ h[o] < h[nx[o]]
  <2>1. nx[o] \in FirstRec..(e - 1) /\ nx[o] \notin L /\ lo[nx[o]] = lo[o]
    BY <1>5 DEF Shape, Apart
  <2>2. h[o] < h[nx[o]]
    BY <1>1, <1>5 DEF Ascends
  <2> QED BY <1>2, <1>3, <2>1, <2>2
<1>6. ASSUME NEW o \in Cells(L2, e), o # c, nx2[o] # 0
      PROVE  /\ o \in 0..(e - 1) /\ nx2[o] = nx[o] /\ nx2[o] \in FirstRec..(e - 1)
             /\ nx2[o] \notin L /\ lo[nx2[o]] = lo[o]
             /\ nx2[o] # x /\ nx2[o] # c /\ nx2[o] \in 0..(e - 1)
  <2>1. CASE o = x
    <3>1. nx2[o] = nx[c] /\ nx[c] # 0 /\ o \in 0..(e - 1)
      BY <1>3, <1>6, <2>1
    <3> QED BY <1>3, <1>5, <2>1, <3>1
  <2>2. CASE o # x
    BY <1>4, <1>5, <1>6, <2>2
  <2> QED BY <2>1, <2>2
<1>7. Apart(nx2, lo2, L2, e)
  BY <1>3, <1>4, <1>6 DEF Apart
<1>8. Unshared(nx2, L2, e)
  <2>1. ASSUME NEW o \in Cells(L2, e), o # c, o # x, nx[o] = nx[c], nx[c] # 0 PROVE FALSE
    BY <1>3, <1>4, <2>1 DEF Shape, Unshared
  <2>2. ASSUME NEW o1 \in Cells(L2, e), NEW o2 \in Cells(L2, e), o1 # c, o2 # c,
               nx2[o1] = nx2[o2], nx2[o1] # 0
        PROVE  o1 = o2
    <3>1. nx2[o1] = nx[o1] /\ nx2[o2] = nx[o2]
      BY <1>6, <2>2
    <3>2. CASE o1 = x \/ o2 = x
      BY <2>1, <2>2, <3>1, <3>2
    <3>3. CASE o1 # x /\ o2 # x
      BY <1>4, <2>2, <3>1, <3>3 DEF Shape, Unshared
    <3> QED BY <3>2, <3>3
  <2>3. ASSUME NEW o \in Cells(L2, e), o # c, nx2[o] = nx2[c], nx2[o] # 0 PROVE FALSE
    BY <1>6, <2>3
  <2> QED BY <2>2, <2>3 DEF Unshared
<1>9. Covered(nx2, L2, e)
  <2> SUFFICES ASSUME NEW i \in FirstRec..(e - 1), i \notin L2
               PROVE  \E o \in Cells(L2, e) : nx2[o] = i
    BY DEF Covered
  <2>1. CASE i = x
    BY <1>3, <1>4, <2>1
  <2>2. CASE i # x
    <3>1. PICK o \in Cells(L, e) : nx[o] = i
      BY <2>2 DEF Shape, Covered
    <3>2. CASE o = c
      <4>1. nx2[x] = i
        BY <1>3, <3>1, <3>2
      <4> QED BY <1>4, <4>1
    <3>3. CASE o # c
      BY <1>4, <3>1, <3>3
    <3> QED BY <3>2, <3>3
  <2> QED BY <2>1, <2>2
<1>10. PICK g : g = [o \in 0..(e - 1) |->
                       IF o = c THEN h[c] ELSE IF o = x THEN h[c] + 1 ELSE h[o] + 1]
  OBVIOUS
<1>11. /\ g \in [0..(e - 1) -> Nat] /\ g[x] = h[c] + 1 /\ g[c] = h[c]
       /\ \A o \in 0..(e - 1) : h[o] \in Nat /\ (o # c /\ o # x => g[o] = h[o] + 1)
  BY <1>3, <1>10
<1>12. Ascends(nx2, L2, e, g)
  <2> SUFFICES ASSUME NEW o \in Cells(L2, e), nx2[o] # 0
               PROVE  g[o] < g[nx2[o]]
    BY DEF Ascends
  <2>1. CASE o = c
    BY <1>3, <1>11, <2>1
  <2>2. CASE o = x
    <3>1. /\ nx2[o] = nx[c] /\ nx[c] # 0 /\ nx2[o] # x /\ nx2[o] # c
          /\ nx2[o] \in 0..(e - 1)
      BY <1>3, <1>6, <2>2
    <3>2. h[c] < h[nx[c]] /\ g[nx2[o]] = h[nx[c]] + 1 /\ h[c] \in Nat /\ h[nx[c]] \in Nat
      BY <1>3, <1>5, <1>11, <3>1
    <3> QED BY <1>11, <2>2, <3>2, SMTT(30)
  <2>3. CASE o # c /\ o # x
    <3>1. /\ nx2[o] = nx[o] /\ nx[o] # 0 /\ nx2[o] # x /\ nx2[o] # c
          /\ nx2[o] \in 0..(e - 1) /\ o \in 0..(e - 1) /\ o \in Cells(L, e)
      BY <1>4, <1>6, <2>3
    <3>2. /\ h[o] < h[nx[o]] /\ g[nx2[o]] = h[nx[o]] + 1 /\ g[o] = h[o] + 1
          /\ h[o] \in Nat /\ h[nx[o]] \in Nat
      BY <1>5, <1>11, <2>3, <3>1
    <3> QED BY <3>2
  <2> QED BY <2>1, <2>2, <2>3
<1> QED BY <1>7, <1>8, <1>9, <1>11, <1>12 DEF Shape

\* A loose record is rewritten, or a new one is written at the end of the file.
LEMMA Rewrite ==
  ASSUME NEW nx, NEW lo, NEW L, NEW e \in Nat, e >= FirstRec, Shape(nx, lo, L, e),
         \A i \in L : i \in FirstRec..(e - 1), NEW x \in FirstRec..e, x \in L \/ x = e,
         NEW nx2, NEW lo2, NEW e2, x = e => e2 = e + 1, x # e => e2 = e,
         \A o \in 0..(e - 1) : o # x => nx2[o] = nx[o] /\ lo2[o] = lo[o]
  PROVE  Shape(nx2, lo2, L \cup {x}, e2) /\ Cells(L \cup {x}, e2) = Cells(L, e)
<1> DEFINE L2 == L \cup {x}
<1>1. PICK h \in [0..(e - 1) -> Nat] : Ascends(nx, L, e, h)
  BY DEF Shape
<1>2. FirstRec \in Nat /\ e2 \in Nat /\ e <= e2 /\ x \in 0..(e2 - 1)
  BY Sizes
<1>3. Cells(L2, e2) = Cells(L, e)
  BY <1>2 DEF Cells
<1>4. \A o \in Cells(L, e) : o \in 0..(e - 1) /\ o # x /\ nx2[o] = nx[o] /\ lo2[o] = lo[o]
  BY <1>2 DEF Cells
<1>5. ASSUME NEW o \in Cells(L, e), nx[o] # 0
      PROVE  /\ nx[o] \in FirstRec..(e - 1) /\ nx[o] \notin L /\ lo[nx[o]] = lo[o]
             /\ nx[o] # x /\ nx[o] \in 0..(e - 1) /\ nx[o] \in FirstRec..(e2 - 1)
             /\ h[o] < h[nx[o]]
  BY <1>1, <1>2, <1>5, SMTT(30) DEF Shape, Apart, Ascends
<1>6. Apart(nx2, lo2, L2, e2)
  BY <1>3, <1>4, <1>5 DEF Apart
<1>7. Unshared(nx2, L2, e2)
  BY <1>3, <1>4 DEF Shape, Unshared
<1>8. Covered(nx2, L2, e2)
  <2> SUFFICES ASSUME NEW i \in FirstRec..(e2 - 1), i \notin L2
               PROVE  \E o \in Cells(L2, e2) : nx2[o] = i
    BY DEF Covered
  <2>1. i \in FirstRec..(e - 1) /\ i \notin L
    BY <1>2
  <2> QED BY <1>3, <1>4, <2>1 DEF Shape, Covered
<1>9. PICK g : g = [o \in 0..(e2 - 1) |-> IF o \in 0..(e - 1) THEN h[o] ELSE 0]
  OBVIOUS
<1>10. g \in [0..(e2 - 1) -> Nat] /\ \A o \in 0..(e - 1) : g[o] = h[o]
  BY <1>2, <1>9
<1>11. Ascends(nx2, L2, e2, g)
  BY <1>3, <1>4, <1>5, <1>10 DEF Ascends
<1> QED BY <1>3, <1>6, <1>7, <1>8, <1>10, <1>11 DEF Shape

-----------------------------------------------------------------------------
(***************************************************************************)
(* The lists of a state.  Nobody has died in _db_dodelete between the two  *)
(* writes that move a record from its chain to the free list.              *)
(***************************************************************************)
Clean == \A p \in Proc \ alive : pc[p] \notin {"d_write_free", "d_write_ptr"}

NX == [o \in 0..(ieof - 1) |-> EffPtr(o)]
LO == [o \in 0..(ieof - 1) |-> ListOf(o)]
LS == {i \in FirstRec..(ieof - 1) : Loose(i)}

\* A process has a loose record, and nobody else has the same.
LooseBy(p) ==
  \/ pc[p] \in LoosePC
  \/ pc[p] = "f_unlock" /\ db[p].offset # 0
  \/ pc[p] = "d_write_free" /\ p \in alive
LooseOnce ==
  \A p, q \in Proc : LooseBy(p) /\ LooseBy(q) /\ db[p].idxoff = db[q].idxoff => p = q

(***************************************************************************)
(* What a process with handle h, at label l, in a call op of a key of      *)
(* chain c, knows of the lists it has locked: where the record it looks    *)
(* at, deletes or reuses is linked, what follows it, and, from             *)
(* s_read_chain on, the head of its chain.                                 *)
(***************************************************************************)
HeadPC == StorePC \ {"s_read_chain", "o_write_dat"}
On(nx, lo, L, e, o, c, v) == o \in Cells(L, e) /\ lo[o] = c /\ nx[o] = v

Knows(l, h, op, c, nx, lo, L, e) ==
  /\ l = "walk" /\ op # "fetch" => On(nx, lo, L, e, h.ptroff, c, h.offset)
  /\ l \in {"d_lock_free", "d_write_dat", "d_read_free", "d_write_idx"} =>
       On(nx, lo, L, e, h.ptroff, c, h.idxoff) /\ nx[h.idxoff] = h.ptrval
  /\ l = "d_write_idx" => h.head = nx[0] /\ h.save = h.ptrval
  /\ l \in {"d_write_free", "d_write_ptr"} => h.ptroff \in Cells(L, e) /\ lo[h.ptroff] = c
  /\ l = "d_write_free" => lo[h.idxoff] = 0 /\ nx[h.idxoff] = nx[0]
  /\ l = "f_walk" => On(nx, lo, L, e, h.save, 0, h.offset)
  /\ l = "f_unlink" => /\ On(nx, lo, L, e, h.save, 0, h.idxoff)
                       /\ nx[h.idxoff] = h.ptrval /\ h.offset # 0
  /\ l \in HeadPC => h.head = nx[c]
  /\ l \in {"a_unlock_idx", "s_write_chain"} => nx[h.idxoff] = h.head /\ lo[h.idxoff] = c

Known(p) == Knows(pc[p], db[p], call[p].op, Chain(p), NX, LO, LS, ieof)

ListsKnown ==
  /\ Shape(NX, LO, LS, ieof) /\ LooseOnce
  /\ \A p \in alive : Known(p)
ListInv == Clean => ListsKnown

\* The offsets p has locked: the cells of the list it works on, those of the
\* free list while it works on that, and its own loose record.
Owns(p, o) ==
  \/ /\ o \in Cells(LS, ieof) /\ LO[o] = Chain(p)
     /\ pc[p] \in ChainPC /\ call[p].op # "fetch"
  \/ o \in Cells(LS, ieof) /\ LO[o] = 0 /\ pc[p] \in FreePC
  \/ LooseBy(p) /\ o = db[p].idxoff

\* The lists in terms of the files and the handles.
Views ==
  /\ ieof \in Nat /\ ieof >= FirstRec /\ LS \subseteq FirstRec..(ieof - 1)
  /\ \A o \in 0..(ieof - 1) : NX[o] = EffPtr(o) /\ LO[o] = ListOf(o)
  /\ \A o : o \in LS <=> \E p \in Proc : LooseBy(p) /\ db[p].idxoff = o
  /\ \A o \in 0..NHash : o \in Cells(LS, ieof) /\ LO[o] = o
  /\ \A p \in Proc : pc[p] \in ChainPC => Chain(p) \in 1..NHash

\* The inductive invariant gives the views their domains.
LEMMA ViewsHold == IndInv => Views
<1> SUFFICES ASSUME IndInv PROVE Views
  OBVIOUS
<1>1. ieof \in Nat /\ ieof >= FirstRec /\ LS \subseteq FirstRec..(ieof - 1)
  BY DEF IndInv, FilesInv, FilesFit, FileType, LS
<1>2. \A o \in 0..(ieof - 1) : NX[o] = EffPtr(o) /\ LO[o] = ListOf(o)
  BY DEF NX, LO
<1>3. \A o : Loose(o) <=> \E p \in Proc : LooseBy(p) /\ db[p].idxoff = o
  BY DEF Loose, LooseBy
<1>4. ASSUME NEW p \in Proc, LooseBy(p) PROVE db[p].idxoff \in FirstRec..(ieof - 1)
  <2>1. Positioned(pc[p], db[p])
    BY DEF IndInv, FilesInv
  <2> QED BY <1>4, <2>1 DEF Positioned, LooseBy, LoosePC, RecordPC, DelPC
<1>5. \A o : o \in LS <=> \E p \in Proc : LooseBy(p) /\ db[p].idxoff = o
  BY <1>3, <1>4 DEF LS
<1>6. ASSUME NEW o \in 0..NHash PROVE o \in Cells(LS, ieof) /\ LO[o] = o
  <2>1. o \in 0..(ieof - 1) /\ o < FirstRec
    BY <1>1, Sizes DEF FirstRec
  <2> QED BY <1>2, <2>1 DEF Cells, ListOf
<1>7. ASSUME NEW p \in Proc, pc[p] \in ChainPC PROVE Chain(p) \in 1..NHash
  <2>1. call[p].key \in Key
    BY <1>7 DEF IndInv, ControlInv, CallOK, KeyedPC
  <2> QED BY <2>1, ArgAssumption DEF Chain
<1> HIDE DEF LS, NX, LO
<1> QED BY <1>1, <1>2, <1>5, <1>6, <1>7 DEF Views

\* The same, after a step.
LEMMA ViewsHoldAfter == IndInv' => Views'
<1>1. IndInv => Views
  BY ViewsHold
<1> QED BY <1>1, PTL

\* Mutual exclusion after a step.
LEMMA ExclusionAfter == IndInv' => MutualExclusion'
<1>1. IndInv => MutualExclusion
  BY ControlExcludes DEF IndInv
<1> QED BY <1>1, PTL

\* At most one process is moving a record to the free list.
LEMMA OneUnlinks ==
  ASSUME NEW o, NEW p \in Proc
  PROVE  /\ MutualExclusion /\ Unlinking(p, o) => EffPtr(o) = db[p].save
         /\ MutualExclusion' /\ Unlinking(p, o)' => EffPtr(o)' = db'[p].save
<1>1. ASSUME MutualExclusion, Unlinking(p, o) PROVE EffPtr(o) = db[p].save
  <2>1. ASSUME NEW q \in Proc, Unlinking(q, o) PROVE q = p
    BY <1>1, <2>1 DEF MutualExclusion, Unlinking, FreePC
  <2> QED BY <1>1, <2>1 DEF EffPtr
<1>2. ASSUME MutualExclusion', Unlinking(p, o)' PROVE EffPtr(o)' = db'[p].save
  <2>1. ASSUME NEW q \in Proc, Unlinking(q, o)' PROVE q = p
    BY <1>2, <2>1 DEF MutualExclusion, Unlinking, FreePC
  <2> QED BY <1>2, <2>1 DEF EffPtr
<1> QED BY <1>1, <1>2

\* Where nobody is unlinking, the pointer in the file counts.
LEMMA NoneUnlinks ==
  ASSUME NEW o
  PROVE  /\ (\A q \in Proc : ~Unlinking(q, o)) => EffPtr(o) = ptr[o]
         /\ (\A q \in Proc : ~Unlinking(q, o)') => EffPtr(o)' = ptr'[o]
BY DEF EffPtr

\* No two processes own the same offset.
LEMMA OwnedOnce ==
  ASSUME IndInv, LooseOnce, NEW p \in alive, NEW q \in alive, p # q,
         NEW o, Owns(p, o), Owns(q, o)
  PROVE  FALSE
<1>1. Views /\ MutualExclusion /\ alive \subseteq Proc
  BY ViewsHold, ControlExcludes DEF IndInv, ControlInv, ControlType
<1>2. p \in Proc /\ q \in Proc /\ FirstRec \in Nat /\ NHash \in Nat
  BY <1>1, Sizes
<1>3. o \in LS => o \notin Cells(LS, ieof)
  BY <1>1, <1>2 DEF Views, Cells
<1>4. /\ pc[p] \in ChainPC => Chain(p) # 0
      /\ pc[q] \in ChainPC => Chain(q) # 0
  BY <1>1, <1>2 DEF Views
<1>5. /\ LooseBy(p) /\ o = db[p].idxoff => o \in LS
      /\ LooseBy(q) /\ o = db[q].idxoff => o \in LS
  BY <1>1, <1>2 DEF Views
<1>6. CASE o \in LS
  BY <1>2, <1>3, <1>6 DEF Owns, LooseOnce
<1>7. CASE o \notin LS
  <2>1. CASE LO[o] = 0
    BY <1>1, <1>4, <1>5, <1>7, <2>1 DEF Owns, MutualExclusion
  <2>2. CASE LO[o] # 0
    BY <1>1, <1>5, <1>7, <2>2 DEF Owns, MutualExclusion
  <2> QED BY <2>1, <2>2
<1> QED BY <1>6, <1>7

\* A loose record is a record of the file.
LEMMA LooseOffset ==
  ASSUME Views, NEW p \in Proc, LooseBy(p)
  PROVE  db[p].idxoff \in LS /\ db[p].idxoff \in 0..(ieof - 1) /\ db[p].idxoff >= FirstRec
<1>1. db[p].idxoff \in LS /\ LS \subseteq FirstRec..(ieof - 1) /\ ieof \in Nat
  BY DEF Views
<1>2. db[p].idxoff \in FirstRec..(ieof - 1) /\ FirstRec \in Nat
  BY <1>1, Sizes
<1> QED BY <1>1, <1>2

\* What p knows is about offsets it owns, so it stays true while they do.
LEMMA KnowledgeStays ==
  ASSUME IndInv, ListsKnown, NEW p \in alive,
         NEW nx, NEW lo, NEW L, NEW e,
         \A o \in 0..(ieof - 1) : Owns(p, o) =>
           nx[o] = NX[o] /\ lo[o] = LO[o] /\ (o \in Cells(LS, ieof) => o \in Cells(L, e))
  PROVE  Knows(pc[p], db[p], call[p].op, Chain(p), nx, lo, L, e)
<1> DEFINE h == db[p]
           Kept(o) == /\ nx[o] = NX[o] /\ lo[o] = LO[o]
                      /\ (o \in Cells(LS, ieof) => o \in Cells(L, e))
<1>1. Views /\ alive \subseteq Proc /\ Known(p) /\ Shape(NX, LO, LS, ieof)
  BY ViewsHold DEF IndInv, ControlInv, ControlType, ListsKnown
<1>2. p \in Proc /\ FirstRec \in Nat /\ NHash \in Nat /\ FirstRec > NHash
  BY <1>1, Sizes
<1>3. CallOK(p) /\ Positioned(pc[p], h)
  BY <1>2 DEF IndInv, ControlInv, FilesInv
<1>4. ASSUME NEW o \in Cells(LS, ieof), Owns(p, o) PROVE Kept(o) /\ o \in Cells(L, e)
  BY <1>4 DEF Cells
<1>5. ASSUME LooseBy(p) PROVE Kept(h.idxoff)
  <2>1. h.idxoff \in 0..(ieof - 1)
    BY <1>1, <1>2, <1>5, LooseOffset
  <2> QED BY <1>5, <2>1 DEF Owns
<1>6. ASSUME NEW o, On(NX, LO, LS, ieof, o, Chain(p), NX[o]), pc[p] \in ChainPC,
             call[p].op # "fetch"
      PROVE  /\ On(nx, lo, L, e, o, Chain(p), NX[o])
             /\ NX[o] # 0 => Kept(NX[o])
  <2>1. Kept(o) /\ o \in Cells(L, e)
    BY <1>4, <1>6 DEF On, Owns
  <2>2. ASSUME NX[o] # 0 PROVE Kept(NX[o])
    <3>1. NX[o] \in Cells(LS, ieof) /\ LO[NX[o]] = Chain(p)
      BY <1>1, <1>2, <1>6, <2>2 DEF Shape, Apart, On, Cells
    <3> QED BY <1>4, <1>6, <3>1 DEF Owns
  <2> HIDE DEF Kept
  <2>3. On(nx, lo, L, e, o, Chain(p), NX[o])
    BY <1>6, <2>1 DEF On, Kept
  <2> QED BY <2>2, <2>3
<1>7. ASSUME NEW o, On(NX, LO, LS, ieof, o, 0, NX[o]), pc[p] \in FreePC
      PROVE  /\ On(nx, lo, L, e, o, 0, NX[o])
             /\ NX[o] # 0 => Kept(NX[o])
  <2>1. Kept(o) /\ o \in Cells(L, e)
    BY <1>4, <1>7 DEF On, Owns
  <2>2. ASSUME NX[o] # 0 PROVE Kept(NX[o])
    <3>1. NX[o] \in Cells(LS, ieof) /\ LO[NX[o]] = 0
      BY <1>1, <1>2, <1>7, <2>2 DEF Shape, Apart, On, Cells
    <3> QED BY <1>4, <1>7, <3>1 DEF Owns
  <2> HIDE DEF Kept
  <2>3. On(nx, lo, L, e, o, 0, NX[o])
    BY <1>7, <2>1 DEF On, Kept
  <2> QED BY <2>2, <2>3
<1>8. ASSUME pc[p] \in FreePC PROVE Kept(0)
  <2>1. 0 \in Cells(LS, ieof) /\ LO[0] = 0
    BY <1>1, <1>2 DEF Views
  <2> QED BY <1>4, <1>8, <2>1 DEF Owns
<1>9. ASSUME pc[p] \in ChainPC, call[p].op # "fetch" PROVE Kept(Chain(p))
  <2>1. Chain(p) \in Cells(LS, ieof) /\ LO[Chain(p)] = Chain(p)
    BY <1>1, <1>2, <1>9 DEF Views
  <2> QED BY <1>4, <1>9, <2>1 DEF Owns
<1>10. /\ pc[p] \in DelPC \cup StorePC => call[p].op # "fetch" /\ pc[p] \in ChainPC
       /\ pc[p] \in DelPC \cup {"f_unlink"} => h.idxoff # 0
  <2>1. pc[p] \in DelPC \cup StorePC => call[p].op # "fetch"
    BY <1>3 DEF CallOK
  <2>2. pc[p] \in DelPC \cup StorePC => pc[p] \in ChainPC
    BY DEF DelPC, StorePC, ChainPC
  <2>3. pc[p] \in DelPC \cup {"f_unlink"} => h.idxoff # 0
    BY <1>2, <1>3 DEF Positioned, RecordPC
  <2> QED BY <2>1, <2>2, <2>3
<1>11. Knows(pc[p], h, call[p].op, Chain(p), NX, LO, LS, ieof)
  BY <1>1 DEF Known
<1>12. pc[p] = "walk" /\ call[p].op # "fetch" =>
         On(nx, lo, L, e, h.ptroff, Chain(p), h.offset)
  BY <1>6, <1>11 DEF Knows, On, ChainPC
<1>13. pc[p] \in {"d_lock_free", "d_write_dat", "d_read_free", "d_write_idx"} =>
         On(nx, lo, L, e, h.ptroff, Chain(p), h.idxoff) /\ nx[h.idxoff] = h.ptrval
  <2> SUFFICES ASSUME pc[p] \in {"d_lock_free", "d_write_dat", "d_read_free", "d_write_idx"}
               PROVE  /\ On(nx, lo, L, e, h.ptroff, Chain(p), h.idxoff)
                      /\ nx[h.idxoff] = h.ptrval
    OBVIOUS
  <2>1. pc[p] \in DelPC
    BY DEF DelPC
  <2>2. On(NX, LO, LS, ieof, h.ptroff, Chain(p), h.idxoff) /\ NX[h.idxoff] = h.ptrval
    BY <1>11 DEF Knows
  <2>3. NX[h.ptroff] = h.idxoff /\ h.idxoff # 0
    BY <1>10, <2>1, <2>2 DEF On
  <2> QED BY <1>6, <1>10, <2>1, <2>2, <2>3
<1>14. pc[p] = "d_write_idx" => h.head = nx[0] /\ h.save = h.ptrval
  BY <1>8, <1>11 DEF Knows, FreePC
<1>15. pc[p] \in {"d_write_free", "d_write_ptr"} =>
         h.ptroff \in Cells(L, e) /\ lo[h.ptroff] = Chain(p)
  <2> SUFFICES ASSUME pc[p] \in {"d_write_free", "d_write_ptr"}
               PROVE  h.ptroff \in Cells(L, e) /\ lo[h.ptroff] = Chain(p)
    OBVIOUS
  <2>1. h.ptroff \in Cells(LS, ieof) /\ LO[h.ptroff] = Chain(p)
    BY <1>11 DEF Knows
  <2> QED BY <1>4, <1>10, <2>1 DEF Owns, DelPC
<1>16. pc[p] = "d_write_free" => lo[h.idxoff] = 0 /\ nx[h.idxoff] = nx[0]
  BY <1>5, <1>8, <1>11 DEF Knows, LooseBy, FreePC
<1>17. pc[p] = "f_walk" => On(nx, lo, L, e, h.save, 0, h.offset)
  BY <1>7, <1>11 DEF Knows, On, FreePC
<1>18. pc[p] = "f_unlink" => /\ On(nx, lo, L, e, h.save, 0, h.idxoff)
                             /\ nx[h.idxoff] = h.ptrval /\ h.offset # 0
  <2> SUFFICES ASSUME pc[p] = "f_unlink"
               PROVE  /\ On(nx, lo, L, e, h.save, 0, h.idxoff)
                      /\ nx[h.idxoff] = h.ptrval /\ h.offset # 0
    OBVIOUS
  <2>1. /\ On(NX, LO, LS, ieof, h.save, 0, h.idxoff) /\ NX[h.idxoff] = h.ptrval
        /\ h.offset # 0
    BY <1>11 DEF Knows
  <2>2. NX[h.save] = h.idxoff /\ h.idxoff # 0 /\ pc[p] \in FreePC
    BY <1>10, <2>1 DEF On, FreePC
  <2> QED BY <1>7, <2>1, <2>2
<1>19. pc[p] \in HeadPC => h.head = nx[Chain(p)]
  BY <1>9, <1>10, <1>11 DEF Knows, HeadPC
<1>20. pc[p] \in {"a_unlock_idx", "s_write_chain"} =>
         nx[h.idxoff] = h.head /\ lo[h.idxoff] = Chain(p)
  BY <1>5, <1>11 DEF Knows, LooseBy, LoosePC
<1> QED BY <1>12, <1>13, <1>14, <1>15, <1>16, <1>17, <1>18, <1>19, <1>20 DEF Knows

\* A pointer that p owns and is not moving is read as it is in the file.
LEMMA ReadsOwn ==
  ASSUME IndInv, ListsKnown, NEW p \in alive, NEW o \in 0..(ieof - 1), Owns(p, o)
  PROVE  /\ \A q \in Proc \ {p} : ~Unlinking(q, o)
         /\ ~Unlinking(p, o) => NX[o] = ptr[o]
<1>1. Views /\ alive \subseteq Proc /\ LooseOnce
  BY ViewsHold DEF IndInv, ControlInv, ControlType, ListsKnown
<1>2. ASSUME NEW q \in Proc, q # p, Unlinking(q, o) PROVE FALSE
  <2>1. q \in alive /\ db[q].ptroff = o /\ pc[q] \in {"d_write_free", "d_write_ptr"}
    BY <1>2 DEF Unlinking
  <2>2. o \in Cells(LS, ieof) /\ LO[o] = Chain(q)
    BY <2>1 DEF ListsKnown, Known, Knows
  <2>3. call[q].op # "fetch" /\ pc[q] \in ChainPC
    BY <2>1 DEF IndInv, ControlInv, CallOK, DelPC, ChainPC
  <2>4. Owns(q, o)
    BY <2>2, <2>3 DEF Owns
  <2> QED BY <1>1, <1>2, <2>1, <2>4, OwnedOnce
<1>3. ASSUME ~Unlinking(p, o) PROVE NX[o] = ptr[o]
  <2>1. EffPtr(o) = ptr[o]
    BY <1>2, <1>3, NoneUnlinks
  <2> QED BY <1>1, <2>1 DEF Views
<1> QED BY <1>2, <1>3

(***************************************************************************)
(* One step.  OnlyBy(p) is a step of p alone in which nobody dies.         *)
(***************************************************************************)
OnlyBy(p) ==
  /\ p \in alive /\ alive' = alive
  /\ \A q \in Proc \ {p} : pc'[q] = pc[q] /\ db'[q] = db[q] /\ call'[q] = call[q]

\* A step of p changes only its own loose record.
LEMMA LooseAfter ==
  ASSUME Views, Views', LooseOnce, NEW p \in Proc, OnlyBy(p)
  PROVE  /\ ~LooseBy(p) /\ ~LooseBy(p)' => LS' = LS
         /\ LooseBy(p) /\ LooseBy(p)' /\ db'[p].idxoff = db[p].idxoff => LS' = LS
         /\ LooseBy(p) /\ ~LooseBy(p)' => LS' = LS \ {db[p].idxoff}
         /\ ~LooseBy(p) /\ LooseBy(p)' => LS' = LS \cup {db'[p].idxoff}
<1>1. \A q \in Proc \ {p} : LooseBy(q)' = LooseBy(q) /\ db'[q].idxoff = db[q].idxoff
  BY DEF OnlyBy, LooseBy
<1>2. \A o : o \in LS <=> \/ LooseBy(p) /\ db[p].idxoff = o
                          \/ \E q \in Proc \ {p} : LooseBy(q) /\ db[q].idxoff = o
  BY DEF Views
<1>3. \A o : o \in LS' <=> \/ LooseBy(p)' /\ db'[p].idxoff = o
                           \/ \E q \in Proc \ {p} : LooseBy(q) /\ db[q].idxoff = o
  BY <1>1 DEF Views
<1>4. LooseBy(p) => \A q \in Proc \ {p} : ~(LooseBy(q) /\ db[q].idxoff = db[p].idxoff)
  BY DEF LooseOnce
<1>5. ASSUME ~LooseBy(p), ~LooseBy(p)' PROVE LS' = LS
  BY <1>2, <1>3, <1>5
<1>6. ASSUME LooseBy(p), LooseBy(p)', db'[p].idxoff = db[p].idxoff PROVE LS' = LS
  BY <1>2, <1>3, <1>6
<1>7. ASSUME LooseBy(p), ~LooseBy(p)' PROVE LS' = LS \ {db[p].idxoff}
  BY <1>2, <1>3, <1>4, <1>7
<1>8. ASSUME ~LooseBy(p), LooseBy(p)' PROVE LS' = LS \cup {db'[p].idxoff}
  BY <1>2, <1>3, <1>8
<1> QED BY <1>5, <1>6, <1>7, <1>8

\* No two processes get hold of one loose record.
LEMMA LooseOnceAfter ==
  ASSUME Views, LooseOnce, NEW p \in Proc, OnlyBy(p),
         LooseBy(p)' => \/ LooseBy(p) /\ db'[p].idxoff = db[p].idxoff
                        \/ db'[p].idxoff \notin LS
  PROVE  LooseOnce'
<1>1. \A q \in Proc \ {p} : LooseBy(q)' = LooseBy(q) /\ db'[q].idxoff = db[q].idxoff
  BY DEF OnlyBy, LooseBy
<1>2. ASSUME NEW q \in Proc \ {p}, LooseBy(q)', LooseBy(p)', db'[q].idxoff = db'[p].idxoff
      PROVE  FALSE
  <2>1. LooseBy(q) /\ db[q].idxoff = db'[p].idxoff
    BY <1>1, <1>2
  <2>2. db'[p].idxoff \in LS
    BY <2>1, LooseOffset
  <2> QED BY <1>2, <2>1, <2>2 DEF LooseOnce
<1>3. ASSUME NEW q \in Proc, NEW r \in Proc, LooseBy(q)', LooseBy(r)',
             db'[q].idxoff = db'[r].idxoff, q # r
      PROVE  FALSE
  BY <1>1, <1>2, <1>3 DEF LooseOnce
<1> QED BY <1>3 DEF LooseOnce

\* Only the pointers of S, which p owns, change.
LEMMA PointersAfter ==
  ASSUME IndInv, IndInv', ListsKnown, NEW p \in Proc, OnlyBy(p),
         pc[p] \notin {"d_write_free", "d_write_ptr"},
         pc'[p] \notin {"d_write_free", "d_write_ptr"},
         NEW S, \A o \in S : o \in 0..(ieof - 1) => Owns(p, o),
         \A o \in 0..(ieof - 1) : o \notin S => ptr'[o] = ptr[o],
         ieof' >= ieof
  PROVE  \A o \in 0..(ieof' - 1) :
           NX'[o] = IF o \in S \/ o >= ieof THEN ptr'[o] ELSE NX[o]
<1>1. Views /\ Views' /\ MutualExclusion /\ MutualExclusion'
  BY ViewsHold, ViewsHoldAfter, ExclusionAfter, ControlExcludes DEF IndInv
<1>2. \A q \in Proc : \A o : Unlinking(q, o)' = Unlinking(q, o)
  BY DEF OnlyBy, Unlinking
<1>3. \A q \in Proc : \A o : Unlinking(q, o) => db'[q].save = db[q].save
  BY DEF OnlyBy, Unlinking
<1>4. ASSUME NEW q \in Proc, NEW o, Unlinking(q, o) PROVE o \in 0..(ieof - 1)
  <2>1. q \in alive /\ pc[q] \in {"d_write_free", "d_write_ptr"} /\ o = db[q].ptroff
    BY <1>4 DEF Unlinking
  <2>2. o \in Cells(LS, ieof)
    BY <2>1 DEF ListsKnown, Known, Knows
  <2> QED BY <2>2 DEF Cells
<1>5. ASSUME NEW q \in Proc, NEW o \in S, Unlinking(q, o) PROVE FALSE
  <2>1. o \in 0..(ieof - 1) /\ Owns(p, o)
    BY <1>4, <1>5
  <2>2. q = p
    BY <1>5, <2>1, ReadsOwn DEF OnlyBy
  <2> QED BY <1>5, <2>2 DEF Unlinking
<1> SUFFICES ASSUME NEW o \in 0..(ieof' - 1)
             PROVE  NX'[o] = IF o \in S \/ o >= ieof THEN ptr'[o] ELSE NX[o]
  OBVIOUS
<1>6. ieof \in Nat /\ ieof' \in Nat /\ NX'[o] = EffPtr(o)'
  BY <1>1 DEF Views
<1>7. o < ieof => o \in 0..(ieof - 1) /\ NX[o] = EffPtr(o)
  BY <1>1, <1>6 DEF Views
<1>8. CASE \A q \in Proc : ~Unlinking(q, o)
  <2>1. EffPtr(o)' = ptr'[o] /\ EffPtr(o) = ptr[o]
    BY <1>2, <1>8, NoneUnlinks
  <2> QED BY <1>6, <1>7, <2>1
<1>9. ASSUME NEW q \in Proc, Unlinking(q, o)
      PROVE  NX'[o] = IF o \in S \/ o >= ieof THEN ptr'[o] ELSE NX[o]
  <2>1. o \in 0..(ieof - 1) /\ o \notin S
    BY <1>4, <1>5, <1>9
  <2>2. EffPtr(o) = db[q].save /\ EffPtr(o)' = db'[q].save /\ db'[q].save = db[q].save
    BY <1>1, <1>2, <1>3, <1>9, OneUnlinks
  <2> QED BY <1>6, <1>7, <2>1, <2>2
<1> QED BY <1>8, <1>9

\* What a step of p has to show: it changes only what p owns, the lists keep
\* their shape, and p knows what its new label says.
LEMMA StepKeepsLists ==
  ASSUME IndInv, ListsKnown, NEW p \in Proc, OnlyBy(p),
         \A o \in 0..(ieof - 1) : ~Owns(p, o) =>
           /\ NX'[o] = NX[o] /\ LO'[o] = LO[o]
           /\ o \in Cells(LS, ieof) => o \in Cells(LS', ieof'),
         Shape(NX', LO', LS', ieof'),
         LooseBy(p)' => \/ LooseBy(p) /\ db'[p].idxoff = db[p].idxoff
                        \/ db'[p].idxoff \notin LS,
         Known(p)'
  PROVE  ListsKnown'
<1>1. Views /\ LooseOnce /\ alive \subseteq Proc
  BY ViewsHold DEF ListsKnown, IndInv, ControlInv, ControlType
<1>2. LooseOnce'
  BY <1>1, LooseOnceAfter
<1>3. ASSUME NEW q \in alive, q # p PROVE Known(q)'
  <2>1. \A o \in 0..(ieof - 1) : Owns(q, o) => ~Owns(p, o)
    BY <1>1, <1>3, OwnedOnce DEF OnlyBy
  <2>2. Knows(pc[q], db[q], call[q].op, Chain(q), NX', LO', LS', ieof')
    BY <2>1, KnowledgeStays
  <2>3. pc'[q] = pc[q] /\ db'[q] = db[q] /\ call'[q] = call[q] /\ Chain(q)' = Chain(q)
    BY <1>1, <1>3 DEF OnlyBy, Chain
  <2> QED BY <2>2, <2>3 DEF Known
<1> QED BY <1>2, <1>3 DEF ListsKnown, OnlyBy

\* A step that changes no list.
LEMMA StillKeepsLists ==
  ASSUME IndInv, IndInv', ListsKnown, NEW p \in Proc, OnlyBy(p),
         ptr' = ptr, rec' = rec, ieof' = ieof,
         pc[p] \notin {"d_write_free", "d_write_ptr"},
         pc'[p] \notin {"d_write_free", "d_write_ptr"},
         LooseBy(p)' = LooseBy(p), LooseBy(p) => db'[p].idxoff = db[p].idxoff,
         Knows(pc'[p], db'[p], call'[p].op, Chain(p)', NX, LO, LS, ieof)
  PROVE  ListsKnown'
<1>1. Views /\ Views' /\ LooseOnce
  BY ViewsHold, ViewsHoldAfter DEF ListsKnown
<1>2. LS' = LS
  BY <1>1, LooseAfter
<1>3. LO' = LO
  BY DEF LO, ListOf
<1>4. \A o \in 0..(ieof - 1) : NX'[o] = NX[o]
  <2>1. ieof \in Nat
    BY <1>1 DEF Views
  <2>2. PICK S : S = {}
    OBVIOUS
  <2>3. /\ \A o \in S : o \in 0..(ieof - 1) => Owns(p, o)
        /\ \A o \in 0..(ieof - 1) : o \notin S => ptr'[o] = ptr[o]
        /\ ieof' >= ieof
    BY <2>1, <2>2
  <2>4. \A o \in 0..(ieof' - 1) : NX'[o] = IF o \in S \/ o >= ieof THEN ptr'[o] ELSE NX[o]
    BY <2>3, PointersAfter, Zenon
  <2> QED BY <2>1, <2>2, <2>4
<1>5. NX' = NX
  <2>1. \A o \in 0..(ieof - 1) : EffPtr(o)' = EffPtr(o)
    BY <1>4 DEF NX
  <2> QED BY <2>1 DEF NX
<1> QED BY <1>2, <1>3, <1>5, StepKeepsLists DEF ListsKnown, Known

\* A process that has a loose record, by its label and handle.
HasLoose(l, h) == l \in LoosePC \/ (l = "f_unlock" /\ h.offset # 0)

\* The labels at which a process knows nothing of the lists.
VaguePC == {"idle", "lock_chain", "read_chain", "read_dat", "unlock", "o_write_dat",
            "s_read_chain", "d_unlock_free", "n_lock", "n_read", "n_read_dat", "n_unlock"}
LEMMA Vague ==
  ASSUME NEW l \in VaguePC
  PROVE  \A h, op, c, nx, lo, L, e : Knows(l, h, op, c, nx, lo, L, e)
BY DEF VaguePC, Knows, HeadPC, StorePC

\* A step that moves p from one label to another and its handle to h.
LEMMA MoveFacts ==
  ASSUME IndInv, NEW p \in Proc, NEW from, NEW to, NEW h,
         Transition(p, from, to), alive' = alive, db' = [db EXCEPT ![p] = h],
         call' = call
  PROVE  /\ OnlyBy(p) /\ pc[p] = from /\ pc'[p] = to /\ db'[p] = h /\ Chain(p)' = Chain(p)
         /\ db[p] \in HandleType /\ call'[p] = call[p]
BY Facts DEF Transition, OnlyBy, Chain

\* A step of p that writes nothing, and after which p knows what its label asks.
LEMMA QuietKeepsLists ==
  ASSUME IndInv, IndInv', ListsKnown, NEW p \in Proc, NEW from, NEW to, NEW h,
         Transition(p, from, to), db' = [db EXCEPT ![p] = h],
         UNCHANGED <<ptr, rec, ieof, call, alive>>,
         from \notin {"d_write_free", "d_write_ptr"}, to \notin {"d_write_free", "d_write_ptr"},
         HasLoose(to, h) <=> HasLoose(from, db[p]),
         HasLoose(to, h) => h.idxoff = db[p].idxoff,
         Knows(to, h, call[p].op, Chain(p), NX, LO, LS, ieof)
  PROVE  ListsKnown'
<1>1. /\ OnlyBy(p) /\ pc[p] = from /\ pc'[p] = to /\ db'[p] = h /\ Chain(p)' = Chain(p)
      /\ call'[p] = call[p]
  BY MoveFacts
<1>2. LooseBy(p) <=> HasLoose(from, db[p])
  BY <1>1 DEF LooseBy, HasLoose
<1>3. LooseBy(p)' <=> HasLoose(to, h)
  BY <1>1 DEF LooseBy, HasLoose
<1>4. LooseBy(p) \in BOOLEAN /\ LooseBy(p)' \in BOOLEAN
  BY DEF LooseBy
<1>5. LooseBy(p)' = LooseBy(p) /\ (LooseBy(p) => db'[p].idxoff = db[p].idxoff)
  BY <1>1, <1>2, <1>3, <1>4
<1> QED BY <1>1, <1>5, StillKeepsLists

\* The same for a step that reads into the handle.
LEMMA ReadKeepsLists ==
  ASSUME IndInv, IndInv', ListsKnown, NEW p \in Proc, NEW from, NEW to, NEW h,
         Transition(p, from, to), ReadStep(p, h),
         from \notin {"d_write_free", "d_write_ptr"}, to \notin {"d_write_free", "d_write_ptr"},
         from \notin LoosePC \cup {"f_unlock"}, to \notin LoosePC,
         to = "f_unlock" => h.offset = 0,
         Knows(to, h, call[p].op, Chain(p), NX, LO, LS, ieof)
  PROVE  ListsKnown'
<1>1. ~HasLoose(to, h) /\ ~HasLoose(from, db[p])
  BY DEF HasLoose
<1>2. UNCHANGED <<ptr, rec, ieof, call, alive>> /\ db' = [db EXCEPT ![p] = h]
  BY DEF ReadStep
<1> QED BY <1>1, <1>2, QuietKeepsLists

\* A step of p that changes its label only.
LEMMA SameHandleKeepsLists ==
  ASSUME IndInv, IndInv', ListsKnown, NEW p \in Proc, NEW from, NEW to,
         Transition(p, from, to), UNCHANGED <<ptr, rec, ieof, call, db, alive>>,
         from \notin {"d_write_free", "d_write_ptr"}, to \notin {"d_write_free", "d_write_ptr"},
         HasLoose(to, db[p]) <=> HasLoose(from, db[p]),
         Knows(to, db[p], call[p].op, Chain(p), NX, LO, LS, ieof)
  PROVE  ListsKnown'
<1>1. db' = [db EXCEPT ![p] = db[p]]
  BY Facts
<1>2. UNCHANGED <<ptr, rec, ieof, call, alive>>
  OBVIOUS
<1> QED BY <1>1, <1>2, QuietKeepsLists

\* The beginning and the end of a call.
LEMMA ResetKeepsLists ==
  ASSUME IndInv, IndInv', ListsKnown, NEW p \in Proc, OnlyBy(p),
         UNCHANGED <<ptr, rec, ieof>>,
         pc[p] \in VaguePC, pc'[p] \in VaguePC
  PROVE  ListsKnown'
<1>1. Knows(pc'[p], db'[p], call'[p].op, Chain(p)', NX, LO, LS, ieof)
  BY Vague
<1>2. ~LooseBy(p) /\ ~LooseBy(p)'
  BY DEF LooseBy, LoosePC, VaguePC
<1>3. /\ pc[p] \notin {"d_write_free", "d_write_ptr"}
      /\ pc'[p] \notin {"d_write_free", "d_write_ptr"}
  BY DEF VaguePC
<1>4. LooseBy(p) = FALSE /\ LooseBy(p)' = FALSE
  BY <1>2 DEF LooseBy
<1> QED BY <1>1, <1>2, <1>3, <1>4, StillKeepsLists

\* What p reads from a list it has locked: the pointer of a cell, and after it
\* that of the record it leads to.
LEMMA ReadsChain ==
  ASSUME IndInv, ListsKnown, NEW p \in alive, pc[p] \in ChainPC, call[p].op # "fetch",
         pc[p] \notin {"d_write_free", "d_write_ptr"},
         NEW o, o \in Cells(LS, ieof), LO[o] = Chain(p)
  PROVE  /\ NX[o] = ptr[o]
         /\ ptr[o] # 0 => On(NX, LO, LS, ieof, ptr[o], Chain(p), ptr[ptr[o]])
<1>1. Shape(NX, LO, LS, ieof) /\ Views /\ FirstRec \in Nat
  BY ViewsHold, Sizes DEF ListsKnown
<1>2. ASSUME NEW i, i \in Cells(LS, ieof), LO[i] = Chain(p) PROVE NX[i] = ptr[i]
  <2>1. i \in 0..(ieof - 1) /\ Owns(p, i) /\ ~Unlinking(p, i)
    BY <1>2 DEF Cells, Owns, Unlinking
  <2> QED BY <2>1, ReadsOwn
<1>3. ASSUME ptr[o] # 0 PROVE On(NX, LO, LS, ieof, ptr[o], Chain(p), ptr[ptr[o]])
  <2>1. /\ NX[o] \in FirstRec..(ieof - 1) /\ NX[o] \notin LS /\ LO[NX[o]] = Chain(p)
        /\ NX[o] = ptr[o]
    BY <1>1, <1>2, <1>3 DEF Shape, Apart
  <2>2. NX[o] \in Cells(LS, ieof)
    BY <1>1, <2>1 DEF Cells
  <2> QED BY <1>2, <2>1, <2>2 DEF On
<1> QED BY <1>2, <1>3

\* With the free list locked, p reads the pointers that count.
LEMMA ReadsFree ==
  ASSUME IndInv, ListsKnown, NEW p \in alive, pc[p] \in FreePC,
         pc[p] \notin {"d_write_free", "d_write_ptr"},
         NEW o, o \in Cells(LS, ieof), LO[o] = 0
  PROVE  /\ NX[o] = ptr[o]
         /\ ptr[o] # 0 => On(NX, LO, LS, ieof, ptr[o], 0, ptr[ptr[o]])
<1>1. Shape(NX, LO, LS, ieof) /\ Views /\ FirstRec \in Nat
  BY ViewsHold, Sizes DEF ListsKnown
<1>2. ASSUME NEW i, i \in Cells(LS, ieof), LO[i] = 0 PROVE NX[i] = ptr[i]
  <2>1. i \in 0..(ieof - 1) /\ Owns(p, i) /\ ~Unlinking(p, i)
    BY <1>2 DEF Cells, Owns, Unlinking
  <2> QED BY <2>1, ReadsOwn
<1>3. ASSUME ptr[o] # 0 PROVE On(NX, LO, LS, ieof, ptr[o], 0, ptr[ptr[o]])
  <2>1. /\ NX[o] \in FirstRec..(ieof - 1) /\ NX[o] \notin LS /\ LO[NX[o]] = 0
        /\ NX[o] = ptr[o]
    BY <1>1, <1>2, <1>3 DEF Shape, Apart
  <2>2. NX[o] \in Cells(LS, ieof)
    BY <1>1, <2>1 DEF Cells
  <2> QED BY <1>2, <2>1, <2>2 DEF On
<1> QED BY <1>2, <1>3

\* _db_find_and_lock and db_fetch.
LEMMA FindKeepsLists ==
  ASSUME IndInv, IndInv', ListsKnown, NEW p \in Proc, Find(p)
  PROVE  ListsKnown'
<1>1. Views /\ alive \subseteq Proc /\ CallOK(p) /\ db[p] \in HandleType
  BY ViewsHold, Facts
<1>2. \A l \in ChainPC : pc[p] = l => Chain(p) \in Cells(LS, ieof) /\ LO[Chain(p)] = Chain(p)
  BY <1>1, Sizes DEF Views
<1>3. CASE LockChain(p)
  <2>1. Transition(p, "lock_chain", "read_chain") /\ LockStep
    BY <1>3 DEF LockChain
  <2>2. Knows("read_chain", db[p], call[p].op, Chain(p), NX, LO, LS, ieof)
    BY Vague DEF VaguePC
  <2> QED BY <2>1, <2>2, SameHandleKeepsLists DEF LockStep, HasLoose, LoosePC
<1>4. CASE ReadChain(p)
  <2>1. PICK h : h = [db[p] EXCEPT !.ptroff = Chain(p), !.offset = ptr[Chain(p)], !.fpos = 0]
    OBVIOUS
  <2>2. Transition(p, "read_chain", "walk") /\ ReadStep(p, h)
    BY <1>4, <2>1 DEF ReadChain
  <2>3. h.ptroff = Chain(p) /\ h.offset = ptr[Chain(p)]
    BY <1>1, <2>1 DEF HandleType
  <2>4. p \in alive /\ pc[p] \in ChainPC /\ pc[p] = "read_chain"
    BY <2>2 DEF Transition, ChainPC
  <2>5. call[p].op # "fetch" => On(NX, LO, LS, ieof, h.ptroff, Chain(p), h.offset)
    BY <1>2, <2>3, <2>4, ReadsChain DEF On
  <2>6. Knows("walk", h, call[p].op, Chain(p), NX, LO, LS, ieof)
    BY <2>5 DEF Knows, HeadPC, StorePC
  <2> QED BY <2>2, <2>6, ReadKeepsLists DEF LoosePC
<1>5. ASSUME pc[p] = "walk", call[p].op # "fetch", db[p].offset # 0, p \in alive
      PROVE  LET o == db[p].offset IN
             /\ On(NX, LO, LS, ieof, db[p].ptroff, Chain(p), o)
             /\ On(NX, LO, LS, ieof, o, Chain(p), ptr[o])
  <2>1. On(NX, LO, LS, ieof, db[p].ptroff, Chain(p), db[p].offset)
    BY <1>5 DEF ListsKnown, Known, Knows
  <2>2. pc[p] \in ChainPC
    BY <1>5 DEF ChainPC
  <2>3. ptr[db[p].ptroff] = db[p].offset
    BY <1>5, <2>1, <2>2, ReadsChain DEF On
  <2> QED BY <1>5, <2>1, <2>2, <2>3, ReadsChain DEF On
<1>6. CASE WalkNext(p)
  <2> DEFINE o == db[p].offset
             g == ReadIdx(db[p], o)
  <2>1. PICK h : h = [g EXCEPT !.ptroff = o, !.offset = ptr[o]]
    OBVIOUS
  <2>2. Transition(p, "walk", "walk") /\ ReadStep(p, h) /\ o # 0
    BY <1>6, <2>1 DEF WalkNext
  <2>3. h.ptroff = o /\ h.offset = ptr[o]
    <3>1. DOMAIN g = DOMAIN db[p]
      BY <1>1, ReadIdxFields
    <3> HIDE DEF g
    <3> QED BY <1>1, <2>1, <3>1 DEF HandleType
  <2>4. p \in alive /\ pc[p] = "walk"
    BY <2>2 DEF Transition
  <2>5. call[p].op # "fetch" => On(NX, LO, LS, ieof, h.ptroff, Chain(p), h.offset)
    BY <1>5, <2>2, <2>3, <2>4
  <2>6. Knows("walk", h, call[p].op, Chain(p), NX, LO, LS, ieof)
    BY <2>5 DEF Knows, HeadPC, StorePC
  <2> QED BY <2>2, <2>6, ReadKeepsLists DEF LoosePC
<1>7. CASE WalkFound(p)
  <2> DEFINE o == db[p].offset
             g == ReadIdx(db[p], o)
             h == [g EXCEPT !.found = TRUE]
  <2>1. PICK to \in {"read_dat", "unlock", "d_lock_free", "o_write_dat"},
             f \in {h, [h EXCEPT !.ret = Reply("exists", NoKey, NoData)]} :
          /\ Transition(p, "walk", to) /\ ReadStep(p, f) /\ o # 0
          /\ to = "d_lock_free" => f = h /\ call[p].op # "fetch"
    BY <1>7 DEF WalkFound
  <2>2. CASE to # "d_lock_free"
    <3>1. Knows(to, f, call[p].op, Chain(p), NX, LO, LS, ieof)
      BY <2>2, Vague DEF VaguePC
    <3> HIDE DEF h
    <3> QED BY <2>1, <3>1, ReadKeepsLists DEF LoosePC
  <2>3. CASE to = "d_lock_free"
    <3>1. /\ g.idxoff = o /\ g.ptrval = ptr[o] /\ g.ptroff = db[p].ptroff
          /\ DOMAIN g = DOMAIN db[p]
      BY <1>1, ReadIdxFields
    <3> HIDE DEF g
    <3>2. h.idxoff = o /\ h.ptrval = ptr[o] /\ h.ptroff = db[p].ptroff
      BY <1>1, <3>1 DEF HandleType
    <3> HIDE DEF h
    <3>3. p \in alive /\ pc[p] = "walk"
      BY <2>1 DEF Transition
    <3>4. /\ On(NX, LO, LS, ieof, h.ptroff, Chain(p), h.idxoff)
          /\ NX[h.idxoff] = h.ptrval
      BY <1>5, <2>1, <2>3, <3>2, <3>3 DEF On
    <3>5. Knows(to, f, call[p].op, Chain(p), NX, LO, LS, ieof)
      BY <2>1, <2>3, <3>4 DEF Knows, HeadPC, StorePC
    <3> QED BY <2>1, <2>3, <3>5, ReadKeepsLists DEF LoosePC
  <2> QED BY <2>2, <2>3
<1>8. CASE WalkEnd(p)
  <2>1. PICK to \in {"s_read_chain", "unlock"},
             h \in {db[p], Answer(p, "error", NoKey, NoData)} :
          Transition(p, "walk", to) /\ ReadStep(p, h)
    BY <1>8 DEF WalkEnd
  <2>2. Knows(to, h, call[p].op, Chain(p), NX, LO, LS, ieof)
    BY Vague DEF VaguePC
  <2> QED BY <2>1, <2>2, ReadKeepsLists DEF LoosePC
<1>9. CASE FetchDat(p)
  <2>1. \A h : Knows("unlock", h, call[p].op, Chain(p), NX, LO, LS, ieof)
    BY Vague DEF VaguePC
  <2> QED BY <1>9, <2>1, ReadKeepsLists DEF FetchDat, LoosePC
<1>10. CASE Unlock(p)
  <2>1. /\ OnlyBy(p) /\ UNCHANGED <<ptr, rec, ieof>> /\ pc[p] = "unlock" /\ pc'[p] = "idle"
    BY <1>10, Facts DEF Unlock, Transition, idxvars, datvars, OnlyBy
  <2> QED BY <2>1, ResetKeepsLists DEF VaguePC
<1> QED BY <1>3, <1>4, <1>6, <1>7, <1>8, <1>9, <1>10 DEF Find

\* The write of a pointer that p owns, which makes its record loose or links it.
LEMMA PtrWriteLists ==
  ASSUME IndInv, IndInv', NEW p \in Proc, NEW o, NEW v, NEW from, NEW to, NEW h,
         Transition(p, from, to), WritePtr(p, o, v, h), h \in HandleType,
         o \in 0..(ieof - 1)
  PROVE  /\ OnlyBy(p) /\ pc[p] = from /\ pc'[p] = to /\ p \in alive
         /\ ieof' = ieof /\ LO' = LO /\ Chain(p)' = Chain(p) /\ call'[p] = call[p]
         /\ ptr'[o] = v /\ \A i \in 0..(ieof - 1) : i # o => ptr'[i] = ptr[i]
         /\ db'[p].offset = h.offset /\ db'[p].ptroff = h.ptroff /\ db'[p].idxoff = h.idxoff
         /\ db'[p].ptrval = h.ptrval /\ db'[p].save = h.save /\ db'[p].head = h.head
         /\ db[p] \in HandleType
<1>1. PICK g : g = [h EXCEPT !.fpos = 0]
  OBVIOUS
<1>2. /\ db' = [db EXCEPT ![p] = g] /\ UNCHANGED <<rec, ieof, call, alive>>
      /\ ptr' = [ptr EXCEPT ![o] = v]
  BY <1>1 DEF WritePtr
<1>3. /\ OnlyBy(p) /\ pc[p] = from /\ pc'[p] = to /\ db'[p] = g /\ Chain(p)' = Chain(p)
      /\ db[p] \in HandleType /\ call'[p] = call[p]
  BY <1>2, MoveFacts
<1>4. /\ g.offset = h.offset /\ g.ptroff = h.ptroff /\ g.idxoff = h.idxoff
      /\ g.ptrval = h.ptrval /\ g.save = h.save /\ g.head = h.head
  BY <1>1 DEF HandleType
<1>5. LO' = LO
  BY <1>2 DEF LO, ListOf
<1>6. ptr'[o] = v /\ \A i \in 0..(ieof - 1) : i # o => ptr'[i] = ptr[i]
  BY <1>2, Facts DEF FileType, FREE_OFF
<1> QED BY <1>2, <1>3, <1>4, <1>5, <1>6 DEF OnlyBy

\* _db_findfree.
LEMMA FindFreeKeepsLists ==
  ASSUME IndInv, IndInv', ListsKnown, NEW p \in Proc, FindFree(p)
  PROVE  ListsKnown'
<1>1. /\ Views /\ Views' /\ alive \subseteq Proc /\ CallOK(p) /\ db[p] \in HandleType
      /\ 0 \in Cells(LS, ieof) /\ LO[0] = 0 /\ NHash \in Nat /\ FirstRec \in Nat
      /\ Shape(NX, LO, LS, ieof) /\ LooseOnce
  BY ViewsHold, ViewsHoldAfter, Facts, Sizes DEF Views, ListsKnown
<1>2. \A l \in HeadPC : p \in alive /\ pc[p] = l => db[p].head = NX[Chain(p)]
  BY DEF ListsKnown, Known, Knows
<1>3. CASE FreeLock(p)
  <2>1. Transition(p, "f_lock", "f_read") /\ LockStep
    BY <1>3 DEF FreeLock
  <2>2. Knows("f_read", db[p], call[p].op, Chain(p), NX, LO, LS, ieof)
    BY <1>2, <2>1 DEF Knows, Transition, HeadPC, StorePC
  <2> QED BY <2>1, <2>2, SameHandleKeepsLists DEF LockStep, HasLoose, LoosePC
<1>4. CASE FreeRead(p)
  <2>1. PICK h : h = [db[p] EXCEPT !.save = FREE_OFF, !.offset = ptr[FREE_OFF], !.fpos = 0]
    OBVIOUS
  <2>2. Transition(p, "f_read", "f_walk") /\ ReadStep(p, h)
    BY <1>4, <2>1 DEF FreeRead
  <2>3. h.save = 0 /\ h.offset = ptr[0] /\ h.head = db[p].head
    BY <1>1, <2>1 DEF HandleType, FREE_OFF
  <2>4. p \in alive /\ pc[p] \in FreePC /\ pc[p] = "f_read"
    BY <2>2 DEF Transition, FreePC
  <2>5. On(NX, LO, LS, ieof, h.save, 0, h.offset)
    BY <1>1, <2>3, <2>4, ReadsFree DEF On
  <2>6. Knows("f_walk", h, call[p].op, Chain(p), NX, LO, LS, ieof)
    BY <1>2, <2>3, <2>4, <2>5 DEF Knows, HeadPC, StorePC
  <2> QED BY <2>2, <2>6, ReadKeepsLists DEF LoosePC
<1>5. CASE FreeWalk(p)
  <2> DEFINE o == db[p].offset
             g == ReadIdx(db[p], o)
  <2>1. p \in alive /\ pc[p] \in FreePC /\ pc[p] = "f_walk"
    BY <1>5 DEF FreeWalk, Transition, FreePC
  <2>2. On(NX, LO, LS, ieof, db[p].save, 0, o) /\ db[p].head = NX[Chain(p)]
    BY <1>2, <2>1 DEF ListsKnown, Known, Knows, HeadPC, StorePC
  <2>3. o # 0 => On(NX, LO, LS, ieof, o, 0, ptr[o])
    BY <2>1, <2>2, ReadsFree DEF On
  <2>4. /\ g.idxoff = o /\ g.ptrval = ptr[o] /\ g.offset = o /\ g.head = db[p].head
        /\ g.save = db[p].save /\ DOMAIN g = DOMAIN db[p]
    BY <1>1, ReadIdxFields
  <2> HIDE DEF g
  <2>5. ASSUME Transition(p, "f_walk", "f_walk"), o # 0,
               ReadStep(p, [g EXCEPT !.save = o, !.offset = ptr[o]])
        PROVE  ListsKnown'
    <3>1. PICK h : h = [g EXCEPT !.save = o, !.offset = ptr[o]]
      OBVIOUS
    <3>2. h.save = o /\ h.offset = ptr[o] /\ h.head = db[p].head
      BY <1>1, <2>4, <3>1 DEF HandleType
    <3>3. Knows("f_walk", h, call[p].op, Chain(p), NX, LO, LS, ieof)
      BY <2>2, <2>3, <2>5, <3>2 DEF Knows, HeadPC, StorePC
    <3> QED BY <2>5, <3>1, <3>3, ReadKeepsLists DEF LoosePC
  <2>6. ASSUME Transition(p, "f_walk", "f_unlink"), o # 0, ReadStep(p, g)
        PROVE  ListsKnown'
    <3>1. NX[o] = ptr[o]
      BY <2>3, <2>6 DEF On
    <3>2. Knows("f_unlink", g, call[p].op, Chain(p), NX, LO, LS, ieof)
      BY <2>2, <2>4, <2>6, <3>1 DEF Knows, HeadPC, StorePC
    <3> QED BY <2>6, <3>2, ReadKeepsLists DEF LoosePC
  <2>7. ASSUME Transition(p, "f_walk", "f_unlock"), o = 0, ReadStep(p, db[p])
        PROVE  ListsKnown'
    <3>1. Knows("f_unlock", db[p], call[p].op, Chain(p), NX, LO, LS, ieof)
      BY <2>2 DEF Knows
    <3> QED BY <2>7, <3>1, ReadKeepsLists DEF LoosePC
  <2> QED BY <1>5, <2>5, <2>6, <2>7 DEF FreeWalk, g
<1>6. CASE FreeUnlink(p)
  <2>1. /\ Transition(p, "f_unlink", "f_unlock")
        /\ WritePtr(p, db[p].save, db[p].ptrval, db[p]) /\ p \in alive /\ pc[p] = "f_unlink"
    BY <1>6 DEF FreeUnlink, Transition
  <2> DEFINE pre == db[p].save
             x == db[p].idxoff
  <2>2. /\ pre \in Cells(LS, ieof) /\ LO[pre] = 0 /\ NX[pre] = x
        /\ NX[x] = db[p].ptrval /\ db[p].offset # 0
        /\ db[p].head = NX[Chain(p)]
    BY <1>2, <2>1 DEF ListsKnown, Known, Knows, On, HeadPC, StorePC
  <2>3. pre \in 0..(ieof - 1) /\ x # 0 /\ ieof \in Nat /\ Positioned(pc[p], db[p])
    BY <1>1, <2>1, <2>2, Facts, Sizes DEF Cells, Positioned, RecordPC, Views
  <2>4. /\ OnlyBy(p) /\ pc'[p] = "f_unlock" /\ ieof' = ieof /\ LO' = LO
        /\ Chain(p)' = Chain(p) /\ call'[p] = call[p] /\ ptr'[pre] = NX[x]
        /\ \A i \in 0..(ieof - 1) : i # pre => ptr'[i] = ptr[i]
        /\ db'[p].offset # 0 /\ db'[p].idxoff = x /\ db'[p].head = db[p].head
    BY <1>1, <2>1, <2>2, <2>3, PtrWriteLists
  <2>5. ~LooseBy(p) /\ LooseBy(p)'
    BY <2>1, <2>4 DEF LooseBy, LoosePC
  <2>6. LS' = LS \cup {x}
    BY <1>1, <2>4, <2>5, LooseAfter
  <2>7. Owns(p, pre)
    BY <2>1, <2>2 DEF Owns, FreePC
  <2>8. PICK S : S = {pre}
    OBVIOUS
  <2>9. \A i \in 0..(ieof - 1) : NX'[i] = IF i = pre THEN ptr'[pre] ELSE NX[i]
    <3>1. /\ \A o \in S : o \in 0..(ieof - 1) => Owns(p, o)
          /\ \A o \in 0..(ieof - 1) : o \notin S => ptr'[o] = ptr[o]
          /\ ieof' >= ieof
          /\ pc[p] \notin {"d_write_free", "d_write_ptr"}
          /\ pc'[p] \notin {"d_write_free", "d_write_ptr"}
      BY <2>1, <2>3, <2>4, <2>7, <2>8
    <3>2. \A o \in 0..(ieof' - 1) : NX'[o] = IF o \in S \/ o >= ieof THEN ptr'[o] ELSE NX[o]
      BY <2>4, <3>1, PointersAfter, Zenon
    <3> QED BY <2>3, <2>4, <2>8, <3>2
  <2>10. /\ Shape(NX', LO', LS', ieof') /\ pre # x /\ x \in FirstRec..(ieof - 1) /\ x \notin LS
    <3> HIDE DEF pre, x
    <3>1. NX'[pre] = NX[x] /\ \A o \in 0..(ieof - 1) : o # pre /\ o # x => NX'[o] = NX[o]
      BY <2>3, <2>4, <2>9
    <3>2. \A o \in 0..(ieof - 1) : o # x => LO'[o] = LO[o]
      BY <2>4
    <3> QED BY <1>1, <2>2, <2>3, <2>4, <2>6, <3>1, <3>2, TakeOut
  <2>11. x \in Cells(LS, ieof) /\ LO[x] = 0
    BY <1>1, <2>2, <2>3, <2>10 DEF Shape, Apart, Cells
  <2>12. ASSUME NEW o \in 0..(ieof - 1), ~Owns(p, o)
         PROVE  /\ NX'[o] = NX[o] /\ LO'[o] = LO[o]
                /\ o \in Cells(LS, ieof) => o \in Cells(LS', ieof')
    <3>1. o # pre /\ o # x
      BY <2>1, <2>7, <2>11, <2>12 DEF Owns, FreePC
    <3> QED BY <2>4, <2>6, <2>9, <2>12, <3>1 DEF Cells
  <2>13. Known(p)'
    <3>1. Chain(p) \in 1..NHash
      BY <1>1, <2>1 DEF Views, ChainPC
    <3>2. Chain(p) \in 0..(ieof - 1) /\ Chain(p) # pre
      BY <1>1, <2>2, <2>3, <3>1 DEF Views, Cells
    <3>3. NX'[Chain(p)] = NX[Chain(p)]
      BY <2>9, <3>2
    <3> QED BY <2>2, <2>4, <3>3 DEF Known, Knows
  <2> QED BY <2>4, <2>5, <2>10, <2>12, <2>13, StepKeepsLists
<1>7. CASE FreeUnlock(p)
  <2>1. PICK to \in {"a_lock_dat", "r_write_dat"} :
          /\ Transition(p, "f_unlock", to) /\ LockStep
          /\ to = IF db[p].offset = 0 THEN "a_lock_dat" ELSE "r_write_dat"
    BY <1>7 DEF FreeUnlock
  <2>2. Knows(to, db[p], call[p].op, Chain(p), NX, LO, LS, ieof)
    BY <1>2, <2>1 DEF Knows, Transition, HeadPC, StorePC
  <2>3. HasLoose(to, db[p]) <=> HasLoose("f_unlock", db[p])
    BY <2>1 DEF HasLoose, LoosePC
  <2> QED BY <2>1, <2>2, <2>3, SameHandleKeepsLists DEF LockStep
<1> QED BY <1>3, <1>4, <1>5, <1>6, <1>7 DEF FindFree

\* p is alone in the free list: nobody else is moving a record to it.
LEMMA AloneInFree ==
  ASSUME IndInv, NEW p \in alive, pc[p] \in FreePC
  PROVE  /\ \A q \in Proc \ {p} : \A o : ~Unlinking(q, o)
         /\ OnlyBy(p) => \A q \in Proc \ {p} : \A o : ~Unlinking(q, o)'
<1>1. MutualExclusion
  BY ControlExcludes DEF IndInv
<1>2. \A q \in Proc \ {p} : \A o : ~Unlinking(q, o)
  BY <1>1 DEF MutualExclusion, Unlinking, FreePC
<1> QED BY <1>2 DEF OnlyBy, Unlinking

\* What such a process sees, before and after its step.
LEMMA SeenMoving ==
  ASSUME IndInv, IndInv', NEW p \in Proc, OnlyBy(p), pc[p] \in FreePC
  PROVE  /\ pc[p] \in {"d_write_free", "d_write_ptr"} =>
              \A o \in 0..(ieof - 1) :
                NX[o] = IF o = db[p].ptroff THEN db[p].save ELSE ptr[o]
         /\ pc[p] \notin {"d_write_free", "d_write_ptr"} =>
              \A o \in 0..(ieof - 1) : NX[o] = ptr[o]
         /\ pc'[p] \in {"d_write_free", "d_write_ptr"} =>
              \A o \in 0..(ieof' - 1) :
                NX'[o] = IF o = db'[p].ptroff THEN db'[p].save ELSE ptr'[o]
         /\ pc'[p] \notin {"d_write_free", "d_write_ptr"} =>
              \A o \in 0..(ieof' - 1) : NX'[o] = ptr'[o]
<1>1. /\ MutualExclusion /\ MutualExclusion' /\ Views /\ Views' /\ p \in alive
      /\ alive' = alive
  BY ViewsHold, ViewsHoldAfter, ControlExcludes, ExclusionAfter DEF IndInv, OnlyBy
<1>2. /\ \A q \in Proc \ {p} : \A o : ~Unlinking(q, o)
      /\ \A q \in Proc \ {p} : \A o : ~Unlinking(q, o)'
  BY <1>1, AloneInFree
<1>3. ASSUME NEW o
      PROVE  /\ EffPtr(o) = IF Unlinking(p, o) THEN db[p].save ELSE ptr[o]
             /\ EffPtr(o)' = IF Unlinking(p, o)' THEN db'[p].save ELSE ptr'[o]
  <2>1. EffPtr(o) = IF Unlinking(p, o) THEN db[p].save ELSE ptr[o]
    <3>1. ASSUME Unlinking(p, o) PROVE EffPtr(o) = db[p].save
      BY <1>1, <3>1, OneUnlinks
    <3>2. ASSUME ~Unlinking(p, o) PROVE EffPtr(o) = ptr[o]
      BY <1>2, <3>2, NoneUnlinks
    <3> QED BY <3>1, <3>2
  <2>2. EffPtr(o)' = IF Unlinking(p, o)' THEN db'[p].save ELSE ptr'[o]
    <3>1. ASSUME Unlinking(p, o)' PROVE EffPtr(o)' = db'[p].save
      BY <1>1, <3>1, OneUnlinks
    <3>2. ASSUME ~Unlinking(p, o)' PROVE EffPtr(o)' = ptr'[o]
      BY <1>2, <3>2, NoneUnlinks
    <3> QED BY <3>1, <3>2
  <2> QED BY <2>1, <2>2
<1>4. /\ \A o \in 0..(ieof - 1) : NX[o] = EffPtr(o)
      /\ \A o \in 0..(ieof' - 1) : NX'[o] = EffPtr(o)'
  BY <1>1 DEF Views
<1>5. ASSUME NEW o \in 0..(ieof - 1)
      PROVE  NX[o] = IF Unlinking(p, o) THEN db[p].save ELSE ptr[o]
  BY <1>3, <1>4
<1>6. ASSUME NEW o \in 0..(ieof' - 1)
      PROVE  NX'[o] = IF Unlinking(p, o)' THEN db'[p].save ELSE ptr'[o]
  BY <1>3, <1>4
<1> QED BY <1>1, <1>5, <1>6 DEF Unlinking

\* _db_dodelete rewrites the record: it leaves its chain.
LEMMA DelWriteIdxLists ==
  ASSUME IndInv, IndInv', ListsKnown, NEW p \in Proc, DelWriteIdx(p)
  PROVE  ListsKnown'
<1> DEFINE pre == db[p].ptroff
           x == db[p].idxoff
           h == db[p]
<1>1. /\ Views /\ Views' /\ alive \subseteq Proc /\ db[p] \in HandleType
      /\ 0 \in Cells(LS, ieof) /\ LO[0] = 0 /\ FirstRec \in Nat /\ FirstRec > 0
      /\ Shape(NX, LO, LS, ieof) /\ LooseOnce /\ ieof \in Nat
  BY ViewsHold, ViewsHoldAfter, Facts, Sizes DEF Views, ListsKnown
<1>2. /\ Transition(p, "d_write_idx", "d_write_free") /\ p \in alive /\ pc[p] = "d_write_idx"
      /\ WriteIdx(p, x, Blank, KeyLen[call[p].key], h.head)
      /\ db' = [db EXCEPT ![p] = [h EXCEPT !.ptrval = h.head, !.fpos = x + 1]]
  BY DEF DelWriteIdx, Transition
<1>3. PICK g : g = [h EXCEPT !.ptrval = h.head, !.fpos = x + 1]
  OBVIOUS
<1>4. /\ g.ptroff = pre /\ g.idxoff = x /\ g.save = h.save
  BY <1>1, <1>3 DEF HandleType
<1>5. /\ OnlyBy(p) /\ pc'[p] = "d_write_free" /\ db'[p] = g /\ Chain(p)' = Chain(p)
      /\ call'[p] = call[p]
  BY <1>2, <1>3, MoveFacts, ZenonT(30) DEF WriteIdx
<1>6. /\ pre \in Cells(LS, ieof) /\ LO[pre] = Chain(p) /\ NX[pre] = x
      /\ NX[x] = h.ptrval /\ h.save = h.ptrval /\ h.head = NX[0]
  BY <1>2 DEF ListsKnown, Known, Knows, On
<1>7. /\ Chain(p) \in 1..NHash /\ call[p].op # "fetch"
      /\ pc[p] \in ChainPC /\ pc[p] \in FreePC
  BY <1>1, <1>2, Facts DEF Views, ChainPC, FreePC, CallOK, DelPC
<1>8. /\ x \in FirstRec..(ieof - 1) /\ x # 0 /\ pre \in 0..(ieof - 1) /\ pre # 0
      /\ x \in 0..(ieof - 1) /\ 0 \in 0..(ieof - 1)
  BY <1>1, <1>2, <1>6, <1>7, Facts DEF Positioned, RecordPC, DelPC, Cells
<1>9. /\ ieof' = ieof /\ ptr'[x] = h.head /\ rec'[x].key = Blank
      /\ \A o \in 0..(ieof - 1) : o # x => ptr'[o] = ptr[o]
      /\ \A o \in FirstRec..(ieof - 1) : o # x => rec'[o] = rec[o]
  <2>1. /\ ptr' = [i \in 0..(ieof - 1) |-> IF i = x THEN h.head ELSE ptr[i]]
    BY <1>2, <1>8, Facts DEF WriteIdx, FileType, FREE_OFF
  <2>2. ieof' = ieof
    BY <1>1, <1>2, <1>8 DEF WriteIdx
  <2>3. PICK v : /\ v.key = Blank
                 /\ rec' = [i \in DOMAIN rec \cup {x} |-> IF i = x THEN v ELSE rec[i]]
    BY <1>2 DEF WriteIdx
  <2>4. DOMAIN rec = FirstRec..(ieof - 1)
    BY Facts DEF FileType
  <2>5. \A o \in FirstRec..(ieof - 1) : o # x => rec'[o] = rec[o]
    BY <2>3, <2>4
  <2> QED BY <1>8, <2>1, <2>2, <2>3, <2>5
<1>10. \A o \in 0..(ieof - 1) :
         NX'[o] = IF o = pre THEN h.save ELSE IF o = x THEN h.head ELSE NX[o]
  <2>1. \A o \in 0..(ieof - 1) : NX[o] = ptr[o]
    BY <1>2, <1>5, <1>7, SeenMoving
  <2>2. \A o \in 0..(ieof - 1) : NX'[o] = IF o = db'[p].ptroff THEN db'[p].save ELSE ptr'[o]
    BY <1>5, <1>7, <1>9, SeenMoving
  <2> QED BY <1>4, <1>5, <1>9, <2>1, <2>2
<1>11. ~LooseBy(p) /\ LooseBy(p)' /\ LS' = LS \cup {x}
  <2>1. ~LooseBy(p) /\ LooseBy(p)'
    BY <1>2, <1>5 DEF LooseBy, LoosePC, OnlyBy
  <2> QED BY <1>1, <1>4, <1>5, <2>1, LooseAfter
<1>12. LO'[x] = 0 /\ \A o \in 0..(ieof - 1) : o # x => LO'[o] = LO[o]
  <2>1. \A o \in 0..(ieof - 1) : LO[o] = ListOf(o) /\ LO'[o] = ListOf(o)'
    BY <1>1, <1>9 DEF Views
  <2>2. LO'[x] = 0
    BY <1>1, <1>8, <1>9, <2>1 DEF ListOf, FREE_OFF
  <2>3. ASSUME NEW o \in 0..(ieof - 1), o # x PROVE ListOf(o)' = ListOf(o)
    <3>1. CASE o < FirstRec
      BY <3>1 DEF ListOf
    <3>2. CASE ~(o < FirstRec)
      <4>1. rec'[o] = rec[o]
        BY <1>1, <1>9, <2>3, <3>2
      <4> QED BY <4>1 DEF ListOf
    <3> QED BY <3>1, <3>2
  <2> QED BY <2>1, <2>2, <2>3
<1>13. /\ Shape(NX', LO', LS', ieof') /\ pre # x /\ x \notin LS
  <2> HIDE DEF pre, x, h
  <2>1. NX'[pre] = NX[x] /\ \A o \in 0..(ieof - 1) : o # pre /\ o # x => NX'[o] = NX[o]
    BY <1>6, <1>8, <1>10
  <2>2. /\ ieof \in Nat /\ Shape(NX, LO, LS, ieof) /\ pre \in Cells(LS, ieof) /\ NX[pre] = x
        /\ x # 0 /\ LS' = LS \cup {x} /\ ieof' = ieof
        /\ \A o \in 0..(ieof - 1) : o # x => LO'[o] = LO[o]
    BY <1>1, <1>6, <1>8, <1>9, <1>11, <1>12
  <2> QED BY <2>1, <2>2, TakeOut
<1>14. x \in Cells(LS, ieof) /\ LO[x] = Chain(p)
  BY <1>1, <1>6, <1>8, <1>13 DEF Shape, Apart, Cells
<1>15. ASSUME NEW o \in 0..(ieof - 1), ~Owns(p, o)
       PROVE  /\ NX'[o] = NX[o] /\ LO'[o] = LO[o]
              /\ o \in Cells(LS, ieof) => o \in Cells(LS', ieof')
  <2>1. o # pre /\ o # x
    BY <1>6, <1>7, <1>14, <1>15 DEF Owns
  <2> QED BY <1>9, <1>10, <1>11, <1>12, <1>15, <2>1 DEF Cells
<1>16. Known(p)'
  <2>1. pre \in Cells(LS', ieof') /\ LO'[pre] = Chain(p)
    BY <1>6, <1>8, <1>9, <1>11, <1>12, <1>13 DEF Cells
  <2>2. LO'[x] = 0 /\ NX'[x] = NX'[0]
    BY <1>6, <1>8, <1>10, <1>12, <1>13
  <2> QED BY <1>4, <1>5, <2>1, <2>2 DEF Known, Knows, HeadPC, StorePC
<1> QED BY <1>4, <1>5, <1>11, <1>13, <1>15, <1>16, StepKeepsLists

\* It makes the record the first of the free list.
LEMMA DelWriteFreeLists ==
  ASSUME IndInv, IndInv', ListsKnown, NEW p \in Proc, DelWriteFree(p)
  PROVE  ListsKnown'
<1> DEFINE pre == db[p].ptroff
           x == db[p].idxoff
<1>1. /\ Views /\ Views' /\ alive \subseteq Proc /\ db[p] \in HandleType
      /\ 0 \in Cells(LS, ieof) /\ LO[0] = 0 /\ FirstRec \in Nat /\ FirstRec > 0
      /\ Shape(NX, LO, LS, ieof) /\ LooseOnce /\ ieof \in Nat /\ ieof >= FirstRec
      /\ NHash \in Nat
  BY ViewsHold, ViewsHoldAfter, Facts, Sizes DEF Views, ListsKnown
<1>2. /\ Transition(p, "d_write_free", "d_write_ptr") /\ p \in alive
      /\ pc[p] = "d_write_free" /\ WritePtr(p, 0, x, db[p])
  BY DEF DelWriteFree, Transition, FREE_OFF
<1>3. 0 \in 0..(ieof - 1)
  BY <1>1
<1>4. /\ OnlyBy(p) /\ pc'[p] = "d_write_ptr" /\ ieof' = ieof /\ LO' = LO
      /\ Chain(p)' = Chain(p) /\ call'[p] = call[p] /\ ptr'[0] = x
      /\ \A i \in 0..(ieof - 1) : i # 0 => ptr'[i] = ptr[i]
      /\ db'[p].ptroff = pre /\ db'[p].idxoff = x /\ db'[p].save = db[p].save
  BY <1>1, <1>2, <1>3, PtrWriteLists
<1>5. /\ pre \in Cells(LS, ieof) /\ LO[pre] = Chain(p) /\ LO[x] = 0 /\ NX[x] = NX[0]
  BY <1>2 DEF ListsKnown, Known, Knows
<1>6. /\ Chain(p) \in 1..NHash /\ pc[p] \in FreePC /\ pre # 0
  BY <1>1, <1>2, <1>5 DEF Views, ChainPC, FreePC
<1>7. LooseBy(p) /\ ~LooseBy(p)' /\ LS' = LS \ {x}
  <2>1. LooseBy(p) /\ ~LooseBy(p)'
    BY <1>2, <1>4 DEF LooseBy, LoosePC
  <2> QED BY <1>1, <1>4, <2>1, LooseAfter
<1>8. x \in LS /\ x \in FirstRec..(ieof - 1)
  BY <1>1, <1>7, LooseOffset
<1>9. \A o \in 0..(ieof - 1) : NX'[o] = IF o = 0 THEN x ELSE NX[o]
  <2>1. \A o \in 0..(ieof - 1) : NX[o] = IF o = db[p].ptroff THEN db[p].save ELSE ptr[o]
    BY <1>2, <1>4, <1>6, SeenMoving
  <2>2. \A o \in 0..(ieof - 1) : NX'[o] = IF o = db'[p].ptroff THEN db'[p].save ELSE ptr'[o]
    BY <1>4, <1>6, SeenMoving
  <2> QED BY <1>4, <1>6, <2>1, <2>2
<1>10. Shape(NX', LO', LS', ieof')
  <2> HIDE DEF x
  <2>1. NX'[0] = x /\ \A o \in 0..(ieof - 1) : o # 0 => NX'[o] = NX[o]
    BY <1>3, <1>9
  <2>2. 0 \in 0..NHash /\ LO[x] = LO[0] /\ \A o \in 0..(ieof - 1) : LO'[o] = LO[o]
    BY <1>1, <1>4, <1>5
  <2> QED BY <1>1, <1>4, <1>5, <1>7, <1>8, <2>1, <2>2, PutFirst
<1>11. ASSUME NEW o \in 0..(ieof - 1), ~Owns(p, o)
       PROVE  /\ NX'[o] = NX[o] /\ LO'[o] = LO[o]
              /\ o \in Cells(LS, ieof) => o \in Cells(LS', ieof')
  <2>1. o # 0
    BY <1>1, <1>6, <1>11 DEF Owns
  <2> QED BY <1>4, <1>7, <1>9, <1>11, <2>1 DEF Cells
<1>12. Known(p)'
  <2>1. pre \in Cells(LS', ieof') /\ LO'[pre] = Chain(p)
    BY <1>4, <1>5, <1>7 DEF Cells
  <2> QED BY <1>4, <2>1 DEF Known, Knows, HeadPC, StorePC
<1> QED BY <1>4, <1>7, <1>10, <1>11, <1>12, StepKeepsLists

\* _db_dodelete, the last write: the pointer now says what EffPtr did.
LEMMA DelWritePtrLists ==
  ASSUME IndInv, IndInv', ListsKnown, NEW p \in Proc, DelWritePtr(p)
  PROVE  ListsKnown'
<1> DEFINE pre == db[p].ptroff
<1>1. /\ Views /\ Views' /\ alive \subseteq Proc /\ db[p] \in HandleType
      /\ Shape(NX, LO, LS, ieof) /\ LooseOnce
  BY ViewsHold, ViewsHoldAfter, Facts DEF ListsKnown
<1>2. PICK h : h = IF call[p].op = "delete" THEN Answer(p, "ok", NoKey, NoData) ELSE db[p]
  OBVIOUS
<1>3. /\ Transition(p, "d_write_ptr", "d_unlock_free") /\ p \in alive
      /\ pc[p] = "d_write_ptr" /\ WritePtr(p, pre, db[p].save, h)
  BY <1>2 DEF DelWritePtr, Transition
<1>4. h \in HandleType /\ h.idxoff = db[p].idxoff
  <2>1. Answer(p, "ok", NoKey, NoData) \in HandleType
    BY AnswerFits DEF HandleFits
  <2>2. Answer(p, "ok", NoKey, NoData).idxoff = db[p].idxoff
    BY <1>1 DEF Answer, HandleType
  <2> QED BY <1>1, <1>2, <2>1, <2>2
<1>5. pre \in Cells(LS, ieof) /\ pre \in 0..(ieof - 1)
  BY <1>3 DEF ListsKnown, Known, Knows, Cells
<1>6. /\ OnlyBy(p) /\ pc'[p] = "d_unlock_free" /\ ieof' = ieof /\ LO' = LO
      /\ ptr'[pre] = db[p].save
      /\ \A i \in 0..(ieof - 1) : i # pre => ptr'[i] = ptr[i]
  BY <1>3, <1>4, <1>5, PtrWriteLists
<1>7. ~LooseBy(p) /\ ~LooseBy(p)'
  BY <1>3, <1>6 DEF LooseBy, LoosePC
<1>8. LS' = LS
  BY <1>1, <1>6, <1>7, LooseAfter
<1>9. pc[p] \in FreePC
  BY <1>3 DEF FreePC
<1>10. \A o \in 0..(ieof - 1) : NX'[o] = NX[o]
  <2>1. \A o \in 0..(ieof - 1) : NX[o] = IF o = pre THEN db[p].save ELSE ptr[o]
    BY <1>3, <1>6, <1>9, SeenMoving
  <2>2. \A o \in 0..(ieof - 1) : NX'[o] = ptr'[o]
    BY <1>6, <1>9, SeenMoving
  <2> QED BY <1>6, <2>1, <2>2
<1>11. NX' = NX
  <2>1. \A o \in 0..(ieof - 1) : EffPtr(o)' = EffPtr(o)
    BY <1>6, <1>10 DEF NX
  <2> QED BY <1>6, <2>1 DEF NX
<1>12. Known(p)'
  BY <1>6, Vague DEF Known, VaguePC
<1> QED BY <1>1, <1>6, <1>7, <1>8, <1>11, <1>12, StepKeepsLists

\* _db_dodelete.
LEMMA DoDeleteKeepsLists ==
  ASSUME IndInv, IndInv', ListsKnown, NEW p \in Proc, DoDelete(p)
  PROVE  ListsKnown'
<1> DEFINE KnowsAt(l, h) == Knows(l, h, call[p].op, Chain(p), NX, LO, LS, ieof)
<1>1. \A l : p \in alive /\ pc[p] = l => KnowsAt(l, db[p])
  BY DEF ListsKnown, Known
<1>2. CASE DelLockFree(p)
  <2>1. Transition(p, "d_lock_free", "d_write_dat") /\ LockStep
    BY <1>2 DEF DelLockFree
  <2>2. KnowsAt("d_write_dat", db[p])
    BY <1>1, <2>1 DEF Knows, Transition, HeadPC, StorePC
  <2> QED BY <2>1, <2>2, SameHandleKeepsLists DEF LockStep, HasLoose, LoosePC
<1>3. CASE DelWriteDat(p)
  <2>1. /\ Transition(p, "d_write_dat", "d_read_free")
        /\ UNCHANGED <<ptr, rec, ieof, call, db, alive>>
    BY <1>3 DEF DelWriteDat, WriteDat
  <2>2. KnowsAt("d_read_free", db[p])
    BY <1>1, <2>1 DEF Knows, Transition, HeadPC, StorePC
  <2> QED BY <2>1, <2>2, SameHandleKeepsLists DEF HasLoose, LoosePC
<1>4. CASE DelReadFree(p)
  <2>1. PICK h : h = [db[p] EXCEPT !.head = ptr[FREE_OFF], !.save = db[p].ptrval, !.fpos = 0]
    OBVIOUS
  <2>2. Transition(p, "d_read_free", "d_write_idx") /\ ReadStep(p, h)
    BY <1>4, <2>1 DEF DelReadFree
  <2>3. /\ h.head = ptr[0] /\ h.save = db[p].ptrval /\ h.ptrval = db[p].ptrval
        /\ h.ptroff = db[p].ptroff /\ h.idxoff = db[p].idxoff
    BY <2>1, Facts DEF HandleType, FREE_OFF
  <2>4. p \in alive /\ pc[p] \in FreePC /\ pc[p] = "d_read_free"
    BY <2>2 DEF Transition, FreePC
  <2>5. 0 \in Cells(LS, ieof) /\ LO[0] = 0
    BY ViewsHold, Sizes DEF Views
  <2>6. h.head = NX[0]
    BY <2>3, <2>4, <2>5, ReadsFree
  <2>7. KnowsAt("d_write_idx", h)
    BY <1>1, <2>3, <2>4, <2>6 DEF Knows, HeadPC, StorePC
  <2> QED BY <2>2, <2>7, ReadKeepsLists DEF LoosePC
<1>5. CASE DelUnlockFree(p)
  <2>1. PICK to \in {"unlock", "s_read_chain"} : Transition(p, "d_unlock_free", to) /\ LockStep
    BY <1>5 DEF DelUnlockFree
  <2>2. KnowsAt(to, db[p])
    BY Vague DEF VaguePC
  <2> QED BY <2>1, <2>2, SameHandleKeepsLists DEF LockStep, HasLoose, LoosePC
<1> QED BY <1>2, <1>3, <1>4, <1>5, DelWriteIdxLists, DelWriteFreeLists, DelWritePtrLists
        DEF DoDelete

\* db_store writes the record of the new key, over a free one or at the end of
\* the file: it is loose, and already points to the head of its chain.
LEMMA StoreIdxLists ==
  ASSUME IndInv, IndInv', ListsKnown, NEW p \in Proc, ReuseWriteIdx(p) \/ AppendIdx(p)
  PROVE  ListsKnown'
<1> DEFINE x == db[p].idxoff
           h == db[p]
           c == Chain(p)
<1>1. /\ Views /\ Views' /\ alive \subseteq Proc /\ db[p] \in HandleType /\ CallOK(p)
      /\ FirstRec \in Nat /\ NHash \in Nat /\ FirstRec = NHash + 1
      /\ Shape(NX, LO, LS, ieof) /\ LooseOnce
  BY ViewsHold, ViewsHoldAfter, Facts, Sizes DEF ListsKnown, FirstRec
<1>2. /\ ieof \in Nat /\ ieof >= FirstRec /\ LS \subseteq FirstRec..(ieof - 1)
  BY <1>1 DEF Views
<1>3. PICK from \in {"r_write_idx", "a_write_idx"}, to \in {"s_write_chain", "a_unlock_idx"} :
        /\ Transition(p, from, to) /\ StoreWriteIdx(p, x)
        /\ (from = "r_write_idx") <=> (to = "s_write_chain")
  BY DEF ReuseWriteIdx, AppendIdx
<1>4. PICK g : g = [h EXCEPT !.ptrval = h.head, !.fpos = x + 1]
  OBVIOUS
<1>5. db' = [db EXCEPT ![p] = g] /\ WriteIdx(p, x, call[p].key, KeyLen[call[p].key], h.head)
  BY <1>3, <1>4 DEF StoreWriteIdx
<1>6. g.idxoff = x /\ g.head = h.head
  BY <1>1, <1>4 DEF HandleType
<1>7. /\ OnlyBy(p) /\ pc'[p] = to /\ db'[p] = g /\ Chain(p)' = c
      /\ call'[p] = call[p] /\ p \in alive /\ pc[p] \in {"r_write_idx", "a_write_idx"}
      /\ (pc[p] = "r_write_idx") <=> (to = "s_write_chain")
  <2>1. alive' = alive /\ call' = call
    BY <1>5 DEF WriteIdx, Transition
  <2> QED BY <1>3, <1>5, <2>1, MoveFacts, ZenonT(30) DEF OnlyBy
<1>8. h.head = NX[c] /\ call[p].key \in Key /\ c \in 1..NHash
  BY <1>1, <1>7 DEF ListsKnown, Known, Knows, HeadPC, StorePC, CallOK, KeyedPC, ChainPC, Views
<1>9. pc[p] = "r_write_idx" => LooseBy(p) /\ x \in LS
  BY <1>1, <1>7, LooseOffset DEF LooseBy, LoosePC
<1>10. pc[p] = "a_write_idx" => ~LooseBy(p) /\ x = ieof
  BY <1>7 DEF LooseBy, LoosePC, IndInv, FilesInv, AppendAtEnd
<1>11. x \in FirstRec..ieof /\ (x \in LS \/ x = ieof) /\ c # x
       /\ c \in 0..(ieof - 1) /\ c \in Cells(LS, ieof)
  <2>1. x \in LS => x \in FirstRec..(ieof - 1)
    BY <1>2
  <2>2. x \in FirstRec..ieof /\ (x \in LS \/ x = ieof)
    BY <1>1, <1>2, <1>7, <1>9, <1>10, <2>1
  <2>3. c \in Cells(LS, ieof)
    BY <1>1, <1>8 DEF Views
  <2> QED BY <1>1, <1>2, <1>8, <2>2, <2>3
<1>12. /\ ieof' = IF x = ieof THEN ieof + 1 ELSE ieof
       /\ ptr'[x] = h.head /\ rec'[x].key = call[p].key
       /\ \A o \in 0..(ieof - 1) : o # x => ptr'[o] = ptr[o]
       /\ \A o \in FirstRec..(ieof - 1) : o # x => rec'[o] = rec[o]
  <2>1. ptr' = [i \in 0..(ieof - 1) \cup {x} |-> IF i = x THEN h.head ELSE ptr[i]]
    BY <1>5, Facts DEF WriteIdx, FileType, FREE_OFF
  <2>2. ieof' = IF x = ieof THEN ieof + 1 ELSE ieof
    <3> HIDE DEF x, h
    <3> QED BY <1>1, <1>2, <1>5, <1>11 DEF WriteIdx
  <2>3. PICK v : /\ v.key = call[p].key
                 /\ rec' = [i \in DOMAIN rec \cup {x} |-> IF i = x THEN v ELSE rec[i]]
    BY <1>5 DEF WriteIdx
  <2>4. DOMAIN rec = FirstRec..(ieof - 1)
    BY Facts DEF FileType
  <2>5. \A o \in FirstRec..(ieof - 1) : o # x => rec'[o] = rec[o]
    BY <2>3, <2>4
  <2> QED BY <2>1, <2>2, <2>3, <2>5
<1>13. LooseBy(p)'
  BY <1>3, <1>7 DEF LooseBy, LoosePC
<1>14. LS' = LS \cup {x}
  <2>1. CASE pc[p] = "r_write_idx"
    <3>1. LS' = LS
      BY <1>1, <1>6, <1>7, <1>9, <1>13, <2>1, LooseAfter
    <3> QED BY <1>9, <2>1, <3>1
  <2>2. CASE pc[p] = "a_write_idx"
    BY <1>1, <1>6, <1>7, <1>10, <1>13, <2>2, LooseAfter
  <2> QED BY <1>7, <2>1, <2>2
<1>15. x \in 0..(ieof - 1) => Owns(p, x)
  BY <1>2, <1>7, <1>9, <1>10 DEF Owns
<1>16. \A o \in 0..(ieof' - 1) : NX'[o] = IF o = x THEN h.head ELSE NX[o]
  <2>1. PICK S : S = {x}
    OBVIOUS
  <2>2. /\ \A o \in S : o \in 0..(ieof - 1) => Owns(p, o)
        /\ \A o \in 0..(ieof - 1) : o \notin S => ptr'[o] = ptr[o]
        /\ ieof' >= ieof
        /\ pc[p] \notin {"d_write_free", "d_write_ptr"}
        /\ pc'[p] \notin {"d_write_free", "d_write_ptr"}
    BY <1>2, <1>3, <1>7, <1>12, <1>15, <2>1
  <2>3. \A o \in 0..(ieof' - 1) : NX'[o] = IF o \in S \/ o >= ieof THEN ptr'[o] ELSE NX[o]
    BY <1>7, <2>2, PointersAfter, Zenon
  <2>4. \A o \in 0..(ieof' - 1) : o >= ieof => o = x
    BY <1>2, <1>12
  <2> QED BY <1>12, <2>1, <2>3, <2>4
<1>17. /\ x \in 0..(ieof' - 1) /\ \A o \in 0..(ieof - 1) : o \in 0..(ieof' - 1)
  <2> HIDE DEF x
  <2> QED BY <1>1, <1>2, <1>11, <1>12
<1>18. LO'[x] = c /\ \A o \in 0..(ieof - 1) : o # x => LO'[o] = LO[o]
  <2>1. /\ \A o \in 0..(ieof - 1) : LO[o] = ListOf(o)
        /\ \A o \in 0..(ieof' - 1) : LO'[o] = ListOf(o)'
    BY <1>1 DEF Views
  <2>2. LO'[x] = c
    <3>1. call[p].key # Blank /\ ~(x < FirstRec)
      BY <1>1, <1>2, <1>8, <1>11, ArgAssumption
    <3> QED BY <1>12, <1>17, <2>1, <3>1 DEF ListOf, Chain
  <2>3. ASSUME NEW o \in 0..(ieof - 1), o # x PROVE ListOf(o)' = ListOf(o)
    <3>1. CASE o < FirstRec
      BY <3>1 DEF ListOf
    <3>2. CASE ~(o < FirstRec)
      <4>1. rec'[o] = rec[o]
        BY <1>1, <1>2, <1>12, <2>3, <3>2
      <4> QED BY <4>1 DEF ListOf
    <3> QED BY <3>1, <3>2
  <2> QED BY <1>17, <2>1, <2>2, <2>3
<1>19. Shape(NX', LO', LS', ieof') /\ Cells(LS', ieof') = Cells(LS, ieof)
  <2> HIDE DEF x, h, c
  <2>1. \A o \in 0..(ieof - 1) : o # x => NX'[o] = NX[o] /\ LO'[o] = LO[o]
    BY <1>16, <1>17, <1>18
  <2>2. /\ ieof \in Nat /\ ieof >= FirstRec /\ Shape(NX, LO, LS, ieof)
        /\ (\A i \in LS : i \in FirstRec..(ieof - 1))
        /\ x \in FirstRec..ieof /\ (x \in LS \/ x = ieof)
        /\ LS' = LS \cup {x}
    BY <1>1, <1>2, <1>11, <1>14
  <2>3. (x = ieof => ieof' = ieof + 1) /\ (x # ieof => ieof' = ieof)
    BY <1>12
  <2> QED BY <2>1, <2>2, <2>3, Rewrite
<1>20. ASSUME NEW o \in 0..(ieof - 1), ~Owns(p, o)
       PROVE  /\ NX'[o] = NX[o] /\ LO'[o] = LO[o]
              /\ o \in Cells(LS, ieof) => o \in Cells(LS', ieof')
  BY <1>15, <1>16, <1>17, <1>18, <1>19, <1>20
<1>21. Known(p)'
  <2>1. NX'[x] = h.head /\ NX'[c] = h.head /\ LO'[x] = c
    BY <1>8, <1>11, <1>16, <1>17, <1>18
  <2> QED BY <1>3, <1>6, <1>7, <2>1 DEF Known, Knows, HeadPC, StorePC
<1>22. LooseBy(p)' => \/ LooseBy(p) /\ db'[p].idxoff = db[p].idxoff
                      \/ db'[p].idxoff \notin LS
  <2>1. x = ieof => x \notin LS
    BY <1>2
  <2> QED BY <1>6, <1>7, <1>9, <1>10, <2>1
<1> QED BY <1>7, <1>19, <1>20, <1>21, <1>22, StepKeepsLists

\* db_store makes the record the first of its chain.
LEMMA StoreWriteChainLists ==
  ASSUME IndInv, IndInv', ListsKnown, NEW p \in Proc, StoreWriteChain(p)
  PROVE  ListsKnown'
<1> DEFINE x == db[p].idxoff
           c == Chain(p)
<1>1. /\ Views /\ Views' /\ alive \subseteq Proc /\ db[p] \in HandleType
      /\ FirstRec \in Nat /\ NHash \in Nat /\ FirstRec = NHash + 1
      /\ Shape(NX, LO, LS, ieof) /\ LooseOnce /\ CallOK(p)
  BY ViewsHold, ViewsHoldAfter, Facts, Sizes DEF ListsKnown, FirstRec
<1>2. PICK h : h = Answer(p, "ok", NoKey, NoData)
  OBVIOUS
<1>3. /\ Transition(p, "s_write_chain", "unlock") /\ p \in alive
      /\ pc[p] = "s_write_chain" /\ WritePtr(p, c, x, h)
  BY <1>2 DEF StoreWriteChain, Transition
<1>4. h \in HandleType
  BY <1>2, AnswerFits DEF HandleFits
<1>5. /\ c \in 1..NHash /\ c \in Cells(LS, ieof) /\ LO[c] = c /\ pc[p] \in ChainPC
      /\ ieof \in Nat /\ ieof >= FirstRec /\ call[p].op # "fetch"
  BY <1>1, <1>3 DEF Views, ChainPC, CallOK, StorePC
<1>6. c \in 0..(ieof - 1)
  BY <1>1, <1>5
<1>7. /\ OnlyBy(p) /\ pc'[p] = "unlock" /\ ieof' = ieof /\ LO' = LO /\ ptr'[c] = x
      /\ \A i \in 0..(ieof - 1) : i # c => ptr'[i] = ptr[i]
  BY <1>3, <1>4, <1>6, PtrWriteLists
<1>8. NX[x] = NX[c] /\ LO[x] = c
  BY <1>3 DEF ListsKnown, Known, Knows, HeadPC, StorePC
<1>9. LooseBy(p) /\ ~LooseBy(p)' /\ LS' = LS \ {x}
  <2>1. LooseBy(p) /\ ~LooseBy(p)'
    BY <1>3, <1>7 DEF LooseBy, LoosePC
  <2> QED BY <1>1, <1>7, <2>1, LooseAfter
<1>10. x \in LS /\ x \in FirstRec..(ieof - 1)
  BY <1>1, <1>5, <1>9, LooseOffset
<1>11. Owns(p, c)
  BY <1>5 DEF Owns
<1>12. \A o \in 0..(ieof - 1) : NX'[o] = IF o = c THEN x ELSE NX[o]
  <2>1. PICK S : S = {c}
    OBVIOUS
  <2>2. /\ \A o \in S : o \in 0..(ieof - 1) => Owns(p, o)
        /\ \A o \in 0..(ieof - 1) : o \notin S => ptr'[o] = ptr[o]
        /\ ieof' >= ieof
        /\ pc[p] \notin {"d_write_free", "d_write_ptr"}
        /\ pc'[p] \notin {"d_write_free", "d_write_ptr"}
    BY <1>3, <1>5, <1>7, <1>11, <2>1
  <2>3. \A o \in 0..(ieof' - 1) : NX'[o] = IF o \in S \/ o >= ieof THEN ptr'[o] ELSE NX[o]
    BY <1>7, <2>2, PointersAfter, Zenon
  <2> QED BY <1>5, <1>7, <2>1, <2>3
<1>13. Shape(NX', LO', LS', ieof')
  <2> HIDE DEF x, c
  <2>1. NX'[c] = x /\ \A o \in 0..(ieof - 1) : o # c => NX'[o] = NX[o]
    BY <1>6, <1>12
  <2>2. c \in 0..NHash /\ LO[x] = LO[c] /\ \A o \in 0..(ieof - 1) : LO'[o] = LO[o]
    BY <1>1, <1>5, <1>7, <1>8
  <2> QED BY <1>1, <1>5, <1>7, <1>8, <1>9, <1>10, <2>1, <2>2, PutFirst
<1>14. ASSUME NEW o \in 0..(ieof - 1), ~Owns(p, o)
       PROVE  /\ NX'[o] = NX[o] /\ LO'[o] = LO[o]
              /\ o \in Cells(LS, ieof) => o \in Cells(LS', ieof')
  <2>1. o # c
    BY <1>11, <1>14
  <2> QED BY <1>7, <1>9, <1>12, <1>14, <2>1 DEF Cells
<1>15. Known(p)'
  BY <1>7, Vague DEF Known, VaguePC
<1> QED BY <1>7, <1>9, <1>13, <1>14, <1>15, StepKeepsLists

\* A process dies, but not while it moves a record to the free list.
LEMMA DeathKeepsLists ==
  ASSUME IndInv, IndInv', ListsKnown, NEW p \in Proc, p \in alive, Die(p),
         pc[p] \notin {"d_write_free", "d_write_ptr"}
  PROVE  ListsKnown'
<1>1. /\ UNCHANGED <<ptr, rec, ieof, pc, call, db>> /\ alive' = alive \ {p}
      /\ MutualExclusion /\ MutualExclusion'
  BY ControlExcludes, ExclusionAfter DEF Die, IndInv
<1>2. \A q \in Proc : \A o : Unlinking(q, o)' = Unlinking(q, o)
  BY <1>1 DEF Unlinking
<1>3. ASSUME NEW o PROVE EffPtr(o)' = EffPtr(o)
  <2>1. CASE \A q \in Proc : ~Unlinking(q, o)
    BY <1>1, <1>2, <2>1, NoneUnlinks
  <2>2. ASSUME NEW q \in Proc, Unlinking(q, o) PROVE EffPtr(o)' = EffPtr(o)
    BY <1>1, <1>2, <2>2, OneUnlinks
  <2> QED BY <2>1, <2>2
<1>4. NX' = NX
  BY <1>1, <1>3 DEF NX
<1>5. LO' = LO
  BY <1>1 DEF LO, ListOf
<1>6. \A q \in Proc : LooseBy(q)' = LooseBy(q)
  BY <1>1 DEF LooseBy
<1>7. LS' = LS
  <2>1. Views /\ Views'
    BY ViewsHold, ViewsHoldAfter
  <2>2. \A o : o \in LS <=> \E q \in Proc : LooseBy(q) /\ db[q].idxoff = o
    BY <2>1 DEF Views
  <2>3. \A o : o \in LS' <=> \E q \in Proc : LooseBy(q) /\ db[q].idxoff = o
    BY <1>1, <1>6, <2>1 DEF Views
  <2> QED BY <2>2, <2>3
<1>8. LooseOnce'
  BY <1>1, <1>6 DEF LooseOnce, ListsKnown
<1>9. ASSUME NEW q \in alive' PROVE Known(q)'
  BY <1>1, <1>4, <1>5, <1>7, <1>9 DEF ListsKnown, Known, Chain
<1> QED BY <1>1, <1>4, <1>5, <1>7, <1>8, <1>9 DEF ListsKnown

\* db_store of a new record, appended or reused.
LEMMA StoreNewKeepsLists ==
  ASSUME IndInv, IndInv', ListsKnown, NEW p \in Proc, StoreNew(p)
  PROVE  ListsKnown'
<1> DEFINE KnowsAt(l, h) == Knows(l, h, call[p].op, Chain(p), NX, LO, LS, ieof)
           Unlinks == {"d_write_free", "d_write_ptr"}
<1>1. \A l : p \in alive /\ pc[p] = l => KnowsAt(l, db[p])
  BY DEF ListsKnown, Known
\* From s_read_chain to s_write_chain the head of the chain stays known.
<1>2. ASSUME NEW l \in HeadPC, p \in alive, pc[p] = l, NEW h, h.head = db[p].head,
             NEW to \in HeadPC \ {"f_walk", "f_unlink", "a_unlock_idx", "s_write_chain"}
      PROVE  KnowsAt(to, h)
  <2>1. h.head = NX[Chain(p)]
    BY <1>1, <1>2 DEF Knows
  <2>2. to \notin {"walk", "d_lock_free", "d_write_dat", "d_read_free", "d_write_idx",
                   "d_write_free", "d_write_ptr", "f_walk", "f_unlink", "a_unlock_idx",
                   "s_write_chain"}
    BY <1>2 DEF HeadPC, StorePC
  <2> QED BY <2>1, <2>2 DEF Knows
<1>3. CASE StoreReadChain(p)
  <2>1. PICK h : h = [db[p] EXCEPT !.head = ptr[Chain(p)], !.fpos = 0]
    OBVIOUS
  <2>2. PICK to \in {"a_lock_dat", "f_lock"} :
          Transition(p, "s_read_chain", to) /\ ReadStep(p, h)
    BY <1>3, <2>1 DEF StoreReadChain
  <2>3. h.head = ptr[Chain(p)]
    BY <2>1, Facts DEF HandleType
  <2>4. p \in alive /\ pc[p] = "s_read_chain" /\ pc[p] \in ChainPC /\ call[p].op # "fetch"
    BY <2>2, Facts DEF Transition, ChainPC, CallOK, StorePC
  <2>5. Chain(p) \in Cells(LS, ieof) /\ LO[Chain(p)] = Chain(p)
    BY <2>4, ViewsHold, Sizes DEF Views
  <2>6. h.head = NX[Chain(p)]
    BY <2>3, <2>4, <2>5, ReadsChain
  <2>7. KnowsAt(to, h)
    BY <2>2, <2>6 DEF Knows
  <2> QED BY <2>2, <2>7, ReadKeepsLists DEF LoosePC
<1>4. CASE ReuseWriteDat(p)
  <2>1. /\ Transition(p, "r_write_dat", "r_write_idx")
        /\ UNCHANGED <<ptr, rec, ieof, call, db, alive>>
    BY <1>4 DEF ReuseWriteDat, WriteDat
  <2>2. KnowsAt("r_write_idx", db[p])
    BY <1>2, <2>1 DEF Transition, HeadPC, StorePC
  <2> QED BY <2>1, <2>2, SameHandleKeepsLists DEF HasLoose, LoosePC
<1>5. CASE LockDat(p)
  <2>1. Transition(p, "a_lock_dat", "a_seek_dat") /\ LockStep
    BY <1>5 DEF LockDat
  <2>2. KnowsAt("a_seek_dat", db[p])
    BY <1>2, <2>1 DEF Transition, HeadPC, StorePC
  <2> QED BY <2>1, <2>2, SameHandleKeepsLists DEF LockStep, HasLoose, LoosePC
<1>6. CASE SeekDat(p)
  <2>1. PICK h : h = [db[p] EXCEPT !.datoff = deof, !.datlen = DatLen[call[p].data]]
    OBVIOUS
  <2>2. Transition(p, "a_seek_dat", "a_write_dat") /\ ReadStep(p, h) /\ h.head = db[p].head
    BY <1>6, <2>1, Facts DEF SeekDat, HandleType
  <2>3. KnowsAt("a_write_dat", h)
    BY <1>2, <2>2 DEF Transition, HeadPC, StorePC
  <2> QED BY <2>2, <2>3, ReadKeepsLists DEF LoosePC
<1>7. CASE AppendDat(p)
  <2>1. /\ Transition(p, "a_write_dat", "a_unlock_dat")
        /\ UNCHANGED <<ptr, rec, ieof, call, db, alive>>
    BY <1>7 DEF AppendDat, WriteDat
  <2>2. KnowsAt("a_unlock_dat", db[p])
    BY <1>2, <2>1 DEF Transition, HeadPC, StorePC
  <2> QED BY <2>1, <2>2, SameHandleKeepsLists DEF HasLoose, LoosePC
<1>8. CASE UnlockDat(p)
  <2>1. Transition(p, "a_unlock_dat", "a_lock_idx") /\ LockStep
    BY <1>8 DEF UnlockDat
  <2>2. KnowsAt("a_lock_idx", db[p])
    BY <1>2, <2>1 DEF Transition, HeadPC, StorePC
  <2> QED BY <2>1, <2>2, SameHandleKeepsLists DEF LockStep, HasLoose, LoosePC
<1>9. CASE LockIdx(p)
  <2>1. Transition(p, "a_lock_idx", "a_seek_idx") /\ LockStep
    BY <1>9 DEF LockIdx
  <2>2. KnowsAt("a_seek_idx", db[p])
    BY <1>2, <2>1 DEF Transition, HeadPC, StorePC
  <2> QED BY <2>1, <2>2, SameHandleKeepsLists DEF LockStep, HasLoose, LoosePC
<1>10. CASE SeekIdx(p)
  <2>1. PICK h : h = [db[p] EXCEPT !.idxoff = ieof]
    OBVIOUS
  <2>2. Transition(p, "a_seek_idx", "a_write_idx") /\ ReadStep(p, h) /\ h.head = db[p].head
    BY <1>10, <2>1, Facts DEF SeekIdx, HandleType
  <2>3. KnowsAt("a_write_idx", h)
    BY <1>2, <2>2 DEF Transition, HeadPC, StorePC
  <2> QED BY <2>2, <2>3, ReadKeepsLists DEF LoosePC
<1>11. CASE UnlockIdx(p)
  <2>1. Transition(p, "a_unlock_idx", "s_write_chain") /\ LockStep
    BY <1>11 DEF UnlockIdx
  <2>2. KnowsAt("s_write_chain", db[p])
    BY <1>1, <2>1 DEF Transition, Knows, HeadPC, StorePC
  <2> QED BY <2>1, <2>2, SameHandleKeepsLists DEF LockStep, HasLoose, LoosePC
<1>12. CASE StorePtrOverflow(p)
  BY <1>12, DeathKeepsLists DEF StorePtrOverflow
<1>13. CASE OverwriteDat(p)
  <2>1. /\ Transition(p, "o_write_dat", "unlock") /\ UNCHANGED <<ptr, rec, ieof, call, alive>>
        /\ db' = [db EXCEPT ![p] = Answer(p, "ok", NoKey, NoData)]
    BY <1>13 DEF OverwriteDat, WriteDat
  <2>2. \A h : KnowsAt("unlock", h)
    BY Vague DEF VaguePC
  <2> QED BY <2>1, <2>2, QuietKeepsLists DEF HasLoose, LoosePC
<1>14. CASE ReuseWriteIdx(p) \/ AppendIdx(p)
  BY <1>14, StoreIdxLists
<1>15. CASE StoreWriteChain(p)
  BY <1>15, StoreWriteChainLists
<1> QED BY <1>3, <1>4, <1>5, <1>6, <1>7, <1>8, <1>9, <1>10, <1>11, <1>12, <1>13, <1>14,
           <1>15 DEF StoreNew

\* db_nextrec.
LEMMA NextrecKeepsLists ==
  ASSUME IndInv, IndInv', ListsKnown, NEW p \in Proc, Nextrec(p)
  PROVE  ListsKnown'
<1>1. \A l \in VaguePC : \A h : Knows(l, h, call[p].op, Chain(p), NX, LO, LS, ieof)
  BY Vague
<1>2. CASE NextLock(p)
  <2>1. Transition(p, "n_lock", "n_read") /\ LockStep
    BY <1>2 DEF NextLock
  <2> QED BY <1>1, <2>1, SameHandleKeepsLists DEF LockStep, HasLoose, LoosePC, VaguePC
<1>3. CASE NextRead(p)
  <2>1. PICK to \in {"n_read", "n_read_dat", "n_unlock"},
             h \in {Answer(p, "error", NoKey, NoData), ReadIdx(db[p], db[p].fpos)} :
          Transition(p, "n_read", to) /\ ReadStep(p, h)
    BY <1>3 DEF NextRead
  <2> QED BY <1>1, <2>1, ReadKeepsLists DEF LoosePC, VaguePC
<1>4. CASE NextGarbage(p)
  BY <1>4, DeathKeepsLists DEF NextGarbage
<1>5. CASE NextDat(p)
  <2>1. PICK h : h = Answer(p, "ok", db[p].key, dat[db[p].datoff].val)
    OBVIOUS
  <2>2. Transition(p, "n_read_dat", "n_unlock") /\ ReadStep(p, h)
    BY <1>5, <2>1 DEF NextDat
  <2> QED BY <1>1, <2>2, ReadKeepsLists DEF LoosePC, VaguePC
<1>6. CASE NextUnlock(p)
  <2>1. /\ OnlyBy(p) /\ UNCHANGED <<ptr, rec, ieof>> /\ pc[p] = "n_unlock" /\ pc'[p] = "idle"
    BY <1>6, Facts DEF NextUnlock, Transition, idxvars, datvars, OnlyBy
  <2> QED BY <2>1, ResetKeepsLists DEF VaguePC
<1> QED BY <1>2, <1>3, <1>4, <1>5, <1>6 DEF Nextrec

\* A new call.
LEMMA InvokeKeepsLists ==
  ASSUME IndInv, IndInv', ListsKnown, NEW p \in Proc, Invoke(p)
  PROVE  ListsKnown'
<1>1. ASSUME NEW c, NEW to \in {"lock_chain", "n_lock"}, Begin(p, c, to) PROVE ListsKnown'
  <2>1. /\ OnlyBy(p) /\ UNCHANGED <<ptr, rec, ieof>> /\ pc[p] = "idle" /\ pc'[p] = to
    BY <1>1, Facts DEF Begin, Transition, idxvars, OnlyBy
  <2> QED BY <1>1, <2>1, ResetKeepsLists DEF VaguePC
<1>2. CASE StoreBadFlag(p) \/ Rewind(p)
  <2>1. /\ OnlyBy(p) /\ UNCHANGED <<ptr, rec, ieof, pc>> /\ pc[p] = "idle"
    BY <1>2, Facts DEF StoreBadFlag, Rewind, idxvars, OnlyBy
  <2> QED BY <2>1, ResetKeepsLists DEF VaguePC
<1>3. ASSUME NEW d \in Data, StoreBadLength(p, d) PROVE ListsKnown'
  BY <1>3, DeathKeepsLists DEF StoreBadLength
<1> QED BY <1>1, <1>2, <1>3 DEF Invoke, CallFetch, CallDelete, CallStore, CallNextrec

\* Dead processes stay where they died, and only one that is killed can die
\* anywhere but at an answer that the code refuses to give.
Rests(p) ==
  /\ \A q \in Proc \ alive : q \notin alive' /\ pc'[q] = pc[q]
  /\ \A q \in alive \ alive' :
       /\ pc'[q] = pc[q]
       /\ q \in Crashable \/ pc[q] \in {"idle", "s_write_chain", "n_read"}
LEMMA Moves ==
  ASSUME IndInv, NEW p \in Proc, NEW from, NEW to, Transition(p, from, to), alive' = alive
  PROVE  Rests(p)
BY Facts DEF Transition, Rests

\* Who dies was killed, or aborted by itself outside the window.
LEMMA Deaths ==
  ASSUME IndInv, NEW p \in Proc, Invoke(p) \/ Step(p) \/ Crash(p)
  PROVE  Rests(p)
<1>1. ASSUME Die(p), p \in Crashable \/ pc[p] \in {"idle", "s_write_chain", "n_read"}
      PROVE  Rests(p)
  BY <1>1, Facts DEF Die, Rests
<1>2. CASE Crash(p)
  BY <1>1, <1>2 DEF Crash
<1>3. CASE Invoke(p)
  <2>1. CASE StoreBadFlag(p) \/ Rewind(p)
    BY <2>1 DEF StoreBadFlag, Rewind, Rests
  <2>2. ASSUME NEW d \in Data, StoreBadLength(p, d) PROVE Rests(p)
    BY <1>1, <2>2 DEF StoreBadLength
  <2>3. ASSUME NEW c, NEW to, Begin(p, c, to) PROVE Rests(p)
    BY <2>3, Moves DEF Begin
  <2> QED BY <1>3, <2>1, <2>2, <2>3 DEF Invoke, CallFetch, CallDelete, CallStore, CallNextrec
<1>4. CASE Find(p)
  BY <1>4, Moves DEF Find, LockChain, ReadChain, WalkNext, WalkFound, WalkEnd, FetchDat,
     Unlock, LockStep, ReadStep
<1>5. CASE DoDelete(p)
  BY <1>5, Moves DEF DoDelete, DelLockFree, DelWriteDat, DelReadFree, DelWriteIdx,
     DelWriteFree, DelWritePtr, DelUnlockFree, LockStep, ReadStep, WriteDat, WriteIdx, WritePtr
<1>6. CASE FindFree(p)
  BY <1>6, Moves DEF FindFree, FreeLock, FreeRead, FreeWalk, FreeUnlink, FreeUnlock,
     LockStep, ReadStep, WritePtr
<1>7. CASE StoreNew(p)
  <2>1. CASE StorePtrOverflow(p)
    BY <1>1, <2>1 DEF StorePtrOverflow
  <2> QED BY <1>7, <2>1, Moves DEF StoreNew, StoreReadChain, ReuseWriteDat, ReuseWriteIdx,
          LockDat, SeekDat, AppendDat, UnlockDat, LockIdx, SeekIdx, AppendIdx, UnlockIdx,
          StoreWriteChain, OverwriteDat, StoreWriteIdx, LockStep, ReadStep, WriteDat,
          WriteIdx, WritePtr
<1>8. CASE Nextrec(p)
  <2>1. CASE NextGarbage(p)
    BY <1>1, <2>1 DEF NextGarbage
  <2> QED BY <1>8, <2>1, Moves DEF Nextrec, NextLock, NextRead, NextDat, NextUnlock,
          LockStep, ReadStep
<1> QED BY <1>2, <1>3, <1>4, <1>5, <1>6, <1>7, <1>8 DEF Step

\* Every step of the system.
LEMMA StepKeepsListInv ==
  ASSUME IndInv, IndInv', ListInv, [Next]_vars
  PROVE  ListInv'
<1> SUFFICES ASSUME Clean' PROVE ListsKnown'
  BY DEF ListInv
<1>1. ASSUME NEW p \in Proc, Invoke(p) \/ Step(p) \/ Crash(p) PROVE ListsKnown'
  <2>1. Rests(p)
    BY <1>1, Deaths
  <2>2. Clean
    BY <2>1 DEF Clean, Rests
  <2>3. ListsKnown
    BY <2>2 DEF ListInv
  <2>4. CASE Crash(p)
    <3>1. p \in alive /\ Die(p) /\ p \notin alive' /\ pc'[p] = pc[p]
      BY <2>4 DEF Crash, Die
    <3>2. pc[p] \notin {"d_write_free", "d_write_ptr"}
      BY <3>1 DEF Clean
    <3> QED BY <2>3, <3>1, <3>2, DeathKeepsLists
  <2> QED BY <1>1, <2>3, <2>4, InvokeKeepsLists, FindKeepsLists, DoDeleteKeepsLists,
          FindFreeKeepsLists, StoreNewKeepsLists, NextrecKeepsLists DEF Step
<1>2. CASE UNCHANGED vars
  <2>1. /\ UNCHANGED <<ptr, rec, ieof, pc, call, db, alive>>
    BY <1>2 DEF vars
  <2>2. ListsKnown
    BY <2>1 DEF ListInv, Clean
  <2>3. \A q \in Proc : \A o : Unlinking(q, o)' = Unlinking(q, o)
    BY <2>1 DEF Unlinking
  <2>4. ASSUME NEW o PROVE EffPtr(o)' = EffPtr(o)
    <3>1. MutualExclusion /\ MutualExclusion'
      BY ControlExcludes, ExclusionAfter DEF IndInv
    <3>2. CASE \A q \in Proc : ~Unlinking(q, o)
      BY <2>1, <2>3, <3>2, NoneUnlinks
    <3>3. ASSUME NEW q \in Proc, Unlinking(q, o) PROVE EffPtr(o)' = EffPtr(o)
      BY <2>1, <2>3, <3>1, <3>3, OneUnlinks
    <3> QED BY <3>2, <3>3
  <2>5. NX' = NX /\ LO' = LO
    BY <2>1, <2>4 DEF NX, LO, ListOf
  <2>6. \A q \in Proc : LooseBy(q)' = LooseBy(q)
    BY <2>1 DEF LooseBy
  <2>7. LS' = LS
    <3>1. Views /\ Views'
      BY ViewsHold, ViewsHoldAfter
    <3>2. \A o : o \in LS <=> \E q \in Proc : LooseBy(q) /\ db[q].idxoff = o
      BY <3>1 DEF Views
    <3>3. \A o : o \in LS' <=> \E q \in Proc : LooseBy(q) /\ db[q].idxoff = o
      BY <2>1, <2>6, <3>1 DEF Views
    <3> QED BY <3>2, <3>3
  <2> QED BY <2>1, <2>2, <2>5, <2>6, <2>7 DEF ListsKnown, LooseOnce, Known, Chain
<1> QED BY <1>1, <1>2 DEF Next, Finished

\* At first there are only empty lists.
LEMMA InitLists == Init => ListInv
<1> SUFFICES ASSUME Init PROVE ListsKnown
  BY DEF ListInv
<1>1. /\ FirstRec \in Nat /\ NHash \in Nat /\ FirstRec = NHash + 1
  BY Sizes DEF FirstRec
<1>2. /\ ieof = FirstRec /\ ptr = [o \in 0..NHash |-> 0] /\ \A p \in Proc : pc[p] = "idle"
  BY DEF Init, FREE_OFF
<1>3. LS = {} /\ \A i : i \notin FirstRec..(ieof - 1)
  BY <1>1, <1>2 DEF LS
<1>4. \A o \in 0..(ieof - 1) : NX[o] = 0
  <2>1. ASSUME NEW o \in 0..(ieof - 1) PROVE EffPtr(o) = 0
    <3>1. \A q \in Proc : ~Unlinking(q, o)
      BY <1>2 DEF Unlinking
    <3>2. EffPtr(o) = ptr[o] /\ o \in 0..NHash
      BY <1>1, <1>2, <3>1, NoneUnlinks
    <3> QED BY <1>2, <3>2
  <2> QED BY <2>1 DEF NX
<1>5. \A o \in Cells(LS, ieof) : o \in 0..(ieof - 1) /\ NX[o] = 0
  BY <1>4 DEF Cells
<1>6. Shape(NX, LO, LS, ieof)
  <2>1. PICK h : h = [o \in 0..(ieof - 1) |-> 0]
    OBVIOUS
  <2>2. h \in [0..(ieof - 1) -> Nat] /\ Ascends(NX, LS, ieof, h)
    BY <1>5, <2>1 DEF Ascends
  <2> QED BY <1>3, <1>5, <2>2 DEF Shape, Apart, Unshared, Covered
<1>7. LooseOnce
  BY <1>2 DEF LooseOnce, LooseBy, LoosePC
<1>8. \A p \in alive : Known(p)
  BY <1>2, Vague DEF Known, VaguePC, Init
<1> QED BY <1>6, <1>7, <1>8 DEF ListsKnown

(***************************************************************************)
(* The lists keep their shape, and every process that has locked a list    *)
(* knows it, as long as nobody is killed in _db_dodelete between the two   *)
(* writes that move a record from its chain to the free list.              *)
(***************************************************************************)
THEOREM ListTheorem == Spec => []ListInv
<1>1. IndInv /\ IndInv' /\ ListInv /\ [Next]_vars => ListInv'
  BY StepKeepsListInv
<1>2. ControlInv /\ FilesInv => IndInv
  BY DEF IndInv
<1> QED BY <1>1, <1>2, InitLists, ControlTheorem, FilesTheorem, PTL DEF Spec

\* The shape of the lists, in the words of the files.
LEMMA ShapeIsListShape == IndInv /\ ListInv /\ Clean => ListShape
<1> SUFFICES ASSUME IndInv, ListInv, Clean PROVE ListShape
  OBVIOUS
<1>1. Shape(NX, LO, LS, ieof) /\ Views /\ FirstRec \in Nat
  BY ViewsHold, Sizes DEF ListInv, ListsKnown
<1>2. /\ DOMAIN ptr = 0..(ieof - 1) /\ DOMAIN rec = FirstRec..(ieof - 1) /\ ieof \in Nat
  BY DEF IndInv, FilesInv, FilesFit, FileType, FREE_OFF
<1>3. \A i \in FirstRec..(ieof - 1) : i \in LS <=> Loose(i)
  BY DEF LS
<1>4. Cell = Cells(LS, ieof)
  BY <1>1, <1>2, <1>3 DEF Cell, Cells
<1>5. \A o \in Cells(LS, ieof) : o \in 0..(ieof - 1) /\ NX[o] = EffPtr(o) /\ LO[o] = ListOf(o)
  BY <1>1 DEF Cells, Views
<1>6. \A i \in FirstRec..(ieof - 1) : i \in 0..(ieof - 1) /\ LO[i] = ListOf(i)
  BY <1>1, <1>2 DEF Views
<1>7. ListsApart
  BY <1>1, <1>2, <1>3, <1>4, <1>5, <1>6 DEF ListsApart, Shape, Apart
<1>8. NoSharing
  BY <1>1, <1>4, <1>5 DEF NoSharing, Shape, Unshared
<1>9. NoneLost
  BY <1>1, <1>2, <1>3, <1>4, <1>5 DEF NoneLost, Shape, Covered
<1> QED BY <1>7, <1>8, <1>9 DEF ListShape

(***************************************************************************)
(* CrashSafe for every database: wherever processes are killed but for the *)
(* one window in _db_dodelete, the hash chains and the free list stay      *)
(* disjoint lists that hold every record that is not loose exactly once    *)
(* (_db_dodelete, _db_findfree, db_store).                                 *)
(***************************************************************************)
THEOREM CrashTheorem == Spec => []CrashSafe
<1>1. IndInv /\ ListInv => CrashSafe
  BY ShapeIsListShape DEF CrashSafe, Clean
<1>2. ControlInv /\ FilesInv => IndInv
  BY DEF IndInv
<1> QED BY <1>1, <1>2, ListTheorem, ControlTheorem, FilesTheorem, PTL

\* Without kills nobody dies there.
LEMMA NobodyKilled == ASSUME Crashable = {} PROVE Spec => []Clean
<1>1. Init => Clean
  BY DEF Init, Clean
<1>2. IndInv /\ Clean /\ [Next]_vars => Clean'
  <2> SUFFICES ASSUME IndInv, Clean, [Next]_vars PROVE Clean'
    OBVIOUS
  <2>1. ASSUME NEW p \in Proc, Invoke(p) \/ Step(p) \/ Crash(p) PROVE Clean'
    <3>1. Rests(p)
      BY <2>1, Deaths
    <3> QED BY <3>1 DEF Rests, Clean
  <2>2. CASE UNCHANGED vars
    BY <2>2 DEF vars, Clean
  <2> QED BY <2>1, <2>2 DEF Next, Finished
<1>3. ControlInv /\ FilesInv => IndInv
  BY DEF IndInv
<1> QED BY <1>1, <1>2, <1>3, ControlTheorem, FilesTheorem, PTL DEF Spec

(***************************************************************************)
(* ListShape for every database whose processes are not killed, including  *)
(* those that abort by themselves: insertions, deletions and reuse that    *)
(* race in _db_dodelete, _db_findfree and db_store lose no record and link *)
(* none twice.                                                             *)
(***************************************************************************)
THEOREM ListShapeTheorem == Crashable = {} => (Spec => []ListShape)
<1> SUFFICES ASSUME Crashable = {} PROVE Spec => []ListShape
  OBVIOUS
<1>1. Spec => []Clean
  BY NobodyKilled
<1>2. IndInv /\ ListInv /\ Clean => ListShape
  BY ShapeIsListShape
<1>3. ControlInv /\ FilesInv => IndInv
  BY DEF IndInv
<1> QED BY <1>1, <1>2, <1>3, ListTheorem, ControlTheorem, FilesTheorem, PTL

-----------------------------------------------------------------------------
(***************************************************************************)
(* Walks.  Members is a recursive function: that it exists, and what it    *)
(* computes, is shown by induction over sets of natural numbers.           *)
(***************************************************************************)
LEMMA LeastOffset ==
  ASSUME NEW T, T \subseteq Nat, T # {}
  PROVE  \E x \in T : \A y \in T : x <= y
<1> DEFINE R == {ss \in Nat \X Nat : ss[1] < ss[2]}
<1>1. IsWellFoundedOn(R, Nat)
  BY NatLessThanWellFounded DEF OpToRel
<1>2. ASSUME NEW x \in Nat, NEW y \in Nat, <<y, x>> \notin R PROVE x <= y
  BY <1>2, SMT
<1> HIDE DEF R
<1>3. PICK x \in T : \A y \in T : ~ (<<y, x>> \in R)
  BY <1>1, WFMin
<1> QED BY <1>2, <1>3

\* Induction over a set.
LEMMA CountUp ==
  ASSUME NEW S, 0 \in S, \A n \in Nat : n \in S => n + 1 \in S
  PROVE  Nat \subseteq S
<1> DEFINE T == Nat \ S
<1>1. CASE T # {}
  <2>1. PICK x \in T : \A y \in T : x <= y
    BY <1>1, LeastOffset
  <2>2. x - 1 \in Nat /\ x - 1 \in S
    BY <2>1
  <2> QED BY <2>1, <2>2
<1> QED BY <1>1

\* R[n] is what n steps along nx reach from c.
Follows(R, nx, c, M) ==
  R = [n \in 0..M |-> IF n = 0 THEN {c} ELSE R[n - 1] \cup ({nx[o] : o \in R[n - 1]} \ {0})]

\* There is such a walk of every length.
LEMMA WalkExists ==
  ASSUME NEW nx, NEW c, NEW M \in Nat
  PROVE  \E R : Follows(R, nx, c, M)
<1> DEFINE S == {m \in Nat : \E R : Follows(R, nx, c, m)}
<1>1. 0 \in S
  <2>1. PICK R : R = [n \in 0..0 |-> {c}]
    OBVIOUS
  <2>2. R = [n \in 0..0 |-> IF n = 0 THEN {c}
                             ELSE R[n - 1] \cup ({nx[o] : o \in R[n - 1]} \ {0})]
    BY <2>1
  <2> QED BY <2>2 DEF Follows
<1>2. ASSUME NEW m \in Nat, m \in S PROVE m + 1 \in S
  <2>1. PICK R : Follows(R, nx, c, m)
    BY <1>2
  <2>2. PICK Q : Q = [n \in 0..(m + 1) |->
                        IF n <= m THEN R[n] ELSE R[m] \cup ({nx[o] : o \in R[m]} \ {0})]
    OBVIOUS
  <2>3. ASSUME NEW n \in 0..(m + 1)
        PROVE  Q[n] = IF n = 0 THEN {c} ELSE Q[n - 1] \cup ({nx[o] : o \in Q[n - 1]} \ {0})
    <3>1. CASE n = 0
      <4>1. R[0] = {c}
        BY <2>1 DEF Follows
      <4> QED BY <2>2, <3>1, <4>1
    <3>2. CASE n # 0 /\ n <= m
      <4>1. n \in 0..m /\ n - 1 \in 0..(m + 1) /\ n - 1 <= m
        BY <3>2
      <4>2. R[n] = R[n - 1] \cup ({nx[o] : o \in R[n - 1]} \ {0})
        BY <2>1, <3>2, <4>1 DEF Follows
      <4>3. Q[n] = R[n] /\ Q[n - 1] = R[n - 1]
        BY <2>2, <3>2, <4>1
      <4> QED BY <3>2, <4>2, <4>3
    <3>3. CASE n = m + 1
      <4>1. n - 1 = m /\ n # 0 /\ m \in 0..(m + 1) /\ ~(n <= m)
        BY <3>3
      <4>2. Q[n] = R[m] \cup ({nx[o] : o \in R[m]} \ {0}) /\ Q[n - 1] = R[m]
        BY <2>2, <4>1
      <4> QED BY <4>1, <4>2
    <3> QED BY <3>1, <3>2, <3>3
  <2>4. Q = [n \in 0..(m + 1) |-> Q[n]]
    BY <2>2
  <2>5. Q = [n \in 0..(m + 1) |->
               IF n = 0 THEN {c} ELSE Q[n - 1] \cup ({nx[o] : o \in Q[n - 1]} \ {0})]
    BY <2>3, <2>4, Zenon
  <2> QED BY <2>5 DEF Follows
<1> HIDE DEF S
<1>3. Nat \subseteq S
  BY <1>1, <1>2, CountUp
<1> QED BY <1>3 DEF S

\* A set that no pointer leaves, and what holds after n steps of the walk.
ClosedUnder(T, nx) == \A o \in T : nx[o] # 0 => nx[o] \in T

WalkAt(R, nx, c, D, n) ==
  /\ c \in R[n] /\ R[n] \subseteq D
  /\ (ClosedUnder(R[n], nx) \/ Cardinality(R[n]) >= n + 1)

\* After as many steps as there are records nothing new is reached: while the
\* walk is not closed, every step reaches at least one more offset.
LEMMA WalkCloses ==
  ASSUME NEW nx, NEW c, NEW D, IsFiniteSet(D), NEW M \in Nat, Cardinality(D) <= M + 1,
         c \in D, NEW R, Follows(R, nx, c, M), ClosedUnder(D, nx)
  PROVE  c \in R[M] /\ R[M] \subseteq D /\ ClosedUnder(R[M], nx)
<1> DEFINE S == {n \in Nat : n <= M => WalkAt(R, nx, c, D, n)}
<1>1. 0 \in S
  <2>1. R[0] = {c}
    BY DEF Follows
  <2>2. Cardinality(R[0]) = 1
    BY <2>1, FS_Singleton
  <2>3. Cardinality(R[0]) >= 0 + 1
    BY <2>2
  <2>4. WalkAt(R, nx, c, D, 0)
    BY <2>1, <2>3 DEF WalkAt
  <2> QED BY <2>4
<1>2. ASSUME NEW n \in Nat, n \in S PROVE n + 1 \in S
  <2>1. SUFFICES ASSUME n + 1 <= M PROVE WalkAt(R, nx, c, D, n + 1)
    OBVIOUS
  <2>2. WalkAt(R, nx, c, D, n)
    BY <1>2, <2>1
  <2> HIDE DEF S
  <2>3. R[n + 1] = R[n] \cup ({nx[o] : o \in R[n]} \ {0})
    <3>1. n + 1 \in 0..M /\ (n + 1) - 1 = n /\ n + 1 # 0
      BY <2>1
    <3> QED BY <3>1 DEF Follows
  <2>4. c \in R[n + 1] /\ R[n + 1] \subseteq D
    BY <2>2, <2>3 DEF WalkAt, ClosedUnder
  <2>5. CASE ClosedUnder(R[n], nx)
    <3>1. R[n + 1] = R[n]
      BY <2>3, <2>5 DEF ClosedUnder
    <3> QED BY <2>4, <2>5, <3>1 DEF WalkAt
  <2>6. CASE ~ClosedUnder(R[n], nx)
    <3>1. R[n] \subseteq R[n + 1] /\ R[n] # R[n + 1]
      BY <2>3, <2>6 DEF ClosedUnder
    <3>2. IsFiniteSet(R[n + 1])
      BY <2>4, FS_Subset
    <3>3. IsFiniteSet(R[n]) /\ Cardinality(R[n]) <= Cardinality(R[n + 1])
          /\ Cardinality(R[n]) # Cardinality(R[n + 1])
      BY <3>1, <3>2, FS_Subset
    <3>4. Cardinality(R[n]) \in Nat /\ Cardinality(R[n + 1]) \in Nat
      BY <3>2, <3>3, FS_CardinalityType
    <3>5. Cardinality(R[n]) >= n + 1
      BY <2>2, <2>6 DEF WalkAt
    <3>6. Cardinality(R[n + 1]) >= (n + 1) + 1
      BY <3>3, <3>4, <3>5
    <3> QED BY <2>4, <3>6 DEF WalkAt
  <2> QED BY <2>5, <2>6
<1>3. M \in S
  <2> HIDE DEF S
  <2> QED BY <1>1, <1>2, CountUp
<1>4. WalkAt(R, nx, c, D, M)
  BY <1>3
<1>5. CASE Cardinality(R[M]) >= M + 1
  <2>1. /\ IsFiniteSet(R[M]) /\ Cardinality(R[M]) <= Cardinality(D)
        /\ Cardinality(R[M]) \in Nat /\ Cardinality(D) \in Nat
    BY <1>4, FS_Subset, FS_CardinalityType DEF WalkAt
  <2>2. Cardinality(R[M]) = Cardinality(D)
    BY <1>5, <2>1
  <2>3. R[M] = D
    BY <1>4, <2>2, FS_Subset DEF WalkAt
  <2> QED BY <1>4, <2>3 DEF WalkAt
<1> QED BY <1>4, <1>5 DEF WalkAt

\* In a shape whose lists start at their heads, the walk from a head reaches
\* every record of its list.
LEMMA WalkReaches ==
  ASSUME NEW nx, NEW lo, NEW L, NEW e, Shape(nx, lo, L, e), NEW T, NEW c \in T,
         ClosedUnder(T, nx),
         \A o \in 0..NHash : lo[o] = o,
         NEW i \in FirstRec..(e - 1), i \notin L, lo[i] = c
  PROVE  i \in T
<1>1. PICK h \in [0..(e - 1) -> Nat] : Ascends(nx, L, e, h)
  BY DEF Shape
<1>2. FirstRec \in Nat /\ NHash \in Nat /\ FirstRec = NHash + 1
  BY Sizes DEF FirstRec
<1> DEFINE Missed == {j \in FirstRec..(e - 1) : j \notin L /\ lo[j] = c /\ j \notin T}
           Depths == {h[j] : j \in Missed}
<1>3. ASSUME i \notin T PROVE FALSE
  <2>1. i \in Missed
    BY <1>3
  <2>2. Depths \subseteq Nat /\ Depths # {}
    BY <1>1, <1>2, <2>1
  <2>3. PICK d \in Depths : \A y \in Depths : d <= y
    BY <2>2, LeastOffset
  <2>4. PICK j \in Missed : d = h[j]
    BY <2>3
  <2>5. PICK o \in Cells(L, e) : nx[o] = j
    BY <2>4 DEF Shape, Covered
  <2>6. j # 0 /\ h[o] < h[j] /\ lo[o] = c /\ o \in 0..(e - 1)
    BY <1>1, <1>2, <2>4, <2>5 DEF Shape, Apart, Ascends, Cells
  <2>7. o \notin T
    BY <2>4, <2>5, <2>6 DEF ClosedUnder
  <2>8. CASE o < FirstRec
    <3>1. o \in 0..NHash
      BY <1>2, <2>6, <2>8
    <3> QED BY <2>6, <2>7, <3>1
  <2>9. CASE ~(o < FirstRec)
    <3>1. o \in FirstRec..(e - 1) /\ o \notin L
      BY <1>2, <2>5, <2>6, <2>9 DEF Cells
    <3>2. o \in Missed
      BY <2>6, <2>7, <3>1
    <3>3. h[o] \in Depths /\ h[o] \in Nat /\ h[j] \in Nat
      BY <1>1, <1>2, <2>4, <2>6, <3>2
    <3>4. d <= h[o]
      BY <2>3, <3>3
    <3>5. h[j] <= h[o]
      BY <2>4, <3>4
    <3> HIDE DEF Missed, Depths
    <3> QED BY <2>6, <3>3, <3>5
  <2> QED BY <2>8, <2>9
<1> QED BY <1>3

\* The walk of Members follows the effective pointers.
LEMMA MembersWalk ==
  ASSUME NEW c, ieof - FirstRec \in Nat
  PROVE  \E R : /\ Follows(R, [o \in DOMAIN ptr |-> EffPtr(o)], c, ieof - FirstRec)
               /\ Members(c) = R[ieof - FirstRec] \ {c}
<1> DEFINE Layers(R) ==
             R = [n \in 0..(ieof - FirstRec) |->
                    IF n = 0 THEN {c}
                    ELSE R[n - 1]
                         \cup ({[o \in DOMAIN ptr |-> EffPtr(o)][x] : x \in R[n - 1]} \ {0})]
<1>1. PICK f : Follows(f, [o \in DOMAIN ptr |-> EffPtr(o)], c, ieof - FirstRec)
  BY WalkExists
<1>2. Layers(f)
  BY <1>1 DEF Follows
<1>3. Layers(CHOOSE R : Layers(R))
  <2> HIDE DEF Layers
  <2> QED BY <1>2
<1>4. Members(c) = (CHOOSE R : Layers(R))[ieof - FirstRec] \ {c}
  BY DEF Members
<1> QED BY <1>3, <1>4 DEF Follows

\* The walk from the head of a list reaches every record of the list.
LEMMA HeadReaches ==
  ASSUME IndInv, ListInv, Clean, NEW i \in FirstRec..(ieof - 1), ~Loose(i)
  PROVE  i \in Members(ListOf(i))
<1>1. Shape(NX, LO, LS, ieof) /\ Views /\ FirstRec \in Nat /\ NHash \in Nat
      /\ FirstRec = NHash + 1
  BY ViewsHold, Sizes DEF ListInv, ListsKnown, FirstRec
<1>2. ieof \in Nat /\ ieof - FirstRec \in Nat /\ DOMAIN ptr = 0..(ieof - 1)
  <2>1. ieof \in Nat /\ ieof >= FirstRec
    BY <1>1 DEF Views
  <2>2. DOMAIN ptr = 0..(ieof - 1)
    BY DEF IndInv, FilesInv, FilesFit, FileType, FREE_OFF
  <2> QED BY <1>1, <2>1, <2>2
<1>3. [o \in DOMAIN ptr |-> EffPtr(o)] = NX
  BY <1>2 DEF NX
<1>4. PICK c : c = ListOf(i)
  OBVIOUS
<1>5. c \in 0..NHash /\ c # i
  <2>1. rec[i].key \in Key \cup {Blank}
    BY <1>1 DEF IndInv, FilesInv, FilesFit, FileType, RecType
  <2> QED BY <1>1, <1>4, <2>1, ArgAssumption DEF ListOf, FREE_OFF
<1>6. PICK M : M = ieof - FirstRec
  OBVIOUS
<1>7. PICK R : Follows(R, NX, c, M) /\ Members(c) = R[M] \ {c}
  BY <1>2, <1>3, <1>6, MembersWalk
<1>8. PICK D : D = {c} \cup {j \in FirstRec..(ieof - 1) : j \notin LS}
  OBVIOUS
<1>9. IsFiniteSet(D) /\ Cardinality(D) <= M + 1
  <2>1. PICK E : E = FirstRec..(ieof - 1)
    OBVIOUS
  <2>2. IsFiniteSet(E) /\ Cardinality(E) = M
    BY <1>1, <1>2, <1>6, <2>1, FS_Interval
  <2>3. IsFiniteSet(E \cup {c}) /\ Cardinality(E \cup {c}) <= M + 1
    <3>1. /\ IsFiniteSet(E \cup {c})
          /\ Cardinality(E \cup {c}) = IF c \in E THEN Cardinality(E) ELSE Cardinality(E) + 1
      BY <2>2, FS_AddElement, Zenon
    <3> QED BY <1>2, <1>6, <2>2, <3>1
  <2>4. D \in SUBSET (E \cup {c})
    BY <1>8, <2>1
  <2>5. IsFiniteSet(D) /\ Cardinality(D) <= Cardinality(E \cup {c})
    BY <2>3, <2>4, FS_Subset
  <2> QED BY <1>2, <1>6, <2>3, <2>5, FS_CardinalityType
<1>10. ClosedUnder(D, NX)
  <2>1. ASSUME NEW o \in D PROVE o \in Cells(LS, ieof)
    BY <1>1, <1>5, <1>8 DEF Cells, Views
  <2> QED BY <1>1, <1>8, <2>1 DEF ClosedUnder, Shape, Apart
<1>11. c \in R[M] /\ ClosedUnder(R[M], NX)
  <2>1. M \in Nat /\ c \in D
    BY <1>2, <1>6, <1>8
  <2>2. Follows(R, NX, c, M)
    BY <1>7
  <2> QED BY <1>9, <1>10, <2>1, <2>2, WalkCloses, Zenon
<1>12. i \notin LS /\ LO[i] = c /\ \A o \in 0..NHash : LO[o] = o
  <2>1. i \in 0..(ieof - 1)
    BY <1>1, <1>2
  <2> QED BY <1>1, <1>4, <2>1 DEF LS, Views
<1>13. i \in R[M]
  BY <1>1, <1>11, <1>12, WalkReaches
<1> QED BY <1>4, <1>5, <1>7, <1>13

\* The shape of the lists makes every record reachable.
LEMMA ShapeReaches == IndInv /\ ListInv /\ Clean => AllReachable
<1> SUFFICES ASSUME IndInv, ListInv, Clean PROVE AllReachable
  OBVIOUS
<1>1. ListsApart /\ NoSharing
  BY ShapeIsListShape DEF ListShape
<1>2. DOMAIN rec = FirstRec..(ieof - 1)
  BY DEF IndInv, FilesInv, FilesFit, FileType
<1> QED BY <1>1, <1>2, HeadReaches DEF AllReachable

(***************************************************************************)
(* AllReachable for every database whose processes are not killed: a       *)
(* lookup in _db_find_and_lock finds every record of its chain, and        *)
(* _db_findfree every free one, by walking from the head.                  *)
(***************************************************************************)
THEOREM ReachableTheorem == Crashable = {} => (Spec => []AllReachable)
<1> SUFFICES ASSUME Crashable = {} PROVE Spec => []AllReachable
  OBVIOUS
<1>1. Spec => []Clean
  BY NobodyKilled
<1>2. IndInv /\ ListInv /\ Clean => AllReachable
  BY ShapeReaches
<1>3. ControlInv /\ FilesInv => IndInv
  BY DEF IndInv
<1> QED BY <1>1, <1>2, <1>3, ListTheorem, ControlTheorem, FilesTheorem, PTL
=============================================================================
