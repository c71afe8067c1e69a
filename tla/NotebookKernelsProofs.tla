------------------------ MODULE NotebookKernelsProofs ------------------------
(***************************************************************************)
(* Proofs about NotebookKernels, for any sessions, files, names and cells  *)
(* and any number of notebooks and kernels.                                *)
(*                                                                         *)
(* The inductive invariant has three parts: what the manager's objects     *)
(* are (Objects), who handles the kernel of which notebook (Kernels), and  *)
(* what the files hold (Files).  The last two do not need each other.      *)
(***************************************************************************)
EXTENDS NotebookKernels, SequenceTheorems, FiniteSetTheorems, TLAPS

(* Cells as a notebook or its file holds them: no id twice, and no outputs *)
(* of another cell.                                                        *)
Cells ==
  {cs \in Seq(CellState) :
     /\ \A p, q \in 1 .. Len(cs) : cs[p].id = cs[q].id => p = q
     /\ \A p \in 1 .. Len(cs) : cs[p].out \in {None, cs[p].id}}

Book == [name: Name, path: Path, cells: Cells, manager: Nat, client: Nat]

Types ==
  /\ book \in Seq(Book) /\ Len(book) <= MaxOpens
  /\ file \in [Path -> {None} \cup Cells]
  /\ kernel \in Seq(Nat) /\ Len(kernel) <= MaxKernels
  /\ \A k \in DOMAIN kernel : kernel[k] \in 0 .. Len(book)
  /\ gone \subseteq Session

(* A kernel a notebook object holds was started for it.                    *)
Holds(i) ==
  /\ book[i].manager \in 0 .. Len(kernel) /\ book[i].client \in 0 .. Len(kernel)
  /\ book[i].manager # 0 => kernel[book[i].manager] \in {0, i}

Holding == \A i \in DOMAIN book : Holds(i)

Dictionary ==
  /\ opened \in Seq(DOMAIN book)
  /\ \A p, q \in 1 .. Len(opened) : book[opened[p]].name = book[opened[q]].name => p = q
  /\ IF opened = <<>> THEN current = None ELSE current \in OpenNames

(* What a call refers to exists, and a kernel it waits for is of the       *)
(* notebook object it handles.                                             *)
CellRef == Cell \cup {Removed, None}
Resolving == [at: {"resolving"}, book: DOMAIN book, for: {"open", "run"},
              cell: CellRef, index: Nat]
Launching == [at: {"launching"}, book: DOMAIN book, for: {"open", "run"},
              cell: CellRef, index: Nat, kernel: DOMAIN kernel]
Running == [at: {"running"}, book: DOMAIN book, kernel: Nat, cell: CellRef, index: Nat]

Fits(w) ==
  /\ w.at = "prepared" => w.directory \in Session
  /\ w.at = "resolving" => w \in Resolving
  /\ w.at = "launching" => w \in Launching
  /\ w.at = "running" => w \in Running
  /\ w.at = "closing" => w.book \in DOMAIN book /\ w.kernel \in DOMAIN kernel
  /\ w.at \in {"launching", "closing"} => kernel[w.kernel] \in {0, w.book}

CallsOK == call = [s \in Session |-> call[s]] /\ \A s \in Session : Fits(call[s])

Objects == Types /\ Holding /\ Dictionary /\ CallsOK

(* A notebook object nothing happened to has one handler at most: it is    *)
(* open, and has no kernel while one starts, or the one that stops.        *)
Handled(s) ==
  LET i == call[s].book IN
  call[s].at \in Lifecycle /\ i \notin hurt =>
    /\ i \in Open
    /\ book[i].manager = IF call[s].at = "closing" THEN call[s].kernel ELSE 0
    /\ \A t \in Session : call[t].at \in Lifecycle /\ call[t].book = i => t = s

(* The client of a kernel goes only when the kernel is about to stop.      *)
Clientless(i) ==
  book[i].manager # 0 /\ book[i].client = 0 /\ i \notin hurt =>
    \E s \in Session : call[s].at = "closing" /\ call[s].book = i

Kernels ==
  /\ \A s \in Session : Handled(s)
  /\ \A i \in Open : Clientless(i)
  /\ KernelsOwned

(* A file that is open twice has strayed.                                  *)
OpenOnce ==
  \A i, j \in Open : i # j /\ book[i].path = book[j].path => book[i].path \in strayed

(* The file of a notebook that has not strayed is there, and follows.      *)
InFile(i) ==
  book[i].path \notin strayed =>
    /\ file[book[i].path] # None
    /\ i \in unsaved \/ file[book[i].path] = book[i].cells

Files ==
  /\ OpenOnce
  /\ \A i \in Open : InFile(i)
  /\ unsaved \subseteq DOMAIN book

Inv == Objects /\ Kernels /\ Files

-----------------------------------------------------------------------------
(* Sequences, and the cells of a notebook *)

LEMMA Joining ==
  ASSUME NEW S, NEW a \in Seq(S), NEW b \in Seq(S)
  PROVE  /\ a \o b \in Seq(S) /\ Len(a \o b) = Len(a) + Len(b)
         /\ \A i \in 1 .. Len(a) + Len(b) :
              (a \o b)[i] = IF i <= Len(a) THEN a[i] ELSE b[i - Len(a)]
OBVIOUS

(* What is left of a sequence when the element at p is taken out.          *)
LEMMA Removing ==
  ASSUME NEW S, NEW s \in Seq(S), NEW p \in 1 .. Len(s)
  PROVE  /\ RemoveAt(s, p) \in Seq(S) /\ Len(RemoveAt(s, p)) = Len(s) - 1
         /\ \A i \in 1 .. Len(s) - 1 : RemoveAt(s, p)[i] = IF i < p THEN s[i] ELSE s[i + 1]
<1> DEFINE a == SubSeq(s, 1, p - 1)
           b == SubSeq(s, p + 1, Len(s))
<1>0. Len(s) \in Nat /\ p \in Int /\ 1 <= p /\ p <= Len(s)
  OBVIOUS
<1>1. a \in Seq(S) /\ Len(a) = p - 1 /\ \A i \in 1 .. p - 1 : a[i] = s[i]
  BY <1>0
<1>2. b \in Seq(S) /\ Len(b) = Len(s) - p /\ \A i \in 1 .. Len(s) - p : b[i] = s[p + i]
  BY <1>0
<1>3. RemoveAt(s, p) = a \o b
  BY DEF RemoveAt
<1> HIDE DEF a, b
<1>4. /\ a \o b \in Seq(S) /\ Len(a \o b) = Len(s) - 1
      /\ \A i \in 1 .. Len(s) - 1 : (a \o b)[i] = IF i <= p - 1 THEN a[i] ELSE b[i - (p - 1)]
  <2>1. Len(a) + Len(b) = Len(s) - 1
    BY <1>0, <1>1, <1>2
  <2> QED
    <3>1. /\ a \o b \in Seq(S) /\ Len(a \o b) = Len(a) + Len(b)
          /\ \A i \in 1 .. Len(a) + Len(b) :
               (a \o b)[i] = IF i <= Len(a) THEN a[i] ELSE b[i - Len(a)]
      BY <1>1, <1>2, Joining
    <3> QED
      BY <2>1, <3>1, <1>1
<1>5. ASSUME NEW i \in 1 .. Len(s) - 1
      PROVE  (a \o b)[i] = IF i < p THEN s[i] ELSE s[i + 1]
  <2>1. CASE i < p
    BY <1>0, <1>1, <1>4, <2>1
  <2>2. CASE ~(i < p)
    <3>1. i - (p - 1) \in 1 .. Len(s) - p /\ p + (i - (p - 1)) = i + 1
      BY <1>0, <2>2
    <3> QED
      BY <1>0, <1>2, <1>4, <2>2, <3>1
  <2> QED
    BY <2>1, <2>2
<1> QED
  BY <1>3, <1>4, <1>5

(* And with an element put in at p: what is at place i then.               *)
Placed(s, p, e, i) == IF i < p THEN s[i] ELSE IF i = p THEN e ELSE s[i - 1]

LEMMA Inserting ==
  ASSUME NEW S, NEW s \in Seq(S), NEW p \in 1 .. Len(s) + 1, NEW e \in S
  PROVE  /\ InsertAt(s, p, e) \in Seq(S) /\ Len(InsertAt(s, p, e)) = Len(s) + 1
         /\ \A i \in 1 .. Len(s) + 1 : InsertAt(s, p, e)[i] = Placed(s, p, e, i)
<1> DEFINE a == SubSeq(s, 1, p - 1)
           b == SubSeq(s, p, Len(s))
           ae == a \o <<e>>
<1>0. Len(s) \in Nat /\ p \in Int /\ 1 <= p /\ p <= Len(s) + 1
  OBVIOUS
<1>1. a \in Seq(S) /\ Len(a) = p - 1 /\ \A i \in 1 .. p - 1 : a[i] = s[i]
  BY <1>0
<1>2. b \in Seq(S) /\ Len(b) = Len(s) + 1 - p /\ \A i \in 1 .. Len(s) + 1 - p : b[i] = s[p + i - 1]
  BY <1>0
<1>3. InsertAt(s, p, e) = ae \o b
  BY DEF InsertAt
<1> HIDE DEF a, b
<1>4. /\ ae \in Seq(S) /\ Len(ae) = p
      /\ \A i \in 1 .. p : ae[i] = IF i < p THEN s[i] ELSE e
  BY <1>0, <1>1
<1> HIDE DEF ae
<1>5. /\ ae \o b \in Seq(S) /\ Len(ae \o b) = Len(s) + 1
      /\ \A i \in 1 .. Len(s) + 1 : (ae \o b)[i] = IF i <= p THEN ae[i] ELSE b[i - p]
  <2>1. Len(ae) + Len(b) = Len(s) + 1
    BY <1>0, <1>2, <1>4
  <2> HIDE DEF b
  <2>2. /\ ae \o b \in Seq(S) /\ Len(ae \o b) = Len(ae) + Len(b)
        /\ \A i \in 1 .. Len(ae) + Len(b) :
             (ae \o b)[i] = IF i <= Len(ae) THEN ae[i] ELSE b[i - Len(ae)]
    <3>1. ae \in Seq(S) /\ b \in Seq(S)
      BY <1>2, <1>4
    <3> QED
      BY <3>1, Joining
  <2>3. Len(ae) = p
    BY <1>4
  <2> QED
    BY <2>1, <2>2, <2>3
<1>6. ASSUME NEW i \in 1 .. Len(s) + 1
      PROVE  (ae \o b)[i] = Placed(s, p, e, i)
  <2>1. CASE i <= p
    BY <1>0, <1>4, <1>5, <2>1 DEF Placed
  <2>2. CASE ~(i <= p)
    <3>1. i - p \in 1 .. Len(s) + 1 - p /\ p + (i - p) - 1 = i - 1
      BY <1>0, <2>2
    <3> QED
      BY <1>0, <1>2, <1>5, <2>2, <3>1 DEF Placed
  <2> QED
    BY <2>1, <2>2
<1> QED
  BY <1>3, <1>5, <1>6

(* The element at one place of what InsertAt makes, place by place.         *)
LEMMA InsertedAt ==
  ASSUME NEW S, NEW s \in Seq(S), NEW e \in S, NEW p \in 1 .. Len(s) + 1,
         NEW i \in 1 .. Len(s) + 1, NEW new, new = InsertAt(s, p, e)
  PROVE  /\ i < p => new[i] = s[i]
         /\ i = p => new[i] = e
         /\ i > p => new[i] = s[i - 1]
<1>1. InsertAt(s, p, e)[i] = Placed(s, p, e, i)
  BY Inserting, Zenon
<1>2. new[i] = IF i < p THEN s[i] ELSE IF i = p THEN e ELSE s[i - 1]
  BY <1>1 DEF Placed
<1>3. i \in Int /\ p \in Int
  OBVIOUS
<1> QED
  BY <1>2, <1>3

LEMMA CellsAre ==
  ASSUME NEW cs \in Cells
  PROVE  /\ cs \in Seq(CellState) /\ Len(cs) \in Nat /\ DOMAIN cs = 1 .. Len(cs) /\ cs # None
         /\ \A p, q \in 1 .. Len(cs) : cs[p].id = cs[q].id => p = q
         /\ \A p \in 1 .. Len(cs) : cs[p] \in CellState /\ cs[p].out \in {None, cs[p].id}
BY NoneAssumption DEF Cells

LEMMA CellsMade ==
  ASSUME NEW cs \in Seq(CellState),
         \A p, q \in 1 .. Len(cs) : cs[p].id = cs[q].id => p = q,
         \A p \in 1 .. Len(cs) : cs[p].out \in {None, cs[p].id}
  PROVE  cs \in Cells
BY DEF Cells

LEMMA NoCells == <<>> \in Cells
<1>1. <<>> \in Seq(CellState) /\ Len(<<>>) = 0
  OBVIOUS
<1> QED
  BY <1>1 DEF Cells

(* A cell that is new goes in anywhere.                                    *)
LEMMA CellsInsert ==
  ASSUME NEW cs \in Cells, NEW p \in 1 .. Len(cs) + 1, NEW e \in CellState,
         e.id \notin Ids(cs), e.out \in {None, e.id}
  PROVE  InsertAt(cs, p, e) \in Cells
<1> DEFINE new == InsertAt(cs, p, e)
<1>1. /\ new \in Seq(CellState) /\ Len(new) = Len(cs) + 1
      /\ \A i \in 1 .. Len(cs) + 1 :
           new[i] = IF i < p THEN cs[i] ELSE IF i = p THEN e ELSE cs[i - 1]
  <2>1. cs \in Seq(CellState)
    BY CellsAre
  <2> HIDE DEF new
  <2>2. new = InsertAt(cs, p, e)
    BY DEF new
  <2>3. new \in Seq(CellState) /\ Len(new) = Len(cs) + 1
    BY <2>1, <2>2, Inserting
  <2>4. ASSUME NEW i \in 1 .. Len(cs) + 1
        PROVE  new[i] = IF i < p THEN cs[i] ELSE IF i = p THEN e ELSE cs[i - 1]
    <3>1. /\ i < p => new[i] = cs[i]
          /\ i = p => new[i] = e
          /\ i > p => new[i] = cs[i - 1]
      BY <2>1, <2>2, InsertedAt
    <3>2. i \in Int /\ p \in Int
      OBVIOUS
    <3> QED
      BY <3>1, <3>2
  <2> QED
    BY <2>3, <2>4
<1>2. /\ Len(cs) \in Nat /\ \A i \in 1 .. Len(cs) : cs[i].id # e.id
      /\ \A i, j \in 1 .. Len(cs) : cs[i].id = cs[j].id => i = j
      /\ \A i \in 1 .. Len(cs) : cs[i].out \in {None, cs[i].id}
  BY CellsAre DEF Ids
<1> HIDE DEF new
<1>3. ASSUME NEW i \in 1 .. Len(new)
      PROVE  \/ i < p /\ i \in 1 .. Len(cs) /\ new[i] = cs[i]
             \/ i = p /\ new[i] = e
             \/ i > p /\ i - 1 \in 1 .. Len(cs) /\ new[i] = cs[i - 1]
  BY <1>1, <1>2
<1>4. ASSUME NEW i \in 1 .. Len(new), NEW j \in 1 .. Len(new), new[i].id = new[j].id
      PROVE  i = j
  <2>0. ASSUME NEW k \in 1 .. Len(new)
        PROVE  IF k = p THEN new[k].id = e.id ELSE new[k].id # e.id
    <3>1. p \in Int /\ ~(p < p) /\ ~(p > p)
      BY <1>2
    <3>2. CASE k = p
      BY <1>3, <3>1, <3>2
    <3>3. CASE k # p
      <4>1. \E l \in 1 .. Len(cs) : new[k] = cs[l]
        BY <1>3, <3>3
      <4> QED
        BY <1>2, <3>3, <4>1
    <3> QED
      BY <3>2, <3>3
  <2>1. CASE i = p \/ j = p
    BY <1>4, <2>0, <2>1
  <2>2. CASE i # p /\ j # p
    <3>1. PICK k \in 1 .. Len(cs) : new[i] = cs[k] /\ k = (IF i < p THEN i ELSE i - 1)
      BY <1>3, <2>2
    <3>2. PICK l \in 1 .. Len(cs) : new[j] = cs[l] /\ l = (IF j < p THEN j ELSE j - 1)
      BY <1>3, <2>2
    <3>3. k = l
      BY <1>2, <1>4, <3>1, <3>2
    <3>4. i \in Int /\ j \in Int /\ p \in Int
      BY <1>1, <1>2
    <3> QED
      BY <2>2, <3>1, <3>2, <3>3, <3>4
  <2> QED
    BY <2>1, <2>2
<1>5. \A i \in 1 .. Len(new) : new[i].out \in {None, new[i].id}
  BY <1>2, <1>3
<1> QED
  BY <1>1, <1>4, <1>5, CellsMade DEF new

(* A cell that is taken out is not among the others.                       *)
LEMMA CellsRemove ==
  ASSUME NEW cs \in Cells, NEW p \in 1 .. Len(cs)
  PROVE  /\ RemoveAt(cs, p) \in Cells /\ Len(RemoveAt(cs, p)) = Len(cs) - 1
         /\ cs[p].id \notin Ids(RemoveAt(cs, p))
<1> DEFINE new == RemoveAt(cs, p)
<1>1. /\ new \in Seq(CellState) /\ Len(new) = Len(cs) - 1
      /\ \A i \in 1 .. Len(cs) - 1 : new[i] = IF i < p THEN cs[i] ELSE cs[i + 1]
  BY CellsAre, Removing
<1>2. /\ Len(cs) \in Nat /\ \A i, j \in 1 .. Len(cs) : cs[i].id = cs[j].id => i = j
      /\ \A i \in 1 .. Len(cs) : cs[i].out \in {None, cs[i].id}
  BY CellsAre
<1> HIDE DEF new
<1>3. ASSUME NEW i \in 1 .. Len(new)
      PROVE  \E k \in 1 .. Len(cs) : new[i] = cs[k] /\ k = (IF i < p THEN i ELSE i + 1) /\ k # p
  BY <1>1, <1>2
<1>4. ASSUME NEW i \in 1 .. Len(new), NEW j \in 1 .. Len(new), new[i].id = new[j].id
      PROVE  i = j
  <2>1. PICK k \in 1 .. Len(cs) : new[i] = cs[k] /\ k = (IF i < p THEN i ELSE i + 1)
    BY <1>3
  <2>2. PICK l \in 1 .. Len(cs) : new[j] = cs[l] /\ l = (IF j < p THEN j ELSE j + 1)
    BY <1>3
  <2>3. k = l
    BY <1>2, <1>4, <2>1, <2>2
  <2> QED
    BY <2>1, <2>2, <2>3
<1>5. \A i \in 1 .. Len(new) : new[i].out \in {None, new[i].id} /\ new[i].id # cs[p].id
  BY <1>2, <1>3
<1>6. DOMAIN new = 1 .. Len(new)
  BY <1>1
<1>7. cs[p].id \notin Ids(new)
  BY <1>5, <1>6 DEF Ids
<1> QED
  BY <1>1, <1>4, <1>5, <1>7, CellsMade DEF new

(* Cells at different places of a notebook, wherever they are now.         *)
Picks(new, cs, n, g) ==
  /\ n \in Nat /\ g \in [1 .. n -> 1 .. Len(cs)]
  /\ \A i, j \in 1 .. n : g[i] = g[j] => i = j
  /\ new = [i \in 1 .. n |-> cs[g[i]]]

LEMMA CellsPicked ==
  ASSUME NEW cs \in Cells, NEW new, NEW n, NEW g, Picks(new, cs, n, g)
  PROVE  new \in Cells
<1>0. /\ n \in Nat /\ g \in [1 .. n -> 1 .. Len(cs)]
      /\ \A i, j \in 1 .. n : g[i] = g[j] => i = j
      /\ new = [i \in 1 .. n |-> cs[g[i]]]
  BY DEF Picks
<1>1. /\ \A i, j \in 1 .. Len(cs) : cs[i].id = cs[j].id => i = j
      /\ \A i \in 1 .. Len(cs) : cs[i] \in CellState /\ cs[i].out \in {None, cs[i].id}
  BY CellsAre
<1>2. \A i \in 1 .. n : new[i] = cs[g[i]] /\ g[i] \in 1 .. Len(cs)
  BY <1>0
<1>3. new \in [1 .. n -> CellState]
  BY <1>0, <1>1, <1>2
<1>4. new \in Seq(CellState) /\ Len(new) = n
  BY <1>0, <1>3
<1>5. \A i, j \in 1 .. n : new[i].id = new[j].id => i = j
  BY <1>0, <1>1, <1>2
<1>6. \A i \in 1 .. n : new[i].out \in {None, new[i].id}
  BY <1>1, <1>2
<1> QED
  BY <1>4, <1>5, <1>6, CellsMade

(* What a deletion leaves is in its order, so no cell is there twice.      *)
LEMMA CellsRemain ==
  ASSUME NEW cs \in Cells, NEW D, NEW new \in Remaining(cs, D)
  PROVE  new \in Cells
<1> DEFINE kept == DOMAIN cs \ D
           n == Cardinality(kept)
<1>1. PICK g \in [1 .. n -> kept] :
        /\ \A i, j \in DOMAIN g : i < j => g[i] < g[j]
        /\ new = [i \in DOMAIN g |-> cs[g[i]]]
  BY DEF Remaining
<1>2. n \in Nat /\ kept \subseteq 1 .. Len(cs)
  <2>1. kept \subseteq 1 .. Len(cs) /\ Len(cs) \in Int /\ 1 \in Int
    BY CellsAre
  <2>2. IsFiniteSet(1 .. Len(cs))
    BY <2>1, FS_Interval
  <2> QED
    BY <2>1, <2>2, FS_Subset, FS_CardinalityType
<1> HIDE DEF n, kept
<1>3. g \in [1 .. n -> 1 .. Len(cs)] /\ DOMAIN g = 1 .. n
  BY <1>1, <1>2
<1>4. \A i, j \in 1 .. n : g[i] = g[j] => i = j
  <2> SUFFICES ASSUME NEW i \in 1 .. n, NEW j \in 1 .. n, i # j PROVE g[i] # g[j]
    OBVIOUS
  <2>1. i \in Int /\ j \in Int /\ g[i] \in Int /\ g[j] \in Int
    BY <1>2, <1>3
  <2>2. i < j \/ j < i
    BY <2>1
  <2> QED
    BY <1>1, <1>3, <2>1, <2>2
<1>5. new = [i \in 1 .. n |-> cs[g[i]]]
  BY <1>1, <1>3
<1>6. n \in Nat
  BY <1>2
<1>7. Picks(new, cs, n, g)
  BY <1>3, <1>4, <1>5, <1>6 DEF Picks
<1> QED
  BY <1>7, CellsPicked

LEMMA CellsBefore ==
  ASSUME NEW cs \in Cells, NEW p \in 1 .. Len(cs)
  PROVE  SubSeq(cs, 1, p - 1) \in Cells
<1>1. cs \in Seq(CellState) /\ Len(cs) \in Nat
  BY CellsAre
<1>2. p - 1 \in Nat /\ p - 1 < Len(cs)
  BY <1>1
<1> PICK n \in Nat : n = p - 1
  BY <1>2
<1>3. SubSeq(cs, 1, n) = [i \in 1 .. n |-> cs[i]]
  BY <1>1, <1>2
<1> PICK g : g = [i \in 1 .. n |-> i]
  OBVIOUS
<1>4. g \in [1 .. n -> 1 .. Len(cs)] /\ \A i \in 1 .. n : g[i] = i
  BY <1>1, <1>2
<1>5. SubSeq(cs, 1, n) = [i \in 1 .. n |-> cs[g[i]]]
  BY <1>3, <1>4
<1>6. \A i, j \in 1 .. n : g[i] = g[j] => i = j
  BY <1>4
<1>7. Picks(SubSeq(cs, 1, n), cs, n, g)
  BY <1>4, <1>5, <1>6 DEF Picks
<1> QED
  BY <1>7, CellsPicked

(* The outputs of a run go into the cell that was run, or into none.       *)
LEMMA CellsRun ==
  ASSUME NEW cs \in Cells, NEW c \in Cell \cup {Removed}, NEW index, NEW out \in {c, None}
  PROVE  WithOutputs(cs, c, index, out) \in Cells
<1> DEFINE new == WithOutputs(cs, c, index, out)
<1>1. /\ cs \in Seq(CellState) /\ Len(cs) \in Nat /\ DOMAIN cs = 1 .. Len(cs)
      /\ \A i, j \in 1 .. Len(cs) : cs[i].id = cs[j].id => i = j
      /\ \A i \in 1 .. Len(cs) : cs[i] \in CellState /\ cs[i].out \in {None, cs[i].id}
  BY CellsAre
<1>2. new = [p \in 1 .. Len(cs) |-> IF cs[p].id = c THEN [cs[p] EXCEPT !.out = out] ELSE cs[p]]
  BY <1>1 DEF WithOutputs
<1>3. ASSUME NEW p \in 1 .. Len(cs)
      PROVE  /\ new[p] \in CellState /\ new[p].id = cs[p].id
             /\ new[p].out \in {None, new[p].id}
  <2>1. cs[p] \in CellState /\ cs[p].out \in {None, cs[p].id}
    BY <1>1
  <2>2. CASE cs[p].id = c
    <3>1. new[p] = [cs[p] EXCEPT !.out = out]
      BY <1>2, <2>2
    <3> QED
      BY <2>1, <2>2, <3>1 DEF CellState
  <2>3. CASE cs[p].id # c
    BY <1>2, <2>1, <2>3
  <2> QED
    BY <2>2, <2>3
<1>4. new \in [1 .. Len(cs) -> CellState]
  BY <1>2, <1>3
<1> HIDE DEF new
<1>5. new \in Seq(CellState) /\ Len(new) = Len(cs)
  BY <1>1, <1>4
<1>6. \A i, j \in 1 .. Len(new) : new[i].id = new[j].id => i = j
  BY <1>1, <1>3, <1>5
<1>7. \A i \in 1 .. Len(new) : new[i].out \in {None, new[i].id}
  BY <1>3, <1>5
<1>8. new \in Cells
  BY <1>5, <1>6, <1>7, CellsMade
<1> QED
  BY <1>8 DEF new

-----------------------------------------------------------------------------
(* The manager's dictionary *)

LEMMA BookIs ==
  ASSUME Types, NEW i \in DOMAIN book
  PROVE  /\ book[i] \in Book /\ book[i].name \in Name /\ book[i].path \in Path
         /\ book[i].cells \in Cells /\ book[i].manager \in Nat /\ book[i].client \in Nat
<1>1. book[i] \in Book
  BY DEF Types
<1> QED
  BY <1>1 DEF Book

LEMMA KernelIs ==
  ASSUME Types
  PROVE  /\ DOMAIN kernel = 1 .. Len(kernel) /\ Len(kernel) \in Nat
         /\ DOMAIN book = 1 .. Len(book) /\ Len(book) \in Nat
BY DEF Types

(* An open notebook is the one of its name.                                *)
LEMMA Naming ==
  ASSUME Types, Dictionary
  PROVE  /\ Open \subseteq DOMAIN book /\ OpenNames \subseteq Name
         /\ \A i, j \in Open : book[i].name = book[j].name => i = j
         /\ \A n \in OpenNames : Named(n) \in Open /\ book[Named(n)].name = n
         /\ \A i \in Open : book[i].name \in OpenNames /\ Named(book[i].name) = i
         /\ HasCurrent => Current \in Open /\ book[Current].name = current
<1>1. /\ opened \in Seq(DOMAIN book) /\ DOMAIN opened = 1 .. Len(opened)
      /\ \A p \in 1 .. Len(opened) : opened[p] \in DOMAIN book
      /\ \A i \in Open : \E p \in 1 .. Len(opened) : opened[p] = i
  BY DEF Dictionary, Open, ToSet
<1>2. Open \subseteq DOMAIN book
  BY <1>1
<1>3. \A i, j \in Open : book[i].name = book[j].name => i = j
  BY <1>1 DEF Dictionary
<1>4. OpenNames \subseteq Name
  BY <1>2, BookIs DEF OpenNames
<1>5. ASSUME NEW n \in OpenNames PROVE Named(n) \in Open /\ book[Named(n)].name = n
  BY <1>5 DEF Named, OpenNames
<1>6. ASSUME NEW i \in Open PROVE book[i].name \in OpenNames /\ Named(book[i].name) = i
  BY <1>3, <1>5, <1>6 DEF OpenNames
<1> QED
  BY <1>2, <1>3, <1>4, <1>5, <1>6 DEF HasCurrent, Current

(* What the dictionary is without the notebook of a name.                  *)
LEMMA RestIs ==
  ASSUME Types, Dictionary, NEW n \in OpenNames
  PROVE  /\ Rest(n) \in Seq(DOMAIN book)
         /\ \A i : i \in ToSet(Rest(n)) <=> i \in Open /\ i # Named(n)
         /\ \A p, q \in 1 .. Len(Rest(n)) : book[Rest(n)[p]].name = book[Rest(n)[q]].name => p = q
         /\ Rest(n) # <<>> => Head(Rest(n)) \in ToSet(Rest(n))
<1> DEFINE rest == RemoveAt(opened, PlaceOf(n))
<1>1. /\ opened \in Seq(DOMAIN book) /\ DOMAIN opened = 1 .. Len(opened) /\ Len(opened) \in Nat
      /\ Named(n) \in Open /\ book[Named(n)].name = n
      /\ \A p, q \in 1 .. Len(opened) : book[opened[p]].name = book[opened[q]].name => p = q
  BY Naming DEF Dictionary
<1>2. \A i : i \in Open <=> \E p \in 1 .. Len(opened) : opened[p] = i
  BY <1>1 DEF Open, ToSet
<1>3. PICK r \in 1 .. Len(opened) : r = PlaceOf(n) /\ opened[r] = Named(n)
  <2>1. \E p \in DOMAIN opened : book[opened[p]].name = n
    BY <1>1, <1>2
  <2>2. PlaceOf(n) \in DOMAIN opened /\ book[opened[PlaceOf(n)]].name = n
    BY <2>1 DEF PlaceOf
  <2>3. PICK p \in 1 .. Len(opened) : opened[p] = Named(n)
    BY <1>1, <1>2
  <2>4. p = PlaceOf(n)
    BY <1>1, <2>2, <2>3
  <2> QED
    BY <2>3, <2>4
<1>4. /\ rest \in Seq(DOMAIN book) /\ Len(rest) = Len(opened) - 1
      /\ \A i \in 1 .. Len(opened) - 1 : rest[i] = IF i < r THEN opened[i] ELSE opened[i + 1]
  <2>1. opened \in Seq(DOMAIN book) /\ r \in 1 .. Len(opened) /\ rest = RemoveAt(opened, r)
    BY <1>1, <1>3
  <2> HIDE DEF rest
  <2>2. rest \in Seq(DOMAIN book) /\ Len(rest) = Len(opened) - 1
    BY <2>1, Removing
  <2>3. ASSUME NEW i \in 1 .. Len(opened) - 1
        PROVE  rest[i] = IF i < r THEN opened[i] ELSE opened[i + 1]
    BY <2>1, Removing
  <2> QED
    BY <2>2, <2>3
<1>5. Rest(n) = rest
  BY DEF Rest
<1> HIDE DEF rest
<1>6. ASSUME NEW p \in 1 .. Len(rest)
      PROVE  \E k \in 1 .. Len(opened) :
               rest[p] = opened[k] /\ k = (IF p < r THEN p ELSE p + 1) /\ k # r
  <2>1. p \in 1 .. Len(opened) - 1 /\ Len(opened) \in Int /\ r \in Int
    BY <1>1, <1>4
  <2>2. CASE p < r
    <3>1. rest[p] = opened[p] /\ p \in 1 .. Len(opened) /\ p # r
      BY <1>4, <2>1, <2>2
    <3> QED
      BY <2>2, <3>1
  <2>3. CASE ~(p < r)
    <3>1. rest[p] = opened[p + 1] /\ p + 1 \in 1 .. Len(opened) /\ p + 1 # r
      BY <1>4, <2>1, <2>3
    <3> QED
      BY <2>3, <3>1
  <2> QED
    BY <2>2, <2>3
<1>7. ASSUME NEW k \in 1 .. Len(opened), k # r
      PROVE  \E p \in 1 .. Len(rest) : rest[p] = opened[k]
  <2>1. CASE k < r
    BY <1>1, <1>4, <2>1
  <2>2. CASE ~(k < r)
    <3>1. k - 1 \in 1 .. Len(opened) - 1 /\ ~(k - 1 < r) /\ (k - 1) + 1 = k
      BY <1>1, <1>7, <2>2
    <3> QED
      BY <1>4, <3>1
  <2> QED
    BY <2>1, <2>2
<1>8. \A i : i \in ToSet(rest) <=> \E p \in 1 .. Len(rest) : rest[p] = i
  BY <1>4 DEF ToSet
<1>9. \A i : i \in ToSet(rest) <=> i \in Open /\ i # Named(n)
  <2>1. \A k \in 1 .. Len(opened) : opened[k] = Named(n) => k = r
    BY <1>1, <1>3
  <2>2. ASSUME NEW i, i \in ToSet(rest) PROVE i \in Open /\ i # Named(n)
    <3>1. PICK p \in 1 .. Len(rest) : rest[p] = i
      BY <1>8, <2>2
    <3>2. PICK k \in 1 .. Len(opened) : rest[p] = opened[k] /\ k # r
      BY <1>6
    <3> QED
      BY <1>2, <2>1, <3>1, <3>2
  <2>3. ASSUME NEW i, i \in Open, i # Named(n) PROVE i \in ToSet(rest)
    <3>1. PICK k \in 1 .. Len(opened) : opened[k] = i
      BY <1>2, <2>3
    <3>2. \E p \in 1 .. Len(rest) : rest[p] = opened[k]
      BY <1>3, <1>7, <2>3, <3>1
    <3> QED
      BY <1>8, <3>1, <3>2
  <2> QED
    BY <2>2, <2>3
<1>10. ASSUME NEW p \in 1 .. Len(rest), NEW q \in 1 .. Len(rest),
              book[rest[p]].name = book[rest[q]].name
       PROVE  p = q
  <2>1. PICK k \in 1 .. Len(opened) : rest[p] = opened[k] /\ k = (IF p < r THEN p ELSE p + 1)
    BY <1>6
  <2>2. PICK l \in 1 .. Len(opened) : rest[q] = opened[l] /\ l = (IF q < r THEN q ELSE q + 1)
    BY <1>6
  <2>3. k = l
    BY <1>1, <1>10, <2>1, <2>2
  <2>4. p \in Int /\ q \in Int /\ r \in Int
    OBVIOUS
  <2> QED
    BY <2>1, <2>2, <2>3, <2>4
<1>11. rest # <<>> => Head(rest) \in ToSet(rest)
  <2> SUFFICES ASSUME rest # <<>> PROVE Head(rest) \in ToSet(rest)
    OBVIOUS
  <2>1. Head(rest) = rest[1] /\ 1 \in 1 .. Len(rest)
    BY <1>4
  <2> QED
    BY <1>8, <2>1
<1> QED
  BY <1>4, <1>5, <1>9, <1>10, <1>11

(* Every object of the dictionary rewritten in place.                      *)
LEMMA Rewriting ==
  ASSUME book \in Seq(Book), NEW f, f = [i \in DOMAIN book |-> f[i]],
         \A i \in DOMAIN book : f[i] \in Book
  PROVE  f \in Seq(Book) /\ Len(f) = Len(book) /\ DOMAIN f = DOMAIN book
<1>1. DOMAIN book = 1 .. Len(book) /\ Len(book) \in Nat
  OBVIOUS
<1>2. f \in [1 .. Len(book) -> Book]
  BY <1>1
<1> QED
  BY <1>1, <1>2

(* The file of an open notebook that has not strayed is there.             *)
LEMMA CanBeSaved ==
  ASSUME Types, Dictionary, Files, NEW i \in Open, book[i].path \notin strayed
  PROVE  Savable(i)
<1>1. book[i].path \in Session \X File /\ book[i].cells \in Cells
  BY Naming, BookIs DEF Path
<1>2. file[book[i].path] # None
  BY DEF Files, InFile
<1>3. PICK f \in File : book[i].path = <<book[i].path[1], f>>
  BY <1>1
<1> QED
  BY <1>2, <1>3 DEF Savable

-----------------------------------------------------------------------------
(* Steps that keep parts of the invariant *)

(* A call goes on to something that fits what the others see.              *)
LEMMA CallSet ==
  ASSUME CallsOK, NEW s \in Session, NEW w, Does(s, w), Fits(w)',
         DOMAIN book \subseteq DOMAIN book', DOMAIN kernel \subseteq DOMAIN kernel',
         \A k \in DOMAIN kernel : kernel'[k] \in {0, kernel[k]}
  PROVE  /\ CallsOK'
         /\ call'[s] = w /\ \A t \in Session \ {s} : call'[t] = call[t]
<1>1. call'[s] = w /\ \A t \in Session \ {s} : call'[t] = call[t]
  BY DEF CallsOK, Does
<1>2. call' = [t \in Session |-> call'[t]]
  BY DEF CallsOK, Does
<1>3. ASSUME NEW t \in Session \ {s} PROVE Fits(call[t])'
  <2>1. Fits(call[t])
    BY DEF CallsOK
  <2>2. /\ call[t] \in Resolving => call[t] \in Resolving'
        /\ call[t] \in Launching => call[t] \in Launching'
        /\ call[t] \in Running => call[t] \in Running'
    BY DEF Resolving, Launching, Running
  <2>3. call[t].at = "launching" => call[t].kernel \in DOMAIN kernel
    BY <2>1 DEF Fits, Launching
  <2>4. \A k \in DOMAIN kernel : kernel[k] = 0 => kernel'[k] = 0
    OBVIOUS
  <2>5. call'[t] = call[t]
    BY <1>1
  <2> QED
    BY <2>1, <2>2, <2>3, <2>4, <2>5 DEF Fits
<1>4. \A t \in Session : Fits(call[t])'
  BY <1>1, <1>3
<1> QED
  BY <1>1, <1>2, <1>4 DEF CallsOK

(* Nobody starts or stops a kernel.                                        *)
SameHandling(s) ==
  \/ call'[s] = call[s]
  \/ call[s].at \notin {"launching", "closing"} /\ call'[s].at \notin Lifecycle
  \/ call'[s].at = call[s].at /\ call'[s].book = call[s].book
       /\ (call[s].at \in {"launching", "closing"} => call'[s].kernel = call[s].kernel)

LEMMA KernelsStand ==
  ASSUME Kernels, UNCHANGED <<opened, kernel, hurt>>,
         \A i \in Open : book'[i].manager = book[i].manager /\ book'[i].client = book[i].client,
         \A s \in Session : SameHandling(s)
  PROVE  Kernels'
<1>1. Open' = Open
  BY DEF Open
<1>2. ASSUME NEW s \in Session, call'[s].at \in Lifecycle
      PROVE  /\ call'[s].at = call[s].at /\ call'[s].book = call[s].book
             /\ call[s].at \in {"launching", "closing"} => call'[s].kernel = call[s].kernel
  BY <1>2 DEF SameHandling
<1>3. ASSUME NEW s \in Session, call[s].at \in {"launching", "closing"}
      PROVE  /\ call'[s].at = call[s].at /\ call'[s].book = call[s].book
             /\ call'[s].kernel = call[s].kernel
  BY <1>3 DEF SameHandling
<1>4. ASSUME NEW s \in Session PROVE Handled(s)'
  <2> SUFFICES ASSUME call'[s].at \in Lifecycle, call'[s].book \notin hurt
               PROVE  /\ call'[s].book \in Open
                      /\ book'[call'[s].book].manager =
                           IF call'[s].at = "closing" THEN call'[s].kernel ELSE 0
                      /\ \A t \in Session :
                           call'[t].at \in Lifecycle /\ call'[t].book = call'[s].book => t = s
    BY <1>1 DEF Handled
  <2>1. /\ call[s].at \in Lifecycle /\ call[s].at = call'[s].at /\ call'[s].book = call[s].book
        /\ call[s].at = "closing" => call'[s].kernel = call[s].kernel
    BY <1>2
  <2>2. Handled(s)
    BY DEF Kernels
  <2>3. /\ call[s].book \in Open
        /\ book[call[s].book].manager = IF call[s].at = "closing" THEN call[s].kernel ELSE 0
        /\ \A t \in Session : call[t].at \in Lifecycle /\ call[t].book = call[s].book => t = s
    BY <2>1, <2>2 DEF Handled
  <2>4. \A t \in Session : call'[t].at \in Lifecycle /\ call'[t].book = call[s].book => t = s
    BY <1>2, <2>3
  <2> QED
    BY <2>1, <2>3, <2>4
<1>5. \A i \in Open' : Clientless(i)'
  BY <1>1, <1>3 DEF Kernels, Clientless
<1>6. KernelsOwned'
  BY <1>1, <1>3 DEF Kernels, KernelsOwned, Alive
<1> QED
  BY <1>4, <1>5, <1>6 DEF Kernels

(* No file and no notebook changes.                                        *)
LEMMA FilesStand ==
  ASSUME Files, Types, Dictionary, UNCHANGED <<opened, file, strayed, unsaved>>,
         DOMAIN book' = DOMAIN book,
         \A i \in Open : book'[i].path = book[i].path /\ book'[i].cells = book[i].cells
  PROVE  Files'
<1>1. Open' = Open
  BY DEF Open
<1> QED
  BY <1>1 DEF Files, OpenOnce, InFile

LEMMA ObjectsStand ==
  ASSUME Types, Holding, Dictionary,
         UNCHANGED <<book, opened, current, file, kernel, gone>>
  PROVE  Types' /\ Holding' /\ Dictionary'
<1>1. Types' /\ Dictionary'
  BY DEF Types, Dictionary, OpenNames, Open
<1>2. Holding'
  BY DEF Holding, Holds
<1> QED
  BY <1>1, <1>2

(* A call that neither starts nor stops a kernel ends or goes on, and the  *)
(* manager does not notice.                                                *)
LEMMA CallGoesOn ==
  ASSUME Inv, NEW s \in Session, NEW w, Does(s, w), Fits(w)', w.at \notin Lifecycle,
         call[s].at \notin {"launching", "closing"},
         UNCHANGED <<book, opened, current, file, kernel, gone, ghosts>>
  PROVE  Inv'
<1>1. /\ Types /\ Holding /\ Dictionary /\ CallsOK /\ Kernels /\ Files
      /\ UNCHANGED <<book, opened, current, file, kernel, gone, hurt, strayed, unsaved>>
  BY DEF Inv, Objects, ghosts
<1>2. /\ CallsOK'
      /\ call'[s] = w /\ \A t \in Session \ {s} : call'[t] = call[t]
  <2>1. \A k \in DOMAIN kernel : kernel'[k] \in {0, kernel[k]}
    BY <1>1
  <2> QED
    BY <1>1, <2>1, CallSet
<1>3. Objects'
  BY <1>1, <1>2, ObjectsStand DEF Objects
<1>4. Kernels'
  <2>1. \A t \in Session : SameHandling(t)
    BY <1>2 DEF SameHandling
  <2> QED
    BY <1>1, <2>1, KernelsStand
<1>5. Files'
  BY <1>1, FilesStand
<1> QED
  BY <1>3, <1>4, <1>5 DEF Inv

LEMMA IdleFits == Fits(Idle)' /\ Idle.at \notin Lifecycle /\ Idle.at = "idle"
BY DEF Fits, Idle, Lifecycle

(* A call that started or stopped a kernel is cut short.                   *)
LEMMA CutShort ==
  ASSUME Inv, NEW s \in Session, call[s].at \in {"launching", "closing"}, Answers(s),
         hurt' = hurt \cup {call[s].book},
         UNCHANGED <<book, opened, current, file, kernel, gone, strayed, unsaved>>
  PROVE  Inv'
<1>1. Types /\ Holding /\ Dictionary /\ CallsOK /\ Kernels /\ Files
  BY DEF Inv, Objects
<1>2. /\ CallsOK'
      /\ call'[s] = Idle /\ \A t \in Session \ {s} : call'[t] = call[t]
  <2>1. \A k \in DOMAIN kernel : kernel'[k] \in {0, kernel[k]}
    OBVIOUS
  <2> QED
    BY <1>1, <2>1, CallSet, IdleFits DEF Answers
<1>3. Objects'
  BY <1>1, <1>2, ObjectsStand DEF Objects
<1>4. Files'
  BY <1>1, FilesStand
<1>5. Open' = Open /\ kernel[call[s].kernel] \in {0, call[s].book}
  BY <1>1 DEF Open, CallsOK, Fits
<1>6. ASSUME NEW t \in Session PROVE Handled(t)'
  <2>1. CASE t = s
    BY <1>2, <2>1, IdleFits DEF Handled
  <2>2. CASE t # s
    <3>1. Handled(t) /\ call'[t] = call[t]
      BY <1>1, <1>2, <2>2 DEF Kernels
    <3>2. \A r \in Session : call'[r].at \in Lifecycle => call'[r] = call[r]
      BY <1>2, IdleFits
    <3> QED
      BY <1>5, <3>1, <3>2 DEF Handled
  <2> QED
    BY <2>1, <2>2
<1>7. \A i \in Open' : Clientless(i)'
  BY <1>1, <1>2, <1>5 DEF Kernels, Clientless
<1>8. KernelsOwned'
  <2> SUFFICES ASSUME NEW k \in DOMAIN kernel, kernel[k] # 0
               PROVE  \/ kernel[k] \in hurt'
                      \/ kernel[k] \in Open /\ book[kernel[k]].manager = k
                      \/ \E t \in Session : call'[t].at \in {"launching", "closing"} /\ call'[t].kernel = k
    BY <1>5 DEF KernelsOwned, Alive
  <2>1. \/ kernel[k] \in hurt
        \/ kernel[k] \in Open /\ book[kernel[k]].manager = k
        \/ \E t \in Session : call[t].at \in {"launching", "closing"} /\ call[t].kernel = k
    BY <1>1 DEF Kernels, KernelsOwned, Alive
  <2> QED
    BY <1>2, <1>5, <2>1
<1> QED
  BY <1>3, <1>4, <1>6, <1>7, <1>8 DEF Inv, Kernels

-----------------------------------------------------------------------------
(* Kernels start *)

LEMMA StartKeeps ==
  ASSUME Inv, NEW s \in Session, call[s].at = "prepared",
         NEW i \in DOMAIN book', i \in Open', NEW for \in {"open", "run"},
         NEW cell \in CellRef, NEW index \in Nat,
         Start(s, i, for, cell, index), UNCHANGED kernel,
         DOMAIN book \subseteq DOMAIN book',
         \A j \in Open : /\ j \in Open' /\ book'[j].manager = book[j].manager
                         /\ book'[j].client = book[j].client,
         \A j \in Open' : j \in Open \/ j = i,
         IF i \in Open THEN ~KernelAlive(i) ELSE i \notin DOMAIN book /\ book'[i].manager = 0
  PROVE  CallsOK' /\ Kernels'
<1>1. Types /\ Dictionary /\ CallsOK /\ Kernels
  BY DEF Inv, Objects
<1> PICK w : w = [at |-> "resolving", book |-> i, for |-> for, cell |-> cell, index |-> index]
  OBVIOUS
<1>2. CallsOK' /\ call'[s] = w /\ \A t \in Session \ {s} : call'[t] = call[t]
  <2>1. \A k \in DOMAIN kernel : kernel'[k] \in {0, kernel[k]}
    OBVIOUS
  <2>2. Does(s, w)
    BY DEF Start
  <2>3. Fits(w)'
    BY DEF Fits, Resolving
  <2> QED
    BY <1>1, <2>1, <2>2, <2>3, CallSet
<1>3. hurt' = hurt \cup Raced(i) /\ w.at = "resolving" /\ w.book = i
  BY DEF Start
<1>4. \A t \in Session : call[t].at \in Lifecycle /\ call[t].book = i => i \in hurt'
  BY <1>3 DEF Raced, Handling
<1>5. \A t \in Session : call[t].at \in Lifecycle => call[t].book \in DOMAIN book
  BY <1>1 DEF CallsOK, Fits, Resolving, Launching, Lifecycle
<1>6. i \notin hurt' => book'[i].manager = 0
  <2>1. CASE i \notin Open
    BY <2>1
  <2>2. CASE i \in Open /\ i \notin hurt'
    <3>1. Clientless(i) /\ i \notin hurt
      BY <1>1, <1>3, <2>2 DEF Kernels
    <3>2. \A t \in Session : ~(call[t].at = "closing" /\ call[t].book = i)
      BY <1>4, <2>2 DEF Lifecycle
    <3>3. book[i].manager = 0
      BY <2>2, <3>1, <3>2 DEF Clientless, KernelAlive
    <3> QED
      BY <2>2, <3>3
  <2> QED
    BY <2>1, <2>2
<1>7. ASSUME NEW t \in Session PROVE Handled(t)'
  <2>1. CASE t = s
    <3>1. \A r \in Session : call'[r].at \in Lifecycle /\ call'[r].book = i /\ i \notin hurt' => r = s
      BY <1>2, <1>4
    <3> QED
      BY <1>2, <1>3, <1>6, <2>1, <3>1 DEF Handled
  <2>2. CASE t # s
    <3> SUFFICES ASSUME call[t].at \in Lifecycle, call[t].book \notin hurt'
                 PROVE  /\ call[t].book \in Open'
                        /\ book'[call[t].book].manager =
                             IF call[t].at = "closing" THEN call[t].kernel ELSE 0
                        /\ \A r \in Session :
                             call'[r].at \in Lifecycle /\ call'[r].book = call[t].book => r = t
      BY <1>2, <2>2 DEF Handled
    <3>1. Handled(t) /\ call[t].book \notin hurt /\ call[t].book # i
      BY <1>1, <1>3, <1>4 DEF Kernels
    <3>2. /\ call[t].book \in Open
          /\ book[call[t].book].manager = IF call[t].at = "closing" THEN call[t].kernel ELSE 0
          /\ \A r \in Session :
               call[r].at \in Lifecycle /\ call[r].book = call[t].book => r = t
      BY <3>1 DEF Handled
    <3> QED
      BY <1>2, <1>3, <3>1, <3>2
  <2> QED
    BY <2>1, <2>2
<1>8. ASSUME NEW j \in Open' PROVE Clientless(j)'
  <2> SUFFICES ASSUME book'[j].manager # 0, book'[j].client = 0, j \notin hurt'
               PROVE  \E t \in Session : call'[t].at = "closing" /\ call'[t].book = j
    BY DEF Clientless
  <2>1. j \in Open /\ j \notin hurt
    BY <1>3, <1>6
  <2>2. PICK t \in Session : call[t].at = "closing" /\ call[t].book = j
    BY <1>1, <2>1 DEF Kernels, Clientless
  <2> QED
    BY <1>2, <2>2
<1>9. KernelsOwned'
  <2> SUFFICES ASSUME NEW k \in DOMAIN kernel, kernel[k] # 0
               PROVE  \/ kernel[k] \in hurt'
                      \/ kernel[k] \in Open' /\ book'[kernel[k]].manager = k
                      \/ \E t \in Session : call'[t].at \in {"launching", "closing"} /\ call'[t].kernel = k
    BY DEF KernelsOwned, Alive
  <2>1. \/ kernel[k] \in hurt
        \/ kernel[k] \in Open /\ book[kernel[k]].manager = k
        \/ \E t \in Session : call[t].at \in {"launching", "closing"} /\ call[t].kernel = k
    BY <1>1 DEF Kernels, KernelsOwned, Alive
  <2> QED
    BY <1>2, <1>3, <2>1
<1> QED
  BY <1>2, <1>7, <1>8, <1>9 DEF Kernels

LEMMA OpenAgainKeeps ==
  ASSUME Inv, NEW s \in Session, NEW n \in Name, OpenAgain(s, n)
  PROVE  Inv'
<1>1. Types /\ Holding /\ Dictionary /\ CallsOK /\ Kernels /\ Files
  BY DEF Inv, Objects
<1>2. /\ n \in OpenNames /\ current' = n /\ call[s].at = "prepared"
      /\ UNCHANGED <<book, opened, file, kernel, gone, strayed, unsaved>>
  BY DEF OpenAgain
<1>3. Types' /\ Holding' /\ Dictionary'
  <2>1. OpenNames' = OpenNames /\ Open' = Open
    BY <1>2 DEF OpenNames, Open
  <2>2. Types' /\ Holding'
    BY <1>1, <1>2 DEF Types, Holding, Holds
  <2>3. opened # <<>>
    BY <1>2 DEF OpenNames, Open, ToSet
  <2>4. Dictionary'
    BY <1>1, <1>2, <2>1, <2>3 DEF Dictionary
  <2> QED
    BY <2>2, <2>4
<1>4. Files'
  BY <1>1, <1>2, FilesStand
<1>5. CASE KernelAlive(Named(n)) /\ Answers(s) /\ UNCHANGED hurt
  <2>1. CallsOK' /\ call'[s] = Idle /\ \A t \in Session \ {s} : call'[t] = call[t]
    <3>1. \A k \in DOMAIN kernel : kernel'[k] \in {0, kernel[k]}
      BY <1>2
    <3> QED
      BY <1>1, <1>2, <1>5, <3>1, CallSet, IdleFits DEF Answers
  <2>2. \A t \in Session : SameHandling(t)
    BY <1>2, <2>1, IdleFits DEF SameHandling
  <2>3. Kernels'
    BY <1>1, <1>2, <1>5, <2>2, KernelsStand
  <2> QED
    BY <1>3, <1>4, <2>1, <2>3 DEF Inv, Objects
<1>6. CASE ~KernelAlive(Named(n)) /\ Start(s, Named(n), "open", None, 0)
  <2>1. Named(n) \in Open /\ Named(n) \in DOMAIN book /\ Open' = Open
    BY <1>1, <1>2, Naming DEF Open
  <2>2. None \in CellRef
    BY DEF CellRef
  <2>3. CallsOK' /\ Kernels'
    BY <1>2, <1>6, <2>1, <2>2, StartKeeps
  <2> QED
    BY <1>3, <1>4, <2>3 DEF Inv, Objects
<1> QED
  BY <1>5, <1>6 DEF OpenAgain

(* What opening file f as n does to the manager's objects: notebook object *)
(* i is new, and the last of the dictionary.                               *)
Opening(s, f, n, i, path, cells) ==
  /\ path = <<call[s].directory, f>> /\ i = Len(book) + 1 /\ i \notin DOMAIN book
  /\ cells = (IF file[path] = None THEN <<>> ELSE file[path])
  /\ book' \in Seq(Book) /\ Len(book') = i
  /\ \A j \in DOMAIN book : j \in DOMAIN book' /\ book'[j] = book[j]
  /\ i \in DOMAIN book' /\ \A j \in DOMAIN book' : j \in DOMAIN book \/ j = i
  /\ book'[i].name = n /\ book'[i].path = path /\ book'[i].cells = cells
  /\ book'[i].manager = 0 /\ book'[i].client = 0
  /\ opened' = Append(opened, i)
  /\ opened' \in Seq(DOMAIN book')
  /\ \A j : j \in Open' <=> j \in Open \/ j = i

(* Opening is what the action does.                                        *)
LEMMA OpeningMakes ==
  ASSUME Types, Dictionary, CallsOK, NEW s \in Session, NEW f \in File, NEW n \in Name,
         OpenNotebook(s, f, n)
  PROVE  \E i \in Nat, path \in Path, cells \in Cells :
           Opening(s, f, n, i, path, cells)
<1>1. call[s].directory \in Session
  BY DEF OpenNotebook, OpenNotebook_NameTaken, CallsOK, Fits
<1> PICK path \in Path : path = <<call[s].directory, f>>
  BY <1>1 DEF Path
<1> PICK cells \in Cells : cells = IF file[path] = None THEN <<>> ELSE file[path]
  BY NoCells DEF Types
<1> PICK nb : nb = [name |-> n, path |-> path, cells |-> cells, manager |-> 0, client |-> 0]
  OBVIOUS
<1>2. nb \in Book /\ book \in Seq(Book) /\ Len(book) \in Nat /\ DOMAIN book = 1 .. Len(book)
  BY DEF Book, Types
<1>3. book' = Append(book, nb) /\ opened' = Append(opened, Len(book'))
  BY DEF OpenNotebook, OpenNotebook_NameTaken
<1> PICK i \in Nat : i = Len(book) + 1
  BY <1>2
<1>4. /\ book' \in Seq(Book) /\ Len(book') = i /\ DOMAIN book' = 1 .. i /\ book'[i] = nb
      /\ \A j \in 1 .. Len(book) : book'[j] = book[j]
  <2> HIDE DEF Book
  <2> QED
    BY <1>2, <1>3
<1>5. /\ i \notin DOMAIN book /\ i \in DOMAIN book'
      /\ \A j \in DOMAIN book : j \in DOMAIN book' /\ book'[j] = book[j]
      /\ \A j \in DOMAIN book' : j \in DOMAIN book \/ j = i
  BY <1>2, <1>4
<1>6. opened \in Seq(DOMAIN book) /\ opened \in Seq(DOMAIN book')
  <2>1. opened \in Seq(DOMAIN book)
    BY DEF Dictionary
  <2>2. \A p \in 1 .. Len(opened) : opened[p] \in DOMAIN book'
    BY <1>5, <2>1
  <2> QED
    BY <2>1, <2>2
<1>7. opened' = Append(opened, i) /\ opened' \in Seq(DOMAIN book')
  BY <1>3, <1>4, <1>5, <1>6
<1>8. \A j : j \in Open' <=> j \in Open \/ j = i
  <2>1. /\ Len(opened') = Len(opened) + 1 /\ opened'[Len(opened) + 1] = i /\ Len(opened) \in Nat
        /\ \A p \in 1 .. Len(opened) : opened'[p] = opened[p]
    BY <1>6, <1>7
  <2>2. DOMAIN opened = 1 .. Len(opened) /\ DOMAIN opened' = 1 .. Len(opened) + 1
    BY <1>6, <1>7, <2>1
  <2> QED
    BY <2>1, <2>2 DEF Open, ToSet
<1>9. /\ path = <<call[s].directory, f>> /\ i = Len(book) + 1
      /\ cells = (IF file[path] = None THEN <<>> ELSE file[path])
      /\ book'[i].name = n /\ book'[i].path = path /\ book'[i].cells = cells
      /\ book'[i].manager = 0 /\ book'[i].client = 0
  BY <1>4
<1>10. Opening(s, f, n, i, path, cells)
  BY <1>4, <1>5, <1>7, <1>8, <1>9 DEF Opening
<1> HIDE DEF Cells, Path, Book
<1> QED
  BY <1>10

LEMMA OpenNotebookKeeps ==
  ASSUME Inv, NEW s \in Session, NEW f \in File, NEW n \in Name, OpenNotebook(s, f, n)
  PROVE  Inv'
<1>1. Types /\ Holding /\ Dictionary /\ CallsOK /\ Kernels /\ Files
  BY DEF Inv, Objects
<1>2. PICK i \in Nat, path \in Path, cells \in Cells :
        Opening(s, f, n, i, path, cells)
  BY <1>1, OpeningMakes
<1>21. /\ path = <<call[s].directory, f>> /\ i = Len(book) + 1 /\ i \notin DOMAIN book
       /\ cells = (IF file[path] = None THEN <<>> ELSE file[path])
       /\ book' \in Seq(Book) /\ Len(book') = i
       /\ \A j \in DOMAIN book : j \in DOMAIN book' /\ book'[j] = book[j]
       /\ i \in DOMAIN book' /\ \A j \in DOMAIN book' : j \in DOMAIN book \/ j = i
       /\ book'[i].name = n /\ book'[i].path = path /\ book'[i].cells = cells
       /\ book'[i].manager = 0 /\ book'[i].client = 0
       /\ opened' = Append(opened, i)
       /\ opened' \in Seq(DOMAIN book')
       /\ \A j : j \in Open' <=> j \in Open \/ j = i
  BY <1>2 DEF Opening
<1>3. /\ n \notin OpenNames /\ call[s].at = "prepared" /\ Len(book) < MaxOpens
      /\ file' = [file EXCEPT ![path] = cells]
      /\ strayed' = strayed \cup {book[j].path : j \in {k \in Open : book[k].path = path}}
      /\ current' = n /\ Start(s, i, "open", None, 0)
      /\ UNCHANGED <<kernel, gone, unsaved>>
  BY <1>21 DEF OpenNotebook, OpenNotebook_NameTaken
<1>4. Open \subseteq DOMAIN book /\ \A j \in Open : book'[j] = book[j]
  BY <1>1, <1>21, Naming
<1>5. Types'
  <2>1. file' \in [Path -> {None} \cup Cells]
    BY <1>1, <1>3 DEF Types
  <2>2. i <= MaxOpens
    BY <1>1, <1>21, <1>3, KernelIs, BoundsAssumption
  <2>3. \A k \in DOMAIN kernel : kernel[k] \in 0 .. Len(book')
    BY <1>1, <1>21 DEF Types
  <2> QED
    BY <1>1, <1>21, <1>3, <2>1, <2>2, <2>3 DEF Types
<1>6. Holding'
  <2> SUFFICES ASSUME NEW j \in DOMAIN book' PROVE Holds(j)'
    BY DEF Holding
  <2>1. Len(kernel) \in Nat
    BY <1>1, KernelIs
  <2>2. CASE j = i
    BY <1>21, <1>3, <2>1, <2>2 DEF Holds
  <2>3. CASE j \in DOMAIN book
    BY <1>1, <1>21, <1>3, <2>3 DEF Holding, Holds
  <2> QED
    BY <1>21, <2>2, <2>3
<1>7. Dictionary'
  <2>1. /\ opened \in Seq(DOMAIN book) /\ Len(opened') = Len(opened) + 1 /\ opened'[Len(opened) + 1] = i
        /\ \A p \in 1 .. Len(opened) : opened'[p] = opened[p] /\ opened[p] \in Open
    BY <1>1, <1>21 DEF Dictionary, Open, ToSet
  <2>2. \A p \in 1 .. Len(opened) : book'[opened'[p]].name = book[opened[p]].name
                                    /\ book[opened[p]].name # n
    BY <1>3, <1>4, <2>1 DEF OpenNames
  <2>3. ASSUME NEW p \in 1 .. Len(opened'), NEW q \in 1 .. Len(opened'),
               book'[opened'[p]].name = book'[opened'[q]].name
        PROVE  p = q
    <3>1. \A r \in 1 .. Len(opened') : r \in 1 .. Len(opened) \/ r = Len(opened) + 1
      BY <2>1
    <3>2. book'[opened'[Len(opened) + 1]].name = n
      BY <1>21, <2>1
    <3>3. CASE p \in 1 .. Len(opened) /\ q \in 1 .. Len(opened)
      BY <1>1, <2>2, <2>3, <3>3 DEF Dictionary
    <3>4. CASE p = Len(opened) + 1 \/ q = Len(opened) + 1
      BY <2>2, <2>3, <3>1, <3>2, <3>4
    <3> QED
      BY <3>1, <3>3, <3>4
  <2>4. current' \in OpenNames'
    BY <1>21, <1>3 DEF OpenNames
  <2>5. opened' # <<>>
    <3>1. Len(<<>>) = 0
      OBVIOUS
    <3>2. Len(opened') # 0
      BY <2>1
    <3> QED
      BY <3>1, <3>2
  <2> QED
    BY <1>21, <2>3, <2>4, <2>5 DEF Dictionary
<1>8. CallsOK' /\ Kernels'
  <2>1. None \in CellRef
    BY DEF CellRef
  <2>2. i \notin Open
    BY <1>21, <1>4
  <2> QED
    BY <1>21, <1>3, <1>4, <2>1, <2>2, StartKeeps
<1>9. Files'
  <2>1. \A j \in Open' : j \in Open \/ j = i
    BY <1>21
  <2>2. \A j \in Open : book[j].path = path => path \in strayed'
    BY <1>3
  <2>3. OpenOnce'
    <3> SUFFICES ASSUME NEW j \in Open', NEW k \in Open', j # k, book'[j].path = book'[k].path
                 PROVE  book'[j].path \in strayed'
      BY DEF OpenOnce
    <3>1. CASE j \in Open /\ k \in Open
      <4>1. book'[j] = book[j] /\ book'[k] = book[k] /\ strayed \subseteq strayed'
        BY <1>3, <1>4, <3>1
      <4> QED
        BY <1>1, <3>1, <4>1 DEF Files, OpenOnce
    <3>2. CASE j = i \/ k = i
      <4>1. \A l \in Open : book'[l] = book[l]
        BY <1>4
      <4>2. book'[i].path = path
        BY <1>21
      <4>3. CASE j = i
        <5>1. k \in Open /\ book[k].path = path
          BY <2>1, <4>1, <4>2, <4>3
        <5> QED
          BY <2>2, <4>2, <4>3, <5>1
      <4>4. CASE k = i
        <5>1. j \in Open /\ book[j].path = path
          BY <2>1, <4>1, <4>2, <4>4
        <5> QED
          BY <2>2, <4>1, <5>1
      <4> QED
        BY <3>2, <4>3, <4>4
    <3> QED
      BY <2>1, <3>1, <3>2
  <2>4. ASSUME NEW j \in Open' PROVE InFile(j)'
    <3> SUFFICES ASSUME book'[j].path \notin strayed'
                 PROVE  /\ file'[book'[j].path] # None
                        /\ j \in unsaved' \/ file'[book'[j].path] = book'[j].cells
      BY DEF InFile
    <3>1. CASE j = i
      <4>1. file'[path] = cells /\ cells # None
        BY <1>1, <1>3, CellsAre DEF Types
      <4> QED
        BY <1>21, <3>1, <4>1
    <3>2. CASE j \in Open
      <4>1. book[j].path # path /\ book[j].path \notin strayed
        BY <1>3, <1>4, <2>2, <3>2
      <4>2. file'[book[j].path] = file[book[j].path]
        BY <1>3, <4>1
      <4>3. InFile(j) /\ book'[j] = book[j] /\ unsaved' = unsaved
        BY <1>1, <1>3, <1>4, <3>2 DEF Files
      <4> QED
        BY <4>1, <4>2, <4>3 DEF InFile
    <3> QED
      BY <2>1, <3>1, <3>2
  <2>5. unsaved' \subseteq DOMAIN book'
    BY <1>1, <1>21, <1>3 DEF Files
  <2> QED
    BY <2>3, <2>4, <2>5 DEF Files
<1> QED
  BY <1>5, <1>6, <1>7, <1>8, <1>9 DEF Inv, Objects

-----------------------------------------------------------------------------
(* Steps the manager does not notice *)

LEMMA BeginKeeps ==
  ASSUME Inv, NEW s \in Session, Begin(s)
  PROVE  Inv'
<1>1. /\ Types /\ Holding /\ Dictionary /\ CallsOK /\ Kernels /\ Files
      /\ UNCHANGED <<book, opened, current, file, kernel, gone, hurt, strayed, unsaved>>
  BY DEF Inv, Objects, Begin, ghosts
<1> PICK w : w = [at |-> "prepared", directory |-> s]
  OBVIOUS
<1>2. /\ call' = [t \in Session |-> IF t = s \/ call[t].at = "prepared" THEN w ELSE call[t]]
      /\ call[s].at = "idle" /\ w.at = "prepared" /\ w.directory = s
  BY DEF Begin, Idle
<1>3. \A t \in Session :
        call'[t] = call[t] \/ (call[t].at \in {"idle", "prepared"} /\ call'[t] = w)
  BY <1>2
<1>4. CallsOK'
  <2>1. call' = [t \in Session |-> call'[t]]
    BY <1>2
  <2>2. ASSUME NEW t \in Session PROVE Fits(call[t])'
    <3> PICK c : c = call'[t]
      OBVIOUS
    <3>1. CASE c = call[t]
      <4>1. Fits(c)
        BY <1>1, <3>1 DEF CallsOK
      <4> QED
        BY <1>1, <4>1 DEF Fits, Resolving, Launching, Running
    <3>2. CASE c = w
      BY <1>2, <3>2 DEF Fits
    <3> QED
      BY <1>3, <3>1, <3>2
  <2> QED
    BY <2>1, <2>2 DEF CallsOK
<1>5. Objects'
  BY <1>1, <1>4, ObjectsStand DEF Objects
<1>6. Kernels'
  <2>1. \A t \in Session : SameHandling(t)
    BY <1>2, <1>3 DEF SameHandling, Lifecycle
  <2> QED
    BY <1>1, <2>1, KernelsStand
<1>7. Files'
  BY <1>1, FilesStand
<1> QED
  BY <1>5, <1>6, <1>7 DEF Inv

LEMMA AnswerKeeps ==
  ASSUME Inv, NEW s \in Session, NothingToDo(s) \/ StartFails(s) \/ CleanupFails(s)
  PROVE  Inv'
<1>1. /\ Answers(s) /\ call[s].at \in {"prepared", "resolving", "cleaning"}
      /\ UNCHANGED <<book, opened, current, file, kernel, gone, ghosts>>
  BY DEF NothingToDo, StartFails, CleanupFails
<1> QED
  BY <1>1, IdleFits, CallGoesOn DEF Answers

LEMMA CleanupBeginsKeeps ==
  ASSUME Inv, NEW s \in Session, CleanupBegins(s)
  PROVE  Inv'
<1> PICK mine : mine = SelectSeq(opened, LAMBDA i : book[i].path[1] = s)
  OBVIOUS
<1> PICK todo : todo = [p \in DOMAIN mine |-> book[mine[p]].name]
  OBVIOUS
<1>1. AfterClose(s, todo)
  BY DEF CleanupBegins
<1>2. /\ call[s].at = "idle"
      /\ UNCHANGED <<book, opened, current, file, kernel, gone, ghosts>>
  <2>1. call[s] = Idle
    BY DEF CleanupBegins
  <2>2. UNCHANGED <<book, opened, current, file, kernel, gone, ghosts>>
    BY DEF CleanupBegins
  <2> QED
    BY <2>1, <2>2 DEF Idle
<1>3. CASE todo = None
  BY <1>1, <1>2, <1>3, IdleFits, CallGoesOn DEF AfterClose, Answers
<1>4. CASE todo # None
  <2> PICK w : w = [at |-> "cleaning", todo |-> todo]
    OBVIOUS
  <2>1. Does(s, w) /\ Fits(w)' /\ w.at \notin Lifecycle
    BY <1>1, <1>4 DEF AfterClose, Fits, Lifecycle
  <2> QED
    BY <1>2, <2>1, CallGoesOn
<1> QED
  BY <1>3, <1>4

LEMMA InterruptedKeeps ==
  ASSUME Inv, NEW s \in Session, NotReady(s) \/ Interrupted(s)
  PROVE  Inv'
<1>1. CASE call[s].at \in {"launching", "closing"}
  BY <1>1, CutShort DEF NotReady, Interrupted
<1>2. CASE call[s].at = "running"
  <2>1. Answers(s) /\ UNCHANGED <<book, opened, current, file, kernel, gone, ghosts>>
    BY <1>2 DEF NotReady, Interrupted, ghosts
  <2> QED
    BY <1>2, <2>1, IdleFits, CallGoesOn DEF Answers
<1> QED
  BY <1>1, <1>2 DEF NotReady, Interrupted

(* A process starts for the notebook object its call is for.               *)
LEMMA LaunchKeeps ==
  ASSUME Inv, NEW s \in Session, Launch(s)
  PROVE  Inv'
<1>1. /\ Types /\ Holding /\ Dictionary /\ CallsOK /\ Kernels /\ Files
      /\ UNCHANGED <<book, opened, current, file, gone, hurt, strayed, unsaved>>
      /\ call[s].at = "resolving" /\ Len(kernel) < MaxKernels
  BY DEF Inv, Objects, Launch, ghosts
<1> PICK i : i = call[s].book
  OBVIOUS
<1> PICK k \in Nat : k = Len(kernel) + 1
  BY <1>1, KernelIs
<1>2. call[s] \in Resolving /\ i \in DOMAIN book
  BY <1>1 DEF CallsOK, Fits, Resolving
<1>3. /\ kernel' \in Seq(Nat) /\ Len(kernel') = k /\ kernel'[k] = i
      /\ \A j \in 1 .. Len(kernel) : kernel'[j] = kernel[j]
      /\ DOMAIN kernel' = 1 .. k /\ DOMAIN kernel = 1 .. Len(kernel)
      /\ k \notin DOMAIN kernel /\ k \in DOMAIN kernel' /\ DOMAIN kernel \subseteq DOMAIN kernel'
      /\ \A j \in DOMAIN kernel' : j \in DOMAIN kernel \/ j = k
  <2>1. kernel \in Seq(Nat) /\ Len(kernel) \in Nat /\ i \in Nat
    BY <1>1, <1>2, KernelIs DEF Types
  <2>2. kernel' = Append(kernel, i)
    BY DEF Launch
  <2> QED
    BY <2>1, <2>2
<1> PICK w : w = [at |-> "launching", book |-> i, for |-> call[s].for,
                  cell |-> call[s].cell, index |-> call[s].index, kernel |-> k]
  OBVIOUS
<1>4. /\ CallsOK' /\ call'[s] = w /\ \A t \in Session \ {s} : call'[t] = call[t]
  <2>1. Does(s, w)
    BY <1>3 DEF Launch
  <2>2. w \in Launching'
    BY <1>1, <1>2, <1>3 DEF Resolving, Launching
  <2>3. Fits(w)'
    BY <1>3, <2>2 DEF Fits
  <2>4. \A j \in DOMAIN kernel : kernel'[j] \in {0, kernel[j]}
    BY <1>3
  <2> QED
    BY <1>1, <1>3, <2>1, <2>3, <2>4, CallSet
<1>5. Types'
  <2>1. Len(kernel') <= MaxKernels
    BY <1>1, <1>3, KernelIs, BoundsAssumption
  <2>2. \A j \in DOMAIN kernel' : kernel'[j] \in 0 .. Len(book)
    <3>1. i \in 0 .. Len(book)
      BY <1>1, <1>2, KernelIs
    <3> QED
      BY <1>1, <1>3, <3>1 DEF Types
  <2> QED
    BY <1>1, <1>3, <2>1, <2>2 DEF Types
<1>6. Dictionary' /\ Open' = Open
  BY <1>1 DEF Dictionary, OpenNames, Open
<1>7. Holding'
  <2> SUFFICES ASSUME NEW j \in DOMAIN book PROVE Holds(j)'
    BY <1>1 DEF Holding
  <2>1. Holds(j)
    BY <1>1 DEF Holding
  <2>2. book[j].manager # 0 => book[j].manager \in 1 .. Len(kernel)
    BY <2>1, KernelIs, <1>1 DEF Holds
  <2>3. 0 .. Len(kernel) \subseteq 0 .. Len(kernel')
    BY <1>1, <1>3, KernelIs
  <2> QED
    BY <1>1, <1>3, <2>1, <2>2, <2>3 DEF Holds
<1>8. ASSUME NEW t \in Session
      PROVE  /\ call'[t].at \in Lifecycle <=> call[t].at \in Lifecycle
             /\ call'[t].at \in Lifecycle => call'[t].book = call[t].book
             /\ call'[t].at = "closing" <=> call[t].at = "closing"
             /\ call'[t].at = "closing" => call'[t] = call[t]
             /\ call[t].at \in {"launching", "closing"} => call'[t] = call[t]
  BY <1>1, <1>4 DEF Lifecycle
<1>9. ASSUME NEW t \in Session PROVE Handled(t)'
  <2>1. Handled(t)
    BY <1>1 DEF Kernels
  <2> QED
    BY <1>1, <1>6, <1>8, <2>1 DEF Handled
<1>10. \A j \in Open' : Clientless(j)'
  BY <1>1, <1>6, <1>8 DEF Kernels, Clientless
<1>11. KernelsOwned'
  <2> SUFFICES ASSUME NEW j \in DOMAIN kernel', kernel'[j] # 0
               PROVE  \/ kernel'[j] \in hurt
                      \/ kernel'[j] \in Open /\ book[kernel'[j]].manager = j
                      \/ \E t \in Session : call'[t].at \in {"launching", "closing"} /\ call'[t].kernel = j
    BY <1>1, <1>6 DEF KernelsOwned, Alive
  <2>1. CASE j = k
    BY <1>4, <2>1
  <2>2. CASE j \in DOMAIN kernel
    <3>1. \/ kernel[j] \in hurt
          \/ kernel[j] \in Open /\ book[kernel[j]].manager = j
          \/ \E t \in Session : call[t].at \in {"launching", "closing"} /\ call[t].kernel = j
      BY <1>1, <1>3, <2>2 DEF Kernels, KernelsOwned, Alive
    <3> QED
      BY <1>3, <1>8, <2>2, <3>1
  <2> QED
    BY <1>3, <2>1, <2>2
<1>12. Files'
  <2>1. /\ DOMAIN book' = DOMAIN book
        /\ \A j \in Open : book'[j].path = book[j].path /\ book'[j].cells = book[j].cells
    BY <1>1
  <2> QED
    BY <1>1, <2>1, FilesStand
<1> QED
  BY <1>4, <1>5, <1>6, <1>7, <1>9, <1>10, <1>11, <1>12 DEF Inv, Objects, Kernels

(* The dictionary does not care what else a notebook object holds.         *)
LEMMA DictionaryStands ==
  ASSUME Types, Dictionary, UNCHANGED <<opened, current>>, DOMAIN book' = DOMAIN book,
         \A i \in Open : book'[i].name = book[i].name
  PROVE  Dictionary' /\ Open' = Open /\ OpenNames' = OpenNames
<1>1. Open' = Open /\ OpenNames' = OpenNames
  BY DEF Open, OpenNames
<1>2. /\ opened \in Seq(DOMAIN book) /\ DOMAIN opened = 1 .. Len(opened)
      /\ \A p \in 1 .. Len(opened) : opened[p] \in Open
  BY DEF Dictionary, Open, ToSet
<1> QED
  BY <1>1, <1>2 DEF Dictionary

(* The kernel that answers becomes the notebook's: the one it was for.     *)
LEMMA ReadyKeeps ==
  ASSUME Inv, NEW s \in Session, Ready(s)
  PROVE  Inv'
<1>1. /\ Types /\ Holding /\ Dictionary /\ CallsOK /\ Kernels /\ Files
      /\ UNCHANGED <<opened, current, file, kernel, gone, hurt, strayed, unsaved>>
      /\ call[s].at = "launching"
  BY DEF Inv, Objects, Ready, ghosts
<1> PICK i : i = call[s].book
  OBVIOUS
<1> PICK k : k = call[s].kernel
  OBVIOUS
<1>2. /\ call[s] \in Launching /\ i \in DOMAIN book /\ k \in DOMAIN kernel /\ kernel[k] = i
      /\ k \in Nat /\ k # 0 /\ k \in 0 .. Len(kernel)
  <2>1. call[s] \in Launching /\ kernel[k] \in {0, i} /\ kernel[k] # 0
    BY <1>1 DEF CallsOK, Fits, Ready, Alive
  <2>2. k \in DOMAIN kernel /\ i \in DOMAIN book
    BY <2>1 DEF Launching
  <2>3. k \in 1 .. Len(kernel) /\ Len(kernel) \in Nat
    BY <1>1, <2>2, KernelIs
  <2> QED
    BY <2>1, <2>2, <2>3
<1>3. book' = IF i \in Open THEN [book EXCEPT ![i].manager = k, ![i].client = k] ELSE book
  BY DEF Ready
<1>4. /\ \A j \in DOMAIN book : /\ book'[j].name = book[j].name /\ book'[j].path = book[j].path
                                /\ book'[j].cells = book[j].cells
      /\ \A j \in DOMAIN book : j # i \/ i \notin Open => book'[j] = book[j]
      /\ i \in Open => book'[i].manager = k /\ book'[i].client = k
      /\ book' \in Seq(Book) /\ Len(book') = Len(book) /\ DOMAIN book' = DOMAIN book
  <2>1. book[i] \in Book /\ book \in Seq(Book)
    BY <1>1, <1>2, BookIs DEF Types
  <2>2. \A j \in DOMAIN book : j # i \/ i \notin Open => book'[j] = book[j]
    BY <1>3
  <2>3. i \in Open => book'[i] = [book[i] EXCEPT !.manager = k, !.client = k]
    BY <1>2, <1>3
  <2>4. i \in Open => /\ book'[i] \in Book /\ book'[i].manager = k /\ book'[i].client = k
                      /\ book'[i].name = book[i].name /\ book'[i].path = book[i].path
                      /\ book'[i].cells = book[i].cells
    BY <1>2, <2>1, <2>3 DEF Book
  <2>5. \A j \in DOMAIN book : book'[j] \in Book
    BY <1>1, <2>2, <2>4, BookIs
  <2>6. book' = [j \in DOMAIN book |-> book'[j]]
    <3>1. book = [j \in DOMAIN book |-> book[j]]
      BY <2>1
    <3>2. CASE i \in Open
      BY <1>3, <3>2
    <3>3. CASE i \notin Open
      BY <1>3, <3>1, <3>3
    <3> QED
      BY <3>2, <3>3
  <2>7. book' \in Seq(Book) /\ Len(book') = Len(book) /\ DOMAIN book' = DOMAIN book
    BY <2>1, <2>5, <2>6, Rewriting
  <2> QED
    BY <2>2, <2>4, <2>7
<1>5. Open \subseteq DOMAIN book
  BY <1>1, Naming
<1>6. Types' /\ Dictionary' /\ Open' = Open
  <2>1. Dictionary' /\ Open' = Open
    BY <1>1, <1>4, <1>5, DictionaryStands
  <2> QED
    BY <1>1, <1>4, <2>1 DEF Types
<1>7. Holding'
  <2> SUFFICES ASSUME NEW j \in DOMAIN book PROVE Holds(j)'
    BY <1>4 DEF Holding
  <2>1. CASE j = i /\ i \in Open
    BY <1>1, <1>2, <1>4, <2>1 DEF Holds
  <2>2. CASE ~(j = i /\ i \in Open)
    BY <1>1, <1>4, <2>2 DEF Holding, Holds
  <2> QED
    BY <2>1, <2>2
<1>8. /\ CallsOK' /\ call'[s].at \notin Lifecycle
      /\ \A t \in Session \ {s} : call'[t] = call[t]
  <2>1. /\ DOMAIN book \subseteq DOMAIN book' /\ DOMAIN kernel \subseteq DOMAIN kernel'
        /\ \A j \in DOMAIN kernel : kernel'[j] \in {0, kernel[j]}
    BY <1>1, <1>4
  <2>2. CASE Answers(s)
    BY <1>1, <2>1, <2>2, CallSet, IdleFits DEF Answers
  <2>3. CASE Run(s, i, k, call[s].cell, call[s].index)
    <3> PICK w : w = [at |-> "running", book |-> i, kernel |-> k, cell |-> call[s].cell,
                      index |-> call[s].index]
      OBVIOUS
    <3>1. w \in Running'
      BY <1>2, <1>4 DEF Launching, Running
    <3>2. Fits(w)' /\ w.at \notin Lifecycle
      BY <3>1 DEF Fits, Lifecycle
    <3>3. Does(s, w)
      BY <2>3 DEF Run
    <3> QED
      BY <1>1, <2>1, <3>2, <3>3, CallSet
  <2> QED
    BY <2>2, <2>3 DEF Ready
<1>9. i \notin hurt => /\ i \in Open /\ book[i].manager = 0
                       /\ \A t \in Session : call[t].at \in Lifecycle /\ call[t].book = i => t = s
  <2>1. Handled(s)
    BY <1>1 DEF Kernels
  <2> QED
    BY <1>1, <2>1 DEF Handled, Lifecycle
<1>10. ASSUME NEW t \in Session PROVE Handled(t)'
  <2> SUFFICES ASSUME t # s, call[t].at \in Lifecycle, call[t].book \notin hurt
               PROVE  /\ call[t].book \in Open
                      /\ book'[call[t].book].manager =
                           IF call[t].at = "closing" THEN call[t].kernel ELSE 0
                      /\ \A r \in Session :
                           call'[r].at \in Lifecycle /\ call'[r].book = call[t].book => r = t
    BY <1>1, <1>6, <1>8 DEF Handled
  <2>1. Handled(t)
    BY <1>1 DEF Kernels
  <2>2. /\ call[t].book \in Open
        /\ book[call[t].book].manager = IF call[t].at = "closing" THEN call[t].kernel ELSE 0
        /\ \A r \in Session : call[r].at \in Lifecycle /\ call[r].book = call[t].book => r = t
    BY <2>1 DEF Handled
  <2>3. book'[call[t].book] = book[call[t].book]
    BY <1>4, <1>5, <1>9, <2>2
  <2> QED
    BY <1>8, <2>2, <2>3
<1>11. ASSUME NEW j \in Open PROVE Clientless(j)'
  <2> SUFFICES ASSUME book'[j].manager # 0, book'[j].client = 0, j \notin hurt
               PROVE  \E t \in Session : call'[t].at = "closing" /\ call'[t].book = j
    BY <1>1 DEF Clientless
  <2>1. book'[j] = book[j]
    BY <1>2, <1>4, <1>5
  <2>2. PICK t \in Session : call[t].at = "closing" /\ call[t].book = j
    BY <1>1, <2>1 DEF Kernels, Clientless
  <2> QED
    BY <1>1, <1>8, <2>2
<1>12. KernelsOwned'
  <2> SUFFICES ASSUME NEW j \in DOMAIN kernel, kernel[j] # 0, kernel[j] \notin hurt
               PROVE  \/ kernel[j] \in Open /\ book'[kernel[j]].manager = j
                      \/ \E t \in Session : call'[t].at \in {"launching", "closing"} /\ call'[t].kernel = j
    BY <1>1, <1>6 DEF KernelsOwned, Alive
  <2>1. \/ kernel[j] \in Open /\ book[kernel[j]].manager = j
        \/ \E t \in Session : call[t].at \in {"launching", "closing"} /\ call[t].kernel = j
    BY <1>1 DEF Kernels, KernelsOwned, Alive
  <2>2. j # 0
    BY <1>1, KernelIs
  <2>3. CASE kernel[j] \in Open /\ book[kernel[j]].manager = j
    BY <1>4, <1>5, <1>9, <2>2, <2>3
  <2>4. CASE j = k
    BY <1>2, <1>4, <1>9, <2>4
  <2>5. CASE j # k /\ \E t \in Session : call[t].at \in {"launching", "closing"} /\ call[t].kernel = j
    BY <1>8, <2>5
  <2> QED
    BY <2>1, <2>3, <2>4, <2>5
<1>13. Files'
  BY <1>1, <1>4, <1>5, FilesStand
<1> QED
  BY <1>6, <1>7, <1>8, <1>10, <1>11, <1>12, <1>13 DEF Inv, Objects, Kernels

-----------------------------------------------------------------------------
(* Kernels stop, and notebooks leave the dictionary *)

(* What forgetting the notebook of a name does to the manager's objects,   *)
(* whether one has the name or not.                                        *)
LEMMA Forgetting ==
  ASSUME Types, Dictionary, NEW n \in Name, Forget(n), book' = WithoutNamed(n)
  PROVE  /\ book' \in Seq(Book) /\ Len(book') = Len(book) /\ DOMAIN book' = DOMAIN book
         /\ Dictionary' /\ Open' = ToSet(Rest(n)) /\ Open' \subseteq Open
         /\ \A j \in Open : j \in Open' <=> book[j].name # n
         /\ \A j \in Open' : book'[j] = book[j]
         /\ \A j \in DOMAIN book : \/ book'[j] = book[j]
                                   \/ book'[j].manager = 0 /\ book'[j].client = 0
<1>1. /\ book \in Seq(Book) /\ Open \subseteq DOMAIN book
      /\ opened' = Rest(n) /\ current' = NextCurrent(n)
      /\ book' = [j \in DOMAIN book |-> IF j \in Open /\ book[j].name = n
                                      THEN Emptied(book[j]) ELSE book[j]]
  BY Naming DEF Types, Forget, WithoutNamed
<1>2. ASSUME NEW j \in DOMAIN book
      PROVE  /\ book'[j] \in Book /\ book'[j].name = book[j].name
             /\ ~(j \in Open /\ book[j].name = n) => book'[j] = book[j]
             /\ j \in Open /\ book[j].name = n => book'[j].manager = 0 /\ book'[j].client = 0
  <2>1. book[j] \in Book
    BY BookIs
  <2>2. CASE ~(j \in Open /\ book[j].name = n)
    <3>1. book'[j] = book[j]
      BY <1>1, <2>2
    <3> QED
      BY <2>1, <2>2, <3>1
  <2>3. CASE j \in Open /\ book[j].name = n
    <3>1. book'[j] = [book[j] EXCEPT !.cells = <<>>, !.manager = 0, !.client = 0]
      BY <1>1, <2>3 DEF Emptied
    <3>2. book'[j] \in Book
      <4> PICK e \in Cells : e = <<>>
        BY NoCells
      <4>1. book'[j] = [book[j] EXCEPT !.cells = e, !.manager = 0, !.client = 0]
        BY <3>1
      <4>2. e \in Cells /\ 0 \in Nat
        OBVIOUS
      <4> QED
        BY <2>1, <4>1, <4>2 DEF Book
    <3>3. /\ book'[j].name = book[j].name
          /\ book'[j].manager = 0 /\ book'[j].client = 0
      BY <2>1, <3>1 DEF Book
    <3> QED
      BY <2>3, <3>2, <3>3
  <2> QED
    BY <2>2, <2>3
<1>3. book' \in Seq(Book) /\ Len(book') = Len(book) /\ DOMAIN book' = DOMAIN book
  <2>1. book' = [j \in DOMAIN book |-> book'[j]]
    BY <1>1
  <2>2. \A j \in DOMAIN book : book'[j] \in Book
    BY <1>2
  <2> QED
    BY <1>1, <2>1, <2>2, Rewriting
<1>4. /\ Rest(n) \in Seq(DOMAIN book)
      /\ \A j : j \in ToSet(Rest(n)) <=> j \in Open /\ book[j].name # n
      /\ \A p, q \in 1 .. Len(Rest(n)) :
            book[Rest(n)[p]].name = book[Rest(n)[q]].name => p = q
      /\ Rest(n) # <<>> => Head(Rest(n)) \in ToSet(Rest(n))
  <2>1. CASE n \in OpenNames
    <3>1. \A j \in Open : j = Named(n) <=> book[j].name = n
      BY <2>1, Naming
    <3> QED
      BY <2>1, <3>1, RestIs
  <2>2. CASE n \notin OpenNames
    <3>1. Rest(n) = opened /\ ToSet(Rest(n)) = Open /\ \A j \in Open : book[j].name # n
      BY <2>2 DEF Rest, Open, OpenNames
    <3>2. /\ opened \in Seq(DOMAIN book)
          /\ \A p, q \in 1 .. Len(opened) : book[opened[p]].name = book[opened[q]].name => p = q
      BY DEF Dictionary
    <3>3. opened # <<>> => Head(opened) \in Open
      <4>1. opened # <<>> => Head(opened) = opened[1] /\ 1 \in DOMAIN opened
        BY <3>2
      <4> QED
        BY <4>1 DEF Open, ToSet
    <3> QED
      BY <3>1, <3>2, <3>3
  <2> QED
    BY <2>1, <2>2
<1>5. Open' = ToSet(Rest(n))
  BY <1>1 DEF Open
<1>6. \A p \in 1 .. Len(Rest(n)) : Rest(n)[p] \in Open' /\ Rest(n)[p] \in DOMAIN book
  <2>1. \A p \in DOMAIN Rest(n) : Rest(n)[p] \in ToSet(Rest(n))
    BY DEF ToSet
  <2> QED
    BY <1>4, <1>5, <2>1
<1>7. OpenNames' = {book[j].name : j \in Open'}
  <2>1. \A j \in Open' : book'[j].name = book[j].name
    BY <1>1, <1>2, <1>4, <1>5
  <2> QED
    BY <2>1 DEF OpenNames
<1>8. IF Rest(n) = <<>> THEN current' = None ELSE current' \in OpenNames'
  <2>1. CASE current = n
    BY <1>1, <1>4, <1>5, <1>7, <2>1 DEF NextCurrent
  <2>2. CASE current # n /\ opened = <<>>
    <3>1. current' = None
      BY <1>1, <2>2 DEF NextCurrent, Dictionary
    <3>2. Open = {}
      BY <2>2 DEF Open, ToSet
    <3>3. \A p \in 1 .. Len(Rest(n)) : FALSE
      BY <1>4, <1>5, <1>6, <3>2
    <3>4. Rest(n) = <<>>
      BY <1>4, <1>5, <3>2
    <3> QED
      BY <3>1, <3>4
  <2>3. CASE current # n /\ opened # <<>>
    <3>1. current' = current /\ current \in OpenNames
      BY <1>1, <2>3 DEF NextCurrent, Dictionary
    <3>2. PICK j \in Open : book[j].name = current
      BY <3>1 DEF OpenNames
    <3>3. j \in Open' /\ current' \in OpenNames'
      BY <1>4, <1>5, <1>7, <2>3, <3>1, <3>2
    <3>4. Rest(n) # <<>>
      BY <1>5, <3>3 DEF ToSet
    <3> QED
      BY <3>3, <3>4
  <2> QED
    BY <2>1, <2>2, <2>3
<1>9. Dictionary'
  <2>1. opened' \in Seq(DOMAIN book')
    BY <1>1, <1>3, <1>4
  <2>2. \A p \in 1 .. Len(opened') : book'[opened'[p]].name = book[opened'[p]].name
    BY <1>1, <1>2, <1>6
  <2>3. ASSUME NEW p \in 1 .. Len(opened'), NEW q \in 1 .. Len(opened'),
               book'[opened'[p]].name = book'[opened'[q]].name
        PROVE  p = q
    BY <1>1, <1>4, <2>2, <2>3
  <2>4. IF opened' = <<>> THEN current' = None ELSE current' \in OpenNames'
    BY <1>1, <1>8
  <2> QED
    BY <2>1, <2>3, <2>4 DEF Dictionary
<1>10. \A j \in Open' : book'[j] = book[j]
  BY <1>1, <1>2, <1>4, <1>5
<1>11. Open' \subseteq Open /\ \A j \in Open : j \in Open' <=> book[j].name # n
  BY <1>4, <1>5
<1>12. \A j \in DOMAIN book :
          book'[j] = book[j] \/ (book'[j].manager = 0 /\ book'[j].client = 0)
  BY <1>2
<1> QED
  BY <1>3, <1>5, <1>9, <1>10, <1>11, <1>12

(* The files follow when notebooks leave the dictionary.                   *)
LEMMA FewerFiles ==
  ASSUME Files, Open' \subseteq Open, UNCHANGED strayed, DOMAIN book' = DOMAIN book,
         unsaved' \subseteq unsaved, \A j \in Open' : j \in unsaved => j \in unsaved',
         \A j \in Open' : book'[j].path = book[j].path /\ book'[j].cells = book[j].cells,
         \A j \in Open' : book[j].path \notin strayed => file'[book[j].path] = file[book[j].path]
  PROVE  Files'
BY DEF Files, OpenOnce, InFile

(* What follows a close is no business of the manager's.                   *)
LEMMA AfterCloseIs ==
  ASSUME NEW s \in Session, NEW todo, AfterClose(s, todo) \/ Answers(s)
  PROVE  \E w : Does(s, w) /\ Fits(w)' /\ w.at \notin Lifecycle
<1>1. CASE Answers(s)
  BY <1>1, IdleFits DEF Answers
<1>2. CASE AfterClose(s, todo) /\ todo = None
  BY <1>2, IdleFits DEF AfterClose, Answers
<1>3. CASE AfterClose(s, todo) /\ todo # None
  <2> PICK w : w = [at |-> "cleaning", todo |-> todo]
    OBVIOUS
  <2>1. Does(s, w) /\ Fits(w)' /\ w.at \notin Lifecycle
    BY <1>3 DEF AfterClose, Fits, Lifecycle
  <2> QED
    BY <2>1
<1> QED
  BY <1>1, <1>2, <1>3

(* A close that stops no kernel forgets the notebook at once; another      *)
(* suspends, and is the only handler of its kernel unless one was before.  *)
LEMMA CloseKeeps ==
  ASSUME Inv, NEW s \in Session, NEW n, NEW todo, Close(s, n, todo),
         call[s].at \in {"prepared", "cleaning"}
  PROVE  Inv'
<1>1. /\ Types /\ Holding /\ Dictionary /\ CallsOK /\ Kernels /\ Files
      /\ UNCHANGED <<kernel, gone, strayed>>
      /\ n \in OpenNames /\ call[s].at \notin Lifecycle
  BY DEF Inv, Objects, Close, Lifecycle
<1> PICK i \in Open : i = Named(n) /\ book[i].name = n
  BY <1>1, Naming
<1> PICK k : k = book[i].manager
  OBVIOUS
<1>2. /\ file' = [file EXCEPT ![book[i].path] = book[i].cells]
      /\ hurt' = hurt \cup Raced(i) /\ unsaved' = unsaved \ {i}
  BY DEF Close
<1>3. /\ i \in DOMAIN book /\ Open \subseteq DOMAIN book /\ n \in Name /\ k \in Nat
      /\ book[i].path \in Path /\ book[i].cells \in Cells
      /\ \A j \in Open : book[j].name = n => j = i
  BY <1>1, Naming, BookIs
<1>4. /\ file' \in [Path -> {None} \cup Cells] /\ file'[book[i].path] = book[i].cells
      /\ \A p \in Path : p # book[i].path => file'[p] = file[p]
  BY <1>1, <1>2, <1>3 DEF Types
<1>5. \A j \in Open : j # i /\ book[j].path \notin strayed => book[j].path # book[i].path
  BY <1>1 DEF Files, OpenOnce
<1>6. \A t \in Session : call[t].at \in Lifecycle /\ call[t].book = i => i \in hurt'
  BY <1>2 DEF Raced, Handling
<1>7. \A j \in DOMAIN kernel : kernel'[j] \in {0, kernel[j]}
  BY <1>1
<1>8. CASE k = 0 /\ book' = WithoutNamed(n) /\ Forget(n) /\ AfterClose(s, todo)
  <2>1. /\ book' \in Seq(Book) /\ Len(book') = Len(book) /\ DOMAIN book' = DOMAIN book
        /\ Dictionary' /\ Open' \subseteq Open
        /\ \A j \in Open : j \in Open' <=> book[j].name # n
        /\ \A j \in Open' : book'[j] = book[j]
        /\ \A j \in DOMAIN book : \/ book'[j] = book[j]
                                  \/ book'[j].manager = 0 /\ book'[j].client = 0
    BY <1>1, <1>3, <1>8, Forgetting
  <2>2. \A j \in Open : j \in Open' <=> j # i
    BY <1>3, <2>1
  <2> PICK w : Does(s, w) /\ Fits(w)' /\ w.at \notin Lifecycle
    BY <1>8, AfterCloseIs
  <2>3. CallsOK' /\ call'[s] = w /\ \A t \in Session \ {s} : call'[t] = call[t]
    BY <1>1, <1>7, <2>1, CallSet
  <2>4. Types'
    BY <1>1, <1>4, <2>1 DEF Types
  <2>5. Holding'
    <3> SUFFICES ASSUME NEW j \in DOMAIN book PROVE Holds(j)'
      BY <2>1 DEF Holding
    <3>1. Len(kernel) \in Nat
      BY <1>1, KernelIs
    <3> QED
      BY <1>1, <2>1, <3>1 DEF Holding, Holds
  <2>6. \A t \in Session : call'[t].at \in Lifecycle => t # s /\ call'[t] = call[t]
    BY <2>3
  <2>7. ASSUME NEW t \in Session PROVE Handled(t)'
    <3> SUFFICES ASSUME t # s, call[t].at \in Lifecycle, call[t].book \notin hurt'
                 PROVE  /\ call[t].book \in Open'
                        /\ book'[call[t].book].manager =
                             IF call[t].at = "closing" THEN call[t].kernel ELSE 0
                        /\ \A r \in Session :
                             call'[r].at \in Lifecycle /\ call'[r].book = call[t].book => r = t
      BY <2>3, <2>6 DEF Handled
    <3>1. Handled(t) /\ call[t].book \notin hurt /\ call[t].book # i
      BY <1>1, <1>2, <1>6 DEF Kernels
    <3>2. /\ call[t].book \in Open
          /\ book[call[t].book].manager = IF call[t].at = "closing" THEN call[t].kernel ELSE 0
          /\ \A r \in Session : call[r].at \in Lifecycle /\ call[r].book = call[t].book => r = t
      BY <3>1 DEF Handled
    <3>3. call[t].book \in Open' /\ book'[call[t].book] = book[call[t].book]
      BY <2>1, <2>2, <3>1, <3>2
    <3> QED
      BY <2>6, <3>2, <3>3
  <2>8. ASSUME NEW j \in Open' PROVE Clientless(j)'
    <3> SUFFICES ASSUME book'[j].manager # 0, book'[j].client = 0, j \notin hurt'
                 PROVE  \E t \in Session : call'[t].at = "closing" /\ call'[t].book = j
      BY DEF Clientless
    <3>1. book'[j] = book[j] /\ j \in Open /\ j \notin hurt
      BY <1>2, <2>1
    <3>2. PICK t \in Session : call[t].at = "closing" /\ call[t].book = j
      BY <1>1, <3>1 DEF Kernels, Clientless
    <3>3. t # s
      BY <3>2
    <3> QED
      BY <2>3, <3>2, <3>3
  <2>9. KernelsOwned'
    <3> SUFFICES ASSUME NEW j \in DOMAIN kernel, kernel[j] # 0, kernel[j] \notin hurt'
                 PROVE  \/ kernel[j] \in Open' /\ book'[kernel[j]].manager = j
                        \/ \E t \in Session : call'[t].at \in {"launching", "closing"} /\ call'[t].kernel = j
      BY <1>1 DEF KernelsOwned, Alive
    <3>1. \/ kernel[j] \in Open /\ book[kernel[j]].manager = j
          \/ \E t \in Session : call[t].at \in {"launching", "closing"} /\ call[t].kernel = j
      BY <1>1, <1>2 DEF Kernels, KernelsOwned, Alive
    <3>2. j # 0
      BY <1>1, KernelIs
    <3>3. CASE kernel[j] \in Open /\ book[kernel[j]].manager = j
      BY <1>8, <2>1, <2>2, <3>2, <3>3
    <3>4. CASE \E t \in Session : call[t].at \in {"launching", "closing"} /\ call[t].kernel = j
      <4>1. PICK t \in Session : call[t].at \in {"launching", "closing"} /\ call[t].kernel = j
        BY <3>4
      <4>2. t # s
        BY <4>1
      <4> QED
        BY <2>3, <4>1, <4>2
    <3> QED
      BY <3>1, <3>3, <3>4
  <2>10. Files'
    <3>1. \A j \in Open' : j \in Open /\ j # i /\ book'[j] = book[j] /\ book[j].path \in Path
      BY <1>1, <1>3, <2>1, <2>2, BookIs
    <3>2. \A j \in Open' : book[j].path \notin strayed => file'[book[j].path] = file[book[j].path]
      BY <1>4, <1>5, <3>1
    <3> QED
      BY <1>1, <1>2, <2>1, <3>1, <3>2, FewerFiles
  <2> QED
    BY <2>1, <2>3, <2>4, <2>5, <2>7, <2>8, <2>9, <2>10 DEF Inv, Objects, Kernels
<1>9. CASE /\ k # 0 /\ book' = [book EXCEPT ![i].client = 0] /\ UNCHANGED <<opened, current>>
           /\ Does(s, [at |-> "closing", book |-> i, kernel |-> k, todo |-> todo])
  <2> PICK w : w = [at |-> "closing", book |-> i, kernel |-> k, todo |-> todo]
    OBVIOUS
  <2>1. /\ book' \in Seq(Book) /\ Len(book') = Len(book) /\ DOMAIN book' = DOMAIN book
        /\ \A j \in DOMAIN book : /\ book'[j].name = book[j].name /\ book'[j].path = book[j].path
                                  /\ book'[j].cells = book[j].cells
                                  /\ book'[j].manager = book[j].manager
                                  /\ book'[j].client \in {0, book[j].client}
                                  /\ j # i => book'[j] = book[j]
    <3>1. book \in Seq(Book) /\ book[i] \in Book
      BY <1>1, <1>3, BookIs DEF Types
    <3>2. book' = [j \in DOMAIN book |-> book'[j]] /\ \A j \in DOMAIN book : j # i => book'[j] = book[j]
      BY <1>9, <3>1
    <3>3. book'[i] = [book[i] EXCEPT !.client = 0]
      BY <1>3, <1>9
    <3>4. /\ book'[i] \in Book /\ book'[i].name = book[i].name /\ book'[i].path = book[i].path
          /\ book'[i].cells = book[i].cells /\ book'[i].manager = book[i].manager
          /\ book'[i].client = 0
      <4>1. 0 \in Nat
        OBVIOUS
      <4>2. book'[i] \in Book
        BY <3>1, <3>3, <4>1 DEF Book
      <4> QED
        BY <3>1, <3>3, <4>2 DEF Book
    <3>5. \A j \in DOMAIN book : book'[j] \in Book
      BY <1>1, <3>2, <3>4, BookIs
    <3>6. book' \in Seq(Book) /\ Len(book') = Len(book) /\ DOMAIN book' = DOMAIN book
      BY <3>1, <3>2, <3>5, Rewriting
    <3> QED
      BY <3>2, <3>4, <3>6
  <2>2. Dictionary' /\ Open' = Open
    BY <1>1, <1>3, <1>9, <2>1, DictionaryStands
  <2>3. k \in DOMAIN kernel /\ kernel[k] \in {0, i} /\ Len(kernel) \in Nat
    <3>1. Holds(i) /\ DOMAIN kernel = 1 .. Len(kernel) /\ Len(kernel) \in Nat
      BY <1>1, <1>3, KernelIs DEF Holding
    <3> QED
      BY <1>9, <3>1 DEF Holds
  <2>4. CallsOK' /\ call'[s] = w /\ \A t \in Session \ {s} : call'[t] = call[t]
    <3>1. Fits(w)'
      BY <1>1, <1>3, <2>1, <2>3 DEF Fits
    <3> QED
      BY <1>1, <1>7, <1>9, <2>1, <3>1, CallSet
  <2>5. Types'
    BY <1>1, <1>4, <2>1 DEF Types
  <2>6. Holding'
    <3> SUFFICES ASSUME NEW j \in DOMAIN book PROVE Holds(j)'
      BY <2>1 DEF Holding
    <3>1. Holds(j)
      BY <1>1 DEF Holding
    <3>2. book'[j].manager = book[j].manager /\ book'[j].client \in {0, book[j].client}
      BY <2>1
    <3>3. 0 \in 0 .. Len(kernel)
      BY <2>3
    <3> QED
      BY <1>1, <3>1, <3>2, <3>3 DEF Holds
  <2>7. w.at = "closing" /\ w.book = i /\ w.kernel = k /\ w.at \in Lifecycle
    BY DEF Lifecycle
  <2>8. ASSUME NEW t \in Session PROVE Handled(t)'
    <3>1. CASE t = s
      <4>1. \A r \in Session : call'[r].at \in Lifecycle /\ call'[r].book = i /\ i \notin hurt' => r = s
        BY <1>6, <2>4
      <4> QED
        BY <1>3, <2>1, <2>2, <2>4, <2>7, <3>1, <4>1 DEF Handled
    <3>2. CASE t # s
      <4> SUFFICES ASSUME call[t].at \in Lifecycle, call[t].book \notin hurt'
                   PROVE  /\ call[t].book \in Open
                          /\ book'[call[t].book].manager =
                               IF call[t].at = "closing" THEN call[t].kernel ELSE 0
                          /\ \A r \in Session :
                               call'[r].at \in Lifecycle /\ call'[r].book = call[t].book => r = t
        BY <2>2, <2>4, <3>2 DEF Handled
      <4>1. Handled(t) /\ call[t].book \notin hurt /\ call[t].book # i
        BY <1>1, <1>2, <1>6 DEF Kernels
      <4>2. /\ call[t].book \in Open
            /\ book[call[t].book].manager = IF call[t].at = "closing" THEN call[t].kernel ELSE 0
            /\ \A r \in Session : call[r].at \in Lifecycle /\ call[r].book = call[t].book => r = t
        BY <4>1 DEF Handled
      <4>3. book'[call[t].book].manager = book[call[t].book].manager
        BY <1>3, <2>1, <4>2
      <4> QED
        BY <2>4, <2>7, <4>1, <4>2, <4>3
    <3> QED
      BY <3>1, <3>2
  <2>9. ASSUME NEW j \in Open PROVE Clientless(j)'
    <3>1. CASE j = i
      BY <2>4, <2>7, <3>1 DEF Clientless
    <3>2. CASE j # i
      <4> SUFFICES ASSUME book'[j].manager # 0, book'[j].client = 0, j \notin hurt'
                   PROVE  \E t \in Session : call'[t].at = "closing" /\ call'[t].book = j
        BY DEF Clientless
      <4>1. book'[j] = book[j] /\ j \notin hurt
        BY <1>2, <1>3, <2>1, <3>2
      <4>2. PICK t \in Session : call[t].at = "closing" /\ call[t].book = j
        BY <1>1, <4>1 DEF Kernels, Clientless
      <4>3. t # s
        BY <4>2
      <4> QED
        BY <2>4, <4>2, <4>3
    <3> QED
      BY <3>1, <3>2
  <2>10. KernelsOwned'
    <3> SUFFICES ASSUME NEW j \in DOMAIN kernel, kernel[j] # 0, kernel[j] \notin hurt'
                 PROVE  \/ kernel[j] \in Open /\ book'[kernel[j]].manager = j
                        \/ \E t \in Session : call'[t].at \in {"launching", "closing"} /\ call'[t].kernel = j
      BY <1>1, <2>2 DEF KernelsOwned, Alive
    <3>1. \/ kernel[j] \in Open /\ book[kernel[j]].manager = j
          \/ \E t \in Session : call[t].at \in {"launching", "closing"} /\ call[t].kernel = j
      BY <1>1, <1>2 DEF Kernels, KernelsOwned, Alive
    <3>2. \A t \in Session : call[t].at \in {"launching", "closing"} => t # s
      OBVIOUS
    <3> QED
      BY <1>3, <2>1, <2>4, <3>1, <3>2
  <2>11. Files'
    <3>1. OpenOnce'
      BY <1>1, <1>3, <2>1, <2>2 DEF Files, OpenOnce
    <3>2. ASSUME NEW j \in Open, book[j].path \notin strayed
          PROVE  /\ file'[book[j].path] # None
                 /\ j \in unsaved' \/ file'[book[j].path] = book[j].cells
      <4>1. CASE j = i
        BY <1>3, <1>4, <4>1, CellsAre
      <4>2. CASE j # i
        <5>1. book[j].path \in Path /\ book[j].path # book[i].path
          BY <1>1, <1>3, <1>5, <3>2, <4>2, BookIs
        <5>2. InFile(j) /\ file'[book[j].path] = file[book[j].path]
          BY <1>1, <1>4, <5>1 DEF Files
        <5> QED
          BY <1>2, <3>2, <4>2, <5>2 DEF InFile
      <4> QED
        BY <4>1, <4>2
    <3>3. ASSUME NEW j \in Open PROVE InFile(j)'
      BY <1>1, <1>3, <2>1, <3>2 DEF InFile
    <3>4. unsaved' \subseteq DOMAIN book'
      BY <1>1, <1>2, <2>1 DEF Files
    <3> QED
      BY <2>2, <3>1, <3>3, <3>4 DEF Files
  <2> QED
    BY <2>2, <2>4, <2>5, <2>6, <2>8, <2>9, <2>10, <2>11 DEF Inv, Objects, Kernels
<1> QED
  BY <1>8, <1>9 DEF Close

(* The kernel has stopped; what has the notebook's name by now is          *)
(* forgotten, and if that is another notebook, its kernel is abandoned.    *)
LEMMA CloseReturnsKeeps ==
  ASSUME Inv, NEW s \in Session, CloseReturns(s)
  PROVE  Inv'
<1>1. /\ Types /\ Holding /\ Dictionary /\ CallsOK /\ Kernels /\ Files
      /\ UNCHANGED <<file, gone, strayed, unsaved>> /\ call[s].at = "closing"
  BY DEF Inv, Objects, CloseReturns
<1> PICK i : i = call[s].book
  OBVIOUS
<1> PICK k : k = call[s].kernel
  OBVIOUS
<1>2. i \in DOMAIN book /\ k \in DOMAIN kernel /\ kernel[k] \in {0, i}
  BY <1>1 DEF CallsOK, Fits
<1> PICK n \in Name : n = book[i].name
  BY <1>1, <1>2, BookIs
<1>3. /\ book' = WithoutNamed(n) /\ Forget(n) /\ kernel' = [kernel EXCEPT ![k] = 0]
      /\ hurt' = hurt \cup Forgotten(i)
  BY DEF CloseReturns
<1>4. /\ book' \in Seq(Book) /\ Len(book') = Len(book) /\ DOMAIN book' = DOMAIN book
      /\ Dictionary' /\ Open' = ToSet(Rest(n)) /\ Open' \subseteq Open
      /\ \A j \in Open : j \in Open' <=> book[j].name # n
      /\ \A j \in Open' : book'[j] = book[j]
      /\ \A j \in DOMAIN book : \/ book'[j] = book[j]
                                \/ book'[j].manager = 0 /\ book'[j].client = 0
  BY <1>1, <1>3, Forgetting
<1>5. i \notin Open'
  BY <1>4
<1>6. \A j \in Open : j \in hurt' \/ j \in Open' \/ j = i
  BY <1>3, <1>4 DEF Forgotten
<1>7. /\ kernel' \in Seq(Nat) /\ Len(kernel') = Len(kernel) /\ DOMAIN kernel' = DOMAIN kernel
      /\ kernel'[k] = 0 /\ \A j \in DOMAIN kernel : j # k => kernel'[j] = kernel[j]
  <2>1. kernel \in Seq(Nat) /\ 0 \in Nat
    BY <1>1 DEF Types
  <2> QED
    BY <1>2, <1>3, <2>1
<1>8. \A j \in DOMAIN kernel : kernel'[j] \in {0, kernel[j]}
  BY <1>7
<1> PICK w : Does(s, w) /\ Fits(w)' /\ w.at \notin Lifecycle
  BY AfterCloseIs DEF CloseReturns
<1>9. CallsOK' /\ call'[s] = w /\ \A t \in Session \ {s} : call'[t] = call[t]
  BY <1>1, <1>4, <1>7, <1>8, CallSet
<1>10. Types'
  <2>1. \A j \in DOMAIN kernel' : kernel'[j] \in 0 .. Len(book')
    <3>1. 0 \in 0 .. Len(book)
      BY <1>1, KernelIs
    <3>2. \A j \in DOMAIN kernel : kernel[j] \in 0 .. Len(book)
      BY <1>1 DEF Types
    <3> QED
      BY <1>4, <1>7, <1>8, <3>1, <3>2
  <2> QED
    BY <1>1, <1>4, <1>7, <2>1 DEF Types
<1>11. Holding'
  <2> SUFFICES ASSUME NEW j \in DOMAIN book PROVE Holds(j)'
    BY <1>4 DEF Holding
  <2>1. Len(kernel) \in Nat /\ DOMAIN kernel = 1 .. Len(kernel)
    BY <1>1, KernelIs
  <2>2. CASE book'[j].manager = 0 /\ book'[j].client = 0
    BY <1>7, <2>1, <2>2 DEF Holds
  <2>3. CASE book'[j] = book[j]
    <3>1. Holds(j)
      BY <1>1 DEF Holding
    <3>2. book[j].manager # 0 => book[j].manager \in DOMAIN kernel
      BY <2>1, <3>1 DEF Holds
    <3> QED
      BY <1>7, <1>8, <2>3, <3>1, <3>2 DEF Holds
  <2> QED
    BY <1>4, <2>2, <2>3
<1>12. \A t \in Session : call'[t].at \in Lifecycle => t # s /\ call'[t] = call[t]
  BY <1>9
<1>13. i \notin hurt => /\ book[i].manager = k
                        /\ \A t \in Session : call[t].at \in Lifecycle /\ call[t].book = i => t = s
  <2>1. Handled(s)
    BY <1>1 DEF Kernels
  <2> QED
    BY <1>1, <2>1 DEF Handled, Lifecycle
<1>14. ASSUME NEW t \in Session PROVE Handled(t)'
  <2> SUFFICES ASSUME t # s, call[t].at \in Lifecycle, call[t].book \notin hurt'
               PROVE  /\ call[t].book \in Open'
                      /\ book'[call[t].book].manager =
                           IF call[t].at = "closing" THEN call[t].kernel ELSE 0
                      /\ \A r \in Session :
                           call'[r].at \in Lifecycle /\ call'[r].book = call[t].book => r = t
    BY <1>9, <1>12 DEF Handled
  <2>1. Handled(t) /\ call[t].book \notin hurt /\ call[t].book # i
    BY <1>1, <1>3, <1>13 DEF Kernels
  <2>2. /\ call[t].book \in Open
        /\ book[call[t].book].manager = IF call[t].at = "closing" THEN call[t].kernel ELSE 0
        /\ \A r \in Session : call[r].at \in Lifecycle /\ call[r].book = call[t].book => r = t
    BY <2>1 DEF Handled
  <2>3. call[t].book \in Open' /\ book'[call[t].book] = book[call[t].book]
    BY <1>4, <1>6, <2>1, <2>2
  <2> QED
    BY <1>12, <2>2, <2>3
<1>15. ASSUME NEW j \in Open' PROVE Clientless(j)'
  <2> SUFFICES ASSUME book'[j].manager # 0, book'[j].client = 0, j \notin hurt'
               PROVE  \E t \in Session : call'[t].at = "closing" /\ call'[t].book = j
    BY DEF Clientless
  <2>1. book'[j] = book[j] /\ j \in Open /\ j \notin hurt
    BY <1>3, <1>4
  <2>2. PICK t \in Session : call[t].at = "closing" /\ call[t].book = j
    BY <1>1, <2>1 DEF Kernels, Clientless
  <2>3. t # s
    BY <1>5, <2>2
  <2> QED
    BY <1>9, <2>2, <2>3
<1>16. KernelsOwned'
  <2> SUFFICES ASSUME NEW j \in DOMAIN kernel, kernel'[j] # 0, kernel'[j] \notin hurt'
               PROVE  \/ kernel'[j] \in Open' /\ book'[kernel'[j]].manager = j
                      \/ \E t \in Session : call'[t].at \in {"launching", "closing"} /\ call'[t].kernel = j
    BY <1>7 DEF KernelsOwned, Alive
  <2>1. j # k /\ kernel'[j] = kernel[j] /\ kernel[j] # 0
    BY <1>7
  <2>2. \/ kernel[j] \in Open /\ book[kernel[j]].manager = j
        \/ \E t \in Session : call[t].at \in {"launching", "closing"} /\ call[t].kernel = j
    BY <1>1, <1>3, <2>1 DEF Kernels, KernelsOwned, Alive
  <2>3. CASE kernel[j] \in Open /\ book[kernel[j]].manager = j
    <3>1. kernel[j] # i
      BY <1>3, <1>13, <2>1, <2>3
    <3>2. kernel[j] \in Open' /\ book'[kernel[j]] = book[kernel[j]]
      BY <1>4, <1>6, <2>1, <2>3, <3>1
    <3> QED
      BY <2>1, <2>3, <3>2
  <2>4. CASE \E t \in Session : call[t].at \in {"launching", "closing"} /\ call[t].kernel = j
    BY <1>9, <2>1, <2>4
  <2> QED
    BY <2>2, <2>3, <2>4
<1>17. Files'
  BY <1>1, <1>4, FewerFiles
<1> QED
  BY <1>4, <1>9, <1>10, <1>11, <1>14, <1>15, <1>16, <1>17 DEF Inv, Objects, Kernels

LEMMA CleanupEndsKeeps ==
  ASSUME Inv, NEW s \in Session, CleanupEnds(s)
  PROVE  Inv'
<1>1. /\ Types /\ Holding /\ Dictionary /\ CallsOK /\ Kernels /\ Files
      /\ UNCHANGED <<book, opened, current, kernel, hurt, unsaved>> /\ call[s].at = "cleaning"
      /\ file' = [p \in Path |-> IF p[1] = s THEN None ELSE file[p]]
      /\ strayed' = strayed \cup {p \in Path : p[1] = s}
      /\ gone' = gone \cup {s} /\ Answers(s)
  BY DEF Inv, Objects, CleanupEnds
<1>2. CallsOK' /\ call'[s] = Idle /\ \A t \in Session \ {s} : call'[t] = call[t]
  <2>1. \A j \in DOMAIN kernel : kernel'[j] \in {0, kernel[j]}
    BY <1>1
  <2> QED
    BY <1>1, <2>1, CallSet, IdleFits DEF Answers
<1>3. Types'
  <2>1. file' \in [Path -> {None} \cup Cells]
    BY <1>1 DEF Types
  <2> QED
    BY <1>1, <2>1 DEF Types
<1>4. Holding' /\ Dictionary' /\ Open' = Open
  <2>1. Open' = Open /\ OpenNames' = OpenNames
    BY <1>1 DEF Open, OpenNames
  <2>2. Dictionary'
    BY <1>1, <2>1 DEF Dictionary
  <2>3. Holding'
    BY <1>1 DEF Holding, Holds
  <2> QED
    BY <2>1, <2>2, <2>3
<1>5. Kernels'
  <2>1. \A t \in Session : SameHandling(t)
    BY <1>1, <1>2, IdleFits DEF SameHandling
  <2> QED
    BY <1>1, <2>1, KernelsStand
<1>6. Files'
  <2>1. OpenOnce'
    BY <1>1, <1>4 DEF Files, OpenOnce
  <2>2. ASSUME NEW j \in Open, book[j].path \notin strayed'
        PROVE  file'[book[j].path] = file[book[j].path] /\ book[j].path \notin strayed
    <3>1. book[j].path \in Path /\ book[j].path \notin strayed /\ book[j].path[1] # s
      BY <1>1, <2>2, Naming, BookIs
    <3> QED
      BY <1>1, <3>1
  <2>3. ASSUME NEW j \in Open PROVE InFile(j)'
    BY <1>1, <2>2 DEF Files, InFile
  <2>4. unsaved' \subseteq DOMAIN book'
    BY <1>1 DEF Files
  <2> QED
    BY <1>4, <2>1, <2>3, <2>4 DEF Files
<1> QED
  BY <1>2, <1>3, <1>4, <1>5, <1>6 DEF Inv, Objects

-----------------------------------------------------------------------------
(* Cells change and run *)

LEMMA CurrentIs ==
  ASSUME Types, Dictionary, HasCurrent
  PROVE  /\ Current \in Open /\ Current \in DOMAIN book
         /\ CellsOfCurrent = book[Current].cells /\ CellsOfCurrent \in Cells
         /\ DOMAIN CellsOfCurrent = 1 .. Len(CellsOfCurrent) /\ Len(CellsOfCurrent) \in Nat
<1>1. Current \in Open /\ Current \in DOMAIN book
  BY Naming
<1>2. CellsOfCurrent = book[Current].cells /\ CellsOfCurrent \in Cells
  BY <1>1, BookIs DEF CellsOfCurrent
<1> QED
  BY <1>1, <1>2, CellsAre

LEMMA CellOfCurrent ==
  ASSUME NEW p \in DOMAIN CellsOfCurrent
  PROVE  HasCurrent
<1>1. DOMAIN <<>> = {}
  OBVIOUS
<1> QED
  BY <1>1 DEF CellsOfCurrent

(* What a change of a notebook object's cells does to the manager's        *)
(* objects; only an open one changes.                                      *)
LEMMA InMemoryIs ==
  ASSUME Types, Holding, Dictionary, NEW i \in DOMAIN book, NEW cells \in Cells,
         InMemory(i, cells), UNCHANGED <<opened, current, kernel>>
  PROVE  /\ Holding' /\ Dictionary' /\ Open' = Open /\ Open \subseteq DOMAIN book
         /\ book' \in Seq(Book) /\ Len(book') = Len(book) /\ DOMAIN book' = DOMAIN book
         /\ \A j \in DOMAIN book : /\ book'[j].name = book[j].name /\ book'[j].path = book[j].path
                                   /\ book'[j].manager = book[j].manager
                                   /\ book'[j].client = book[j].client
                                   /\ book'[j].cells \in Cells
                                   /\ j # i \/ i \notin Open => book'[j] = book[j]
<1>1. /\ book' = (IF i \in Open THEN [book EXCEPT ![i].cells = cells] ELSE book)
      /\ book \in Seq(Book) /\ Open \subseteq DOMAIN book
  BY Naming DEF InMemory, Types
<1>2. /\ book' \in Seq(Book) /\ Len(book') = Len(book) /\ DOMAIN book' = DOMAIN book
      /\ \A j \in DOMAIN book : /\ book'[j].name = book[j].name /\ book'[j].path = book[j].path
                                /\ book'[j].manager = book[j].manager
                                /\ book'[j].client = book[j].client
                                /\ book'[j].cells \in Cells
                                /\ j # i \/ i \notin Open => book'[j] = book[j]
  <2>1. \A j \in DOMAIN book : j # i \/ i \notin Open => book'[j] = book[j]
    BY <1>1
  <2>2. book[i] \in Book
    BY BookIs
  <2>3. i \in Open => book'[i] = [book[i] EXCEPT !.cells = cells]
    BY <1>1
  <2>4. i \in Open => book'[i] \in Book
    BY <2>2, <2>3 DEF Book
  <2>5. i \in Open => /\ book'[i].name = book[i].name /\ book'[i].path = book[i].path
                      /\ book'[i].manager = book[i].manager
                      /\ book'[i].client = book[i].client
    BY <2>2, <2>3 DEF Book
  <2>6. \A j \in DOMAIN book : book'[j] \in Book
    BY <2>1, <2>4, BookIs
  <2>7. book' = [j \in DOMAIN book |-> book'[j]]
    <3>1. book = [j \in DOMAIN book |-> book[j]]
      BY <1>1
    <3>2. CASE i \in Open
      BY <1>1, <3>2
    <3>3. CASE i \notin Open
      BY <1>1, <3>1, <3>3
    <3> QED
      BY <3>2, <3>3
  <2>8. book' \in Seq(Book) /\ Len(book') = Len(book) /\ DOMAIN book' = DOMAIN book
    BY <1>1, <2>6, <2>7, Rewriting
  <2>9. \A j \in DOMAIN book : book'[j].cells \in Cells
    BY <2>6 DEF Book
  <2> QED
    BY <2>1, <2>5, <2>8, <2>9
<1>3. Dictionary' /\ Open' = Open
  BY <1>1, <1>2, DictionaryStands
<1>4. Holding'
  BY <1>2 DEF Holding, Holds
<1> QED
  BY <1>1, <1>2, <1>3, <1>4

(* Files that are open once stay open once when only cells change.         *)
LEMMA OnceStands ==
  ASSUME Files, Open' = Open, UNCHANGED strayed,
         \A j \in Open : book'[j].path = book[j].path
  PROVE  OpenOnce'
BY DEF Files, OpenOnce

(* The change is saved under the notebook's name: to its own file while it *)
(* is open, else to the file of the one that has the name, which then      *)
(* holds that one's cells.                                                 *)
LEMMA Changing ==
  ASSUME Types, Holding, Dictionary, Files, NEW i \in DOMAIN book, NEW cells \in Cells,
         Change(i, cells), UNCHANGED <<opened, current, kernel, gone, hurt, strayed>>
  PROVE  /\ Types' /\ Holding' /\ Dictionary' /\ Files' /\ DOMAIN book' = DOMAIN book
         /\ \A j \in Open : book'[j].manager = book[j].manager /\ book'[j].client = book[j].client
<1>1. InMemory(i, cells) /\ Save(book[i].name)
  BY DEF Change
<1>2. /\ Holding' /\ Dictionary' /\ Open' = Open /\ Open \subseteq DOMAIN book
      /\ book' \in Seq(Book) /\ Len(book') = Len(book) /\ DOMAIN book' = DOMAIN book
      /\ \A j \in DOMAIN book : /\ book'[j].name = book[j].name /\ book'[j].path = book[j].path
                                /\ book'[j].manager = book[j].manager
                                /\ book'[j].client = book[j].client
                                /\ book'[j].cells \in Cells
                                /\ j # i \/ i \notin Open => book'[j] = book[j]
  BY <1>1, InMemoryIs
<1>3. \A j, k \in Open : j # k /\ book[j].path \notin strayed => book[j].path # book[k].path
  BY DEF Files, OpenOnce
<1>4. OpenOnce'
  BY <1>2, OnceStands
<1>5. /\ file' \in [Path -> {None} \cup Cells] /\ unsaved' \subseteq DOMAIN book
      /\ \A l \in Open : InFile(l)'
  <2>1. CASE book[i].name \in OpenNames /\ Savable(Named(book[i].name))
    <3> PICK j \in Open : j = Named(book[i].name)
      BY <2>1, Naming
    <3>1. file' = [file EXCEPT ![book[j].path] = book'[j].cells] /\ unsaved' = unsaved \ {j}
      BY <1>1, <2>1 DEF Save
    <3>2. i \in Open => j = i
      BY Naming
    <3>3. book[j].path \in Path /\ book'[j].cells \in Cells /\ book'[j].cells # None
      BY <1>2, BookIs, CellsAre
    <3>4. file' \in [Path -> {None} \cup Cells] /\ unsaved' \subseteq DOMAIN book
      BY <3>1, <3>3 DEF Types, Files
    <3>5. ASSUME NEW l \in Open, book[l].path \notin strayed
          PROVE  /\ file'[book[l].path] # None
                 /\ l \in unsaved' \/ file'[book[l].path] = book'[l].cells
      <4>1. CASE l = j
        BY <3>1, <3>3, <4>1 DEF Types
      <4>2. CASE l # j
        <5>1. book[l].path # book[j].path /\ book[l].path \in Path
          BY <1>2, <1>3, <3>5, <4>2, BookIs
        <5>2. file'[book[l].path] = file[book[l].path]
          BY <3>1, <5>1 DEF Types
        <5>3. book'[l] = book[l] /\ InFile(l)
          BY <1>2, <3>2, <4>2 DEF Files
        <5> QED
          BY <3>1, <3>5, <4>2, <5>2, <5>3 DEF InFile
      <4> QED
        BY <4>1, <4>2
    <3>6. \A l \in Open : InFile(l)'
      BY <1>2, <3>5 DEF InFile
    <3> QED
      BY <3>4, <3>6
  <2>2. CASE ~(book[i].name \in OpenNames /\ Savable(Named(book[i].name)))
    <3>1. file' = file /\ unsaved' = unsaved
      BY <1>1, <2>2 DEF Save
    <3>2. ASSUME NEW l \in Open, book[l].path \notin strayed
          PROVE  book'[l] = book[l]
      <4>1. l # i
        BY <2>2, <3>2, CanBeSaved, Naming
      <4> QED
        BY <1>2, <4>1
    <3>3. ASSUME NEW l \in Open PROVE InFile(l)'
      <4>1. InFile(l) /\ book'[l].path = book[l].path
        BY <1>2 DEF Files
      <4> QED
        BY <3>1, <3>2, <4>1 DEF InFile
    <3> QED
      BY <3>1, <3>3 DEF Types, Files
  <2> QED
    BY <2>1, <2>2
<1>6. Types'
  BY <1>2, <1>5 DEF Types
<1>7. Files'
  BY <1>2, <1>4, <1>5 DEF Files
<1> QED
  BY <1>2, <1>6, <1>7

(* A deletion that breaks off changes the current notebook in memory; its  *)
(* file is there and waits for the next save.                              *)
LEMMA Breaking ==
  ASSUME Types, Holding, Dictionary, Files, NEW i \in DOMAIN book, NEW cells \in Cells,
         InMemory(i, cells), unsaved' = unsaved \cup {i},
         UNCHANGED <<opened, current, file, kernel, gone, hurt, strayed>>
  PROVE  /\ Types' /\ Holding' /\ Dictionary' /\ Files' /\ DOMAIN book' = DOMAIN book
         /\ \A j \in Open : book'[j].manager = book[j].manager /\ book'[j].client = book[j].client
<1>1. /\ Holding' /\ Dictionary' /\ Open' = Open /\ Open \subseteq DOMAIN book
      /\ book' \in Seq(Book) /\ Len(book') = Len(book) /\ DOMAIN book' = DOMAIN book
      /\ \A j \in DOMAIN book : /\ book'[j].name = book[j].name /\ book'[j].path = book[j].path
                                /\ book'[j].manager = book[j].manager
                                /\ book'[j].client = book[j].client
                                /\ book'[j].cells \in Cells
                                /\ j # i \/ i \notin Open => book'[j] = book[j]
  BY InMemoryIs
<1>2. OpenOnce'
  BY <1>1, OnceStands
<1>3. ASSUME NEW l \in Open PROVE InFile(l)'
  <2>1. InFile(l) /\ book'[l].path = book[l].path
    BY <1>1 DEF Files
  <2>2. l \in unsaved' \/ (l \notin unsaved /\ book'[l] = book[l])
    BY <1>1
  <2> QED
    BY <2>1, <2>2 DEF InFile
<1>4. Types'
  BY <1>1 DEF Types
<1>5. Files'
  BY <1>1, <1>2, <1>3 DEF Files
<1> QED
  BY <1>1, <1>4, <1>5

(* A tool that changes a notebook and answers.                             *)
LEMMA ChangeKeeps ==
  ASSUME Inv, NEW s \in Session, call[s].at \in {"prepared", "running"}, Answers(s),
         NEW i \in DOMAIN book, NEW cells \in Cells, Change(i, cells),
         UNCHANGED <<opened, current, kernel, gone, hurt, strayed>>
  PROVE  Inv'
<1>1. /\ Types /\ Holding /\ Dictionary /\ CallsOK /\ Kernels /\ Files
      /\ UNCHANGED <<opened, current, kernel, gone, hurt, strayed>>
  BY DEF Inv, Objects
<1>2. /\ Types' /\ Holding' /\ Dictionary' /\ Files' /\ DOMAIN book' = DOMAIN book
      /\ \A j \in Open : book'[j].manager = book[j].manager /\ book'[j].client = book[j].client
  BY <1>1, Changing
<1>3. CallsOK' /\ call'[s] = Idle /\ \A t \in Session \ {s} : call'[t] = call[t]
  <2>1. \A j \in DOMAIN kernel : kernel'[j] \in {0, kernel[j]}
    BY <1>1
  <2> QED
    BY <1>1, <1>2, <2>1, CallSet, IdleFits DEF Answers
<1>4. \A t \in Session : SameHandling(t)
  BY <1>3, IdleFits DEF SameHandling
<1> QED
  BY <1>1, <1>2, <1>3, <1>4, KernelsStand DEF Inv, Objects

LEMMA EditKeeps ==
  ASSUME Inv, NEW s \in Session,
         \/ \E c \in Cell, p \in 1 .. Len(CellsOfCurrent) + 1 : InsertCell(s, c, p)
         \/ \E p, q \in DOMAIN CellsOfCurrent : MoveCell(s, p, q)
         \/ \E p \in DOMAIN CellsOfCurrent : EditCell(s, p)
  PROVE  Inv'
<1>1. Types /\ Dictionary
  BY DEF Inv, Objects
<1>2. HasCurrent
  BY CellOfCurrent DEF InsertCell, MoveCell, EditCell
<1>3. /\ Current \in DOMAIN book /\ CellsOfCurrent \in Cells
      /\ DOMAIN CellsOfCurrent = 1 .. Len(CellsOfCurrent) /\ Len(CellsOfCurrent) \in Nat
  BY <1>1, <1>2, CurrentIs
<1>4. \E cells \in Cells : Change(Current, cells) /\ Edit(s)
  <2>1. ASSUME NEW c \in Cell, NEW p \in 1 .. Len(CellsOfCurrent) + 1, InsertCell(s, c, p)
        PROVE  \E cells \in Cells : Change(Current, cells) /\ Edit(s)
    <3> PICK e \in CellState : e = [id |-> c, out |-> None]
      BY DEF CellState
    <3>1. InsertAt(CellsOfCurrent, p, e) \in Cells
      BY <1>3, <2>1, CellsInsert DEF InsertCell
    <3> QED
      BY <2>1, <3>1 DEF InsertCell
  <2>2. ASSUME NEW p \in DOMAIN CellsOfCurrent, NEW q \in DOMAIN CellsOfCurrent, MoveCell(s, p, q)
        PROVE  \E cells \in Cells : Change(Current, cells) /\ Edit(s)
    <3> PICK e : e = CellsOfCurrent[p]
      OBVIOUS
    <3> PICK rest : rest = RemoveAt(CellsOfCurrent, p)
      OBVIOUS
    <3>1. e \in CellState /\ e.out \in {None, e.id}
      BY <1>3, CellsAre
    <3>2. rest \in Cells /\ Len(rest) = Len(CellsOfCurrent) - 1 /\ e.id \notin Ids(rest)
      BY <1>3, CellsRemove
    <3>3. q \in 1 .. Len(rest) + 1
      BY <1>3, <3>2
    <3>4. InsertAt(rest, q, e) \in Cells
      BY <3>1, <3>2, <3>3, CellsInsert
    <3> QED
      BY <2>2, <3>4 DEF MoveCell
  <2>3. ASSUME NEW p \in DOMAIN CellsOfCurrent, EditCell(s, p)
        PROVE  \E cells \in Cells : Change(Current, cells) /\ Edit(s)
    BY <1>3, <2>3 DEF EditCell
  <2> QED
    BY <2>1, <2>2, <2>3
<1> QED
  BY <1>3, <1>4, ChangeKeeps DEF Edit

(* The outputs of a run come when the notebook may have changed, or may be *)
(* gone: they go to the cell that was run, or nowhere.                     *)
LEMMA RunKeeps ==
  ASSUME Inv, NEW s \in Session, RunReturns(s) \/ DeadlineFires(s)
  PROVE  Inv'
<1> PICK c : c = call[s].cell
  OBVIOUS
<1> PICK i : i = call[s].book
  OBVIOUS
<1>1. \E out \in {c, None} : RunEnds(s, out)
  BY DEF RunReturns, DeadlineFires
<1> PICK out \in {c, None} : RunEnds(s, out)
  BY <1>1
<1>2. Types /\ CallsOK /\ call[s].at = "running" /\ Answers(s)
      /\ UNCHANGED <<opened, current, kernel, gone, hurt, strayed>>
  BY DEF Inv, Objects, RunEnds
<1>3. call[s] \in Running /\ i \in DOMAIN book /\ c \in Cell \cup {Removed, None}
  BY <1>2 DEF CallsOK, Fits, Running, CellRef
<1>4. CASE c = None
  <2>1. UNCHANGED <<book, file, unsaved>>
    BY <1>4 DEF RunEnds
  <2>2. UNCHANGED <<book, opened, current, file, kernel, gone, ghosts>>
    BY <1>2, <2>1 DEF ghosts
  <2> QED
    BY <1>2, <2>2, IdleFits, CallGoesOn DEF Answers
<1>5. CASE c # None
  <2> PICK index : index = call[s].index
    OBVIOUS
  <2>1. Change(i, WithOutputs(book[i].cells, c, index, out))
    BY <1>5 DEF RunEnds
  <2>2. book[i].cells \in Cells /\ c \in Cell \cup {Removed}
    BY <1>2, <1>3, <1>5, BookIs
  <2>3. WithOutputs(book[i].cells, c, index, out) \in Cells
    BY <2>2, CellsRun
  <2> QED
    BY <1>2, <1>3, <2>1, <2>3, ChangeKeeps
<1> QED
  BY <1>4, <1>5

(* What a deletion does to the calls: those that run a cell that goes keep *)
(* it, and nothing they refer to changes.                                  *)
LEMMA DeleteKeeps ==
  ASSUME Inv, NEW s \in Session, NEW D, Delete(s, D),
         Types', Holding', Dictionary', Files', DOMAIN book' = DOMAIN book,
         \A j \in Open : /\ book'[j].manager = book[j].manager
                         /\ book'[j].client = book[j].client
  PROVE  Inv'
<1>1. /\ Types /\ Holding /\ Dictionary /\ CallsOK /\ Kernels /\ Files
      /\ UNCHANGED <<opened, current, kernel, gone, hurt, strayed>> /\ call[s].at = "prepared"
  BY DEF Inv, Objects, Delete
<1>2. /\ Types' /\ Holding' /\ Dictionary' /\ Files' /\ DOMAIN book' = DOMAIN book
      /\ \A j \in Open : book'[j].manager = book[j].manager /\ book'[j].client = book[j].client
  OBVIOUS
<1>3. /\ call' = [t \in Session |-> call'[t]]
      /\ \A t \in Session : \/ call'[t] = call[t]
                            \/ t = s /\ call'[t] = Idle
                            \/ /\ call[t].at \in {"resolving", "launching", "running"}
                               /\ call'[t] = [call[t] EXCEPT !.cell = Removed]
  BY DEF Delete
<1>4. ASSUME NEW t \in Session, call[t].at \in {"resolving", "launching", "running"},
             call'[t] = [call[t] EXCEPT !.cell = Removed]
      PROVE  /\ Fits(call[t])' /\ call'[t].at = call[t].at /\ call'[t].book = call[t].book
             /\ call[t].at = "launching" => call'[t].kernel = call[t].kernel
  <2> PICK c : c = call[t]
    OBVIOUS
  <2> PICK w : w = [c EXCEPT !.cell = Removed]
    OBVIOUS
  <2>1. /\ Fits(c) /\ Removed \in CellRef
    BY <1>1 DEF CallsOK, CellRef
  <2>2. c.at = "resolving" => w \in Resolving /\ w.at = c.at /\ w.book = c.book
    BY <2>1 DEF Fits, Resolving
  <2>3. c.at = "launching" => /\ w \in Launching /\ w.at = c.at /\ w.book = c.book
                              /\ w.kernel = c.kernel
    BY <2>1 DEF Fits, Launching
  <2>4. c.at = "running" => w \in Running /\ w.at = c.at /\ w.book = c.book
    BY <2>1 DEF Fits, Running
  <2>5. Fits(w)
    BY <1>4, <2>1, <2>2, <2>3, <2>4 DEF Fits
  <2>6. Fits(w)'
    BY <1>1, <1>2, <2>5 DEF Fits, Resolving, Launching, Running
  <2>7. call'[t] = w
    BY <1>4
  <2>8. Fits(call[t])'
    BY <2>6, <2>7
  <2> QED
    BY <1>4, <2>2, <2>3, <2>4, <2>7, <2>8
<1>5. CallsOK'
  <2>1. ASSUME NEW t \in Session PROVE Fits(call[t])'
    <3> PICK w : w = call'[t]
      OBVIOUS
    <3>1. CASE w = call[t]
      <4>1. Fits(w)
        BY <1>1, <3>1 DEF CallsOK
      <4> QED
        BY <1>1, <1>2, <4>1 DEF Fits, Resolving, Launching, Running
    <3>2. CASE w = Idle
      BY <3>2, IdleFits
    <3> QED
      BY <1>3, <1>4, <3>1, <3>2
  <2> QED
    BY <1>3, <2>1 DEF CallsOK
<1>6. ASSUME NEW t \in Session PROVE SameHandling(t)
  <2>1. CASE call'[t] = call[t]
    BY <2>1 DEF SameHandling
  <2>2. CASE t = s /\ call'[t] = Idle
    BY <1>1, <2>2, IdleFits DEF SameHandling
  <2>3. CASE /\ call[t].at \in {"resolving", "launching", "running"}
             /\ call'[t] = [call[t] EXCEPT !.cell = Removed]
    BY <1>4, <2>3 DEF SameHandling
  <2> QED
    BY <1>3, <2>1, <2>2, <2>3
<1>7. Kernels'
  BY <1>1, <1>2, <1>6, KernelsStand
<1> QED
  BY <1>2, <1>5, <1>7 DEF Inv, Objects

LEMMA DeletionsKeep ==
  ASSUME Inv, NEW s \in Session,
         \/ \E D \in SUBSET DOMAIN CellsOfCurrent : DeleteCells(s, D)
         \/ \E p \in DOMAIN CellsOfCurrent : DeleteBreaks(s, p)
  PROVE  Inv'
<1>1. /\ Types /\ Holding /\ Dictionary /\ Files /\ HasCurrent
      /\ UNCHANGED <<opened, current, kernel, gone, hurt, strayed>>
  BY DEF Inv, Objects, DeleteCells, DeleteBreaks, Delete
<1>2. /\ Current \in DOMAIN book /\ CellsOfCurrent \in Cells
      /\ DOMAIN CellsOfCurrent = 1 .. Len(CellsOfCurrent)
  BY <1>1, CurrentIs
<1>3. ASSUME NEW D \in SUBSET DOMAIN CellsOfCurrent, DeleteCells(s, D)
      PROVE  Inv'
  <2> PICK cells \in Remaining(CellsOfCurrent, D) : Change(Current, cells)
    BY <1>3 DEF DeleteCells
  <2>1. cells \in Cells
    BY <1>2, CellsRemain
  <2>2. /\ Types' /\ Holding' /\ Dictionary' /\ Files' /\ DOMAIN book' = DOMAIN book
        /\ \A j \in Open : book'[j].manager = book[j].manager /\ book'[j].client = book[j].client
    BY <1>1, <1>2, <2>1, Changing
  <2> QED
    BY <1>3, <2>2, DeleteKeeps DEF DeleteCells
<1>4. ASSUME NEW p \in DOMAIN CellsOfCurrent, DeleteBreaks(s, p)
      PROVE  Inv'
  <2> PICK cells : cells = SubSeq(CellsOfCurrent, 1, p - 1)
    OBVIOUS
  <2>1. cells \in Cells
    BY <1>2, CellsBefore
  <2>2. InMemory(Current, cells) /\ unsaved' = unsaved \cup {Current} /\ UNCHANGED file
    BY <1>4 DEF DeleteBreaks
  <2>3. /\ Types' /\ Holding' /\ Dictionary' /\ Files' /\ DOMAIN book' = DOMAIN book
        /\ \A j \in Open : book'[j].manager = book[j].manager /\ book'[j].client = book[j].client
    BY <1>1, <1>2, <2>1, <2>2, Breaking
  <2> QED
    BY <1>4, <2>3, DeleteKeeps DEF DeleteBreaks
<1> QED
  BY <1>3, <1>4

LEMMA ExecuteKeeps ==
  ASSUME Inv, NEW s \in Session, NEW c \in CellRef, NEW p \in Nat, Execute(s, c, p)
  PROVE  Inv'
<1>1. /\ Types /\ Holding /\ Dictionary /\ CallsOK /\ Kernels /\ Files
      /\ UNCHANGED <<book, opened, current, file, kernel, gone, strayed, unsaved>>
      /\ call[s].at = "prepared" /\ HasCurrent
  BY DEF Inv, Objects, Execute
<1> PICK i \in Open : i = Current
  BY <1>1, CurrentIs
<1>2. i \in DOMAIN book /\ book[i].client \in Nat
  BY <1>1, Naming, BookIs
<1>3. CASE Run(s, i, book[i].client, c, p) /\ UNCHANGED hurt
  <2> PICK w : w = [at |-> "running", book |-> i, kernel |-> book[i].client, cell |-> c, index |-> p]
    OBVIOUS
  <2>1. w \in Running'
    BY <1>1, <1>2 DEF Running
  <2>2. Fits(w)' /\ w.at \notin Lifecycle
    BY <2>1 DEF Fits, Lifecycle
  <2>3. Does(s, w)
    BY <1>3 DEF Run
  <2>4. UNCHANGED <<book, opened, current, file, kernel, gone, ghosts>>
    BY <1>1, <1>3 DEF ghosts
  <2> QED
    BY <1>1, <2>2, <2>3, <2>4, CallGoesOn
<1>4. CASE ~KernelAlive(i) /\ Start(s, i, "run", c, p)
  <2>1. Types' /\ Holding' /\ Dictionary'
    BY <1>1, ObjectsStand
  <2>2. Files'
    BY <1>1, FilesStand
  <2>3. CallsOK' /\ Kernels'
    <3>1. Open' = Open
      BY <1>1 DEF Open
    <3> QED
      BY <1>1, <1>2, <1>4, <3>1, StartKeeps
  <2> QED
    BY <2>1, <2>2, <2>3 DEF Inv, Objects
<1> QED
  BY <1>3, <1>4 DEF Execute

-----------------------------------------------------------------------------
(* The invariant *)

LEMMA InitInv == Init => Inv
<1> SUFFICES ASSUME Init PROVE Inv
  OBVIOUS
<1>1. /\ book = <<>> /\ opened = <<>> /\ current = None /\ kernel = <<>>
      /\ file = [p \in Path |-> None] /\ call = [s \in Session |-> Idle]
      /\ gone = {} /\ hurt = {} /\ strayed = {} /\ unsaved = {}
  BY DEF Init
<1>2. /\ \A S : <<>> \in Seq(S)
      /\ Len(<<>>) = 0 /\ DOMAIN <<>> = {} /\ \A i \in 1 .. 0 : FALSE
  OBVIOUS
<1>3. Types
  <2>1. file \in [Path -> {None} \cup Cells]
    BY <1>1
  <2> QED
    BY <1>1, <1>2, <2>1, BoundsAssumption DEF Types
<1>4. Open = {}
  BY <1>1, <1>2 DEF Open, ToSet
<1>5. Dictionary
  BY <1>1, <1>2 DEF Dictionary
<1>6. Holding
  BY <1>1, <1>2 DEF Holding
<1>7. \A s \in Session : call[s] = Idle
  BY <1>1
<1>8. CallsOK
  <2>1. Fits(Idle)
    BY DEF Fits, Idle
  <2> QED
    BY <1>1, <1>7, <2>1 DEF CallsOK
<1>9. Kernels
  BY <1>1, <1>2, <1>4, <1>7, IdleFits DEF Kernels, Handled, KernelsOwned
<1>10. Files
  BY <1>1, <1>4 DEF Files, OpenOnce
<1> QED
  BY <1>3, <1>5, <1>6, <1>8, <1>9, <1>10 DEF Inv, Objects

LEMMA StandsStill == Inv /\ UNCHANGED vars => Inv'
<1> SUFFICES ASSUME Inv, UNCHANGED vars PROVE Inv'
  OBVIOUS
<1>1. /\ Types /\ Holding /\ Dictionary /\ CallsOK /\ Kernels /\ Files
      /\ UNCHANGED <<book, opened, current, file, kernel, call, gone, hurt, strayed, unsaved>>
  BY DEF Inv, Objects, vars
<1>2. Types' /\ Holding' /\ Dictionary' /\ Files'
  BY <1>1, ObjectsStand, FilesStand
<1>3. CallsOK'
  BY <1>1 DEF CallsOK, Fits, Resolving, Launching, Running
<1>4. Kernels'
  <2>1. \A s \in Session : SameHandling(s)
    BY <1>1 DEF SameHandling
  <2> QED
    BY <1>1, <2>1, KernelsStand
<1> QED
  BY <1>2, <1>3, <1>4 DEF Inv, Objects

LEMMA ToolKeeps ==
  ASSUME Inv, NEW s \in Session, Tool(s)
  PROVE  Inv'
<1>1. CASE NothingToDo(s)
  BY <1>1, AnswerKeeps
<1>2. CASE ExecuteCode(s)
  <2>1. None \in CellRef /\ 0 \in Nat
    BY DEF CellRef
  <2> QED
    BY <1>2, <2>1, ExecuteKeeps DEF ExecuteCode
<1>3. CASE \E n \in Name : OpenAgain(s, n)
  BY <1>3, OpenAgainKeeps
<1>4. CASE \E n \in Name : CloseNotebook(s, n)
  BY <1>4, CloseKeeps DEF CloseNotebook
<1>5. CASE \E f \in File, n \in Name : OpenNotebook(s, f, n)
  BY <1>5, OpenNotebookKeeps
<1>6. CASE \/ \E D \in SUBSET DOMAIN CellsOfCurrent : DeleteCells(s, D)
           \/ \E p \in DOMAIN CellsOfCurrent : DeleteBreaks(s, p)
  BY <1>6, DeletionsKeep
<1>7. CASE \E p \in DOMAIN CellsOfCurrent : ExecuteCell(s, p)
  <2> PICK p \in DOMAIN CellsOfCurrent : Execute(s, CellsOfCurrent[p].id, p)
    BY <1>7 DEF ExecuteCell
  <2>1. Types /\ Dictionary /\ HasCurrent
    BY CellOfCurrent DEF Inv, Objects
  <2>2. CellsOfCurrent \in Cells /\ p \in 1 .. Len(CellsOfCurrent)
    BY <2>1, CurrentIs
  <2>3. CellsOfCurrent[p].id \in CellRef /\ p \in Nat
    <3>1. CellsOfCurrent[p] \in CellState
      BY <2>2, CellsAre
    <3> QED
      BY <2>2, <3>1 DEF CellState, CellRef
  <2> QED
    BY <2>3, ExecuteKeeps
<1>8. CASE \/ \E c \in Cell, p \in 1 .. Len(CellsOfCurrent) + 1 : InsertCell(s, c, p)
           \/ \E p, q \in DOMAIN CellsOfCurrent : MoveCell(s, p, q)
           \/ \E p \in DOMAIN CellsOfCurrent : EditCell(s, p)
  BY <1>8, EditKeeps
<1> QED
  BY <1>1, <1>2, <1>3, <1>4, <1>5, <1>6, <1>7, <1>8 DEF Tool

LEMMA StepInv == Inv /\ [Next]_vars => Inv'
<1> SUFFICES ASSUME Inv, Next PROVE Inv'
  BY StandsStill
<1> PICK s \in Session : Begin(s) \/ CleanupBegins(s) \/ Continues(s) \/ Interrupted(s)
  BY DEF Next
<1>1. CASE Begin(s)
  BY <1>1, BeginKeeps
<1>2. CASE CleanupBegins(s)
  BY <1>2, CleanupBeginsKeeps
<1>3. CASE Interrupted(s) \/ NotReady(s)
  BY <1>3, InterruptedKeeps
<1>4. CASE Tool(s)
  BY <1>4, ToolKeeps
<1>5. CASE Launch(s)
  BY <1>5, LaunchKeeps
<1>6. CASE StartFails(s) \/ CleanupFails(s)
  BY <1>6, AnswerKeeps
<1>7. CASE Ready(s)
  BY <1>7, ReadyKeeps
<1>8. CASE CloseReturns(s)
  BY <1>8, CloseReturnsKeeps
<1>9. CASE CleanupNext(s)
  BY <1>9, CloseKeeps DEF CleanupNext
<1>10. CASE CleanupEnds(s)
  BY <1>10, CleanupEndsKeeps
<1>11. CASE RunReturns(s) \/ DeadlineFires(s)
  BY <1>11, RunKeeps
<1> QED
  BY <1>1, <1>2, <1>3, <1>4, <1>5, <1>6, <1>7, <1>8, <1>9, <1>10, <1>11 DEF Continues

(* The inductive invariant: what the manager's objects are, who handles    *)
(* the kernel of which notebook, and what the files hold.                  *)
THEOREM InvHolds == Spec => []Inv
<1>1. Init => Inv
  BY InitInv
<1>2. Inv /\ [Next]_vars => Inv'
  BY StepInv
<1> QED
  BY <1>1, <1>2, PTL DEF Spec

(* The dictionary names every open notebook once and the current one, and  *)
(* no notebook has a cell id twice, whatever the calls of the sessions     *)
(* interleave.                                                             *)
THEOREM NotebookTypes == Spec => []TypeOK
<1>1. Inv => TypeOK
  <2> SUFFICES ASSUME Inv PROVE TypeOK
    OBVIOUS
  <2>1. Types /\ Holding /\ Dictionary /\ unsaved \subseteq DOMAIN book
    BY DEF Inv, Objects, Files
  <2>2. ASSUME NEW i \in DOMAIN book
        PROVE  /\ book[i].name \in Name /\ book[i].path \in Path
               /\ book[i].manager \in 0 .. Len(kernel) /\ book[i].client \in 0 .. Len(kernel)
               /\ book[i].cells \in Seq(CellState)
               /\ IsInjective([p \in DOMAIN book[i].cells |-> book[i].cells[p].id])
    <3>1. book[i].name \in Name /\ book[i].path \in Path /\ book[i].cells \in Cells
      BY <2>1, BookIs
    <3>2. IsInjective([p \in DOMAIN book[i].cells |-> book[i].cells[p].id])
      BY <3>1, CellsAre DEF IsInjective
    <3>3. book[i].cells \in Seq(CellState)
      BY <3>1, CellsAre
    <3> QED
      BY <2>1, <3>1, <3>2, <3>3 DEF Holding, Holds
  <2>3. opened \in Seq(DOMAIN book) /\ IsInjective([p \in DOMAIN opened |-> book[opened[p]].name])
    <3>1. /\ opened \in Seq(DOMAIN book) /\ DOMAIN opened = 1 .. Len(opened)
          /\ \A p, q \in 1 .. Len(opened) : book[opened[p]].name = book[opened[q]].name => p = q
      BY <2>1 DEF Dictionary
    <3> QED
      BY <3>1 DEF IsInjective
  <2>4. OpenNames = {book[opened[p]].name : p \in DOMAIN opened}
    BY DEF OpenNames, Open, ToSet
  <2>5. \A p \in Path : file[p] = None \/ file[p] \in Seq(CellState)
    BY <2>1, CellsAre DEF Types
  <2>6. kernel \in Seq(0 .. Len(book))
    BY <2>1 DEF Types
  <2> QED
    BY <2>1, <2>2, <2>3, <2>4, <2>5, <2>6 DEF TypeOK, Types, Dictionary
<1> QED
  BY <1>1, InvHolds, PTL

(* No kernel process is lost by calls that interleave: while it runs it is *)
(* its open notebook's, or a call is starting or stopping it, unless two   *)
(* calls started or stopped it at once or one was cut short.               *)
THEOREM KernelsHaveOwners == Spec => []KernelsOwned
<1>1. Inv => KernelsOwned
  BY DEF Inv, Kernels
<1> QED
  BY <1>1, InvHolds, PTL

(* The file of an open notebook holds what the manager has in memory,      *)
(* whatever runs end late and whatever has their notebook's name by then,  *)
(* unless it was open under two names or its directory was removed, or a   *)
(* deletion of cells broke off and nothing was saved since.                *)
THEOREM FilesFollow == Spec => []FileFollowsMemory
<1>1. Inv => FileFollowsMemory
  BY DEF Inv, Files, InFile, FileFollowsMemory
<1> QED
  BY <1>1, InvHolds, PTL

(* The outputs in a cell come from a run of that cell, even if cells were  *)
(* moved, inserted or deleted while it ran.                                *)
THEOREM OutputsStay == Spec => []OutputsOfItsCell
<1>1. Inv => OutputsOfItsCell
  <2> SUFFICES ASSUME Inv, NEW i \in DOMAIN book, NEW p \in DOMAIN book[i].cells
               PROVE  book[i].cells[p].out \in {None, book[i].cells[p].id}
    BY DEF OutputsOfItsCell
  <2>1. book[i].cells \in Cells
    BY BookIs DEF Inv, Objects
  <2> QED
    BY <2>1, CellsAre
<1> QED
  BY <1>1, InvHolds, PTL
=============================================================================
