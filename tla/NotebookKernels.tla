-------------------------- MODULE NotebookKernels --------------------------
(***************************************************************************)
(* The notebook manager: one object for all sessions, with the open        *)
(* notebooks, the current one and their kernel processes.  A tool call     *)
(* suspends while a kernel starts, runs a cell or stops, and the calls of  *)
(* other sessions use the same manager meanwhile.                          *)
(***************************************************************************)
EXTENDS Naturals, FiniteSets, Sequences, SequencesExt

CONSTANTS
    Session,    \* independent sessions, each with a directory of its own
    File,       \* names of notebook files
    Name,       \* names of open notebooks
    Cell,       \* cell ids
    MaxOpens,   \* bound: notebooks ever opened
    MaxKernels, \* bound: kernels ever started
    Removed,    \* stands for a cell that is in no notebook any more
    None

ASSUME BoundsAssumption == MaxOpens \in Nat /\ MaxKernels \in Nat

VARIABLES
    book,     \* every notebook object ever opened
    opened,   \* the manager's dictionary, in insertion order: indexes into book
    current,  \* name of the current notebook
    file,     \* the notebook files: the saved cells
    kernel,   \* every kernel ever started: the notebook object it is for, 0 when it has ended
    call,     \* what the tool call of each session does
    gone,     \* sessions that were deleted
    hurt,     \* notebook objects two calls started or stopped at once, or one abandoned
    strayed,  \* files open under two names at once, or removed with their session
    unsaved   \* notebook objects a deletion of cells left changed and not saved

vars == <<book, opened, current, file, kernel, call, gone, hurt, strayed, unsaved>>
ghosts == <<hurt, strayed, unsaved>>

Path == Session \X File
CellState == [id: Cell, out: Cell \cup {Removed, None}] \* out: the cell whose source gave the outputs

ASSUME NoneAssumption ==
    /\ None \notin Name \cup Cell /\ None \notin Seq(CellState)
    /\ Removed \notin Cell \cup {None}

Idle == [at |-> "idle"]

TypeOK ==
    /\ Len(book) <= MaxOpens /\ Len(kernel) <= MaxKernels
    /\ \A i \in DOMAIN book :
          /\ book[i].name \in Name /\ book[i].path \in Path
          /\ book[i].manager \in 0..Len(kernel) /\ book[i].client \in 0..Len(kernel)
          /\ book[i].cells \in Seq(CellState)
          /\ IsInjective([p \in DOMAIN book[i].cells |-> book[i].cells[p].id])
    /\ opened \in Seq(DOMAIN book)
    /\ IsInjective([p \in DOMAIN opened |-> book[opened[p]].name])
    /\ IF opened = <<>> THEN current = None
       ELSE current \in {book[opened[p]].name : p \in DOMAIN opened}
    /\ \A p \in Path : file[p] = None \/ file[p] \in Seq(CellState)
    /\ kernel \in Seq(0..Len(book))
    /\ gone \subseteq Session /\ unsaved \subseteq DOMAIN book

Init ==
    /\ book = <<>> /\ opened = <<>> /\ current = None
    /\ file = [p \in Path |-> None]
    /\ kernel = <<>>
    /\ call = [s \in Session |-> Idle]
    /\ gone = {} /\ hurt = {} /\ strayed = {} /\ unsaved = {}

-----------------------------------------------------------------------------
(* The manager's dictionary.  Kernel 0 is no kernel.                       *)
Open == ToSet(opened)
OpenNames == {book[i].name : i \in Open}
Named(n) == CHOOSE i \in Open : book[i].name = n
HasCurrent == current \in OpenNames
Current == Named(current)

Alive(k) == kernel[k] # 0
KernelAlive(i) == book[i].manager # 0 /\ book[i].client # 0

Ids(cells) == {cells[p].id : p \in DOMAIN cells}

(* Saving opens the file for writing: it fails when the directory is gone. *)
Savable(i) == \E f \in File : file[<<book[i].path[1], f>>] # None

(* Calls that start or stop the kernel of notebook object i.               *)
Lifecycle == {"resolving", "launching", "closing"}
Handling(i) == {s \in Session : call[s].at \in Lifecycle /\ call[s].book = i}
Raced(i) == IF Handling(i) = {} THEN {} ELSE {i}

Does(s, what) == call' = [call EXCEPT ![s] = what]
Answers(s) == Does(s, Idle)

-----------------------------------------------------------------------------
(* The hook before every tool call sets the directory the manager works in *)
(* for all: a call that has not run its tool yet works in the last one set.*)
Begin(s) ==
    /\ call[s] = Idle /\ s \notin gone
    /\ call' = [t \in Session |-> IF t = s \/ call[t].at = "prepared"
                                THEN [at |-> "prepared", directory |-> s] ELSE call[t]]
    /\ UNCHANGED <<book, opened, current, file, kernel, gone, ghosts>>

(* The tool the call is for runs: nothing to do, or not possible.          *)
NothingToDo(s) ==
    /\ call[s].at = "prepared"
    /\ Answers(s)
    /\ UNCHANGED <<book, opened, current, file, kernel, gone, ghosts>>

(* start_kernel suspends at once: a thread looks the interpreter up.       *)
(* cell is the cell to run when the kernel is there, None for code of no   *)
(* cell, and index the place the call gave; for is "open" or "run".        *)
Start(s, i, for, cell, index) ==
    /\ Does(s, [at |-> "resolving", book |-> i, for |-> for, cell |-> cell, index |-> index])
    /\ hurt' = hurt \cup Raced(i)

\* Mutant: an open notebook gets a new kernel even if it has one.
OpenAgain_Restarts(s, n) ==
    /\ call[s].at = "prepared"
    /\ n \in OpenNames
    /\ current' = n
    /\ Start(s, Named(n), "open", None, 0)
    /\ UNCHANGED <<book, opened, file, kernel, gone, strayed, unsaved>>

(* An open notebook of that name is reused, whatever the path is.          *)
OpenAgain(s, n) ==
    /\ call[s].at = "prepared"
    /\ n \in OpenNames
    /\ current' = n
    /\ \/ KernelAlive(Named(n)) /\ Answers(s) /\ UNCHANGED hurt
       \/ ~KernelAlive(Named(n)) /\ Start(s, Named(n), "open", None, 0)
    /\ UNCHANGED <<book, opened, file, kernel, gone, strayed, unsaved>>

\* Mutant: the dictionary is not looked at before a notebook is added.
OpenNotebook_NameTaken(s, f, n) ==
    /\ call[s].at = "prepared"
    /\ Len(book) < MaxOpens
    /\ LET path == <<call[s].directory, f>>
           cells == IF file[path] = None THEN <<>> ELSE file[path] IN
       /\ file' = [file EXCEPT ![path] = cells]
       /\ book' = Append(book, [name |-> n, path |-> path, cells |-> cells,
                                manager |-> 0, client |-> 0])
       /\ strayed' = strayed \cup {book[i].path : i \in {j \in Open : book[j].path = path}}
    /\ opened' = Append(opened, Len(book'))
    /\ current' = n
    /\ Start(s, Len(book'), "open", None, 0)
    /\ UNCHANGED <<kernel, gone, unsaved>>

(* The file is read, or created when the call allows it.                   *)
OpenNotebook(s, f, n) == n \notin OpenNames /\ OpenNotebook_NameTaken(s, f, n)

(* The interpreter is known: the kernel's process is started.              *)
Launch(s) ==
    /\ call[s].at = "resolving"
    /\ Len(kernel) < MaxKernels
    /\ kernel' = Append(kernel, call[s].book)
    /\ Does(s, [at |-> "launching", book |-> call[s].book, for |-> call[s].for,
                cell |-> call[s].cell, index |-> call[s].index, kernel |-> Len(kernel')])
    /\ UNCHANGED <<book, opened, current, file, gone, ghosts>>

(* No interpreter, or no process: the call ends without a kernel.          *)
StartFails(s) ==
    /\ call[s].at = "resolving"
    /\ Answers(s)
    /\ UNCHANGED <<book, opened, current, file, kernel, gone, ghosts>>

Run(s, i, k, cell, index) ==
    Does(s, [at |-> "running", book |-> i, kernel |-> k, cell |-> cell, index |-> index])

(* The kernel answers: it becomes the notebook's, and the code is sent.    *)
Ready(s) ==
    LET i == call[s].book
        k == call[s].kernel IN
    /\ call[s].at = "launching" /\ Alive(k)
    /\ book' = IF i \in Open THEN [book EXCEPT ![i].manager = k, ![i].client = k] ELSE book
    /\ \/ call[s].for = "open" /\ Answers(s)
       \/ call[s].for = "run" /\ Run(s, i, k, call[s].cell, call[s].index)
    /\ UNCHANGED <<opened, current, file, kernel, gone, ghosts>>

(* It died, or did not answer in time: nothing stops its process.          *)
NotReady(s) ==
    /\ call[s].at = "launching"
    /\ Answers(s)
    /\ hurt' = hurt \cup {call[s].book}
    /\ UNCHANGED <<book, opened, current, file, kernel, gone, strayed, unsaved>>

-----------------------------------------------------------------------------
(* The end of close: whatever has the name by now leaves the dictionary,   *)
(* and the first notebook of the rest becomes the current one.             *)
PlaceOf(n) == CHOOSE p \in DOMAIN opened : book[opened[p]].name = n
Rest(n) == IF n \in OpenNames THEN RemoveAt(opened, PlaceOf(n)) ELSE opened
Forgotten(i) == Open \ (ToSet(Rest(book[i].name)) \cup {i})

NextCurrent(n) ==
    IF current # n THEN current
    ELSE IF Rest(n) = <<>> THEN None ELSE book[Head(Rest(n))].name

Forget(n) ==
    /\ opened' = Rest(n)
    /\ current' = NextCurrent(n)

(* Nobody reads a notebook object again that left the dictionary: only its *)
(* name is kept, and calls that still hold it save by that name.           *)
Emptied(nb) == [nb EXCEPT !.cells = <<>>, !.manager = 0, !.client = 0]
WithoutNamed(n) ==
    [i \in DOMAIN book |-> IF i \in Open /\ book[i].name = n THEN Emptied(book[i]) ELSE book[i]]

(* What follows a close: the tool answers, or a cleanup goes on.           *)
AfterClose(s, todo) ==
    IF todo = None THEN Answers(s) ELSE Does(s, [at |-> "cleaning", todo |-> todo])

(* close: save, take the client away, stop the kernel, forget the notebook.*)
(* It suspends only while a kernel stops.                                  *)
Close(s, n, todo) ==
    LET i == Named(n)
        k == book[i].manager IN
    /\ n \in OpenNames /\ Savable(i)
    /\ file' = [file EXCEPT ![book[i].path] = book[i].cells]
    /\ unsaved' = unsaved \ {i}
    /\ hurt' = hurt \cup Raced(i)
    /\ \/ /\ k = 0 /\ book' = WithoutNamed(n) /\ Forget(n) /\ AfterClose(s, todo)
       \/ /\ k # 0 /\ book' = [book EXCEPT ![i].client = 0] /\ UNCHANGED <<opened, current>>
          /\ Does(s, [at |-> "closing", book |-> i, kernel |-> k, todo |-> todo])
    /\ UNCHANGED <<kernel, gone, strayed>>

CloseNotebook(s, n) == call[s].at = "prepared" /\ Close(s, n, None)

CloseReturns(s) ==
    LET i == call[s].book
        n == book[i].name IN
    /\ call[s].at = "closing"
    /\ kernel' = [kernel EXCEPT ![call[s].kernel] = 0]
    /\ book' = WithoutNamed(n)
    /\ Forget(n)
    /\ hurt' = hurt \cup Forgotten(i)
    /\ \/ n \in OpenNames /\ AfterClose(s, call[s].todo)
       \/ n \notin OpenNames /\ Answers(s)
    /\ UNCHANGED <<file, gone, strayed, unsaved>>

(* The handler of a session's deletion closes its notebooks one by one; one *)
(* that has none is of no interest here.                                   *)
CleanupBegins(s) ==
    LET mine == SelectSeq(opened, LAMBDA i : book[i].path[1] = s) IN
    /\ call[s] = Idle /\ s \notin gone /\ mine # <<>>
    /\ AfterClose(s, [p \in DOMAIN mine |-> book[mine[p]].name])
    /\ UNCHANGED <<book, opened, current, file, kernel, gone, ghosts>>

CleanupNext(s) ==
    /\ call[s].at = "cleaning" /\ call[s].todo # <<>>
    /\ Close(s, Head(call[s].todo), Tail(call[s].todo))

(* A notebook another call closed meanwhile, or that cannot be saved, ends *)
(* it, and the session stays.                                              *)
CleanupFails(s) ==
    /\ call[s].at = "cleaning" /\ call[s].todo # <<>>
    /\ LET n == Head(call[s].todo) IN n \in OpenNames => ~Savable(Named(n))
    /\ Answers(s)
    /\ UNCHANGED <<book, opened, current, file, kernel, gone, ghosts>>

(* The core handler then removes the session's directory.                  *)
CleanupEnds(s) ==
    /\ call[s].at = "cleaning" /\ call[s].todo = <<>>
    /\ file' = [p \in Path |-> IF p[1] = s THEN None ELSE file[p]]
    /\ strayed' = strayed \cup {p \in Path : p[1] = s}
    /\ gone' = gone \cup {s}
    /\ Answers(s)
    /\ UNCHANGED <<book, opened, current, kernel, hurt, unsaved>>

-----------------------------------------------------------------------------
\* Mutant: the notebook that is current is saved, whatever its name.
Save_Current(n) ==
    IF HasCurrent /\ Savable(Current)
    THEN /\ file' = [file EXCEPT ![book[Current].path] = book'[Current].cells]
         /\ unsaved' = unsaved \ {Current}
    ELSE UNCHANGED <<file, unsaved>>

(* The tools that work on the current notebook, whoever made it current.   *)
(* A notebook is saved by its name; a save that fails leaves the change in *)
(* memory.                                                                 *)
Save(n) ==
    IF n \in OpenNames /\ Savable(Named(n))
    THEN /\ file' = [file EXCEPT ![book[Named(n)].path] = book'[Named(n)].cells]
         /\ unsaved' = unsaved \ {Named(n)}
    ELSE UNCHANGED <<file, unsaved>>

InMemory(i, cells) ==
    book' = IF i \in Open THEN [book EXCEPT ![i].cells = cells] ELSE book

Change(i, cells) == InMemory(i, cells) /\ Save(book[i].name)

CellsOfCurrent == IF HasCurrent THEN book[Current].cells ELSE <<>>

Edit(s) ==
    /\ call[s].at = "prepared"
    /\ Answers(s)
    /\ UNCHANGED <<opened, current, kernel, gone, hurt, strayed>>

InsertCell(s, c, p) ==
    /\ HasCurrent /\ c \notin Ids(CellsOfCurrent) /\ p \in 1..Len(CellsOfCurrent) + 1
    /\ Change(Current, InsertAt(CellsOfCurrent, p, [id |-> c, out |-> None]))
    /\ Edit(s)

(* What is left of the cells without those at the places D, in its order.  *)
Remaining(cells, D) ==
    LET kept == DOMAIN cells \ D IN
    {[i \in DOMAIN g |-> cells[g[i]]] :
       g \in {h \in [1..Cardinality(kept) -> kept] : \A i, j \in DOMAIN h : i < j => h[i] < h[j]}}

(* A call that runs a cell that goes keeps it; ids are used again only     *)
(* here, since nbformat's are random.                                      *)
Delete(s, D) ==
    LET Holds(t) == /\ call[t].at \in {"resolving", "launching", "running"}
                    /\ call[t].book = Current
                    /\ call[t].cell \in {CellsOfCurrent[p].id : p \in D} IN
    /\ call[s].at = "prepared" /\ HasCurrent
    /\ call' = [t \in Session |-> IF t = s THEN Idle
                                ELSE IF Holds(t) THEN [call[t] EXCEPT !.cell = Removed]
                                ELSE call[t]]
    /\ UNCHANGED <<opened, current, kernel, gone, hurt, strayed>>

(* The places of the call were popped one by one, from the last; a place   *)
(* named twice takes the cell that moved there along.                      *)
DeleteCells(s, D) ==
    /\ Delete(s, D)
    /\ \E cells \in Remaining(CellsOfCurrent, D) : Change(Current, cells)

(* A place named again when nothing is left from there on: the pop fails,  *)
(* what was popped before is gone from memory, and nothing is saved.       *)
DeleteBreaks(s, p) ==
    /\ Delete(s, p..Len(CellsOfCurrent))
    /\ InMemory(Current, SubSeq(CellsOfCurrent, 1, p - 1))
    /\ unsaved' = unsaved \cup {Current}
    /\ UNCHANGED file

MoveCell(s, p, q) ==
    /\ p \in DOMAIN CellsOfCurrent /\ q \in DOMAIN CellsOfCurrent
    /\ Change(Current, InsertAt(RemoveAt(CellsOfCurrent, p), q, CellsOfCurrent[p]))
    /\ Edit(s)

(* A new source text: no cell, place or output changes.                    *)
EditCell(s, p) == p \in DOMAIN CellsOfCurrent /\ Change(Current, CellsOfCurrent) /\ Edit(s)

(* execute_cell (c a cell, at place p) and execute_code (c = None).        *)
Execute(s, c, p) ==
    /\ call[s].at = "prepared" /\ HasCurrent
    /\ \/ KernelAlive(Current) /\ Run(s, Current, book[Current].client, c, p) /\ UNCHANGED hurt
       \/ ~KernelAlive(Current) /\ Start(s, Current, "run", c, p)
    /\ UNCHANGED <<book, opened, current, file, kernel, gone, strayed, unsaved>>

ExecuteCell(s, p) == p \in DOMAIN CellsOfCurrent /\ Execute(s, CellsOfCurrent[p].id, p)
ExecuteCode(s) == Execute(s, None, 0)

\* Mutant: the outputs go into the cell that is at the call's place now.
WithOutputs_ByIndex(cells, c, index, out) ==
    [p \in DOMAIN cells |-> IF p = index THEN [cells[p] EXCEPT !.out = out] ELSE cells[p]]

(* The outputs go into the cell that was taken before the run, wherever it *)
(* is by now.                                                              *)
WithOutputs(cells, c, index, out) ==
    [p \in DOMAIN cells |-> IF cells[p].id = c THEN [cells[p] EXCEPT !.out = out] ELSE cells[p]]

RunEnds(s, out) ==
    LET i == call[s].book IN
    /\ call[s].at = "running"
    /\ \/ call[s].cell = None /\ UNCHANGED <<book, file, unsaved>>
       \/ /\ call[s].cell # None
          /\ Change(i, WithOutputs(book[i].cells, call[s].cell, call[s].index, out))
    /\ Answers(s)
    /\ UNCHANGED <<opened, current, kernel, gone, hurt, strayed>>

RunReturns(s) ==
    /\ call[s].at = "running" /\ Alive(call[s].kernel)
    /\ RunEnds(s, call[s].cell)

(* The code is still running, or the kernel is no more: an error, and no   *)
(* outputs.  An interrupted kernel stays.                                  *)
DeadlineFires(s) == RunEnds(s, None)

(* The call is cancelled where it waits, by a stopped run.  While a kernel *)
(* starts that has the effect of StartFails or NotReady.                   *)
Interrupted(s) ==
    /\ call[s].at \in {"running", "closing"}
    /\ call[s].at = "closing" => call[s].todo = None
    /\ Answers(s)
    /\ hurt' = IF call[s].at = "closing" THEN hurt \cup {call[s].book} ELSE hurt
    /\ UNCHANGED <<book, opened, current, file, kernel, gone, strayed, unsaved>>

-----------------------------------------------------------------------------
Tool(s) ==
    \/ NothingToDo(s) \/ ExecuteCode(s)
    \/ \E n \in Name : OpenAgain(s, n) \/ CloseNotebook(s, n)
    \/ \E f \in File, n \in Name : OpenNotebook(s, f, n)
    \/ \E p \in DOMAIN CellsOfCurrent :
          DeleteBreaks(s, p) \/ EditCell(s, p) \/ ExecuteCell(s, p)
    \/ \E D \in SUBSET DOMAIN CellsOfCurrent : DeleteCells(s, D)
    \/ \E c \in Cell, p \in 1..Len(CellsOfCurrent) + 1 : InsertCell(s, c, p)
    \/ \E p, q \in DOMAIN CellsOfCurrent : MoveCell(s, p, q)

Continues(s) ==
    \/ Tool(s) \/ Launch(s) \/ StartFails(s) \/ Ready(s) \/ NotReady(s)
    \/ CloseReturns(s) \/ CleanupNext(s) \/ CleanupFails(s) \/ CleanupEnds(s)
    \/ RunReturns(s) \/ DeadlineFires(s)

Next ==
    \/ \E s \in Session : Begin(s) \/ CleanupBegins(s) \/ Continues(s) \/ Interrupted(s)

Spec == Init /\ [][Next]_vars

-----------------------------------------------------------------------------
(* No kernel process is lost: one that runs is its open notebook's, or a   *)
(* call is starting or stopping it, unless two calls started or stopped    *)
(* the notebook's kernel at once, or one was cut short (manager.py:141-189).*)
KernelsOwned ==
    \A k \in {j \in DOMAIN kernel : Alive(j)} :
        \/ kernel[k] \in hurt
        \/ kernel[k] \in Open /\ book[kernel[k]].manager = k
        \/ \E s \in Session :
              call[s].at \in {"launching", "closing"} /\ call[s].kernel = k

(* The file of an open notebook holds what the manager has in memory, while*)
(* runs end late and notebooks are closed and opened again, unless it was  *)
(* open under two names or its directory was removed (manager.py:133-137), *)
(* or a deletion of cells broke off before the save and nothing was saved  *)
(* since (tools.py:178-182).                                               *)
FileFollowsMemory ==
    \A i \in Open \ unsaved :
        book[i].path \notin strayed => file[book[i].path] = book[i].cells

(* A cell's outputs come from a run of that cell, even if cells were moved,*)
(* inserted or deleted while it ran (tools.py:193-208).                    *)
OutputsOfItsCell ==
    \A i \in DOMAIN book : \A p \in DOMAIN book[i].cells :
        book[i].cells[p].out \in {None, book[i].cells[p].id}
=============================================================================
