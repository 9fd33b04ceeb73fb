----------------------------- MODULE PageTable -----------------------------
(***************************************************************************)
(* Page tables of four levels (Paging::pmlxt): map, unmap, the search for  *)
(* a physical address, copy, activate and the destructor, as the kernel    *)
(* uses them: one space for the kernel, whose upper half the loader filled,*)
(* and one for each task.  An address counts pages of 4 KiB.  A page of    *)
(* 2 MiB is an entry of level 2.  Pages of 1 GiB are mapped by no caller   *)
(* and left out.                                                           *)
(***************************************************************************)
EXTENDS Integers, FiniteSets

CONSTANTS
    W,          \* entries of a table, 512 in the code
    Task,       \* address spaces of tasks
    Kernel,     \* the kernel's
    Pool,       \* frames that the page allocator gives to tables
    BootTable,  \* the loader's tables: frame -> entries; the root is KernelRoot
    KernelRoot,
    KernelMaps, \* requests to the kernel's table: <<physical, virtual, size, mode>>
    TaskMaps,   \* requests to a task's table
    Watch,      \* the pages whose translation the properties follow
    None

LEVELS == 4
Space == Task \cup {Kernel}
Index == 0 .. W - 1

\* Tables of 4 KiB and of 2 MiB pages are mapped: Type::P4Kib, Type::P2Mib.
P4Kib == 1
P2Mib == 2
Mode == {P4Kib, P2Mib}

\* The pages of a 2 MiB page, 1 for a 4 KiB page: check_page_size.
check_page_size(mode) == IF mode = P2Mib THEN W ELSE 1

VARIABLES
    table,   \* frame -> its entries, for every frame in use as a table
    free,    \* frames of the page allocator that nobody has
    root,    \* space -> the frame of its top table, or None
    active,  \* the space that cr3 names
    booting  \* no task has been made yet

vars == <<table, free, root, active, booting>>

-----------------------------------------------------------------------------
(* Entries *)

Entry == [p : BOOLEAN, ps : BOOLEAN, us : BOOLEAN, base : Nat]

Empty == [p |-> FALSE, ps |-> FALSE, us |-> FALSE, base |-> 0]

EmptyTable == [i \in Index |-> Empty]

\* get_virtual_index of the table of a level; table 1 holds 4 KiB pages.
Power[n \in 0 .. LEVELS] == IF n = 0 THEN 1 ELSE W * Power[n - 1]
get_virtual_index(v, level) == (v \div Power[level - 1]) % W

\* flags_ps_pat: tables of levels 1 and 4 have no such bit.
flags_ps_pat(e, level) == level \in {2, 3} /\ e.ps

\* operator=(index, base, flags) clears an entry and sets it anew.  A table
\* of level 1 holds 4 KiB pages.
Small(base, us) == [p |-> TRUE, ps |-> FALSE, us |-> us, base |-> base]

\* The base of a 2 MiB page is cut to a multiple of the page: set_base.
Cut(a) == (a \div W) * W

Huge(base, us) == [p |-> TRUE, ps |-> TRUE, us |-> us, base |-> Cut(base)]

\* The entry of a table of the level below.
Table(base, us) == [p |-> TRUE, ps |-> FALSE, us |-> us, base |-> base]

-----------------------------------------------------------------------------
(* map *)

\* The tables and the free frames as one page of a map proceeds, and the
\* table it has come to.
Walk(t, f, at) == [table |-> t, free |-> f, at |-> at]

NewFrame(f) == CHOOSE x \in f : \A y \in f : x <= y

\* One level down.  A missing table, or a huge page in the way, becomes a
\* new table with nothing in it.
Descend(w, v, level, us) ==
    LET i == get_virtual_index(v, level)
        e == w.table[w.at][i]
        n == NewFrame(w.free)
    IN IF e.p /\ ~ flags_ps_pat(e, level) THEN [w EXCEPT !.at = e.base]
       ELSE Walk([x \in DOMAIN w.table \cup {n} |->
                     IF x = n THEN EmptyTable
                     ELSE IF x = w.at THEN [w.table[x] EXCEPT ![i] = Table(n, us)]
                     ELSE w.table[x]],
                 w.free \ {n}, n)

\* The entry itself.  A huge page takes the place of a table of small ones,
\* which goes back to the page allocator.
Leaf(w, p, v, mode, us) ==
    LET i == get_virtual_index(v, mode)
        e == w.table[w.at][i]
        old == IF mode = P2Mib /\ e.p /\ ~ e.ps THEN {e.base} ELSE {}
    IN Walk([x \in DOMAIN w.table \ old |->
                IF x = w.at
                THEN [w.table[x] EXCEPT ![i] = IF mode = P2Mib THEN Huge(p, us) ELSE Small(p, us)]
                ELSE w.table[x]],
            w.free \cup old, w.at)

\* One page: down from the top to the table of the leaf.
MapPage(w, r, p, v, mode, us) ==
    LET w3 == Descend([w EXCEPT !.at = r], v, 4, us)
        w2 == Descend(w3, v, 3, us)
    IN Leaf(IF mode = P2Mib THEN w2 ELSE Descend(w2, v, 2, us), p, v, mode, us)

\* Variant: the physical address does not move on with the virtual one.
Still_Map(r, req, us) ==
    LET far(k) == (k - 1) * check_page_size(req[4])
        pages[k \in 0 .. req[3]] ==
            IF k = 0 THEN Walk(table, free, r)
            ELSE MapPage(pages[k - 1], r, req[1], req[2] + far(k), req[4], us)
    IN pages[req[3]]

\* size pages, one after the other.
Map(r, req, us) ==
    LET far(k) == (k - 1) * check_page_size(req[4])
        pages[k \in 0 .. req[3]] ==
            IF k = 0 THEN Walk(table, free, r)
            ELSE MapPage(pages[k - 1], r, req[1] + far(k), req[2] + far(k), req[4], us)
    IN pages[req[3]]

-----------------------------------------------------------------------------
(* The processor's walk, and the code's *)

\* The processor goes down from table at until it is done; at is then the
\* page it came to, or None.  It stops at a huge page; a walk through a frame
\* that is no table comes to nothing.
Nowhere == [done |-> TRUE, at |-> None, us |-> FALSE, huge |-> FALSE]

Read(e, w, v, level) ==
    LET huge == e.p /\ flags_ps_pat(e, level) IN
    [done |-> ~ e.p \/ huge \/ level = 1,
     at |-> IF ~ e.p THEN None ELSE IF huge THEN e.base + (v % Power[level - 1]) ELSE e.base,
     us |-> w.us /\ e.p /\ e.us, huge |-> huge]

Step(t, w, v, level) ==
    IF w.done THEN w
    ELSE IF w.at \notin DOMAIN t THEN Nowhere
    ELSE Read(t[w.at][get_virtual_index(v, level)], w, v, level)

Walked(t, r, v) ==
    LET top == [done |-> FALSE, at |-> r, us |-> TRUE, huge |-> FALSE]
    IN Step(t, Step(t, Step(t, Step(t, top, v, 4), v, 3), v, 2), v, 1)

\* What it makes of page v: the physical page, and whether a task may touch it.
Translate(t, r, v) == [at |-> Walked(t, r, v).at, us |-> Walked(t, r, v).us]

\* find_physcial_address does not stop at a huge page: it goes down to the
\* level of mode, and gives the base of the entry it comes to.
Seek(at, v, level) ==
    IF at \notin DOMAIN table THEN None
    ELSE LET e == table[at][get_virtual_index(v, level)] IN IF e.p THEN e.base ELSE None

find_physcial_address(r, v, mode) ==
    LET base == Seek(Seek(Seek(r, v, 4), v, 3), v, 2) IN
    IF mode = P2Mib THEN base ELSE Seek(base, v, 1)

-----------------------------------------------------------------------------
(* The loader's tables and the callers' requests *)

\* Entry i of table x names a table, lv being the levels of the tables.
Points(t, lv, x, i) == lv[x] > 1 /\ t[x][i].p /\ ~ flags_ps_pat(t[x][i], lv[x])

\* Tables form trees of four levels, without pages of 1 GiB; nothing but the
\* upper halves of top tables names the same table twice.
Shaped(t, lv) ==
    /\ t \in [DOMAIN t -> [Index -> Entry]] /\ lv \in [DOMAIN t -> 1 .. LEVELS]
    /\ \A x \in DOMAIN t, i \in Index :
          /\ Points(t, lv, x, i) => t[x][i].base \in DOMAIN t /\ lv[t[x][i].base] = lv[x] - 1
          /\ lv[x] > 2 /\ t[x][i].p => ~ t[x][i].ps
    /\ \A x, y \in DOMAIN t, i, j \in Index :
          Points(t, lv, x, i) /\ Points(t, lv, y, j) /\ t[x][i].base = t[y][j].base =>
              i = j /\ (x = y \/ (lv[x] = LEVELS /\ lv[y] = LEVELS /\ i >= W \div 2))

\* The first address of the kernel's half.
Half == Power[LEVELS] \div 2
End(req) == req[2] + req[3] * check_page_size(req[4])

\* The loader maps the physical memory from Half on, and the kernel adds to
\* that; tasks have their maps below.
ASSUME PageTableAssumption ==
    /\ W \in Nat \ {0} /\ W % 2 = 0
    /\ Kernel \notin Task /\ None \notin Nat
    /\ Pool \cup DOMAIN BootTable \subseteq Nat /\ Pool \cap DOMAIN BootTable = {}
    /\ IsFiniteSet(Pool \cup DOMAIN BootTable)
    /\ \E lv \in [DOMAIN BootTable -> 1 .. LEVELS] :
          Shaped(BootTable, lv) /\ KernelRoot \in DOMAIN BootTable /\ lv[KernelRoot] = LEVELS
    /\ Watch \subseteq 0 .. Power[LEVELS] - 1
    /\ \A v \in Watch : v >= Half =>
          LET p == Translate(BootTable, KernelRoot, v) IN p.at \in {None, v - Half} /\ ~ p.us
    /\ KernelMaps \cup TaskMaps \subseteq Nat \X Nat \X Nat \X Mode
    /\ \A req \in KernelMaps : req[2] = req[1] + Half /\ End(req) <= Power[LEVELS]
    /\ \A req \in TaskMaps : End(req) <= Half

-----------------------------------------------------------------------------
(* Actions *)

Init ==
    /\ table = BootTable /\ free = Pool
    /\ root = [s \in Space |-> IF s = Kernel THEN KernelRoot ELSE None]
    /\ active = Kernel
    /\ booting = TRUE

\* Bound: the page allocator has the frames that n pages may ask for;
\* PageAllocator speaks of its end.
Room(n) == Cardinality(free) >= (LEVELS - 1) * n

Apply(w) == table' = w.table /\ free' = w.free

\* ACPI, HPET and the APICs are mapped while the kernel boots.
MapKernel(req) ==
    /\ booting /\ Room(req[3])
    /\ Apply(Map(root[Kernel], req, FALSE))
    /\ UNCHANGED <<root, active, booting>>

\* A space gets a top table: what the constructor and copy leave in it.
Top(s, entries) ==
    /\ root[s] = None /\ Room(1)
    /\ LET n == NewFrame(free) IN
        /\ root' = [root EXCEPT ![s] = n]
        /\ table' = [x \in DOMAIN table \cup {n} |-> IF x = n THEN entries ELSE table[x]]
        /\ free' = free \ {n}
    /\ booting' = FALSE
    /\ UNCHANGED active

\* Variant: copy leaves the upper half as it found it.
Half_NewSpace(s) == Top(s, EmptyTable)

\* copy: an empty lower half, and the kernel's upper half.
NewSpace(s) ==
    Top(s, [i \in Index |-> IF i < W \div 2 THEN Empty ELSE table[root[Kernel]][i]])

\* Text and stack of a task.
MapTask(s, req) ==
    /\ root[s] # None /\ Room(req[3])
    /\ Apply(Map(root[s], req, TRUE))
    /\ UNCHANGED <<root, active, booting>>

\* unmap sets the present bit with |=, which cannot clear it.
Unmap(s) == root[s] # None /\ UNCHANGED vars

\* activate; a task without a table of its own runs in the kernel's.
Activate(s) ==
    /\ root[s] # None
    /\ active' = s
    /\ UNCHANGED <<table, free, root, booting>>

\* The tables that the tables of f point to, and those down to level 1 from
\* a set of tables of level 3.
Down(f) == {e.base : e \in {d \in {table[x][i] : x \in f \cap DOMAIN table, i \in Index} :
                               d.p /\ ~ d.ps}}
Tree(f) == f \cup Down(f) \cup Down(Down(f))

\* A space's top table and all below.
Below(x) == {x} \cup Tree(Down({x}))

\* Variant: the destructor takes every table below with it.
Deep_Destroy(s) ==
    /\ root[s] # None /\ s # active
    /\ free' = free \cup Below(root[s])
    /\ table' = [x \in DOMAIN table \ Below(root[s]) |-> table[x]]
    /\ root' = [root EXCEPT ![s] = None]
    /\ UNCHANGED <<active, booting>>

\* The destructor gives back the top table and no other.  A task's table is
\* destroyed when the next task, activated before, takes its place.
Destroy(s) ==
    /\ root[s] # None /\ s # active
    /\ free' = free \cup {root[s]}
    /\ table' = [x \in DOMAIN table \ {root[s]} |-> table[x]]
    /\ root' = [root EXCEPT ![s] = None]
    /\ UNCHANGED <<active, booting>>

Next ==
    \/ \E req \in KernelMaps : MapKernel(req)
    \/ \E s \in Task : NewSpace(s) \/ Unmap(s) \/ Destroy(s)
    \/ \E s \in Task, req \in TaskMaps : MapTask(s, req)
    \/ \E s \in Space : Activate(s)

Spec == Init /\ [][Next]_vars

-----------------------------------------------------------------------------
(* Properties *)

Upper == {v \in Watch : v >= Half}
Live == {s \in Space : root[s] # None}

\* Frames are tables or free, never both, and what is free was a table or
\* came from the page allocator; spaces have roots of their own.
TypeOK ==
    /\ table \in [DOMAIN table -> [Index -> Entry]]
    /\ free \cap DOMAIN table = {} /\ free \subseteq Pool \cup DOMAIN BootTable
    /\ active \in Live
    /\ \A s, u \in Live : root[s] = root[u] => s = u

\* A small page that is put into a huge one takes the rest of that away: the
\* new table is empty (page_table.cpp:78-84).
TornBy(req, v) == req[4] = P4Kib /\ \E w \in req[2] .. req[2] + req[3] - 1 : Cut(v) = Cut(w)

\* A map makes its own pages what the caller asked for (the addresses of a
\* huge page are cut alike).  Of the others it unmaps those that a huge page
\* mapped in which it puts a small one, and changes no translation else.
MapsExactly(s, req, us) ==
    LET from == IF req[4] = P2Mib THEN Cut(req[1]) ELSE req[1]
        to == IF req[4] = P2Mib THEN Cut(req[2]) ELSE req[2]
    IN \A v \in Watch :
        LET before == Translate(table, root[s], v)
            after == Translate(table', root'[s], v)
            far == v - to
        IN IF far \in 0 .. req[3] * check_page_size(req[4]) - 1
           THEN after.at = from + far /\ (after.us => us)
           ELSE IF Walked(table, root[s], v).huge /\ TornBy(req, v) THEN after.at = None
           ELSE after = before

\* Every map of the kernel and of a task, over a table in any state, does so.
EveryMapIsExact ==
    [][ /\ \A req \in KernelMaps : MapKernel(req) => MapsExactly(Kernel, req, FALSE)
        /\ \A s \in Task, req \in TaskMaps : MapTask(s, req) => MapsExactly(s, req, TRUE)
      ]_vars

\* A map leaves every page mapped that was.  It is so neither in the code nor
\* here (page_table.cpp:78): PageTableTorn.cfg.
NothingIsTorn ==
    [][\A s \in Live, v \in Watch :
          root'[s] = root[s] /\ Translate(table, root[s], v).at # None =>
              Translate(table', root'[s], v).at # None]_vars

\* The kernel is mapped alike in every space, so that an interrupt may come
\* in whatever space runs: copy takes the upper half, and the tables below
\* it are shared from then on.
KernelIsShared ==
    \A s \in Live, v \in Upper :
        Translate(table, root[s], v) = Translate(table, root[Kernel], v)

\* The direct map stays linear and closed to tasks whatever was mapped into
\* it: hhdm.hpp takes an address for its page by an addition.
DirectMapIsLinear ==
    \A v \in Upper :
        LET p == Translate(table, root[Kernel], v) IN
        p.at \in {None, v - Half} /\ ~ p.us

\* A map in one task's space reaches no other's: they share no table but
\* those of the kernel's half.
TasksAreApart ==
    LET low(s) == Tree({table[root[s]][i].base : i \in {j \in Index : j < W \div 2 /\ table[root[s]][j].p}})
    IN \A s, u \in Live : s # u => low(s) \cap low(u) = {}

\* Whatever is made, mapped and destroyed, the spaces are laid out alike: one
\* kernel, closed to tasks and at its linear addresses, and tasks apart.
SpacesAreLaidOut == TypeOK /\ KernelIsShared /\ DirectMapIsLinear /\ TasksAreApart

\* The processor never walks through a frame that went back to the page
\* allocator, by the destructor or by a huge page in a table's place.
NoTableIsFree == \A s \in Live : Below(root[s]) \cap free = {}

\* The search agrees with the processor, but for what is mapped by a huge
\* page: it is never asked about one.
FindAgrees ==
    \A s \in Live, v \in Watch :
        ~ Walked(table, root[s], v).huge =>
            find_physcial_address(root[s], v, P4Kib) = Translate(table, root[s], v).at

\* The processor's walk and the search go through tables, to what was mapped.
WalksAreRight == NoTableIsFree /\ FindAgrees
=============================================================================
