------------------------------ MODULE Minidump ------------------------------
(***************************************************************************)
(* The minidump reader of breakpad's minidump.cc: one file position that    *)
(* every reader moves, streams and contexts that are read when they are     *)
(* first asked for and kept, and a stream state that nothing clears.        *)
(*                                                                         *)
(* A file is a sequence of cells.  A cell stands for one record, word or    *)
(* block of bytes that the code reads in one piece, of either byte order;   *)
(* offsets and sizes count cells.  The file may end anywhere (len).         *)
(***************************************************************************)
EXTENDS RangeMap, Sequences, FiniteSets, SequencesExt

CONSTANTS
    Dumps,      \* names of files
    Cells,      \* the cells of each
    MaxItems,   \* max_streams_, max_threads_, max_modules_, max_regions_
    MaxBytes,   \* max_bytes_, max_cv_bytes_, max_misc_bytes_, max_string_length_
    MaxReads,   \* bound on calls of Read()
    NULL

\* A field of a cell; a cell of another kind has some other bytes there.
Get(c, f) == IF f \in DOMAIN c THEN c[f] ELSE 0

\* A field of a cell that says how much is where in the file.
Location(c, f) == IF f \in DOMAIN c THEN c[f] ELSE [size |-> 0, rva |-> 0]

\* Sizes, numbers, addresses and places in the file are unsigned.
Unsigned == {"n", "directory", "size", "rva", "start", "base", "name", "csize", "crva", "csd"}

IsCell(c) ==
    /\ \A f \in Unsigned : Get(c, f) \in Nat
    /\ \A f \in {"cv", "misc"} : Location(c, f).size \in Nat /\ Location(c, f).rva \in Nat

ASSUME MinidumpAssumption ==
    /\ \A d \in Dumps : \A i \in 1..Len(Cells[d]) : IsCell(Cells[d][i])
    /\ \A d \in Dumps : Len(Cells[d]) \in Nat
    /\ {MaxItems, MaxBytes, MaxReads} \subseteq Nat \ {0}

\* Streams that may be in a file once only, and those of which the last counts.
SingleStreams == {"ThreadList", "ModuleList", "MemoryList", "Exception",
                  "SystemInfo", "MiscInfo", "BreakpadInfo"}
StreamTypes == SingleStreams \cup {"Assertion", "MemoryInfoList", "LinuxMaps"}

VARIABLES
    dump, len,  \* the file, and how much of it there is
    reads,      \* calls of Read() so far
    valid,
    directory,  \* stream_map_: the entry of each type
    rd,         \* what reading changes: pos, bad (the stream's failbit), streams
    lazy        \* parts of streams that are read when asked for

minidump == <<dump, len, reads, valid, directory, rd, lazy>>

\* The parts: a thread's context and stack, a region of the memory list, the
\* exception's context, the service pack string.  Part 0 is the only one.
Parts == ({"context", "stack", "region"} \X (1..MaxItems)) \cup ({"exception", "csd"} \X {0})
---------------------------------------------------------------------------
(* The file.                                                               *)

CellAt(offset) == IF offset \in 0..(len - 1) THEN Cells[dump][offset + 1] ELSE [k |-> "none"]

\* What a reader gives: the state of reading after it, and a value or NULL.
Result(s, ok, val) == [s |-> s, val |-> IF ok THEN val ELSE NULL]

SeekSet_Clears(s, offset) == [s EXCEPT !.pos = offset, !.bad = FALSE]

\* seekg does nothing once a read has failed.  A position behind the end is fine.
SeekSet(s, offset) == IF s.bad THEN s ELSE [s EXCEPT !.pos = offset]

\* A reading that does not take place, and one of n cells in one piece.
NotRead(s) == [s |-> s, ok |-> FALSE, cells |-> <<>>]

ReadBytes(s, n) ==
    IF s.bad \/ s.pos + n > len THEN [s |-> [s EXCEPT !.bad = TRUE], ok |-> FALSE, cells |-> <<>>]
    ELSE [s |-> [s EXCEPT !.pos = @ + n], ok |-> TRUE, cells |-> [i \in 1..n |-> CellAt(s.pos + i - 1)]]

\* The first cell of a reading, if it is there and its field f is v.
First(p, f, v) == Result(p.s, p.ok /\ Get(p.cells[1], f) = v, p.cells[1])

\* A string: its length, then that many words; the length's cell says which.
Characters(p) ==
    IF p.ok /\ Get(p.cells[1], "odd") # TRUE /\ Get(p.cells[1], "n") <= MaxBytes
    THEN Result(ReadBytes(p.s, Get(p.cells[1], "n")).s, ReadBytes(p.s, Get(p.cells[1], "n")).ok, Get(p.cells[1], "text"))
    ELSE Result(p.s, FALSE, NULL)

ReadString(s, offset) == Characters(ReadBytes(SeekSet(s, offset), 1))

FitsIn(base, size) == size <= AddrSpace - 1 - base
---------------------------------------------------------------------------
(* The streams.  A reader starts at the stream and is given its size.      *)

\* A stream of one fixed size.
FixedRead(s, size) ==
    IF size = 1 THEN Result(ReadBytes(s, 1).s, ReadBytes(s, 1).ok, CellAt(s.pos)) ELSE Result(s, FALSE, NULL)

SystemInfoRead(s, size)   == FixedRead(s, size)
ExceptionRead(s, size)    == FixedRead(s, size)
AssertionRead(s, size)    == FixedRead(s, size)
BreakpadInfoRead(s, size) == FixedRead(s, size)

\* One of four sizes, which the stream must repeat.
MiscInfoRead(s, size) == First(IF size \in 1..4 THEN ReadBytes(s, size) ELSE NotRead(s), "n", size)

\* How the lists of threads, modules and regions begin: with a count and, if
\* the size leaves room for it, a word of padding.
Counted(p, n, size) == [s |-> p.s, n |-> n, ok |-> p.ok /\ size \in {n + 1, n + 2} /\ n <= MaxItems]

Padded(p, size) ==
    IF ~p.ok THEN Counted(p, 0, size)
    ELSE Counted(IF size = Get(p.cells[1], "n") + 2 THEN ReadBytes(p.s, 1) ELSE p, Get(p.cells[1], "n"), size)

CountRead(s, size) == Padded(IF size >= 1 THEN ReadBytes(s, 1) ELSE NotRead(s), size)

\* The items are read one by one up to the first one that is refused.
Items(p) == Result(p.s, p.ok, p.cells)

ItemsRead(c, refused) ==
    IF ~c.ok THEN Result(c.s, FALSE, NULL)
    ELSE IF refused # {} THEN Result(ReadBytes(c.s, Min(refused)).s, FALSE, NULL)
    ELSE Items(ReadBytes(c.s, c.n))

\* The i-th cell from the position on.
Ahead(s, i) == CellAt(s.pos + i - 1)

Duplicates(c) == {i \in 1..c.n : \E j \in 1..(i - 1) : Get(Ahead(c.s, i), "id") = Get(Ahead(c.s, j), "id")}

ThreadsCounted(c) == ItemsRead(c, Duplicates(c))

ThreadListRead(s, size) == ThreadsCounted(CountRead(s, size))

\* The range a region or a memory info takes, whether it can, and without
\* touching any before it.
Span(c, i) == [base |-> Get(c, "start"), high |-> Get(c, "start") + Get(c, "size") - 1, index |-> i]

Proper(c) == Get(c, "size") # 0 /\ FitsIn(Get(c, "start"), Get(c, "size"))

Apart(q, r) == q.high < r.base \/ r.high < q.base

Spans(cells) == {Span(cells[i], i) : i \in DOMAIN cells}

\* All descriptors in one piece, then their checks.
Regions(p) ==
    Result(p.s, /\ p.ok
                /\ \A i \in DOMAIN p.cells : Proper(p.cells[i])
                /\ \A q, r \in Spans(p.cells) : q # r => Apart(q, r),
           [items |-> p.cells, map |-> Spans(p.cells)])

RegionsCounted(c) == Regions(IF c.ok THEN ReadBytes(c.s, c.n) ELSE NotRead(c.s))

MemoryListRead(s, size) == RegionsCounted(CountRead(s, size))

\* A header with the sizes of header and entries, and the number of entries;
\* an info that is empty or touches one before it is refused.
InfosRefused(c) ==
    {i \in 1..c.n : ~Proper(Ahead(c.s, i)) \/
                    \E j \in 1..(i - 1) : ~Apart(Span(Ahead(c.s, j), j), Span(Ahead(c.s, i), i))}

Infos(r) == Result(r.s, r.val # NULL, [items |-> r.val, map |-> Spans(r.val)])

InfosCounted(c) == Infos(ItemsRead(c, IF c.ok THEN InfosRefused(c) ELSE {}))

InfoHeader(p, size) ==
    [s |-> p.s, n |-> IF p.ok THEN Get(p.cells[1], "n") ELSE 0,
     ok |-> p.ok /\ Get(p.cells[1], "sizes") = TRUE /\ size = 1 + Get(p.cells[1], "n")]

MemoryInfoListRead(s, size) == InfosCounted(InfoHeader(IF size >= 1 THEN ReadBytes(s, 1) ELSE NotRead(s), size))
---------------------------------------------------------------------------
(* Modules.                                                                *)

\* A block of bytes that a size and a place in the file describe.
LocatedRead(s, size, rva) ==
    IF size = 0 THEN NotRead(s)
    ELSE IF s.bad \/ size > MaxBytes THEN NotRead(SeekSet(s, rva))
    ELSE ReadBytes(SeekSet(s, rva), size)

RecordRead(s, loc) == LocatedRead(s, loc.size, loc.rva)

GetCVRecord(s, m) == First(RecordRead(s, Location(m, "cv")), "wellformed", TRUE)

GetMiscRecord_NoSeek(s, m) ==
    First(IF Location(m, "misc").size \in 1..MaxBytes THEN ReadBytes(s, Location(m, "misc").size) ELSE NotRead(s),
          "n", Location(m, "misc").size)

GetMiscRecord(s, m) == First(RecordRead(s, Location(m, "misc")), "n", Location(m, "misc").size)

\* Whether a module has a record of a kind that could not be read.
Lacks(m, f, record) == Location(m, f).size # 0 /\ record = NULL

\* The name is required; a record that is there but cannot be read only means
\* that there is no debug information.
AfterMisc(d, cv, name, m) ==
    Result(d.s, TRUE, [raw |-> m, name |-> name, cv |-> cv, misc |-> d.val,
                       debug |-> ~Lacks(m, "cv", cv) /\ ~Lacks(m, "misc", d.val)])

AfterCV(c, name, m) ==
    AfterMisc(IF Lacks(m, "cv", c.val) THEN Result(c.s, FALSE, NULL) ELSE GetMiscRecord(c.s, m), c.val, name, m)

AfterName(n, m) == IF n.val = NULL THEN n ELSE AfterCV(GetCVRecord(n.s, m), n.val, m)

ReadAuxiliaryData(s, m) == AfterName(ReadString(s, Get(m, "name")), m)

IsAshmem(m) == m.name = "/dev/ashmem/"

Rest_Whole(base, size, last) == size

\* What is left of a module's size behind an address; it wraps when nothing is.
Rest(base, size, last) == Wrap(size - (last - base))

\* The module's range, or what is left of it behind the end of the module
\* before it; the list is refused if it has no room for that either.
PlaceModule(p, m, i) ==
    LET base == Get(m.raw, "base")
        size == Get(m.raw, "size")
        rest == Rest(base, size, p.last)
    IN  IF Storable(p.map, base, size)
        THEN [p EXCEPT !.map = StoreRange(@, base, size, i), !.last = Wrap(base + size)]
        ELSE IF IsAshmem(m) THEN [p EXCEPT !.last = Wrap(base + size)]
        ELSE IF base < p.last /\ Storable(p.map, p.last, rest)
        THEN [p EXCEPT !.map = StoreRange(@, p.last, rest, i), !.last = Wrap(@ + rest)]
        ELSE [p EXCEPT !.ok = FALSE]

\* The first pass reads the modules, the second one their auxiliary data.
ModuleAdded(p, a, i) ==
    IF a.val = NULL THEN [p EXCEPT !.s = a.s, !.ok = FALSE]
    ELSE PlaceModule([p EXCEPT !.s = a.s, !.items = Append(@, a.val)], a.val, i)

ModulesKept(p) == Result(p.s, p.ok, [items |-> p.items, map |-> p.map])

ModulesPlaced(r) ==
    IF r.val = NULL THEN r
    ELSE ModulesKept(FoldLeft(LAMBDA p, i : IF p.ok THEN ModuleAdded(p, ReadAuxiliaryData(p.s, r.val[i]), i) ELSE p,
                              [s |-> r.s, items |-> <<>>, map |-> {}, last |-> 0, ok |-> TRUE],
                              [i \in DOMAIN r.val |-> i]))

ModulesCounted(c) ==
    ModulesPlaced(ItemsRead(c, {i \in 1..c.n : Get(Ahead(c.s, i), "size") = 0
                                               \/ ~FitsIn(Get(Ahead(c.s, i), "base"), Get(Ahead(c.s, i), "size"))}))

ModuleListRead(s, size) == ModulesCounted(CountRead(s, size))
---------------------------------------------------------------------------
(* The directory and its streams.                                          *)

SeekToStreamType(s, t) == SeekSet(s, Get(directory[t], "rva"))

SizeOf(t) == Get(directory[t], "size")

\* ParseProcMaps takes all lines or none.
ParseProcMaps(p) == Result(p.s, p.ok /\ \A i \in DOMAIN p.cells : Get(p.cells[i], "k") = "map", p.cells)

LinuxMapsListRead(s, size) == ParseProcMaps(ReadBytes(SeekToStreamType(s, "LinuxMaps"), size))

StreamRead(s, t, size) ==
    CASE t = "SystemInfo"     -> SystemInfoRead(s, size)
      [] t = "Exception"      -> ExceptionRead(s, size)
      [] t = "Assertion"      -> AssertionRead(s, size)
      [] t = "BreakpadInfo"   -> BreakpadInfoRead(s, size)
      [] t = "MiscInfo"       -> MiscInfoRead(s, size)
      [] t = "ThreadList"     -> ThreadListRead(s, size)
      [] t = "ModuleList"     -> ModuleListRead(s, size)
      [] t = "MemoryList"     -> MemoryListRead(s, size)
      [] t = "MemoryInfoList" -> MemoryInfoListRead(s, size)
      [] t = "LinuxMaps"      -> LinuxMapsListRead(s, size)

\* A stream is kept once it has been read; one that could not be read is tried
\* again the next time.
Kept(r, t) == IF r.val = NULL THEN r ELSE Result([r.s EXCEPT !.streams[t] = r.val], TRUE, r.val)

StreamOr(s, t, read) ==
    IF ~valid \/ t \notin DOMAIN directory THEN Result(s, FALSE, NULL)
    ELSE IF s.streams[t] # NULL THEN Result(s, TRUE, s.streams[t])
    ELSE IF s.bad THEN Result(s, FALSE, NULL)
    ELSE Kept(read, t)

GetStream(s, t) == StreamOr(s, t, StreamRead(SeekToStreamType(s, t), t, SizeOf(t)))

\* GetStream of a stream of one fixed size.
GetFixed(s, t) == StreamOr(s, t, FixedRead(SeekToStreamType(s, t), SizeOf(t)))
---------------------------------------------------------------------------
(* Contexts.                                                               *)

\* Sizes in cells; the first cell has the flags.
ContextSize == [x86 |-> 2, sparc |-> 3, arm |-> 3, ppc |-> 4, mips |-> 5, mips64 |-> 5,
                amd64 |-> 6, ppc64 |-> 7, arm64 |-> 8]

\* The types that are told by their size.
Sized == {"amd64", "ppc64", "arm64"}

\* The CPU type of an architecture, if it has one: x86_win64, msil, alpha64
\* and unknown ones have none.
CPUFlags(arch) == IF arch \in DOMAIN ContextSize THEN arch ELSE "none"

OfSystem(s, info) == [s |-> s, ok |-> ~s.bad, cpu |-> IF info = NULL THEN "none" ELSE CPUFlags(Get(info, "arch"))]

Stays(g, pos) == OfSystem(g.s, g.val)
Returns(g, pos) == OfSystem(SeekSet(g.s, pos), g.val)

GetContextCPUFlags_Stays(s) == Stays(GetFixed(s, "SystemInfo"), s.pos)

\* GetContextCPUFlagsFromSystemInfo, which goes back to where it was.
GetContextCPUFlags(s) == Returns(GetFixed(s, "SystemInfo"), s.pos)

Agrees(cpu, arch) == arch = cpu \/ (cpu = "x86" /\ arch \in {"x86_win64", "amd64"})

Checked(g, cpu) == [s |-> g.s, ok |-> g.val = NULL \/ Agrees(cpu, Get(g.val, "arch"))]

CheckAgainstSystemInfo(s, cpu) == Checked(GetFixed(s, "SystemInfo"), cpu)

\* What the flags say; MD_CONTEXT_ARM_OLD counts where the size tells nothing.
FlagsCPU(c, sized) ==
    LET cpu == Get(c, "cpu")
    IN  IF cpu = "arm_old" THEN (IF sized = {} THEN "arm" ELSE "none") ELSE cpu

\* The CPU type in the flags of the finished context: the one that was found is
\* put into them, but ppc64 and arm64 contexts get the flags of the file.
ContextFlags(named, cpu, sized) == IF sized \in {{"ppc64"}, {"arm64"}} THEN named ELSE cpu

\* A finished context, if the system info agrees.
Finished(check, context) == Result(check.s, check.ok, context)

\* Flags and registers are there: regs counts from the flags.
ContextRegisters(p, cpu, named, sized) ==
    IF ~p.ok THEN Result(p.s, FALSE, NULL)
    ELSE Finished(CheckAgainstSystemInfo(p.s, cpu),
                  [cpu |-> ContextFlags(named, cpu, sized), read_as |-> cpu,
                   regs |-> [i \in 2..(Len(p.cells) + 1) |-> p.cells[i - 1]]])

\* The CPU type of the flags or, when they have none, of the system info.
NamedCPU(s, named) ==
    IF named = "none" THEN GetContextCPUFlags(s) ELSE [s |-> s, ok |-> TRUE, cpu |-> named]

\* A type told by its size must be the one of the flags, any other one must
\* have the size of its flags.
Fits(cpu, size, sized) ==
    IF sized # {} THEN cpu \in sized ELSE cpu \in DOMAIN ContextSize \ Sized /\ ContextSize[cpu] = size

\* An amd64 context has been read with its flags, others go on behind them.
ContextCPU(info, read, named, size, sized) ==
    IF ~info.ok \/ ~Fits(info.cpu, size, sized) THEN Result(info.s, FALSE, NULL)
    ELSE ContextRegisters(IF sized = {"amd64"} THEN [s |-> info.s, ok |-> TRUE, cells |-> Tail(read)]
                          ELSE ReadBytes(info.s, size - 1), info.cpu, named, sized)

ContextBegun(p, size, sized) ==
    IF ~p.ok THEN Result(p.s, FALSE, NULL)
    ELSE ContextCPU(NamedCPU(p.s, FlagsCPU(p.cells[1], sized)), p.cells, FlagsCPU(p.cells[1], sized), size, sized)

ContextRead(s, size) ==
    ContextBegun(ReadBytes(s, IF size = ContextSize.amd64 THEN size ELSE 1), size,
                 {c \in Sized : ContextSize[c] = size})

\* A block of memory that a valid descriptor describes.
GetMemory(s, d) ==
    IF FitsIn(Get(d, "start"), Get(d, "size")) THEN Items(LocatedRead(s, Get(d, "size"), Get(d, "rva")))
    ELSE Result(s, FALSE, NULL)

InRegion_Wraps(d, a, w) ==
    /\ FitsIn(Get(d, "start"), Get(d, "size"))
    /\ ~(a < Get(d, "start"))
    /\ ~(Wrap(a + w) > Wrap(Get(d, "start") + Get(d, "size")))

\* GetMemoryAtAddress: whether w bytes at an address are inside the region.
InRegion(d, a, w) ==
    /\ FitsIn(Get(d, "start"), Get(d, "size"))
    /\ ~(a < Get(d, "start")) /\ ~(w > AddrSpace - 1 - a)
    /\ ~(Wrap(a + w) > Wrap(Get(d, "start") + Get(d, "size")))

\* A part, from the stream that has it.
Owner(p) ==
    CASE p[1] \in {"context", "stack"} -> "ThreadList"
      [] p[1] = "region"    -> "MemoryList"
      [] p[1] = "exception" -> "Exception"
      [] p[1] = "csd"       -> "SystemInfo"

InStream(p, v) ==
    CASE p[1] \in {"context", "stack"} -> p[2] \in DOMAIN v
      [] p[1] = "region" -> p[2] \in DOMAIN v.items
      [] OTHER -> TRUE

ContextAt(s, rva, size) == IF s.bad THEN Result(s, FALSE, NULL) ELSE ContextRead(SeekSet(s, rva), size)

\* A thread has a stack of its own unless the descriptor is empty or wraps.
HasStack(t) == Get(t, "rva") # 0 /\ Get(t, "size") # 0 /\ FitsIn(Get(t, "start"), Get(t, "size"))

\* What in a stream describes a part.
Described(p, v) ==
    CASE p[1] \in {"context", "stack"} -> v[p[2]]
      [] p[1] = "region" -> v.items[p[2]]
      [] OTHER -> v

DescribedRead(s, kind, d) ==
    CASE kind \in {"context", "exception"} -> ContextAt(s, Get(d, "crva"), Get(d, "csize"))
      [] kind = "stack"  -> IF HasStack(d) THEN GetMemory(s, d) ELSE Result(s, FALSE, NULL)
      [] kind = "region" -> GetMemory(s, d)
      [] kind = "csd"    -> ReadString(s, Get(d, "csd"))

PartRead(s, p, v) == DescribedRead(s, p[1], Described(p, v))
---------------------------------------------------------------------------
(* Operations.                                                             *)

Nothing == [t \in StreamTypes |-> NULL]

DropParts_Not(parts) == parts

\* The destructors of what a stream was read into.
DropParts(parts) == [p \in Parts |-> NULL]

Entries(p) ==
    LET n == Get(p.cells[1], "n")
        s == SeekSet(p.s, Get(p.cells[1], "directory"))
    IN  IF n = 0 THEN [s |-> s, ok |-> TRUE, cells |-> <<>>] ELSE IF n > MaxItems THEN NotRead(s) ELSE ReadBytes(s, n)

\* A later entry of a type replaces an earlier one.
StreamMap(entries) ==
    [t \in {Get(entries[i], "type") : i \in DOMAIN entries} |->
        entries[Max({i \in DOMAIN entries : Get(entries[i], "type") = t})]]

\* The directory, behind a header that has been read and is one.
ReadDirectory(p) ==
    \E e \in {IF p.ok /\ Get(p.cells[1], "signature") \in {"MDMP", "PMDM"} /\ Get(p.cells[1], "version") = TRUE
             THEN Entries(p) ELSE NotRead(p.s)} :
       /\ valid' = (/\ e.ok
                    /\ \A i, j \in DOMAIN e.cells :
                          Get(e.cells[i], "type") = Get(e.cells[j], "type") /\ Get(e.cells[i], "type") \in SingleStreams => i = j)
       /\ directory' = IF valid' THEN StreamMap(e.cells) ELSE <<>>
       /\ rd' = e.s

\* Read(): what was read before is dropped, the file opened or gone back to
\* its beginning, and header and directory are read.
Read ==
    /\ reads < MaxReads
    /\ reads' = reads + 1
    /\ \E p \in {ReadBytes(SeekSet([rd EXCEPT !.streams = Nothing], 0), 1)} : ReadDirectory(p)
    /\ lazy' = DropParts(lazy)
    /\ UNCHANGED <<dump, len>>

\* GetThreadList() and its like.
Get_Stream(t) ==
    /\ valid
    /\ rd' = GetStream(rd, t).s
    /\ UNCHANGED <<dump, len, reads, valid, directory, lazy>>

\* GetContext(), GetMemory(), GetCSDVersion().
Get_Part(p) ==
    /\ rd.streams[Owner(p)] # NULL
    /\ InStream(p, rd.streams[Owner(p)])
    /\ lazy[p] = NULL
    /\ \E r \in {PartRead(rd, p, rd.streams[Owner(p)])} :
          rd' = r.s /\ lazy' = [lazy EXCEPT ![p] = r.val]
    /\ UNCHANGED <<dump, len, reads, valid, directory>>

FreeMemory(p) ==
    /\ p[1] \in {"stack", "region"}
    /\ lazy[p] # NULL
    /\ lazy' = [lazy EXCEPT ![p] = NULL]
    /\ UNCHANGED <<dump, len, reads, valid, directory, rd>>

\* A module's records are asked for again when there was none.
Get_Records(i) ==
    /\ rd.streams["ModuleList"] # NULL
    /\ i \in DOMAIN rd.streams["ModuleList"].items
    /\ \E m \in {rd.streams["ModuleList"].items[i]} :
       \E c \in {IF m.cv = NULL THEN GetCVRecord(rd, m.raw) ELSE Result(rd, TRUE, m.cv)} :
       \E d \in {IF m.misc = NULL THEN GetMiscRecord(c.s, m.raw) ELSE Result(c.s, TRUE, m.misc)} :
          rd' = [d.s EXCEPT !.streams["ModuleList"].items[i] = [m EXCEPT !.cv = c.val, !.misc = d.val]]
    /\ UNCHANGED <<dump, len, reads, valid, directory, lazy>>

Init ==
    /\ dump \in Dumps
    /\ len \in 0..Len(Cells[dump])
    /\ reads = 0
    /\ valid = FALSE
    /\ directory = <<>>
    /\ rd \in [pos : {0}, bad : BOOLEAN, streams : {Nothing}]   \* bad: it could not be opened
    /\ lazy = [p \in Parts |-> NULL]

Next ==
    \/ Read
    \/ \E t \in StreamTypes : Get_Stream(t)
    \/ \E p \in Parts : Get_Part(p) \/ FreeMemory(p)
    \/ \E i \in 1..MaxItems : Get_Records(i)

Spec == Init /\ [][Next]_minidump
---------------------------------------------------------------------------
TypeOK ==
    /\ dump \in Dumps /\ len \in 0..Len(Cells[dump]) /\ reads \in 0..MaxReads
    /\ valid \in BOOLEAN /\ (~valid => directory = <<>>)
    /\ rd.pos \in Nat /\ rd.bad \in BOOLEAN
    /\ \A t \in StreamTypes : rd.streams[t] # NULL => t \in DOMAIN directory
    /\ \A p \in Parts : lazy[p] # NULL => rd.streams[Owner(p)] # NULL

\* The state of a reader that has read the directory and nothing else.
Fresh == [pos |-> 0, bad |-> FALSE, streams |-> Nothing]

PartsOf(t, v) == {p \in Parts : Owner(p) = t /\ InStream(p, v)}

\* Whatever has been asked for before, in whatever order, and however it has
\* moved the position: as long as no read has failed, a stream or a part is
\* what it would be if it were asked for first, and what is kept is that too.
\* Not so the list of modules: a module whose CodeView record is refused has
\* no misc record until that is asked for by itself (OwnData says what it is).
SameAnswers ==
    valid /\ ~rd.bad =>
        \A t \in (DOMAIN directory \cap StreamTypes) \ {"ModuleList"} :
           \E now \in {GetStream(rd, t)}, fresh \in {GetStream(Fresh, t)} :
              /\ now.val = fresh.val
              /\ fresh.val # NULL =>
                    \A p \in PartsOf(t, fresh.val) :
                       \E part \in {PartRead(fresh.s, p, fresh.val).val} :
                          /\ PartRead(now.s, p, now.val).val = part
                          /\ lazy[p] # NULL => lazy[p] = part

\* The cells from an offset on.
Block(offset, n) == [i \in 1..n |-> CellAt(offset + i - 1)]

\* What is kept was read from where the file says it is, all of it: the items
\* of a list from the end of its stream, registers from behind their flags,
\* memory and names from their own places, also after a read has failed.
OwnData ==
    /\ \A t \in StreamTypes : rd.streams[t] # NULL =>
          LET v == rd.streams[t]
              at == Get(directory[t], "rva")
              Tail_(n) == Block(at + SizeOf(t) - n, n)
          IN  CASE t = "ThreadList" -> v = Tail_(Len(v))
                [] t \in {"MemoryList", "MemoryInfoList"} -> v.items = Tail_(Len(v.items))
                [] t = "ModuleList" ->
                      \A i \in DOMAIN v.items :
                         LET m == v.items[i]
                         IN  /\ m.raw = Tail_(Len(v.items))[i]
                             /\ m.name = Get(CellAt(Get(m.raw, "name")), "text")
                             /\ m.cv # NULL => m.cv = CellAt(Location(m.raw, "cv").rva)
                             /\ m.misc # NULL => m.misc = CellAt(Location(m.raw, "misc").rva)
                [] t = "LinuxMaps" -> v = Block(at, SizeOf(t))
                [] OTHER -> v = CellAt(at)
    /\ \A p \in Parts : lazy[p] # NULL =>
          LET v == rd.streams[Owner(p)]
          IN  CASE p[1] = "context" -> \A i \in DOMAIN lazy[p].regs : lazy[p].regs[i] = CellAt(Get(v[p[2]], "crva") + i - 1)
                [] p[1] = "exception" -> \A i \in DOMAIN lazy[p].regs : lazy[p].regs[i] = CellAt(Get(v, "crva") + i - 1)
                [] p[1] = "stack" -> lazy[p] = Block(Get(v[p[2]], "rva"), Get(v[p[2]], "size"))
                [] p[1] = "region" -> lazy[p] = Block(Get(v.items[p[2]], "rva"), Get(v.items[p[2]], "size"))
                [] p[1] = "csd" -> lazy[p] = Get(CellAt(Get(v, "csd")), "text")

\* A module that is found for an address has that address, also when its range
\* was moved behind the module before it.  No address of a module is lost when
\* the list is in the order of the addresses; a module that begins before the
\* one in front of it, or behind an ignored mapping, keeps only what is left.
ModulesHaveTheirAddresses ==
    rd.streams["ModuleList"] # NULL =>
        LET v == rd.streams["ModuleList"]
            Base(i) == Get(v.items[i].raw, "base")
            Has(i, a) == Base(i) <= a /\ a < Base(i) + Get(v.items[i].raw, "size")
            InOrder == \A i \in DOMAIN v.items \ {1} : Base(i - 1) <= Base(i) /\ ~IsAshmem(v.items[i - 1])
        IN  \A a \in 0..(AddrSpace - 1) :
               /\ RetrieveRange(v.map, a, 0) # 0 => Has(RetrieveRange(v.map, a, 0), a)
               /\ RetrieveRange(v.map, a, 0) = 0 /\ InOrder =>
                     \A i \in DOMAIN v.items : Has(i, a) => IsAshmem(v.items[i])

\* Memory is read inside its region only, although address and size wrap.
AccessInside ==
    \A p \in Parts : p[1] \in {"stack", "region"} /\ lazy[p] # NULL =>
        LET v == rd.streams[Owner(p)]
            d == IF p[1] = "stack" THEN v[p[2]] ELSE v.items[p[2]]
        IN  \A a \in 0..(AddrSpace - 1), w \in {1, 2, 4, 8} :
               InRegion(d, a, w) => a >= Get(d, "start") /\ a + w - Get(d, "start") <= Len(lazy[p])

\* Once a read has run past the end of the file nothing more can be read: no
\* stream and no part comes to be kept, and Read() does not succeed again.
FailureIsFinal ==
    [][rd.bad => /\ rd'.bad
                 /\ valid' => valid
                 /\ \A t \in StreamTypes : rd'.streams[t] \in {rd.streams[t], NULL}
                 /\ \A p \in Parts : lazy'[p] \in {lazy[p], NULL}]_minidump
=============================================================================
