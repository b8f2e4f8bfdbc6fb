----------------------------- MODULE MCMinidump -----------------------------
(* Files for Minidump: each is small and has what makes its readers move.   *)
EXTENDS Minidump

DirHeader(n)          == [k |-> "header", signature |-> "MDMP", version |-> TRUE, n |-> n, directory |-> 1]
Entry(t, size, at) == [k |-> "entry", type |-> t, size |-> size, rva |-> at]
System(arch, csd)  == [k |-> "system", arch |-> arch, os |-> "linux", csd |-> csd]
Count(n)           == [k |-> "count", n |-> n]
Padding            == [k |-> "padding"]
Thread(id, start, size, at, csize, crva) ==
    [k |-> "thread", id |-> id, start |-> start, size |-> size, rva |-> at, csize |-> csize, crva |-> crva]
Region(start, size, at) == [k |-> "region", start |-> start, size |-> size, rva |-> at]
Fault(id, csize, crva)  ==
    [k |-> "exception", id |-> id, csize |-> csize, crva |-> crva, code |-> "access_violation", benign |-> FALSE,
     address |-> 3, parameters |-> 2, parameter |-> 5]
Breakpad(dumper, requester) == [k |-> "breakpad", dumper |-> dumper, requester |-> requester]
Map(base, size, path, exec) == [k |-> "map", base |-> base, size |-> size, path |-> path, exec |-> exec]
Flags(cpu)  == [k |-> "flags", cpu |-> cpu]
Regs(r)     == [k |-> "regs", of |-> r, ip |-> r, sp |-> r + 4]
Bytes(b)    == [k |-> "bytes", of |-> b]
Text(t)     == [k |-> "text", n |-> 1, odd |-> FALSE, text |-> t]
Word        == [k |-> "word"]
Loc(size, at) == [size |-> size, rva |-> at]
Module(base, size, name, cv, misc) ==
    [k |-> "module", base |-> base, size |-> size, name |-> name, cv |-> cv, misc |-> misc]
Record(n, good) == [k |-> "record", n |-> n, wellformed |-> good]

\* Two threads, the first with CPU-less flags, the second crashed; system info
\* comes behind the contexts that need it.
Crash == <<
    DirHeader(3), Entry("ThreadList", 4, 4), Entry("Exception", 1, 8), Entry("SystemInfo", 1, 15),
    Count(2), Padding, Thread(1, 2, 2, 13, 2, 9), Thread(2, 0, 0, 0, 2, 11),
    Fault(2, 2, 18),
    Flags("none"), Regs(1), Flags("x86"), Regs(2), Bytes(1), Bytes(2),
    System("x86", 16), Text("SP1"), Word,
    Flags("none"), Regs(3) >>

\* Contexts of each reading: in one piece, by size, by flags, old ARM flags.
Contexts == <<
    DirHeader(3), Entry("ThreadList", 4, 4), Entry("Exception", 1, 8), Entry("SystemInfo", 1, 28),
    Count(3), Thread(1, 0, 0, 0, 6, 9), Thread(2, 0, 0, 0, 8, 15), Thread(3, 0, 0, 0, 3, 23),
    Fault(2, 2, 26),
    Flags("none"), Regs(1), Regs(2), Regs(3), Regs(4), Regs(5),
    Flags("none"), Regs(1), Regs(2), Regs(3), Regs(4), Regs(5), Regs(6), Regs(7),
    Flags("arm_old"), Regs(8), Regs(9),
    Flags("x86"), Regs(9),
    System("arm64", 29), Text("SP1"), Word >>

\* An amd64 process; one context is of another CPU, one has the wrong size.
Amd64 == [Contexts EXCEPT ![29] = System("amd64", 29), ![8] = Thread(3, 0, 0, 0, 2, 23)]

\* Modules that lie apart, overlap, or are inside one another.
Modules(b) == <<
    DirHeader(1), Entry("ModuleList", 4, 2),
    Count(3), Module(0, 4, 6, Loc(1, 8), Loc(1, 9)), Module(b, 4, 6, Loc(1, 10), Loc(1, 9)),
    Module(9, 4, 11, Loc(2, 90), Loc(0, 0)),
    Text("lib"), Word, Record(1, TRUE), Record(1, TRUE), Record(1, FALSE), Text("app"), Word >>

Inside == [Modules(4) EXCEPT ![6] = Module(5, 2, 11, Loc(0, 0), Loc(0, 0))]

\* An ignored mapping between two modules, and one that the copy cannot hold.
Ashmem == [Modules(2) EXCEPT ![12] = Text("/dev/ashmem/"), ![6] = Module(1, 2, 11, Loc(0, 0), Loc(0, 0))]

\* Memory, memory info, miscellaneous and the maps.
Lists == <<
    DirHeader(6), Entry("MemoryList", 3, 7), Entry("LinuxMaps", 1, 16), Entry("MiscInfo", 2, 10), Entry("Assertion", 1, 12),
    Entry("MemoryInfoList", 3, 13), Entry("LinuxMaps", 2, 16),
    Count(2), Region(4, 2, 18), Region(13, 2, 19),
    [k |-> "misc", n |-> 2], Bytes(1), [k |-> "assertion", type |-> 1],
    [k |-> "infos", sizes |-> TRUE, n |-> 2], Region(0, 2, 0), Region(2, 2, 0),
    Map(0, 2, "app", TRUE), Map(4, 2, "", FALSE),
    Bytes(4), Bytes(5), Bytes(6) >>

Twice == <<
    DirHeader(2), Entry("ThreadList", 1, 3), Entry("ThreadList", 1, 3), Count(0) >>

\* The dump's writer, which comes first, has no stack; the thread it asks for
\* has one in the list of regions only.
Asked == <<
    DirHeader(4), Entry("ThreadList", 3, 5), Entry("BreakpadInfo", 1, 12), Entry("MemoryList", 2, 8), Entry("SystemInfo", 1, 14),
    Count(2), Thread(1, 0, 0, 0, 2, 10), Thread(2, 4, 0, 0, 2, 10),
    Count(1), Region(4, 1, 13),
    Flags("x86"), Regs(1), Breakpad(1, 2), Bytes(1), System("x86", 15), Text("SP1"), Word >>

\* A thread without a context of its own; the next one has one.
OneBad == [Asked EXCEPT ![7] = Thread(1, 0, 0, 0, 2, 90), ![13] = Breakpad(4, 2)]

\* A crash with all that a rating looks at.
Rated(stack) == <<
    DirHeader(4), Entry("ThreadList", 2, 5), Entry("Exception", 1, 7), Entry("SystemInfo", 1, 8), Entry("LinuxMaps", 2, 9),
    Count(1), Thread(1, 0, 0, 0, 2, 11), Fault(1, 2, 13), System("x86", 15),
    Map(0, 2, "app", TRUE), Map(4, 3, "[stack]", stack),
    Flags("x86"), Regs(0), Flags("x86"), Regs(1), Text("SP1"), Word >>

Benign  == [Rated(FALSE) EXCEPT ![8] = [Fault(1, 2, 13) EXCEPT !.benign = TRUE]]
Windows == [Rated(FALSE) EXCEPT ![9] = [System("x86", 15) EXCEPT !.os = "windows"]]

MCCells == [crash |-> Crash, contexts |-> Contexts, amd64 |-> Amd64, apart |-> Modules(5), overlap |-> Modules(2),
            inside |-> Inside, ashmem |-> Ashmem, lists |-> Lists, twice |-> Twice,
            asked |-> Asked, onebad |-> OneBad, rated |-> Rated(FALSE), stack |-> Rated(TRUE), benign |-> Benign, windows |-> Windows]
=============================================================================
