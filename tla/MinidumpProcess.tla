-------------------------- MODULE MinidumpProcess --------------------------
(***************************************************************************)
(* MinidumpProcessor::Process of minidump_processor.cc over the reader of   *)
(* Minidump, which it may meet in any state its other users leave it in;    *)
(* the rating of exploitability_linux.cc; and the trace that rfStackTrace.cc *)
(* and stackwalk_common.cc make of the result.  A stack is what was walked  *)
(* and with which context and memory; StackWalk has the frames.             *)
(***************************************************************************)
EXTENDS Minidump, SequencesExt

CONSTANTS
    MaxProcess,             \* bound on calls of Process()
    EnableExploitability    \* enable_exploitability_

\* NULL is none of the results of Process().
ASSUME ProcessAssumption == MaxProcess \in Nat \ {0} /\ NULL \notin {"no_header", "ok", "interrupted"}

VARIABLES
    processing, \* Process()'s place and locals
    ps,         \* the ProcessState it fills
    trace       \* the thread indices of the RfStackTrace

vars == <<minidump, processing, ps, trace>>
---------------------------------------------------------------------------
\* Reading: m has the reader and the parts.
Reading == [s |-> rd, lazy |-> lazy]

Ask(m, t) == [m EXCEPT !.s = GetFixed(@, t).s]

AskList(m, t) == [m EXCEPT !.s = GetStream(@, t).s]

\* A part of a stream that has been read: read now or kept.
WithPart(r, m, p) == [s |-> r.s, lazy |-> [m.lazy EXCEPT ![p] = r.val]]

PartOf(m, p) == IF m.lazy[p] # NULL THEN m ELSE WithPart(PartRead(m.s, p, m.s.streams[Owner(p)]), m, p)

Cleared_AllButThreads(p) == [p EXCEPT !.crashed = FALSE, !.requesting = -1, !.modules = {}]

\* ProcessState::Clear() leaves regions and rating as they are.
Cleared(p) == [p EXCEPT !.crashed = FALSE, !.address = 0, !.assertion = FALSE, !.system = "",
                        !.requesting = -1, !.threads = <<>>, !.modules = {}]

GetProcessCreateTime(m) ==
    [m EXCEPT !.s = StreamOr(@, "MiscInfo", MiscInfoRead(SeekToStreamType(@, "MiscInfo"), SizeOf("MiscInfo"))).s]

GetAssertion(m) == Ask(m, "Assertion")

GetCPUInfo(m) == Ask(m, "SystemInfo")

GetCSDVersion(m) == IF m.s.streams["SystemInfo"] = NULL THEN m ELSE PartOf(m, <<"csd", 0>>)

GetOSInfo(m) == GetCSDVersion(Ask(m, "SystemInfo"))

\* The address of a Windows access violation or page error is its second
\* parameter, if it has one.
CrashAddress(e, system) ==
    IF /\ system # NULL /\ Get(system, "os") = "windows"
       /\ Get(e, "code") \in {"access_violation", "in_page_error"} /\ Get(e, "parameters") >= 2
    THEN e.parameter ELSE Get(e, "address")

\* The reason's name is left out: it is looked up by system and code.
CrashReason(m) == IF m.s.streams["Exception"] = NULL THEN m ELSE Ask(m, "SystemInfo")

GetCrashReason(m) == CrashReason(Ask(m, "Exception"))

Fitting(map, m, i) == IF Storable(map, Get(m, "base"), Get(m, "size")) THEN StoreRange(map, Get(m, "base"), Get(m, "size"), i) ELSE map

Copy_Backwards(v) == FoldRight(LAMBDA i, map : Fitting(map, v.items[i].raw, i), [i \in DOMAIN v.items |-> i], {})

\* BasicCodeModules: the modules in the order of the file, each with all of
\* its range; those that do not fit are left out.
Copy(v) == FoldLeft(LAMBDA map, i : Fitting(map, v.items[i].raw, i), {}, [i \in DOMAIN v.items |-> i])

\* A module with debug information asks for the system info to name itself.
CopyModules(m) ==
    IF /\ m.s.streams["ModuleList"] # NULL
       /\ \E i \in DOMAIN m.s.streams["ModuleList"].items : m.s.streams["ModuleList"].items[i].debug
    THEN Ask(m, "SystemInfo") ELSE m

\* What Process() asks for before it comes to the threads.
Gathered(m) ==
    AskList(AskList(CopyModules(AskList(GetAssertion(GetCrashReason(Ask(Ask(GetOSInfo(GetCPUInfo(GetProcessCreateTime(m))),
                                                                            "BreakpadInfo"), "Exception"))), "ModuleList")),
                    "MemoryList"), "ThreadList")

Ending(result) == [processing EXCEPT !.pc = "idle", !.result = result]

Called == [processing EXCEPT !.calls = @ + 1, !.found = FALSE, !.interrupted = FALSE, !.k = 1, !.result = NULL]

NoHeader ==
    /\ ~valid
    /\ processing' = [Called EXCEPT !.result = "no_header"]
    /\ ps' = Cleared(ps)
    /\ UNCHANGED <<rd, lazy>>

\* The thread that wrote the dump, and the one that crashed or asked for it.
ToThreads(exception, breakpad) ==
    [Called EXCEPT !.pc = "threads",
                   !.dumper = IF breakpad = NULL THEN NULL ELSE breakpad.dumper,
                   !.wanted = IF exception # NULL THEN exception.id
                              ELSE IF breakpad # NULL THEN breakpad.requester ELSE NULL]

Header ==
    /\ valid
    /\ \E m \in {Gathered(Reading)} : \E has \in {m.s.streams} :
          /\ rd' = m.s /\ lazy' = m.lazy
          /\ ps' = [Cleared(ps) EXCEPT
                       !.crashed = has["Exception"] # NULL,
                       !.address = IF has["Exception"] = NULL THEN 0 ELSE CrashAddress(has["Exception"], has["SystemInfo"]),
                       !.assertion = has["Assertion"] # NULL,
                       !.system = IF has["SystemInfo"] = NULL THEN "" ELSE has["SystemInfo"].arch,
                       !.modules = IF has["ModuleList"] = NULL THEN {} ELSE Copy(has["ModuleList"])]
          /\ processing' = IF has["ThreadList"] = NULL THEN [Called EXCEPT !.result = "no_thread_list"]
                           ELSE ToThreads(has["Exception"], has["BreakpadInfo"])

\* Process(), up to the loop over the threads.
Process ==
    /\ processing.pc = "idle"
    /\ processing.calls < MaxProcess
    /\ NoHeader \/ Header
    /\ trace' = NULL
    /\ UNCHANGED <<dump, len, reads, valid, directory>>

\* The thread's own stack, or else the region of the memory list that has its
\* lowest address.
RegionAt(l, start) == IF l = NULL \/ start = 0 THEN 0 ELSE RetrieveRange(l.map, start, 0)

StackMemory(t, k, l) ==
    IF HasStack(t) THEN <<"stack", k>>
    ELSE IF RegionAt(l, Get(t, "start")) # 0 THEN <<"region", RegionAt(l, Get(t, "start"))>> ELSE NULL

CrashedContext_Own(m, k) == <<"context", k>>

\* The context of the thread that crashed: the exception's, if it can be read.
CrashedContext(m, k) == IF m.lazy[<<"exception", 0>>] # NULL THEN <<"exception", 0>> ELSE <<"context", k>>

\* A thread's context is asked for first, and once more when there is no other.
OrOwn(m, k) == IF m.lazy[<<"exception", 0>>] # NULL THEN m ELSE PartOf(m, <<"context", k>>)

WithContext(m, k, crashed) == IF crashed THEN OrOwn(PartOf(m, <<"exception", 0>>), k) ELSE m

\* The index of the thread whose stack comes next.
NextIndex_Last(p, k) == IF p.threads = <<>> THEN 0 ELSE Len(p.threads) - 1

NextIndex(p, k) == Len(p.threads)

\* A stack, empty when there is no context of a known CPU.  A walk may use the
\* memory, and the symbol supplier may interrupt it.
Process_Stack(m, k, id, of, mem) ==
    \E used, interrupted \in BOOLEAN, walker \in {m.lazy[of] # NULL /\ m.lazy[of].cpu # "none"} :
       /\ used => walker /\ mem # NULL
       /\ interrupted => walker
       /\ \E n \in {IF used THEN PartOf(m, mem) ELSE m} : rd' = n.s /\ lazy' = n.lazy
       /\ processing' = [processing EXCEPT !.k = @ + 1, !.found = @ \/ id = processing.wanted,
                                           !.interrupted = @ \/ interrupted]
       /\ ps' = [ps EXCEPT !.requesting = IF id = processing.wanted THEN NextIndex(ps, k) ELSE @,
                           !.threads = Append(@, [id |-> id, of |-> of, walked |-> walker, mem |-> mem]),
                           !.regions = Append(@, mem)]

\* The thread that wrote the dump has no stack.
Process_Dumper ==
    /\ rd.streams["ThreadList"][processing.k].id = processing.dumper
    /\ processing' = [processing EXCEPT !.k = @ + 1]
    /\ UNCHANGED <<rd, lazy, ps>>

Process_Other(k, t, crashed) ==
    /\ t.id # processing.dumper
    /\ \E m \in {PartOf(Reading, <<"context", k>>)} :
          IF t.id = processing.wanted /\ processing.found
          THEN processing' = Ending("duplicate_requesting_threads") /\ rd' = m.s /\ lazy' = m.lazy /\ UNCHANGED ps
          ELSE \E n \in {WithContext(m, k, crashed)} :
                  Process_Stack(n, k, t.id, IF crashed THEN CrashedContext(n, k) ELSE <<"context", k>>,
                                StackMemory(t, k, rd.streams["MemoryList"]))

\* One round of the loop.
Process_Thread ==
    /\ processing.pc = "threads"
    /\ processing.k <= Len(rd.streams["ThreadList"])
    /\ \/ Process_Dumper
       \/ \E t \in {rd.streams["ThreadList"][processing.k]} :
             Process_Other(processing.k, t, t.id = processing.wanted /\ ps.crashed)
    /\ UNCHANGED <<dump, len, reads, valid, directory, trace>>
---------------------------------------------------------------------------
(* The rating.                                                             *)

\* The map that has an address, or 0.
GetLinuxMapsForAddress(maps, a) ==
    Min({i \in DOMAIN maps : maps[i].base <= a /\ a < maps[i].base + maps[i].size} \cup {Len(maps) + 1}) % (Len(maps) + 1)

InstructionPointerInCode(maps, ip) == \E i \in {GetLinuxMapsForAddress(maps, ip)} : i # 0 /\ maps[i].exec

StackPointerOffStack(maps, sp) ==
    \E i \in {GetLinuxMapsForAddress(maps, sp)} : i = 0 \/ maps[i].path \notin {"", "[stack]"}

ExecutableStackOrHeap(maps) == \E i \in DOMAIN maps : maps[i].path \in {"[stack]", "[heap]"} /\ maps[i].exec

Rating(m, rating) == [m |-> m, rating |-> rating]

RatedByMaps(m, maps, regs) ==
    Rating(m, IF \/ ~InstructionPointerInCode(IF maps = NULL THEN <<>> ELSE maps, regs[2].ip)
                 \/ maps # NULL /\ (StackPointerOffStack(maps, regs[2].sp) \/ ExecutableStackOrHeap(maps))
              THEN "high" ELSE "interesting")

MapsRead(l, m, context) == RatedByMaps([m EXCEPT !.s = l.s], l.val, context.regs)

WithMaps(m, context) ==
    IF context = NULL THEN Rating(m, "err_processing")
    ELSE IF context.cpu = "none" THEN Rating(m, "err_processing")
    ELSE MapsRead(StreamOr(m.s, "LinuxMaps", LinuxMapsListRead(m.s, SizeOf("LinuxMaps"))), m, context)

RatedByContext(m) == WithMaps(m, m.lazy[<<"exception", 0>>])

OfException(m, e) ==
    IF e = NULL THEN Rating(m, "err_processing")
    ELSE IF Get(e, "benign") = TRUE THEN Rating(m, "none")
    ELSE RatedByContext(PartOf(m, <<"exception", 0>>))

AfterException(m) == OfException(m, m.s.streams["Exception"])

\* checked: a frame of the requesting thread is in a function that reports a
\* smashed stack or a bounds error.
CheckPlatformExploitability(m, checked) ==
    IF checked THEN Rating(m, "high") ELSE AfterException(Ask(m, "Exception"))

\* Only Windows and Linux have an engine; the one for Windows is not here.
Engine(m, info, checked) ==
    CASE info # NULL /\ Get(info, "os") = "linux"   -> CheckPlatformExploitability(m, checked)
      [] info # NULL /\ Get(info, "os") = "windows" -> Rating(m, "of_windows")
      [] OTHER -> Rating(m, "err_noengine")

ExploitabilityForPlatform(g, m, checked) == Engine([m EXCEPT !.s = g.s], g.val, checked)

\* Process() behind its loop.
Process_End ==
    /\ processing.pc = "threads"
    /\ processing.k > Len(rd.streams["ThreadList"])
    /\ IF processing.interrupted THEN processing' = Ending("interrupted") /\ UNCHANGED <<ps, rd, lazy>>
       ELSE /\ processing' = Ending("ok")
            /\ IF ~EnableExploitability THEN ps' = [ps EXCEPT !.rating = "not_analyzed"] /\ UNCHANGED <<rd, lazy>>
               ELSE \E checked \in {FALSE} \cup {ps.requesting # -1 /\ ps.threads[ps.requesting + 1].walked} :
                    \E x \in {ExploitabilityForPlatform(GetFixed(rd, "SystemInfo"), Reading, checked)} :
                       ps' = [ps EXCEPT !.rating = x.rating] /\ rd' = x.m.s /\ lazy' = x.m.lazy
    /\ UNCHANGED <<dump, len, reads, valid, directory, trace>>

RfPrintProcessState_All(p) == [i \in DOMAIN p.threads |-> i - 1]

\* The requesting thread first, then the others; a thread is named by its index.
RfPrintProcessState(p) ==
    [i \in DOMAIN p.threads |-> IF p.requesting = -1 \/ i > p.requesting + 1 THEN i - 1
                                ELSE IF i = 1 THEN p.requesting ELSE i - 2]

\* RfMinidumpProcess, which prints what Process() has made; the memory is the
\* one at the thread's index.
RfMinidumpProcess ==
    /\ processing.pc = "idle" /\ processing.result = "ok" /\ trace = NULL
    /\ trace' = [i \in DOMAIN ps.threads |-> [index |-> RfPrintProcessState(ps)[i],
                                              mem   |-> ps.regions[RfPrintProcessState(ps)[i] + 1]]]
    /\ UNCHANGED <<minidump, processing, ps>>
---------------------------------------------------------------------------
ProcessInit ==
    /\ Init
    /\ processing = [pc |-> "idle", k |-> 1, calls |-> 0, result |-> NULL, dumper |-> NULL, wanted |-> NULL,
                     found |-> FALSE, interrupted |-> FALSE]
    /\ ps = [crashed |-> FALSE, address |-> 0, assertion |-> FALSE, system |-> "", requesting |-> -1,
             threads |-> <<>>, modules |-> {}, regions |-> <<>>, rating |-> "not_analyzed"]
    /\ trace = NULL

\* Other calls come between calls of Process(); one that reads the file again
\* or frees memory ends the use of what was made of it.
Other ==
    /\ processing.pc = "idle"
    /\ Next
    /\ UNCHANGED <<processing, ps, trace>>

ProcessNext == Other \/ Process \/ Process_Thread \/ Process_End \/ RfMinidumpProcess

ProcessSpec == ProcessInit /\ [][ProcessNext]_vars
---------------------------------------------------------------------------
Threads == rd.streams["ThreadList"]

Walked == processing.pc = "idle" /\ processing.result \in {"ok", "interrupted"}

\* Every thread of the file but the one that wrote the dump has a stack, in the
\* order of the file, and the memory is kept in that order too, behind what
\* an earlier call has left there: whatever was read before, whatever of it
\* failed, and however often the state is used again.
StacksFollowTheList ==
    /\ Walked /\ Threads # NULL =>
          LET stacked == {i \in DOMAIN Threads : Threads[i].id # processing.dumper}
          IN  /\ Len(ps.threads) = Cardinality(stacked)
              /\ \A i \in stacked : ps.threads[Cardinality({j \in stacked : j <= i})].id = Threads[i].id
    /\ Len(ps.regions) >= Len(ps.threads)
    /\ \A i \in DOMAIN ps.threads :
          ps.regions[Len(ps.regions) - Len(ps.threads) + i] = ps.threads[i].mem

\* requesting_thread_ is the place of the wanted thread's stack, which is
\* another one than its place in the file when the dump's writer comes first;
\* it is -1 only if the wanted thread is not there or wrote the dump.
RequestingThreadIsTheWantedOne ==
    Walked /\ Threads # NULL =>
        IF ps.requesting = -1
        THEN \A i \in DOMAIN Threads : Threads[i].id = processing.wanted => processing.wanted = processing.dumper
        ELSE /\ ps.requesting < Len(ps.threads)
             /\ ps.threads[ps.requesting + 1].id = processing.wanted

\* The stack of the crashed thread is walked from the exception's context, if
\* that can be read, and then the rating is about the same context.
CrashedThreadHasExceptionContext ==
    Walked /\ ps.crashed /\ ps.requesting # -1 =>
        LET of == ps.threads[ps.requesting + 1].of
        IN  /\ of[1] = "exception" \/ lazy[<<"exception", 0>>] = NULL
            /\ processing.result = "ok" /\ ps.rating = "interesting" => of[1] = "exception"

\* The modules the stacks refer to: one that is found for an address has the
\* address, and none is missing but those that overlap one before them, for
\* which the list has only what is left, or nothing.  An ignored mapping may
\* take the place of a module behind it.
CopyKeepsModules ==
    processing.calls > 0 /\ processing.result # "no_header" /\ rd.streams["ModuleList"] # NULL =>
        LET v == rd.streams["ModuleList"]
        IN  /\ \A r \in ps.modules : /\ r.base = Get(v.items[r.index].raw, "base")
                                     /\ r.high = r.base + Get(v.items[r.index].raw, "size") - 1
            /\ (\A i \in DOMAIN v.items : ~IsAshmem(v.items[i])) =>
                  \A r \in v.map : r.base = Get(v.items[r.index].raw, "base") => r \in ps.modules

\* The trace has every stack once, the requesting thread's first, and each with
\* the memory it was walked with, when the state was used for one call only.
TraceHasEveryStack ==
    trace # NULL =>
        /\ {trace[i].index : i \in DOMAIN trace} = 0..(Len(ps.threads) - 1)
        /\ Len(trace) = Len(ps.threads)
        /\ ps.requesting # -1 => trace[1].index = ps.requesting
        /\ processing.calls = 1 => \A i \in DOMAIN trace : trace[i].mem = ps.threads[trace[i].index + 1].mem

\* "don't abort processing the rest of the dump just for one bad thread"
\* (minidump_processor.cc:265): a thread whose context is in the file has its
\* stack walked, whatever is wrong with the threads before it.
OneBadThreadIsNotAll ==
    Walked /\ Threads # NULL =>
        \A i \in DOMAIN ps.threads :
            ps.threads[i].of[1] = "context" /\ valid =>
                \E c \in {PartRead(Fresh, ps.threads[i].of, Threads).val} :
                   c # NULL => ps.threads[i].walked \/ c.cpu = "none"
=============================================================================
