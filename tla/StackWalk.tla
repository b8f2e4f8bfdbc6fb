----------------------------- MODULE StackWalk -----------------------------
(***************************************************************************)
(* Stackwalker::Walk of breakpad with the walkers for x86, amd64, arm,      *)
(* arm64 and for a list of addresses, StackFrameSymbolizer, which all of    *)
(* them ask, and the resolver and the supplier of symbols behind it.        *)
(* An address space is scaled down: a word is two addresses long, and a     *)
(* word read between two others has half of each.  Of the registers there   *)
(* are the instruction pointer, the stack pointer, the frame pointer and    *)
(* the link register; what is said of the others is the same as of these.   *)
(***************************************************************************)
EXTENDS Symbols

CONSTANTS
    Half,           \* the values of half a 32-bit word
    CanonicalEnd,   \* 64-bit pointers between this and its negative are not canonical
    SearchWords,    \* kRASearchWords
    MaxGap,         \* kMaxReasonableGapBetweenFrames
    SymbolFiles,    \* the symbol files there are, by name
    Scenes,         \* what is walked, see TypeOK
    MaxWalks        \* bound on walks

ASSUME HalfAssumption == Half \in Nat \ {0} /\ AddrSpace = Half * Half * Half * Half

ASSUME SearchAssumption == SearchWords \in Nat

\* The registers there are, the values of half a CPU's word and of a word.
Registers == {"ip", "sp", "fp", "lr"}

HalfOf(cpu) == IF cpu \in {"x86", "arm"} THEN Half ELSE Half * Half

WordsOf(cpu) == 0..(HalfOf(cpu) * HalfOf(cpu) - 1)

Addresses == 0..(AddrSpace - 1)

IsList(s) == s \in Seq({s[i] : i \in DOMAIN s})

\* A dump: its modules are a list and have a place, its registers and the
\* words of its memory have the CPU's width, its limits are numbers, and what
\* its suppliers have are symbol files.
IsScene(s) ==
    /\ s.limits.frames \in Nat /\ s.limits.scanned \in Nat
    /\ s.modules # NULL => IsList(s.modules) /\ \A i \in DOMAIN s.modules : s.modules[i].base \in Nat
    /\ IsList(s.roots)
    /\ \A r \in DOMAIN s.roots : \A path \in DOMAIN s.roots[r] : s.roots[r][path] \in DOMAIN SymbolFiles
    /\ s.addresses \in Seq(Addresses)
    /\ 1 \in DOMAIN s.threads
    /\ \A t \in DOMAIN s.threads :
          /\ s.threads[t].regs \in [Registers -> WordsOf(s.cpu)]
          /\ s.threads[t].mem # NULL => s.threads[t].mem.base \in Nat /\ s.threads[t].mem.words \in Seq(WordsOf(s.cpu))

ASSUME ScenesAssumption == \A s \in Scenes : IsScene(s)

\* An expression is the sum of named values and of a number, to be aligned, or
\* to be looked up in memory.
IsExpression(e) == IsList(e.of) /\ e.plus \in Int /\ e.align \in Nat \ {0} /\ e.deref \in BOOLEAN

\* A line has the numbers of its kind; a rule may lack its expression.
IsLine(l) ==
    /\ l.k = "FUNC" => l.params \in Int
    /\ l.k \in {"FUNC", "INIT", "WIN"} => l.at \in Int /\ l.size \in Int
    /\ l.k \in {"INIT", "DELTA"} =>
          IsList(l.rules) /\ \A i \in DOMAIN l.rules : l.rules[i][2] # NULL => IsExpression(l.rules[i][2])
    /\ l.k = "WIN" =>
          /\ l.params \in Int /\ l.saved \in Int /\ l.locals \in Int
          /\ IsList(l.program) /\ \A i \in DOMAIN l.program : IsExpression(l.program[i][2])

ASSUME SymbolFilesAssumption ==
    \A f \in DOMAIN SymbolFiles :
        IsList(SymbolFiles[f].lines) /\ \A i \in DOMAIN SymbolFiles[f].lines : IsLine(SymbolFiles[f].lines[i])

VARIABLES
    scene,  \* the dump: threads, modules, and what there is to ask for symbols
    walk,   \* Walk()'s locals and results
    sym     \* the symbolizer and the resolver

vars == <<scene, walk, sym>>

W == 2

Tables == [f \in DOMAIN SymbolFiles |-> LoadMapFromMemory(SymbolFiles[f])]
---------------------------------------------------------------------------
(* Symbols.                                                                *)

\* The module that has an address, or 0; modules do not overlap.
GetModuleForAddress(a) ==
    IF scene.modules = NULL THEN 0
    ELSE Min({i \in DOMAIN scene.modules : scene.modules[i].base <= a /\ a < scene.modules[i].base + scene.modules[i].size}
             \cup {Len(scene.modules) + 1}) % (Len(scene.modules) + 1)

\* PathnameStripper: what follows the last separator.
File(path) == IF path = <<>> THEN "" ELSE Last(path)

\* <root>/<debug file>/<identifier>/<debug file>.sym
GetSymbolFileAtPathFromRoot(root, m) ==
    IF File(m.debug) = "" \/ m.id = "" THEN NULL ELSE At(root, <<File(m.debug), m.id>>, NULL)

\* The first root that has the file gives it.
GetSymbolFile(m) ==
    LET having == {r \in DOMAIN scene.roots : GetSymbolFileAtPathFromRoot(scene.roots[r], m) # NULL}
    IN  IF having = {} THEN NULL ELSE GetSymbolFileAtPathFromRoot(scene.roots[Min(having)], m)

Answer(s, result, i, name) == [sym |-> s, result |-> result, module |-> i, name |-> name]

LoadModuleUsingMemoryBuffer(s, file, f) ==
    [s EXCEPT !.loaded = With(@, file, f), !.corrupt = IF IsCorrupt(Tables[f]) THEN @ \cup {file} ELSE @]

Asked_InterruptKept(s, i, file, f) ==
    IF s.asks \in scene.interrupts THEN Answer([s EXCEPT !.none = @ \cup {file}], "interrupt", i, Nameless)
    ELSE IF f = NULL THEN Answer([s EXCEPT !.none = @ \cup {file}], "error", i, Nameless)
    ELSE Answer(LoadModuleUsingMemoryBuffer(s, file, f), "ok", i, Nameless)

\* The supplier is asked, and what it says is kept, unless it is interrupted.
Asked(s, i, file, f) ==
    IF s.asks \in scene.interrupts THEN Answer(s, "interrupt", i, Nameless)
    ELSE IF f = NULL THEN Answer([s EXCEPT !.none = @ \cup {file}], "error", i, Nameless)
    ELSE Answer(LoadModuleUsingMemoryBuffer(s, file, f), "ok", i, Nameless)

Known(s, i, file) ==
    IF ~scene.resolver \/ file \in s.none THEN Answer(s, "error", i, Nameless)
    ELSE IF file \in DOMAIN s.loaded THEN Answer(s, "ok", i, Nameless)
    ELSE IF ~scene.supplier THEN Answer(s, "error", i, Nameless)
    ELSE Asked([s EXCEPT !.asks = @ + 1], i, file, GetSymbolFile(scene.modules[i]))

\* The resolver knows a module by its code file.
Resolved(r, m, a, f) ==
    [r EXCEPT !.result = IF m.file \in r.sym.corrupt THEN "corrupt" ELSE "ok",
              !.name = LookupAddress(Tables[f], SymbolFiles[f].lines, Wrap(a - m.base))]

WithName(r, m, a) == IF r.result # "ok" THEN r ELSE Resolved(r, m, a, r.sym.loaded[m.file])

FillFrom(s, a, i) ==
    IF i = 0 THEN Answer(s, "error", 0, Nameless) ELSE WithName(Known(s, i, scene.modules[i].file), scene.modules[i], a)

FillSourceLineInfo(s, a) == FillFrom(s, a, GetModuleForAddress(a))

SeemsValid_InModule(r) == r.module # 0

\* A module without symbols makes its addresses seem valid, and so does one
\* whose symbols could not be asked for.
SeemsValid(r) == r.module # 0 /\ (r.result \in {"ok", "corrupt"} => r.name.function # "")

LoadedFor(s, frame) ==
    IF frame.module = 0 \/ ~scene.resolver THEN NULL ELSE At(s.loaded, scene.modules[frame.module].file, NULL)

Offset(frame) == Wrap(frame.instruction - scene.modules[frame.module].base)

WindowsInfo(frame, f) == IF f = NULL THEN NULL ELSE FindWindowsFrameInfo(Tables[f], SymbolFiles[f].lines, Offset(frame))

CFIInfo(frame, f) == IF f = NULL THEN NULL ELSE FindCFIFrameInfo(Tables[f], SymbolFiles[f].lines, Offset(frame))
---------------------------------------------------------------------------
(* Memory and numbers.                                                     *)

HalfWord == HalfOf(scene.cpu)

\* Arithmetic is that of the CPU's words.
A(x) == x % (HalfWord * HalfWord)

\* An x86 has no memory behind its last address.
Memory ==
    LET m == scene.threads[walk.thread].mem
    IN  IF m # NULL /\ scene.cpu = "x86" /\ m.base + W * Len(m.words) > Half * Half THEN NULL ELSE m

WordAt(m, k) ==
    CASE k < 0 \/ k > W * Len(m.words) - W -> NULL
      [] k >= 0 /\ k <= W * Len(m.words) - W /\ k % W = 0 -> m.words[k \div W + 1]
      [] OTHER -> m.words[k \div W + 1] \div HalfWord + HalfWord * (m.words[k \div W + 2] % HalfWord)

GetMemoryAt(m, a) == WordAt(m, a - m.base)

GetMemoryAtAddress(a) == GetMemoryAt(Memory, a)

\* The sum of some values, aligned, or what is in memory there.
Sum(e, values) == A(FoldLeft(LAMBDA x, n : x + values[n], e.plus, e.of))

EvaluateForValue(e, values) ==
    CASE \E i \in DOMAIN e.of : e.of[i] \notin DOMAIN values -> NULL
      [] \A i \in DOMAIN e.of : e.of[i] \in DOMAIN values ->
            IF e.deref THEN GetMemoryAtAddress(Sum(e, values)) ELSE Sum(e, values) - (Sum(e, values) % e.align)

\* Evaluation stops at what cannot be computed, and keeps what has been.
Assigned(r, to, v) ==
    IF v = NULL THEN [r EXCEPT !.ok = FALSE]
    ELSE [r EXCEPT !.values = With(@, to, v), !.set = @ \cup {to}]

Evaluate(program, values) ==
    FoldLeft(LAMBDA r, p : IF r.ok THEN Assigned(r, p[1], EvaluateForValue(p[2], r.values)) ELSE r,
             [ok |-> TRUE, values |-> values, set |-> {}], program)

\* The first word that may be a return address.
Judged(r, at, ip, answer) ==
    [r EXCEPT !.sym = answer.sym, !.at = IF SeemsValid(answer) THEN at ELSE NULL, !.ip = ip, !.end = SeemsValid(answer)]

Tried(r, at, ip) ==
    IF ip = NULL THEN [r EXCEPT !.end = TRUE] ELSE Judged(r, at, ip, FillSourceLineInfo(r.sym, ip))

ScanForReturnAddress(s, start, words) ==
    FoldLeft(LAMBDA r, k : IF r.end THEN r ELSE Tried(r, A(start + k * W), GetMemoryAtAddress(A(start + k * W))),
             [sym |-> s, at |-> NULL, ip |-> 0, end |-> A(start + words * W) < start],
             [k \in 1..(words + 1) |-> k - 1])

\* From the context frame the search goes further.
SearchLength(frames) == IF Len(frames) = 1 THEN 4 * SearchWords ELSE SearchWords
---------------------------------------------------------------------------
(* A caller: [sym, new] has the symbolizer and the frame, if there is one.  *)

Caller(trust, regs, valid) == [trust |-> trust, regs |-> regs, valid |-> valid]

NoCaller(s) == [sym |-> s, new |-> NULL]

\* CFIFrameInfo::FindCallerRegs: all rules, or nothing.
CallerValues(rules, values, cfa) ==
    LET with == With(values, ".cfa", cfa)
    IN  IF cfa = NULL THEN NULL
        ELSE IF \E n \in DOMAIN rules \ {".cfa"} : EvaluateForValue(rules[n], with) = NULL THEN NULL
        ELSE With([n \in DOMAIN rules \ {".cfa"} |-> EvaluateForValue(rules[n], with)], ".cfa", cfa)

FindCallerRegs(rules, last) ==
    LET values == [n \in last.valid |-> last.regs[n]]
    IN  IF ~{".cfa", ".ra"} \subseteq DOMAIN rules THEN NULL
        ELSE CallerValues(rules, values, EvaluateForValue(rules[".cfa"], values))

\* A register is what its own rule says; the frame pointer is the callee's if
\* no rule speaks of it, and what is not known is 0.
FromRules(found, last) ==
    Caller("CFI",
           [ip |-> At(found, "ip", found[".ra"]), sp |-> At(found, "sp", found[".cfa"]),
            fp |-> At(found, "fp", IF "fp" \in last.valid THEN last.regs.fp ELSE 0), lr |-> At(found, "lr", 0)],
           {"ip", "sp"} \cup ({"fp"} \cap (DOMAIN found \cup last.valid)) \cup ({"lr"} \cap DOMAIN found))

\* On iOS a frame is left by its link register, and .ra is the one before it.
ByLinkRegister(c, found, last) ==
    IF "ip" \in DOMAIN found THEN c
    ELSE [c EXCEPT !.regs.ip = last.regs.lr, !.regs.lr = found[".ra"], !.valid = @ \cup {"lr"}]

EssentialsOf(c, found, last) ==
    CASE scene.cpu = "x86" /\ "fp" \notin c.valid -> NULL
      [] scene.cpu = "arm" /\ scene.os = "ios"    -> ByLinkRegister(c, found, last)
      [] OTHER -> c

GetCallerByCFIFrameInfo(s, last, found) ==
    IF found = NULL THEN NoCaller(s) ELSE [sym |-> s, new |-> EssentialsOf(FromRules(found, last), found, last)]

ByCFI(s, last, rules) == IF rules = NULL THEN NoCaller(s) ELSE GetCallerByCFIFrameInfo(s, last, FindCallerRegs(rules, last))

Scanned(last, r, valid) ==
    [sym |-> r.sym,
     new |-> IF r.at = NULL THEN NULL
             ELSE Caller("SCAN", [last.regs EXCEPT !.ip = r.ip, !.sp = A(r.at + W)], valid)]
---------------------------------------------------------------------------
(* x86.                                                                    *)

\* What is found below a scanned return address is the caller's frame pointer
\* if it points up, and not far.
RestoredEBP(at, ebp, last) == IF ebp = NULL THEN last ELSE IF ebp <= at \/ ebp - at > MaxGap THEN last ELSE ebp

WithEBP(c, last) ==
    IF c.new = NULL THEN c
    ELSE [c EXCEPT !.new.regs.fp = RestoredEBP(A(c.new.regs.sp - 2 * W), GetMemoryAtAddress(A(c.new.regs.sp - 2 * W)), last.regs.fp)]

GetCallerByEBPAtBase(s, frames, last, scan) ==
    IF GetMemoryAtAddress(A(last.regs.fp + W)) # NULL /\ GetMemoryAtAddress(last.regs.fp) # NULL
    THEN [sym |-> s,
          new |-> Caller("FP", [last.regs EXCEPT !.ip = GetMemoryAtAddress(A(last.regs.fp + W)),
                                                 !.sp = A(last.regs.fp + 2 * W),
                                                 !.fp = GetMemoryAtAddress(last.regs.fp)], {"ip", "sp", "fp"})]
    ELSE IF ~scan THEN NoCaller(s)
    ELSE WithEBP(Scanned(last, ScanForReturnAddress(s, last.regs.sp, SearchLength(frames)), {"ip", "sp", "fp"}), last)

CalleeParameterSize_Own(frames) ==
    IF Len(frames) < 2 \/ Last(frames).win = NULL THEN 0 ELSE Last(frames).win.params

\* The parameters the callee was called with lie on top of the frame.
CalleeParameterSize(frames) ==
    IF Len(frames) < 2 THEN 0
    ELSE IF frames[Len(frames) - 1].win = NULL THEN 0 ELSE frames[Len(frames) - 1].win.params

Term(of, plus, deref) == [of |-> of, plus |-> plus, align |-> 1, deref |-> deref]

ReturnTo == << <<"ip", Term(<<".raSearchStart">>, 0, TRUE)>> >>

Discard == << <<"sp", Term(<<".raSearchStart">>, W, FALSE)>> >>

\* The program of a function that allocates a base pointer, of one that does
\* not, or its own.
ProgramString(info) ==
    CASE info.program # <<>> -> info.program
      [] info.program = <<>> /\ info.base ->
            ReturnTo \o << <<"fp", Term(<<"sp", ".cbCalleeParams", ".cbSavedRegs">>, -2 * W, TRUE)>> >> \o Discard
      [] OTHER -> ReturnTo \o Discard

\* A search of three words finds the return address of an aligned frame; from
\* a system call's frame it finds the instruction itself, and goes on.
SearchAgain(r, start) == [sym |-> r.sym, start |-> IF r.at = NULL THEN start ELSE r.at]

SearchStart(last, info, start, r) ==
    IF last.trust = "CONTEXT" /\ info.type = "fpo" /\ r.at = start /\ r.ip = last.regs.ip
    THEN SearchAgain(ScanForReturnAddress(r.sym, A(start + W), 3), A(start + W))
    ELSE SearchAgain(r, start)

\* An alignment in the program says that only the frame pointer can be relied on.
RealStart(last, info, start) ==
    IF "fp" \in last.valid /\ \E i \in DOMAIN ProgramString(info) : ProgramString(info)[i][2].align # 1
    THEN A(last.regs.fp + W) ELSE start

Values(last, info, params, start) ==
    [n \in {".cbCalleeParams", ".cbSavedRegs", ".cbLocals", ".cbParams", ".raSearchStart", ".raSearch", "fp", "sp"} |->
        CASE n = ".cbCalleeParams" -> params
          [] n = ".cbSavedRegs" -> info.saved
          [] n = ".cbLocals" -> info.locals
          [] n = ".cbParams" -> info.params
          [] n \in {".raSearchStart", ".raSearch"} -> start
          [] OTHER -> last.regs[n]]

\* d: the dictionary, what is trusted, and how much further a scan has gone.
Computed(s, e, start) ==
    [sym |-> s, values |-> e.values, start |-> start, offset |-> 0, dead |-> FALSE,
     trust |-> IF e.ok /\ {"ip", "sp"} \subseteq e.set THEN "CFI" ELSE "SCAN"]

\* Both pointers 0 are the end of the stack, which no scan goes behind.
AtEnd(d) == d.values["ip"] = 0 /\ d.values["fp"] = 0

\* The program failed, or its return address is in no module; in a module it
\* is after the first scan.
NeedsScan(d) ==
    \/ d.trust = "SCAN"
    \/ ~AtEnd(d) /\ scene.modules # NULL /\ GetModuleForAddress(d.values["ip"]) = 0

ScanFrom(d, last) == IF d.trust = "SCAN" THEN last.regs.sp ELSE A(d.values[".raSearchStart"] + W)

\* Only what the program has found can do without.
ScanFound(d, r, from) ==
    IF r.at = NULL THEN [d EXCEPT !.sym = r.sym, !.dead = d.trust = "SCAN"]
    ELSE [d EXCEPT !.sym = r.sym, !.trust = IF @ = "SCAN" THEN @ ELSE "CFI_SCAN",
                   !.offset = IF d.trust = "SCAN" THEN 0 ELSE A(r.at - from),
                   !.values = With(With(@, "sp", A(r.at + W)), "ip", r.ip)]

OrScan(d, frames, last, scan) ==
    CASE ~NeedsScan(d) -> d
      [] NeedsScan(d) /\ ~scan -> [d EXCEPT !.dead = d.trust = "SCAN"]
      [] OTHER -> ScanFound(d, ScanForReturnAddress(d.sym, ScanFrom(d, last), SearchLength(frames)), ScanFrom(d, last))

Candidate(r, m, ebp) ==
    CASE ebp = NULL -> [r EXCEPT !.found = TRUE]
      [] ebp # NULL /\ GetMemoryAt(m, ebp) # NULL -> [found |-> TRUE, d |-> [r.d EXCEPT !.values["fp"] = ebp]]
      [] OTHER -> r

\* The saved frame pointer is looked for from the top of the saved registers
\* down to what cannot be read.
SavedEBP(d, m, from, bytes) ==
    IF A(from + bytes) < from THEN d
    ELSE FoldLeft(LAMBDA r, k : IF r.found THEN r ELSE Candidate(r, m, GetMemoryAt(m, A(from + bytes - k * W))),
                  [found |-> FALSE, d |-> d], [k \in 1..(bytes \div W + 1) |-> k - 1]).d

\* No trust in a frame pointer below what a scan has skipped.
WithSavedEBP(d, last, info, params) ==
    IF \/ d.dead
       \/ AtEnd(d)
       \/ info.program = <<>> /\ ~info.base
       \/ /\ d.trust = "CFI" \/ d.values["fp"] > A(d.start + d.offset)
          /\ GetMemoryAtAddress(d.values["fp"]) # NULL
    THEN d
    ELSE SavedEBP(d, Memory, A(last.regs.sp + params), info.saved + d.offset)

WindowsCaller(d, last) ==
    [sym |-> d.sym,
     new |-> IF d.dead THEN NULL
             ELSE Caller(d.trust, [last.regs EXCEPT !.ip = d.values["ip"], !.sp = d.values["sp"], !.fp = d.values["fp"]],
                         {"ip", "sp", "fp"})]

Walked(s, start, frames, last, info, params, scan) ==
    WindowsCaller(WithSavedEBP(OrScan(Computed(s, Evaluate(ProgramString(info), Values(last, info, params, start)), start),
                                      frames, last, scan), last, info, params), last)

AfterSearch(q, frames, last, info, params, scan) ==
    Walked(q.sym, RealStart(last, info, q.start), frames, last, info, params, scan)

FromStart(s, start, frames, last, info, params, scan) ==
    AfterSearch(SearchStart(last, info, start, ScanForReturnAddress(s, start, 3)), frames, last, info, params, scan)

GetCallerByWindowsFrameInfo(s, frames, last, info, params, scan) ==
    FromStart(s, A(last.regs.sp + params + info.locals + info.saved), frames, last, info, params, scan)

ByWindows(s, frames, last, scan) ==
    IF last.win = NULL THEN NoCaller(s)
    ELSE IF ~last.win.all THEN NoCaller(s)
    ELSE GetCallerByWindowsFrameInfo(s, frames, last, last.win.of, CalleeParameterSize(frames), scan)

OrCFI(c, last) == IF c.new # NULL THEN c ELSE ByCFI(c.sym, last, CFIInfo(last, LoadedFor(c.sym, last)))

OrEBP(c, frames, last, scan) == IF c.new # NULL THEN c ELSE GetCallerByEBPAtBase(c.sym, frames, last, scan)
---------------------------------------------------------------------------
(* amd64.                                                                  *)

IsEndOfStack(rip, rsp, callee) == rip = 0 \/ rsp < callee

NonCanonical(p) == p >= CanonicalEnd /\ p < AddrSpace - CanonicalEnd

GetCallerByFramePointerRecovery(s, last, rip, rbp) ==
    IF \/ last.regs.fp % W # 0
       \/ rip = NULL
       \/ rbp = NULL
       \/ NonCanonical(rip)
       \/ IsEndOfStack(rip, A(last.regs.fp + 2 * W), last.regs.sp)
       \/ rbp < last.regs.fp
    THEN NoCaller(s)
    ELSE [sym |-> s, new |-> Caller("FP", [last.regs EXCEPT !.ip = rip, !.sp = A(last.regs.fp + 2 * W), !.fp = rbp],
                                    {"ip", "sp", "fp"})]

\* The frame pointer is kept if it lies above the return address, or points
\* to one that lies just below it.
ScannedRBP(last, at, rbp) ==
    CASE "fp" \notin last.valid -> NULL
      [] "fp" \in last.valid /\ A(at - W) = last.regs.fp -> IF rbp = NULL THEN NULL ELSE IF rbp > at THEN rbp ELSE NULL
      [] OTHER -> IF last.regs.fp >= A(at + W) THEN last.regs.fp ELSE NULL

WithRBP(c, rbp) ==
    IF rbp = NULL THEN c ELSE [c EXCEPT !.new.regs.fp = rbp, !.new.valid = @ \cup {"fp"}]

GetCallerByStackScan_AMD64(last, r) ==
    IF r.at = NULL THEN NoCaller(r.sym)
    ELSE WithRBP(Scanned(last, r, {"ip", "sp"}), ScannedRBP(last, r.at, GetMemoryAtAddress(last.regs.fp)))

OrFP_AMD64(c, last) ==
    IF c.new # NULL THEN c
    ELSE GetCallerByFramePointerRecovery(c.sym, last, GetMemoryAtAddress(A(last.regs.fp + W)), GetMemoryAtAddress(last.regs.fp))

OrScan_AMD64(c, frames, last, scan) ==
    IF c.new # NULL \/ ~scan THEN c
    ELSE GetCallerByStackScan_AMD64(last, ScanForReturnAddress(c.sym, last.regs.sp, SearchLength(frames)))

\* NaCl's pointers have 32 bits.
Narrowed(regs) == [regs EXCEPT !.ip = @ % (Half * Half), !.sp = @ % (Half * Half), !.fp = @ % (Half * Half)]

Truncated(c) == IF c.new = NULL \/ scene.os # "nacl" THEN c ELSE [c EXCEPT !.new.regs = Narrowed(@)]
---------------------------------------------------------------------------
(* arm, where only iOS has a frame pointer to go by, and arm64.            *)

\* The link register is where the frame returns to, and the frame pointer
\* leads to those of its caller; without frame pointer there are none.
GetCallerByFramePointer(s, last, fp, lr) ==
    IF fp = NULL \/ lr = NULL THEN NoCaller(s)
    ELSE [sym |-> s,
          new |-> Caller("FP", [ip |-> last.regs.lr, fp |-> fp, lr |-> lr,
                                sp |-> IF last.regs.fp = 0 THEN last.regs.sp ELSE A(last.regs.fp + 2 * W)],
                         {"ip", "sp", "fp", "lr"})]

OrFP_ARM(c, last) ==
    IF c.new # NULL \/ (scene.cpu = "arm" /\ (scene.os # "ios" \/ "fp" \notin last.valid)) THEN c
    ELSE IF last.regs.fp = 0 THEN GetCallerByFramePointer(c.sym, last, 0, 0)
    ELSE GetCallerByFramePointer(c.sym, last, GetMemoryAtAddress(last.regs.fp), GetMemoryAtAddress(A(last.regs.fp + W)))

OrScan_ARM(c, frames, last, scan) ==
    IF c.new # NULL \/ ~scan THEN c
    ELSE Scanned(last, ScanForReturnAddress(c.sym, last.regs.sp, SearchLength(frames)), {"ip", "sp"})
---------------------------------------------------------------------------
(* The walk.                                                               *)

NewFrame(c, instruction) ==
    [trust |-> c.trust, regs |-> c.regs, valid |-> c.valid, instruction |-> instruction,
     module |-> 0, name |-> Nameless, win |-> NULL]

NoRegs == [ip |-> 0, sp |-> 0, fp |-> 0, lr |-> 0]

\* The address list has no registers.
ListFrame(k) ==
    IF k > Len(scene.addresses) THEN NULL ELSE NewFrame(Caller("PREWALKED", NoRegs, {}), scene.addresses[k])

GetContextFrame(t) ==
    IF scene.cpu = "list" THEN ListFrame(1)
    ELSE NewFrame(Caller("CONTEXT", scene.threads[t].regs, {"ip", "sp", "fp", "lr"}), scene.threads[t].regs.ip)

EndsStack_Loops(new, last) == new.ip = 0 \/ new.sp < last.sp

\* An instruction pointer of 0, or a stack pointer that goes back, which on
\* x86 is one that does not go on, ends the stack.
EndsStack(new, last) ==
    \/ new.ip = 0
    \/ new.sp < last.sp
    \/ scene.cpu = "x86" /\ new.sp = last.sp

\* Back from the return address into the call.
CallLength == CASE scene.cpu = "arm" -> 2 [] scene.cpu = "arm64" -> 4 [] OTHER -> 1

Called(c, last) ==
    [sym |-> c.sym,
     new |-> IF c.new = NULL THEN NULL
             ELSE IF EndsStack(c.new.regs, last.regs) THEN NULL ELSE NewFrame(c.new, A(c.new.regs.ip - CallLength))]

\* By Windows' frame data, by rules, and then as each CPU allows.
GetCaller(c, frames, last, scan) ==
    CASE scene.cpu = "x86"   -> OrEBP(c, frames, last, scan)
      [] scene.cpu = "amd64" -> Truncated(OrScan_AMD64(OrFP_AMD64(c, last), frames, last, scan))
      [] OTHER               -> OrScan_ARM(OrFP_ARM(c, last), frames, last, scan)

FromWindows(s, frames, last, scan) == IF scene.cpu = "x86" THEN ByWindows(s, frames, last, scan) ELSE NoCaller(s)

GetCallerFrame(s, frames, last, scan) ==
    CASE scene.cpu = "list" -> [sym |-> s, new |-> ListFrame(Len(frames) + 1)]
      [] scene.cpu # "list" /\ Memory = NULL -> NoCaller(s)
      [] OTHER -> Called(GetCaller(OrCFI(FromWindows(s, frames, last, scan), last), frames, last, scan), last)

InsertSpecialAttentionModule(list, result, i, wanted) ==
    IF result # wanted \/ i = 0 \/ Contains(list, i) THEN list ELSE Append(list, i)

\* A frame as it is put on the stack, with what x86 keeps for its caller.
Pushed(frame, f) ==
    [frame EXCEPT !.module = f.module, !.name = f.name]

WithWindows(frame, s) == IF scene.cpu # "x86" THEN frame ELSE [frame EXCEPT !.win = WindowsInfo(frame, LoadedFor(s, frame))]

Dubious(trust) == IF trust \in {"NONE", "SCAN", "CFI_SCAN"} THEN 1 ELSE 0

Continue(frames, scanned, c) ==
    /\ sym' = c.sym
    /\ walk' = [walk EXCEPT !.frames = frames, !.scanned = scanned, !.next = c.new,
                            !.pc = IF c.new = NULL THEN "done" ELSE "frame",
                            !.without = InsertSpecialAttentionModule(@, c.result, Last(frames).module, "error"),
                            !.corrupt = InsertSpecialAttentionModule(@, c.result, Last(frames).module, "corrupt")]

WithResult(c, result) == [sym |-> c.sym, new |-> c.new, result |-> result]

\* One round of the loop of Walk(): the frame is given its names, put on the
\* stack, and asked for its caller.
Frame ==
    /\ walk.pc = "frame"
    /\ \E f \in {FillSourceLineInfo(sym, walk.next.instruction)} :
          IF f.result = "interrupt"
          THEN walk' = [walk EXCEPT !.pc = "done", !.next = NULL, !.result = FALSE] /\ sym' = f.sym
          ELSE \E last \in {WithWindows(Pushed(walk.next, f), f.sym)} :
               \E frames \in {Append(walk.frames, last)}, scanned \in {walk.scanned + Dubious(last.trust)} :
                  Continue(frames, scanned,
                           WithResult(IF Len(frames) > scene.limits.frames THEN NoCaller(f.sym)
                                      ELSE GetCallerFrame(f.sym, frames, last, scanned < scene.limits.scanned), f.result))
    /\ UNCHANGED scene

StartOf(t, first, without, corrupt, walks) ==
    [pc |-> IF first = NULL THEN "done" ELSE "frame", thread |-> t, next |-> first, frames |-> <<>>, scanned |-> 0,
     without |-> without, corrupt |-> corrupt, result |-> TRUE, walks |-> walks]

\* Process() walks one thread after another, with the same lists of modules;
\* the frames of the walk before go to another stack.
Again ==
    /\ walk.pc = "done" /\ walk.walks < MaxWalks
    /\ \E t \in DOMAIN scene.threads :
          walk' = StartOf(t, GetContextFrame(t), walk.without, walk.corrupt, walk.walks + 1)
    /\ UNCHANGED <<scene, sym>>

NoSymbols == [loaded |-> <<>>, corrupt |-> {}, none |-> {}, asks |-> 0]

\* Process() of the next dump begins with Reset() and with empty lists; the
\* resolver keeps what it has.
Reset ==
    /\ walk.pc = "done" /\ walk.walks < MaxWalks
    /\ sym' = [sym EXCEPT !.none = {}]
    /\ \E t \in DOMAIN scene.threads : walk' = StartOf(t, GetContextFrame(t), <<>>, <<>>, walk.walks + 1)
    /\ UNCHANGED scene

UnloadModule_KeepsCorrupt ==
    /\ walk.pc = "done" /\ walk.walks < MaxWalks
    /\ \E file \in DOMAIN sym.loaded : sym' = [sym EXCEPT !.loaded = [f \in DOMAIN @ \ {file} |-> @[f]]]
    /\ UNCHANGED <<scene, walk>>

\* A client of the resolver has it forget a module.
UnloadModule ==
    /\ walk.pc = "done" /\ walk.walks < MaxWalks
    /\ \E file \in DOMAIN sym.loaded :
          sym' = [sym EXCEPT !.loaded = [f \in DOMAIN @ \ {file} |-> @[f]], !.corrupt = @ \ {file}]
    /\ UNCHANGED <<scene, walk>>

Init ==
    /\ scene \in Scenes
    /\ sym = NoSymbols
    /\ walk = StartOf(1, GetContextFrame(1), <<>>, <<>>, 1)

Next == Frame \/ Again \/ Reset \/ UnloadModule

Spec == Init /\ [][Next]_vars
---------------------------------------------------------------------------
Trusts == {"CONTEXT", "CFI", "FP", "SCAN", "CFI_SCAN", "PREWALKED"}

TypeOK ==
    /\ walk.pc \in {"frame", "done"}
    /\ walk.next = NULL <=> walk.pc = "done"
    /\ \A i \in DOMAIN walk.frames :
          /\ walk.frames[i].trust \in Trusts
          /\ walk.frames[i].instruction \in Addresses
          /\ \A r \in Registers : walk.frames[i].regs[r] \in Addresses
          /\ walk.frames[i].module \in 0..(IF scene.modules = NULL THEN 0 ELSE Len(scene.modules))
    /\ DOMAIN sym.loaded \cap sym.none = {}
    /\ sym.corrupt \subseteq DOMAIN sym.loaded

\* The calls that led to the crash are on the stack in their order, for code
\* that is built as a walker expects it, whatever its locals hold: by frame
\* pointer, by rules that change within a function and at a call that ends
\* it, by frame data whose callees were passed parameters, or by scanning.
ChainRecovered ==
    LET n == Min({Len(walk.frames), Len(scene.chain)})
    IN  /\ \A i \in 1..n : walk.frames[i].regs.ip = scene.chain[i].ip
                           /\ (scene.chain[i].function # "" => walk.frames[i].name.function = scene.chain[i].function)
        /\ walk.pc = "done" /\ walk.result => Len(walk.frames) >= Min({Len(scene.chain), scene.limits.frames + 1})

\* However the memory is filled, the walk gets on and ends: a caller's stack
\* pointer is not below its callee's, and on x86 above it; where it can stay,
\* as with rules that give a frame back itself, the limit ends the walk, with
\* one frame more than its number; and no more frames than their own limit
\* are there by a scan.
WalkGetsOn ==
    /\ Len(walk.frames) <= scene.limits.frames + 1
    /\ Cardinality({i \in DOMAIN walk.frames : Dubious(walk.frames[i].trust) = 1}) <= scene.limits.scanned
    /\ scene.cpu # "list" =>
          \A i \in 2..Len(walk.frames) :
              /\ walk.frames[i].regs.sp >= walk.frames[i - 1].regs.sp
              /\ scene.cpu = "x86" => walk.frames[i].regs.sp > walk.frames[i - 1].regs.sp
              /\ walk.frames[i].regs.ip # 0

\* A module whose code file no other has.
Unique(i) == \A j \in DOMAIN scene.modules : scene.modules[j].file = scene.modules[i].file => j = i

\* What is said of the symbols of a module is what the supplier has for it,
\* whenever it is asked, and after an answer that was interrupted too.
SymbolsKnown ==
    scene.modules # NULL =>
        \A i \in DOMAIN scene.modules : Unique(i) =>
            LET file == scene.modules[i].file  f == GetSymbolFile(scene.modules[i])
            IN  /\ file \in DOMAIN sym.loaded => sym.loaded[file] = f /\ (file \in sym.corrupt <=> IsCorrupt(Tables[f]))
                /\ Contains(walk.without, i) => f = NULL \/ ~scene.resolver \/ ~scene.supplier
                /\ Contains(walk.corrupt, i) => f # NULL /\ IsCorrupt(Tables[f])

Usable(l) == /\ l.at >= 0 /\ l.params >= 0
             /\ IF l.k = "FUNC" THEN l.size > 0 ELSE l.at > 0

\* The last symbol that begins at or before an address names it; a FUNC only
\* up to its end, behind which there is no name until the next symbol.
Symbol(lines, a) ==
    LET before == {i \in DOMAIN lines : lines[i].k \in {"FUNC", "PUBLIC"} /\ lines[i].at <= a /\ Usable(lines[i])}
        last   == {i \in before : \A j \in before : lines[j].at <= lines[i].at}
        funcs  == {i \in last : lines[i].k = "FUNC"}
    IN  IF last = {} THEN ""
        ELSE IF funcs = {} THEN lines[Min(last)].name
        ELSE IF a < lines[Min(funcs)].at + lines[Min(funcs)].size THEN lines[Min(funcs)].name ELSE ""

\* A scan takes only an address in a module for a return address, and, once
\* the module has symbols, only one they have a name for.
ScansFindCode ==
    \A i \in DOMAIN walk.frames : walk.frames[i].trust \in {"SCAN", "CFI_SCAN"} =>
        \E m \in {GetModuleForAddress(walk.frames[i].regs.ip)} :
            /\ m # 0
            /\ \A f \in {At(sym.loaded, scene.modules[m].file, NULL)} :
                  f # NULL /\ scene.interrupts = {} =>
                      Symbol(SymbolFiles[f].lines, walk.frames[i].regs.ip - scene.modules[m].base) # ""

\* A frame of a module with symbols has the name its symbol file gives, if the
\* file is read to its end.
NamesAreRight ==
    \A i \in DOMAIN walk.frames : \A f \in {LoadedFor(sym, walk.frames[i])} :
        f # NULL => \/ Tables[f].errors > MaxErrors
                    \/ walk.frames[i].name.function = Symbol(SymbolFiles[f].lines, Offset(walk.frames[i]))
=============================================================================
