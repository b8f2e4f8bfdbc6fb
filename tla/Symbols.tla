------------------------------ MODULE Symbols ------------------------------
(***************************************************************************)
(* What breakpad makes of a symbol file and what it finds in it:            *)
(* basic_source_line_resolver.cc and the rule sets of cfi_frame_info.cc.     *)
(* A symbol file is a sequence of lines, each a record of its fields.  A     *)
(* number that is junk, negative or the largest there is, is below 0.  A     *)
(* table refers to a line by its place in the file.                         *)
(***************************************************************************)
EXTENDS RangeMap, SequencesExt

CONSTANTS
    MaxErrors,  \* kMaxErrorsBeforeBailing
    NULL        \* no answer

ASSUME MaxErrorsAssumption == MaxErrors \in Nat \ {0}

NoTable(errors) ==
    [cur |-> 0, errors |-> errors, files |-> <<>>, functions |-> {}, lines |-> <<>>, publics |-> {},
     windows |-> {}, initial |-> {}, deltas |-> <<>>]

LogParseError(t) == [t EXCEPT !.errors = @ + 1]

Kept(map, l, i) == IF Storable(map, l.at, l.size) THEN StoreRange(map, l.at, l.size, i) ELSE map

At(f, x, none) == IF x \in DOMAIN f THEN f[x] ELSE none

\* The function f, with v at x.
With(f, x, v) == [y \in DOMAIN f \cup {x} |-> IF y = x THEN v ELSE f[y]]

\* The first FILE of a number counts.
ParseFile(t, l) ==
    IF l.n < 0 THEN LogParseError(t) ELSE [t EXCEPT !.files = With(@, l.n, At(@, l.n, l.name))]

\* A function whose range is refused takes its lines with it.
ParseFunction(t, l, i) ==
    IF l.at < 0 \/ l.size < 0 \/ l.params < 0 THEN [LogParseError(t) EXCEPT !.cur = 0]
    ELSE [t EXCEPT !.cur = i, !.functions = Kept(@, l, i)]

ParseLine(t, l, i) ==
    IF t.cur = 0 \/ l.at < 0 \/ l.size < 0 \/ l.n < 0 \/ l.file < 0 THEN LogParseError(t)
    ELSE [t EXCEPT !.lines = With(@, t.cur, Kept(At(@, t.cur, {}), l, i))]

ParsePublic(t, l, i) ==
    IF l.at < 0 \/ l.params < 0 \/ \E p \in t.publics : p.base = l.at THEN LogParseError(t)
    ELSE IF l.at = 0 THEN t
    ELSE [t EXCEPT !.publics = @ \cup {[base |-> l.at, index |-> i]}]

\* No lines belong to a public symbol.
ParsePublicSymbol(t, l, i) == ParsePublic([t EXCEPT !.cur = 0], l, i)

\* ContainedRangeMap: ranges lie apart or one inside the other.
Containable(map, l) ==
    /\ l.size > 0
    /\ Wrap(l.at + l.size - 1) >= l.at
    /\ \A r \in map :
          \/ l.at + l.size - 1 < r.base \/ r.high < l.at
          \/ /\ <<r.base, r.high>> # <<l.at, l.at + l.size - 1>>
             /\ \/ r.base <= l.at /\ l.at + l.size - 1 <= r.high
                \/ l.at <= r.base /\ r.high <= l.at + l.size - 1

\* That a WIN line is refused is no error.
ParseWindows(t, l, i) ==
    IF l.at < 0 THEN LogParseError(t)
    ELSE IF ~Containable({r \in t.windows : r.type = l.type}, l) THEN t
    ELSE [t EXCEPT !.windows = @ \cup {[type |-> l.type, base |-> l.at, high |-> l.at + l.size - 1, index |-> i]}]

\* Of two deltas at an address the last counts.
ParseCFIFrameInfo(t, l, i) ==
    IF l.k = "INIT" THEN [t EXCEPT !.initial = Kept(@, l, i)] ELSE [t EXCEPT !.deltas = With(@, l.at, i)]

ParseStackInfo(t, l, i) ==
    CASE l.k = "WIN" -> ParseWindows(t, l, i)
      [] l.k \in {"INIT", "DELTA"} -> ParseCFIFrameInfo(t, l, i)
      [] OTHER -> LogParseError(t)

\* A line of no known kind is taken for a line number.
ParsedLine(t, l, i) ==
    CASE l.k = "FILE"   -> ParseFile(t, l)
      [] l.k = "FUNC"   -> ParseFunction(t, l, i)
      [] l.k = "PUBLIC" -> ParsePublicSymbol(t, l, i)
      [] l.k \in {"WIN", "INIT", "DELTA", "STACK"} -> ParseStackInfo(t, l, i)
      [] l.k \in {"MODULE", "INFO"} -> t
      [] OTHER -> ParseLine(t, l, i)

\* A zero byte inside the file is an error; too many errors end the reading.
LoadMapFromMemory(file) ==
    FoldLeft(LAMBDA t, i : IF t.errors > MaxErrors THEN t ELSE ParsedLine(t, file.lines[i], i),
             NoTable(IF file.zero THEN 1 ELSE 0), [i \in DOMAIN file.lines |-> i])

IsCorrupt(t) == t.errors > 0
---------------------------------------------------------------------------
(* Lookups: a is an address from the module's start.                       *)

\* The FUNC record that has a, or else the one that bounds the public symbol.
NearestFunction(t, a) == Nearest(t.functions, a, NULL)

Inside(f, a) == f # NULL /\ a <= f.high

NearestPublic_Any(t, f, a) == Nearest(t.publics, a, NULL)

\* A public symbol reaches up to the next function.
NearestPublic(t, f, a) ==
    LET p == Nearest(t.publics, a, NULL)
    IN  IF p # NULL /\ f # NULL /\ p.base <= f.base THEN NULL ELSE p

Name(function, line, source) == [function |-> function, line |-> line, source |-> source]

Nameless == Name("", 0, "")

LineAt(t, lines, name, i) ==
    IF i = 0 THEN Name(name, 0, "") ELSE Name(name, lines[i].n, At(t.files, lines[i].file, ""))

PublicName(lines, p) == IF p = NULL THEN Nameless ELSE Name(lines[p.index].name, 0, "")

NameFrom(t, lines, f, a) ==
    IF Inside(f, a) THEN LineAt(t, lines, lines[f.index].name, RetrieveRange(At(t.lines, f.index, {}), a, 0))
    ELSE PublicName(lines, NearestPublic(t, f, a))

LookupAddress(t, lines, a) == NameFrom(t, lines, NearestFunction(t, a), a)

\* The smallest range of a kind that has an address.
WindowsAt(t, a) ==
    LET of(type) == {r \in t.windows : r.type = type /\ r.base <= a /\ a <= r.high}
        found == IF of("data") # {} THEN of("data") ELSE of("fpo")
    IN  IF found = {} THEN 0
        ELSE (CHOOSE r \in found : \A q \in found : r.high - r.base <= q.high - q.base).index

\* Frame data, or what a function says of the size of its parameters.  What a
\* public symbol says of it is looked up and dropped.
FindWindowsFrameInfo(t, lines, a) ==
    IF WindowsAt(t, a) # 0 THEN [all |-> TRUE, params |-> lines[WindowsAt(t, a)].params, of |-> lines[WindowsAt(t, a)]]
    ELSE IF Inside(NearestFunction(t, a), a)
         THEN [all |-> FALSE, params |-> lines[NearestFunction(t, a).index].params, of |-> NULL]
    ELSE NULL
---------------------------------------------------------------------------
(* Rule sets: sequences of <<register, expression>>.                       *)

\* A register without expression, an expression without register, or ":".
Malformed(set) == {i \in DOMAIN set : set[i][1] \in {"", ":"} \/ set[i][2] = NULL}

\* A rule is reported once the next one begins, which ":" does not do.
Reported(set) ==
    CASE Malformed(set) = {} -> set
      [] OTHER -> LET i == Min(Malformed(set)) IN SubSeq(set, 1, IF set[i][1] = ":" THEN i - 2 ELSE i - 1)

ParseCFIRuleSet(set, rules) == FoldLeft(LAMBDA r, e : With(r, e[1], e[2]), rules, Reported(set))

ParsesWell(set) == set # <<>> /\ Malformed(set) = {}

\* What is wrong with a delta is not looked at.
WithDelta(t, lines, r, d) == IF d \in DOMAIN t.deltas THEN ParseCFIRuleSet(lines[t.deltas[d]].rules, r) ELSE r

\* The rules of the INIT line, and over them the deltas up to the address.
RulesFrom(t, lines, i, a) ==
    IF i = 0 THEN NULL
    ELSE IF ~ParsesWell(lines[i].rules) THEN NULL
    ELSE FoldLeft(LAMBDA r, k : WithDelta(t, lines, r, lines[i].at + k - 1), ParseCFIRuleSet(lines[i].rules, <<>>),
                  [k \in 1..(a - lines[i].at + 1) |-> k])

FindCFIFrameInfo(t, lines, a) == RulesFrom(t, lines, RetrieveRange(t.initial, a, 0), a)
=============================================================================
