--------------------------- MODULE StackWalkProofs ---------------------------
(***************************************************************************)
(* Proofs about StackWalk: every frame is made of words of the CPU and of a *)
(* module of the dump, the walk stays within its limits and goes on with    *)
(* the stack, and what is said of the symbols of a module is what the       *)
(* supplier has for it.                                                     *)
(***************************************************************************)
EXTENDS StackWalk, Induction, FiniteSetTheorems

\* Functions from a part of D to S.
Partial(D, S) == UNION {[E -> S] : E \in SUBSET D}

LEMMA WithInPartial ==
    ASSUME NEW D, NEW S, NEW f \in Partial(D, S), NEW x \in D, NEW v \in S
    PROVE  With(f, x, v) \in Partial(D, S)
<1>1. PICK E \in SUBSET D : f \in [E -> S]
  BY DEF Partial
<1>2. With(f, x, v) \in [E \cup {x} -> S]
  BY <1>1 DEF With
<1>3. E \cup {x} \in SUBSET D
  OBVIOUS
<1> QED
  BY <1>2, <1>3 DEF Partial

LEMMA WithoutInPartial ==
    ASSUME NEW D, NEW S, NEW f \in Partial(D, S), NEW x
    PROVE  [y \in DOMAIN f \ {x} |-> f[y]] \in Partial(D, S)
<1>1. PICK E \in SUBSET D : f \in [E -> S]
  BY DEF Partial
<1>2. [y \in DOMAIN f \ {x} |-> f[y]] \in [E \ {x} -> S]
  BY <1>1
<1>3. E \ {x} \in SUBSET D
  OBVIOUS
<1> QED
  BY <1>2, <1>3 DEF Partial
---------------------------------------------------------------------------
(* The symbolizer and the resolver.                                        *)

Modules == IF scene.modules = NULL THEN {} ELSE DOMAIN scene.modules

FileNames == {scene.modules[i].file : i \in Modules}

FilesFound == {GetSymbolFile(scene.modules[i]) : i \in Modules}

SymRecords == [loaded : Partial(FileNames, FilesFound), corrupt : SUBSET FileNames, none : SUBSET FileNames, asks : Nat]

\* What is kept of a module whose file no other has is what the supplier has.
Kept1(s, i) ==
    /\ scene.modules[i].file \in DOMAIN s.loaded =>
          /\ s.loaded[scene.modules[i].file] = GetSymbolFile(scene.modules[i])
          /\ GetSymbolFile(scene.modules[i]) # NULL
          /\ scene.modules[i].file \in s.corrupt <=> IsCorrupt(Tables[GetSymbolFile(scene.modules[i])])
    /\ scene.modules[i].file \in s.none => GetSymbolFile(scene.modules[i]) = NULL

SymOK(s) ==
    /\ s \in SymRecords
    /\ DOMAIN s.loaded \cap s.none = {}
    /\ s.corrupt \subseteq DOMAIN s.loaded
    /\ \A i \in Modules : Unique(i) => Kept1(s, i)

\* What the answer about a module says of its symbols.
SaidOf(i, result) ==
    /\ result = "error" => GetSymbolFile(scene.modules[i]) = NULL \/ ~scene.resolver \/ ~scene.supplier
    /\ result = "corrupt" => GetSymbolFile(scene.modules[i]) # NULL /\ IsCorrupt(Tables[GetSymbolFile(scene.modules[i])])

AnswerOK(r) ==
    /\ r = Answer(r.sym, r.result, r.module, r.name)
    /\ SymOK(r.sym)
    /\ r.module \in {0} \cup Modules
    /\ r.module # 0 /\ Unique(r.module) => SaidOf(r.module, r.result)

LEMMA LoadedOK ==
    ASSUME NEW s, SymOK(s), NEW i \in Modules, NEW file, file = scene.modules[i].file,
           file \notin DOMAIN s.loaded, file \notin s.none, NEW f, f = GetSymbolFile(scene.modules[i]), f # NULL
    PROVE  SymOK(LoadModuleUsingMemoryBuffer(s, file, f))
<1> DEFINE t == LoadModuleUsingMemoryBuffer(s, file, f)
<1>0. s \in SymRecords /\ file \in FileNames /\ f \in FilesFound
  BY DEF SymOK, FileNames, FilesFound
<1>1. s.loaded \in Partial(FileNames, FilesFound) /\ s.corrupt \in SUBSET FileNames
  BY <1>0 DEF SymRecords
<1>2. /\ With(s.loaded, file, f) \in Partial(FileNames, FilesFound)
      /\ DOMAIN With(s.loaded, file, f) = DOMAIN s.loaded \cup {file}
      /\ \A y \in DOMAIN s.loaded \cup {file} : With(s.loaded, file, f)[y] = IF y = file THEN f ELSE s.loaded[y]
  <2>1. With(s.loaded, file, f) \in Partial(FileNames, FilesFound)
    BY <1>0, <1>1, WithInPartial
  <2>2. DOMAIN With(s.loaded, file, f) = DOMAIN s.loaded \cup {file}
    BY DEF With
  <2>3. \A y \in DOMAIN s.loaded \cup {file} : With(s.loaded, file, f)[y] = IF y = file THEN f ELSE s.loaded[y]
    BY DEF With
  <2> QED
    BY <2>1, <2>2, <2>3
<1>3. /\ t = [s EXCEPT !.loaded = With(s.loaded, file, f),
                       !.corrupt = IF IsCorrupt(Tables[f]) THEN s.corrupt \cup {file} ELSE s.corrupt]
  BY DEF LoadModuleUsingMemoryBuffer
<1> HIDE DEF t
<1>4. /\ t \in SymRecords /\ t.loaded = With(s.loaded, file, f) /\ t.none = s.none
      /\ t.corrupt = IF IsCorrupt(Tables[f]) THEN s.corrupt \cup {file} ELSE s.corrupt
  <2> DEFINE c == IF IsCorrupt(Tables[f]) THEN s.corrupt \cup {file} ELSE s.corrupt
  <2>1. c \in SUBSET FileNames
    BY <1>0, <1>1
  <2> HIDE DEF c
  <2>2. t = [s EXCEPT !.loaded = With(s.loaded, file, f), !.corrupt = c]
    BY <1>3 DEF c
  <2>3. t \in SymRecords /\ t.loaded = With(s.loaded, file, f) /\ t.none = s.none /\ t.corrupt = c
    BY <1>0, <1>1, <1>2, <2>1, <2>2 DEF SymRecords
  <2> QED
    BY <2>3 DEF c
<1>5. ASSUME NEW j \in Modules, Unique(j) PROVE Kept1(t, j)
  <2>1. CASE scene.modules[j].file = file
    <3>1. j = i
      BY <1>5, <2>1 DEF Unique, Modules
    <3> QED
      BY <1>2, <1>4, <3>1 DEF Kept1, SymOK
  <2>2. CASE scene.modules[j].file # file
    <3>1. Kept1(s, j)
      BY <1>5 DEF SymOK
    <3> QED
      BY <1>2, <1>4, <2>2, <3>1 DEF Kept1
  <2> QED
    BY <2>1, <2>2
<1>6. DOMAIN t.loaded \cap t.none = {} /\ t.corrupt \subseteq DOMAIN t.loaded
  BY <1>2, <1>4 DEF SymOK
<1>7. SymOK(t)
  BY <1>4, <1>5, <1>6 DEF SymOK
<1> QED
  BY <1>7 DEF t

\* The answer about module i before it is looked what is corrupt.
AnswerAbout(r, i) ==
    /\ AnswerOK(r) /\ r.module = i
    /\ r.result \in {"ok", "error", "interrupt"}
    /\ r.result = "ok" => scene.modules[i].file \in DOMAIN r.sym.loaded

LEMMA AskedOK ==
    ASSUME NEW s, SymOK(s), NEW i \in Modules, i # 0,
           scene.modules[i].file \notin DOMAIN s.loaded, scene.modules[i].file \notin s.none
    PROVE  AnswerAbout(Asked(s, i, scene.modules[i].file, GetSymbolFile(scene.modules[i])), i)
<1> DEFINE file == scene.modules[i].file
           f == GetSymbolFile(scene.modules[i])
           r == Asked(s, i, file, f)
<1>0. i \in Modules
  BY DEF Modules
<1>1. CASE s.asks \in scene.interrupts
  <2>1. r = Answer(s, "interrupt", i, Nameless)
    BY <1>1 DEF Asked
  <2> QED
    BY <2>1 DEF AnswerAbout, AnswerOK, Answer, SaidOf
<1>2. CASE s.asks \notin scene.interrupts /\ f = NULL
  <2> DEFINE t == [s EXCEPT !.none = s.none \cup {file}]
  <2>1. r = Answer(t, "error", i, Nameless)
    BY <1>2 DEF Asked
  <2>2. s \in SymRecords /\ file \in FileNames
    BY <1>0 DEF SymOK, FileNames
  <2>3. t \in SymRecords /\ t.loaded = s.loaded /\ t.corrupt = s.corrupt /\ t.none = s.none \cup {file}
    BY <2>2 DEF SymRecords
  <2> HIDE DEF t
  <2>4. ASSUME NEW j \in Modules, Unique(j) PROVE Kept1(t, j)
    <3>1. Kept1(s, j)
      BY <2>4 DEF SymOK
    <3>2. scene.modules[j].file = file => j = i
      BY <1>0, <2>4 DEF Unique, Modules
    <3> QED
      BY <1>2, <2>3, <3>1, <3>2 DEF Kept1
  <2>5. SymOK(t)
    BY <2>3, <2>4 DEF SymOK
  <2> QED
    BY <1>2, <2>1, <2>5 DEF AnswerAbout, AnswerOK, Answer, SaidOf
<1>3. CASE s.asks \notin scene.interrupts /\ f # NULL
  <2>1. r = Answer(LoadModuleUsingMemoryBuffer(s, file, f), "ok", i, Nameless)
    BY <1>3 DEF Asked
  <2>2. SymOK(LoadModuleUsingMemoryBuffer(s, file, f))
    BY <1>0, <1>3, LoadedOK
  <2>3. file \in DOMAIN LoadModuleUsingMemoryBuffer(s, file, f).loaded
    <3>1. s.loaded \in Partial(FileNames, FilesFound) /\ file \in FileNames /\ f \in FilesFound /\ s \in SymRecords
      BY <1>0 DEF SymOK, FileNames, FilesFound, SymRecords
    <3>2. file \in DOMAIN With(s.loaded, file, f)
      BY DEF With
    <3> QED
      BY <3>1, <3>2 DEF LoadModuleUsingMemoryBuffer, SymRecords
  <2> QED
    BY <2>1, <2>2, <2>3 DEF AnswerAbout, AnswerOK, Answer, SaidOf
<1> QED
  BY <1>1, <1>2, <1>3

LEMMA KnownOK ==
    ASSUME NEW s, SymOK(s), NEW i \in Modules, i # 0
    PROVE  AnswerAbout(Known(s, i, scene.modules[i].file), i)
<1> DEFINE file == scene.modules[i].file
           r == Known(s, i, file)
<1>1. CASE ~scene.resolver \/ file \in s.none
  <2>1. r = Answer(s, "error", i, Nameless)
    BY <1>1 DEF Known
  <2>2. Unique(i) => SaidOf(i, "error")
    BY <1>1 DEF SymOK, Kept1, SaidOf, Modules
  <2> QED
    BY <2>1, <2>2 DEF AnswerAbout, AnswerOK, Answer
<1>2. CASE ~(~scene.resolver \/ file \in s.none) /\ file \in DOMAIN s.loaded
  <2>1. r = Answer(s, "ok", i, Nameless)
    BY <1>2 DEF Known
  <2> QED
    BY <1>2, <2>1 DEF AnswerAbout, AnswerOK, Answer, SaidOf
<1>3. CASE ~(~scene.resolver \/ file \in s.none) /\ file \notin DOMAIN s.loaded /\ ~scene.supplier
  <2>1. r = Answer(s, "error", i, Nameless)
    BY <1>3 DEF Known
  <2> QED
    BY <1>3, <2>1 DEF AnswerAbout, AnswerOK, Answer, SaidOf
<1>4. CASE ~(~scene.resolver \/ file \in s.none) /\ file \notin DOMAIN s.loaded /\ scene.supplier
  <2> DEFINE t == [s EXCEPT !.asks = s.asks + 1]
  <2>1. r = Asked(t, i, file, GetSymbolFile(scene.modules[i]))
    BY <1>4 DEF Known
  <2>2. s \in SymRecords
    BY DEF SymOK
  <2>3. t \in SymRecords /\ t.loaded = s.loaded /\ t.corrupt = s.corrupt /\ t.none = s.none
    BY <2>2 DEF SymRecords
  <2> HIDE DEF t
  <2>4. SymOK(t)
    BY <2>3 DEF SymOK, Kept1
  <2>5. file \notin DOMAIN t.loaded /\ file \notin t.none
    BY <1>4, <2>3
  <2>6. AnswerAbout(Asked(t, i, file, GetSymbolFile(scene.modules[i])), i)
    BY <2>4, <2>5, AskedOK
  <2> QED
    BY <2>1, <2>6
<1> QED
  BY <1>1, <1>2, <1>3, <1>4

LEMMA WithNameOK ==
    ASSUME NEW s, SymOK(s), NEW i \in Modules, i # 0, NEW a
    PROVE  AnswerOK(WithName(Known(s, i, scene.modules[i].file), scene.modules[i], a))
           /\ WithName(Known(s, i, scene.modules[i].file), scene.modules[i], a).module = i
<1> DEFINE file == scene.modules[i].file
           r == Known(s, i, file)
           m == scene.modules[i]
<1>1. /\ AnswerOK(r) /\ r.module = i /\ r.result \in {"ok", "error", "interrupt"}
      /\ r.result = "ok" => file \in DOMAIN r.sym.loaded
  BY KnownOK DEF AnswerAbout
<1> HIDE DEF r
<1>2. CASE r.result # "ok"
  BY <1>1, <1>2 DEF WithName, r
<1>3. CASE r.result = "ok"
  <2> DEFINE c == IF file \in r.sym.corrupt THEN "corrupt" ELSE "ok"
             q == Resolved(r, m, a, r.sym.loaded[file])
  <2>1. WithName(r, m, a) = q
    BY <1>3 DEF WithName
  <2>2. PICK name : name = LookupAddress(Tables[r.sym.loaded[file]], SymbolFiles[r.sym.loaded[file]].lines, Wrap(a - m.base))
    OBVIOUS
  <2>3. q = [r EXCEPT !.result = c, !.name = name]
    BY <2>2 DEF Resolved
  <2>4. r = [sym |-> r.sym, result |-> r.result, module |-> r.module, name |-> r.name]
    BY <1>1 DEF AnswerOK, Answer
  <2>5. /\ q = [sym |-> r.sym, result |-> c, module |-> i, name |-> name]
    BY <1>1, <2>3, <2>4
  <2> HIDE DEF q
  <2>6. Unique(i) => SaidOf(i, c)
    <3>1. Unique(i) => Kept1(r.sym, i)
      BY <1>1 DEF AnswerOK, SymOK, Modules
    <3> QED
      BY <1>1, <1>3, <3>1 DEF SaidOf, Kept1
  <2>7. q = Answer(q.sym, q.result, q.module, q.name) /\ q.sym = r.sym /\ q.module = i /\ q.result = c
    BY <2>5 DEF Answer
  <2> HIDE DEF c
  <2>8. AnswerOK(q)
    BY <1>1, <2>6, <2>7 DEF AnswerOK
  <2> QED
    BY <2>1, <2>7, <2>8 DEF r
<1> QED
  BY <1>2, <1>3 DEF r

\* Addresses are in a module or in none.
LEMMA ModuleThere ==
    ASSUME IsScene(scene), NEW a
    PROVE  GetModuleForAddress(a) \in {0} \cup Modules /\ 0 \notin Modules
<1>1. CASE scene.modules = NULL
  BY <1>1 DEF GetModuleForAddress, Modules
<1>2. CASE scene.modules # NULL
  <2> DEFINE n == Len(scene.modules)
             T == {i \in DOMAIN scene.modules :
                      scene.modules[i].base <= a /\ a < scene.modules[i].base + scene.modules[i].size} \cup {n + 1}
  <2>1. n \in Nat /\ DOMAIN scene.modules = 1..n
    BY <1>2 DEF IsScene, IsList
  <2>2. T \in SUBSET (1..(n + 1)) /\ T \in SUBSET Nat /\ T # {}
    BY <2>1
  <2> HIDE DEF T, n
  <2>3. PICK x \in T : \A y \in T : x <= y
    BY <2>2, LeastNumber
  <2>4. Min(T) \in T
    BY <2>3 DEF Min
  <2>5. GetModuleForAddress(a) = Min(T) % (n + 1)
    BY <1>2 DEF GetModuleForAddress, T, n
  <2>6. \A y \in 1..(n + 1) : y % (n + 1) \in 0..n
    BY <2>1
  <2>7. GetModuleForAddress(a) \in 0..n
    BY <2>2, <2>4, <2>5, <2>6
  <2>8. {0} \cup Modules = 0..n /\ 0 \notin Modules
    BY <1>2, <2>1 DEF Modules
  <2> QED
    BY <2>7, <2>8
<1> QED
  BY <1>1, <1>2

\* The symbolizer's answer, whatever it is asked.
LEMMA FilledOK ==
    ASSUME IsScene(scene), NEW s, SymOK(s), NEW a
    PROVE  AnswerOK(FillSourceLineInfo(s, a)) /\ FillSourceLineInfo(s, a).module = GetModuleForAddress(a)
<1> DEFINE i == GetModuleForAddress(a)
<1>1. i \in {0} \cup Modules
  BY ModuleThere
<1>2. FillSourceLineInfo(s, a) = FillFrom(s, a, i)
  BY DEF FillSourceLineInfo
<1> HIDE DEF i
<1>3. CASE i = 0
  <2>1. FillFrom(s, a, i) = Answer(s, "error", 0, Nameless)
    BY <1>3 DEF FillFrom
  <2> QED
    BY <1>2, <1>3, <2>1 DEF AnswerOK, Answer, i
<1>4. CASE i # 0
  <2>1. FillFrom(s, a, i) = WithName(Known(s, i, scene.modules[i].file), scene.modules[i], a)
    BY <1>4 DEF FillFrom
  <2> QED
    BY <1>1, <1>2, <1>4, <2>1, WithNameOK DEF i
<1> QED
  BY <1>3, <1>4
---------------------------------------------------------------------------
(* Words and memory.                                                       *)

Word == WordsOf(scene.cpu)

LEMMA TimesPositive ==
    ASSUME NEW a \in Nat \ {0}, NEW b \in Nat \ {0}
    PROVE  a * b \in Nat \ {0} /\ a <= a * b
OBVIOUS

LEMMA HalfPositive == HalfWord \in Nat \ {0} /\ HalfWord * HalfWord \in Nat \ {0} /\ Word = 0..(HalfWord * HalfWord - 1)
<1>1. Half * Half \in Nat \ {0}
  BY HalfAssumption, TimesPositive
<1>2. HalfOf(scene.cpu) \in Nat \ {0}
  BY <1>1, HalfAssumption DEF HalfOf
<1>3. HalfOf(scene.cpu) * HalfOf(scene.cpu) \in Nat \ {0}
  BY <1>2, TimesPositive
<1> QED
  BY <1>2, <1>3 DEF HalfWord, Word, WordsOf

\* No word of a CPU is beyond the address space of the model.
LEMMA WordIsAddress == Word \subseteq Addresses /\ 0 \in Word
<1> DEFINE q == Half * Half
<1>1. q \in Nat \ {0}
  BY HalfAssumption, TimesPositive
<1>2. AddrSpace = q * q
  BY HalfAssumption
<1>3. q <= q * q
  BY <1>1, TimesPositive
<1>4. HalfOf(scene.cpu) * HalfOf(scene.cpu) \in {q, q * q}
  BY DEF HalfOf
<1> HIDE DEF q
<1>5. q * q \in Nat
  BY <1>1, TimesPositive
<1> QED
  BY <1>1, <1>2, <1>3, <1>4, <1>5 DEF Word, WordsOf, Addresses

LEMMA ArithmeticOK ==
    ASSUME NEW x \in Int
    PROVE  A(x) \in Word
<1> DEFINE q == HalfWord * HalfWord
<1>1. q \in Nat \ {0} /\ Word = 0..(q - 1)
  BY HalfPositive
<1> HIDE DEF q
<1>2. x % q \in 0..(q - 1)
  BY <1>1
<1> QED
  BY <1>1, <1>2 DEF A, q

LEMMA WordIsInt == Word \subseteq Int
<1>1. HalfWord * HalfWord \in Nat
  BY HalfPositive
<1> QED
  BY <1>1, HalfPositive

\* A word that lies across two others has half of each.
LEMMA HalvesJoin ==
    ASSUME NEW x \in Word, NEW y \in Word
    PROVE  x \div HalfWord + HalfWord * (y % HalfWord) \in Word
<1> DEFINE h == HalfWord
           b == y % h
           a == x \div h
<1>1. h \in Nat \ {0} /\ Word = 0..(h * h - 1) /\ x \in Nat /\ y \in Nat /\ x <= h * h - 1
  <2>1. h * h \in Nat
    BY HalfPositive
  <2> QED
    BY <2>1, HalfPositive
<1> HIDE DEF h
<1>2. a \in Nat /\ x = h * a + (x % h) /\ x % h \in 0..(h - 1)
  BY <1>1
<1>3. b \in 0..(h - 1)
  BY <1>1
<1> HIDE DEF a, b
<1>4. h * a <= h * h - 1
  <2>1. h * a \in Nat /\ h * h \in Nat
    BY <1>1, <1>2
  <2> QED
    BY <1>1, <1>2, <2>1
<1>5. a <= h - 1
  <2> SUFFICES ASSUME a >= h PROVE FALSE
    BY <1>1, <1>2
  <2>1. PICK d \in Nat : a = h + d
    BY <1>1, <1>2
  <2>2. h * a = h * h + h * d /\ h * d \in Nat /\ h * h \in Nat
    BY <1>1, <2>1
  <2> QED
    BY <1>4, <2>2
<1>6. h * b \in Nat /\ h * b <= h * h - h /\ h * h \in Nat
  <2>1. PICK d \in Nat : h - 1 = b + d
    BY <1>1, <1>3
  <2>2. h * h = h * b + h * d + h /\ h * d \in Nat /\ h * b \in Nat
    <3>1. h = b + d + 1
      BY <1>1, <1>3, <2>1
    <3>2. h * (b + d + 1) = h * b + h * d + h
      BY <1>1, <1>3
    <3> QED
      BY <1>1, <1>3, <3>1, <3>2
  <2> QED
    BY <1>1, <2>2
<1>7. a + h * b \in 0..(h * h - 1)
  BY <1>1, <1>2, <1>5, <1>6
<1> QED
  BY <1>1, <1>7 DEF a, b, h

\* Where a frame is asked for its caller: a thread with memory.
Here == IsScene(scene) /\ walk.thread \in DOMAIN scene.threads /\ Memory # NULL

MemoryOK(m) == m.base \in Nat /\ m.words \in Seq(Word)

LEMMA MemoryThere ==
    ASSUME Here
    PROVE  MemoryOK(Memory)
<1>1. Memory = scene.threads[walk.thread].mem
  BY DEF Here, Memory
<1> QED
  BY <1>1 DEF Here, IsScene, MemoryOK, Word

\* What is read is a word, or there is nothing.
LEMMA ReadOK ==
    ASSUME NEW m, MemoryOK(m), NEW a \in Int
    PROVE  GetMemoryAt(m, a) = NULL \/ GetMemoryAt(m, a) \in Word
<1> DEFINE k == a - m.base
           n == Len(m.words)
<1>1. k \in Int /\ n \in Nat /\ \A i \in 1..n : m.words[i] \in Word
  BY DEF MemoryOK
<1> HIDE DEF k, n
<1>2. CASE k < 0 \/ k > W * n - W
  <2>1. ~(k >= 0 /\ k <= W * n - W /\ k % W = 0)
    BY <1>1, <1>2 DEF W
  <2> QED
    BY <1>2, <2>1 DEF GetMemoryAt, WordAt, k, n
<1>3. CASE ~(k < 0 \/ k > W * n - W) /\ k % W = 0
  <2>1. k \div W + 1 \in 1..n
    BY <1>1, <1>3 DEF W
  <2>2. GetMemoryAt(m, a) = m.words[k \div W + 1]
    <3>1. k >= 0 /\ k <= W * n - W /\ k % W = 0 /\ ~(k < 0 \/ k > W * n - W)
      BY <1>1, <1>3 DEF W
    <3> QED
      BY <3>1 DEF GetMemoryAt, WordAt, k, n
  <2> QED
    BY <1>1, <2>1, <2>2
<1>4. CASE ~(k < 0 \/ k > W * n - W) /\ k % W # 0
  <2>1. k \div W + 1 \in 1..n /\ k \div W + 2 \in 1..n
    BY <1>1, <1>4 DEF W
  <2>2. GetMemoryAt(m, a) = m.words[k \div W + 1] \div HalfWord + HalfWord * (m.words[k \div W + 2] % HalfWord)
    BY <1>4 DEF GetMemoryAt, WordAt, k, n
  <2> QED
    BY <1>1, <2>1, <2>2, HalvesJoin
<1> QED
  BY <1>2, <1>3, <1>4

LEMMA ReadHere ==
    ASSUME Here, NEW a \in Int
    PROVE  GetMemoryAtAddress(a) = NULL \/ GetMemoryAtAddress(a) \in Word
BY MemoryThere, ReadOK DEF GetMemoryAtAddress
---------------------------------------------------------------------------
(* Scanning.                                                               *)

\* A scan has found nothing, or a word of memory whose value seems valid.
ScanStep(start, r, k) == IF r.end THEN r ELSE Tried(r, A(start + k * W), GetMemoryAtAddress(A(start + k * W)))

SymStates == {s \in SymRecords : SymOK(s)}

Scanning == [sym : SymStates, at : Word \cup {NULL}, ip : Word, end : BOOLEAN]

LEMMA ScanStepOK ==
    ASSUME Here, NEW start \in Int, NEW r \in Scanning, NEW k \in Int
    PROVE  ScanStep(start, r, k) \in Scanning
<1> DEFINE at == A(start + k * W)
           ip == GetMemoryAtAddress(at)
<1>1. at \in Word
  <2>1. start + k * W \in Int
    BY DEF W
  <2> QED
    BY <2>1, ArithmeticOK
<1>2. ip = NULL \/ ip \in Word
  BY <1>1, ReadHere, WordIsInt
<1> HIDE DEF at, ip
<1>3. CASE r.end
  BY <1>3 DEF ScanStep
<1>4. CASE ~r.end /\ ip = NULL
  <2>1. ScanStep(start, r, k) = [r EXCEPT !.end = TRUE]
    BY <1>4 DEF ScanStep, Tried, at, ip
  <2> QED
    BY <2>1 DEF Scanning
<1>5. CASE ~r.end /\ ip # NULL
  <2> DEFINE answer == FillSourceLineInfo(r.sym, ip)
             valid == SeemsValid(answer)
             next == IF valid THEN at ELSE NULL
  <2>1. ScanStep(start, r, k) = Judged(r, at, ip, answer)
    BY <1>5 DEF ScanStep, Tried, at, ip
  <2>2. SymOK(r.sym)
    BY DEF Scanning, SymStates
  <2>3. AnswerOK(answer)
    BY <2>2, FilledOK DEF Here
  <2>4. answer.sym \in SymStates
    BY <2>3 DEF AnswerOK, SymStates, SymOK
  <2> HIDE DEF answer
  <2>5. valid \in BOOLEAN
    BY DEF SeemsValid
  <2>6. next \in Word \cup {NULL}
    BY <1>1
  <2>7. Judged(r, at, ip, answer) = [r EXCEPT !.sym = answer.sym, !.at = next, !.ip = ip, !.end = valid]
    BY DEF Judged
  <2> HIDE DEF next, valid
  <2> QED
    BY <1>2, <1>5, <2>1, <2>4, <2>5, <2>6, <2>7 DEF Scanning
<1> QED
  BY <1>2, <1>3, <1>4, <1>5

LEMMA ScanStays ==
    ASSUME Here, NEW s, SymOK(s), NEW start \in Int, NEW words \in Nat
    PROVE  ScanForReturnAddress(s, start, words) \in Scanning
<1> DEFINE n == words + 1
           X == Scanning
           x0 == [sym |-> s, at |-> NULL, ip |-> 0, end |-> A(start + words * W) < start]
           seq == [k \in 1..(words + 1) |-> k - 1]
           Op(r, k) == IF r.end THEN r ELSE Tried(r, A(start + k * W), GetMemoryAtAddress(A(start + k * W)))
<1>0. x0 \in X /\ n \in Nat
  <2>1. s \in SymStates
    BY DEF SymStates, SymOK
  <2>2. (A(start + words * W) < start) \in BOOLEAN
    OBVIOUS
  <2> QED
    BY <2>1, <2>2, WordIsAddress DEF Scanning
<1>1. DOMAIN seq = 1..n /\ \A i \in 1..n : \A x \in X : Op(x, seq[i]) \in X
  <2> HIDE DEF X, Op
  <2>1. \A i \in 1..n : seq[i] \in Int
    OBVIOUS
  <2>2. \A x \in X : \A k \in Int : Op(x, k) \in X
    BY ScanStepOK DEF ScanStep, Op, X
  <2> QED
    BY <2>1, <2>2
<1> HIDE DEF X, x0, seq, n
<1> DEFINE step == [i \in 1..n |-> [x \in X |-> Op(x, seq[i])]]
           Body(g, S) == Op(g[S \ {Max(S)}], seq[Max(S)])
           it == CHOOSE g : g = [S \in SUBSET (1..n) |-> IF S = {} THEN x0 ELSE Body(g, S)]
<1>2. \A i \in 1..n : \A x \in X : step[i][x] = Op(x, seq[i]) /\ step[i][x] \in X
  <2> HIDE DEF Op
  <2> QED
    BY <1>1
<1>3. FoldLeft(LAMBDA r, k : IF r.end THEN r ELSE Tried(r, A(start + k * W), GetMemoryAtAddress(A(start + k * W))), x0, seq) = it[1..n]
  BY <1>1, Zenon DEF FoldLeft, MapThenFoldSet
<1> HIDE DEF Op, step
<1>4. \A g : \A S \in SUBSET (1..n) : S # {} /\ g[S \ {Max(S)}] \in X => Body(g, S) = step[Max(S)][g[S \ {Max(S)}]]
  <2> SUFFICES ASSUME NEW g, NEW S \in SUBSET (1..n), S # {}, g[S \ {Max(S)}] \in X
               PROVE  Body(g, S) = step[Max(S)][g[S \ {Max(S)}]]
    OBVIOUS
  <2>1. Max(S) \in 1..n
    BY <1>0, MaxUpTo
  <2> QED
    BY <1>2, <2>1
<1>5. it = [S \in SUBSET (1..n) |-> IF S = {} THEN x0 ELSE Body(it, S)]
  <2>1. PICK g : IsFold(g, n, X, x0, step)
    BY <1>0, <1>2, FoldExists
  <2>2. g \in [SUBSET (1..n) -> X] /\ \A S \in SUBSET (1..n) : g[S] = IF S = {} THEN x0 ELSE step[Max(S)][g[S \ {Max(S)}]]
    BY <2>1 DEF IsFold
  <2>3. \A S \in SUBSET (1..n) : S # {} => g[S \ {Max(S)}] \in X
    BY <2>2
  <2>4. \A S \in SUBSET (1..n) : g[S] = IF S = {} THEN x0 ELSE Body(g, S)
    BY <1>4, <2>2, <2>3
  <2> HIDE DEF Body
  <2>5. g = [S \in SUBSET (1..n) |-> IF S = {} THEN x0 ELSE Body(g, S)]
    BY <2>2, <2>4
  <2> USE DEF Body
  <2> QED
    BY <2>5, Zenon
<1> HIDE DEF it
<1>6. FoldsBy(it, n, X, x0, step)
  <2>1. it[{}] = x0 /\ \A S \in SUBSET (1..n) : S # {} => it[S] = Body(it, S)
    <3> HIDE DEF Body
    <3> QED
      BY <1>5
  <2> HIDE DEF Body
  <2> QED
    BY <1>4, <2>1 DEF FoldsBy
<1>7. it[1..n] \in X
  BY <1>0, <1>2, <1>6, FoldStays
<1> QED
  BY <1>3, <1>7, Zenon DEF ScanForReturnAddress, x0, seq, X
---------------------------------------------------------------------------
(* Expressions and rules.                                                  *)

Numbers(values) == \A n \in DOMAIN values : values[n] \in Int

LEMMA SumStays ==
    ASSUME NEW e, IsExpression(e), NEW values, Numbers(values), \A i \in DOMAIN e.of : e.of[i] \in DOMAIN values
    PROVE  Sum(e, values) \in Word
<1> DEFINE n == Len(e.of)
           X == Int
           x0 == e.plus
           seq == e.of
           Op(x, k) == x + values[k]
<1>0. x0 \in X /\ n \in Nat
  BY DEF IsExpression, IsList
<1>1. DOMAIN seq = 1..n /\ \A i \in 1..n : \A x \in X : Op(x, seq[i]) \in X
  <2>1. DOMAIN seq = 1..n
    BY DEF IsExpression, IsList
  <2>2. \A i \in 1..n : values[seq[i]] \in Int
    BY <2>1 DEF Numbers
  <2> QED
    BY <2>1, <2>2
<1> HIDE DEF X, x0, seq, n
<1> DEFINE step == [i \in 1..n |-> [x \in X |-> Op(x, seq[i])]]
           Body(g, S) == Op(g[S \ {Max(S)}], seq[Max(S)])
           it == CHOOSE g : g = [S \in SUBSET (1..n) |-> IF S = {} THEN x0 ELSE Body(g, S)]
<1>2. \A i \in 1..n : \A x \in X : step[i][x] = Op(x, seq[i]) /\ step[i][x] \in X
  <2> HIDE DEF Op
  <2> QED
    BY <1>1
<1>3. FoldLeft(LAMBDA x, k : x + values[k], x0, seq) = it[1..n]
  BY <1>1, Zenon DEF FoldLeft, MapThenFoldSet
<1> HIDE DEF Op, step
<1>4. \A g : \A S \in SUBSET (1..n) : S # {} /\ g[S \ {Max(S)}] \in X => Body(g, S) = step[Max(S)][g[S \ {Max(S)}]]
  <2> SUFFICES ASSUME NEW g, NEW S \in SUBSET (1..n), S # {}, g[S \ {Max(S)}] \in X
               PROVE  Body(g, S) = step[Max(S)][g[S \ {Max(S)}]]
    OBVIOUS
  <2>1. Max(S) \in 1..n
    BY <1>0, MaxUpTo
  <2> QED
    BY <1>2, <2>1
<1>5. it = [S \in SUBSET (1..n) |-> IF S = {} THEN x0 ELSE Body(it, S)]
  <2>1. PICK g : IsFold(g, n, X, x0, step)
    BY <1>0, <1>2, FoldExists
  <2>2. g \in [SUBSET (1..n) -> X] /\ \A S \in SUBSET (1..n) : g[S] = IF S = {} THEN x0 ELSE step[Max(S)][g[S \ {Max(S)}]]
    BY <2>1 DEF IsFold
  <2>3. \A S \in SUBSET (1..n) : S # {} => g[S \ {Max(S)}] \in X
    BY <2>2
  <2>4. \A S \in SUBSET (1..n) : g[S] = IF S = {} THEN x0 ELSE Body(g, S)
    BY <1>4, <2>2, <2>3
  <2> HIDE DEF Body
  <2>5. g = [S \in SUBSET (1..n) |-> IF S = {} THEN x0 ELSE Body(g, S)]
    BY <2>2, <2>4
  <2> USE DEF Body
  <2> QED
    BY <2>5, Zenon
<1> HIDE DEF it
<1>6. FoldsBy(it, n, X, x0, step)
  <2>1. it[{}] = x0 /\ \A S \in SUBSET (1..n) : S # {} => it[S] = Body(it, S)
    <3> HIDE DEF Body
    <3> QED
      BY <1>5
  <2> HIDE DEF Body
  <2> QED
    BY <1>4, <2>1 DEF FoldsBy
<1>7. it[1..n] \in X
  BY <1>0, <1>2, <1>6, FoldStays
<1>8. FoldLeft(LAMBDA x, k : x + values[k], e.plus, e.of) \in Int
  BY <1>3, <1>7, Zenon DEF x0, seq, X
<1>9. PICK v \in Int : v = FoldLeft(LAMBDA x, k : x + values[k], e.plus, e.of)
  BY <1>8, Zenon
<1>10. A(v) \in Word
  BY ArithmeticOK
<1> QED
  BY <1>9, <1>10, Zenon DEF Sum

LEMMA AlignedOK ==
    ASSUME NEW v \in Word, NEW align \in Nat \ {0}
    PROVE  v - (v % align) \in Word
<1>1. v \in Nat /\ \A x \in 0..v : x \in Word
  <2>1. HalfWord * HalfWord \in Nat
    BY HalfPositive
  <2> QED
    BY <2>1, HalfPositive
<1>2. v = align * (v \div align) + (v % align) /\ v % align \in 0..(align - 1) /\ v \div align \in Nat
  BY <1>1
<1>3. align * (v \div align) \in Nat
  BY <1>2
<1>4. v - (v % align) \in 0..v
  BY <1>1, <1>2, <1>3
<1> QED
  BY <1>1, <1>4

\* What can be computed is a word.
LEMMA EvaluateOK ==
    ASSUME Here, NEW e, IsExpression(e), NEW values, Numbers(values)
    PROVE  EvaluateForValue(e, values) = NULL \/ EvaluateForValue(e, values) \in Word
<1>1. CASE \E i \in DOMAIN e.of : e.of[i] \notin DOMAIN values
  BY <1>1 DEF EvaluateForValue
<1>2. CASE \A i \in DOMAIN e.of : e.of[i] \in DOMAIN values
  <2> DEFINE v == Sum(e, values)
  <2>1. v \in Word
    BY <1>2, SumStays
  <2>2. EvaluateForValue(e, values) = IF e.deref THEN GetMemoryAtAddress(v) ELSE v - (v % e.align)
    BY <1>2 DEF EvaluateForValue
  <2> HIDE DEF v
  <2>3. GetMemoryAtAddress(v) = NULL \/ GetMemoryAtAddress(v) \in Word
    BY <2>1, ReadHere, WordIsInt
  <2>4. v - (v % e.align) \in Word
    BY <2>1, AlignedOK DEF IsExpression
  <2> QED
    BY <2>2, <2>3, <2>4
<1> QED
  BY <1>1, <1>2

Regs == [Registers -> Word]

RulesOK(rules) == \A n \in DOMAIN rules : IsExpression(rules[n])

\* The rules of all registers can be computed, or none is.
LEMMA CallerRegsOK ==
    ASSUME Here, NEW rules, RulesOK(rules), NEW last, last.regs \in Regs, last.valid \in SUBSET Registers,
           FindCallerRegs(rules, last) # NULL
    PROVE  /\ {".cfa", ".ra"} \subseteq DOMAIN FindCallerRegs(rules, last)
           /\ \A n \in DOMAIN FindCallerRegs(rules, last) : FindCallerRegs(rules, last)[n] \in Word
<1> DEFINE values == [n \in last.valid |-> last.regs[n]]
           cfa == EvaluateForValue(rules[".cfa"], values)
           with == With(values, ".cfa", cfa)
           rest == [n \in DOMAIN rules \ {".cfa"} |-> EvaluateForValue(rules[n], with)]
           found == FindCallerRegs(rules, last)
<1>1. {".cfa", ".ra"} \subseteq DOMAIN rules /\ found = CallerValues(rules, values, cfa)
  BY DEF FindCallerRegs
<1>2. Numbers(values)
  BY WordIsInt DEF Regs, Numbers
<1> HIDE DEF values
<1>3. cfa = NULL \/ cfa \in Word
  BY <1>1, <1>2, EvaluateOK DEF RulesOK
<1>4. cfa # NULL
  BY <1>1 DEF CallerValues
<1> HIDE DEF cfa
<1>5. Numbers(with)
  BY <1>2, <1>3, <1>4, WordIsInt DEF Numbers, With
<1>6. /\ ~\E n \in DOMAIN rules \ {".cfa"} : EvaluateForValue(rules[n], with) = NULL
      /\ found = With(rest, ".cfa", cfa)
  <2> USE DEF cfa
  <2> QED
    BY <1>1, <1>4 DEF CallerValues
<1> HIDE DEF with, found
<1>7. \A n \in DOMAIN rules \ {".cfa"} : EvaluateForValue(rules[n], with) \in Word
  BY <1>5, <1>6, EvaluateOK DEF RulesOK
<1>8. DOMAIN rest = DOMAIN rules \ {".cfa"} /\ \A n \in DOMAIN rest : rest[n] \in Word
  BY <1>7
<1> HIDE DEF rest
<1>9. DOMAIN found = DOMAIN rest \cup {".cfa"} /\ \A n \in DOMAIN found : found[n] \in Word
  BY <1>3, <1>4, <1>6, <1>8 DEF With
<1>10. ".ra" # ".cfa"
  OBVIOUS
<1> QED
  BY <1>1, <1>8, <1>9, <1>10 DEF found
---------------------------------------------------------------------------
(* Frames and their callers.                                               *)

\* Frame data has a program whose expressions are ones.
InfoOK(info) ==
    /\ info.params \in Int /\ info.saved \in Int /\ info.locals \in Int
    /\ IsList(info.program) /\ \A i \in DOMAIN info.program : IsExpression(info.program[i][2])

WindowsOK(win) == win # NULL => win.params \in Int /\ (win.all => InfoOK(win.of))

FrameOK(f) ==
    /\ f = [trust |-> f.trust, regs |-> f.regs, valid |-> f.valid, instruction |-> f.instruction,
            module |-> f.module, name |-> f.name, win |-> f.win]
    /\ f.trust \in Trusts /\ f.regs \in Regs /\ f.valid \in SUBSET Registers
    /\ f.instruction \in Addresses /\ f.module \in {0} \cup Modules /\ WindowsOK(f.win)

\* What is found of a caller: not by a scan where there is to be none.
FoundOK(new, scan) ==
    /\ new = Caller(new.trust, new.regs, new.valid)
    /\ new.trust \in Trusts /\ new.regs \in Regs /\ new.valid \in SUBSET Registers
    /\ ~scan => Dubious(new.trust) = 0

CallerOK(c, scan) ==
    /\ c = [sym |-> c.sym, new |-> c.new]
    /\ SymOK(c.sym)
    /\ c.new # NULL => FoundOK(c.new, scan)

\* A new caller of four words.
LEMMA CallerMade ==
    ASSUME NEW trust \in Trusts, NEW regs \in Regs, NEW valid \in SUBSET Registers, NEW scan, ~scan => Dubious(trust) = 0
    PROVE  FoundOK(Caller(trust, regs, valid), scan)
BY DEF FoundOK, Caller

LEMMA CallerIs ==
    ASSUME NEW s, SymOK(s), NEW new, NEW scan, new # NULL => FoundOK(new, scan)
    PROVE  CallerOK([sym |-> s, new |-> new], scan)
BY DEF CallerOK

LEMMA NoCallerOK ==
    ASSUME NEW s, SymOK(s), NEW scan
    PROVE  CallerOK(NoCaller(s), scan)
BY DEF CallerOK, NoCaller

LEMMA FourRegs ==
    ASSUME NEW ip \in Word, NEW sp \in Word, NEW fp \in Word, NEW lr \in Word
    PROVE  [ip |-> ip, sp |-> sp, fp |-> fp, lr |-> lr] \in Regs
BY DEF Regs, Registers

LEMMA RegIs ==
    ASSUME NEW regs \in Regs
    PROVE  regs.ip \in Word /\ regs.sp \in Word /\ regs.fp \in Word /\ regs.lr \in Word
BY DEF Regs, Registers

LEMMA FromRulesOK ==
    ASSUME NEW found, \A n \in DOMAIN found : found[n] \in Word, {".cfa", ".ra"} \subseteq DOMAIN found,
           NEW last, FrameOK(last), NEW scan
    PROVE  FoundOK(FromRules(found, last), scan)
<1> DEFINE ip == At(found, "ip", found[".ra"])
           sp == At(found, "sp", found[".cfa"])
           fp == At(found, "fp", IF "fp" \in last.valid THEN last.regs.fp ELSE 0)
           lr == At(found, "lr", 0)
           valid == {"ip", "sp"} \cup ({"fp"} \cap (DOMAIN found \cup last.valid)) \cup ({"lr"} \cap DOMAIN found)
<1>1. 0 \in Word /\ last.regs.fp \in Word
  BY WordIsAddress, RegIs DEF FrameOK
<1>2. ip \in Word /\ sp \in Word /\ fp \in Word /\ lr \in Word
  BY <1>1 DEF At
<1>3. valid \in SUBSET Registers
  BY DEF Registers
<1>4. FromRules(found, last) = Caller("CFI", [ip |-> ip, sp |-> sp, fp |-> fp, lr |-> lr], valid)
  BY Zenon DEF FromRules
<1> HIDE DEF ip, sp, fp, lr, valid
<1>5. "CFI" \in Trusts /\ Dubious("CFI") = 0
  BY DEF Trusts, Dubious
<1> QED
  BY <1>2, <1>3, <1>4, <1>5, FourRegs, CallerMade

LEMMA EssentialsOK ==
    ASSUME NEW found, \A n \in DOMAIN found : found[n] \in Word, {".cfa", ".ra"} \subseteq DOMAIN found,
           NEW last, FrameOK(last), NEW scan, NEW c, FoundOK(c, scan), EssentialsOf(c, found, last) # NULL
    PROVE  FoundOK(EssentialsOf(c, found, last), scan)
<1>1. CASE scene.cpu = "arm" /\ scene.os = "ios" /\ "ip" \notin DOMAIN found
  <2> DEFINE regs == [[c.regs EXCEPT !.ip = last.regs.lr] EXCEPT !.lr = found[".ra"]]
             valid == c.valid \cup {"lr"}
  <2>1. EssentialsOf(c, found, last) = [[c EXCEPT !.regs = regs] EXCEPT !.valid = valid]
    <3>1. EssentialsOf(c, found, last) = [c EXCEPT !.regs.ip = last.regs.lr, !.regs.lr = found[".ra"], !.valid = @ \cup {"lr"}]
      BY <1>1 DEF EssentialsOf, ByLinkRegister
    <3>2. c = [trust |-> c.trust, regs |-> c.regs, valid |-> c.valid]
      BY DEF FoundOK, Caller
    <3> QED
      BY <3>1, <3>2
  <2>2. regs \in Regs /\ valid \in SUBSET Registers
    <3>1. last.regs.lr \in Word
      BY RegIs DEF FrameOK
    <3> QED
      BY <3>1 DEF FoundOK, Regs, Registers
  <2> HIDE DEF regs, valid
  <2>3. [[c EXCEPT !.regs = regs] EXCEPT !.valid = valid] = Caller(c.trust, regs, valid)
    <3>1. c = [trust |-> c.trust, regs |-> c.regs, valid |-> c.valid]
      BY DEF FoundOK, Caller
    <3> DEFINE d == [c EXCEPT !.regs = regs]
    <3>2. d = [trust |-> c.trust, regs |-> regs, valid |-> c.valid]
      BY <3>1
    <3> HIDE DEF d
    <3>3. [d EXCEPT !.valid = valid] = [trust |-> c.trust, regs |-> regs, valid |-> valid]
      BY <3>2
    <3> QED
      BY <3>3 DEF Caller, d
  <2> QED
    BY <2>1, <2>2, <2>3, CallerMade DEF FoundOK
<1>2. CASE ~(scene.cpu = "arm" /\ scene.os = "ios" /\ "ip" \notin DOMAIN found)
  <2>1. EssentialsOf(c, found, last) = c
    BY <1>2 DEF EssentialsOf, ByLinkRegister
  <2> QED
    BY <2>1
<1> QED
  BY <1>1, <1>2

LEMMA ByCFIOK ==
    ASSUME Here, NEW s, SymOK(s), NEW last, FrameOK(last), NEW rules, rules # NULL => RulesOK(rules), NEW scan
    PROVE  CallerOK(ByCFI(s, last, rules), scan)
<1> DEFINE found == FindCallerRegs(rules, last)
<1>1. CASE rules = NULL \/ found = NULL
  <2>1. ByCFI(s, last, rules) = NoCaller(s)
    BY <1>1 DEF ByCFI, GetCallerByCFIFrameInfo
  <2> QED
    BY <2>1, NoCallerOK
<1>2. CASE rules # NULL /\ found # NULL
  <2> DEFINE c == FromRules(found, last)
             new == EssentialsOf(c, found, last)
  <2>1. {".cfa", ".ra"} \subseteq DOMAIN found /\ \A n \in DOMAIN found : found[n] \in Word
    <3>1. last.regs \in Regs /\ last.valid \in SUBSET Registers
      BY DEF FrameOK
    <3> QED
      BY <1>2, <3>1, CallerRegsOK
  <2>2. ByCFI(s, last, rules) = [sym |-> s, new |-> new]
    BY <1>2 DEF ByCFI, GetCallerByCFIFrameInfo
  <2> HIDE DEF found
  <2>3. FoundOK(c, scan)
    BY <2>1, FromRulesOK
  <2> HIDE DEF c
  <2>4. new # NULL => FoundOK(new, scan)
    BY <2>1, <2>3, EssentialsOK
  <2> HIDE DEF new
  <2> QED
    BY <2>2, <2>4, CallerIs
<1> QED
  BY <1>1, <1>2

\* What a scan has found is the caller's, all but the instruction pointer and
\* the stack pointer as they were.
LEMMA ScannedOK ==
    ASSUME NEW last, FrameOK(last), NEW r \in Scanning, NEW valid \in SUBSET Registers
    PROVE  CallerOK(Scanned(last, r, valid), TRUE)
<1>1. SymOK(r.sym) /\ (r.at # NULL => r.at \in Word) /\ r.ip \in Word
  BY DEF Scanning, SymStates
<1>2. CASE r.at = NULL
  BY <1>1, <1>2, CallerIs DEF Scanned
<1>3. CASE r.at # NULL
  <2> DEFINE sp == A(r.at + W)
             regs == [last.regs EXCEPT !.ip = r.ip, !.sp = sp]
  <2>1. sp \in Word
    <3>0. r.at \in Int
      BY <1>1, <1>3, WordIsInt
    <3>1. r.at + W \in Int
      BY <3>0 DEF W
    <3> QED
      BY <3>1, ArithmeticOK
  <2>2. Scanned(last, r, valid) = [sym |-> r.sym, new |-> Caller("SCAN", regs, valid)]
    BY <1>3 DEF Scanned
  <2> HIDE DEF sp
  <2>3. regs \in Regs
    BY <1>1, <2>1 DEF FrameOK, Regs, Registers
  <2> HIDE DEF regs
  <2>4. "SCAN" \in Trusts
    BY DEF Trusts
  <2> QED
    BY <1>1, <2>2, <2>3, <2>4, CallerIs, CallerMade
<1> QED
  BY <1>2, <1>3
---------------------------------------------------------------------------
(* Frame pointers and scans, for each CPU.                                 *)

LEMMA FPFound ==
    ASSUME NEW x, NEW scan, FoundOK(x, scan), NEW fp \in Word
    PROVE  FoundOK([x EXCEPT !.regs = [x.regs EXCEPT !.fp = fp]], scan)
<1> DEFINE regs == [x.regs EXCEPT !.fp = fp]
           new == [x EXCEPT !.regs = regs]
<1>1. x = [trust |-> x.trust, regs |-> x.regs, valid |-> x.valid]
  BY DEF FoundOK, Caller
<1>2. regs \in Regs
  BY DEF FoundOK, Regs, Registers
<1> HIDE DEF regs
<1>3. new = [trust |-> x.trust, regs |-> regs, valid |-> x.valid]
  BY <1>1
<1> HIDE DEF new
<1>4. FoundOK(new, scan)
  BY <1>2, <1>3 DEF FoundOK, Caller
<1> QED
  BY <1>4 DEF new, regs

LEMMA ValidFound ==
    ASSUME NEW x, NEW scan, FoundOK(x, scan), NEW valid \in SUBSET Registers
    PROVE  FoundOK([x EXCEPT !.valid = valid], scan)
<1> DEFINE new == [x EXCEPT !.valid = valid]
<1>1. x = [trust |-> x.trust, regs |-> x.regs, valid |-> x.valid]
  BY DEF FoundOK, Caller
<1>2. new = [trust |-> x.trust, regs |-> x.regs, valid |-> valid]
  BY <1>1
<1> HIDE DEF new
<1>3. FoundOK(new, scan)
  BY <1>2 DEF FoundOK, Caller
<1> QED
  BY <1>3 DEF new

LEMMA NewFP ==
    ASSUME NEW c, NEW scan, CallerOK(c, scan), c.new # NULL, NEW fp \in Word
    PROVE  CallerOK([c EXCEPT !.new.regs.fp = fp], scan)
<1> DEFINE new == [c.new EXCEPT !.regs = [c.new.regs EXCEPT !.fp = fp]]
<1>1. c = [sym |-> c.sym, new |-> c.new] /\ SymOK(c.sym) /\ FoundOK(c.new, scan)
  BY DEF CallerOK
<1>2. FoundOK(new, scan)
  BY <1>1, FPFound
<1>3. [c EXCEPT !.new.regs.fp = fp] = [c EXCEPT !.new = new]
  OBVIOUS
<1> HIDE DEF new
<1>4. [c EXCEPT !.new = new] = [sym |-> c.sym, new |-> new]
  BY <1>1
<1> QED
  BY <1>1, <1>2, <1>3, <1>4, CallerIs

LEMMA NewFPValid ==
    ASSUME NEW c, NEW scan, CallerOK(c, scan), FoundOK(c.new, scan), NEW fp \in Word
    PROVE  CallerOK([c EXCEPT !.new.regs.fp = fp, !.new.valid = @ \cup {"fp"}], scan)
<1> DEFINE x == [c.new EXCEPT !.regs = [c.new.regs EXCEPT !.fp = fp]]
           new == [x EXCEPT !.valid = c.new.valid \cup {"fp"}]
<1>1. c = [sym |-> c.sym, new |-> c.new] /\ SymOK(c.sym) /\ FoundOK(c.new, scan)
  BY DEF CallerOK
<1>2. FoundOK(x, scan)
  BY <1>1, FPFound
<1>3. c.new.valid \cup {"fp"} \in SUBSET Registers
  BY <1>1 DEF FoundOK, Registers
<1>4. [c EXCEPT !.new.regs.fp = fp, !.new.valid = @ \cup {"fp"}] = [sym |-> c.sym, new |-> new]
  <2>1. c.new = [trust |-> c.new.trust, regs |-> c.new.regs, valid |-> c.new.valid]
    BY <1>1 DEF FoundOK, Caller
  <2> DEFINE v == c.new.valid \cup {"fp"}
             d == [c EXCEPT !.new.regs.fp = fp]
  <2>2. d = [sym |-> c.sym, new |-> x]
    BY <1>1
  <2>3. [c EXCEPT !.new.regs.fp = fp, !.new.valid = v] = [d EXCEPT !.new = [d.new EXCEPT !.valid = v]]
    OBVIOUS
  <2> HIDE DEF d, x
  <2>4. d.new = x /\ d.sym = c.sym
    BY <2>2
  <2>5. [d EXCEPT !.new = [d.new EXCEPT !.valid = v]] = [sym |-> c.sym, new |-> new]
    BY <2>2, <2>4
  <2> QED
    BY <2>3, <2>5
<1> HIDE DEF x
<1>5. FoundOK(new, scan)
  BY <1>2, <1>3, ValidFound
<1> HIDE DEF new
<1> QED
  BY <1>1, <1>4, <1>5, CallerIs

LEMMA SearchLengthOK ==
    ASSUME NEW frames
    PROVE  SearchLength(frames) \in Nat
BY SearchAssumption DEF SearchLength

\* A stack pointer to go on from.
LEMMA AboveOK ==
    ASSUME NEW x \in Word, NEW n \in Int
    PROVE  A(x + n) \in Word
<1>1. x + n \in Int
  BY WordIsInt
<1> QED
  BY <1>1, ArithmeticOK

LEMMA ScanHere ==
    ASSUME Here, NEW s, SymOK(s), NEW last, FrameOK(last), NEW words \in Nat
    PROVE  ScanForReturnAddress(s, last.regs.sp, words) \in Scanning
<1>1. last.regs.sp \in Int
  BY RegIs, WordIsInt DEF FrameOK
<1> QED
  BY <1>1, ScanStays

LEMMA ByEBPOK ==
    ASSUME Here, NEW s, SymOK(s), NEW last, FrameOK(last), NEW frames, NEW scan \in BOOLEAN
    PROVE  CallerOK(GetCallerByEBPAtBase(s, frames, last, scan), scan)
<1> DEFINE ra == GetMemoryAtAddress(A(last.regs.fp + W))
           ebp == GetMemoryAtAddress(last.regs.fp)
           sp == A(last.regs.fp + 2 * W)
           regs == [last.regs EXCEPT !.ip = ra, !.sp = sp, !.fp = ebp]
           valid == {"ip", "sp", "fp"}
           r == ScanForReturnAddress(s, last.regs.sp, SearchLength(frames))
           c == Scanned(last, r, valid)
<1>0. valid \in SUBSET Registers /\ last.regs \in Regs /\ last.regs.fp \in Word
  BY RegIs DEF Registers, FrameOK
<1>1. A(last.regs.fp + W) \in Word /\ sp \in Word
  BY <1>0, AboveOK DEF W
<1>2. (ra = NULL \/ ra \in Word) /\ (ebp = NULL \/ ebp \in Word)
  <2>1. A(last.regs.fp + W) \in Int /\ last.regs.fp \in Int
    BY <1>0, <1>1, WordIsInt
  <2> QED
    BY <2>1, ReadHere
<1>3. CASE ra # NULL /\ ebp # NULL
  <2>1. GetCallerByEBPAtBase(s, frames, last, scan) = [sym |-> s, new |-> Caller("FP", regs, valid)]
    BY <1>3 DEF GetCallerByEBPAtBase
  <2> HIDE DEF ra, ebp, sp
  <2>2. regs \in Regs
    BY <1>0, <1>1, <1>2, <1>3 DEF Regs, Registers
  <2> HIDE DEF regs, valid
  <2>3. "FP" \in Trusts /\ Dubious("FP") = 0
    BY DEF Trusts, Dubious
  <2> QED
    BY <1>0, <2>1, <2>2, <2>3, CallerMade, CallerIs
<1>4. CASE ~(ra # NULL /\ ebp # NULL) /\ ~scan
  <2>1. GetCallerByEBPAtBase(s, frames, last, scan) = NoCaller(s)
    BY <1>4 DEF GetCallerByEBPAtBase
  <2> QED
    BY <2>1, NoCallerOK
<1>5. CASE ~(ra # NULL /\ ebp # NULL) /\ scan
  <2>1. GetCallerByEBPAtBase(s, frames, last, scan) = WithEBP(c, last)
    BY <1>5 DEF GetCallerByEBPAtBase
  <2>2. r \in Scanning
    BY SearchLengthOK, ScanHere
  <2> HIDE DEF r
  <2>3. CallerOK(c, TRUE)
    BY <1>0, <2>2, ScannedOK
  <2> HIDE DEF c
  <2>4. CallerOK(WithEBP(c, last), TRUE)
    <3>1. CASE c.new = NULL
      BY <2>3, <3>1 DEF WithEBP
    <3>2. CASE c.new # NULL
      <4> DEFINE at == A(c.new.regs.sp - 2 * W)
                 old == GetMemoryAtAddress(at)
                 fp == RestoredEBP(at, old, last.regs.fp)
      <4>1. WithEBP(c, last) = [c EXCEPT !.new.regs.fp = fp]
        BY <3>2 DEF WithEBP
      <4>2. at \in Word
        <5>1. c.new.regs.sp \in Word
          BY <2>3, <3>2, RegIs DEF CallerOK, FoundOK
        <5>2. c.new.regs.sp \in Int
          BY <5>1, WordIsInt
        <5>3. c.new.regs.sp - 2 * W \in Int
          BY <5>2 DEF W
        <5> QED
          BY <5>3, ArithmeticOK
      <4> HIDE DEF at
      <4>3. old = NULL \/ old \in Word
        BY <4>2, ReadHere, WordIsInt
      <4> HIDE DEF old
      <4>4. fp \in Word
        BY <1>0, <4>3 DEF RestoredEBP
      <4> HIDE DEF fp
      <4>5. CallerOK([c EXCEPT !.new.regs.fp = fp], TRUE)
        BY <2>3, <3>2, <4>4, NewFP
      <4> QED
        BY <4>1, <4>5
    <3> QED
      BY <3>1, <3>2
  <2> QED
    BY <1>5, <2>1, <2>4
<1> QED
  BY <1>3, <1>4, <1>5

LEMMA OrEBPOK ==
    ASSUME Here, NEW c, NEW last, FrameOK(last), NEW frames, NEW scan \in BOOLEAN, CallerOK(c, scan)
    PROVE  CallerOK(OrEBP(c, frames, last, scan), scan)
<1>1. SymOK(c.sym)
  BY DEF CallerOK
<1>2. CallerOK(GetCallerByEBPAtBase(c.sym, frames, last, scan), scan)
  BY <1>1, ByEBPOK
<1> QED
  BY <1>2 DEF OrEBP

LEMMA RecoveryOK ==
    ASSUME Here, NEW s, SymOK(s), NEW last, FrameOK(last), NEW rip, rip = NULL \/ rip \in Word,
           NEW rbp, rbp = NULL \/ rbp \in Word, NEW scan
    PROVE  CallerOK(GetCallerByFramePointerRecovery(s, last, rip, rbp), scan)
<1> DEFINE sp == A(last.regs.fp + 2 * W)
           regs == [last.regs EXCEPT !.ip = rip, !.sp = sp, !.fp = rbp]
           c == GetCallerByFramePointerRecovery(s, last, rip, rbp)
           valid == {"ip", "sp", "fp"}
<1>1. valid \in SUBSET Registers /\ last.regs \in Regs /\ last.regs.fp \in Word
  BY RegIs DEF Registers, FrameOK
<1>2. sp \in Word
  BY <1>1, AboveOK DEF W
<1>3. CASE rip = NULL \/ rbp = NULL
  <2>1. c = NoCaller(s)
    BY <1>3 DEF GetCallerByFramePointerRecovery
  <2> QED
    BY <2>1, NoCallerOK
<1>4. CASE rip # NULL /\ rbp # NULL
  <2>1. c = NoCaller(s) \/ c = [sym |-> s, new |-> Caller("FP", regs, valid)]
    BY <1>4 DEF GetCallerByFramePointerRecovery
  <2> HIDE DEF c, sp
  <2>2. regs \in Regs
    BY <1>1, <1>2, <1>4 DEF Regs, Registers
  <2> HIDE DEF regs, valid
  <2>3. "FP" \in Trusts /\ Dubious("FP") = 0
    BY DEF Trusts, Dubious
  <2>4. CallerOK([sym |-> s, new |-> Caller("FP", regs, valid)], scan)
    BY <1>1, <2>2, <2>3, CallerMade, CallerIs
  <2>5. CallerOK(c, scan)
    BY <2>1, <2>4, NoCallerOK
  <2> QED
    BY <2>5 DEF c
<1> QED
  BY <1>3, <1>4

LEMMA ReadAtFP ==
    ASSUME Here, NEW last, FrameOK(last)
    PROVE  /\ GetMemoryAtAddress(last.regs.fp) = NULL \/ GetMemoryAtAddress(last.regs.fp) \in Word
           /\ GetMemoryAtAddress(A(last.regs.fp + W)) = NULL \/ GetMemoryAtAddress(A(last.regs.fp + W)) \in Word
<1>1. last.regs.fp \in Word
  BY RegIs DEF FrameOK
<1>2. A(last.regs.fp + W) \in Word
  BY <1>1, AboveOK DEF W
<1>3. last.regs.fp \in Int /\ A(last.regs.fp + W) \in Int
  BY <1>1, <1>2, WordIsInt
<1> QED
  BY <1>3, ReadHere

LEMMA OrFPAMD64OK ==
    ASSUME Here, NEW c, NEW last, FrameOK(last), NEW scan, CallerOK(c, scan)
    PROVE  CallerOK(OrFP_AMD64(c, last), scan)
<1>1. SymOK(c.sym)
  BY DEF CallerOK
<1>2. CallerOK(GetCallerByFramePointerRecovery(c.sym, last, GetMemoryAtAddress(A(last.regs.fp + W)),
                                               GetMemoryAtAddress(last.regs.fp)), scan)
  BY <1>1, ReadAtFP, RecoveryOK
<1> QED
  BY <1>2 DEF OrFP_AMD64

LEMMA StackScanOK ==
    ASSUME Here, NEW last, FrameOK(last), NEW r \in Scanning
    PROVE  CallerOK(GetCallerByStackScan_AMD64(last, r), TRUE)
<1> DEFINE c == Scanned(last, r, {"ip", "sp"})
           old == GetMemoryAtAddress(last.regs.fp)
           rbp == ScannedRBP(last, r.at, old)
<1>1. CASE r.at = NULL
  <2>1. SymOK(r.sym)
    BY DEF Scanning, SymStates
  <2> QED
    BY <1>1, <2>1, NoCallerOK DEF GetCallerByStackScan_AMD64
<1>2. CASE r.at # NULL
  <2>1. {"ip", "sp"} \in SUBSET Registers
    BY DEF Registers
  <2>2. CallerOK(c, TRUE)
    BY <2>1, ScannedOK
  <2>3. GetCallerByStackScan_AMD64(last, r) = WithRBP(c, rbp)
    BY <1>2 DEF GetCallerByStackScan_AMD64
  <2>4. old = NULL \/ old \in Word
    BY ReadAtFP
  <2> HIDE DEF old
  <2>5. rbp = NULL \/ rbp \in Word
    <3>1. last.regs.fp \in Word
      BY RegIs DEF FrameOK
    <3>2. rbp \in {NULL, old, last.regs.fp}
      BY DEF ScannedRBP
    <3> QED
      BY <2>4, <3>1, <3>2
  <2>6. FoundOK(c.new, TRUE)
    <3>1. r.at \in Word /\ r.ip \in Word
      BY <1>2 DEF Scanning
    <3> DEFINE sp == A(r.at + W)
               regs == [last.regs EXCEPT !.ip = r.ip, !.sp = sp]
    <3>2. sp \in Word
      BY <3>1, AboveOK DEF W
    <3>3. c.new = Caller("SCAN", regs, {"ip", "sp"})
      BY <1>2 DEF Scanned
    <3> HIDE DEF sp
    <3>4. regs \in Regs
      BY <3>1, <3>2 DEF FrameOK, Regs, Registers
    <3> HIDE DEF regs
    <3>5. "SCAN" \in Trusts
      BY DEF Trusts
    <3> QED
      BY <2>1, <3>3, <3>4, <3>5, CallerMade
  <2> HIDE DEF c, rbp
  <2>7. CASE rbp = NULL
    BY <2>2, <2>3, <2>7 DEF WithRBP
  <2>8. CASE rbp # NULL
    <3>1. WithRBP(c, rbp) = [c EXCEPT !.new.regs.fp = rbp, !.new.valid = @ \cup {"fp"}]
      BY <2>8 DEF WithRBP
    <3>2. CallerOK([c EXCEPT !.new.regs.fp = rbp, !.new.valid = @ \cup {"fp"}], TRUE)
      BY <2>2, <2>5, <2>6, <2>8, NewFPValid
    <3> QED
      BY <2>3, <3>1, <3>2
  <2> QED
    BY <2>7, <2>8
<1> QED
  BY <1>1, <1>2

LEMMA OrScanAMD64OK ==
    ASSUME Here, NEW c, NEW last, FrameOK(last), NEW frames, NEW scan \in BOOLEAN, CallerOK(c, scan)
    PROVE  CallerOK(OrScan_AMD64(c, frames, last, scan), scan)
<1> DEFINE r == ScanForReturnAddress(c.sym, last.regs.sp, SearchLength(frames))
<1>1. CASE c.new # NULL \/ ~scan
  BY <1>1 DEF OrScan_AMD64
<1>2. CASE ~(c.new # NULL \/ ~scan)
  <2>1. SymOK(c.sym)
    BY DEF CallerOK
  <2>2. r \in Scanning
    BY <2>1, SearchLengthOK, ScanHere
  <2>3. CallerOK(GetCallerByStackScan_AMD64(last, r), TRUE)
    BY <2>2, StackScanOK
  <2>4. OrScan_AMD64(c, frames, last, scan) = GetCallerByStackScan_AMD64(last, r)
    BY <1>2 DEF OrScan_AMD64
  <2>5. scan = TRUE
    BY <1>2
  <2> QED
    BY <2>3, <2>4, <2>5
<1> QED
  BY <1>1, <1>2

LEMMA RemainderOK ==
    ASSUME NEW v \in Word, NEW m \in Nat \ {0}
    PROVE  v % m \in Word
<1>1. v \in Nat /\ \A x \in 0..v : x \in Word
  <2>1. HalfWord * HalfWord \in Nat
    BY HalfPositive
  <2> QED
    BY <2>1, HalfPositive
<1>2. v = m * (v \div m) + (v % m) /\ v % m \in 0..(m - 1) /\ v \div m \in Nat
  BY <1>1
<1>3. m * (v \div m) \in Nat
  BY <1>2
<1>4. v % m \in 0..v
  BY <1>1, <1>2, <1>3
<1> QED
  BY <1>1, <1>4

LEMMA TruncatedOK ==
    ASSUME NEW c, NEW scan, CallerOK(c, scan)
    PROVE  CallerOK(Truncated(c), scan)
<1>1. CASE c.new = NULL \/ scene.os # "nacl"
  BY <1>1 DEF Truncated
<1>2. CASE ~(c.new = NULL \/ scene.os # "nacl")
  <2> DEFINE q == Half * Half
             old == c.new.regs
             ip == old.ip % q
             sp == old.sp % q
             fp == old.fp % q
             regs == [old EXCEPT !.ip = ip, !.sp = sp, !.fp = fp]
             new == [c.new EXCEPT !.regs = regs]
  <2>1. Truncated(c) = [c EXCEPT !.new = new]
    BY <1>2 DEF Truncated, Narrowed
  <2>2. c = [sym |-> c.sym, new |-> c.new] /\ SymOK(c.sym) /\ FoundOK(c.new, scan)
    BY <1>2 DEF CallerOK
  <2>3. q \in Nat \ {0}
    BY HalfAssumption, TimesPositive
  <2> HIDE DEF q
  <2>4. old.ip \in Word /\ old.sp \in Word /\ old.fp \in Word
    BY <2>2, RegIs DEF FoundOK
  <2>5. ip \in Word /\ sp \in Word /\ fp \in Word
    BY <2>3, <2>4, RemainderOK
  <2> HIDE DEF ip, sp, fp
  <2>6. regs \in Regs
    BY <2>2, <2>5 DEF FoundOK, Regs, Registers
  <2>7. c.new = [trust |-> c.new.trust, regs |-> old, valid |-> c.new.valid]
    BY <2>2 DEF FoundOK, Caller
  <2> HIDE DEF regs
  <2>8. new = [trust |-> c.new.trust, regs |-> regs, valid |-> c.new.valid]
    BY <2>7
  <2> HIDE DEF new
  <2>9. FoundOK(new, scan)
    BY <2>2, <2>6, <2>8 DEF FoundOK, Caller
  <2>10. [c EXCEPT !.new = new] = [sym |-> c.sym, new |-> new]
    BY <2>2
  <2> QED
    BY <2>1, <2>2, <2>9, <2>10, CallerIs
<1> QED
  BY <1>1, <1>2

LEMMA ByFramePointerOK ==
    ASSUME NEW s, SymOK(s), NEW last, FrameOK(last), NEW fp, fp = NULL \/ fp \in Word, NEW lr, lr = NULL \/ lr \in Word, NEW scan
    PROVE  CallerOK(GetCallerByFramePointer(s, last, fp, lr), scan)
<1> DEFINE sp == IF last.regs.fp = 0 THEN last.regs.sp ELSE A(last.regs.fp + 2 * W)
           ip == last.regs.lr
           regs == [ip |-> ip, fp |-> fp, lr |-> lr, sp |-> sp]
           valid == {"ip", "sp", "fp", "lr"}
<1>1. CASE fp = NULL \/ lr = NULL
  BY <1>1, NoCallerOK DEF GetCallerByFramePointer
<1>2. CASE ~(fp = NULL \/ lr = NULL)
  <2>1. GetCallerByFramePointer(s, last, fp, lr) = [sym |-> s, new |-> Caller("FP", regs, valid)]
    BY <1>2 DEF GetCallerByFramePointer
  <2>2. last.regs.fp \in Word /\ last.regs.sp \in Word /\ ip \in Word
    BY RegIs DEF FrameOK
  <2>3. A(last.regs.fp + 2 * W) \in Word
    BY <2>2, AboveOK DEF W
  <2>4. sp \in Word
    BY <2>2, <2>3
  <2> HIDE DEF sp, ip
  <2>5. regs \in Regs /\ valid \in SUBSET Registers
    BY <1>2, <2>2, <2>4 DEF Regs, Registers
  <2> HIDE DEF regs, valid
  <2>6. "FP" \in Trusts /\ Dubious("FP") = 0
    BY DEF Trusts, Dubious
  <2> QED
    BY <2>1, <2>5, <2>6, CallerMade, CallerIs
<1> QED
  BY <1>1, <1>2

LEMMA OrFPARMOK ==
    ASSUME Here, NEW c, NEW last, FrameOK(last), NEW scan, CallerOK(c, scan)
    PROVE  CallerOK(OrFP_ARM(c, last), scan)
<1>1. SymOK(c.sym) /\ 0 \in Word
  BY WordIsAddress DEF CallerOK
<1>2. CallerOK(GetCallerByFramePointer(c.sym, last, 0, 0), scan)
  BY <1>1, ByFramePointerOK
<1>3. CallerOK(GetCallerByFramePointer(c.sym, last, GetMemoryAtAddress(last.regs.fp), GetMemoryAtAddress(A(last.regs.fp + W))), scan)
  BY <1>1, ReadAtFP, ByFramePointerOK
<1> QED
  BY <1>2, <1>3 DEF OrFP_ARM

LEMMA OrScanARMOK ==
    ASSUME Here, NEW c, NEW last, FrameOK(last), NEW frames, NEW scan \in BOOLEAN, CallerOK(c, scan)
    PROVE  CallerOK(OrScan_ARM(c, frames, last, scan), scan)
<1> DEFINE r == ScanForReturnAddress(c.sym, last.regs.sp, SearchLength(frames))
<1>1. CASE c.new # NULL \/ ~scan
  BY <1>1 DEF OrScan_ARM
<1>2. CASE ~(c.new # NULL \/ ~scan)
  <2>1. SymOK(c.sym) /\ {"ip", "sp"} \in SUBSET Registers
    BY DEF CallerOK, Registers
  <2>2. r \in Scanning
    BY <2>1, SearchLengthOK, ScanHere
  <2>3. CallerOK(Scanned(last, r, {"ip", "sp"}), TRUE)
    BY <2>1, <2>2, ScannedOK
  <2>4. OrScan_ARM(c, frames, last, scan) = Scanned(last, r, {"ip", "sp"})
    BY <1>2 DEF OrScan_ARM
  <2>5. scan = TRUE
    BY <1>2
  <2> QED
    BY <2>3, <2>4, <2>5
<1> QED
  BY <1>1, <1>2
---------------------------------------------------------------------------
(* Windows' frame data.                                                    *)

ProgramOK(program) == IsList(program) /\ \A i \in DOMAIN program : IsExpression(program[i][2])

LEMMA ListIs ==
    ASSUME NEW X, NEW s \in Seq(X)
    PROVE  IsList(s)
<1> DEFINE S == {s[i] : i \in DOMAIN s}
<1>1. s \in [1..Len(s) -> S] /\ Len(s) \in Nat
  OBVIOUS
<1>2. s \in Seq(S)
  <2> HIDE DEF S
  <2>1. [1..Len(s) -> S] \subseteq Seq(S)
    BY <1>1
  <2> QED
    BY <1>1, <2>1
<1> QED
  BY <1>2 DEF IsList

LEMMA TwoPrograms ==
    ASSUME NEW X, NEW p \in Seq(X), NEW q \in Seq(X), \A x \in X : IsExpression(x[2])
    PROVE  p \o q \in Seq(X) /\ ProgramOK(p \o q)
<1>1. p \o q \in Seq(X)
  OBVIOUS
<1>2. DOMAIN (p \o q) = 1..Len(p \o q) /\ Len(p \o q) \in Nat /\ \A i \in DOMAIN (p \o q) : (p \o q)[i] \in X
  BY <1>1
<1>3. IsList(p \o q)
  BY <1>1, ListIs
<1> QED
  BY <1>2, <1>3 DEF ProgramOK

LEMMA TermOK ==
    ASSUME NEW of, IsList(of), NEW plus \in Int, NEW deref \in BOOLEAN
    PROVE  IsExpression(Term(of, plus, deref))
BY DEF Term, IsExpression

LEMMA ProgramStringOK ==
    ASSUME NEW info, InfoOK(info)
    PROVE  ProgramOK(ProgramString(info))
<1> DEFINE start == <<".raSearchStart">>
           below == <<"sp", ".cbCalleeParams", ".cbSavedRegs">>
           e1 == Term(start, 0, TRUE)
           e2 == Term(start, W, FALSE)
           e3 == Term(below, -2 * W, TRUE)
           X == {<<"ip", e1>>, <<"sp", e2>>, <<"fp", e3>>}
<1>1. IsList(start) /\ IsList(below)
  BY DEF IsList
<1>2. IsExpression(e1) /\ IsExpression(e2) /\ IsExpression(e3)
  <2> HIDE DEF start, below
  <2>1. W \in Int /\ -2 * W \in Int /\ 0 \in Int
    BY DEF W
  <2>2. IsExpression(e1)
    BY <1>1, <2>1, TermOK
  <2>3. IsExpression(e2)
    BY <1>1, <2>1, TermOK
  <2>4. IsExpression(e3)
    BY <1>1, <2>1, TermOK
  <2> QED
    BY <2>2, <2>3, <2>4
<1> HIDE DEF e1, e2, e3
<1>3. \A x \in X : IsExpression(x[2])
  BY <1>2
<1>4. << <<"ip", e1>> >> \in Seq(X) /\ << <<"sp", e2>> >> \in Seq(X) /\ << <<"fp", e3>> >> \in Seq(X)
  OBVIOUS
<1> HIDE DEF X
<1>5. << <<"ip", e1>> >> \o << <<"fp", e3>> >> \in Seq(X)
  BY <1>3, <1>4, TwoPrograms
<1>6. ProgramOK((<< <<"ip", e1>> >> \o << <<"fp", e3>> >>) \o << <<"sp", e2>> >>)
  BY <1>3, <1>4, <1>5, TwoPrograms
<1>7. ProgramOK(<< <<"ip", e1>> >> \o << <<"sp", e2>> >>)
  BY <1>3, <1>4, TwoPrograms
<1>8. CASE info.program # <<>>
  BY <1>8 DEF ProgramString, InfoOK, ProgramOK
<1>9. CASE info.program = <<>>
  <2>1. \/ ProgramString(info) = (<< <<"ip", e1>> >> \o << <<"fp", e3>> >>) \o << <<"sp", e2>> >>
        \/ ProgramString(info) = << <<"ip", e1>> >> \o << <<"sp", e2>> >>
    BY <1>9 DEF ProgramString, ReturnTo, Discard, e1, e2, e3
  <2> QED
    BY <1>6, <1>7, <2>1
<1> QED
  BY <1>8, <1>9

\* The dictionary of a program: its variables are numbers, and its registers
\* words.
DictionaryOK(values) ==
    /\ values = [n \in DOMAIN values |-> values[n]] /\ Numbers(values)
    /\ {"fp", "sp", ".raSearchStart"} \subseteq DOMAIN values
    /\ \A n \in {"ip", "sp", "fp"} \cap DOMAIN values : values[n] \in Word

LEMMA ValuesOK ==
    ASSUME NEW last, FrameOK(last), NEW info, InfoOK(info), NEW params \in Int, NEW start \in Int
    PROVE  DictionaryOK(Values(last, info, params, start))
<1> DEFINE values == Values(last, info, params, start)
           names == {".cbCalleeParams", ".cbSavedRegs", ".cbLocals", ".cbParams", ".raSearchStart", ".raSearch", "fp", "sp"}
<1>0. last.regs.fp \in Word /\ last.regs.sp \in Word /\ last.regs["fp"] = last.regs.fp /\ last.regs["sp"] = last.regs.sp
  BY RegIs DEF FrameOK
<1>1. info.params \in Int /\ info.saved \in Int /\ info.locals \in Int
  BY DEF InfoOK
<1>2. DOMAIN values = names
  BY DEF Values
<1>3. values["fp"] \in Word /\ values["sp"] \in Word
  BY <1>0 DEF Values
<1>4. \A n \in names \ {"fp", "sp"} : values[n] \in Int
  BY <1>1 DEF Values
<1>7. values = [n \in DOMAIN values |-> values[n]]
  BY DEF Values
<1> HIDE DEF values
<1>5. \A n \in names : values[n] \in Int
  BY <1>3, <1>4, WordIsInt
<1>6. DictionaryOK(values)
  BY <1>2, <1>3, <1>5, <1>7 DEF DictionaryOK, Numbers
<1> QED
  BY <1>6 DEF values

Evaluating(names) ==
    {r \in [ok : BOOLEAN, values : Partial(names, Int), set : SUBSET names] :
        DictionaryOK(r.values) /\ r.set \subseteq DOMAIN r.values}

LEMMA AssignedOK ==
    ASSUME NEW names, NEW r \in Evaluating(names), NEW to \in names, NEW v, v = NULL \/ v \in Word
    PROVE  Assigned(r, to, v) \in Evaluating(names)
<1> DEFINE S == [ok : BOOLEAN, values : Partial(names, Int), set : SUBSET names]
<1>0. r \in S /\ DictionaryOK(r.values) /\ r.set \subseteq DOMAIN r.values
  BY DEF Evaluating
<1>1. CASE v = NULL
  <2> DEFINE q == [r EXCEPT !.ok = FALSE]
  <2>1. q \in S /\ q.values = r.values /\ q.set = r.set
    BY <1>0
  <2>2. Assigned(r, to, v) = q
    BY <1>1 DEF Assigned
  <2> HIDE DEF q
  <2> QED
    BY <1>0, <2>1, <2>2 DEF Evaluating
<1>2. CASE v # NULL
  <2> DEFINE values == With(r.values, to, v)
             set == r.set \cup {to}
             q == [r EXCEPT !.values = values, !.set = set]
  <2>1. v \in Int /\ v \in Word
    BY <1>2, WordIsInt
  <2>2. values \in Partial(names, Int)
    BY <1>0, <2>1, WithInPartial
  <2>3. DictionaryOK(values) /\ set \subseteq DOMAIN values
    BY <1>0, <2>1 DEF With, DictionaryOK, Numbers
  <2>4. Assigned(r, to, v) = q
    BY <1>2 DEF Assigned
  <2>5. set \in SUBSET names
    BY <1>0
  <2> HIDE DEF values, set
  <2>6. q \in S /\ q.values = values /\ q.set = set
    BY <1>0, <2>2, <2>5
  <2> HIDE DEF q
  <2> QED
    BY <2>3, <2>4, <2>6 DEF Evaluating
<1> QED
  BY <1>1, <1>2

LEMMA EvaluateStays ==
    ASSUME Here, NEW program, ProgramOK(program), NEW values, DictionaryOK(values)
    PROVE  \E names : {"ip", "sp", "fp"} \subseteq names /\ Evaluate(program, values) \in Evaluating(names)
<1> DEFINE names == DOMAIN values \cup {program[i][1] : i \in DOMAIN program} \cup {"ip", "sp", "fp"}
           n == Len(program)
           X == Evaluating(names)
           x0 == [ok |-> TRUE, values |-> values, set |-> {}]
           seq == program
           Op(r, p) == IF r.ok THEN Assigned(r, p[1], EvaluateForValue(p[2], r.values)) ELSE r
<1>0. x0 \in X /\ n \in Nat
  <2>1. values \in Partial(names, Int)
    <3>1. values \in [DOMAIN values -> Int]
      <4>1. values = [x \in DOMAIN values |-> values[x]]
        BY DEF DictionaryOK
      <4> QED
        BY <4>1 DEF DictionaryOK, Numbers
    <3>2. DOMAIN values \in SUBSET names
      OBVIOUS
    <3> QED
      BY <3>1, <3>2 DEF Partial
  <2> HIDE DEF names
  <2>2. x0 \in [ok : BOOLEAN, values : Partial(names, Int), set : SUBSET names]
    BY <2>1
  <2> QED
    BY <2>2 DEF ProgramOK, IsList, Evaluating
<1>1. DOMAIN seq = 1..n /\ \A i \in 1..n : \A x \in X : Op(x, seq[i]) \in X
  <2>1. DOMAIN seq = 1..n
    BY DEF ProgramOK, IsList
  <2>2. SUFFICES ASSUME NEW i \in 1..n, NEW r \in X PROVE Op(r, seq[i]) \in X
    BY <2>1
  <2>3. IsExpression(program[i][2]) /\ program[i][1] \in names
    BY <2>1 DEF ProgramOK
  <2> HIDE DEF names
  <2>4. Numbers(r.values)
    BY DEF Evaluating, DictionaryOK
  <2> DEFINE v == EvaluateForValue(program[i][2], r.values)
  <2>5. v = NULL \/ v \in Word
    BY <2>3, <2>4, EvaluateOK
  <2> HIDE DEF v
  <2>6. Assigned(r, program[i][1], v) \in X
    BY <2>3, <2>5, AssignedOK
  <2> QED
    BY <2>6 DEF v
<1> HIDE DEF X, x0, seq, n
<1> DEFINE step == [i \in 1..n |-> [x \in X |-> Op(x, seq[i])]]
           Body(g, S) == Op(g[S \ {Max(S)}], seq[Max(S)])
           it == CHOOSE g : g = [S \in SUBSET (1..n) |-> IF S = {} THEN x0 ELSE Body(g, S)]
<1>2. \A i \in 1..n : \A x \in X : step[i][x] = Op(x, seq[i]) /\ step[i][x] \in X
  <2> HIDE DEF Op
  <2> QED
    BY <1>1
<1>3. FoldLeft(LAMBDA r, p : IF r.ok THEN Assigned(r, p[1], EvaluateForValue(p[2], r.values)) ELSE r, x0, seq) = it[1..n]
  BY <1>1, Zenon DEF FoldLeft, MapThenFoldSet
<1> HIDE DEF Op, step
<1>4. \A g : \A S \in SUBSET (1..n) : S # {} /\ g[S \ {Max(S)}] \in X => Body(g, S) = step[Max(S)][g[S \ {Max(S)}]]
  <2> SUFFICES ASSUME NEW g, NEW S \in SUBSET (1..n), S # {}, g[S \ {Max(S)}] \in X
               PROVE  Body(g, S) = step[Max(S)][g[S \ {Max(S)}]]
    OBVIOUS
  <2>1. Max(S) \in 1..n
    BY <1>0, MaxUpTo
  <2> QED
    BY <1>2, <2>1
<1>5. it = [S \in SUBSET (1..n) |-> IF S = {} THEN x0 ELSE Body(it, S)]
  <2>1. PICK g : IsFold(g, n, X, x0, step)
    BY <1>0, <1>2, FoldExists
  <2>2. g \in [SUBSET (1..n) -> X] /\ \A S \in SUBSET (1..n) : g[S] = IF S = {} THEN x0 ELSE step[Max(S)][g[S \ {Max(S)}]]
    BY <2>1 DEF IsFold
  <2>3. \A S \in SUBSET (1..n) : S # {} => g[S \ {Max(S)}] \in X
    BY <2>2
  <2>4. \A S \in SUBSET (1..n) : g[S] = IF S = {} THEN x0 ELSE Body(g, S)
    BY <1>4, <2>2, <2>3
  <2> HIDE DEF Body
  <2>5. g = [S \in SUBSET (1..n) |-> IF S = {} THEN x0 ELSE Body(g, S)]
    BY <2>2, <2>4
  <2> USE DEF Body
  <2> QED
    BY <2>5, Zenon
<1> HIDE DEF it
<1>6. FoldsBy(it, n, X, x0, step)
  <2>1. it[{}] = x0 /\ \A S \in SUBSET (1..n) : S # {} => it[S] = Body(it, S)
    <3> HIDE DEF Body
    <3> QED
      BY <1>5
  <2> HIDE DEF Body
  <2> QED
    BY <1>4, <2>1 DEF FoldsBy
<1>7. it[1..n] \in X
  BY <1>0, <1>2, <1>6, FoldStays
<1>8. Evaluate(program, values) \in X
  BY <1>3, <1>7, Zenon DEF Evaluate, x0, seq
<1>9. {"ip", "sp", "fp"} \subseteq names
  OBVIOUS
<1> HIDE DEF names
<1> QED
  BY <1>8, <1>9 DEF X

\* What is computed of a caller: where the program has found its return
\* address, the dictionary has it.
Computing(names) ==
    {d \in [sym : SymStates, values : Partial(names, Int), start : Int, offset : Int, dead : BOOLEAN,
            trust : {"CFI", "SCAN", "CFI_SCAN"}] :
        DictionaryOK(d.values) /\ (d.trust # "SCAN" => "ip" \in DOMAIN d.values)}

\* What is left when the scan is over.
Ready(d, scan) == ~d.dead => "ip" \in DOMAIN d.values /\ (~scan => d.trust = "CFI")

LEMMA ComputedOK ==
    ASSUME NEW names, NEW e \in Evaluating(names), NEW s, SymOK(s), NEW start \in Int
    PROVE  Computed(s, e, start) \in Computing(names)
<1> DEFINE trust == IF e.ok /\ {"ip", "sp"} \subseteq e.set THEN "CFI" ELSE "SCAN"
           d == [sym |-> s, values |-> e.values, start |-> start, offset |-> 0, dead |-> FALSE, trust |-> trust]
<1>1. s \in SymStates
  BY DEF SymStates, SymOK
<1>2. e.values \in Partial(names, Int) /\ DictionaryOK(e.values) /\ e.set \subseteq DOMAIN e.values
  BY DEF Evaluating
<1>3. trust \in {"CFI", "SCAN"} /\ (trust # "SCAN" => "ip" \in DOMAIN e.values)
  BY <1>2
<1>4. Computed(s, e, start) = d
  BY DEF Computed
<1> HIDE DEF trust
<1>5. d \in [sym : SymStates, values : Partial(names, Int), start : Int, offset : Int, dead : BOOLEAN,
             trust : {"CFI", "SCAN", "CFI_SCAN"}]
  BY <1>1, <1>2, <1>3
<1>6. d \in Computing(names)
  BY <1>2, <1>3, <1>5 DEF Computing
<1> QED
  BY <1>4, <1>6

LEMMA ScanFoundOK ==
    ASSUME NEW names, {"ip", "sp", "fp"} \subseteq names, NEW d \in Computing(names), NEW r \in Scanning, NEW from \in Int
    PROVE  ScanFound(d, r, from) \in Computing(names) /\ Ready(ScanFound(d, r, from), TRUE)
<1> DEFINE Ds == [sym : SymStates, values : Partial(names, Int), start : Int, offset : Int, dead : BOOLEAN,
                  trust : {"CFI", "SCAN", "CFI_SCAN"}]
           q == ScanFound(d, r, from)
<1>0. d \in Ds /\ DictionaryOK(d.values) /\ (d.trust # "SCAN" => "ip" \in DOMAIN d.values)
  BY DEF Computing
<1>1. r.sym \in SymStates /\ (r.at # NULL => r.at \in Word) /\ r.ip \in Word
  BY DEF Scanning
<1>2. CASE r.at = NULL
  <2> DEFINE dead == d.trust = "SCAN"
  <2>1. q = [d EXCEPT !.sym = r.sym, !.dead = dead]
    BY <1>2 DEF ScanFound
  <2>2. dead \in BOOLEAN
    OBVIOUS
  <2>3. dead <=> d.trust = "SCAN"
    OBVIOUS
  <2> HIDE DEF dead, q
  <2>4. q \in Ds /\ q.values = d.values /\ q.trust = d.trust /\ q.dead = dead
    BY <1>0, <1>1, <2>1, <2>2
  <2> QED
    BY <1>0, <2>3, <2>4 DEF Computing, Ready, q
<1>3. CASE r.at # NULL
  <2> DEFINE trust == IF d.trust = "SCAN" THEN d.trust ELSE "CFI_SCAN"
             offset == IF d.trust = "SCAN" THEN 0 ELSE A(r.at - from)
             sp == A(r.at + W)
             v == With(d.values, "sp", sp)
             values == With(v, "ip", r.ip)
  <2>1. q = [d EXCEPT !.sym = r.sym, !.trust = trust, !.offset = offset, !.values = values]
    BY <1>3 DEF ScanFound
  <2>2. sp \in Word /\ r.at \in Word /\ r.ip \in Word
    BY <1>1, <1>3, AboveOK DEF W
  <2>3. sp \in Int /\ r.at \in Int /\ r.ip \in Int
    BY <2>2, WordIsInt
  <2>4. offset \in Int
    <3>1. r.at - from \in Int
      BY <2>3
    <3>2. A(r.at - from) \in Word
      BY <3>1, ArithmeticOK
    <3>3. A(r.at - from) \in Int
      BY <3>2, WordIsInt
    <3> QED
      BY <3>3
  <2>5. trust \in {"CFI", "SCAN", "CFI_SCAN"}
    OBVIOUS
  <2> HIDE DEF sp, offset, trust, q
  <2>6. v \in Partial(names, Int)
    BY <1>0, <2>3, WithInPartial
  <2>7. DictionaryOK(v)
    BY <1>0, <2>2, <2>3 DEF DictionaryOK, Numbers, With
  <2> HIDE DEF v
  <2>8. values \in Partial(names, Int)
    BY <2>3, <2>6, WithInPartial
  <2>9. DictionaryOK(values) /\ "ip" \in DOMAIN values
    BY <2>2, <2>3, <2>7 DEF DictionaryOK, Numbers, With
  <2> HIDE DEF values
  <2>10. q \in Ds /\ q.values = values
    BY <1>0, <1>1, <2>1, <2>4, <2>5, <2>8
  <2> QED
    BY <2>9, <2>10 DEF Computing, Ready, q
<1> QED
  BY <1>2, <1>3

LEMMA OrScanOK ==
    ASSUME Here, NEW names, {"ip", "sp", "fp"} \subseteq names, NEW d \in Computing(names), d.trust \in {"CFI", "SCAN"}, d.dead = FALSE,
           NEW frames, NEW last, FrameOK(last), NEW scan \in BOOLEAN
    PROVE  OrScan(d, frames, last, scan) \in Computing(names) /\ Ready(OrScan(d, frames, last, scan), scan)
<1> DEFINE Ds == [sym : SymStates, values : Partial(names, Int), start : Int, offset : Int, dead : BOOLEAN,
                  trust : {"CFI", "SCAN", "CFI_SCAN"}]
           from == ScanFrom(d, last)
           r == ScanForReturnAddress(d.sym, from, SearchLength(frames))
<1>0. d \in Ds /\ DictionaryOK(d.values) /\ (d.trust # "SCAN" => "ip" \in DOMAIN d.values)
  BY DEF Computing
<1>1. CASE ~NeedsScan(d)
  <2>1. OrScan(d, frames, last, scan) = d
    BY <1>1 DEF OrScan, NeedsScan
  <2>2. d.trust = "CFI"
    BY <1>1 DEF NeedsScan
  <2> QED
    BY <1>0, <2>1, <2>2 DEF Ready
<1>2. CASE NeedsScan(d) /\ ~scan
  <2> DEFINE dead == d.trust = "SCAN"
             q == [d EXCEPT !.dead = dead]
  <2>1. OrScan(d, frames, last, scan) = q
    BY <1>2 DEF OrScan
  <2>2. dead \in BOOLEAN /\ (dead <=> d.trust = "SCAN")
    OBVIOUS
  <2> HIDE DEF dead
  <2>3. q \in Ds /\ q.values = d.values /\ q.trust = d.trust /\ q.dead = dead
    BY <1>0, <2>2
  <2> HIDE DEF q
  <2>4. q \in Computing(names)
    BY <1>0, <2>3 DEF Computing
  <2>5. Ready(q, scan)
    BY <1>0, <2>2, <2>3 DEF Ready
  <2> QED
    BY <2>1, <2>4, <2>5
<1>3. CASE NeedsScan(d) /\ scan
  <2>1. from \in Int
    <3>1. last.regs.sp \in Int
      BY RegIs, WordIsInt DEF FrameOK
    <3>2. d.values[".raSearchStart"] \in Int
      BY <1>0 DEF DictionaryOK, Numbers
    <3>3. A(d.values[".raSearchStart"] + W) \in Word
      <4>1. d.values[".raSearchStart"] + W \in Int
        BY <3>2 DEF W
      <4> QED
        BY <4>1, ArithmeticOK
    <3> QED
      BY <3>1, <3>3, WordIsInt DEF ScanFrom
  <2>2. SymOK(d.sym)
    BY <1>0 DEF SymStates
  <2>3. OrScan(d, frames, last, scan) = ScanFound(d, r, from)
    BY <1>3 DEF OrScan
  <2> HIDE DEF from
  <2>4. r \in Scanning
    BY <2>1, <2>2, SearchLengthOK, ScanStays
  <2> HIDE DEF r
  <2>5. ScanFound(d, r, from) \in Computing(names) /\ Ready(ScanFound(d, r, from), TRUE)
    BY <2>1, <2>4, ScanFoundOK
  <2>6. scan = TRUE
    BY <1>3
  <2> QED
    BY <2>3, <2>5, <2>6
<1> QED
  BY <1>1, <1>2, <1>3

LEMMA CandidateOK ==
    ASSUME NEW names, {"ip", "sp", "fp"} \subseteq names, NEW scan,
           NEW r \in [found : BOOLEAN, d : {d \in Computing(names) : Ready(d, scan)}],
           NEW m, NEW ebp, ebp = NULL \/ ebp \in Word
    PROVE  Candidate(r, m, ebp) \in [found : BOOLEAN, d : {d \in Computing(names) : Ready(d, scan)}]
<1> DEFINE Ds == [sym : SymStates, values : Partial(names, Int), start : Int, offset : Int, dead : BOOLEAN,
                  trust : {"CFI", "SCAN", "CFI_SCAN"}]
           X == {d \in Computing(names) : Ready(d, scan)}
           d == r.d
<1>1. CASE ebp = NULL
  BY <1>1 DEF Candidate
<1>2. CASE ebp # NULL /\ GetMemoryAt(m, ebp) # NULL
  <2> DEFINE values == [d.values EXCEPT !["fp"] = ebp]
             q == [d EXCEPT !.values = values]
  <2>1. Candidate(r, m, ebp) = [found |-> TRUE, d |-> q]
    BY <1>2 DEF Candidate
  <2>2. d \in Ds /\ DictionaryOK(d.values) /\ (d.trust # "SCAN" => "ip" \in DOMAIN d.values) /\ Ready(d, scan)
    BY DEF Computing
  <2> HIDE DEF d
  <2>3. ebp \in Word /\ ebp \in Int /\ "fp" \in DOMAIN d.values
    BY <1>2, <2>2, WordIsInt DEF DictionaryOK
  <2>4. values \in Partial(names, Int) /\ DOMAIN values = DOMAIN d.values
    <3>1. PICK E \in SUBSET names : d.values \in [E -> Int]
      BY <2>2 DEF Partial
    <3>2. values \in [E -> Int]
      BY <2>3, <3>1
    <3> QED
      BY <3>1, <3>2 DEF Partial
  <2>5. DictionaryOK(values)
    BY <2>2, <2>3 DEF DictionaryOK, Numbers
  <2> HIDE DEF values
  <2>6. q \in Ds /\ q.values = values /\ q.trust = d.trust /\ q.dead = d.dead
    BY <2>2, <2>4
  <2> HIDE DEF q
  <2>7. q \in Computing(names)
    BY <2>2, <2>4, <2>5, <2>6 DEF Computing
  <2>8. Ready(q, scan)
    BY <2>2, <2>4, <2>6 DEF Ready
  <2> QED
    BY <2>1, <2>7, <2>8
<1>3. CASE ebp # NULL /\ GetMemoryAt(m, ebp) = NULL
  BY <1>3 DEF Candidate
<1> QED
  BY <1>1, <1>2, <1>3

LEMMA SavedStays ==
    ASSUME NEW names, {"ip", "sp", "fp"} \subseteq names, NEW scan, NEW d \in Computing(names), Ready(d, scan),
           NEW m, MemoryOK(m), NEW from \in Int, NEW bytes \in Int
    PROVE  SavedEBP(d, m, from, bytes) \in Computing(names) /\ Ready(SavedEBP(d, m, from, bytes), scan)
<1> DEFINE words == bytes \div W + 1
           n == IF words >= 0 THEN words ELSE 0
           Xd == {c \in Computing(names) : Ready(c, scan)}
           X == [found : BOOLEAN, d : Xd]
           x0 == [found |-> FALSE, d |-> d]
           seq == [k \in 1..(bytes \div W + 1) |-> k - 1]
           Op(r, k) == IF r.found THEN r ELSE Candidate(r, m, GetMemoryAt(m, A(from + bytes - k * W)))
<1>00. words \in Int
  BY DEF W
<1>0. x0 \in X /\ n \in Nat
  <2> HIDE DEF words
  <2>1. n \in Nat
    BY <1>00
  <2> QED
    BY <2>1
<1>1. DOMAIN seq = 1..n /\ \A i \in 1..n : \A x \in X : Op(x, seq[i]) \in X
  <2>1. DOMAIN seq = 1..n /\ \A i \in 1..n : seq[i] \in Int
    <3>1. seq = [k \in 1..words |-> k - 1]
      OBVIOUS
    <3> HIDE DEF words, seq
    <3> QED
      BY <1>00, <3>1
  <2> HIDE DEF n, seq, Op, words
  <2>2. ASSUME NEW k \in Int, NEW x \in X PROVE Op(x, k) \in X
    <3> DEFINE at == A(from + bytes - k * W)
               ebp == GetMemoryAt(m, at)
    <3>1. from + bytes - k * W \in Int
      BY DEF W
    <3>2. at \in Word /\ at \in Int
      BY <3>1, ArithmeticOK, WordIsInt
    <3> HIDE DEF at
    <3>3. ebp = NULL \/ ebp \in Word
      BY <3>2, ReadOK
    <3> HIDE DEF ebp
    <3>4. Candidate(x, m, ebp) \in X
      BY <3>3, CandidateOK
    <3>5. Op(x, k) = IF x.found THEN x ELSE Candidate(x, m, ebp)
      BY DEF Op, at, ebp
    <3> QED
      BY <3>4, <3>5
  <2> QED
    BY <2>1, <2>2
<1> HIDE DEF X, x0, seq, n
<1> DEFINE step == [i \in 1..n |-> [x \in X |-> Op(x, seq[i])]]
           Body(g, S) == Op(g[S \ {Max(S)}], seq[Max(S)])
           it == CHOOSE g : g = [S \in SUBSET (1..n) |-> IF S = {} THEN x0 ELSE Body(g, S)]
<1>2. \A i \in 1..n : \A x \in X : step[i][x] = Op(x, seq[i]) /\ step[i][x] \in X
  <2> HIDE DEF Op
  <2> QED
    BY <1>1
<1>3. FoldLeft(LAMBDA r, k : IF r.found THEN r ELSE Candidate(r, m, GetMemoryAt(m, A(from + bytes - k * W))), x0, seq) = it[1..n]
  BY <1>1, Zenon DEF FoldLeft, MapThenFoldSet
<1> HIDE DEF Op, step
<1>4. \A g : \A S \in SUBSET (1..n) : S # {} /\ g[S \ {Max(S)}] \in X => Body(g, S) = step[Max(S)][g[S \ {Max(S)}]]
  <2> SUFFICES ASSUME NEW g, NEW S \in SUBSET (1..n), S # {}, g[S \ {Max(S)}] \in X
               PROVE  Body(g, S) = step[Max(S)][g[S \ {Max(S)}]]
    OBVIOUS
  <2>1. Max(S) \in 1..n
    BY <1>0, MaxUpTo
  <2> QED
    BY <1>2, <2>1
<1>5. it = [S \in SUBSET (1..n) |-> IF S = {} THEN x0 ELSE Body(it, S)]
  <2>1. PICK g : IsFold(g, n, X, x0, step)
    BY <1>0, <1>2, FoldExists
  <2>2. g \in [SUBSET (1..n) -> X] /\ \A S \in SUBSET (1..n) : g[S] = IF S = {} THEN x0 ELSE step[Max(S)][g[S \ {Max(S)}]]
    BY <2>1 DEF IsFold
  <2>3. \A S \in SUBSET (1..n) : S # {} => g[S \ {Max(S)}] \in X
    BY <2>2
  <2>4. \A S \in SUBSET (1..n) : g[S] = IF S = {} THEN x0 ELSE Body(g, S)
    BY <1>4, <2>2, <2>3
  <2> HIDE DEF Body
  <2>5. g = [S \in SUBSET (1..n) |-> IF S = {} THEN x0 ELSE Body(g, S)]
    BY <2>2, <2>4
  <2> USE DEF Body
  <2> QED
    BY <2>5, Zenon
<1> HIDE DEF it
<1>6. FoldsBy(it, n, X, x0, step)
  <2>1. it[{}] = x0 /\ \A S \in SUBSET (1..n) : S # {} => it[S] = Body(it, S)
    <3> HIDE DEF Body
    <3> QED
      BY <1>5
  <2> HIDE DEF Body
  <2> QED
    BY <1>4, <2>1 DEF FoldsBy
<1>7. it[1..n] \in X
  BY <1>0, <1>2, <1>6, FoldStays
<1>8. CASE A(from + bytes) < from
  BY <1>8 DEF SavedEBP
<1>9. CASE ~(A(from + bytes) < from)
  <2>1. SavedEBP(d, m, from, bytes) = it[1..n].d
    BY <1>3, <1>9, Zenon DEF SavedEBP, x0, seq
  <2>2. it[1..n].d \in Xd
    BY <1>7 DEF X
  <2> QED
    BY <2>1, <2>2
<1> QED
  BY <1>8, <1>9

LEMMA WithSavedOK ==
    ASSUME Here, NEW names, {"ip", "sp", "fp"} \subseteq names, NEW scan, NEW d \in Computing(names), Ready(d, scan),
           NEW last, FrameOK(last), NEW info, InfoOK(info), NEW params \in Int
    PROVE  WithSavedEBP(d, last, info, params) \in Computing(names) /\ Ready(WithSavedEBP(d, last, info, params), scan)
<1> DEFINE from == A(last.regs.sp + params)
           bytes == info.saved + d.offset
           q == WithSavedEBP(d, last, info, params)
<1>1. q = d \/ q = SavedEBP(d, Memory, from, bytes)
  BY DEF WithSavedEBP
<1>2. from \in Int
  <2>1. last.regs.sp \in Int
    BY RegIs, WordIsInt DEF FrameOK
  <2>2. last.regs.sp + params \in Int
    BY <2>1
  <2> QED
    BY <2>2, ArithmeticOK, WordIsInt
<1>3. bytes \in Int
  BY DEF InfoOK, Computing
<1>4. MemoryOK(Memory)
  BY MemoryThere
<1> HIDE DEF from, bytes, q
<1>5. SavedEBP(d, Memory, from, bytes) \in Computing(names) /\ Ready(SavedEBP(d, Memory, from, bytes), scan)
  BY <1>2, <1>3, <1>4, SavedStays
<1>6. q \in Computing(names) /\ Ready(q, scan)
  BY <1>1, <1>5
<1> QED
  BY <1>6 DEF q

LEMMA WindowsCallerOK ==
    ASSUME NEW names, NEW scan, NEW d \in Computing(names), Ready(d, scan), NEW last, FrameOK(last)
    PROVE  CallerOK(WindowsCaller(d, last), scan)
<1>1. SymOK(d.sym) /\ DictionaryOK(d.values) /\ d.trust \in {"CFI", "SCAN", "CFI_SCAN"}
  BY DEF Computing, SymStates
<1>2. CASE d.dead
  <2>1. WindowsCaller(d, last) = NoCaller(d.sym)
    BY <1>2 DEF WindowsCaller, NoCaller
  <2> QED
    BY <1>1, <2>1, NoCallerOK
<1>3. CASE ~d.dead
  <2> DEFINE ip == d.values["ip"]
             sp == d.values["sp"]
             fp == d.values["fp"]
             regs == [last.regs EXCEPT !.ip = ip, !.sp = sp, !.fp = fp]
             valid == {"ip", "sp", "fp"}
  <2>1. WindowsCaller(d, last) = [sym |-> d.sym, new |-> Caller(d.trust, regs, valid)]
    BY <1>3 DEF WindowsCaller
  <2>2. ip \in Word /\ sp \in Word /\ fp \in Word
    BY <1>1, <1>3 DEF DictionaryOK, Ready
  <2> HIDE DEF ip, sp, fp
  <2>3. regs \in Regs /\ valid \in SUBSET Registers
    BY <2>2 DEF FrameOK, Regs, Registers
  <2> HIDE DEF regs, valid
  <2>4. d.trust \in Trusts /\ (~scan => Dubious(d.trust) = 0)
    BY <1>1, <1>3 DEF Trusts, Ready, Dubious
  <2>5. FoundOK(Caller(d.trust, regs, valid), scan)
    BY <2>3, <2>4, CallerMade
  <2> QED
    BY <1>1, <2>1, <2>5, CallerIs
<1> QED
  BY <1>2, <1>3

LEMMA WalkedOK ==
    ASSUME Here, NEW s, SymOK(s), NEW start \in Int, NEW frames, NEW last, FrameOK(last), NEW info, InfoOK(info),
           NEW params \in Int, NEW scan \in BOOLEAN
    PROVE  CallerOK(Walked(s, start, frames, last, info, params, scan), scan)
<1> DEFINE program == ProgramString(info)
           values == Values(last, info, params, start)
           e == Evaluate(program, values)
           d == Computed(s, e, start)
           found == OrScan(d, frames, last, scan)
           saved == WithSavedEBP(found, last, info, params)
<1>1. ProgramOK(program) /\ DictionaryOK(values)
  BY ProgramStringOK, ValuesOK
<1>2. Walked(s, start, frames, last, info, params, scan) = WindowsCaller(saved, last)
  BY DEF Walked
<1> HIDE DEF program, values
<1>3. PICK names : {"ip", "sp", "fp"} \subseteq names /\ e \in Evaluating(names)
  BY <1>1, EvaluateStays
<1> HIDE DEF e
<1>4. d \in Computing(names)
  BY <1>3, ComputedOK
<1>5. d.trust \in {"CFI", "SCAN"} /\ d.dead = FALSE
  BY DEF Computed
<1> HIDE DEF d
<1>6. found \in Computing(names) /\ Ready(found, scan)
  BY <1>3, <1>4, <1>5, OrScanOK
<1> HIDE DEF found
<1>7. saved \in Computing(names) /\ Ready(saved, scan)
  BY <1>3, <1>6, WithSavedOK
<1> HIDE DEF saved
<1> QED
  BY <1>2, <1>7, WindowsCallerOK

LEMMA SearchStartOK ==
    ASSUME Here, NEW last, NEW info, NEW start \in Int, NEW r \in Scanning
    PROVE  SymOK(SearchStart(last, info, start, r).sym) /\ SearchStart(last, info, start, r).start \in Int
<1>1. A(start + W) \in Int
  <2>1. start + W \in Int
    BY DEF W
  <2> QED
    BY <2>1, ArithmeticOK, WordIsInt
<1>2. ASSUME NEW q \in Scanning, NEW from \in Int
      PROVE  SymOK(SearchAgain(q, from).sym) /\ SearchAgain(q, from).start \in Int
  <2>1. SymOK(q.sym) /\ (q.at # NULL => q.at \in Word)
    BY DEF Scanning, SymStates
  <2>2. q.at # NULL => q.at \in Int
    BY <2>1, WordIsInt
  <2> QED
    BY <2>1, <2>2 DEF SearchAgain
<1>3. SymOK(r.sym)
  BY DEF Scanning, SymStates
<1> DEFINE again == ScanForReturnAddress(r.sym, A(start + W), 3)
<1>4. again \in Scanning
  BY <1>1, <1>3, ScanStays
<1>5. \/ SearchStart(last, info, start, r) = SearchAgain(again, A(start + W))
      \/ SearchStart(last, info, start, r) = SearchAgain(r, start)
  BY DEF SearchStart
<1> HIDE DEF again
<1> QED
  BY <1>1, <1>2, <1>4, <1>5

LEMMA ByFrameInfoOK ==
    ASSUME Here, NEW s, SymOK(s), NEW frames, NEW last, FrameOK(last), NEW info, InfoOK(info), NEW params \in Int, NEW scan \in BOOLEAN
    PROVE  CallerOK(GetCallerByWindowsFrameInfo(s, frames, last, info, params, scan), scan)
<1> DEFINE start == A(last.regs.sp + params + info.locals + info.saved)
           r == ScanForReturnAddress(s, start, 3)
           q == SearchStart(last, info, start, r)
           real == RealStart(last, info, q.start)
<1>0. last.regs.sp \in Int /\ last.regs.fp \in Word
  BY RegIs, WordIsInt DEF FrameOK
<1>1. start \in Int
  <2>1. last.regs.sp + params + info.locals + info.saved \in Int
    BY <1>0 DEF InfoOK
  <2> QED
    BY <2>1, ArithmeticOK, WordIsInt
<1>2. GetCallerByWindowsFrameInfo(s, frames, last, info, params, scan)
        = Walked(q.sym, real, frames, last, info, params, scan)
  BY DEF GetCallerByWindowsFrameInfo, FromStart, AfterSearch
<1> HIDE DEF start
<1>3. r \in Scanning
  BY <1>1, ScanStays
<1> HIDE DEF r
<1>4. SymOK(q.sym) /\ q.start \in Int
  BY <1>1, <1>3, SearchStartOK
<1> HIDE DEF q
<1>5. A(last.regs.fp + W) \in Int
  <2>1. A(last.regs.fp + W) \in Word
    BY <1>0, AboveOK DEF W
  <2> QED
    BY <2>1, WordIsInt
<1>6. real \in Int
  BY <1>4, <1>5 DEF RealStart
<1> HIDE DEF real
<1> QED
  BY <1>2, <1>4, <1>6, WalkedOK

\* The frames of a walk.
FramesOK(frames) == IsList(frames) /\ \A i \in DOMAIN frames : FrameOK(frames[i])

LEMMA ParameterSizeOK ==
    ASSUME NEW frames, FramesOK(frames)
    PROVE  CalleeParameterSize(frames) \in Int
<1>1. CASE Len(frames) < 2 \/ frames[Len(frames) - 1].win = NULL
  BY <1>1 DEF CalleeParameterSize
<1>2. CASE ~(Len(frames) < 2 \/ frames[Len(frames) - 1].win = NULL)
  <2>1. Len(frames) - 1 \in DOMAIN frames
    BY <1>2 DEF FramesOK, IsList
  <2>2. WindowsOK(frames[Len(frames) - 1].win)
    BY <2>1 DEF FramesOK, FrameOK
  <2> QED
    BY <1>2, <2>2 DEF CalleeParameterSize, WindowsOK
<1> QED
  BY <1>1, <1>2

LEMMA ByWindowsOK ==
    ASSUME Here, NEW s, SymOK(s), NEW frames, FramesOK(frames), NEW last, FrameOK(last), NEW scan \in BOOLEAN
    PROVE  CallerOK(FromWindows(s, frames, last, scan), scan)
<1>1. CallerOK(NoCaller(s), scan)
  BY NoCallerOK
<1>2. CASE last.win = NULL \/ ~last.win.all
  BY <1>1, <1>2 DEF FromWindows, ByWindows
<1>3. CASE ~(last.win = NULL \/ ~last.win.all)
  <2> DEFINE params == CalleeParameterSize(frames)
             info == last.win.of
             c == GetCallerByWindowsFrameInfo(s, frames, last, info, params, scan)
  <2>1. params \in Int
    BY ParameterSizeOK
  <2>2. InfoOK(info)
    BY <1>3 DEF FrameOK, WindowsOK
  <2>3. ByWindows(s, frames, last, scan) = c
    BY <1>3 DEF ByWindows
  <2> HIDE DEF params, info
  <2>4. CallerOK(c, scan)
    BY <2>1, <2>2, ByFrameInfoOK
  <2> QED
    BY <1>1, <2>3, <2>4 DEF FromWindows
<1> QED
  BY <1>2, <1>3
---------------------------------------------------------------------------
(* What is read from a symbol file.                                        *)

LinesOK(lines) == IsList(lines) /\ \A i \in DOMAIN lines : IsLine(lines[i])

OfKind(lines, k) == {i \in DOMAIN lines : lines[i].k = k}

RangeOf(lines, i) == [base |-> lines[i].at, high |-> Wrap(lines[i].at + lines[i].size - 1), index |-> i]

WindowsOf(lines, i) ==
    [type |-> lines[i].type, base |-> lines[i].at, high |-> lines[i].at + lines[i].size - 1, index |-> i]

FileNumbers(lines) == {lines[i].n : i \in DOMAIN lines}
NamesIn(lines) == {lines[i].name : i \in DOMAIN lines}
FuncsIn(lines) == {RangeOf(lines, i) : i \in {j \in OfKind(lines, "FUNC") : lines[j].at >= 0}}
LinesIn(lines) == {RangeOf(lines, i) : i \in DOMAIN lines}
PublicsIn(lines) == {[base |-> lines[i].at, index |-> i] : i \in DOMAIN lines}
WindowsIn(lines) == {WindowsOf(lines, i) : i \in {j \in OfKind(lines, "WIN") : lines[j].size > 0}}
InitialIn(lines) == {RangeOf(lines, i) : i \in OfKind(lines, "INIT")}
DeltasAt(lines) == {lines[i].at : i \in OfKind(lines, "DELTA")}

\* What a table refers to is a line of the kind the table is of.
TablesFrom(lines) ==
    [cur : {0} \cup DOMAIN lines, errors : Nat, files : Partial(FileNumbers(lines), NamesIn(lines)),
     functions : SUBSET FuncsIn(lines), lines : Partial({0} \cup DOMAIN lines, SUBSET LinesIn(lines)),
     publics : SUBSET PublicsIn(lines), windows : SUBSET WindowsIn(lines), initial : SUBSET InitialIn(lines),
     deltas : Partial(DeltasAt(lines), OfKind(lines, "DELTA"))]

LEMMA ErrorLogged ==
    ASSUME NEW lines, NEW t \in TablesFrom(lines)
    PROVE  LogParseError(t) \in TablesFrom(lines)
<1> DEFINE n == t.errors + 1
<1>1. n \in Nat
  BY DEF TablesFrom
<1>2. LogParseError(t) = [t EXCEPT !.errors = n]
  BY DEF LogParseError
<1> HIDE DEF n
<1> QED
  BY <1>1, <1>2 DEF TablesFrom

LEMMA NewCurrent ==
    ASSUME NEW lines, NEW t \in TablesFrom(lines), NEW i \in {0} \cup DOMAIN lines
    PROVE  [t EXCEPT !.cur = i] \in TablesFrom(lines)
BY DEF TablesFrom

LEMMA FileParsed ==
    ASSUME NEW lines, NEW t \in TablesFrom(lines), NEW i \in DOMAIN lines
    PROVE  ParseFile(t, lines[i]) \in TablesFrom(lines)
<1> DEFINE l == lines[i]
           name == At(t.files, l.n, l.name)
           files == With(t.files, l.n, name)
<1>1. CASE l.n < 0
  BY <1>1, ErrorLogged DEF ParseFile
<1>2. CASE ~(l.n < 0)
  <2>1. t.files \in Partial(FileNumbers(lines), NamesIn(lines)) /\ l.n \in FileNumbers(lines) /\ l.name \in NamesIn(lines)
    BY DEF TablesFrom, FileNumbers, NamesIn
  <2>2. PICK E : E \subseteq FileNumbers(lines) /\ t.files \in [E -> NamesIn(lines)]
    BY <2>1 DEF Partial
  <2>3. name \in NamesIn(lines)
    BY <2>1, <2>2 DEF At
  <2> HIDE DEF name
  <2>4. files \in Partial(FileNumbers(lines), NamesIn(lines))
    BY <2>1, <2>3, WithInPartial
  <2>5. ParseFile(t, l) = [t EXCEPT !.files = files]
    BY <1>2 DEF ParseFile, name
  <2> HIDE DEF files
  <2> QED
    BY <2>4, <2>5 DEF TablesFrom
<1> QED
  BY <1>1, <1>2

LEMMA RangeKept ==
    ASSUME NEW lines, NEW i \in DOMAIN lines, NEW S, RangeOf(lines, i) \in S, NEW map \in SUBSET S
    PROVE  Kept(map, lines[i], i) \in SUBSET S
BY DEF Kept, StoreRange, RangeOf

LEMMA FunctionParsed ==
    ASSUME NEW lines, LinesOK(lines), NEW t \in TablesFrom(lines), NEW i \in OfKind(lines, "FUNC")
    PROVE  ParseFunction(t, lines[i], i) \in TablesFrom(lines)
<1> DEFINE l == lines[i]
           functions == Kept(t.functions, l, i)
<1>1. CASE l.at < 0 \/ l.size < 0 \/ l.params < 0
  <2> DEFINE q == LogParseError(t)
  <2>1. q \in TablesFrom(lines)
    BY ErrorLogged
  <2>2. ParseFunction(t, l, i) = [q EXCEPT !.cur = 0]
    BY <1>1 DEF ParseFunction
  <2> HIDE DEF q
  <2> QED
    BY <2>1, <2>2, NewCurrent
<1>2. CASE ~(l.at < 0 \/ l.size < 0 \/ l.params < 0)
  <2>1. l.at \in Int /\ i \in DOMAIN lines
    BY DEF LinesOK, IsLine, OfKind
  <2>2. RangeOf(lines, i) \in FuncsIn(lines)
    BY <1>2, <2>1 DEF FuncsIn
  <2>3. t.functions \in SUBSET FuncsIn(lines)
    BY DEF TablesFrom
  <2>4. functions \in SUBSET FuncsIn(lines)
    BY <2>1, <2>2, <2>3, RangeKept
  <2>5. ParseFunction(t, l, i) = [t EXCEPT !.cur = i, !.functions = functions]
    BY <1>2 DEF ParseFunction
  <2> HIDE DEF functions
  <2> QED
    BY <2>1, <2>4, <2>5 DEF TablesFrom
<1> QED
  BY <1>1, <1>2

LEMMA LineParsed ==
    ASSUME NEW lines, NEW t \in TablesFrom(lines), NEW i \in DOMAIN lines
    PROVE  ParseLine(t, lines[i], i) \in TablesFrom(lines)
<1> DEFINE l == lines[i]
           of == At(t.lines, t.cur, {})
           kept == Kept(of, l, i)
           new == With(t.lines, t.cur, kept)
<1>1. CASE t.cur = 0 \/ l.at < 0 \/ l.size < 0 \/ l.n < 0 \/ l.file < 0
  BY <1>1, ErrorLogged DEF ParseLine
<1>2. CASE ~(t.cur = 0 \/ l.at < 0 \/ l.size < 0 \/ l.n < 0 \/ l.file < 0)
  <2>1. t.lines \in Partial({0} \cup DOMAIN lines, SUBSET LinesIn(lines)) /\ t.cur \in {0} \cup DOMAIN lines
    BY DEF TablesFrom
  <2>2. PICK E : E \subseteq {0} \cup DOMAIN lines /\ t.lines \in [E -> SUBSET LinesIn(lines)]
    BY <2>1 DEF Partial
  <2>3. of \in SUBSET LinesIn(lines)
    BY <2>2 DEF At
  <2> HIDE DEF of
  <2>4. RangeOf(lines, i) \in LinesIn(lines)
    BY DEF LinesIn
  <2>5. kept \in SUBSET LinesIn(lines)
    BY <2>3, <2>4, RangeKept
  <2> HIDE DEF kept
  <2>6. new \in Partial({0} \cup DOMAIN lines, SUBSET LinesIn(lines))
    BY <2>1, <2>5, WithInPartial
  <2>7. ParseLine(t, l, i) = [t EXCEPT !.lines = new]
    BY <1>2 DEF ParseLine, of, kept
  <2> HIDE DEF new
  <2> QED
    BY <2>6, <2>7 DEF TablesFrom
<1> QED
  BY <1>1, <1>2

LEMMA PublicParsed ==
    ASSUME NEW lines, NEW t \in TablesFrom(lines), NEW i \in DOMAIN lines
    PROVE  ParsePublicSymbol(t, lines[i], i) \in TablesFrom(lines)
<1> DEFINE l == lines[i]
           q == [t EXCEPT !.cur = 0]
           publics == q.publics \cup {[base |-> l.at, index |-> i]}
<1>1. q \in TablesFrom(lines)
  BY NewCurrent
<1>2. LogParseError(q) \in TablesFrom(lines)
  BY <1>1, ErrorLogged
<1>3. ParsePublicSymbol(t, l, i) = ParsePublic(q, l, i)
  BY DEF ParsePublicSymbol
<1> HIDE DEF q
<1>4. publics \in SUBSET PublicsIn(lines)
  BY <1>1 DEF TablesFrom, PublicsIn
<1>5. ParsePublic(q, l, i) \in {LogParseError(q), q, [q EXCEPT !.publics = publics]}
  BY DEF ParsePublic
<1> HIDE DEF publics
<1>6. [q EXCEPT !.publics = publics] \in TablesFrom(lines)
  BY <1>1, <1>4 DEF TablesFrom
<1> QED
  BY <1>1, <1>2, <1>3, <1>5, <1>6

LEMMA WindowsParsed ==
    ASSUME NEW lines, NEW t \in TablesFrom(lines), NEW i \in OfKind(lines, "WIN")
    PROVE  ParseWindows(t, lines[i], i) \in TablesFrom(lines)
<1> DEFINE l == lines[i]
           windows == t.windows \cup {WindowsOf(lines, i)}
<1>1. LogParseError(t) \in TablesFrom(lines)
  BY ErrorLogged
<1>2. CASE l.at < 0 \/ ~Containable({r \in t.windows : r.type = l.type}, l)
  BY <1>1, <1>2 DEF ParseWindows
<1>3. CASE ~(l.at < 0 \/ ~Containable({r \in t.windows : r.type = l.type}, l))
  <2>1. l.size > 0
    BY <1>3 DEF Containable
  <2>2. windows \in SUBSET WindowsIn(lines)
    BY <2>1 DEF TablesFrom, WindowsIn
  <2>3. ParseWindows(t, l, i) = [t EXCEPT !.windows = windows]
    BY <1>3 DEF ParseWindows, WindowsOf
  <2> HIDE DEF windows
  <2> QED
    BY <2>2, <2>3 DEF TablesFrom
<1> QED
  BY <1>2, <1>3

LEMMA RuleSetParsed ==
    ASSUME NEW lines, NEW t \in TablesFrom(lines), NEW i \in OfKind(lines, "INIT") \cup OfKind(lines, "DELTA")
    PROVE  ParseCFIFrameInfo(t, lines[i], i) \in TablesFrom(lines)
<1> DEFINE l == lines[i]
           initial == Kept(t.initial, l, i)
           deltas == With(t.deltas, l.at, i)
<1>0. i \in DOMAIN lines
  BY DEF OfKind
<1>1. CASE l.k = "INIT"
  <2>1. RangeOf(lines, i) \in InitialIn(lines) /\ t.initial \in SUBSET InitialIn(lines)
    BY <1>1 DEF InitialIn, OfKind, TablesFrom
  <2>2. initial \in SUBSET InitialIn(lines)
    BY <1>0, <2>1, RangeKept
  <2>3. ParseCFIFrameInfo(t, l, i) = [t EXCEPT !.initial = initial]
    BY <1>1 DEF ParseCFIFrameInfo
  <2> HIDE DEF initial
  <2> QED
    BY <2>2, <2>3 DEF TablesFrom
<1>2. CASE l.k # "INIT"
  <2>1. i \in OfKind(lines, "DELTA") /\ l.at \in DeltasAt(lines) /\ t.deltas \in Partial(DeltasAt(lines), OfKind(lines, "DELTA"))
    BY <1>2 DEF DeltasAt, OfKind, TablesFrom
  <2>2. deltas \in Partial(DeltasAt(lines), OfKind(lines, "DELTA"))
    BY <2>1, WithInPartial
  <2>3. ParseCFIFrameInfo(t, l, i) = [t EXCEPT !.deltas = deltas]
    BY <1>2 DEF ParseCFIFrameInfo
  <2> HIDE DEF deltas
  <2> QED
    BY <2>2, <2>3 DEF TablesFrom
<1> QED
  BY <1>1, <1>2

LEMMA AnyLineParsed ==
    ASSUME NEW lines, LinesOK(lines), NEW t \in TablesFrom(lines), NEW i \in DOMAIN lines
    PROVE  ParsedLine(t, lines[i], i) \in TablesFrom(lines)
<1> DEFINE l == lines[i]
<1>1. CASE l.k = "FILE"
  BY <1>1, FileParsed DEF ParsedLine
<1>2. CASE l.k = "FUNC"
  <2>1. i \in OfKind(lines, "FUNC")
    BY <1>2 DEF OfKind
  <2>2. ParsedLine(t, l, i) = ParseFunction(t, l, i)
    BY <1>2 DEF ParsedLine
  <2> QED
    BY <2>1, <2>2, FunctionParsed
<1>3. CASE l.k = "PUBLIC"
  BY <1>3, PublicParsed DEF ParsedLine
<1>4. CASE l.k = "WIN"
  <2>1. i \in OfKind(lines, "WIN")
    BY <1>4 DEF OfKind
  <2>2. ParsedLine(t, l, i) = ParseWindows(t, l, i)
    BY <1>4 DEF ParsedLine, ParseStackInfo
  <2> QED
    BY <2>1, <2>2, WindowsParsed
<1>5. CASE l.k \in {"INIT", "DELTA"}
  <2>1. i \in OfKind(lines, "INIT") \cup OfKind(lines, "DELTA")
    BY <1>5 DEF OfKind
  <2>2. ParsedLine(t, l, i) = ParseCFIFrameInfo(t, l, i)
    BY <1>5 DEF ParsedLine, ParseStackInfo
  <2> QED
    BY <2>1, <2>2, RuleSetParsed
<1>6. CASE l.k = "STACK"
  <2>1. ParsedLine(t, l, i) = LogParseError(t)
    BY <1>6 DEF ParsedLine, ParseStackInfo
  <2> QED
    BY <2>1, ErrorLogged
<1>7. CASE l.k \in {"MODULE", "INFO"}
  BY <1>7 DEF ParsedLine
<1>8. CASE l.k \notin {"FILE", "FUNC", "PUBLIC", "WIN", "INIT", "DELTA", "STACK", "MODULE", "INFO"}
  <2>1. ParsedLine(t, l, i) = ParseLine(t, l, i)
    BY <1>8 DEF ParsedLine
  <2> QED
    BY <2>1, LineParsed
<1> QED
  BY <1>1, <1>2, <1>3, <1>4, <1>5, <1>6, <1>7, <1>8

LEMMA EmptyInPartial ==
    ASSUME NEW D, NEW S
    PROVE  <<>> \in Partial(D, S)
<1>1. <<>> \in [{} -> S]
  OBVIOUS
<1>2. {} \in SUBSET D
  OBVIOUS
<1> QED
  BY <1>1, <1>2 DEF Partial

\* The tables of a symbol file refer to its lines.
LEMMA MapLoaded ==
    ASSUME NEW file, LinesOK(file.lines)
    PROVE  LoadMapFromMemory(file) \in TablesFrom(file.lines)
<1> DEFINE lines == file.lines
           n == Len(lines)
           X == TablesFrom(lines)
           x0 == NoTable(IF file.zero THEN 1 ELSE 0)
           seq == [i \in DOMAIN file.lines |-> i]
           Op(t, i) == IF t.errors > MaxErrors THEN t ELSE ParsedLine(t, file.lines[i], i)
<1>00. n \in Nat /\ DOMAIN lines = 1..n
  BY DEF LinesOK, IsList
<1>0. x0 \in X /\ n \in Nat
  <2> DEFINE errors == IF file.zero THEN 1 ELSE 0
  <2>1. errors \in Nat
    OBVIOUS
  <2> HIDE DEF errors
  <2>2. /\ <<>> \in Partial(FileNumbers(lines), NamesIn(lines))
        /\ <<>> \in Partial({0} \cup DOMAIN lines, SUBSET LinesIn(lines))
        /\ <<>> \in Partial(DeltasAt(lines), OfKind(lines, "DELTA"))
    BY EmptyInPartial
  <2>3. NoTable(errors) \in TablesFrom(lines)
    BY <2>1, <2>2 DEF NoTable, TablesFrom
  <2> QED
    BY <1>00, <2>3 DEF errors
<1>1. DOMAIN seq = 1..n /\ \A i \in 1..n : \A x \in X : Op(x, seq[i]) \in X
  <2>1. DOMAIN seq = 1..n /\ \A i \in 1..n : seq[i] = i /\ i \in DOMAIN lines
    BY <1>00
  <2>2. \A i \in DOMAIN lines : \A x \in X : ParsedLine(x, lines[i], i) \in X
    BY AnyLineParsed
  <2> HIDE DEF X, seq, n, lines
  <2>3. \A i \in DOMAIN lines : \A x \in X : Op(x, i) \in X
    BY <2>2 DEF lines
  <2> HIDE DEF Op
  <2> QED
    BY <2>1, <2>3
<1> HIDE DEF X, x0, seq, n
<1> DEFINE step == [i \in 1..n |-> [x \in X |-> Op(x, seq[i])]]
           Body(g, S) == Op(g[S \ {Max(S)}], seq[Max(S)])
           it == CHOOSE g : g = [S \in SUBSET (1..n) |-> IF S = {} THEN x0 ELSE Body(g, S)]
<1>2. \A i \in 1..n : \A x \in X : step[i][x] = Op(x, seq[i]) /\ step[i][x] \in X
  <2> HIDE DEF Op
  <2> QED
    BY <1>1
<1>3. FoldLeft(LAMBDA t, i : IF t.errors > MaxErrors THEN t ELSE ParsedLine(t, file.lines[i], i), x0, seq) = it[1..n]
  BY <1>1, Zenon DEF FoldLeft, MapThenFoldSet
<1> HIDE DEF Op, step
<1>4. \A g : \A S \in SUBSET (1..n) : S # {} /\ g[S \ {Max(S)}] \in X => Body(g, S) = step[Max(S)][g[S \ {Max(S)}]]
  <2> SUFFICES ASSUME NEW g, NEW S \in SUBSET (1..n), S # {}, g[S \ {Max(S)}] \in X
               PROVE  Body(g, S) = step[Max(S)][g[S \ {Max(S)}]]
    OBVIOUS
  <2>1. Max(S) \in 1..n
    BY <1>0, MaxUpTo
  <2> QED
    BY <1>2, <2>1
<1>5. it = [S \in SUBSET (1..n) |-> IF S = {} THEN x0 ELSE Body(it, S)]
  <2>1. PICK g : IsFold(g, n, X, x0, step)
    BY <1>0, <1>2, FoldExists
  <2>2. g \in [SUBSET (1..n) -> X] /\ \A S \in SUBSET (1..n) : g[S] = IF S = {} THEN x0 ELSE step[Max(S)][g[S \ {Max(S)}]]
    BY <2>1 DEF IsFold
  <2>3. \A S \in SUBSET (1..n) : S # {} => g[S \ {Max(S)}] \in X
    BY <2>2
  <2>4. \A S \in SUBSET (1..n) : g[S] = IF S = {} THEN x0 ELSE Body(g, S)
    BY <1>4, <2>2, <2>3
  <2> HIDE DEF Body
  <2>5. g = [S \in SUBSET (1..n) |-> IF S = {} THEN x0 ELSE Body(g, S)]
    BY <2>2, <2>4
  <2> USE DEF Body
  <2> QED
    BY <2>5, Zenon
<1> HIDE DEF it
<1>6. FoldsBy(it, n, X, x0, step)
  <2>1. it[{}] = x0 /\ \A S \in SUBSET (1..n) : S # {} => it[S] = Body(it, S)
    <3> HIDE DEF Body
    <3> QED
      BY <1>5
  <2> HIDE DEF Body
  <2> QED
    BY <1>4, <2>1 DEF FoldsBy
<1>7. it[1..n] \in X
  BY <1>0, <1>2, <1>6, FoldStays
<1> QED
  BY <1>3, <1>7, Zenon DEF LoadMapFromMemory, x0, seq, X

\* What is put together from the rules of some lines: each is an expression.
Entries(lines) == UNION {{lines[i].rules[j] : j \in DOMAIN lines[i].rules} : i \in OfKind(lines, "INIT") \cup OfKind(lines, "DELTA")}

Names(lines) == {e[1] : e \in Entries(lines)}

Expressions(lines) == {x \in {e[2] : e \in Entries(lines)} : IsExpression(x)}

RulesFor(lines) == Partial(Names(lines), Expressions(lines))

\* A malformed rule is not reported, and none after it.
LEMMA ReportedOK ==
    ASSUME NEW set, IsList(set)
    PROVE  /\ IsList(Reported(set))
           /\ \A i \in DOMAIN Reported(set) : i \in DOMAIN set /\ Reported(set)[i] = set[i] /\ set[i][2] # NULL
<1> DEFINE T == Malformed(set)
           n == Len(set)
<1>0. n \in Nat /\ DOMAIN set = 1..n
  BY DEF IsList
<1>1. CASE T = {}
  <2>1. Reported(set) = set
    BY <1>1 DEF Reported
  <2> QED
    BY <1>1, <2>1 DEF Malformed
<1>2. CASE T # {}
  <2>1. T \in SUBSET Nat /\ T \subseteq 1..n
    <3>1. T \subseteq DOMAIN set
      BY Zenon DEF Malformed
    <3> HIDE DEF T, n
    <3> QED
      BY <1>0, <3>1
  <2>2. PICK x \in T : \A y \in T : x <= y
    BY <1>2, <2>1, LeastNumber
  <2>3. Min(T) \in T /\ \A y \in T : Min(T) <= y
    BY <2>2 DEF Min
  <2> DEFINE last == IF set[Min(T)][1] = ":" THEN Min(T) - 2 ELSE Min(T) - 1
  <2>4. Reported(set) = SubSeq(set, 1, last)
    BY <1>2 DEF Reported
  <2>5. Min(T) \in 1..n
    BY <2>1, <2>3
  <2>6. last \in Int /\ last < Min(T) /\ last <= n
    BY <1>0, <2>5
  <2>7. \A i \in 1..last : i \in 1..n /\ set[i][2] # NULL
    <3> SUFFICES ASSUME NEW i \in 1..last PROVE i \in 1..n /\ set[i][2] # NULL
      OBVIOUS
    <3> HIDE DEF last
    <3>1. i \in 1..n /\ i \notin T
      BY <1>0, <2>3, <2>5, <2>6
    <3> QED
      BY <1>0, <3>1 DEF Malformed
  <2> HIDE DEF last
  <2>8. DOMAIN SubSeq(set, 1, last) = 1..last /\ \A i \in 1..last : SubSeq(set, 1, last)[i] = set[i]
    BY <1>0, <2>6 DEF IsList
  <2>9. SubSeq(set, 1, last) \in Seq({set[i] : i \in DOMAIN set})
    BY <1>0, <2>6 DEF IsList
  <2> QED
    BY <1>0, <2>4, <2>7, <2>8, <2>9, ListIs
<1> QED
  BY <1>1, <1>2

LEMMA RuleSetStays ==
    ASSUME NEW lines, LinesOK(lines), NEW i0 \in OfKind(lines, "INIT") \cup OfKind(lines, "DELTA"), NEW rules \in RulesFor(lines)
    PROVE  ParseCFIRuleSet(lines[i0].rules, rules) \in RulesFor(lines)
<1> DEFINE set == lines[i0].rules
           reported == Reported(set)
           n == Len(reported)
           X == RulesFor(lines)
           x0 == rules
           seq == reported
           Op(r, e) == With(r, e[1], e[2])
<1>00. IsList(set) /\ \A j \in DOMAIN set : set[j][2] # NULL => IsExpression(set[j][2])
  BY DEF LinesOK, IsLine, OfKind
<1>01. IsList(reported) /\ \A j \in DOMAIN reported : j \in DOMAIN set /\ reported[j] = set[j] /\ set[j][2] # NULL
  BY <1>00, ReportedOK
<1>02. \A j \in DOMAIN set : set[j] \in Entries(lines)
  BY DEF Entries
<1> HIDE DEF set, reported
<1>0. x0 \in X /\ n \in Nat
  BY <1>01 DEF IsList
<1>1. DOMAIN seq = 1..n /\ \A i \in 1..n : \A x \in X : Op(x, seq[i]) \in X
  <2>1. DOMAIN seq = 1..n
    BY <1>01 DEF IsList
  <2>2. SUFFICES ASSUME NEW i \in 1..n, NEW x \in X PROVE With(x, seq[i][1], seq[i][2]) \in X
    BY <2>1
  <2>3. seq[i] \in Entries(lines) /\ IsExpression(seq[i][2])
    BY <1>00, <1>01, <1>02, <2>1
  <2>4. seq[i][1] \in Names(lines) /\ seq[i][2] \in Expressions(lines)
    BY <2>3 DEF Names, Expressions
  <2> HIDE DEF seq, n
  <2> QED
    BY <2>4, WithInPartial DEF RulesFor
<1> HIDE DEF X, x0, seq, n
<1> DEFINE step == [i \in 1..n |-> [x \in X |-> Op(x, seq[i])]]
           Body(g, S) == Op(g[S \ {Max(S)}], seq[Max(S)])
           it == CHOOSE g : g = [S \in SUBSET (1..n) |-> IF S = {} THEN x0 ELSE Body(g, S)]
<1>2. \A i \in 1..n : \A x \in X : step[i][x] = Op(x, seq[i]) /\ step[i][x] \in X
  <2> HIDE DEF Op
  <2> QED
    BY <1>1
<1>3. FoldLeft(LAMBDA r, e : With(r, e[1], e[2]), x0, seq) = it[1..n]
  BY <1>1, Zenon DEF FoldLeft, MapThenFoldSet
<1> HIDE DEF Op, step
<1>4. \A g : \A S \in SUBSET (1..n) : S # {} /\ g[S \ {Max(S)}] \in X => Body(g, S) = step[Max(S)][g[S \ {Max(S)}]]
  <2> SUFFICES ASSUME NEW g, NEW S \in SUBSET (1..n), S # {}, g[S \ {Max(S)}] \in X
               PROVE  Body(g, S) = step[Max(S)][g[S \ {Max(S)}]]
    OBVIOUS
  <2>1. Max(S) \in 1..n
    BY <1>0, MaxUpTo
  <2> QED
    BY <1>2, <2>1
<1>5. it = [S \in SUBSET (1..n) |-> IF S = {} THEN x0 ELSE Body(it, S)]
  <2>1. PICK g : IsFold(g, n, X, x0, step)
    BY <1>0, <1>2, FoldExists
  <2>2. g \in [SUBSET (1..n) -> X] /\ \A S \in SUBSET (1..n) : g[S] = IF S = {} THEN x0 ELSE step[Max(S)][g[S \ {Max(S)}]]
    BY <2>1 DEF IsFold
  <2>3. \A S \in SUBSET (1..n) : S # {} => g[S \ {Max(S)}] \in X
    BY <2>2
  <2>4. \A S \in SUBSET (1..n) : g[S] = IF S = {} THEN x0 ELSE Body(g, S)
    BY <1>4, <2>2, <2>3
  <2> HIDE DEF Body
  <2>5. g = [S \in SUBSET (1..n) |-> IF S = {} THEN x0 ELSE Body(g, S)]
    BY <2>2, <2>4
  <2> USE DEF Body
  <2> QED
    BY <2>5, Zenon
<1> HIDE DEF it
<1>6. FoldsBy(it, n, X, x0, step)
  <2>1. it[{}] = x0 /\ \A S \in SUBSET (1..n) : S # {} => it[S] = Body(it, S)
    <3> HIDE DEF Body
    <3> QED
      BY <1>5
  <2> HIDE DEF Body
  <2> QED
    BY <1>4, <2>1 DEF FoldsBy
<1>7. it[1..n] \in X
  BY <1>0, <1>2, <1>6, FoldStays
<1> QED
  BY <1>3, <1>7, Zenon DEF ParseCFIRuleSet, x0, seq, X, reported, set

LEMMA RulesStay ==
    ASSUME NEW lines, LinesOK(lines), NEW t \in TablesFrom(lines), NEW i0 \in OfKind(lines, "INIT"), NEW a \in Int
    PROVE  RulesFrom(t, lines, i0, a) # NULL => RulesFrom(t, lines, i0, a) \in RulesFor(lines)
<1> DEFINE at == lines[i0].at
           words == a - lines[i0].at + 1
           n == IF words >= 0 THEN words ELSE 0
           X == RulesFor(lines)
           x0 == ParseCFIRuleSet(lines[i0].rules, <<>>)
           seq == [k \in 1..(a - lines[i0].at + 1) |-> k]
           Op(r, k) == WithDelta(t, lines, r, lines[i0].at + k - 1)
<1>00. words \in Int /\ i0 # 0
  <2>1. i0 \in DOMAIN lines /\ lines[i0].k = "INIT"
    BY DEF OfKind
  <2>2. IsLine(lines[i0]) /\ DOMAIN lines = 1..Len(lines) /\ Len(lines) \in Nat
    BY <2>1 DEF LinesOK, IsList
  <2>3. lines[i0].at \in Int
    BY <2>1, <2>2 DEF IsLine
  <2> QED
    BY <2>1, <2>2, <2>3
<1>0. x0 \in X /\ n \in Nat
  <2> HIDE DEF words
  <2>1. n \in Nat
    BY <1>00
  <2>2. <<>> \in RulesFor(lines)
    BY EmptyInPartial DEF RulesFor
  <2> QED
    BY <2>1, <2>2, RuleSetStays
<1>1. DOMAIN seq = 1..n /\ \A i \in 1..n : \A x \in X : Op(x, seq[i]) \in X
  <2>1. DOMAIN seq = 1..n
    <3>1. seq = [k \in 1..words |-> k]
      OBVIOUS
    <3> HIDE DEF words, seq
    <3> QED
      BY <1>00, <3>1
  <2> HIDE DEF n, seq, X
  <2>2. ASSUME NEW d, NEW x \in X PROVE WithDelta(t, lines, x, d) \in X
    <3>1. CASE d \in DOMAIN t.deltas
      <4>1. t.deltas \in Partial(DeltasAt(lines), OfKind(lines, "DELTA"))
        BY DEF TablesFrom
      <4>2. t.deltas[d] \in OfKind(lines, "DELTA")
        BY <3>1, <4>1 DEF Partial
      <4>3. ParseCFIRuleSet(lines[t.deltas[d]].rules, x) \in X
        BY <4>2, RuleSetStays DEF X
      <4> QED
        BY <3>1, <4>3 DEF WithDelta
    <3>2. CASE d \notin DOMAIN t.deltas
      BY <3>2 DEF WithDelta
    <3> QED
      BY <3>1, <3>2
  <2> QED
    BY <2>1, <2>2
<1> HIDE DEF X, x0, seq, n
<1> DEFINE step == [i \in 1..n |-> [x \in X |-> Op(x, seq[i])]]
           Body(g, S) == Op(g[S \ {Max(S)}], seq[Max(S)])
           it == CHOOSE g : g = [S \in SUBSET (1..n) |-> IF S = {} THEN x0 ELSE Body(g, S)]
<1>2. \A i \in 1..n : \A x \in X : step[i][x] = Op(x, seq[i]) /\ step[i][x] \in X
  <2> HIDE DEF Op
  <2> QED
    BY <1>1
<1>3. FoldLeft(LAMBDA r, k : WithDelta(t, lines, r, lines[i0].at + k - 1), x0, seq) = it[1..n]
  BY <1>1, Zenon DEF FoldLeft, MapThenFoldSet
<1> HIDE DEF Op, step
<1>4. \A g : \A S \in SUBSET (1..n) : S # {} /\ g[S \ {Max(S)}] \in X => Body(g, S) = step[Max(S)][g[S \ {Max(S)}]]
  <2> SUFFICES ASSUME NEW g, NEW S \in SUBSET (1..n), S # {}, g[S \ {Max(S)}] \in X
               PROVE  Body(g, S) = step[Max(S)][g[S \ {Max(S)}]]
    OBVIOUS
  <2>1. Max(S) \in 1..n
    BY <1>0, MaxUpTo
  <2> QED
    BY <1>2, <2>1
<1>5. it = [S \in SUBSET (1..n) |-> IF S = {} THEN x0 ELSE Body(it, S)]
  <2>1. PICK g : IsFold(g, n, X, x0, step)
    BY <1>0, <1>2, FoldExists
  <2>2. g \in [SUBSET (1..n) -> X] /\ \A S \in SUBSET (1..n) : g[S] = IF S = {} THEN x0 ELSE step[Max(S)][g[S \ {Max(S)}]]
    BY <2>1 DEF IsFold
  <2>3. \A S \in SUBSET (1..n) : S # {} => g[S \ {Max(S)}] \in X
    BY <2>2
  <2>4. \A S \in SUBSET (1..n) : g[S] = IF S = {} THEN x0 ELSE Body(g, S)
    BY <1>4, <2>2, <2>3
  <2> HIDE DEF Body
  <2>5. g = [S \in SUBSET (1..n) |-> IF S = {} THEN x0 ELSE Body(g, S)]
    BY <2>2, <2>4
  <2> USE DEF Body
  <2> QED
    BY <2>5, Zenon
<1> HIDE DEF it
<1>6. FoldsBy(it, n, X, x0, step)
  <2>1. it[{}] = x0 /\ \A S \in SUBSET (1..n) : S # {} => it[S] = Body(it, S)
    <3> HIDE DEF Body
    <3> QED
      BY <1>5
  <2> HIDE DEF Body
  <2> QED
    BY <1>4, <2>1 DEF FoldsBy
<1>7. it[1..n] \in X
  BY <1>0, <1>2, <1>6, FoldStays
<1>8. CASE ~ParsesWell(lines[i0].rules)
  BY <1>8, <1>00 DEF RulesFrom
<1>9. CASE ParsesWell(lines[i0].rules)
  <2>1. RulesFrom(t, lines, i0, a) = it[1..n]
    BY <1>00, <1>3, <1>9, Zenon DEF RulesFrom, x0, seq
  <2> QED
    BY <1>7, <2>1 DEF X
<1> QED
  BY <1>8, <1>9

LEMMA CFIFound ==
    ASSUME NEW lines, LinesOK(lines), NEW t \in TablesFrom(lines), NEW a \in Int
    PROVE  FindCFIFrameInfo(t, lines, a) # NULL => RulesOK(FindCFIFrameInfo(t, lines, a))
<1> DEFINE i == RetrieveRange(t.initial, a, 0)
           rules == RulesFrom(t, lines, i, a)
<1>1. i = 0 \/ i \in OfKind(lines, "INIT")
  <2>1. CASE Within(t.initial, a) = {}
    BY <2>1 DEF RetrieveRange
  <2>2. CASE Within(t.initial, a) # {}
    <3> DEFINE r == CHOOSE r \in Within(t.initial, a) : TRUE
    <3>1. r \in Within(t.initial, a)
      BY <2>2
    <3>2. i = r.index
      BY <2>2 DEF RetrieveRange
    <3> HIDE DEF r, i
    <3>3. r \in InitialIn(lines)
      BY <3>1 DEF Within, TablesFrom
    <3> QED
      BY <3>2, <3>3 DEF InitialIn, RangeOf
  <2> QED
    BY <2>1, <2>2
<1>2. FindCFIFrameInfo(t, lines, a) = rules
  BY DEF FindCFIFrameInfo
<1> HIDE DEF i
<1>3. CASE i = 0
  BY <1>2, <1>3 DEF RulesFrom
<1>4. CASE i \in OfKind(lines, "INIT")
  <2>1. rules # NULL => rules \in RulesFor(lines)
    BY <1>4, RulesStay
  <2> HIDE DEF rules
  <2>2. rules \in RulesFor(lines) => RulesOK(rules)
    BY DEF RulesFor, Partial, Expressions, RulesOK
  <2> QED
    BY <1>2, <2>1, <2>2
<1> QED
  BY <1>1, <1>3, <1>4

LEMMA WindowsAtOK ==
    ASSUME NEW lines, LinesOK(lines), NEW t \in TablesFrom(lines), NEW a
    PROVE  WindowsAt(t, a) = 0 \/ WindowsAt(t, a) \in OfKind(lines, "WIN")
<1> DEFINE of(type) == {r \in t.windows : r.type = type /\ r.base <= a /\ a <= r.high}
           found == IF of("data") # {} THEN of("data") ELSE of("fpo")
           r0 == CHOOSE r \in found : \A q \in found : r.high - r.base <= q.high - q.base
<1>1. WindowsAt(t, a) = IF found = {} THEN 0 ELSE r0.index
  BY DEF WindowsAt
<1>2. found \subseteq t.windows
  OBVIOUS
<1> HIDE DEF found
<1>3. t.windows \subseteq WindowsIn(lines)
  BY DEF TablesFrom
<1>4. \A r \in found : r.index \in OfKind(lines, "WIN") /\ r.high - r.base \in Nat
  <2> SUFFICES ASSUME NEW r \in found PROVE r.index \in OfKind(lines, "WIN") /\ r.high - r.base \in Nat
    OBVIOUS
  <2>1. PICK i \in OfKind(lines, "WIN") : lines[i].size > 0 /\ r = WindowsOf(lines, i)
    BY <1>2, <1>3 DEF WindowsIn
  <2>2. lines[i].at \in Int /\ lines[i].size \in Int
    BY DEF LinesOK, IsLine, OfKind
  <2>3. r.base = lines[i].at /\ r.high = lines[i].at + lines[i].size - 1 /\ r.index = i
    BY <2>1 DEF WindowsOf
  <2> QED
    BY <2>1, <2>2, <2>3
<1>5. CASE found # {}
  <2> DEFINE T == {r.high - r.base : r \in found}
  <2>1. T \in SUBSET Nat /\ T # {}
    BY <1>4, <1>5
  <2>2. PICK x \in T : \A y \in T : x <= y
    BY <2>1, LeastNumber
  <2>3. \E r \in found : \A q \in found : r.high - r.base <= q.high - q.base
    BY <2>2
  <2>4. r0 \in found
    BY <2>3
  <2> HIDE DEF r0
  <2> QED
    BY <1>1, <1>4, <1>5, <2>4
<1> QED
  BY <1>1, <1>5

LEMMA NearestOK ==
    ASSUME NEW lines, LinesOK(lines), NEW t \in TablesFrom(lines), NEW a \in Nat
    PROVE  NearestFunction(t, a) = NULL \/ NearestFunction(t, a).index \in OfKind(lines, "FUNC")
<1> DEFINE below == {r \in t.functions : r.base <= a}
           r0 == CHOOSE r \in below : \A q \in below : q.base <= r.base
<1>1. NearestFunction(t, a) = IF below = {} THEN NULL ELSE r0
  BY DEF NearestFunction, Nearest
<1>2. \A r \in below : r.index \in OfKind(lines, "FUNC") /\ r.base \in 0..a
  <2> SUFFICES ASSUME NEW r \in below PROVE r.index \in OfKind(lines, "FUNC") /\ r.base \in 0..a
    OBVIOUS
  <2>1. r \in FuncsIn(lines)
    BY DEF TablesFrom
  <2>2. PICK i \in OfKind(lines, "FUNC") : lines[i].at >= 0 /\ r = RangeOf(lines, i)
    BY <2>1 DEF FuncsIn
  <2>3. lines[i].at \in Int
    BY DEF LinesOK, IsLine, OfKind
  <2> QED
    BY <2>2, <2>3 DEF RangeOf
<1> HIDE DEF below
<1>3. CASE below # {}
  <2> DEFINE T == {r.base : r \in below}
  <2>1. T \in SUBSET (0..a) /\ T # {}
    BY <1>2, <1>3
  <2>2. PICK x \in T : \A y \in T : y <= x
    BY <2>1, GreatestNumber
  <2>3. \E r \in below : \A q \in below : q.base <= r.base
    BY <2>2
  <2>4. r0 \in below
    BY <2>3
  <2> HIDE DEF r0
  <2> QED
    BY <1>1, <1>2, <1>3, <2>4
<1> QED
  BY <1>1, <1>3

LEMMA WindowsFound ==
    ASSUME NEW lines, LinesOK(lines), NEW t \in TablesFrom(lines), NEW a \in Nat
    PROVE  WindowsOK(FindWindowsFrameInfo(t, lines, a))
<1> DEFINE w == WindowsAt(t, a)
           f == NearestFunction(t, a)
<1>1. w = 0 \/ w \in OfKind(lines, "WIN")
  BY WindowsAtOK
<1>2. f = NULL \/ f.index \in OfKind(lines, "FUNC")
  BY NearestOK
<1>3. FindWindowsFrameInfo(t, lines, a) =
          IF w # 0 THEN [all |-> TRUE, params |-> lines[w].params, of |-> lines[w]]
          ELSE IF Inside(f, a) THEN [all |-> FALSE, params |-> lines[f.index].params, of |-> NULL] ELSE NULL
  BY DEF FindWindowsFrameInfo
<1> HIDE DEF w, f
<1>4. w \in OfKind(lines, "WIN") => lines[w].params \in Int /\ InfoOK(lines[w])
  BY DEF LinesOK, IsLine, OfKind, InfoOK
<1>5. f.index \in OfKind(lines, "FUNC") => lines[f.index].params \in Int
  BY DEF LinesOK, IsLine, OfKind
<1> QED
  BY <1>1, <1>2, <1>3, <1>4, <1>5 DEF WindowsOK, Inside

\* The supplier has a symbol file or none.
LEMMA SymbolFileFound ==
    ASSUME IsScene(scene), NEW m
    PROVE  GetSymbolFile(m) \in {NULL} \cup DOMAIN SymbolFiles
<1> DEFINE having == {r \in DOMAIN scene.roots : GetSymbolFileAtPathFromRoot(scene.roots[r], m) # NULL}
           root == scene.roots[Min(having)]
<1>1. GetSymbolFile(m) = IF having = {} THEN NULL ELSE GetSymbolFileAtPathFromRoot(root, m)
  BY DEF GetSymbolFile
<1>2. IsList(scene.roots) /\ \A r \in DOMAIN scene.roots : \A path \in DOMAIN scene.roots[r] : scene.roots[r][path] \in DOMAIN SymbolFiles
  BY DEF IsScene
<1>3. CASE having # {}
  <2>1. having \in SUBSET Nat /\ having \subseteq DOMAIN scene.roots
    BY <1>2 DEF IsList
  <2> HIDE DEF having
  <2>2. PICK x \in having : \A y \in having : x <= y
    BY <1>3, <2>1, LeastNumber
  <2>3. Min(having) \in having
    BY <2>2 DEF Min
  <2>4. \A path \in DOMAIN root : root[path] \in DOMAIN SymbolFiles
    BY <1>2, <2>1, <2>3
  <2> HIDE DEF root
  <2> DEFINE path == <<File(m.debug), m.id>>
  <2>5. At(root, path, NULL) \in {NULL} \cup DOMAIN SymbolFiles
    <3> HIDE DEF path
    <3> QED
      BY <2>4 DEF At
  <2> QED
    BY <1>1, <1>3, <2>5 DEF GetSymbolFileAtPathFromRoot
<1> QED
  BY <1>1, <1>3

LEMMA LoadedThere ==
    ASSUME IsScene(scene), NEW s, SymOK(s), NEW frame
    PROVE  LoadedFor(s, frame) \in {NULL} \cup DOMAIN SymbolFiles
<1> DEFINE file == scene.modules[frame.module].file
<1>1. FilesFound \subseteq {NULL} \cup DOMAIN SymbolFiles
  BY SymbolFileFound DEF FilesFound
<1>2. s.loaded \in Partial(FileNames, FilesFound)
  BY DEF SymOK, SymRecords
<1>3. PICK E : s.loaded \in [E -> FilesFound]
  BY <1>2 DEF Partial
<1>4. At(s.loaded, file, NULL) \in {NULL} \cup DOMAIN SymbolFiles
  BY <1>1, <1>3 DEF At
<1> QED
  BY <1>4 DEF LoadedFor

LEMMA OffsetOK ==
    ASSUME IsScene(scene), NEW frame, FrameOK(frame), frame.module # 0
    PROVE  Offset(frame) \in Nat
<1> DEFINE base == scene.modules[frame.module].base
<1>1. scene.modules # NULL /\ frame.module \in DOMAIN scene.modules
  BY DEF FrameOK, Modules
<1>2. base \in Nat
  BY <1>1 DEF IsScene
<1>3. frame.instruction \in Int
  BY AddrSpaceAssumption DEF FrameOK, Addresses
<1> HIDE DEF base
<1>4. (frame.instruction - base) % AddrSpace \in Nat
  BY <1>2, <1>3, AddrSpaceAssumption
<1> QED
  BY <1>4 DEF Offset, Wrap, base

LEMMA TableThere ==
    ASSUME NEW f \in DOMAIN SymbolFiles
    PROVE  LinesOK(SymbolFiles[f].lines) /\ Tables[f] \in TablesFrom(SymbolFiles[f].lines)
<1>1. LinesOK(SymbolFiles[f].lines)
  BY SymbolFilesAssumption DEF LinesOK
<1>2. Tables[f] = LoadMapFromMemory(SymbolFiles[f])
  BY DEF Tables
<1> QED
  BY <1>1, <1>2, MapLoaded

\* The rules found for a frame are ones, and so is the frame data.
LEMMA RulesFound ==
    ASSUME IsScene(scene), NEW s, SymOK(s), NEW frame, FrameOK(frame),
           CFIInfo(frame, LoadedFor(s, frame)) # NULL
    PROVE  RulesOK(CFIInfo(frame, LoadedFor(s, frame)))
<1> DEFINE f == LoadedFor(s, frame)
<1>1. f \in {NULL} \cup DOMAIN SymbolFiles
  BY LoadedThere
<1>2. f # NULL
  BY DEF CFIInfo
<1>3. frame.module # 0
  BY <1>2 DEF LoadedFor
<1>4. Offset(frame) \in Int
  BY <1>3, OffsetOK
<1> HIDE DEF f
<1>5. LinesOK(SymbolFiles[f].lines) /\ Tables[f] \in TablesFrom(SymbolFiles[f].lines)
  BY <1>1, <1>2, TableThere
<1>6. CFIInfo(frame, f) = FindCFIFrameInfo(Tables[f], SymbolFiles[f].lines, Offset(frame))
  BY <1>2 DEF CFIInfo
<1> QED
  BY <1>4, <1>5, <1>6, CFIFound DEF f

LEMMA FrameDataFound ==
    ASSUME IsScene(scene), NEW s, SymOK(s), NEW frame, FrameOK(frame)
    PROVE  WindowsOK(WindowsInfo(frame, LoadedFor(s, frame)))
<1> DEFINE f == LoadedFor(s, frame)
<1>1. f \in {NULL} \cup DOMAIN SymbolFiles
  BY LoadedThere
<1>2. CASE f = NULL
  BY <1>2 DEF WindowsInfo, WindowsOK
<1>3. CASE f # NULL
  <2>1. frame.module # 0
    BY <1>3 DEF LoadedFor
  <2>2. Offset(frame) \in Nat
    BY <2>1, OffsetOK
  <2> HIDE DEF f
  <2>3. LinesOK(SymbolFiles[f].lines) /\ Tables[f] \in TablesFrom(SymbolFiles[f].lines)
    BY <1>1, <1>3, TableThere
  <2>4. WindowsInfo(frame, f) = FindWindowsFrameInfo(Tables[f], SymbolFiles[f].lines, Offset(frame))
    BY <1>3 DEF WindowsInfo
  <2> QED
    BY <2>2, <2>3, <2>4, WindowsFound DEF f
<1> QED
  BY <1>2, <1>3
---------------------------------------------------------------------------
(* The caller of a frame.                                                  *)

LEMMA OrCFIOK ==
    ASSUME Here, NEW c, NEW last, FrameOK(last), NEW scan, CallerOK(c, scan)
    PROVE  CallerOK(OrCFI(c, last), scan)
<1>1. CASE c.new # NULL
  BY <1>1 DEF OrCFI
<1>2. CASE c.new = NULL
  <2> DEFINE rules == CFIInfo(last, LoadedFor(c.sym, last))
  <2>1. SymOK(c.sym)
    BY DEF CallerOK
  <2>2. rules # NULL => RulesOK(rules)
    BY <2>1, RulesFound DEF Here
  <2>3. OrCFI(c, last) = ByCFI(c.sym, last, rules)
    BY <1>2 DEF OrCFI
  <2> HIDE DEF rules
  <2> QED
    BY <2>1, <2>2, <2>3, ByCFIOK
<1> QED
  BY <1>1, <1>2

LEMMA GetCallerOK ==
    ASSUME Here, NEW c, NEW frames, NEW last, FrameOK(last), NEW scan \in BOOLEAN, CallerOK(c, scan)
    PROVE  CallerOK(GetCaller(c, frames, last, scan), scan)
<1>1. CASE scene.cpu = "x86"
  <2>1. GetCaller(c, frames, last, scan) = OrEBP(c, frames, last, scan)
    BY <1>1 DEF GetCaller
  <2> QED
    BY <2>1, OrEBPOK
<1>2. CASE scene.cpu = "amd64"
  <2> DEFINE c1 == OrFP_AMD64(c, last)
             c2 == OrScan_AMD64(c1, frames, last, scan)
  <2>1. GetCaller(c, frames, last, scan) = Truncated(c2)
    BY <1>2 DEF GetCaller
  <2>2. CallerOK(c1, scan)
    BY OrFPAMD64OK
  <2> HIDE DEF c1
  <2>3. CallerOK(c2, scan)
    BY <2>2, OrScanAMD64OK
  <2> HIDE DEF c2
  <2> QED
    BY <2>1, <2>3, TruncatedOK
<1>3. CASE scene.cpu \notin {"x86", "amd64"}
  <2> DEFINE c1 == OrFP_ARM(c, last)
  <2>1. GetCaller(c, frames, last, scan) = OrScan_ARM(c1, frames, last, scan)
    BY <1>3 DEF GetCaller
  <2>2. CallerOK(c1, scan)
    BY OrFPARMOK
  <2> HIDE DEF c1
  <2> QED
    BY <2>1, <2>2, OrScanARMOK
<1> QED
  BY <1>1, <1>2, <1>3

\* A frame that is to be put above another: the stack goes on with it.
Follows(new, last) ==
    scene.cpu # "list" =>
        /\ new.regs.sp >= last.regs.sp
        /\ scene.cpu = "x86" => new.regs.sp > last.regs.sp
        /\ new.regs.ip # 0

NextOK(new, last, scan) == FrameOK(new) /\ Follows(new, last) /\ (~scan => Dubious(new.trust) = 0)

LEMMA NewFrameOK ==
    ASSUME NEW trust \in Trusts, NEW regs \in Regs, NEW valid \in SUBSET Registers, NEW instruction \in Addresses
    PROVE  FrameOK(NewFrame(Caller(trust, regs, valid), instruction))
<1> DEFINE f == NewFrame(Caller(trust, regs, valid), instruction)
<1>1. f = [trust |-> trust, regs |-> regs, valid |-> valid, instruction |-> instruction,
           module |-> 0, name |-> Nameless, win |-> NULL]
  BY DEF NewFrame, Caller
<1> HIDE DEF f
<1>2. FrameOK(f)
  BY <1>1 DEF FrameOK, WindowsOK
<1> QED
  BY <1>2 DEF f

LEMMA ListFrameOK ==
    ASSUME IsScene(scene), NEW k \in Nat \ {0}, ListFrame(k) # NULL
    PROVE  FrameOK(ListFrame(k)) /\ Dubious(ListFrame(k).trust) = 0
<1> DEFINE instruction == scene.addresses[k]
<1>1. instruction \in Addresses
  BY DEF IsScene, ListFrame
<1>2. ListFrame(k) = NewFrame(Caller("PREWALKED", NoRegs, {}), instruction)
  BY DEF ListFrame
<1> HIDE DEF instruction
<1>3. NoRegs \in Regs /\ {} \in SUBSET Registers /\ "PREWALKED" \in Trusts
  BY WordIsAddress DEF NoRegs, Regs, Registers, Trusts
<1>4. ListFrame(k).trust = "PREWALKED"
  BY <1>2 DEF NewFrame, Caller
<1> QED
  BY <1>1, <1>2, <1>3, <1>4, NewFrameOK DEF Dubious

LEMMA CalledOK ==
    ASSUME scene.cpu # "list", NEW c, NEW scan, CallerOK(c, scan), NEW last, FrameOK(last), Called(c, last).new # NULL
    PROVE  NextOK(Called(c, last).new, last, scan)
<1> DEFINE new == c.new
           instruction == A(new.regs.ip - CallLength)
           f == NewFrame(new, instruction)
<1>1. new # NULL /\ ~EndsStack(new.regs, last.regs) /\ Called(c, last).new = f
  BY DEF Called
<1>2. FoundOK(new, scan)
  BY <1>1 DEF CallerOK
<1> HIDE DEF new
<1>3. /\ new.regs.ip \in Word /\ new.regs.sp \in Word /\ last.regs.sp \in Word
  BY <1>2, RegIs DEF FoundOK, FrameOK
<1>4. new.regs.ip \in Int /\ new.regs.sp \in Int /\ last.regs.sp \in Int
  BY <1>3, WordIsInt
<1>5. instruction \in Addresses
  <2>1. CallLength \in Int
    BY DEF CallLength
  <2>2. new.regs.ip - CallLength \in Int
    BY <1>4, <2>1
  <2> QED
    BY <2>2, ArithmeticOK, WordIsAddress
<1> HIDE DEF instruction
<1>6. new = Caller(new.trust, new.regs, new.valid)
  BY <1>2 DEF FoundOK
<1>7. FrameOK(f)
  BY <1>2, <1>5, <1>6, NewFrameOK DEF FoundOK
<1>8. f.regs = new.regs /\ f.trust = new.trust
  BY DEF NewFrame
<1> HIDE DEF f
<1>9. Follows(f, last)
  BY <1>1, <1>4, <1>8 DEF EndsStack, Follows
<1> QED
  BY <1>1, <1>2, <1>7, <1>8, <1>9 DEF NextOK, FoundOK

\* Whatever the walker, the caller it gives is one.
LEMMA CallerFound ==
    ASSUME IsScene(scene), walk.thread \in DOMAIN scene.threads, NEW s, SymOK(s), NEW frames, FramesOK(frames),
           NEW last, FrameOK(last), NEW scan \in BOOLEAN
    PROVE  /\ SymOK(GetCallerFrame(s, frames, last, scan).sym)
           /\ GetCallerFrame(s, frames, last, scan).new # NULL => NextOK(GetCallerFrame(s, frames, last, scan).new, last, scan)
<1> DEFINE c == GetCallerFrame(s, frames, last, scan)
<1>1. CASE scene.cpu = "list"
  <2> DEFINE k == Len(frames) + 1
  <2>1. c = [sym |-> s, new |-> ListFrame(k)]
    BY <1>1 DEF GetCallerFrame
  <2>2. k \in Nat \ {0}
    BY DEF FramesOK, IsList
  <2> HIDE DEF k
  <2>3. ListFrame(k) # NULL => NextOK(ListFrame(k), last, scan)
    BY <1>1, <2>2, ListFrameOK DEF NextOK, Follows
  <2> QED
    BY <2>1, <2>3
<1>2. CASE scene.cpu # "list" /\ Memory = NULL
  <2>1. c = NoCaller(s)
    BY <1>2 DEF GetCallerFrame
  <2> QED
    BY <2>1 DEF NoCaller
<1>3. CASE scene.cpu # "list" /\ Memory # NULL
  <2> DEFINE c1 == FromWindows(s, frames, last, scan)
             c2 == OrCFI(c1, last)
             c3 == GetCaller(c2, frames, last, scan)
  <2>1. c = Called(c3, last)
    BY <1>3 DEF GetCallerFrame
  <2>2. Here
    BY <1>3 DEF Here
  <2>3. CallerOK(c1, scan)
    BY <2>2, ByWindowsOK
  <2> HIDE DEF c1
  <2>4. CallerOK(c2, scan)
    BY <2>2, <2>3, OrCFIOK
  <2> HIDE DEF c2
  <2>5. CallerOK(c3, scan)
    BY <2>2, <2>4, GetCallerOK
  <2> HIDE DEF c3
  <2>6. Called(c3, last).new # NULL => NextOK(Called(c3, last).new, last, scan)
    BY <1>3, <2>5, CalledOK
  <2>7. SymOK(Called(c3, last).sym)
    BY <2>5 DEF Called, CallerOK
  <2> QED
    BY <2>1, <2>6, <2>7
<1> QED
  BY <1>1, <1>2, <1>3
---------------------------------------------------------------------------
(* The walk.                                                               *)

\* The frames that are there by a scan.
Scans(frames) == {i \in DOMAIN frames : Dubious(frames[i].trust) = 1}

LEMMA DubiousIs ==
    ASSUME NEW trust
    PROVE  Dubious(trust) \in {0, 1}
BY DEF Dubious

LEMMA AppendedFrames ==
    ASSUME NEW frames, FramesOK(frames), NEW last, FrameOK(last)
    PROVE  /\ FramesOK(Append(frames, last))
           /\ Len(Append(frames, last)) = Len(frames) + 1
           /\ DOMAIN Append(frames, last) = 1..(Len(frames) + 1)
           /\ \A i \in DOMAIN frames : Append(frames, last)[i] = frames[i]
           /\ Append(frames, last)[Len(frames) + 1] = last
           /\ Len(frames) \in Nat /\ DOMAIN frames = 1..Len(frames)
<1> DEFINE S == {frames[i] : i \in DOMAIN frames} \cup {last}
           more == Append(frames, last)
           n == Len(frames)
<1>1. frames \in Seq({frames[i] : i \in DOMAIN frames}) /\ n \in Nat /\ DOMAIN frames = 1..n
  BY DEF FramesOK, IsList
<1>2. frames \in Seq(S)
  <2>1. frames \in [1..n -> S]
    BY <1>1
  <2> HIDE DEF S
  <2> QED
    BY <1>1, <2>1
<1>3. last \in S
  OBVIOUS
<1> HIDE DEF S
<1>4. more \in Seq(S) /\ Len(more) = n + 1 /\ DOMAIN more = 1..(n + 1) /\ more[n + 1] = last
      /\ \A i \in 1..n : more[i] = frames[i]
  BY <1>1, <1>2, <1>3
<1>5. IsList(more)
  BY <1>4, ListIs
<1>6. \A i \in DOMAIN more : FrameOK(more[i])
  BY <1>1, <1>4 DEF FramesOK
<1> QED
  BY <1>1, <1>4, <1>5, <1>6 DEF FramesOK

LEMMA ScansCounted ==
    ASSUME NEW frames, FramesOK(frames), NEW last, FrameOK(last)
    PROVE  Cardinality(Scans(Append(frames, last))) = Cardinality(Scans(frames)) + Dubious(last.trust)
           /\ Cardinality(Scans(frames)) \in Nat
<1> DEFINE more == Append(frames, last)
           n == Len(frames)
<1>1. DOMAIN more = 1..(n + 1) /\ more[n + 1] = last /\ (\A i \in DOMAIN frames : more[i] = frames[i])
      /\ n \in Nat /\ DOMAIN frames = 1..n
  BY AppendedFrames
<1> HIDE DEF more, n
<1>2. IsFiniteSet(Scans(frames))
  <2>1. IsFiniteSet(1..n)
    BY <1>1, FS_Interval
  <2>2. Scans(frames) \subseteq 1..n
    BY <1>1 DEF Scans
  <2> QED
    BY <2>1, <2>2, FS_Subset
<1>3. Cardinality(Scans(frames)) \in Nat
  BY <1>2, FS_CardinalityType
<1>4. CASE Dubious(last.trust) = 1
  <2>1. Scans(more) = Scans(frames) \cup {n + 1}
    BY <1>1, <1>4 DEF Scans
  <2>2. n + 1 \notin Scans(frames)
    BY <1>1 DEF Scans
  <2> QED
    BY <1>2, <1>3, <1>4, <2>1, <2>2, FS_AddElement DEF more
<1>5. CASE Dubious(last.trust) # 1
  <2>1. Scans(more) = Scans(frames)
    BY <1>1, <1>5 DEF Scans
  <2>2. Dubious(last.trust) = 0
    BY <1>5, DubiousIs
  <2> QED
    BY <1>3, <2>1, <2>2 DEF more
<1> QED
  BY <1>4, <1>5

\* The frame that is to be put on the stack next: there is room for it, and
\* for one more by a scan if it is there by one.
NextThere(next, frames, scanned) ==
    /\ FrameOK(next)
    /\ Len(frames) <= scene.limits.frames
    /\ scanned + Dubious(next.trust) <= scene.limits.scanned
    /\ Len(frames) > 0 => Follows(next, frames[Len(frames)])

WalkRecord(w) ==
    w = [pc |-> w.pc, thread |-> w.thread, next |-> w.next, frames |-> w.frames, scanned |-> w.scanned,
         without |-> w.without, corrupt |-> w.corrupt, result |-> w.result, walks |-> w.walks]

WalkOK(w) ==
    /\ WalkRecord(w)
    /\ w.thread \in DOMAIN scene.threads
    /\ w.pc \in {"frame", "done"} /\ (w.next = NULL <=> w.pc = "done")
    /\ FramesOK(w.frames)
    /\ Len(w.frames) <= scene.limits.frames + 1
    /\ w.scanned = Cardinality(Scans(w.frames)) /\ w.scanned \in 0..scene.limits.scanned
    /\ \A i \in 2..Len(w.frames) : Follows(w.frames[i], w.frames[i - 1])
    /\ w.next # NULL => NextThere(w.next, w.frames, w.scanned)

\* What a list of modules says of the symbols of those whose file no other has.
ModulesSaid(list, result) ==
    /\ list \in Seq(Modules)
    /\ \A i \in Modules : Unique(i) /\ Contains(list, i) => SaidOf(i, result)

ListsOK(w) == ModulesSaid(w.without, "error") /\ ModulesSaid(w.corrupt, "corrupt")

\* Strengthens the properties of StackWalk: what the supplier has is kept in
\* the symbolizer and said in the lists, every frame is made of words, and the
\* frame that comes next goes on with the stack within its limits.
IInv == IsScene(scene) /\ SymOK(sym) /\ WalkOK(walk) /\ ListsOK(walk)

LEMMA PushedOK ==
    ASSUME IsScene(scene), NEW next, FrameOK(next), NEW f, AnswerOK(f)
    PROVE  /\ FrameOK(WithWindows(Pushed(next, f), f.sym))
           /\ WithWindows(Pushed(next, f), f.sym).trust = next.trust
           /\ WithWindows(Pushed(next, f), f.sym).regs = next.regs
           /\ WithWindows(Pushed(next, f), f.sym).module = f.module
<1> DEFINE frame == Pushed(next, f)
           win == WindowsInfo(frame, LoadedFor(f.sym, frame))
<1>1. frame = [trust |-> next.trust, regs |-> next.regs, valid |-> next.valid, instruction |-> next.instruction,
               module |-> f.module, name |-> f.name, win |-> next.win]
  <2>1. next = [trust |-> next.trust, regs |-> next.regs, valid |-> next.valid, instruction |-> next.instruction,
                module |-> next.module, name |-> next.name, win |-> next.win]
    BY DEF FrameOK
  <2> DEFINE m == [next EXCEPT !.module = f.module]
  <2>2. m = [trust |-> next.trust, regs |-> next.regs, valid |-> next.valid, instruction |-> next.instruction,
             module |-> f.module, name |-> next.name, win |-> next.win]
    BY <2>1
  <2>3. frame = [m EXCEPT !.name = f.name]
    BY DEF Pushed
  <2> HIDE DEF m, frame
  <2> QED
    BY <2>2, <2>3
<1>2. f.module \in {0} \cup Modules /\ SymOK(f.sym)
  BY DEF AnswerOK
<1> HIDE DEF frame
<1>3. FrameOK(frame)
  BY <1>1, <1>2 DEF FrameOK
<1>4. WindowsOK(win)
  BY <1>2, <1>3, FrameDataFound
<1> HIDE DEF win
<1> DEFINE q == [frame EXCEPT !.win = win]
<1>5. q = [trust |-> next.trust, regs |-> next.regs, valid |-> next.valid, instruction |-> next.instruction,
           module |-> f.module, name |-> f.name, win |-> win]
  BY <1>1
<1> HIDE DEF q
<1>6. FrameOK(q) /\ q.trust = next.trust /\ q.regs = next.regs /\ q.module = f.module
  BY <1>2, <1>4, <1>5 DEF FrameOK
<1>7. frame.trust = next.trust /\ frame.regs = next.regs /\ frame.module = f.module
  BY <1>1
<1>8. WithWindows(frame, f.sym) = frame \/ WithWindows(frame, f.sym) = q
  BY DEF WithWindows, win, q
<1> QED
  BY <1>3, <1>6, <1>7, <1>8 DEF frame

LEMMA Inserted ==
    ASSUME NEW list, NEW wanted \in {"error", "corrupt"}, ModulesSaid(list, wanted), NEW f, AnswerOK(f)
    PROVE  ModulesSaid(InsertSpecialAttentionModule(list, f.result, f.module, wanted), wanted)
<1> DEFINE i == f.module
<1>1. CASE f.result # wanted \/ i = 0 \/ Contains(list, i)
  BY <1>1 DEF InsertSpecialAttentionModule
<1>2. CASE ~(f.result # wanted \/ i = 0 \/ Contains(list, i))
  <2> DEFINE more == Append(list, i)
  <2>1. InsertSpecialAttentionModule(list, f.result, i, wanted) = more
    BY <1>2 DEF InsertSpecialAttentionModule
  <2>2. i \in Modules /\ (Unique(i) => SaidOf(i, wanted))
    BY <1>2 DEF AnswerOK
  <2> HIDE DEF i
  <2>3. list \in Seq(Modules)
    BY DEF ModulesSaid
  <2>4. /\ more \in Seq(Modules) /\ Len(more) = Len(list) + 1 /\ Len(list) \in Nat
        /\ more[Len(list) + 1] = i /\ \A j \in 1..Len(list) : more[j] = list[j]
    BY <2>2, <2>3
  <2> HIDE DEF more
  <2>5. \A m \in Modules : Contains(more, m) => Contains(list, m) \/ m = i
    BY <2>4 DEF Contains
  <2>6. ModulesSaid(more, wanted)
    BY <2>2, <2>4, <2>5 DEF ModulesSaid
  <2> QED
    BY <2>1, <2>6 DEF i
<1> QED
  BY <1>1, <1>2

LEMMA StartOK ==
    ASSUME IsScene(scene), NEW t \in DOMAIN scene.threads, NEW without, NEW corrupt, NEW walks
    PROVE  WalkOK(StartOf(t, GetContextFrame(t), without, corrupt, walks))
<1> DEFINE first == GetContextFrame(t)
           w == StartOf(t, first, without, corrupt, walks)
<1>1. first # NULL => FrameOK(first) /\ Dubious(first.trust) = 0
  <2>1. CASE scene.cpu = "list"
    <3>1. first = ListFrame(1)
      BY <2>1 DEF GetContextFrame
    <3> QED
      BY <3>1, ListFrameOK
  <2>2. CASE scene.cpu # "list"
    <3> DEFINE regs == scene.threads[t].regs
    <3>1. regs \in Regs
      BY DEF IsScene, Regs, Word
    <3>2. regs.ip \in Addresses
      BY <3>1, RegIs, WordIsAddress
    <3>3. first = NewFrame(Caller("CONTEXT", regs, {"ip", "sp", "fp", "lr"}), regs.ip)
      BY <2>2 DEF GetContextFrame
    <3> HIDE DEF regs, first
    <3>4. "CONTEXT" \in Trusts /\ {"ip", "sp", "fp", "lr"} \in SUBSET Registers
      BY DEF Trusts, Registers
    <3>5. FrameOK(first)
      BY <3>1, <3>2, <3>3, <3>4, NewFrameOK
    <3>6. first.trust = "CONTEXT"
      BY <3>3 DEF NewFrame, Caller
    <3> QED
      BY <3>5, <3>6 DEF Dubious
  <2> QED
    BY <2>1, <2>2
<1> HIDE DEF first
<1>2. w = [pc |-> IF first = NULL THEN "done" ELSE "frame", thread |-> t, next |-> first, frames |-> <<>>, scanned |-> 0,
           without |-> without, corrupt |-> corrupt, result |-> TRUE, walks |-> walks]
  BY DEF StartOf
<1> HIDE DEF w
<1>3. /\ WalkRecord(w) /\ w.thread = t /\ w.next = first /\ w.frames = <<>> /\ w.scanned = 0
      /\ w.pc \in {"frame", "done"} /\ (w.next = NULL <=> w.pc = "done")
  BY <1>2 DEF WalkRecord
<1>4. FramesOK(<<>>) /\ Len(<<>>) = 0 /\ Cardinality(Scans(<<>>)) = 0
  <2>1. <<>> \in Seq({}) /\ DOMAIN <<>> = {} /\ Len(<<>>) = 0
    OBVIOUS
  <2>2. IsList(<<>>)
    BY <2>1, ListIs
  <2>3. Scans(<<>>) = {}
    BY <2>1 DEF Scans
  <2> QED
    BY <2>1, <2>2, <2>3, FS_EmptySet DEF FramesOK
<1>5. scene.limits.frames \in Nat /\ scene.limits.scanned \in Nat
  BY DEF IsScene
<1>6. first # NULL => NextThere(first, <<>>, 0)
  BY <1>1, <1>4, <1>5 DEF NextThere
<1>7. WalkOK(w)
  BY <1>3, <1>4, <1>5, <1>6 DEF WalkOK
<1> QED
  BY <1>7 DEF w, first

LEMMA NoneSaid ==
    ASSUME NEW result
    PROVE  ModulesSaid(<<>>, result)
<1>1. <<>> \in Seq(Modules) /\ Len(<<>>) = 0
  OBVIOUS
<1>2. \A i : ~Contains(<<>>, i)
  BY <1>1 DEF Contains
<1> QED
  BY <1>1, <1>2 DEF ModulesSaid

LEMMA ContinuedTo ==
    ASSUME WalkRecord(walk), NEW frames, NEW scanned, NEW c, Continue(frames, scanned, c)
    PROVE  /\ sym' = c.sym
           /\ WalkRecord(walk') /\ walk'.thread = walk.thread /\ walk'.next = c.new /\ walk'.frames = frames
           /\ walk'.scanned = scanned /\ walk'.pc = IF c.new = NULL THEN "done" ELSE "frame"
           /\ walk'.without = InsertSpecialAttentionModule(walk.without, c.result, Last(frames).module, "error")
           /\ walk'.corrupt = InsertSpecialAttentionModule(walk.corrupt, c.result, Last(frames).module, "corrupt")
<1> DEFINE pc == IF c.new = NULL THEN "done" ELSE "frame"
           without == InsertSpecialAttentionModule(walk.without, c.result, Last(frames).module, "error")
           corrupt == InsertSpecialAttentionModule(walk.corrupt, c.result, Last(frames).module, "corrupt")
           next == c.new
<1>1. sym' = c.sym /\ walk' = [walk EXCEPT !.frames = frames, !.scanned = scanned, !.next = next, !.pc = pc,
                                          !.without = without, !.corrupt = corrupt]
  BY DEF Continue
<1> HIDE DEF pc, without, corrupt, next
<1>2. walk = [pc |-> walk.pc, thread |-> walk.thread, next |-> walk.next, frames |-> walk.frames, scanned |-> walk.scanned,
              without |-> walk.without, corrupt |-> walk.corrupt, result |-> walk.result, walks |-> walk.walks]
  BY DEF WalkRecord
<1>3. walk' = [pc |-> pc, thread |-> walk.thread, next |-> next, frames |-> frames, scanned |-> scanned,
               without |-> without, corrupt |-> corrupt, result |-> walk.result, walks |-> walk.walks]
  BY <1>1, <1>2
<1> QED
  BY <1>1, <1>3 DEF pc, without, corrupt, next, WalkRecord

LEMMA ContinueOK ==
    ASSUME IInv, walk.next # NULL, NEW f, AnswerOK(f), NEW last, FrameOK(last), Dubious(last.trust) = Dubious(walk.next.trust),
           last.regs = walk.next.regs, last.module = f.module,
           NEW frames, frames = Append(walk.frames, last), NEW scanned, scanned = walk.scanned + Dubious(last.trust),
           NEW c, SymOK(c.sym), c.result = f.result,
           c.new # NULL => NextOK(c.new, last, scanned < scene.limits.scanned) /\ Len(frames) <= scene.limits.frames,
           NEW s, NEW w, sym' = s, walk' = w, Continue(frames, scanned, c)
    PROVE  SymOK(s) /\ WalkOK(w) /\ ListsOK(w)
<1> DEFINE n == Len(walk.frames)
           pc == IF c.new = NULL THEN "done" ELSE "frame"
           without == InsertSpecialAttentionModule(walk.without, c.result, Last(frames).module, "error")
           corrupt == InsertSpecialAttentionModule(walk.corrupt, c.result, Last(frames).module, "corrupt")
<1>1. WalkOK(walk) /\ ListsOK(walk) /\ FramesOK(walk.frames) /\ NextThere(walk.next, walk.frames, walk.scanned)
  BY DEF IInv, WalkOK
<1>2. /\ FramesOK(frames) /\ Len(frames) = n + 1 /\ DOMAIN frames = 1..(n + 1) /\ frames[n + 1] = last
      /\ n \in Nat /\ DOMAIN walk.frames = 1..n /\ \A i \in 1..n : frames[i] = walk.frames[i]
  BY <1>1, AppendedFrames
<1>3. Last(frames) = last
  BY <1>2 DEF Last
<1>4. ModulesSaid(without, "error") /\ ModulesSaid(corrupt, "corrupt")
  BY <1>1, <1>3, Inserted DEF ListsOK
<1>5. s = c.sym /\ w = walk'
  BY <1>1, ContinuedTo DEF WalkOK
<1>6. /\ WalkRecord(w) /\ w.thread = walk.thread /\ w.next = c.new /\ w.frames = frames /\ w.scanned = scanned
      /\ w.pc = pc /\ w.without = without /\ w.corrupt = corrupt
  BY <1>1, ContinuedTo DEF WalkOK
<1> HIDE DEF pc, without, corrupt
<1>7. scene.limits.frames \in Nat /\ scene.limits.scanned \in Nat
  BY DEF IInv, IsScene
<1>8. scanned = Cardinality(Scans(frames)) /\ scanned \in 0..scene.limits.scanned
  <2>1. Cardinality(Scans(frames)) = Cardinality(Scans(walk.frames)) + Dubious(last.trust) /\ Cardinality(Scans(walk.frames)) \in Nat
    BY <1>1, ScansCounted
  <2>2. walk.scanned = Cardinality(Scans(walk.frames)) /\ walk.scanned + Dubious(last.trust) <= scene.limits.scanned
    BY <1>1 DEF WalkOK, NextThere
  <2>3. Dubious(last.trust) \in {0, 1}
    BY DubiousIs
  <2> QED
    BY <1>7, <2>1, <2>2, <2>3
<1>9. Len(frames) <= scene.limits.frames + 1
  BY <1>1, <1>2, <1>7 DEF NextThere
<1>10. \A i \in 2..Len(frames) : Follows(frames[i], frames[i - 1])
  <2> SUFFICES ASSUME NEW i \in 2..(n + 1) PROVE Follows(frames[i], frames[i - 1])
    BY <1>2
  <2>1. CASE i <= n
    <3>1. Follows(walk.frames[i], walk.frames[i - 1])
      BY <1>1, <1>2, <2>1 DEF WalkOK
    <3> QED
      BY <1>2, <2>1, <3>1
  <2>2. CASE i = n + 1
    <3>1. n > 0 /\ frames[i] = last /\ frames[i - 1] = walk.frames[n]
      BY <1>2, <2>2
    <3>2. Follows(walk.next, walk.frames[n])
      BY <1>1, <3>1 DEF NextThere
    <3> QED
      BY <3>1, <3>2 DEF Follows
  <2> QED
    BY <1>2, <2>1, <2>2
<1>11. c.new # NULL => NextThere(c.new, frames, scanned)
  <2> SUFFICES ASSUME c.new # NULL PROVE NextThere(c.new, frames, scanned)
    OBVIOUS
  <2>1. NextOK(c.new, last, scanned < scene.limits.scanned) /\ Len(frames) <= scene.limits.frames
    OBVIOUS
  <2>2. scanned + Dubious(c.new.trust) <= scene.limits.scanned
    <3>1. Dubious(c.new.trust) \in {0, 1}
      BY DubiousIs
    <3> QED
      BY <1>7, <1>8, <2>1, <3>1 DEF NextOK
  <2> QED
    BY <1>2, <2>1, <2>2 DEF NextThere, NextOK
<1>12. pc \in {"frame", "done"} /\ (c.new = NULL <=> pc = "done")
  BY DEF pc
<1>13. walk.thread \in DOMAIN scene.threads
  BY <1>1 DEF WalkOK
<1>14. WalkOK(w)
  BY <1>2, <1>6, <1>8, <1>9, <1>10, <1>11, <1>12, <1>13 DEF WalkOK
<1> QED
  BY <1>4, <1>5, <1>6, <1>14 DEF ListsOK

LEMMA FrameStep ==
    ASSUME IInv, Frame, NEW s, NEW w, sym' = s, walk' = w
    PROVE  SymOK(s) /\ WalkOK(w) /\ ListsOK(w)
<1> DEFINE f == FillSourceLineInfo(sym, walk.next.instruction)
<1>0. IsScene(scene) /\ SymOK(sym) /\ WalkOK(walk) /\ ListsOK(walk) /\ walk.next # NULL
  BY DEF IInv, Frame, WalkOK
<1>1. AnswerOK(f)
  BY <1>0, FilledOK
<1>2. CASE f.result = "interrupt"
  <2>1. s = f.sym /\ w = [walk EXCEPT !.pc = "done", !.next = NULL, !.result = FALSE]
    BY <1>2 DEF Frame
  <2>2. WalkRecord(walk)
    BY <1>0 DEF WalkOK
  <2>3. w = [pc |-> "done", thread |-> walk.thread, next |-> NULL, frames |-> walk.frames, scanned |-> walk.scanned,
             without |-> walk.without, corrupt |-> walk.corrupt, result |-> FALSE, walks |-> walk.walks]
    BY <2>1, <2>2 DEF WalkRecord
  <2>4. /\ WalkRecord(w) /\ w.thread = walk.thread /\ w.next = NULL /\ w.pc = "done" /\ w.frames = walk.frames
        /\ w.scanned = walk.scanned /\ w.without = walk.without /\ w.corrupt = walk.corrupt
    BY <2>3 DEF WalkRecord
  <2>5. WalkOK(w) /\ ListsOK(w)
    BY <1>0, <2>4 DEF WalkOK, ListsOK
  <2> QED
    BY <1>1, <2>1, <2>5 DEF AnswerOK
<1>3. CASE f.result # "interrupt"
  <2> DEFINE last == WithWindows(Pushed(walk.next, f), f.sym)
             frames == Append(walk.frames, last)
             scanned == walk.scanned + Dubious(last.trust)
             found == IF Len(frames) > scene.limits.frames THEN NoCaller(f.sym)
                      ELSE GetCallerFrame(f.sym, frames, last, scanned < scene.limits.scanned)
             c == WithResult(found, f.result)
  <2>1. Continue(frames, scanned, c)
    BY <1>3 DEF Frame
  <2> HIDE DEF f
  <2>2. FrameOK(walk.next) /\ FramesOK(walk.frames) /\ walk.thread \in DOMAIN scene.threads
    BY <1>0 DEF WalkOK, NextThere
  <2>3. FrameOK(last) /\ last.trust = walk.next.trust /\ last.regs = walk.next.regs /\ last.module = f.module
    BY <1>0, <1>1, <2>2, PushedOK
  <2> HIDE DEF last
  <2>4. FramesOK(frames) /\ Len(frames) \in Nat
    <3>1. Len(walk.frames) \in Nat /\ Len(frames) = Len(walk.frames) + 1 /\ FramesOK(frames)
      BY <2>2, <2>3, AppendedFrames
    <3> QED
      BY <3>1
  <2> HIDE DEF frames
  <2>5. (scanned < scene.limits.scanned) \in BOOLEAN /\ SymOK(f.sym)
    BY <1>1 DEF AnswerOK
  <2> HIDE DEF scanned
  <2>6. /\ SymOK(found.sym)
        /\ found.new # NULL => NextOK(found.new, last, scanned < scene.limits.scanned) /\ Len(frames) <= scene.limits.frames
    <3>1. scene.limits.frames \in Nat
      BY <1>0 DEF IsScene
    <3>2. CASE Len(frames) > scene.limits.frames
      BY <2>5, <3>2 DEF NoCaller
    <3>3. CASE ~(Len(frames) > scene.limits.frames)
      <4> DEFINE scan == scanned < scene.limits.scanned
                 g == GetCallerFrame(f.sym, frames, last, scan)
      <4>1. scan \in BOOLEAN /\ found = g
        BY <3>3
      <4> HIDE DEF scan
      <4>2. SymOK(g.sym) /\ (g.new # NULL => NextOK(g.new, last, scan))
        BY <1>0, <2>2, <2>3, <2>4, <2>5, <4>1, CallerFound
      <4> HIDE DEF g
      <4> QED
        BY <2>4, <3>1, <3>3, <4>1, <4>2 DEF scan
    <3> QED
      BY <3>2, <3>3
  <2> HIDE DEF found
  <2>7. c.sym = found.sym /\ c.new = found.new /\ c.result = f.result
    BY DEF WithResult
  <2> HIDE DEF c
  <2>8. Dubious(last.trust) = Dubious(walk.next.trust)
    BY <2>3
  <2>9. frames = Append(walk.frames, last) /\ scanned = walk.scanned + Dubious(last.trust)
    BY DEF frames, scanned
  <2>10. SymOK(c.sym) /\ (c.new # NULL => NextOK(c.new, last, scanned < scene.limits.scanned) /\ Len(frames) <= scene.limits.frames)
    BY <2>6, <2>7
  <2> QED
    BY <1>0, <1>1, <2>1, <2>3, <2>7, <2>8, <2>9, <2>10, ContinueOK
<1> QED
  BY <1>2, <1>3
---------------------------------------------------------------------------
(* What is said of the scene is said of it after a step, which keeps it.   *)

LEMMA SymStays ==
    ASSUME scene' = scene, NEW s, SymOK(s), sym' = s
    PROVE  SymOK(sym)'
<1>0. Modules' = Modules
  BY DEF Modules
<1>1. ASSUME NEW CONSTANT m PROVE GetSymbolFile(m)' = GetSymbolFile(m)
  BY DEF GetSymbolFile
<1>2. FileNames' = FileNames
  BY <1>0 DEF FileNames
<1>3. FilesFound' = FilesFound
  BY <1>0, <1>1 DEF FilesFound
<1>4. SymRecords' = SymRecords
  BY <1>2, <1>3 DEF SymRecords
<1>5. \A i : Unique(i)' <=> Unique(i)
  BY DEF Unique
<1>6. \A i : Kept1(s, i) => Kept1(sym, i)'
  BY <1>1 DEF Kept1
<1> QED
  BY <1>0, <1>4, <1>5, <1>6 DEF SymOK

LEMMA ListsStay ==
    ASSUME scene' = scene, NEW w, ListsOK(w), walk' = w
    PROVE  ListsOK(walk)'
<1>1. ASSUME NEW CONSTANT m PROVE GetSymbolFile(m)' = GetSymbolFile(m)
  BY DEF GetSymbolFile
<1>2. Modules' = Modules
  BY DEF Modules
<1>3. \A i : Unique(i)' <=> Unique(i)
  BY DEF Unique
<1>4. ASSUME NEW CONSTANT i, NEW CONSTANT result PROVE SaidOf(i, result)' <=> SaidOf(i, result)
  BY <1>1 DEF SaidOf
<1>5. ASSUME NEW CONSTANT list, NEW CONSTANT result, ModulesSaid(list, result) PROVE ModulesSaid(list, result)'
  <2>1. list \in Seq(Modules)'
    BY <1>2, <1>5 DEF ModulesSaid
  <2>2. \A i \in Modules : Unique(i) /\ Contains(list, i) => SaidOf(i, result)
    BY <1>5 DEF ModulesSaid
  <2>3. \A i \in Modules' : Unique(i)' /\ Contains(list, i)' => SaidOf(i, result)'
    BY <1>2, <1>3, <1>4, <2>2 DEF Contains
  <2> QED
    BY <2>1, <2>3 DEF ModulesSaid
<1>6. ModulesSaid(w.without, "error")' /\ ModulesSaid(w.corrupt, "corrupt")'
  BY <1>5 DEF ListsOK
<1> QED
  BY <1>6 DEF ListsOK

LEMMA WalkStays ==
    ASSUME scene' = scene, NEW w, WalkOK(w), walk' = w
    PROVE  WalkOK(walk)'
<1>1. Regs' = Regs /\ Modules' = Modules
  BY DEF Regs, Word, Modules
<1>2. \A f : FrameOK(f)' <=> FrameOK(f)
  BY <1>1 DEF FrameOK
<1>3. \A frames : FramesOK(frames)' <=> FramesOK(frames)
  BY <1>2 DEF FramesOK
<1>4. \A new, last : Follows(new, last)' <=> Follows(new, last)
  BY DEF Follows
<1>5. \A next, frames, scanned : NextThere(next, frames, scanned)' <=> NextThere(next, frames, scanned)
  BY <1>2, <1>4 DEF NextThere
<1>6. WalkOK(w)'
  BY <1>3, <1>4, <1>5 DEF WalkOK
<1> QED
  BY <1>6 DEF WalkOK, WalkRecord
---------------------------------------------------------------------------
(* The invariant is inductive.                                             *)

LEMMA ForgottenOK ==
    ASSUME SymOK(sym), NEW file \in DOMAIN sym.loaded,
           sym' = [sym EXCEPT !.loaded = [f \in DOMAIN @ \ {file} |-> @[f]], !.corrupt = @ \ {file}]
    PROVE  SymOK(sym')
<1> DEFINE loaded == [f \in DOMAIN sym.loaded \ {file} |-> sym.loaded[f]]
           corrupt == sym.corrupt \ {file}
<1>1. sym \in SymRecords
  BY DEF SymOK
<1>2. sym.loaded \in Partial(FileNames, FilesFound)
  BY <1>1 DEF SymRecords
<1>3. loaded \in Partial(FileNames, FilesFound)
  BY <1>2, WithoutInPartial
<1>4. /\ DOMAIN loaded = DOMAIN sym.loaded \ {file}
      /\ \A f \in DOMAIN loaded : loaded[f] = sym.loaded[f]
  OBVIOUS
<1>5. sym' = [sym EXCEPT !.loaded = loaded, !.corrupt = corrupt]
  OBVIOUS
<1> HIDE DEF loaded
<1>6. /\ sym' \in SymRecords
      /\ sym'.loaded = loaded /\ sym'.corrupt = corrupt /\ sym'.none = sym.none
  BY <1>1, <1>3, <1>5 DEF SymRecords
<1>7. DOMAIN sym'.loaded \cap sym'.none = {} /\ sym'.corrupt \subseteq DOMAIN sym'.loaded
  BY <1>4, <1>6 DEF SymOK
<1>8. ASSUME NEW i \in Modules, Unique(i)
      PROVE  Kept1(sym', i)
  <2>1. Kept1(sym, i)
    BY <1>8 DEF SymOK
  <2> QED
    BY <1>4, <1>6, <2>1 DEF Kept1
<1> QED
  BY <1>6, <1>7, <1>8 DEF SymOK

LEMMA EmptiedOK ==
    ASSUME SymOK(sym), sym' = [sym EXCEPT !.none = {}]
    PROVE  SymOK(sym')
<1>1. sym \in SymRecords
  BY DEF SymOK
<1>2. /\ sym' \in SymRecords
      /\ sym'.loaded = sym.loaded /\ sym'.corrupt = sym.corrupt /\ sym'.none = {}
  BY <1>1 DEF SymRecords
<1> QED
  BY <1>2 DEF SymOK, Kept1

LEMMA NoSymbolsOK == SymOK(NoSymbols)
<1>1. <<>> \in Partial(FileNames, FilesFound) /\ DOMAIN <<>> = {}
  BY DEF Partial
<1>2. NoSymbols \in SymRecords
  BY <1>1 DEF NoSymbols, SymRecords
<1> QED
  BY <1>1, <1>2 DEF NoSymbols, SymOK, Kept1

LEMMA StartLists ==
    ASSUME NEW t, NEW without, NEW corrupt, NEW walks, ModulesSaid(without, "error"), ModulesSaid(corrupt, "corrupt")
    PROVE  ListsOK(StartOf(t, GetContextFrame(t), without, corrupt, walks))
BY DEF StartOf, ListsOK

\* Walk() starts on a stack without frames, with a context frame of the
\* thread's registers, and nothing is kept of any module.
THEOREM InitInv == Init => IInv
<1> SUFFICES ASSUME Init PROVE IInv
  OBVIOUS
<1>1. IsScene(scene)
  BY ScenesAssumption DEF Init
<1>2. SymOK(sym)
  BY NoSymbolsOK DEF Init
<1>3. 1 \in DOMAIN scene.threads
  BY <1>1 DEF IsScene
<1>4. WalkOK(StartOf(1, GetContextFrame(1), <<>>, <<>>, 1))
  BY <1>1, <1>3, StartOK
<1>5. ListsOK(StartOf(1, GetContextFrame(1), <<>>, <<>>, 1))
  BY NoneSaid, StartLists
<1> QED
  BY <1>1, <1>2, <1>4, <1>5 DEF IInv, Init

\* Every step keeps the scene and leaves what is said of the rest.
LEMMA StepInv ==
    ASSUME IInv, scene' = scene, NEW s, NEW w, sym' = s, walk' = w, SymOK(s), WalkOK(w), ListsOK(w)
    PROVE  IInv'
<1>1. IsScene(scene)'
  BY DEF IInv
<1> QED
  BY <1>1, SymStays, WalkStays, ListsStay DEF IInv

\* An iteration of Walk's loop, the walk of another stack, Reset() and
\* UnloadModule() all keep the invariant.
THEOREM NextInv == IInv /\ [Next]_vars => IInv'
<1> SUFFICES ASSUME IInv, [Next]_vars PROVE IInv'
  OBVIOUS
<1>1. IsScene(scene) /\ SymOK(sym) /\ WalkOK(walk) /\ ListsOK(walk)
  BY DEF IInv
<1>2. scene' = scene
  BY DEF Next, vars, Frame, Again, Reset, UnloadModule
<1> SUFFICES SymOK(sym') /\ WalkOK(walk') /\ ListsOK(walk')
  BY <1>2, StepInv
<1>3. CASE Frame
  BY <1>3, FrameStep
<1>4. CASE Again
  <2>1. PICK t \in DOMAIN scene.threads :
            walk' = StartOf(t, GetContextFrame(t), walk.without, walk.corrupt, walk.walks + 1)
    BY <1>4 DEF Again
  <2>2. sym' = sym
    BY <1>4 DEF Again
  <2>3. WalkOK(walk')
    BY <1>1, <2>1, StartOK
  <2>4. ModulesSaid(walk.without, "error") /\ ModulesSaid(walk.corrupt, "corrupt")
    BY <1>1 DEF ListsOK
  <2>5. ListsOK(walk')
    BY <2>1, <2>4, StartLists
  <2> QED
    BY <1>1, <2>2, <2>3, <2>5
<1>5. CASE Reset
  <2>1. PICK t \in DOMAIN scene.threads : walk' = StartOf(t, GetContextFrame(t), <<>>, <<>>, walk.walks + 1)
    BY <1>5 DEF Reset
  <2>2. SymOK(sym')
    BY <1>1, <1>5, EmptiedOK DEF Reset
  <2>3. WalkOK(walk')
    BY <1>1, <2>1, StartOK
  <2>4. ListsOK(walk')
    BY <2>1, NoneSaid, StartLists
  <2> QED
    BY <2>2, <2>3, <2>4
<1>6. CASE UnloadModule
  <2>1. SymOK(sym')
    BY <1>1, <1>6, ForgottenOK DEF UnloadModule
  <2>2. walk' = walk
    BY <1>6 DEF UnloadModule
  <2> QED
    BY <1>1, <2>1, <2>2
<1>7. CASE UNCHANGED vars
  BY <1>1, <1>7 DEF vars
<1> QED
  BY <1>3, <1>4, <1>5, <1>6, <1>7 DEF Next

\* Whatever is walked, and however often, with the symbols forgotten or
\* interrupted on the way.
THEOREM Invariance == Spec => []IInv
BY InitInv, NextInv, PTL DEF Spec
---------------------------------------------------------------------------
(* The properties.                                                         *)

LEMMA InvTypes == IInv => TypeOK
<1> SUFFICES ASSUME IInv PROVE TypeOK
  OBVIOUS
<1>1. IsScene(scene) /\ SymOK(sym) /\ WalkOK(walk) /\ FramesOK(walk.frames)
  BY DEF IInv, WalkOK
<1>2. ASSUME NEW i \in DOMAIN walk.frames
      PROVE  /\ walk.frames[i].trust \in Trusts
             /\ walk.frames[i].instruction \in Addresses
             /\ \A r \in Registers : walk.frames[i].regs[r] \in Addresses
             /\ walk.frames[i].module \in 0..(IF scene.modules = NULL THEN 0 ELSE Len(scene.modules))
  <2>1. FrameOK(walk.frames[i])
    BY <1>1, <1>2 DEF FramesOK
  <2>2. walk.frames[i].trust \in Trusts /\ walk.frames[i].instruction \in Addresses
        /\ walk.frames[i].regs \in [Registers -> Word] /\ walk.frames[i].module \in {0} \cup Modules
    BY <2>1 DEF FrameOK, Regs
  <2>3. \A r \in Registers : walk.frames[i].regs[r] \in Addresses
    BY <2>2, WordIsAddress
  <2>4. walk.frames[i].module \in 0..(IF scene.modules = NULL THEN 0 ELSE Len(scene.modules))
    <3>1. CASE scene.modules = NULL
      BY <2>2, <3>1 DEF Modules
    <3>2. CASE scene.modules # NULL
      <4>1. IsList(scene.modules)
        BY <1>1, <3>2 DEF IsScene
      <4>2. DOMAIN scene.modules = 1..Len(scene.modules) /\ Len(scene.modules) \in Nat
        BY <4>1 DEF IsList
      <4> QED
        BY <2>2, <3>2, <4>2 DEF Modules
    <3> QED
      BY <3>1, <3>2
  <2> QED
    BY <2>2, <2>3, <2>4
<1>3. walk.pc \in {"frame", "done"} /\ (walk.next = NULL <=> walk.pc = "done")
  BY <1>1 DEF WalkOK
<1>4. DOMAIN sym.loaded \cap sym.none = {} /\ sym.corrupt \subseteq DOMAIN sym.loaded
  BY <1>1 DEF SymOK
<1> QED
  BY <1>2, <1>3, <1>4 DEF TypeOK

LEMMA InvGetsOn == IInv => WalkGetsOn
<1> SUFFICES ASSUME IInv PROVE WalkGetsOn
  OBVIOUS
<1>1. WalkOK(walk) /\ IsScene(scene)
  BY DEF IInv
<1>2. Len(walk.frames) <= scene.limits.frames + 1
  BY <1>1 DEF WalkOK
<1>3. Cardinality(Scans(walk.frames)) <= scene.limits.scanned
  BY <1>1 DEF WalkOK, IsScene
<1>4. \A i \in 2..Len(walk.frames) : Follows(walk.frames[i], walk.frames[i - 1])
  BY <1>1 DEF WalkOK
<1> QED
  BY <1>2, <1>3, <1>4 DEF WalkGetsOn, Scans, Follows

LEMMA InvKnown == IInv => SymbolsKnown
<1> SUFFICES ASSUME IInv, scene.modules # NULL, NEW i \in DOMAIN scene.modules, Unique(i)
             PROVE  LET file == scene.modules[i].file  f == GetSymbolFile(scene.modules[i])
                    IN  /\ file \in DOMAIN sym.loaded => sym.loaded[file] = f /\ (file \in sym.corrupt <=> IsCorrupt(Tables[f]))
                        /\ Contains(walk.without, i) => f = NULL \/ ~scene.resolver \/ ~scene.supplier
                        /\ Contains(walk.corrupt, i) => f # NULL /\ IsCorrupt(Tables[f])
  BY DEF SymbolsKnown
<1>1. Kept1(sym, i) /\ i \in Modules
  BY DEF IInv, SymOK, Modules
<1>2. Contains(walk.without, i) => SaidOf(i, "error")
  BY <1>1 DEF IInv, ListsOK, ModulesSaid
<1>3. Contains(walk.corrupt, i) => SaidOf(i, "corrupt")
  BY <1>1 DEF IInv, ListsOK, ModulesSaid
<1> QED
  BY <1>1, <1>2, <1>3 DEF Kept1, SaidOf

\* A frame has one of the trusts the walkers give, registers and an address
\* that are ones of the CPU, and a module of the list; no module has symbols
\* and is known to have none, whatever the walkers read from the stack.
THEOREM Typing == Spec => []TypeOK
BY Invariance, InvTypes, PTL

\* Every walk stays within its limits, and GetCallerFrame of no CPU takes a
\* caller whose stack pointer is below its callee's (on x86, that is not above
\* it) or whose return address is zero: a walk ends, however the memory is
\* filled.
THEOREM WalkGoesOn == Spec => []WalkGetsOn
BY Invariance, InvGetsOn, PTL

\* FillSourceLineInfo puts a module into the lists of those without symbols
\* and with corrupt ones only if the supplier has it so, and the resolver
\* keeps of it what the supplier has: after other modules, other walks, an
\* interrupted answer, Reset and UnloadModule too.
THEOREM SymbolsAreKnown == Spec => []SymbolsKnown
BY Invariance, InvKnown, PTL
=============================================================================
